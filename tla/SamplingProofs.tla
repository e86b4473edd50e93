--------------------------- MODULE SamplingProofs ---------------------------
(***************************************************************************)
(* Proofs about Sampling, for every number of waves and blocks, every      *)
(* share of the blocks, length of the windows, threshold and sequence of   *)
(* measured times: the sums that the predictions are computed from are     *)
(* those of the windows, the coverage is that of the stable blocks, and    *)
(* every wave ends once, in time.                                          *)
(*                                                                         *)
(* The sums are folds over sets, of which the module first proves what it  *)
(* needs: an element that joins or leaves adds or takes its value.         *)
(***************************************************************************)
EXTENDS Sampling, SequenceTheorems, FiniteSetTheorems, WellFoundedInduction, TLAPS

-----------------------------------------------------------------------------
(* Induction over numbers and finite sets, and sums.                       *)

\* A set of numbers has a least one.
LEMMA SmallestNat ==
  ASSUME NEW S \in SUBSET Nat, S # {}
  PROVE  \E n \in S : \A m \in S : n <= m
<1> DEFINE R == {ss \in Nat \X Nat : ss[1] < ss[2]}
<1>1. IsWellFoundedOn(R, Nat)
  BY NatLessThanWellFounded DEF OpToRel
<1>2. \E x \in S : \A y \in S : ~ (<<y, x>> \in R)
  <2> HIDE DEF R
  <2> QED BY <1>1, WFMin
<1>3. PICK x \in S : \A y \in S : ~ (<<y, x>> \in R)
  BY <1>2
<1>4. \A y, z \in Nat : y < z => <<y, z>> \in R
  OBVIOUS
<1>5. \A y \in S : x \in Nat /\ y \in Nat /\ ~ (y < x)
  BY <1>3, <1>4
<1> QED  BY <1>5

\* A set that has 0 and with every number the next one has them all.
LEMMA Induction ==
  ASSUME NEW T, 0 \in T, \A n \in Nat : n \in T => n + 1 \in T
  PROVE  Nat \subseteq T
<1> SUFFICES ASSUME Nat \ T # {} PROVE FALSE
  OBVIOUS
<1>1. PICK n \in Nat \ T : \A m \in Nat \ T : n <= m
  BY SmallestNat
<1>2. n # 0 /\ n - 1 \in Nat /\ (n - 1) + 1 = n /\ ~ (n <= n - 1)
  BY <1>1
<1> QED BY <1>1, <1>2

\* What the sums of the code's counters are: every subset gets the value of
\* one of its elements and the sum of the others.
Pick(S) == CHOOSE x \in S : TRUE
IsSum(F, f, S) ==
  F = [s \in SUBSET S |-> IF s = {} THEN 0 ELSE f[Pick(s)] + F[s \ {Pick(s)}]]

\* A sum is the value of such a function.
LEMMA SumIs ==
  ASSUME NEW f, NEW S
  PROVE  SumFunctionOnSet(f, S) = (CHOOSE F : IsSum(F, f, S))[S]
BY Zenon DEF SumFunctionOnSet, FoldFunctionOnSet, MapThenFoldSet, IsSum, Pick

\* What holds of the empty set, and of a set when it holds of the set without
\* any one of its elements, holds of every finite set.
LEMMA SetInduction ==
  ASSUME NEW S, IsFiniteSet(S), NEW T,
         \A A \in SUBSET S : (\A x \in A : A \ {x} \in T) => A \in T
  PROVE  SUBSET S \subseteq T
<1> DEFINE N == {n \in Nat : \A A \in SUBSET S : Cardinality(A) <= n => A \in T}
<1>1. \A A \in SUBSET S : IsFiniteSet(A) /\ Cardinality(A) \in Nat
  BY FS_Subset, FS_CardinalityType
<1>2. \A A \in SUBSET S : \A x \in A : A \ {x} \in SUBSET S /\ Cardinality(A \ {x}) = Cardinality(A) - 1
  BY <1>1, FS_RemoveElement
<1>3. 0 \in N
  <2> SUFFICES ASSUME NEW A \in SUBSET S, Cardinality(A) <= 0 PROVE A \in T
    OBVIOUS
  <2>1. A = {}
    BY <1>1, FS_EmptySet
  <2> QED BY <2>1
<1>4. ASSUME NEW n \in Nat, n \in N PROVE n + 1 \in N
  <2> SUFFICES ASSUME NEW A \in SUBSET S, Cardinality(A) <= n + 1 PROVE A \in T
    OBVIOUS
  <2>1. ASSUME NEW x \in A PROVE A \ {x} \in T
    <3>1. A \ {x} \in SUBSET S /\ Cardinality(A \ {x}) <= n
      BY <1>1, <1>2
    <3> QED BY <3>1, <1>4
  <2> QED BY <2>1
<1>5. Nat \subseteq N
  <2> HIDE DEF N
  <2> QED BY <1>3, <1>4, Induction
<1>6. ASSUME NEW A \in SUBSET S PROVE A \in T
  <2>1. Cardinality(A) \in N /\ Cardinality(A) <= Cardinality(A)
    BY <1>1, <1>5
  <2> QED BY <2>1
<1> QED BY <1>6

\* The element that is picked is one of the set.
LEMMA PickIs == ASSUME NEW S, S # {} PROVE Pick(S) \in S
BY DEF Pick

\* There is one such function.
LEMMA SumUnique ==
  ASSUME NEW S, IsFiniteSet(S), NEW f, NEW F, NEW G, NEW R, R \subseteq S,
         IsSum(F, f, S), IsSum(G, f, R)
  PROVE  F[R] = G[R]
<1> DEFINE T == {A \in SUBSET R : F[A] = G[A]}
<1>1. IsFiniteSet(R)
  BY FS_Subset
<1>2. ASSUME NEW A \in SUBSET R, \A x \in A : A \ {x} \in T PROVE A \in T
  <2>1. /\ F[A] = IF A = {} THEN 0 ELSE f[Pick(A)] + F[A \ {Pick(A)}]
        /\ G[A] = IF A = {} THEN 0 ELSE f[Pick(A)] + G[A \ {Pick(A)}]
    BY DEF IsSum
  <2>2. A # {} => A \ {Pick(A)} \in T
    BY <1>2, PickIs
  <2> QED BY <2>1, <2>2
<1>3. SUBSET R \subseteq T
  <2> HIDE DEF T
  <2> QED BY <1>1, <1>2, SetInduction
<1> QED BY <1>3

\* There is such a function, if the values are numbers.
LEMMA SumExists ==
  ASSUME NEW S, IsFiniteSet(S), NEW f, \A x \in S : f[x] \in Int
  PROVE  \E F \in [SUBSET S -> Int] : IsSum(F, f, S)
<1> DEFINE Small(n) == {A \in SUBSET S : Cardinality(A) <= n}
           IsPart(F, n) == \A A \in Small(n) : F[A] = IF A = {} THEN 0 ELSE f[Pick(A)] + F[A \ {Pick(A)}]
           N == {n \in Nat : \E F \in [Small(n) -> Int] : IsPart(F, n)}
<1>1. \A A \in SUBSET S : IsFiniteSet(A) /\ Cardinality(A) \in Nat
  BY FS_Subset, FS_CardinalityType
<1>2. \A A \in SUBSET S : A # {} => /\ A \ {Pick(A)} \in SUBSET S /\ f[Pick(A)] \in Int
                                    /\ Cardinality(A \ {Pick(A)}) = Cardinality(A) - 1
  BY <1>1, PickIs, FS_RemoveElement
<1>3. 0 \in N
  <2>1. \A A \in Small(0) : A = {}
    BY <1>1, FS_EmptySet
  <2>2. IsPart([A \in Small(0) |-> 0], 0) /\ [A \in Small(0) |-> 0] \in [Small(0) -> Int]
    BY <2>1
  <2> QED BY <2>2
<1>4. ASSUME NEW n \in Nat, n \in N PROVE n + 1 \in N
  <2>1. PICK F \in [Small(n) -> Int] : IsPart(F, n)
    BY <1>4
  <2> DEFINE G == [A \in Small(n + 1) |-> IF A = {} THEN 0 ELSE f[Pick(A)] + F[A \ {Pick(A)}]]
  <2>2. \A A \in Small(n + 1) : A # {} => A \ {Pick(A)} \in Small(n) /\ F[A \ {Pick(A)}] \in Int
    BY <1>1, <1>2
  <2>3. G \in [Small(n + 1) -> Int]
    BY <2>2, <1>2
  <2>4. \A A \in Small(n) : A \in Small(n + 1) /\ G[A] = F[A]
    BY <1>1, <2>1
  <2>5. IsPart(G, n + 1)
    <3> SUFFICES ASSUME NEW A \in Small(n + 1)
                 PROVE  G[A] = IF A = {} THEN 0 ELSE f[Pick(A)] + G[A \ {Pick(A)}]
      OBVIOUS
    <3> HIDE DEF Small
    <3> QED BY <2>2, <2>4
  <2> HIDE DEF G, Small, IsPart
  <2>6. \E H \in [Small(n + 1) -> Int] : IsPart(H, n + 1)
    BY <2>3, <2>5
  <2> QED BY <2>6
<1>5. Nat \subseteq N
  <2> HIDE DEF N
  <2> QED BY <1>3, <1>4, Induction
<1>6. Cardinality(S) \in N
  BY <1>1, <1>5
<1>7. PICK F \in [Small(Cardinality(S)) -> Int] : IsPart(F, Cardinality(S))
  BY <1>6
<1>8. Small(Cardinality(S)) = SUBSET S
  BY <1>1, FS_Subset
<1>9. F \in [SUBSET S -> Int]
  BY <1>7, <1>8
<1>10. \A A \in SUBSET S : F[A] = IF A = {} THEN 0 ELSE f[Pick(A)] + F[A \ {Pick(A)}]
  <2> HIDE DEF Small
  <2> QED BY <1>7, <1>8
<1>11. IsSum(F, f, S)
  BY <1>9, <1>10 DEF IsSum
<1> QED BY <1>9, <1>11

\* Sums add the value of any one element to the sum of the others.
LEMMA SumEmpty == ASSUME NEW f PROVE SumFunctionOnSet(f, {}) = 0
<1>1. PICK F \in [SUBSET {} -> Int] : IsSum(F, f, {})
  BY SumExists, FS_EmptySet
<1> DEFINE G == CHOOSE G : IsSum(G, f, {})
<1>2. IsSum(G, f, {})
  BY <1>1
<1> HIDE DEF G
<1>3. G[{}] = 0
  BY <1>2 DEF IsSum
<1> QED BY <1>3, SumIs DEF G

\* A sum is a number, and that of a set adds the value of the element that is
\* picked to the sum of the others.
LEMMA SumPick ==
  ASSUME NEW S, IsFiniteSet(S), NEW f, \A x \in S : f[x] \in Int
  PROVE  /\ SumFunctionOnSet(f, S) \in Int
         /\ S # {} => SumFunctionOnSet(f, S) = f[Pick(S)] + SumFunctionOnSet(f, S \ {Pick(S)})
<1>1. PICK F \in [SUBSET S -> Int] : IsSum(F, f, S)
  BY SumExists
<1>2. ASSUME NEW R \in SUBSET S PROVE SumFunctionOnSet(f, R) = F[R]
  <2>1. IsFiniteSet(R) /\ \A x \in R : f[x] \in Int
    BY FS_Subset
  <2> DEFINE G == CHOOSE G : IsSum(G, f, R)
  <2>2. IsSum(G, f, R)
    BY <2>1, SumExists
  <2>3. SumFunctionOnSet(f, R) = G[R]
    BY SumIs
  <2> HIDE DEF G
  <2>4. F[R] = G[R]
    BY <1>1, <2>2, SumUnique
  <2> QED BY <2>3, <2>4
<1>3. F[S] = IF S = {} THEN 0 ELSE f[Pick(S)] + F[S \ {Pick(S)}]
  BY <1>1 DEF IsSum
<1> QED BY <1>1, <1>2, <1>3

\* A sum of numbers is a number.
LEMMA SumInt ==
  ASSUME NEW S, IsFiniteSet(S), NEW f, \A x \in S : f[x] \in Int
  PROVE  SumFunctionOnSet(f, S) \in Int
BY SumPick

\* It does not matter which element is picked.
LEMMA SumElement ==
  ASSUME NEW S, IsFiniteSet(S), NEW f, \A x \in S : f[x] \in Int, NEW x \in S
  PROVE  SumFunctionOnSet(f, S) = f[x] + SumFunctionOnSet(f, S \ {x})
<1> DEFINE Sum(A) == SumFunctionOnSet(f, A)
           T == {A \in SUBSET S : \A y \in A : Sum(A) = f[y] + Sum(A \ {y})}
<1>1. ASSUME NEW A \in SUBSET S
      PROVE  /\ Sum(A) \in Int
             /\ A # {} => Pick(A) \in A /\ Sum(A) = f[Pick(A)] + Sum(A \ {Pick(A)})
  <2>1. IsFiniteSet(A) /\ \A y \in A : f[y] \in Int
    BY FS_Subset
  <2> QED BY <2>1, SumPick, PickIs
<1>2. ASSUME NEW A \in SUBSET S, \A y \in A : A \ {y} \in T PROVE A \in T
  <2> SUFFICES ASSUME NEW y \in A PROVE Sum(A) = f[y] + Sum(A \ {y})
    OBVIOUS
  <2> DEFINE p == Pick(A)
  <2>1. p \in A /\ Sum(A) = f[p] + Sum(A \ {p})
    BY <1>1
  <2> HIDE DEF p
  <2>2. CASE y = p
    BY <2>1, <2>2
  <2>3. CASE y # p
    <3>1. Sum(A \ {p}) = f[y] + Sum((A \ {p}) \ {y})
      BY <1>2, <2>1, <2>3
    <3>2. Sum(A \ {y}) = f[p] + Sum((A \ {y}) \ {p})
      BY <1>2, <2>1, <2>3
    <3> DEFINE k == Sum((A \ {y}) \ {p})
    <3>3. (A \ {p}) \ {y} = (A \ {y}) \ {p}
      OBVIOUS
    <3>4. k \in Int /\ f[y] \in Int /\ f[p] \in Int
      BY <1>1, <2>1
    <3>5. Sum(A) = f[p] + (f[y] + k) /\ Sum(A \ {y}) = f[p] + k
      BY <2>1, <3>1, <3>2, <3>3
    <3> HIDE DEF Sum, k
    <3> QED BY <3>4, <3>5
  <2> QED BY <2>2, <2>3
<1>3. SUBSET S \subseteq T
  <2> HIDE DEF T
  <2> QED BY <1>2, SetInduction
<1> QED BY <1>3

\* A new element adds its value.
LEMMA SumAdd ==
  ASSUME NEW S, IsFiniteSet(S), NEW f, NEW x, x \notin S, \A y \in S \cup {x} : f[y] \in Int
  PROVE  SumFunctionOnSet(f, S \cup {x}) = f[x] + SumFunctionOnSet(f, S)
<1>1. IsFiniteSet(S \cup {x}) /\ (S \cup {x}) \ {x} = S
  BY FS_AddElement
<1> DEFINE R == S \cup {x}
<1>2. x \in R /\ IsFiniteSet(R) /\ \A y \in R : f[y] \in Int
  BY <1>1
<1> HIDE DEF R
<1>3. SumFunctionOnSet(f, R) = f[x] + SumFunctionOnSet(f, R \ {x})
  BY <1>2, SumElement
<1> QED BY <1>1, <1>3 DEF R

\* Sums of equal values are equal, whatever they are called.
LEMMA SumRename ==
  ASSUME NEW S, IsFiniteSet(S), NEW f, NEW g, NEW h,
         \A x \in S : f[x] \in Int /\ g[h[x]] = f[x],
         \A x, y \in S : h[x] = h[y] => x = y
  PROVE  SumFunctionOnSet(f, S) = SumFunctionOnSet(g, {h[x] : x \in S})
<1> DEFINE Image(A) == {h[x] : x \in A}
           T == {A \in SUBSET S : SumFunctionOnSet(f, A) = SumFunctionOnSet(g, Image(A))}
<1>1. ASSUME NEW A \in SUBSET S, \A y \in A : A \ {y} \in T PROVE A \in T
  <2>1. CASE A = {}
    <3>1. Image(A) = {}
      BY <2>1
    <3> HIDE DEF Image
    <3> QED BY <2>1, <3>1, SumEmpty
  <2>2. CASE A # {}
    <3>1. PICK y \in A : TRUE
      BY <2>2
    <3>2. IsFiniteSet(A) /\ \A x \in A : f[x] \in Int
      BY FS_Subset
    <3>3. SumFunctionOnSet(f, A) = f[y] + SumFunctionOnSet(f, A \ {y})
      BY <3>2, SumElement
    <3>4. SumFunctionOnSet(f, A \ {y}) = SumFunctionOnSet(g, Image(A \ {y}))
      BY <1>1
    <3>5. Image(A) = Image(A \ {y}) \cup {h[y]} /\ h[y] \notin Image(A \ {y})
      OBVIOUS
    <3>6. IsFiniteSet(Image(A \ {y}))
      <4>1. IsFiniteSet(A \ {y})
        BY <3>2, FS_Subset
      <4> DEFINE m == [x \in A \ {y} |-> h[x]]
      <4>2. m \in Surjection(A \ {y}, Image(A \ {y}))
        BY DEF Surjection
      <4> HIDE DEF m, Image
      <4> QED BY <4>1, <4>2, FS_Surjection
    <3>7. \A z \in Image(A \ {y}) \cup {h[y]} : g[z] \in Int
      OBVIOUS
    <3>8. g[h[y]] = f[y]
      OBVIOUS
    <3> HIDE DEF Image
    <3>9. SumFunctionOnSet(g, Image(A \ {y}) \cup {h[y]}) = g[h[y]] + SumFunctionOnSet(g, Image(A \ {y}))
      BY <3>5, <3>6, <3>7, SumAdd
    <3> QED BY <3>3, <3>4, <3>5, <3>8, <3>9
  <2> QED BY <2>1, <2>2
<1>2. SUBSET S \subseteq T
  <2> HIDE DEF T
  <2> QED BY <1>1, SetInduction
<1> QED BY <1>2

\* Functions that agree have the same sum.
LEMMA SumAgree ==
  ASSUME NEW S, IsFiniteSet(S), NEW f, NEW g, \A x \in S : f[x] \in Int /\ g[x] = f[x]
  PROVE  SumFunctionOnSet(f, S) = SumFunctionOnSet(g, S)
<1> DEFINE h == [x \in S |-> x]
<1>1. /\ \A x \in S : f[x] \in Int /\ g[h[x]] = f[x]
      /\ \A x, y \in S : h[x] = h[y] => x = y
  OBVIOUS
<1>2. {h[x] : x \in S} = S
  OBVIOUS
<1> HIDE DEF h
<1>3. SumFunctionOnSet(f, S) = SumFunctionOnSet(g, {h[x] : x \in S})
  BY <1>1, SumRename
<1> QED BY <1>2, <1>3

\* Elements of value 0 do not matter.
LEMMA SumSupport ==
  ASSUME NEW S, IsFiniteSet(S), NEW f, NEW R \in SUBSET S,
         \A x \in R : f[x] \in Int, \A x \in S \ R : f[x] = 0
  PROVE  SumFunctionOnSet(f, S) = SumFunctionOnSet(f, R)
<1> DEFINE T == {A \in SUBSET S : SumFunctionOnSet(f, A) = SumFunctionOnSet(f, A \cap R)}
<1>1. ASSUME NEW A \in SUBSET S, \A y \in A : A \ {y} \in T PROVE A \in T
  <2>1. CASE A \subseteq R
    <3>1. A \cap R = A
      BY <2>1
    <3> QED BY <3>1
  <2>2. CASE ~ (A \subseteq R)
    <3>1. PICK y \in A : y \notin R
      BY <2>2
    <3>2. IsFiniteSet(A) /\ IsFiniteSet(A \ {y}) /\ \A x \in A : f[x] \in Int
      BY FS_Subset
    <3>3. SumFunctionOnSet(f, A) = f[y] + SumFunctionOnSet(f, A \ {y}) /\ f[y] = 0
      BY <3>1, <3>2, SumElement
    <3>4. SumFunctionOnSet(f, A \ {y}) \in Int
      BY <3>2, SumInt
    <3>5. SumFunctionOnSet(f, A \ {y}) = SumFunctionOnSet(f, (A \ {y}) \cap R)
      BY <1>1
    <3>6. (A \ {y}) \cap R = A \cap R
      BY <3>1
    <3> DEFINE k == SumFunctionOnSet(f, A \ {y})
    <3>7. SumFunctionOnSet(f, A) = 0 + k /\ k \in Int
      BY <3>3, <3>4
    <3>8. SumFunctionOnSet(f, A) = k
      <4> HIDE DEF k
      <4> QED BY <3>7
    <3> QED BY <3>5, <3>6, <3>8
  <2> QED BY <2>1, <2>2
<1>2. SUBSET S \subseteq T
  <2> HIDE DEF T
  <2> QED BY <1>1, SetInduction
<1>3. S \cap R = R
  OBVIOUS
<1> QED BY <1>2, <1>3

\* The sum of differences is the difference of the sums.
LEMMA SumDifference ==
  ASSUME NEW S, IsFiniteSet(S), NEW f, NEW g, NEW d,
         \A x \in S : f[x] \in Int /\ g[x] \in Int /\ d[x] = f[x] - g[x]
  PROVE  SumFunctionOnSet(d, S) = SumFunctionOnSet(f, S) - SumFunctionOnSet(g, S)
<1> DEFINE T == {A \in SUBSET S :
                   SumFunctionOnSet(d, A) = SumFunctionOnSet(f, A) - SumFunctionOnSet(g, A)}
<1>1. ASSUME NEW A \in SUBSET S, \A y \in A : A \ {y} \in T PROVE A \in T
  <2>1. CASE A = {}
    BY <2>1, SumEmpty
  <2>2. CASE A # {}
    <3>1. PICK y \in A : TRUE
      BY <2>2
    <3>2. /\ IsFiniteSet(A) /\ IsFiniteSet(A \ {y})
          /\ \A x \in A : f[x] \in Int /\ g[x] \in Int /\ d[x] \in Int
      BY FS_Subset
    <3> DEFINE ff == SumFunctionOnSet(f, A \ {y})
               gg == SumFunctionOnSet(g, A \ {y})
               dd == SumFunctionOnSet(d, A \ {y})
    <3>3. /\ SumFunctionOnSet(f, A) = f[y] + ff
          /\ SumFunctionOnSet(g, A) = g[y] + gg
          /\ SumFunctionOnSet(d, A) = d[y] + dd
      BY <3>2, SumElement
    <3>4. ff \in Int /\ gg \in Int /\ dd \in Int
      BY <3>2, SumInt
    <3>5. dd = ff - gg /\ d[y] = f[y] - g[y] /\ f[y] \in Int /\ g[y] \in Int
      BY <1>1
    <3> HIDE DEF ff, gg, dd
    <3> QED BY <3>3, <3>4, <3>5
  <2> QED BY <2>1, <2>2
<1>2. SUBSET S \subseteq T
  <2> HIDE DEF T
  <2> QED BY <1>1, SetInduction
<1> QED BY <1>2

\* A changed value changes the sum by as much.
LEMMA SumUpdate ==
  ASSUME NEW S, IsFiniteSet(S), NEW f, NEW g, NEW x \in S,
         \A y \in S : f[y] \in Int /\ g[y] \in Int, \A y \in S \ {x} : g[y] = f[y]
  PROVE  SumFunctionOnSet(g, S) = SumFunctionOnSet(f, S) - f[x] + g[x]
<1>1. IsFiniteSet(S \ {x}) /\ \A y \in S \ {x} : f[y] \in Int /\ g[y] = f[y]
  BY FS_Subset
<1> DEFINE k == SumFunctionOnSet(f, S \ {x})
<1>2. SumFunctionOnSet(g, S \ {x}) = k /\ k \in Int
  BY <1>1, SumAgree, SumInt
<1>3. SumFunctionOnSet(f, S) = f[x] + k /\ SumFunctionOnSet(g, S) = g[x] + SumFunctionOnSet(g, S \ {x})
  BY SumElement
<1>4. SumFunctionOnSet(g, S) = g[x] + k /\ f[x] \in Int /\ g[x] \in Int
  BY <1>2, <1>3
<1> HIDE DEF k
<1> QED BY <1>2, <1>3, <1>4

-----------------------------------------------------------------------------
(* Sums over windows.                                                      *)

\* A value appended to a sequence is added to its sum.
LEMMA SumGrows ==
  ASSUME NEW n \in Nat, NEW f, NEW g, DOMAIN f = 1 .. n, DOMAIN g = 1 .. n + 1,
         \A i \in 1 .. n : f[i] \in Int /\ g[i] = f[i], g[n + 1] \in Int
  PROVE  SumFunction(g) = SumFunction(f) + g[n + 1]
<1> DEFINE S == 1 .. n
           T == 1 .. n + 1
<1>1. IsFiniteSet(S) /\ IsFiniteSet(T) /\ n + 1 \in T /\ T \ {n + 1} = S
  <2>1. n \in Int /\ 1 \in Int /\ n + 1 \in Int
    OBVIOUS
  <2>2. IsFiniteSet(S) /\ IsFiniteSet(T)
    BY <2>1, FS_Interval
  <2>3. n + 1 \in T /\ T \ {n + 1} = S
    OBVIOUS
  <2> QED BY <2>2, <2>3
<1>2. \A i \in T : g[i] \in Int
  OBVIOUS
<1>3. SumFunction(g) = SumFunctionOnSet(g, T) /\ SumFunction(f) = SumFunctionOnSet(f, S)
  BY Zenon DEF SumFunction
<1>4. \A i \in S : f[i] \in Int /\ g[i] = f[i]
  OBVIOUS
<1> HIDE DEF S, T
<1>5. SumFunctionOnSet(g, T) = g[n + 1] + SumFunctionOnSet(g, S)
  BY <1>1, <1>2, SumElement
<1>6. SumFunctionOnSet(g, S) = SumFunctionOnSet(f, S) /\ SumFunctionOnSet(f, S) \in Int
  BY <1>1, <1>4, SumAgree, SumInt
<1>7. SumFunction(g) = g[n + 1] + SumFunction(f) /\ SumFunction(f) \in Int
  BY <1>3, <1>5, <1>6
<1> QED BY <1>7

\* A value taken from the front of a sequence is subtracted from its sum.
LEMMA SumShrinks ==
  ASSUME NEW n \in Nat \ {0}, NEW f, NEW g, DOMAIN f = 1 .. n, DOMAIN g = 1 .. n - 1,
         \A i \in 1 .. n : f[i] \in Int, \A i \in 1 .. n - 1 : g[i] = f[i + 1]
  PROVE  SumFunction(g) = SumFunction(f) - f[1]
<1> DEFINE S == 1 .. n - 1
           T == 1 .. n
           h == [i \in S |-> i + 1]
           R == {h[i] : i \in S}
<1>1. IsFiniteSet(S) /\ IsFiniteSet(T) /\ 1 \in T
  BY FS_Interval
<1>2. R = T \ {1}
  <2>1. \A i \in T \ {1} : i - 1 \in S /\ i = h[i - 1]
    OBVIOUS
  <2>2. \A i \in S : h[i] \in T \ {1}
    OBVIOUS
  <2> HIDE DEF h, S, T
  <2> QED BY <2>1, <2>2
<1>3. SumFunction(g) = SumFunctionOnSet(g, S) /\ SumFunction(f) = SumFunctionOnSet(f, T)
  BY Zenon DEF SumFunction
<1>4. /\ \A i \in S : g[i] \in Int /\ f[h[i]] = g[i]
      /\ \A i, j \in S : h[i] = h[j] => i = j
  OBVIOUS
<1>5. \A i \in T : f[i] \in Int
  OBVIOUS
<1> HIDE DEF S, T, h
<1>6. SumFunctionOnSet(g, S) = SumFunctionOnSet(f, {h[i] : i \in S})
  <2>1. /\ IsFiniteSet(S)
        /\ \A i \in S : g[i] \in Int /\ f[h[i]] = g[i]
        /\ \A i, j \in S : h[i] = h[j] => i = j
    BY <1>1, <1>4
  <2> QED BY <2>1, SumRename
<1>7. SumFunctionOnSet(f, T) = f[1] + SumFunctionOnSet(f, T \ {1})
  BY <1>1, <1>5, SumElement
<1>8. SumFunctionOnSet(g, S) \in Int
  BY <1>1, <1>4, SumInt
<1>9. SumFunction(f) = f[1] + SumFunction(g) /\ SumFunction(g) \in Int /\ f[1] \in Int
  BY <1>1, <1>2, <1>3, <1>5, <1>6, <1>7, <1>8
<1> QED BY <1>9

\* A window, whose sums are those of its data.
Window == [data : Seq(Int \X Int), issue : Int, finish : Int, mix : Int, square : Int,
           interval : Int, enabled : BOOLEAN, pred : Int]
GoodWindow(s) == s \in Window /\ WindowMatches(s)

\* The five sums of a window as sums of functions.
LEMMA WindowSums ==
  ASSUME NEW s
  PROVE  WindowMatches(s) <=>
           /\ s.issue = SumFunction([i \in DOMAIN s.data |-> s.data[i][1]])
           /\ s.finish = SumFunction([i \in DOMAIN s.data |-> s.data[i][2]])
           /\ s.mix = SumFunction([i \in DOMAIN s.data |-> s.data[i][1] * s.data[i][2]])
           /\ s.square = SumFunction([i \in DOMAIN s.data |-> s.data[i][1] * s.data[i][1]])
           /\ s.interval = SumFunction([i \in DOMAIN s.data |-> s.data[i][2] - s.data[i][1]])
BY Zenon DEF WindowMatches

\* The sums of an empty window are those of its data.
LEMMA FreshMatches == GoodWindow(FreshWindow)
<1>1. FreshWindow \in Window
  BY DEF FreshWindow, Window
<1> DEFINE s == FreshWindow
<1>2. s.data = <<>> /\ s.issue = 0 /\ s.finish = 0 /\ s.mix = 0 /\ s.square = 0 /\ s.interval = 0
  BY DEF FreshWindow
<1> HIDE DEF s
<1>3. \A f : DOMAIN f = {} => SumFunction(f) = 0
  BY Zenon, SumEmpty DEF SumFunction
<1>4. DOMAIN s.data = {}
  BY <1>2
<1>5. WindowMatches(s)
  BY <1>2, <1>3, <1>4, WindowSums
<1> QED BY <1>1, <1>5 DEF GoodWindow, s

\* A window whose data become u, with the time <<i, f>> added to the sums or
\* taken out of them.
Moved(s, i, f, sign, u) == [Shift(s, i, f, sign) EXCEPT !.data = u]
Joined(t, s, i, f, u) ==
  /\ t.data = u
  /\ t.issue = s.issue + i /\ t.finish = s.finish + f /\ t.mix = s.mix + i * f
  /\ t.square = s.square + i * i /\ t.interval = s.interval + (f - i)
Left(t, s, i, f, u) ==
  /\ t.data = u
  /\ t.issue = s.issue - i /\ t.finish = s.finish - f /\ t.mix = s.mix - i * f
  /\ t.square = s.square - i * i /\ t.interval = s.interval - (f - i)

\* What shift does to the sums, in the two directions it is used.
LEMMA ShiftIs ==
  ASSUME NEW s \in Window, NEW i \in Int, NEW f \in Int, NEW sign \in {1, -1},
         NEW u \in Seq(Int \X Int)
  PROVE  /\ Shift(s, i, f, sign).data = s.data
         /\ Moved(s, i, f, sign, u) \in Window
         /\ sign = 1 => Joined(Moved(s, i, f, sign, u), s, i, f, u)
         /\ sign = -1 => Left(Moved(s, i, f, sign, u), s, i, f, u)
<1> DEFINE t == Moved(s, i, f, sign, u)
<1> DEFINE x == s.issue + sign * i
           y == s.finish + sign * f
           z == s.mix + sign * f * i
           q == s.square + sign * i * i
           w == s.interval + sign * (f - i)
           p == [s EXCEPT !.issue = x, !.finish = y, !.mix = z, !.square = q, !.interval = w]
<1>1. Shift(s, i, f, sign) = p
  BY Zenon DEF Shift
<1>2. /\ s.issue \in Int /\ s.finish \in Int /\ s.mix \in Int /\ s.square \in Int /\ s.interval \in Int
      /\ sign \in Int
  BY DEF Window
<1>3. x \in Int /\ y \in Int /\ z \in Int /\ q \in Int /\ w \in Int
  <2>1. \A a, b \in Int : a * b \in Int /\ a + b \in Int /\ a - b \in Int
    OBVIOUS
  <2>2. sign * i \in Int /\ sign * f \in Int /\ f - i \in Int
    BY <1>2, <2>1
  <2>3. sign * f * i \in Int /\ sign * i * i \in Int /\ sign * (f - i) \in Int
    BY <1>2, <2>1, <2>2
  <2> QED BY <1>2, <2>1, <2>2, <2>3
<1>4. /\ sign = 1 => /\ x = s.issue + i /\ y = s.finish + f /\ z = s.mix + i * f
                     /\ q = s.square + i * i /\ w = s.interval + (f - i)
      /\ sign = -1 => /\ x = s.issue - i /\ y = s.finish - f /\ z = s.mix - i * f
                      /\ q = s.square - i * i /\ w = s.interval - (f - i)
  <2>1. ASSUME sign = 1
        PROVE  /\ x = s.issue + i /\ y = s.finish + f /\ z = s.mix + i * f
               /\ q = s.square + i * i /\ w = s.interval + (f - i)
    <3>1. sign * i = i /\ sign * f = f /\ sign * (f - i) = f - i /\ f * i = i * f
      BY <2>1
    <3> QED BY <1>2, <3>1
  <2>2. ASSUME sign = -1
        PROVE  /\ x = s.issue - i /\ y = s.finish - f /\ z = s.mix - i * f
               /\ q = s.square - i * i /\ w = s.interval - (f - i)
    <3>1. sign * i = -i /\ sign * f = -f /\ sign * (f - i) = -(f - i)
      BY <2>2
    <3>2. (-f) * i = -(i * f) /\ (-i) * i = -(i * i) /\ i * f \in Int /\ i * i \in Int
      OBVIOUS
    <3>3. sign * f * i = -(i * f) /\ sign * i * i = -(i * i)
      BY <3>1, <3>2
    <3>4. s.issue + sign * i = s.issue - i /\ s.finish + sign * f = s.finish - f
      BY <1>2, <3>1
    <3>5. s.interval + sign * (f - i) = s.interval - (f - i)
      BY <1>2, <3>1
    <3> DEFINE m == i * f
               k == i * i
    <3>6. z = s.mix + -m /\ q = s.square + -k /\ m \in Int /\ k \in Int
      BY <3>2, <3>3
    <3> HIDE DEF m, k, z, q
    <3>7. z = s.mix - m /\ q = s.square - k
      BY <1>2, <3>6
    <3> QED BY <3>4, <3>5, <3>7 DEF m, k
  <2> QED BY <2>1, <2>2
<1> HIDE DEF x, y, z, q, w
<1>5. p.data = s.data
  BY DEF Window
<1>6. t = [p EXCEPT !.data = u]
  BY Zenon, <1>1 DEF Moved
<1>7. /\ t \in Window /\ t.data = u /\ t.issue = x /\ t.finish = y /\ t.mix = z
      /\ t.square = q /\ t.interval = w
  BY <1>3, <1>6 DEF Window
<1> HIDE DEF t, p
<1>8. Shift(s, i, f, sign).data = s.data
  BY <1>1, <1>5
<1>9. (sign = 1 => Joined(t, s, i, f, u)) /\ (sign = -1 => Left(t, s, i, f, u))
  BY <1>4, <1>7 DEF Joined, Left
<1> QED BY <1>7, <1>8, <1>9 DEF t

\* A measured time joins the window and its sums.
LEMMA JoinMatches ==
  ASSUME NEW s, GoodWindow(s), NEW i \in Int, NEW f \in Int
  PROVE  GoodWindow([Shift(s, i, f, 1) EXCEPT !.data = Append(@, <<i, f>>)])
<1> DEFINE t == [Shift(s, i, f, 1) EXCEPT !.data = Append(@, <<i, f>>)]
           d == s.data
           e == t.data
           n == Len(d)
<1>1. /\ s \in Window /\ d \in Seq(Int \X Int) /\ s.issue \in Int /\ s.finish \in Int
      /\ s.mix \in Int /\ s.square \in Int /\ s.interval \in Int
  BY DEF GoodWindow, Window
<1>2. f * i = i * f /\ i * f \in Int /\ i * i \in Int /\ f - i \in Int
  OBVIOUS
<1>3. d \in Seq(Int \X Int) /\ Append(d, <<i, f>>) \in Seq(Int \X Int)
  <2>1. <<i, f>> \in Int \X Int
    OBVIOUS
  <2> HIDE DEF d
  <2> QED BY <1>1, <2>1, AppendProperties
<1>4. t = Moved(s, i, f, 1, Append(d, <<i, f>>))
  <2>1. Shift(s, i, f, 1).data = d
    BY <1>1, <1>3, ShiftIs
  <2> QED BY Zenon, <2>1 DEF Moved
<1>5. /\ t \in Window /\ t.data = Append(d, <<i, f>>)
      /\ t.issue = s.issue + i /\ t.finish = s.finish + f /\ t.mix = s.mix + i * f
      /\ t.square = s.square + i * i /\ t.interval = s.interval + (f - i)
  <2> HIDE DEF t, d
  <2>1. 1 \in {1, -1}
    OBVIOUS
  <2> DEFINE u == Append(d, <<i, f>>)
  <2>2. t = Moved(s, i, f, 1, u) /\ u \in Seq(Int \X Int)
    BY <1>3, <1>4
  <2> HIDE DEF u
  <2>3. t \in Window /\ Joined(t, s, i, f, u)
    BY <1>1, <2>1, <2>2, ShiftIs
  <2> QED BY <2>3 DEF u, Joined
<1>6. /\ n \in Nat /\ DOMAIN d = 1 .. n /\ DOMAIN e = 1 .. n + 1 /\ e[n + 1] = <<i, f>>
      /\ \A k \in 1 .. n : e[k] = d[k] /\ d[k][1] \in Int /\ d[k][2] \in Int
  <2>1. n \in Nat /\ DOMAIN d = 1 .. n /\ \A k \in 1 .. n : d[k] \in Int \X Int
    BY <1>1
  <2>2. e = Append(d, <<i, f>>) /\ <<i, f>> \in Int \X Int
    BY <1>5
  <2> HIDE DEF d, e
  <2>3. /\ Len(e) = n + 1 /\ DOMAIN e = 1 .. n + 1 /\ e[n + 1] = <<i, f>>
        /\ \A k \in 1 .. n : e[k] = d[k]
    BY <1>1, <2>1, <2>2, AppendProperties
  <2> QED BY <2>1, <2>3
<1> HIDE DEF t, d, e, n
<1>7. SumFunction([k \in DOMAIN e |-> e[k][1]]) = SumFunction([k \in DOMAIN d |-> d[k][1]]) + i
  <2> DEFINE g == [k \in DOMAIN d |-> d[k][1]]
             h == [k \in DOMAIN e |-> e[k][1]]
  <2>1. /\ n \in Nat /\ DOMAIN g = 1 .. n /\ DOMAIN h = 1 .. n + 1 /\ h[n + 1] = i
        /\ \A k \in 1 .. n : g[k] \in Int /\ h[k] = g[k]
    BY <1>6
  <2> HIDE DEF g, h
  <2>2. SumFunction(h) = SumFunction(g) + i
    BY <2>1, SumGrows
  <2> QED BY <2>2 DEF g, h
<1>8. SumFunction([k \in DOMAIN e |-> e[k][2]]) = SumFunction([k \in DOMAIN d |-> d[k][2]]) + f
  <2> DEFINE g == [k \in DOMAIN d |-> d[k][2]]
             h == [k \in DOMAIN e |-> e[k][2]]
  <2>1. /\ n \in Nat /\ DOMAIN g = 1 .. n /\ DOMAIN h = 1 .. n + 1 /\ h[n + 1] = f
        /\ \A k \in 1 .. n : g[k] \in Int /\ h[k] = g[k]
    BY <1>6
  <2> HIDE DEF g, h
  <2>2. SumFunction(h) = SumFunction(g) + f
    BY <2>1, SumGrows
  <2> QED BY <2>2 DEF g, h
<1>9. SumFunction([k \in DOMAIN e |-> e[k][1] * e[k][2]])
        = SumFunction([k \in DOMAIN d |-> d[k][1] * d[k][2]]) + i * f
  <2> DEFINE g == [k \in DOMAIN d |-> d[k][1] * d[k][2]]
             h == [k \in DOMAIN e |-> e[k][1] * e[k][2]]
             v == i * f
  <2>1. /\ n \in Nat /\ DOMAIN g = 1 .. n /\ DOMAIN h = 1 .. n + 1 /\ h[n + 1] = v /\ v \in Int
        /\ \A k \in 1 .. n : g[k] \in Int /\ h[k] = g[k]
    BY <1>2, <1>6
  <2> HIDE DEF g, h, v
  <2>2. SumFunction(h) = SumFunction(g) + v
    BY <2>1, SumGrows
  <2> QED BY <2>2 DEF g, h, v
<1>10. SumFunction([k \in DOMAIN e |-> e[k][1] * e[k][1]])
        = SumFunction([k \in DOMAIN d |-> d[k][1] * d[k][1]]) + i * i
  <2> DEFINE g == [k \in DOMAIN d |-> d[k][1] * d[k][1]]
             h == [k \in DOMAIN e |-> e[k][1] * e[k][1]]
             v == i * i
  <2>1. /\ n \in Nat /\ DOMAIN g = 1 .. n /\ DOMAIN h = 1 .. n + 1 /\ h[n + 1] = v /\ v \in Int
        /\ \A k \in 1 .. n : g[k] \in Int /\ h[k] = g[k]
    BY <1>2, <1>6
  <2> HIDE DEF g, h, v
  <2>2. SumFunction(h) = SumFunction(g) + v
    BY <2>1, SumGrows
  <2> QED BY <2>2 DEF g, h, v
<1>11. SumFunction([k \in DOMAIN e |-> e[k][2] - e[k][1]])
        = SumFunction([k \in DOMAIN d |-> d[k][2] - d[k][1]]) + (f - i)
  <2> DEFINE g == [k \in DOMAIN d |-> d[k][2] - d[k][1]]
             h == [k \in DOMAIN e |-> e[k][2] - e[k][1]]
             v == f - i
  <2>1. /\ n \in Nat /\ DOMAIN g = 1 .. n /\ DOMAIN h = 1 .. n + 1 /\ h[n + 1] = v /\ v \in Int
        /\ \A k \in 1 .. n : g[k] \in Int /\ h[k] = g[k]
    BY <1>2, <1>6
  <2> HIDE DEF g, h, v
  <2>2. SumFunction(h) = SumFunction(g) + v
    BY <2>1, SumGrows
  <2> QED BY <2>2 DEF g, h, v
<1>12. WindowMatches(s)
  BY DEF GoodWindow
<1>13. WindowMatches(t)
  BY Zenon, <1>5, <1>7, <1>8, <1>9, <1>10, <1>11, <1>12, WindowSums DEF d, e
<1> QED BY <1>5, <1>13 DEF GoodWindow, t

\* The oldest time leaves the window and its sums.
LEMMA LeaveMatches ==
  ASSUME NEW s, GoodWindow(s), s.data # <<>>
  PROVE  GoodWindow(DropOldest(s))
<1> DEFINE t == DropOldest(s)
           d == s.data
           i == Head(d)[1]
           f == Head(d)[2]
           e == t.data
           n == Len(d)
<1>1. /\ s \in Window /\ d \in Seq(Int \X Int) /\ s.issue \in Int /\ s.finish \in Int
      /\ s.mix \in Int /\ s.square \in Int /\ s.interval \in Int /\ d # <<>>
  BY DEF GoodWindow, Window
<1>2. /\ i \in Int /\ f \in Int
      /\ f * i = i * f /\ i * f \in Int /\ i * i \in Int /\ f - i \in Int
  <2>1. Head(d) \in Int \X Int
    <3> HIDE DEF d
    <3> QED BY <1>1
  <2>2. i \in Int /\ f \in Int
    BY <2>1
  <2> HIDE DEF i, f
  <2> QED BY <2>2
<1>3. d \in Seq(Int \X Int) /\ Tail(d) \in Seq(Int \X Int)
  <2> HIDE DEF d
  <2> QED BY <1>1
<1>4. t = Moved(s, i, f, -1, Tail(d))
  <2>1. Shift(s, i, f, -1).data = d
    <3> HIDE DEF i, f
    <3> QED BY <1>1, <1>2, <1>3, ShiftIs
  <2> QED BY Zenon, <2>1 DEF DropOldest, Moved
<1>5. /\ t \in Window /\ t.data = Tail(d)
      /\ t.issue = s.issue - i /\ t.finish = s.finish - f /\ t.mix = s.mix - i * f
      /\ t.square = s.square - i * i /\ t.interval = s.interval - (f - i)
  <2> HIDE DEF t, d, i, f
  <2>1. -1 \in {1, -1} /\ -1 = -1 /\ i \in Int /\ f \in Int
    BY <1>2
  <2> DEFINE u == Tail(d)
  <2>2. t = Moved(s, i, f, -1, u) /\ u \in Seq(Int \X Int)
    BY <1>3, <1>4
  <2> HIDE DEF u
  <2>3. t \in Window /\ Left(t, s, i, f, u)
    BY <1>1, <2>1, <2>2, ShiftIs
  <2> QED BY <2>3 DEF u, Left
<1>6. /\ n \in Nat \ {0} /\ DOMAIN d = 1 .. n /\ DOMAIN e = 1 .. n - 1 /\ d[1][1] = i /\ d[1][2] = f
      /\ \A k \in 1 .. n : d[k][1] \in Int /\ d[k][2] \in Int
      /\ \A k \in 1 .. n - 1 : e[k] = d[k + 1]
  <2>1. n \in Nat \ {0} /\ DOMAIN d = 1 .. n /\ \A k \in 1 .. n : d[k] \in Int \X Int
    <3> HIDE DEF d
    <3> QED BY <1>1
  <2>2. e = Tail(d) /\ Head(d) = d[1]
    BY <1>5
  <2>3. DOMAIN e = 1 .. n - 1 /\ \A k \in 1 .. n - 1 : e[k] = d[k + 1]
    <3> HIDE DEF d, e
    <3> QED BY <1>1, <2>1, <2>2
  <2> QED BY <2>1, <2>2, <2>3
<1> HIDE DEF t, d, e, n, i, f
<1>7. SumFunction([k \in DOMAIN e |-> e[k][1]]) = SumFunction([k \in DOMAIN d |-> d[k][1]]) - i
  <2> DEFINE g == [k \in DOMAIN d |-> d[k][1]]
             h == [k \in DOMAIN e |-> e[k][1]]
  <2>1. /\ n \in Nat \ {0} /\ DOMAIN g = 1 .. n /\ DOMAIN h = 1 .. n - 1 /\ g[1] = i
        /\ (\A k \in 1 .. n : g[k] \in Int) /\ \A k \in 1 .. n - 1 : h[k] = g[k + 1]
    BY <1>6
  <2> HIDE DEF g, h
  <2>2. SumFunction(h) = SumFunction(g) - i
    BY <2>1, SumShrinks
  <2> QED BY <2>2 DEF g, h
<1>8. SumFunction([k \in DOMAIN e |-> e[k][2]]) = SumFunction([k \in DOMAIN d |-> d[k][2]]) - f
  <2> DEFINE g == [k \in DOMAIN d |-> d[k][2]]
             h == [k \in DOMAIN e |-> e[k][2]]
  <2>1. /\ n \in Nat \ {0} /\ DOMAIN g = 1 .. n /\ DOMAIN h = 1 .. n - 1 /\ g[1] = f
        /\ (\A k \in 1 .. n : g[k] \in Int) /\ \A k \in 1 .. n - 1 : h[k] = g[k + 1]
    BY <1>6
  <2> HIDE DEF g, h
  <2>2. SumFunction(h) = SumFunction(g) - f
    BY <2>1, SumShrinks
  <2> QED BY <2>2 DEF g, h
<1>9. SumFunction([k \in DOMAIN e |-> e[k][1] * e[k][2]])
        = SumFunction([k \in DOMAIN d |-> d[k][1] * d[k][2]]) - i * f
  <2> DEFINE g == [k \in DOMAIN d |-> d[k][1] * d[k][2]]
             h == [k \in DOMAIN e |-> e[k][1] * e[k][2]]
             v == i * f
  <2>1. /\ n \in Nat \ {0} /\ DOMAIN g = 1 .. n /\ DOMAIN h = 1 .. n - 1 /\ g[1] = v /\ v \in Int
        /\ (\A k \in 1 .. n : g[k] \in Int) /\ \A k \in 1 .. n - 1 : h[k] = g[k + 1]
    BY <1>2, <1>6
  <2> HIDE DEF g, h, v
  <2>2. SumFunction(h) = SumFunction(g) - v
    BY <2>1, SumShrinks
  <2> QED BY <2>2 DEF g, h, v
<1>10. SumFunction([k \in DOMAIN e |-> e[k][1] * e[k][1]])
        = SumFunction([k \in DOMAIN d |-> d[k][1] * d[k][1]]) - i * i
  <2> DEFINE g == [k \in DOMAIN d |-> d[k][1] * d[k][1]]
             h == [k \in DOMAIN e |-> e[k][1] * e[k][1]]
             v == i * i
  <2>1. /\ n \in Nat \ {0} /\ DOMAIN g = 1 .. n /\ DOMAIN h = 1 .. n - 1 /\ g[1] = v /\ v \in Int
        /\ (\A k \in 1 .. n : g[k] \in Int) /\ \A k \in 1 .. n - 1 : h[k] = g[k + 1]
    BY <1>2, <1>6
  <2> HIDE DEF g, h, v
  <2>2. SumFunction(h) = SumFunction(g) - v
    BY <2>1, SumShrinks
  <2> QED BY <2>2 DEF g, h, v
<1>11. SumFunction([k \in DOMAIN e |-> e[k][2] - e[k][1]])
        = SumFunction([k \in DOMAIN d |-> d[k][2] - d[k][1]]) - (f - i)
  <2> DEFINE g == [k \in DOMAIN d |-> d[k][2] - d[k][1]]
             h == [k \in DOMAIN e |-> e[k][2] - e[k][1]]
             v == f - i
  <2>1. /\ n \in Nat \ {0} /\ DOMAIN g = 1 .. n /\ DOMAIN h = 1 .. n - 1 /\ g[1] = v /\ v \in Int
        /\ (\A k \in 1 .. n : g[k] \in Int) /\ \A k \in 1 .. n - 1 : h[k] = g[k + 1]
    <3>1. v \in Int
      BY <1>2
    <3>2. g[1] = d[1][2] - d[1][1]
      BY <1>6
    <3> HIDE DEF v
    <3>3. g[1] = v
      BY <1>6, <3>2 DEF v
    <3> HIDE DEF g, h
    <3>4. /\ n \in Nat \ {0} /\ DOMAIN g = 1 .. n /\ DOMAIN h = 1 .. n - 1
          /\ (\A k \in 1 .. n : g[k] \in Int) /\ \A k \in 1 .. n - 1 : h[k] = g[k + 1]
      BY <1>6 DEF g, h
    <3> QED BY <3>1, <3>3, <3>4
  <2> HIDE DEF g, h, v
  <2>2. SumFunction(h) = SumFunction(g) - v
    BY <2>1, SumShrinks
  <2> QED BY <2>2 DEF g, h, v
<1>12. WindowMatches(s)
  BY DEF GoodWindow
<1>13. WindowMatches(t)
  BY Zenon, <1>5, <1>7, <1>8, <1>9, <1>10, <1>11, <1>12, WindowSums DEF d, e
<1> QED BY <1>5, <1>13 DEF GoodWindow, t

\* The analysis changes neither the data nor the sums.
LEMMA AnalysisMatches ==
  ASSUME NEW s, GoodWindow(s), NEW g \in Nat \ {0}
  PROVE  GoodWindow(Analysis(s, g)) /\ Analysis(s, g).data = s.data
<1>1. s \in Window /\ s.interval \in Int /\ WindowMatches(s)
  BY DEF GoodWindow, Window
<1>2. PICK e \in BOOLEAN : Analysis(s, g) = [s EXCEPT !.pred = s.interval \div g, !.enabled = e]
  BY Zenon DEF Analysis, Within
<1> DEFINE p == s.interval \div g
           t == Analysis(s, g)
<1>3. p \in Int
  BY <1>1
<1> HIDE DEF p
<1>4. t = [s EXCEPT !.pred = p, !.enabled = e]
  BY <1>2 DEF p
<1> HIDE DEF t
<1>5. /\ t \in Window /\ t.data = s.data /\ t.issue = s.issue /\ t.finish = s.finish
      /\ t.mix = s.mix /\ t.square = s.square /\ t.interval = s.interval
  BY <1>1, <1>3, <1>4 DEF Window
<1>6. WindowMatches(t)
  BY Zenon, <1>1, <1>5, WindowSums
<1> QED BY <1>5, <1>6 DEF GoodWindow, t

\* Collect, of a window: a time joins, and the oldest leaves a window that is full.
LEMMA CollectMatches ==
  ASSUME NEW s, GoodWindow(s), NEW g \in Nat \ {0}, NEW i \in Int, NEW f \in Int
  PROVE  GoodWindow(WindowCollect(s, g, i, f))
<1> DEFINE more == [Shift(s, i, f, 1) EXCEPT !.data = Append(@, <<i, f>>)]
<1>1. GoodWindow(more)
  BY JoinMatches
<1>2. WindowCollect(s, g, i, f) = IF Len(more.data) = g THEN DropOldest(Analysis(more, g)) ELSE more
  BY DEF WindowCollect
<1> HIDE DEF more
<1>3. ASSUME Len(more.data) = g PROVE GoodWindow(DropOldest(Analysis(more, g)))
  <2>1. GoodWindow(Analysis(more, g)) /\ Analysis(more, g).data = more.data
    BY <1>1, AnalysisMatches
  <2>2. more.data # <<>>
    BY <1>3
  <2> QED BY <2>1, <2>2, LeaveMatches
<1> QED BY <1>1, <1>2, <1>3

-----------------------------------------------------------------------------
(* The engines of the blocks.                                              *)

Engine == [long : Window, short : Window, idx : Int, enabled : BOOLEAN, pred : Int]
GoodEngine(e) == e \in Engine /\ GoodWindow(e.long) /\ GoodWindow(e.short)

\* A new engine is off and its windows are empty.
LEMMA FreshEngineMatches == GoodEngine(FreshEngine) /\ ~ FreshEngine.enabled
<1>1. GoodWindow(FreshWindow) /\ FreshWindow \in Window
  BY FreshMatches DEF GoodWindow
<1> QED BY <1>1 DEF FreshEngine, GoodEngine, Engine

\* Collect, of an engine.
LEMMA EngineCollectMatches ==
  ASSUME NEW e, GoodEngine(e), NEW i \in Int, NEW f \in Int
  PROVE  GoodEngine(EngineCollect(e, i, f)) /\ (e.enabled => EngineCollect(e, i, f).enabled)
<1> DEFINE long == WindowCollect(e.long, Granulary, i, f)
           short == WindowCollect(e.short, Granulary \div 2, i, f)
           next == [e EXCEPT !.idx = @ + 1, !.long = long, !.short = short]
<1>1. Granulary \in Nat \ {0} /\ Granulary \div 2 \in Nat \ {0}
  <2>1. Granulary \in Nat /\ Granulary \div 2 # 0
    BY GranularyAssumption
  <2> QED BY <2>1
<1>2. GoodWindow(long) /\ GoodWindow(short)
  BY <1>1, CollectMatches DEF GoodEngine
<1>3. PICK p \in BOOLEAN : Within(long.pred - short.pred, long.pred + short.pred, Boundary) = p
  BY Zenon DEF Within
<1>4. EngineCollect(e, i, f) =
        IF e.enabled THEN e
        ELSE IF e.idx + 1 < Discard THEN [e EXCEPT !.idx = @ + 1]
        ELSE IF long.enabled THEN [next EXCEPT !.pred = short.pred, !.enabled = p]
        ELSE IF short.enabled THEN [next EXCEPT !.pred = long.pred]
        ELSE next
  BY Zenon, <1>3 DEF EngineCollect
<1> HIDE DEF long, short
<1>5. e \in Engine /\ long \in Window /\ short \in Window /\ long.pred \in Int /\ short.pred \in Int
  BY <1>2 DEF GoodEngine, GoodWindow, Window
<1> DEFINE x == [e EXCEPT !.idx = @ + 1]
           y == [next EXCEPT !.pred = short.pred, !.enabled = p]
           z == [next EXCEPT !.pred = long.pred]
<1>6. x \in Engine /\ x.long = e.long /\ x.short = e.short
  BY <1>5 DEF Engine
<1>7. next \in Engine /\ next.long = long /\ next.short = short
  <2> DEFINE v == e.idx + 1
  <2>1. v \in Int
    BY <1>5 DEF Engine
  <2>2. next = [e EXCEPT !.idx = v, !.long = long, !.short = short]
    BY Zenon
  <2> HIDE DEF v, next
  <2> QED BY <1>5, <2>1, <2>2 DEF Engine
<1> HIDE DEF next
<1>8. y \in Engine /\ y.long = long /\ y.short = short
  BY <1>5, <1>7 DEF Engine
<1>9. z \in Engine /\ z.long = long /\ z.short = short
  BY <1>5, <1>7 DEF Engine
<1>10. GoodWindow(e.long) /\ GoodWindow(e.short)
  BY DEF GoodEngine
<1>11. GoodEngine(x) /\ GoodEngine(next) /\ GoodEngine(y) /\ GoodEngine(z)
  BY Zenon, <1>2, <1>6, <1>7, <1>8, <1>9, <1>10 DEF GoodEngine
<1> HIDE DEF x, y, z
<1>12. EngineCollect(e, i, f) \in {e, x, y, z, next}
  BY <1>4 DEF x, y, z
<1>13. e.enabled => EngineCollect(e, i, f) = e
  BY <1>4
<1> QED BY <1>11, <1>12, <1>13

\* Update, of an engine: it stays on or off.
LEMMA EngineUpdateMatches ==
  ASSUME NEW e, GoodEngine(e), NEW i \in Int, NEW f \in Int
  PROVE  GoodEngine(EngineUpdate(e, i, f)) /\ EngineUpdate(e, i, f).enabled = e.enabled
<1> DEFINE short == WindowCollect(e.short, Granulary \div 2, i, f)
<1>1. Granulary \in Nat \ {0} /\ Granulary \div 2 \in Nat \ {0}
  <2>1. Granulary \in Nat /\ Granulary \div 2 # 0
    BY GranularyAssumption
  <2> QED BY <2>1
<1>2. GoodWindow(short)
  BY <1>1, CollectMatches DEF GoodEngine
<1> DEFINE p == IF short.enabled THEN short.pred ELSE e.pred
           t == EngineUpdate(e, i, f)
<1>3. t = [e EXCEPT !.short = short, !.pred = p]
  BY Zenon DEF EngineUpdate
<1> HIDE DEF short, t
<1>4. e \in Engine /\ short \in Window /\ p \in Int
  BY <1>2 DEF GoodEngine, GoodWindow, Window, Engine
<1> HIDE DEF p
<1>5. t \in Engine /\ t.long = e.long /\ t.short = short /\ t.enabled = e.enabled
  BY <1>3, <1>4 DEF Engine
<1>6. GoodWindow(e.long)
  BY DEF GoodEngine
<1>7. GoodEngine(t)
  BY Zenon, <1>2, <1>5, <1>6 DEF GoodEngine
<1> QED BY <1>5, <1>7 DEF t

-----------------------------------------------------------------------------
(* The window of the IPC engine.                                           *)

Turn(c) == c \div Ring

\* A cycle is its turn of the ring and its slot in it.
LEMMA SlotIs ==
  ASSUME NEW c \in Nat
  PROVE  Turn(c) \in Nat /\ Slot(c) \in 0 .. Ring - 1 /\ c = Ring * Turn(c) + Slot(c)
<1> DEFINE q == Turn(c)
           r == Slot(c)
<1>1. Ring \in Nat \ {0} /\ q = c \div Ring /\ r = c % Ring
  BY GranularyAssumption DEF Turn, Slot
<1> HIDE DEF q, r
<1>2. q \in Nat /\ r \in 0 .. Ring - 1
  BY <1>1
<1>3. c = Ring * q + r
  BY <1>1
<1> QED BY <1>2, <1>3 DEF q, r

\* Multiples of a number are that number apart.
LEMMA Multiples ==
  ASSUME NEW r \in Nat \ {0}, NEW p \in Nat, NEW q \in Nat, p < q
  PROVE  r * q >= r * p + r
<1>1. q - p - 1 \in Nat /\ q = p + 1 + (q - p - 1)
  OBVIOUS
<1> DEFINE d == q - p - 1
<1>2. r * q = r * p + r + r * d
  OBVIOUS
<1>3. r * d >= 0 /\ r * d \in Nat /\ r * p \in Nat
  BY <1>1
<1> QED BY <1>2, <1>3

\* A slot is one of the ring.
LEMMA SlotType == ASSUME NEW c \in Nat PROVE Slot(c) \in 0 .. Ring - 1
BY SlotIs

\* Cycles of one slot are a turn of the ring apart.
LEMMA SlotApart ==
  ASSUME NEW c \in Nat, NEW d \in Nat, c < d, Slot(c) = Slot(d)
  PROVE  d - c >= Ring
<1> DEFINE p == Turn(c)
           q == Turn(d)
           r == Slot(c)
<1>1. Ring \in Nat \ {0}
  BY GranularyAssumption
<1>2. p \in Nat /\ q \in Nat /\ r \in Nat /\ c = Ring * p + r /\ d = Ring * q + r
  BY SlotIs
<1> HIDE DEF p, q, r
<1> DEFINE x == Ring * p
           y == Ring * q
<1>3. x \in Nat /\ y \in Nat
  BY <1>1, <1>2
<1>4. p < q
  <2> SUFFICES ASSUME q <= p PROVE FALSE
    BY <1>2
  <2>1. CASE q = p
    BY <1>2, <2>1
  <2>2. CASE q < p
    <3>1. x >= y + Ring
      BY <1>1, <1>2, <2>2, Multiples
    <3>2. c = x + r /\ d = y + r
      BY <1>2
    <3> HIDE DEF x, y
    <3> QED BY <1>1, <1>2, <1>3, <3>1, <3>2
  <2> QED BY <1>2, <2>1, <2>2
<1>5. y >= x + Ring
  BY <1>1, <1>2, <1>4, Multiples
<1>6. c = x + r /\ d = y + r
  BY <1>2
<1> HIDE DEF x, y
<1> QED BY <1>1, <1>2, <1>3, <1>5, <1>6

\* After a turn the slot is the same.
LEMMA SlotAgain == ASSUME NEW c \in Nat PROVE Slot(c + Ring) = Slot(c)
<1>1. Ring \in Nat \ {0}
  BY GranularyAssumption
<1> DEFINE d == c + Ring
           p == Turn(c)
           q == Turn(d)
           r == Slot(c)
           t == Slot(d)
           x == Ring * p
           y == Ring * q
<1>2. d \in Nat /\ p \in Nat /\ q \in Nat /\ r \in 0 .. Ring - 1 /\ t \in 0 .. Ring - 1
  <2>1. d \in Nat
    BY <1>1
  <2> QED BY <2>1, SlotIs
<1>3. c = Ring * p + r /\ d = Ring * q + t
  <2> HIDE DEF d
  <2> QED BY <1>2, SlotIs
<1>4. d = Ring * (p + 1) + r /\ Ring * (p + 1) = Ring * p + Ring
  <2> HIDE DEF p, q, r, t
  <2> QED BY <1>1, <1>2, <1>3
<1> DEFINE z == Ring * (p + 1)
<1>5. x \in Nat /\ y \in Nat /\ z \in Nat /\ d = y + t /\ d = z + r
  <2> HIDE DEF p, q, r, t, d
  <2> QED BY <1>1, <1>2, <1>3, <1>4
<1>6. q < p + 1 => z >= y + Ring
  <2> HIDE DEF p, q, r, t, d
  <2> QED BY <1>1, <1>2, Multiples
<1>7. p + 1 < q => y >= z + Ring
  <2> HIDE DEF p, q, r, t, d
  <2> QED BY <1>1, <1>2, Multiples
<1>8. q = p + 1 => y = z
  OBVIOUS
<1> HIDE DEF p, q, r, t, d, x, y, z
<1>9. t = r
  <2>1. q < p + 1 \/ p + 1 < q \/ q = p + 1
    BY <1>2
  <2> QED BY <1>1, <1>2, <1>5, <1>6, <1>7, <1>8, <2>1
<1> QED BY <1>9 DEF d, r, t

\* The slots of the ring and the cycles of the window that ends at last.
Slots == 0 .. Ring - 1
Cycles(last) == {c \in 0 .. last : c > last - Ring}
IPCType == [inited : BOOLEAN, last : 0 .. MaxTime, sum : Int, nums : [Slots -> Int],
            log : [0 .. MaxTime -> Int]]

\* A slot has the instructions of the cycle of the window that it is for, or
\* none.
GoodIPC(p) ==
  /\ p \in IPCType
  /\ ~ p.inited => p.last = 0 /\ \A s \in Slots : p.nums[s] = 0
  /\ \A c \in 0 .. MaxTime : c > p.last \/ ~ p.inited => p.log[c] = 0
  /\ \A c \in Cycles(p.last) : p.nums[Slot(c)] = p.log[c]
  /\ \A s \in Slots : (\A c \in Cycles(p.last) : Slot(c) # s) => p.nums[s] = 0
  /\ p.sum = SumFunctionOnSet(p.nums, Slots)

\* The fields of a window that is built anew.
LEMMA IPCTyped ==
  ASSUME NEW k, NEW u \in [Slots -> Int], NEW g \in [0 .. MaxTime -> Int], NEW m \in Int,
         NEW t \in 0 .. MaxTime,
         k = [inited |-> TRUE, last |-> t, sum |-> m, nums |-> u, log |-> g]
  PROVE  /\ k \in IPCType /\ k.inited /\ k.last = t /\ k.sum = m /\ k.nums = u /\ k.log = g
BY DEF IPCType

\* The ring is finite.
LEMMA SlotsFinite == IsFiniteSet(Slots)
<1>1. 0 \in Int /\ Ring - 1 \in Int
  BY GranularyAssumption
<1> QED BY <1>1, FS_Interval DEF Slots

\* The slots hold what the cycles of the window had.
LEMMA RingSum ==
  ASSUME NEW p, GoodIPC(p)
  PROVE  p.sum = SumFunctionOnSet(p.log, {c \in 0 .. p.last : c > p.last - Ring})
<1> DEFINE C == Cycles(p.last)
           h == [c \in C |-> Slot(c)]
           Image == {h[c] : c \in C}
           nums == p.nums
           log == p.log
<1>1. /\ p.last \in Nat /\ p.last <= MaxTime /\ MaxTime \in Nat /\ Ring \in Nat \ {0}
      /\ nums \in [Slots -> Int] /\ log \in [0 .. MaxTime -> Int]
  BY GranularyAssumption, TimeAssumption DEF GoodIPC, IPCType
<1>2. IsFiniteSet(C)
  <2>1. 0 \in Int /\ p.last \in Int
    BY <1>1
  <2>2. IsFiniteSet(0 .. p.last)
    BY <2>1, FS_Interval
  <2> QED BY <2>2, FS_Subset DEF Cycles
<1>3. C \subseteq Nat /\ C \subseteq 0 .. MaxTime
  BY <1>1 DEF Cycles
<1>4. \A c, d \in C : h[c] = h[d] => c = d
  <2> SUFFICES ASSUME NEW c \in C, NEW d \in C, Slot(c) = Slot(d), c < d PROVE FALSE
    BY <1>3
  <2>1. d - c >= Ring
    BY <1>3, SlotApart
  <2> QED BY <1>1, <2>1 DEF Cycles
<1>5. \A c \in C : log[c] \in Int /\ nums[h[c]] = log[c]
  BY <1>1, <1>3 DEF GoodIPC
<1>6. Image \subseteq Slots /\ \A s \in Slots \ Image : nums[s] = 0
  BY <1>3, SlotType DEF GoodIPC, Slots
<1>7. \A s \in Image : nums[s] \in Int
  BY <1>1, <1>6
<1> HIDE DEF C, h
<1>8. SumFunctionOnSet(log, C) = SumFunctionOnSet(nums, {h[c] : c \in C})
  BY <1>2, <1>4, <1>5, SumRename
<1> HIDE DEF Image
<1>9. SumFunctionOnSet(nums, Slots) = SumFunctionOnSet(nums, Image)
  BY <1>6, <1>7, SlotsFinite, SumSupport
<1>10. p.sum = SumFunctionOnSet(nums, Slots)
  BY DEF GoodIPC
<1> QED BY <1>8, <1>9, <1>10 DEF Image, C, Cycles

\* The window of the IPC engine before the first instruction.
LEMMA FreshIPC ==
  ASSUME NEW p, p = [inited |-> FALSE, last |-> 0, sum |-> 0, nums |-> [s \in 0 .. Ring - 1 |-> 0],
                     log |-> [c \in 0 .. MaxTime |-> 0]]
  PROVE  GoodIPC(p)
<1>1. p \in IPCType
  BY TimeAssumption DEF IPCType, Slots
<1>2. \A c \in Cycles(p.last) : p.nums[Slot(c)] = p.log[c]
  BY SlotType, TimeAssumption DEF Cycles
<1>3. SumFunctionOnSet(p.nums, Slots) = 0
  <2> DEFINE nums == p.nums
  <2>1. \A s \in Slots : nums[s] = 0
    BY DEF Slots
  <2> HIDE DEF nums
  <2>2. SumFunctionOnSet(nums, Slots) = SumFunctionOnSet(nums, {})
    BY <2>1, SlotsFinite, SumSupport
  <2> QED BY <2>2, SumEmpty DEF nums
<1> QED BY <1>1, <1>2, <1>3 DEF GoodIPC, Slots

Logged(n) == [Counted(n) EXCEPT !.log[now] = @ + n]

\* A cycle that has been counted before, or the first.
LEMMA SameCycle ==
  ASSUME GoodIPC(ipc), NEW n \in Int, now \in 0 .. MaxTime, ~ ipc.inited \/ now = ipc.last
  PROVE  GoodIPC(Logged(n)) /\ Logged(n).last = now
<1> DEFINE k == Logged(n)
           s == Slot(now)
           nums == ipc.nums
           log == ipc.log
           last == ipc.last
<1>1. /\ last \in Nat /\ now \in Nat /\ MaxTime \in Nat /\ Ring \in Nat \ {0} /\ s \in Slots
      /\ nums \in [Slots -> Int] /\ log \in [0 .. MaxTime -> Int] /\ ipc.sum \in Int /\ ipc \in IPCType
  <2>1. MaxTime \in Nat /\ Ring \in Nat \ {0}
    BY GranularyAssumption, TimeAssumption
  <2>2. ipc \in IPCType
    BY DEF GoodIPC
  <2>3. now \in Nat
    BY <2>1
  <2>4. last \in 0 .. MaxTime /\ nums \in [Slots -> Int] /\ log \in [0 .. MaxTime -> Int] /\ ipc.sum \in Int
    BY <2>2 DEF IPCType
  <2>5. s \in Slots
    BY <2>3, SlotType DEF Slots
  <2> HIDE DEF s, nums, log, k
  <2> QED BY <2>1, <2>2, <2>3, <2>4, <2>5
<1> DEFINE u == [nums EXCEPT ![s] = @ + n]
           g == [log EXCEPT ![now] = @ + n]
           m == ipc.sum + n
<1>2. k = [[ipc EXCEPT !.inited = TRUE, !.last = now, !.nums[s] = @ + n, !.sum = @ + n]
             EXCEPT !.log[now] = @ + n]
  BY Zenon DEF Counted, Logged
<1>3. /\ u \in [Slots -> Int] /\ u[s] = nums[s] + n /\ \A t \in Slots \ {s} : u[t] = nums[t]
      /\ g \in [0 .. MaxTime -> Int] /\ g[now] = log[now] + n
      /\ \A c \in (0 .. MaxTime) \ {now} : g[c] = log[c]
      /\ m \in Int
  BY <1>1, SMTT(20)
<1> HIDE DEF k
<1>4. k = [inited |-> TRUE, last |-> now, sum |-> m, nums |-> u, log |-> g]
  BY <1>1, <1>2 DEF IPCType
<1>5. /\ k \in IPCType /\ k.inited /\ k.last = now /\ k.sum = m /\ k.nums = u /\ k.log = g
  <2>1. u \in [Slots -> Int] /\ g \in [0 .. MaxTime -> Int] /\ m \in Int
    BY <1>3
  <2>2. now \in 0 .. MaxTime
    OBVIOUS
  <2> HIDE DEF u, g, m
  <2> QED BY <2>1, <2>2, <1>4, IPCTyped
<1>6. SumFunctionOnSet(u, Slots) = m
  <2>1. nums[s] \in Int /\ SumFunctionOnSet(nums, Slots) = ipc.sum
    BY <1>1 DEF GoodIPC
  <2>2. /\ s \in Slots /\ \A t \in Slots : nums[t] \in Int /\ u[t] \in Int
        /\ \A t \in Slots \ {s} : u[t] = nums[t]
    BY <1>1, <1>3
  <2>3. u[s] = nums[s] + n
    BY <1>3
  <2> HIDE DEF u, nums, s
  <2>4. SumFunctionOnSet(u, Slots) = SumFunctionOnSet(nums, Slots) - nums[s] + u[s]
    BY <2>2, SlotsFinite, SumUpdate
  <2> QED BY <1>1, <2>1, <2>3, <2>4
<1>7. ASSUME NEW c \in Cycles(now) PROVE c \in Nat /\ c \in 0 .. MaxTime /\ Slot(c) \in Slots
  <2>1. c \in Nat /\ c \in 0 .. MaxTime
    BY <1>1 DEF Cycles
  <2> QED BY <2>1, SlotType DEF Slots
<1>8. ASSUME NEW c \in Cycles(now), c # now PROVE Slot(c) # s
  <2> SUFFICES ASSUME Slot(c) = Slot(now) PROVE FALSE
    OBVIOUS
  <2>1. c < now
    BY <1>1, <1>8 DEF Cycles
  <2>2. now - c >= Ring
    BY <1>1, <1>7, <2>1, SlotApart
  <2> QED BY <1>1, <2>2 DEF Cycles
<1>9. now \in Cycles(now)
  BY <1>1 DEF Cycles
<1>10. ASSUME now = last
       PROVE  /\ \A c \in 0 .. MaxTime : c > now => g[c] = 0
              /\ \A c \in Cycles(now) : u[Slot(c)] = g[c]
              /\ \A t \in Slots : (\A c \in Cycles(now) : Slot(c) # t) => u[t] = 0
  <2>1. \A c \in Cycles(now) : nums[Slot(c)] = log[c]
    BY <1>10 DEF GoodIPC
  <2>2. \A t \in Slots : (\A c \in Cycles(now) : Slot(c) # t) => nums[t] = 0
    BY <1>10 DEF GoodIPC
  <2>3. \A c \in 0 .. MaxTime : c > now => log[c] = 0
    BY <1>10 DEF GoodIPC
  <2> HIDE DEF u, g, nums, log, last
  <2>4. ASSUME NEW c \in Cycles(now) PROVE u[Slot(c)] = g[c]
    <3>1. CASE c = now
      BY <1>3, <2>1, <3>1 DEF s
    <3>2. CASE c # now
      BY <1>3, <1>7, <1>8, <2>1, <3>2
    <3> QED BY <3>1, <3>2
  <2>5. ASSUME NEW t \in Slots, \A c \in Cycles(now) : Slot(c) # t PROVE u[t] = 0
    BY <1>3, <1>9, <2>2, <2>5
  <2>6. \A c \in 0 .. MaxTime : c > now => g[c] = 0
    BY <1>1, <1>3, <2>3
  <2> QED BY <2>4, <2>5, <2>6
<1>11. ASSUME ~ ipc.inited
       PROVE  /\ \A c \in 0 .. MaxTime : c > now => g[c] = 0
              /\ \A c \in Cycles(now) : u[Slot(c)] = g[c]
              /\ \A t \in Slots : (\A c \in Cycles(now) : Slot(c) # t) => u[t] = 0
  <2>1. (\A t \in Slots : nums[t] = 0) /\ \A c \in 0 .. MaxTime : log[c] = 0
    BY <1>11 DEF GoodIPC
  <2> HIDE DEF u, g, nums, log
  <2>2. ASSUME NEW c \in Cycles(now) PROVE u[Slot(c)] = g[c]
    <3>1. CASE c = now
      BY <1>1, <1>3, <2>1, <3>1 DEF s
    <3>2. CASE c # now
      BY <1>3, <1>7, <1>8, <2>1, <3>2
    <3> QED BY <3>1, <3>2
  <2>3. ASSUME NEW t \in Slots, \A c \in Cycles(now) : Slot(c) # t PROVE u[t] = 0
    BY <1>3, <1>9, <2>1, <2>3
  <2>4. \A c \in 0 .. MaxTime : c > now => g[c] = 0
    BY <1>1, <1>3, <2>1
  <2> QED BY <2>2, <2>3, <2>4
<1> HIDE DEF u, g, m
<1>12. GoodIPC(k)
  BY <1>5, <1>6, <1>10, <1>11 DEF GoodIPC
<1> QED BY <1>5, <1>12 DEF k

\* A new cycle takes the slots of the cycles that leave the window.
LEMMA NewCycle ==
  ASSUME GoodIPC(ipc), NEW n \in Int, now \in 0 .. MaxTime, ipc.inited, ipc.last < now
  PROVE  GoodIPC(Logged(n)) /\ Logged(n).last = now
<1> DEFINE k == Logged(n)
           s == Slot(now)
           nums == ipc.nums
           log == ipc.log
           last == ipc.last
<1>1. /\ last \in Nat /\ now \in Nat /\ MaxTime \in Nat /\ Ring \in Nat \ {0} /\ s \in Slots
      /\ nums \in [Slots -> Int] /\ log \in [0 .. MaxTime -> Int] /\ ipc.sum \in Int
      /\ ipc \in IPCType /\ last < now /\ ipc.inited
  <2>1. MaxTime \in Nat /\ Ring \in Nat \ {0}
    BY GranularyAssumption, TimeAssumption
  <2>2. ipc \in IPCType
    BY DEF GoodIPC
  <2>3. now \in Nat
    BY <2>1
  <2>4. last \in 0 .. MaxTime /\ nums \in [Slots -> Int] /\ log \in [0 .. MaxTime -> Int] /\ ipc.sum \in Int
    BY <2>2 DEF IPCType
  <2>5. s \in Slots
    BY <2>3, SlotType DEF Slots
  <2> HIDE DEF s, nums, log, k
  <2> QED BY <2>1, <2>2, <2>3, <2>4, <2>5
<1> DEFINE kept == ResetIdle(nums, last, now)
           gone == [t \in DOMAIN kept |-> nums[t] - kept[t]]
           lost == SumFunction(gone) + kept[s]
           u == [kept EXCEPT ![s] = n]
           g == [log EXCEPT ![now] = @ + n]
           m == ipc.sum - lost + n
<1>2. k = [[ipc EXCEPT !.last = now, !.nums = u, !.sum = @ - lost + n] EXCEPT !.log[now] = @ + n]
  <2>1. ~ (~ ipc.inited \/ now = ipc.last)
    BY <1>1
  <2> QED BY Zenon, <2>1 DEF Counted, Logged
<1>3. /\ kept \in [Slots -> Int]
      /\ \A t \in Slots : kept[t] = IF \E c \in last + 1 .. now - 1 : Slot(c) = t THEN 0 ELSE nums[t]
  BY <1>1 DEF ResetIdle
<1> HIDE DEF kept
<1>4. /\ gone = [t \in Slots |-> nums[t] - kept[t]] /\ DOMAIN gone = Slots
      /\ \A t \in Slots : gone[t] \in Int
  BY <1>1, <1>3
<1>5. SumFunction(gone) = SumFunctionOnSet(nums, Slots) - SumFunctionOnSet(kept, Slots)
  <2>1. SumFunction(gone) = SumFunctionOnSet(gone, Slots)
    BY Zenon, <1>4 DEF SumFunction
  <2>2. \A t \in Slots : nums[t] \in Int /\ kept[t] \in Int /\ gone[t] = nums[t] - kept[t]
    BY <1>1, <1>3, <1>4
  <2> HIDE DEF gone, nums
  <2>3. SumFunctionOnSet(gone, Slots) = SumFunctionOnSet(nums, Slots) - SumFunctionOnSet(kept, Slots)
    BY <2>2, SlotsFinite, SumDifference
  <2> QED BY <2>1, <2>3
<1>6. SumFunctionOnSet(kept, Slots) \in Int /\ SumFunctionOnSet(nums, Slots) = ipc.sum
  <2>1. \A t \in Slots : kept[t] \in Int
    BY <1>3
  <2> QED BY <2>1, SlotsFinite, SumInt DEF GoodIPC
<1>7. /\ u \in [Slots -> Int] /\ u[s] = n /\ \A t \in Slots \ {s} : u[t] = kept[t]
      /\ g \in [0 .. MaxTime -> Int] /\ g[now] = log[now] + n
      /\ \A c \in (0 .. MaxTime) \ {now} : g[c] = log[c]
  BY <1>1, <1>3
<1>8. SumFunctionOnSet(u, Slots) = SumFunctionOnSet(kept, Slots) - kept[s] + n /\ kept[s] \in Int
  <2>1. /\ s \in Slots /\ u[s] = n /\ \A t \in Slots : kept[t] \in Int /\ u[t] \in Int
        /\ \A t \in Slots \ {s} : u[t] = kept[t]
    BY <1>1, <1>3, <1>7
  <2> HIDE DEF s, u
  <2>2. SumFunctionOnSet(u, Slots) = SumFunctionOnSet(kept, Slots) - kept[s] + u[s]
    BY <2>1, SlotsFinite, SumUpdate
  <2> QED BY <2>1, <2>2
<1>9. m \in Int /\ m = SumFunctionOnSet(u, Slots)
  <2> DEFINE x == SumFunctionOnSet(kept, Slots)
             y == kept[s]
             z == ipc.sum
  <2>1. lost = (z - x) + y
    BY <1>5, <1>6
  <2>2. x \in Int /\ y \in Int /\ z \in Int /\ m = z - lost + n
    BY <1>1, <1>6, <1>8
  <2>3. SumFunctionOnSet(u, Slots) = x - y + n
    BY <1>8
  <2> HIDE DEF x, y, z, lost, m, u
  <2> QED BY <2>1, <2>2, <2>3
<1> HIDE DEF k
<1>10. k = [inited |-> TRUE, last |-> now, sum |-> m, nums |-> u, log |-> g]
  <2>1. ipc.inited = TRUE
    BY <1>1 DEF IPCType
  <2> HIDE DEF u, lost
  <2> QED BY <1>1, <1>2, <2>1 DEF IPCType
<1>11. /\ k \in IPCType /\ k.inited /\ k.last = now /\ k.sum = m /\ k.nums = u /\ k.log = g
  <2>1. u \in [Slots -> Int] /\ g \in [0 .. MaxTime -> Int] /\ m \in Int
    BY <1>7, <1>9
  <2>2. now \in 0 .. MaxTime
    OBVIOUS
  <2> HIDE DEF u, g, m
  <2> QED BY <2>1, <2>2, <1>10, IPCTyped
<1>12. /\ \A c \in Cycles(now) : c \in Nat /\ c <= now /\ c > now - Ring /\ c \in 0 .. MaxTime /\ Slot(c) \in Slots
       /\ \A c \in Cycles(last) : c \in Nat /\ c <= last /\ c > last - Ring /\ Slot(c) \in Slots
  <2>1. \A c \in Nat : Slot(c) \in Slots
    BY SlotType DEF Slots
  <2>2. \A c \in Cycles(now) : c \in Nat /\ c <= now /\ c > now - Ring /\ c \in 0 .. MaxTime
    BY <1>1 DEF Cycles
  <2>3. \A c \in Cycles(last) : c \in Nat /\ c <= last /\ c > last - Ring
    <3> HIDE DEF last
    <3> QED BY <1>1 DEF Cycles
  <2> QED BY <2>1, <2>2, <2>3
<1>13. ASSUME NEW c \in Nat, NEW d \in Nat, c < d, d <= now, c > now - Ring PROVE Slot(c) # Slot(d)
  <2> SUFFICES ASSUME Slot(c) = Slot(d) PROVE FALSE
    OBVIOUS
  <2>1. d - c >= Ring
    BY <1>13, SlotApart
  <2> QED BY <1>1, <1>13, <2>1
<1>14. now \in Cycles(now)
  BY <1>1 DEF Cycles
<1>15. /\ \A c \in Cycles(last) : nums[Slot(c)] = log[c]
       /\ \A t \in Slots : (\A c \in Cycles(last) : Slot(c) # t) => nums[t] = 0
       /\ \A c \in 0 .. MaxTime : c > last => log[c] = 0
  BY DEF GoodIPC
<1> HIDE DEF u, g, nums, log, last
<1>16. ASSUME NEW c \in Cycles(now) PROVE u[Slot(c)] = g[c]
  <2>1. CASE c = now
    BY <1>1, <1>7, <1>15, <2>1 DEF s
  <2>2. CASE c # now /\ c > last
    <3>1. c \in last + 1 .. now - 1
      BY <1>1, <1>12, <2>2
    <3>2. Slot(c) # s
      BY <1>1, <1>12, <1>13, <2>2
    <3>3. kept[Slot(c)] = 0
      BY <1>3, <1>12, <3>1
    <3>4. log[c] = 0
      BY <1>12, <1>15, <2>2
    <3> QED BY <1>7, <1>12, <2>2, <3>2, <3>3, <3>4
  <2>3. CASE c <= last
    <3>1. c \in Cycles(last) /\ c < now
      BY <1>1, <1>12, <2>3 DEF Cycles
    <3>2. Slot(c) # s
      BY <1>1, <1>12, <1>13, <3>1
    <3>3. ASSUME NEW d \in last + 1 .. now - 1 PROVE Slot(d) # Slot(c)
      <4>1. d \in Nat /\ c < d /\ d <= now
        BY <1>1, <1>12, <2>3
      <4> QED BY <1>12, <1>13, <4>1
    <3>4. kept[Slot(c)] = nums[Slot(c)]
      BY <1>3, <1>12, <3>3
    <3> QED BY <1>1, <1>7, <1>12, <1>15, <3>1, <3>2, <3>4
  <2> QED BY <1>1, <1>12, <2>1, <2>2, <2>3
<1>17. ASSUME NEW t \in Slots, \A c \in Cycles(now) : Slot(c) # t PROVE u[t] = 0
  <2>1. t # s
    BY <1>14, <1>17
  <2>2. u[t] = kept[t]
    BY <1>7, <2>1
  <2>3. CASE \A c \in Cycles(last) : Slot(c) # t
    BY <1>3, <1>15, <2>2, <2>3
  <2>4. CASE \E c \in Cycles(last) : Slot(c) = t
    <3>1. PICK c \in Cycles(last) : Slot(c) = t
      BY <2>4
    <3>2. c <= now - Ring
      <4> SUFFICES ASSUME c > now - Ring PROVE FALSE
        BY <1>1, <1>12
      <4>1. c \in Cycles(now)
        BY <1>1, <1>12 DEF Cycles
      <4> QED BY <1>17, <3>1, <4>1
    <3> DEFINE d == c + Ring
    <3>3. d \in Nat /\ d > last /\ d <= now /\ Slot(d) = t
      <4>1. c \in Nat /\ c > last - Ring
        BY <1>12
      <4>2. Slot(d) = t
        BY <3>1, <4>1, SlotAgain
      <4> QED BY <1>1, <3>2, <4>1, <4>2
    <3> HIDE DEF d
    <3>4. d # now
      BY <2>1, <3>3 DEF s
    <3>5. d \in last + 1 .. now - 1
      BY <1>1, <3>3, <3>4
    <3> QED BY <1>3, <2>2, <3>3, <3>5
  <2> QED BY <2>3, <2>4
<1>18. ASSUME NEW c \in 0 .. MaxTime, c > now PROVE g[c] = 0
  <2>1. c # now /\ c > last
    BY <1>1, <1>18
  <2> QED BY <1>7, <1>15, <2>1
<1> HIDE DEF m
<1>19. GoodIPC(k)
  BY <1>9, <1>11, <1>16, <1>17, <1>18 DEF GoodIPC
<1> QED BY <1>11, <1>19 DEF k

-----------------------------------------------------------------------------
(* The invariant.                                                          *)

Run == [start : Nat, last : Nat, blocks : Nat]
Stable == {b \in Block : engines[b].enabled}

ClockInv == now \in 0 .. MaxTime /\ \A w \in DOMAIN runs : runs[w] \in Run
EnginesInv == engines \in [Block -> Engine] /\ \A b \in Block : GoodEngine(engines[b])
BranchInv ==
  /\ branch \in [rate : Int, enabled : BOOLEAN]
  /\ branch.rate = SumFunctionOnSet(Rate, Stable)
  /\ branch.enabled <=> branch.rate >= Coverage
IPCInv == GoodIPC(ipc) /\ ipc.last <= now

IInv == ClockInv /\ EnginesInv /\ BranchInv /\ IPCInv

\* The invariant holds at the start,
LEMMA InitInv == Init => IInv
<1> SUFFICES ASSUME Init PROVE IInv
  OBVIOUS
<1>1. ClockInv
  BY TimeAssumption DEF Init, ClockInv
<1>2. EnginesInv
  <2>1. GoodEngine(FreshEngine) /\ FreshEngine \in Engine
    BY FreshEngineMatches DEF GoodEngine
  <2> QED BY <2>1 DEF Init, EnginesInv
<1>3. BranchInv
  <2>1. Stable = {}
    BY FreshEngineMatches DEF Init, Stable
  <2>2. branch = [rate |-> 0, enabled |-> FALSE]
    BY DEF Init
  <2>3. ~ (0 >= Coverage)
    BY CoverageAssumption
  <2> QED BY <2>1, <2>2, <2>3, SumEmpty DEF BranchInv
<1>4. IPCInv
  <2>1. ipc = [inited |-> FALSE, last |-> 0, sum |-> 0, nums |-> [s \in 0 .. Ring - 1 |-> 0],
               log |-> [c \in 0 .. MaxTime |-> 0]] /\ now = 0
    BY DEF Init
  <2>2. GoodIPC(ipc)
    BY <2>1, FreshIPC
  <2>3. ipc.last = 0
    BY <2>1
  <2> QED BY <2>1, <2>2, <2>3 DEF IPCInv
<1> QED BY <1>1, <1>2, <1>3, <1>4 DEF IInv

\* A measured block: its engine may switch on, and is counted then.
LEMMA FlushInv ==
  ASSUME IInv, NEW w \in Wave, NEW b \in Block, FlushBlock(w, b)
  PROVE  IInv'
<1> DEFINE i == runs[w].last
           e == IF engines[b].enabled THEN EngineUpdate(engines[b], i, now)
                                      ELSE EngineCollect(engines[b], i, now)
<1>1. /\ w \in DOMAIN runs /\ ~ branch.enabled
      /\ engines' = [engines EXCEPT ![b] = e]
      /\ branch' = [rate |-> Covered(b, engines[b], e),
                    enabled |-> e.enabled /\ ~ engines[b].enabled /\ Covered(b, engines[b], e) >= Coverage]
      /\ runs' = [runs EXCEPT ![w].last = now, ![w].blocks = @ + 1]
      /\ now' = now /\ ipc' = ipc
  BY DEF FlushBlock, Running
<1>2. now \in Nat /\ now \in 0 .. MaxTime /\ runs[w] \in Run /\ i \in Int /\ now \in Int
  BY <1>1, TimeAssumption DEF IInv, ClockInv, Run
<1>3. /\ GoodEngine(engines[b]) /\ engines \in [Block -> Engine]
      /\ \A c \in Block : GoodEngine(engines[c])
  BY DEF IInv, EnginesInv
<1> HIDE DEF i
<1>4. GoodEngine(e) /\ (engines[b].enabled => e.enabled)
  <2>1. GoodEngine(EngineUpdate(engines[b], i, now)) /\ EngineUpdate(engines[b], i, now).enabled = engines[b].enabled
    BY <1>2, <1>3, EngineUpdateMatches
  <2>2. GoodEngine(EngineCollect(engines[b], i, now))
    BY <1>2, <1>3, EngineCollectMatches
  <2> QED BY <2>1, <2>2
<1> HIDE DEF e
<1>5. ClockInv'
  <2>1. \A v \in DOMAIN runs : runs[v] \in Run
    BY DEF IInv, ClockInv
  <2>2. DOMAIN runs' = DOMAIN runs
    BY <1>1
  <2>3. \A v \in DOMAIN runs : v # w => runs'[v] = runs[v]
    BY <1>1
  <2>4. runs'[w] = [runs[w] EXCEPT !.last = now, !.blocks = @ + 1]
    BY <1>1
  <2>5. runs'[w] \in Run
    <3> DEFINE r == runs[w]
               n == r.blocks + 1
    <3>1. n \in Nat
      BY <1>2 DEF Run
    <3>2. runs'[w] = [r EXCEPT !.last = now, !.blocks = n] /\ r \in Run
      BY <1>2, <2>4
    <3> HIDE DEF n, r
    <3> QED BY <1>2, <3>1, <3>2 DEF Run
  <2> QED BY <1>1, <1>2, <2>1, <2>2, <2>3, <2>5 DEF ClockInv
<1>6. EnginesInv'
  <2>1. e \in Engine
    BY <1>4 DEF GoodEngine
  <2> QED BY <1>1, <1>3, <1>4, <2>1 DEF EnginesInv
<1>7. BranchInv'
  <2>1. /\ branch.rate \in Int /\ branch.rate = SumFunctionOnSet(Rate, Stable)
        /\ ~ (branch.rate >= Coverage)
    BY <1>1 DEF IInv, BranchInv
  <2>2. e.enabled \in BOOLEAN /\ engines[b].enabled \in BOOLEAN
    BY <1>3, <1>4 DEF GoodEngine, Engine
  <2>3. \A c \in Block : engines'[c] = IF c = b THEN e ELSE engines[c]
    BY <1>1, <1>3
  <2>4. CASE e.enabled /\ ~ engines[b].enabled
    <3>1. Stable' = Stable \cup {b} /\ b \notin Stable
      BY <2>3, <2>4 DEF Stable
    <3>2. IsFiniteSet(Stable) /\ \A c \in Stable \cup {b} : Rate[c] \in Int
      BY BlockAssumption, FS_Subset DEF Stable
    <3>3. SumFunctionOnSet(Rate, Stable \cup {b}) = Rate[b] + SumFunctionOnSet(Rate, Stable)
      BY <3>1, <3>2, SumAdd
    <3> DEFINE r == branch.rate + Rate[b]
    <3>4. branch' = [rate |-> r, enabled |-> r >= Coverage]
      BY <1>1, <2>4 DEF Covered
    <3>5. Rate[b] \in Int
      BY BlockAssumption
    <3>6. SumFunctionOnSet(Rate, Stable') = r /\ r \in Int
      BY <2>1, <3>1, <3>3, <3>5
    <3> DEFINE enough == r >= Coverage
    <3>7. enough \in BOOLEAN /\ branch' = [rate |-> r, enabled |-> enough]
      BY <3>4
    <3> HIDE DEF r, enough
    <3>8. branch'.rate = r /\ branch'.enabled = enough /\ branch' \in [rate : Int, enabled : BOOLEAN]
      BY <3>6, <3>7
    <3> QED BY <3>6, <3>8 DEF BranchInv, enough
  <2>5. CASE ~ (e.enabled /\ ~ engines[b].enabled)
    <3>1. Stable' = Stable
      <4>1. e.enabled <=> engines[b].enabled
        BY <1>4, <2>5
      <4> QED BY <2>3, <4>1 DEF Stable
    <3>2. branch' = [rate |-> branch.rate, enabled |-> FALSE]
      BY <1>1, <2>5 DEF Covered
    <3> QED BY <2>1, <3>1, <3>2 DEF BranchInv
  <2> QED BY <2>4, <2>5
<1>8. IPCInv'
  BY <1>1 DEF IInv, IPCInv, GoodIPC, IPCType
<1> QED BY <1>5, <1>6, <1>7, <1>8 DEF IInv

\* Nothing else changes the engines of the blocks.
LEMMA AsideInv ==
  ASSUME IInv, UNCHANGED <<engines, branch>>, ClockInv', IPCInv'
  PROVE  IInv'
<1>1. EnginesInv'
  BY DEF IInv, EnginesInv
<1>2. BranchInv'
  <2>1. Stable' = Stable
    BY DEF Stable
  <2> QED BY <2>1 DEF IInv, BranchInv
<1> QED BY <1>1, <1>2 DEF IInv

\* and every step keeps it.
LEMMA StepInv == IInv /\ [Next]_vars => IInv'
<1> SUFFICES ASSUME IInv, [Next]_vars PROVE IInv'
  OBVIOUS
<1>1. /\ now \in Nat /\ now \in 0 .. MaxTime /\ MaxTime \in Nat /\ \A w \in DOMAIN runs : runs[w] \in Run
      /\ GoodIPC(ipc) /\ ipc.last <= now
  BY TimeAssumption DEF IInv, ClockInv, IPCInv
<1>2. ASSUME UNCHANGED <<now, ipc>> PROVE IPCInv'
  BY <1>1, <1>2 DEF IPCInv, GoodIPC
<1>3. CASE Advance
  <2>1. now' = now + 1 /\ now < MaxTime /\ UNCHANGED <<engines, branch, runs, ipc>>
    BY <1>3 DEF Advance, waveVars
  <2>2. ClockInv'
    BY <1>1, <2>1 DEF ClockInv
  <2>3. ipc.last \in Nat
    BY <1>1 DEF GoodIPC, IPCType
  <2>4. IPCInv'
    BY <1>1, <2>1, <2>3 DEF IPCInv, GoodIPC
  <2> QED BY <2>1, <2>2, <2>4, AsideInv
<1>4. CASE HandleSampledWfCompletedEvent
  <2>1. UNCHANGED <<now, engines, branch, runs, ipc>>
    BY <1>4 DEF HandleSampledWfCompletedEvent
  <2>2. ClockInv'
    BY <1>1, <2>1 DEF ClockInv
  <2> QED BY <1>2, <2>1, <2>2, AsideInv
<1>5. ASSUME NEW w \in Wave, CollectWfStart(w) PROVE IInv'
  <2>1. /\ UNCHANGED <<now, engines, branch, ipc>>
        /\ runs' = [v \in DOMAIN runs \cup {w} |->
                      IF v = w THEN [start |-> now, last |-> now, blocks |-> 0] ELSE runs[v]]
    BY <1>5 DEF CollectWfStart
  <2>2. ClockInv'
    BY <1>1, <2>1 DEF ClockInv, Run
  <2> QED BY <1>2, <2>1, <2>2, AsideInv
<1>6. ASSUME NEW w \in Wave, EndInDetail(w) PROVE IInv'
  <2>1. UNCHANGED <<now, engines, branch, ipc>> /\ runs' = [v \in DOMAIN runs \ {w} |-> runs[v]]
    BY <1>6 DEF EndInDetail
  <2>2. ClockInv'
    BY <1>1, <2>1 DEF ClockInv
  <2> QED BY <1>2, <2>1, <2>2, AsideInv
<1>7. ASSUME NEW w \in Wave, HandleWfCompletionEvent(w) PROVE IInv'
  <2>1. UNCHANGED <<now, engines, branch, runs, ipc>>
    BY <1>7 DEF HandleWfCompletionEvent
  <2>2. ClockInv'
    BY <1>1, <2>1 DEF ClockInv
  <2> QED BY <1>2, <2>1, <2>2, AsideInv
<1>8. ASSUME NEW w \in Wave, NEW b \in Block, Predict(w, b) PROVE IInv'
  <2>1. UNCHANGED <<now, engines, branch, ipc>> /\ runs' = [v \in DOMAIN runs \ {w} |-> runs[v]]
    BY <1>8 DEF Predict
  <2>2. ClockInv'
    BY <1>1, <2>1 DEF ClockInv
  <2> QED BY <1>2, <2>1, <2>2, AsideInv
<1>9. ASSUME NEW n \in 1 .. PeakInsts, IPCCollect(n) PROVE IInv'
  <2>1. /\ UNCHANGED <<now, engines, branch, runs>>
        /\ ipc' = Logged(n)
    BY <1>9 DEF IPCCollect, Logged, waveVars
  <2>2. n \in Int
    BY TimeAssumption
  <2>3. ipc.last \in Nat /\ ipc.inited \in BOOLEAN
    BY <1>1 DEF GoodIPC, IPCType
  <2>4. GoodIPC(Logged(n)) /\ Logged(n).last = now
    <3>1. CASE ~ ipc.inited \/ now = ipc.last
      BY <1>1, <2>2, <3>1, SameCycle
    <3>2. CASE ipc.inited /\ ipc.last < now
      BY <1>1, <2>2, <3>2, NewCycle
    <3> QED BY <1>1, <2>3, <3>1, <3>2
  <2>5. IPCInv'
    <3>1. GoodIPC(ipc')
      BY <2>1, <2>4
    <3>2. GoodIPC(ipc)'
      BY <3>1 DEF GoodIPC
    <3> QED BY <1>1, <2>1, <2>4, <3>2 DEF IPCInv
  <2>6. ClockInv'
    BY <1>1, <2>1 DEF ClockInv
  <2> QED BY <2>1, <2>5, <2>6, AsideInv
<1>10. CASE UNCHANGED vars
  <2>1. UNCHANGED <<now, engines, branch, runs, ipc>>
    BY <1>10 DEF vars, waveVars
  <2>2. ClockInv'
    BY <1>1, <2>1 DEF ClockInv
  <2> QED BY <1>2, <2>1, <2>2, AsideInv
<1> QED BY <1>3, <1>4, <1>5, <1>6, <1>7, <1>8, <1>9, <1>10, FlushInv DEF Next

\* The invariant of the sampling engines: every window has the sums of its data,
\* the coverage is that of the stable blocks, and each slot of the ring has the
\* instructions of the cycle of the window it is for.
THEOREM Invariance == Spec => []IInv
BY InitInv, StepInv, PTL DEF Spec

\* The sums that a prediction is computed from are those of the window, and the
\* IPC engine counts the instructions of the last Ring cycles.
THEOREM SumsStayExact == Spec => []SumsMatch
<1>1. IInv => SumsMatch
  <2> SUFFICES ASSUME IInv PROVE SumsMatch
    OBVIOUS
  <2>1. \A b \in Block : WindowMatches(engines[b].long) /\ WindowMatches(engines[b].short)
    BY DEF IInv, EnginesInv, GoodEngine, GoodWindow
  <2>2. GoodIPC(ipc)
    BY DEF IInv, IPCInv
  <2>3. ipc.sum = SumFunctionOnSet(ipc.log, {c \in 0 .. ipc.last : c > ipc.last - Ring})
    BY <2>2, RingSum
  <2> QED BY <2>1, <2>3 DEF SumsMatch
<1> QED BY <1>1, Invariance, PTL

\* Sampling starts when the stable blocks, each counted once, cover enough of the
\* kernel, and not before.
THEOREM CoverageIsExact == Spec => []CoverageMatches
<1>1. IInv => CoverageMatches
  BY DEF IInv, BranchInv, CoverageMatches, Stable
<1> QED BY <1>1, Invariance, PTL

-----------------------------------------------------------------------------
(* The time engine.                                                        *)

HeapWave == [wave : Wave, at : Int, nr : Nat]
End == [wave : Wave, at : Int]
Waves(S) == {x.wave : x \in S}

\* A heap of waves that differ, each with a place of its own in the order.
GoodHeap(h) ==
  /\ h \in SUBSET HeapWave /\ IsFiniteSet(h)
  /\ \A x, y \in h : x.wave = y.wave \/ x.nr = y.nr => x = y

\* Completion events of waves that differ, none before a time.
GoodEnds(s, t) ==
  /\ s \in SUBSET End /\ IsFiniteSet(s)
  /\ \A x, y \in s : x.wave = y.wave => x = y
  /\ \A x \in s : x.at >= t

\* The larger of two numbers.
LEMMA MaxIs ==
  ASSUME NEW i \in Int, NEW j \in Int
  PROVE  /\ Max({i, j}) \in Int
         /\ Max({i, j}) >= i /\ Max({i, j}) >= j
<1> DEFINE m == IF i >= j THEN i ELSE j
<1>1. m \in {i, j} /\ \A y \in {i, j} : m >= y
  OBVIOUS
<1>2. Max({i, j}) \in {i, j} /\ \A y \in {i, j} : Max({i, j}) >= y
  BY <1>1, Zenon DEF Max
<1> QED BY <1>2

\* The least of a finite set of numbers.
LEMMA MinIs ==
  ASSUME NEW S \in SUBSET Int, IsFiniteSet(S), S # {}
  PROVE  Min(S) \in S /\ \A y \in S : Min(S) <= y
<1> DEFINE T == {A \in SUBSET S : A # {} => \E x \in A : \A y \in A : x <= y}
<1>1. ASSUME NEW A \in SUBSET S, \A x \in A : A \ {x} \in T PROVE A \in T
  <2> SUFFICES ASSUME A # {} PROVE \E x \in A : \A y \in A : x <= y
    OBVIOUS
  <2>1. PICK z \in A : TRUE
    OBVIOUS
  <2>2. CASE A = {z}
    BY <2>2
  <2>3. CASE A # {z}
    <3>1. PICK x \in A \ {z} : \A y \in A \ {z} : x <= y
      BY <1>1, <2>1, <2>3
    <3>2. CASE x <= z
      BY <3>1, <3>2
    <3>3. CASE ~ (x <= z)
      <4>1. \A y \in A : z <= y
        BY <3>1, <3>3
      <4> QED BY <4>1
    <3> QED BY <3>2, <3>3
  <2> QED BY <2>2, <2>3
<1>2. SUBSET S \subseteq T
  <2> HIDE DEF T
  <2> QED BY <1>1, SetInduction
<1>3. \E x \in S : \A y \in S : x <= y
  BY <1>2
<1> QED BY <1>3, Zenon DEF Min

\* The order of the heap: by the ends, and waves that end together by when
\* they were predicted.
LEMMA BeforeIs ==
  ASSUME NEW x \in HeapWave, NEW y \in HeapWave
  PROVE  /\ x.nr # y.nr => Before(x, y) \/ Before(y, x)
         /\ \A z \in HeapWave : Before(x, y) /\ Before(y, z) => Before(x, z)
BY DEF Before, HeapWave

\* One wave of a heap is after all others.
LEMMA LastOfHeap ==
  ASSUME NEW h, GoodHeap(h), h # {}
  PROVE  \E x \in h : \A y \in h \ {x} : Before(y, x)
<1> DEFINE T == {A \in SUBSET h : A # {} => \E x \in A : \A y \in A \ {x} : Before(y, x)}
<1>1. /\ \A x \in h : x \in HeapWave
      /\ \A x, y \in h : x.nr = y.nr => x = y
      /\ IsFiniteSet(h)
  BY DEF GoodHeap
<1>2. ASSUME NEW A \in SUBSET h, \A x \in A : A \ {x} \in T PROVE A \in T
  <2> SUFFICES ASSUME A # {} PROVE \E x \in A : \A y \in A \ {x} : Before(y, x)
    OBVIOUS
  <2>1. PICK z \in A : TRUE
    OBVIOUS
  <2>2. CASE A = {z}
    BY <2>2
  <2>3. CASE A # {z}
    <3>1. PICK x \in A \ {z} : \A y \in (A \ {z}) \ {x} : Before(y, x)
      BY <1>2, <2>1, <2>3
    <3>2. Before(x, z) \/ Before(z, x)
      BY <1>1, <3>1, BeforeIs
    <3>3. CASE Before(z, x)
      BY <3>1, <3>3
    <3>4. CASE Before(x, z)
      <4>1. ASSUME NEW y \in A \ {z} PROVE Before(y, z)
        <5>1. y = x \/ Before(y, x)
          BY <3>1
        <5> QED BY <1>1, <3>1, <3>4, <5>1, BeforeIs
      <4> QED BY <2>1, <4>1
    <3> QED BY <3>2, <3>3, <3>4
  <2> QED BY <2>2, <2>3
<1>3. SUBSET h \subseteq T
  <2> HIDE DEF T
  <2> QED BY <1>1, <1>2, SetInduction
<1> QED BY <1>3

Sorted(s) == \A i, j \in DOMAIN s : i < j => Before(s[i], s[j])

\* A heap has an order.
LEMMA SortExists ==
  ASSUME NEW h, GoodHeap(h)
  PROVE  \E s \in SetToSeqs(h) : Sorted(s)
<1> DEFINE T == {A \in SUBSET h : \E s \in SetToSeqs(A) : Sorted(s)}
<1>1. \A A \in SUBSET h : GoodHeap(A) /\ IsFiniteSet(A) /\ Cardinality(A) \in Nat
  <2> SUFFICES ASSUME NEW A \in SUBSET h PROVE GoodHeap(A) /\ IsFiniteSet(A) /\ Cardinality(A) \in Nat
    OBVIOUS
  <2>1. IsFiniteSet(A)
    BY FS_Subset DEF GoodHeap
  <2> QED BY <2>1, FS_CardinalityType DEF GoodHeap
<1>2. ASSUME NEW A \in SUBSET h, \A x \in A : A \ {x} \in T PROVE A \in T
  <2>1. CASE A = {}
    <3> DEFINE s == [i \in 1 .. 0 |-> 0]
    <3>1. Cardinality(A) = 0
      BY <2>1, FS_EmptySet
    <3>2. s \in SetToSeqs(A) /\ Sorted(s)
      BY <2>1, <3>1 DEF SetToSeqs, Sorted
    <3> QED BY <3>2
  <2>2. CASE A # {}
    <3>1. PICK x \in A : \A y \in A \ {x} : Before(y, x)
      BY <1>1, <2>2, LastOfHeap
    <3> DEFINE n == Cardinality(A \ {x})
    <3>2. n \in Nat /\ Cardinality(A) = n + 1
      BY <1>1, FS_RemoveElement
    <3>3. PICK s \in SetToSeqs(A \ {x}) : Sorted(s)
      BY <1>2
    <3>4. s \in [1 .. n -> A \ {x}] /\ \A i, j \in 1 .. n : i # j => s[i] # s[j]
      BY Zenon DEF SetToSeqs
    <3> HIDE DEF n
    <3> DEFINE t == [i \in 1 .. n + 1 |-> IF i = n + 1 THEN x ELSE s[i]]
    <3>5. /\ t \in [1 .. n + 1 -> A] /\ t[n + 1] = x
          /\ \A i \in 1 .. n : t[i] = s[i] /\ s[i] \in A \ {x}
          /\ \A i \in 1 .. n + 1 : i = n + 1 \/ i \in 1 .. n
      BY <3>2, <3>4
    <3> HIDE DEF t
    <3>6. \A i, j \in 1 .. n + 1 : i # j => t[i] # t[j]
      BY <3>4, <3>5
    <3>7. Sorted(t)
      <4> SUFFICES ASSUME NEW i \in 1 .. n + 1, NEW j \in 1 .. n + 1, i < j PROVE Before(t[i], t[j])
        BY <3>5 DEF Sorted
      <4>1. i \in 1 .. n
        BY <3>2
      <4>2. CASE j = n + 1
        BY <3>1, <3>5, <4>1, <4>2
      <4>3. CASE j # n + 1
        BY <3>3, <3>4, <3>5, <4>1, <4>3 DEF Sorted
      <4> QED BY <4>2, <4>3
    <3>8. t \in SetToSeqs(A)
      BY <3>2, <3>5, <3>6 DEF SetToSeqs
    <3> QED BY <3>7, <3>8
  <2> QED BY <2>1, <2>2
<1>3. SUBSET h \subseteq T
  <2>1. IsFiniteSet(h)
    BY <1>1
  <2> HIDE DEF T
  <2> QED BY <1>2, <2>1, SetInduction
<1> QED BY <1>3

\* The order names every wave of the heap once.
LEMMA OrderIs ==
  ASSUME NEW h, GoodHeap(h)
  PROVE  /\ Cardinality(h) \in Nat
         /\ Order(h) \in [1 .. Cardinality(h) -> h]
         /\ Len(Order(h)) = Cardinality(h)
         /\ Sorted(Order(h))
         /\ \A i, j \in 1 .. Cardinality(h) : Order(h)[i] = Order(h)[j] => i = j
         /\ \A x \in h : \E i \in 1 .. Cardinality(h) : Order(h)[i] = x
<1> DEFINE n == Cardinality(h)
           s == Order(h)
<1>1. n \in Nat /\ IsFiniteSet(h)
  BY FS_CardinalityType DEF GoodHeap
<1>2. s \in SetToSeqs(h) /\ Sorted(s)
  <2>1. \E t \in SetToSeqs(h) : \A i, j \in DOMAIN t : i < j => Before(t[i], t[j])
    BY SortExists, Zenon DEF Sorted
  <2> QED BY <2>1, Zenon DEF Order, Sorted
<1>3. s \in [1 .. n -> h] /\ \A i, j \in 1 .. n : i # j => s[i] # s[j]
  BY <1>2 DEF SetToSeqs
<1> HIDE DEF s, n
<1>4. s \in Injection(1 .. n, h)
  BY <1>3 DEF Injection, IsInjective
<1>5. Cardinality(1 .. n) = n
  <2>1. 1 \in Int /\ n \in Int
    BY <1>1
  <2> QED BY <1>1, <2>1, FS_Interval
<1>6. s \in Surjection(1 .. n, h)
  BY <1>1, <1>4, <1>5, FS_Injection DEF n
<1>7. \A x \in h : \E i \in 1 .. n : s[i] = x
  BY <1>6 DEF Surjection
<1>8. Len(s) = n
  <2>1. s \in Seq(h) /\ DOMAIN s = 1 .. n
    BY <1>1, <1>3
  <2> QED BY <1>1, <2>1
<1> QED BY <1>1, <1>2, <1>3, <1>7, <1>8 DEF s, n

\* The gap between two ends that follow each other, as the number of waves
\* that still run changes it, and the ends with these gaps.
Gap(s, i) == ((s[i].at - s[i - 1].at) * (Len(s) - i + 1)) \div Activated
IsAt(f, s, n) == f = [i \in 1 .. n |-> IF i = 1 THEN s[1].at ELSE f[i - 1] + Gap(s, i)]
Timed(s) == Len(s) \in Nat /\ \A i \in 1 .. Len(s) : s[i].at \in Int

\* A gap is a number.
LEMMA GapIs ==
  ASSUME NEW s, Timed(s), NEW i \in 1 .. Len(s), i # 1
  PROVE  Gap(s, i) \in Int
<1> DEFINE x == s[i].at - s[i - 1].at
           y == Len(s) - i + 1
           p == x * y
<1>1. s[i].at \in Int /\ s[i - 1].at \in Int /\ Len(s) \in Nat
  BY DEF Timed
<1>2. x \in Int /\ y \in Int
  BY <1>1
<1> HIDE DEF x, y
<1>3. p \in Int
  BY <1>2
<1> HIDE DEF p
<1>4. p \div Activated \in Int
  BY <1>3, ActivatedAssumption
<1> QED BY <1>4 DEF Gap, p, x, y

\* There is such a list of ends,
LEMMA AtExists ==
  ASSUME NEW s, Timed(s)
  PROVE  \E f : IsAt(f, s, Len(s))
<1> DEFINE T == {m \in Nat : \E f : IsAt(f, s, m)}
<1>1. 0 \in T
  <2> DEFINE f == [i \in 1 .. 0 |-> 0]
  <2>1. IsAt(f, s, 0)
    BY DEF IsAt
  <2> QED BY <2>1
<1>2. ASSUME NEW m \in Nat, m \in T PROVE m + 1 \in T
  <2>1. PICK f : IsAt(f, s, m)
    BY <1>2
  <2> DEFINE g == [i \in 1 .. m + 1 |-> IF i = 1 THEN s[1].at ELSE f[i - 1] + Gap(s, i)]
  <2>2. ASSUME NEW i \in 1 .. m PROVE g[i] = f[i]
    BY <2>1, <2>2 DEF IsAt
  <2>3. ASSUME NEW i \in 1 .. m + 1, i # 1 PROVE g[i] = g[i - 1] + Gap(s, i)
    <3>1. i - 1 \in 1 .. m
      BY <2>3
    <3>2. g[i - 1] = f[i - 1]
      BY <2>2, <3>1
    <3>3. g[i] = f[i - 1] + Gap(s, i)
      BY <2>3
    <3> QED BY <3>2, <3>3
  <2>4. /\ DOMAIN g = 1 .. m + 1 /\ 1 \in 1 .. m + 1 /\ g[1] = s[1].at
        /\ g = [i \in 1 .. m + 1 |-> g[i]]
    OBVIOUS
  <2> HIDE DEF g
  <2>5. IsAt(g, s, m + 1)
    BY <2>3, <2>4 DEF IsAt
  <2> QED BY <2>5
<1>3. Nat \subseteq T
  <2> HIDE DEF T
  <2> QED BY <1>1, <1>2, Induction
<1> QED BY <1>3 DEF Timed

\* and it is one of numbers.
LEMMA AtIs ==
  ASSUME NEW s, Timed(s), NEW f, IsAt(f, s, Len(s))
  PROVE  \A i \in 1 .. Len(s) : f[i] \in Int
<1> DEFINE T == {m \in Nat : m < Len(s) => f[m + 1] \in Int}
<1>1. ASSUME NEW i \in 1 .. Len(s) PROVE f[i] = IF i = 1 THEN s[1].at ELSE f[i - 1] + Gap(s, i)
  BY DEF IsAt
<1>2. 0 \in T
  <2> SUFFICES ASSUME 0 < Len(s) PROVE f[1] \in Int
    OBVIOUS
  <2>1. 1 \in 1 .. Len(s)
    BY DEF Timed
  <2> QED BY <1>1, <2>1 DEF Timed
<1>3. ASSUME NEW m \in Nat, m \in T PROVE m + 1 \in T
  <2> SUFFICES ASSUME m + 1 < Len(s) PROVE f[(m + 1) + 1] \in Int
    OBVIOUS
  <2> DEFINE i == (m + 1) + 1
  <2>1. i \in 1 .. Len(s) /\ i # 1 /\ i - 1 = m + 1
    BY DEF Timed
  <2>2. f[m + 1] \in Int
    BY <1>3 DEF Timed
  <2> HIDE DEF i
  <2>3. Gap(s, i) \in Int /\ f[i] = f[m + 1] + Gap(s, i)
    BY <1>1, <2>1, GapIs
  <2>4. f[i] \in Int
    BY <2>2, <2>3
  <2> QED BY <2>4 DEF i
<1>4. Nat \subseteq T
  <2> HIDE DEF T
  <2> QED BY <1>2, <1>3, Induction
<1> SUFFICES ASSUME NEW i \in 1 .. Len(s) PROVE f[i] \in Int
  OBVIOUS
<1>5. i - 1 \in Nat /\ i - 1 < Len(s) /\ (i - 1) + 1 = i
  BY DEF Timed
<1>6. f[(i - 1) + 1] \in Int
  BY <1>4, <1>5
<1> QED BY <1>5, <1>6

\* finetuneTime: every wave of the heap gets one completion event.
LEMMA FinetunedIs ==
  ASSUME NEW h, GoodHeap(h), now \in Int
  PROVE  /\ GoodEnds(Finetuned(h), now + 1)
         /\ Waves(Finetuned(h)) \subseteq Waves(h)
         /\ Activated # 1 => Cardinality(Finetuned(h)) = Cardinality(h)
<1> DEFINE s == Order(h)
           n == Cardinality(h)
           at == CHOOSE at : at = [i \in 1 .. Len(s) |->
                   IF i = 1 THEN s[1].at
                   ELSE at[i - 1] + ((s[i].at - s[i - 1].at) * (Len(s) - i + 1)) \div Activated]
           e(i) == [wave |-> s[i].wave, at |-> Max({at[i], now + 1})]
           F == {e(i) : i \in 1 .. Len(s)}
<1>1. Finetuned(h) = IF Activated = 1 THEN {} ELSE F
  BY Zenon DEF Finetuned
<1>2. /\ n \in Nat /\ s \in [1 .. n -> h] /\ Len(s) = n
      /\ \A i, j \in 1 .. n : s[i] = s[j] => i = j
      /\ \A x \in h : \E i \in 1 .. n : s[i] = x
  BY OrderIs
<1>3. \A x \in h : x.wave \in Wave /\ x.at \in Int
  BY DEF GoodHeap, HeapWave
<1>4. CASE Activated = 1
  <2>1. Finetuned(h) = {}
    BY <1>1, <1>4
  <2> QED BY <1>4, <2>1, FS_EmptySet DEF GoodEnds, Waves
<1>5. CASE Activated # 1
  <2> HIDE DEF s, n
  <2>1. Timed(s)
    BY <1>2, <1>3 DEF Timed
  <2>2. IsAt(at, s, Len(s))
    <3>1. \E f : f = [i \in 1 .. Len(s) |->
                   IF i = 1 THEN s[1].at
                   ELSE f[i - 1] + ((s[i].at - s[i - 1].at) * (Len(s) - i + 1)) \div Activated]
      BY <2>1, AtExists, Zenon DEF IsAt, Gap
    <3>2. at = [i \in 1 .. Len(s) |->
                   IF i = 1 THEN s[1].at
                   ELSE at[i - 1] + ((s[i].at - s[i - 1].at) * (Len(s) - i + 1)) \div Activated]
      BY <3>1, Zenon
    <3> HIDE DEF at
    <3> QED BY <3>2, Zenon DEF IsAt, Gap
  <2> HIDE DEF at
  <2>3. \A i \in 1 .. n : at[i] \in Int
    BY <1>2, <2>1, <2>2, AtIs
  <2>4. ASSUME NEW i \in 1 .. n
        PROVE  e(i) \in End /\ e(i).wave = s[i].wave /\ e(i).at >= now + 1 /\ s[i] \in h
    <3> DEFINE m == Max({at[i], now + 1})
    <3>1. m \in Int /\ m >= now + 1
      <4>1. at[i] \in Int /\ now + 1 \in Int
        BY <2>3
      <4> QED BY <4>1, MaxIs
    <3>2. s[i] \in h /\ s[i].wave \in Wave
      BY <1>2, <1>3
    <3> HIDE DEF m
    <3>3. [wave |-> s[i].wave, at |-> m] \in End
      BY <3>1, <3>2 DEF End
    <3> QED BY <3>1, <3>2, <3>3 DEF m
  <2> DEFINE g == [i \in 1 .. n |-> e(i)]
  <2>5. ASSUME NEW i \in 1 .. n, NEW j \in 1 .. n, e(i).wave = e(j).wave PROVE i = j
    <3>1. s[i].wave = s[j].wave /\ s[i] \in h /\ s[j] \in h
      BY <2>4, <2>5
    <3>2. s[i] = s[j]
      BY <3>1 DEF GoodHeap
    <3> QED BY <1>2, <3>2
  <2> HIDE DEF e
  <2>6. /\ g \in Injection(1 .. n, F) /\ g \in Surjection(1 .. n, F)
        /\ F = {e(i) : i \in 1 .. n}
    <3>1. g \in [1 .. n -> F] /\ F = {e(i) : i \in 1 .. n}
      BY <1>2
    <3>2. \A i, j \in 1 .. n : g[i] = g[j] => i = j
      BY <2>5
    <3>3. \A x \in F : \E i \in 1 .. n : g[i] = x
      BY <1>2
    <3> HIDE DEF g, F
    <3> QED BY <3>1, <3>2, <3>3 DEF Injection, IsInjective, Surjection
  <2>7. IsFiniteSet(1 .. n) /\ Cardinality(1 .. n) = n
    <3>1. 1 \in Int /\ n \in Int
      BY <1>2
    <3> QED BY <1>2, <3>1, FS_Interval
  <2>8. IsFiniteSet(F) /\ Cardinality(F) = n
    <3> HIDE DEF g, F
    <3>1. /\ IsFiniteSet(F)
          /\ Cardinality(F) = Cardinality(1 .. n) <=> g \in Injection(1 .. n, F)
      BY <2>6, <2>7, FS_Surjection
    <3> QED BY <2>6, <2>7, <3>1
  <2>9. GoodEnds(F, now + 1)
    <3>1. \A x \in F : \E i \in 1 .. n : x = e(i)
      BY <2>6
    <3> HIDE DEF F
    <3>2. F \in SUBSET End /\ \A x \in F : x.at >= now + 1
      BY <2>4, <3>1
    <3>3. \A x, y \in F : x.wave = y.wave => x = y
      BY <2>5, <3>1
    <3> QED BY <2>8, <3>2, <3>3 DEF GoodEnds
  <2>10. Waves(F) \subseteq Waves(h)
    <3>1. \A x \in F : \E i \in 1 .. n : x = e(i)
      BY <2>6
    <3> HIDE DEF F
    <3>2. \A x \in F : \E y \in h : x.wave = y.wave
      BY <2>4, <3>1
    <3> QED BY <3>2 DEF Waves
  <2>11. Finetuned(h) = F
    BY <1>1, <1>5
  <2> QED BY <2>8, <2>9, <2>10, <2>11 DEF n
<1> QED BY <1>4, <1>5

\* The events of waves that end at the same time.
EventsOf(gone) == {[wave |-> h.wave, at |-> now + 1] : h \in gone}

\* There is one event for each wave, in the next tick.
LEMMA EventsAre ==
  ASSUME NEW gone, GoodHeap(gone), now \in Int
  PROVE  /\ GoodEnds(EventsOf(gone), now + 1)
         /\ Waves(EventsOf(gone)) = Waves(gone)
         /\ Cardinality(EventsOf(gone)) = Cardinality(gone)
<1> DEFINE e(h) == [wave |-> h.wave, at |-> now + 1]
           F == EventsOf(gone)
           g == [h \in gone |-> e(h)]
<1>1. \A h \in gone : e(h) \in End /\ e(h).wave = h.wave /\ e(h).at = now + 1
  BY DEF GoodHeap, HeapWave, End
<1>2. F = {e(h) : h \in gone}
  BY DEF EventsOf
<1>3. \A x, y \in gone : e(x).wave = e(y).wave => x = y
  BY <1>1 DEF GoodHeap
<1> HIDE DEF e, F
<1>4. g \in [gone -> F] /\ \A x, y \in gone : g[x] = g[y] => x = y
  BY <1>2, <1>3
<1>5. \A x \in F : \E y \in gone : g[y] = x
  BY <1>2
<1> HIDE DEF g
<1>6. g \in Injection(gone, F) /\ g \in Surjection(gone, F) /\ IsFiniteSet(gone)
  BY <1>4, <1>5 DEF Injection, IsInjective, Surjection, GoodHeap
<1>7. IsFiniteSet(F) /\ Cardinality(F) = Cardinality(gone)
  <2>1. /\ IsFiniteSet(F)
        /\ Cardinality(F) = Cardinality(gone) <=> g \in Injection(gone, F)
    BY <1>6, FS_Surjection
  <2> QED BY <1>6, <2>1
<1>8. GoodEnds(F, now + 1)
  <2>1. F \in SUBSET End /\ \A x \in F : x.at >= now + 1
    BY <1>1, <1>2
  <2>2. \A x, y \in F : x.wave = y.wave => x = y
    BY <1>2, <1>3
  <2> QED BY <1>7, <2>1, <2>2 DEF GoodEnds
<1>9. Waves(F) = Waves(gone)
  BY <1>1, <1>2 DEF Waves
<1> QED BY <1>7, <1>8, <1>9 DEF F

\* Events of other waves join those there are.
LEMMA EndsJoin ==
  ASSUME NEW s, NEW r, NEW t \in Int, GoodEnds(s, t), GoodEnds(r, t + 1), Waves(s) \cap Waves(r) = {}
  PROVE  /\ GoodEnds(s \cup r, t)
         /\ Waves(s \cup r) = Waves(s) \cup Waves(r)
         /\ Cardinality(s \cup r) = Cardinality(s) + Cardinality(r)
<1>1. /\ s \in SUBSET End /\ r \in SUBSET End /\ IsFiniteSet(s) /\ IsFiniteSet(r)
      /\ \A x \in s : x.at >= t /\ x.at \in Int
      /\ \A x \in r : x.at >= t + 1 /\ x.at \in Int
  BY DEF GoodEnds, End
<1>2. \A x \in s, y \in r : x.wave # y.wave
  BY DEF Waves
<1>3. s \cap r = {}
  BY <1>2
<1>4. IsFiniteSet(s \cup r) /\ Cardinality(s \cup r) = Cardinality(s) + Cardinality(r)
  <2>1. /\ IsFiniteSet(s \cup r)
        /\ Cardinality(s \cup r) = Cardinality(s) + Cardinality(r) - Cardinality(s \cap r)
    BY <1>1, FS_Union
  <2>2. Cardinality(s \cap r) = 0 /\ Cardinality(s) \in Nat /\ Cardinality(r) \in Nat
    BY <1>1, <1>3, FS_EmptySet, FS_CardinalityType
  <2> QED BY <2>1, <2>2
<1>5. \A x \in s \cup r : x.at >= t
  BY <1>1
<1>6. \A x, y \in s \cup r : x.wave = y.wave => x = y
  BY <1>2 DEF GoodEnds
<1> QED BY <1>1, <1>4, <1>5, <1>6 DEF GoodEnds, Waves

-----------------------------------------------------------------------------
(* Every wave is in one place, in time, and is counted.                    *)

HeapInv ==
  /\ GoodHeap(heap) /\ submitted \in Nat
  /\ \A h \in heap : h.nr < submitted
EndedInv ==
  /\ ended \in Seq(Wave)
  /\ \A i, j \in DOMAIN ended : ended[i] = ended[j] => i = j
Apart(R, H, E, D) ==
  /\ R \cap H = {} /\ R \cap E = {} /\ R \cap D = {}
  /\ H \cap E = {} /\ H \cap D = {} /\ E \cap D = {}
PlaceInv ==
  /\ DOMAIN runs \subseteq Wave
  /\ Apart(DOMAIN runs, Waves(heap), Waves(ends), ToSet(ended))
DueInv ==
  /\ \A t \in ticks : t \in Int /\ t >= now
  /\ \A h \in heap : \E t \in ticks : t <= h.at
\* Every wave that ended in detail or was predicted is still to end or has
\* ended, if more than one wave ran at a time.
NoneLost == Activated # 1 => submitted = Cardinality(heap) + Cardinality(ends) + Len(ended)

WInv == HeapInv /\ GoodEnds(ends, now) /\ EndedInv /\ PlaceInv /\ DueInv /\ NoneLost

\* The invariant of the waves holds at the start,
LEMMA InitWaves == Init => WInv
<1> SUFFICES ASSUME Init PROVE WInv
  OBVIOUS
<1>1. heap = {} /\ ends = {} /\ ended = <<>> /\ submitted = 0 /\ runs = <<>> /\ ticks = {}
  BY DEF Init
<1>2. IsFiniteSet({}) /\ Cardinality({}) = 0
  BY FS_EmptySet
<1>3. HeapInv
  BY <1>1, <1>2 DEF HeapInv, GoodHeap
<1>4. GoodEnds(ends, now)
  BY <1>1, <1>2 DEF GoodEnds
<1>5. EndedInv
  BY <1>1 DEF EndedInv
<1>6. PlaceInv
  <2>1. DOMAIN runs = {} /\ Waves(heap) = {} /\ Waves(ends) = {}
    BY <1>1 DEF Waves
  <2> QED BY <2>1 DEF PlaceInv, Apart
<1>7. DueInv
  BY <1>1 DEF DueInv
<1>8. NoneLost
  BY <1>1, <1>2 DEF NoneLost
<1> QED BY <1>3, <1>4, <1>5, <1>6, <1>7, <1>8 DEF WInv

\* when the clock goes on, as nothing is left to do,
LEMMA AdvanceWaves ==
  ASSUME WInv, now \in Nat, Advance
  PROVE  WInv'
<1>1. /\ now' = now + 1 /\ now \notin ticks /\ \A e \in ends : e.at # now
      /\ UNCHANGED <<runs, heap, ticks, ends, ended, submitted>>
  BY DEF Advance, waveVars
<1>2. HeapInv' /\ EndedInv' /\ PlaceInv' /\ NoneLost'
  BY <1>1 DEF WInv, HeapInv, EndedInv, PlaceInv, NoneLost
<1>3. GoodEnds(ends', now')
  <2>1. \A e \in ends : e.at \in Int /\ e.at >= now /\ e.at # now
    BY <1>1 DEF WInv, GoodEnds, End
  <2>2. \A e \in ends : e.at >= now + 1
    BY <2>1
  <2> QED BY <1>1, <2>2 DEF WInv, GoodEnds
<1>4. DueInv'
  <2>1. \A t \in ticks : t \in Int /\ t >= now /\ t # now
    BY <1>1 DEF WInv, DueInv
  <2>2. \A t \in ticks : t >= now + 1
    BY <2>1
  <2> QED BY <1>1, <2>1, <2>2 DEF WInv, DueInv
<1> QED BY <1>2, <1>3, <1>4 DEF WInv, GoodEnds

\* when a wave starts in detail,
LEMMA StartWaves ==
  ASSUME WInv, NEW w \in Wave, CollectWfStart(w)
  PROVE  WInv'
<1>1. /\ UNCHANGED <<now, heap, ticks, ends, ended, submitted>>
      /\ w \notin Waves(heap) \cup ToSet(ended) \cup Waves(ends)
      /\ DOMAIN runs' = DOMAIN runs \cup {w}
  BY DEF CollectWfStart, Waves
<1>2. HeapInv' /\ EndedInv' /\ NoneLost' /\ GoodEnds(ends, now)' /\ DueInv'
  BY <1>1 DEF WInv, HeapInv, EndedInv, NoneLost, GoodEnds, DueInv
<1>3. PlaceInv'
  BY <1>1 DEF WInv, PlaceInv, Apart
<1> QED BY <1>2, <1>3 DEF WInv

\* when a wave ends in detail,
LEMMA EndWaves ==
  ASSUME WInv, now \in Nat, NEW w \in Wave, EndInDetail(w)
  PROVE  WInv'
<1> DEFINE one == {[wave |-> w, at |-> now + 1]}
<1>1. /\ UNCHANGED <<now, heap, ticks, ended>>
      /\ w \in DOMAIN runs /\ DOMAIN runs' = DOMAIN runs \ {w}
      /\ ends' = ends \cup one /\ submitted' = submitted + 1
  BY DEF EndInDetail, Running
<1>2. GoodEnds(one, now + 1) /\ Waves(one) = {w} /\ Cardinality(one) = 1
  <2>1. IsFiniteSet(one) /\ Cardinality(one) = 1
    BY FS_Singleton
  <2>2. one \in SUBSET End /\ Waves(one) = {w} /\ \A x \in one : x.at >= now + 1
    BY DEF End, Waves
  <2> QED BY <2>1, <2>2 DEF GoodEnds
<1> HIDE DEF one
<1>3. Waves(ends) \cap Waves(one) = {} /\ GoodEnds(ends, now) /\ now \in Int
  BY <1>1, <1>2 DEF WInv, PlaceInv, Apart
<1>4. /\ GoodEnds(ends', now')
      /\ Waves(ends') = Waves(ends) \cup {w}
      /\ Cardinality(ends') = Cardinality(ends) + 1
  <2> DEFINE all == ends \cup one
  <2>1. GoodEnds(all, now) /\ Waves(all) = Waves(ends) \cup Waves(one)
        /\ Cardinality(all) = Cardinality(ends) + Cardinality(one)
    BY <1>2, <1>3, EndsJoin
  <2>2. ends' = all /\ now' = now
    BY <1>1
  <2> HIDE DEF all
  <2> QED BY <1>2, <2>1, <2>2
<1>5. HeapInv'
  BY <1>1 DEF WInv, HeapInv, GoodHeap, HeapWave
<1>6. EndedInv' /\ DueInv'
  BY <1>1 DEF WInv, EndedInv, DueInv
<1>7. PlaceInv'
  <2>1. Waves(ends)' = Waves(ends) \cup {w} /\ Waves(heap)' = Waves(heap) /\ ToSet(ended)' = ToSet(ended)
    BY <1>1, <1>4 DEF Waves
  <2> QED BY <1>1, <2>1 DEF WInv, PlaceInv, Apart
<1>8. NoneLost'
  <2>1. Cardinality(heap) \in Nat /\ Cardinality(ends) \in Nat /\ Len(ended) \in Nat
    BY FS_CardinalityType DEF WInv, HeapInv, GoodHeap, GoodEnds, EndedInv
  <2> QED BY <1>1, <1>4, <2>1 DEF WInv, NoneLost
<1> QED BY <1>4, <1>5, <1>6, <1>7, <1>8 DEF WInv, GoodEnds

\* when a completion event is handled,
LEMMA CompletionWaves ==
  ASSUME WInv, now \in Nat, NEW w \in Wave, HandleWfCompletionEvent(w)
  PROVE  WInv'
<1>1. PICK e \in ends : e.wave = w /\ e.at = now /\ ends' = ends \ {e}
  BY DEF HandleWfCompletionEvent
<1>2. /\ UNCHANGED <<now, runs, heap, ticks, submitted>>
      /\ ended' = Append(ended, w)
  BY DEF HandleWfCompletionEvent
<1>3. /\ GoodEnds(ends, now) /\ IsFiniteSet(ends) /\ \A x \in ends : x.wave = w => x = e
  BY <1>1 DEF WInv, GoodEnds
<1>4. w \in Waves(ends) /\ w \notin ToSet(ended) /\ w \notin Waves(heap) /\ w \notin DOMAIN runs
  <2>1. w \in Waves(ends)
    BY <1>1 DEF Waves
  <2> QED BY <2>1 DEF WInv, PlaceInv, Apart
<1>5. GoodEnds(ends', now') /\ Cardinality(ends') = Cardinality(ends) - 1
  <2>1. IsFiniteSet(ends \ {e}) /\ Cardinality(ends \ {e}) = Cardinality(ends) - 1
    BY <1>1, <1>3, FS_RemoveElement
  <2> QED BY <1>1, <1>2, <1>3, <2>1 DEF GoodEnds
<1>6. /\ ended \in Seq(Wave) /\ ended' \in Seq(Wave) /\ Len(ended') = Len(ended) + 1
      /\ DOMAIN ended = 1 .. Len(ended) /\ DOMAIN ended' = 1 .. Len(ended) + 1 /\ Len(ended) \in Nat
      /\ \A i \in 1 .. Len(ended) : ended'[i] = ended[i] /\ ended[i] # w
      /\ ended'[Len(ended) + 1] = w
  BY <1>2, <1>4 DEF WInv, EndedInv, ToSet
<1>7. EndedInv'
  <2> SUFFICES ASSUME NEW i \in DOMAIN ended', NEW j \in DOMAIN ended', ended'[i] = ended'[j] PROVE i = j
    BY <1>6 DEF EndedInv
  <2>1. /\ i \in 1 .. Len(ended) \/ i = Len(ended) + 1
        /\ j \in 1 .. Len(ended) \/ j = Len(ended) + 1
    BY <1>6
  <2>2. \A k, l \in 1 .. Len(ended) : ended[k] = ended[l] => k = l
    BY <1>6 DEF WInv, EndedInv
  <2> QED BY <1>6, <2>1, <2>2
<1>8. PlaceInv'
  <2>1. ToSet(ended') = ToSet(ended) \cup {w}
    <3>1. \A i \in 1 .. Len(ended) + 1 : i \in 1 .. Len(ended) \/ i = Len(ended) + 1
      BY <1>6
    <3>2. Len(ended) + 1 \in 1 .. Len(ended) + 1 /\ 1 .. Len(ended) \subseteq 1 .. Len(ended) + 1
      BY <1>6
    <3> QED BY <1>6, <3>1, <3>2 DEF ToSet
  <2>2. Waves(ends') = Waves(ends) \ {w}
    BY <1>1, <1>3 DEF Waves
  <2>3. /\ ToSet(ended)' = ToSet(ended) \cup {w} /\ Waves(ends)' = Waves(ends) \ {w}
        /\ Waves(heap)' = Waves(heap) /\ runs' = runs
    BY <1>2, <2>1, <2>2 DEF ToSet, Waves
  <2> QED BY <1>4, <2>3 DEF WInv, PlaceInv, Apart
<1>9. HeapInv' /\ DueInv'
  BY <1>2 DEF WInv, HeapInv, GoodHeap, HeapWave, DueInv
<1>10. NoneLost'
  <2>1. Cardinality(heap) \in Nat /\ Cardinality(ends) \in Nat
    BY FS_CardinalityType DEF WInv, HeapInv, GoodHeap, GoodEnds
  <2>2. Activated # 1 => submitted = Cardinality(heap) + Cardinality(ends) + Len(ended)
    BY DEF WInv, NoneLost
  <2> DEFINE m == Cardinality(heap)
             k == Cardinality(ends)
             l == Len(ended)
  <2>3. /\ submitted' = submitted /\ Cardinality(heap') = m
        /\ Cardinality(ends') = k - 1 /\ Len(ended') = l + 1
    BY <1>2, <1>5, <1>6
  <2>4. m \in Nat /\ k \in Nat /\ l \in Nat /\ (Activated # 1 => submitted = m + k + l)
    BY <1>6, <2>1, <2>2
  <2> HIDE DEF m, k, l
  <2>5. Activated # 1 => submitted' = Cardinality(heap') + Cardinality(ends') + Len(ended')
    BY <2>3, <2>4
  <2> QED BY <2>5 DEF NoneLost
<1> QED BY <1>5, <1>7, <1>8, <1>9, <1>10 DEF WInv, GoodEnds

\* The earliest end of a heap is that of one of its waves.
LEMMA EarliestIs ==
  ASSUME NEW h, GoodHeap(h), h # {}
  PROVE  /\ Min(Ends(h)) \in Int
         /\ \E x \in h : x.at = Min(Ends(h))
         /\ \A x \in h : Min(Ends(h)) <= x.at
<1>1. Ends(h) \in SUBSET Int /\ Ends(h) # {}
  BY DEF GoodHeap, HeapWave, Ends
<1>2. IsFiniteSet(Ends(h))
  <2> DEFINE g == [x \in h |-> x.at]
  <2>1. g \in Surjection(h, Ends(h))
    BY DEF Surjection, Ends
  <2> HIDE DEF g
  <2> QED BY <2>1, FS_Surjection DEF GoodHeap
<1>3. Min(Ends(h)) \in Ends(h) /\ \A y \in Ends(h) : Min(Ends(h)) <= y
  BY <1>1, <1>2, MinIs
<1> QED BY <1>1, <1>3 DEF Ends

\* HandleSampledWfCompletedEvent: when the waves that end now leave the heap, the
\* next one has an event,
LEMMA HandledWaves ==
  ASSUME WInv, now \in Nat, HandleSampledWfCompletedEvent
  PROVE  WInv'
<1> DEFINE left == {h \in heap : h.at # now}
           gone == heap \ left
           next == IF left = {} THEN {} ELSE {Min(Ends(left))}
<1>1. /\ UNCHANGED <<now, runs, ended, submitted>>
      /\ ends' = ends \cup EventsOf(gone)
      /\ heap' = left
      /\ ticks' = (ticks \ {now}) \cup next
  BY DEF HandleSampledWfCompletedEvent, EventsOf
<1>2. /\ left \in SUBSET heap /\ gone \in SUBSET heap /\ left \cap gone = {} /\ heap = left \cup gone
      /\ \A h \in left : h.at # now
  OBVIOUS
<1> HIDE DEF left, gone
<1>3. GoodHeap(heap) /\ GoodEnds(ends, now) /\ now \in Int
  BY DEF WInv, HeapInv
<1>4. GoodHeap(left) /\ GoodHeap(gone)
  <2>1. IsFiniteSet(left) /\ IsFiniteSet(gone)
    BY <1>2, <1>3, FS_Subset DEF GoodHeap
  <2> QED BY <1>2, <1>3, <2>1 DEF GoodHeap
<1>5. /\ GoodEnds(EventsOf(gone), now + 1)
      /\ Waves(EventsOf(gone)) = Waves(gone)
      /\ Cardinality(EventsOf(gone)) = Cardinality(gone)
  BY <1>3, <1>4, EventsAre
<1>6. Waves(heap) = Waves(left) \cup Waves(gone) /\ Waves(left) \cap Waves(gone) = {}
  <2>1. \A x \in left, y \in gone : x.wave # y.wave
    BY <1>2, <1>3 DEF GoodHeap
  <2> QED BY <1>2, <2>1 DEF Waves
<1>7. /\ GoodEnds(ends', now') /\ Waves(ends') = Waves(ends) \cup Waves(gone)
      /\ Cardinality(ends') = Cardinality(ends) + Cardinality(gone)
  <2> DEFINE r == EventsOf(gone)
             all == ends \cup r
  <2>1. Waves(ends) \cap Waves(r) = {} /\ GoodEnds(r, now + 1)
    BY <1>5, <1>6 DEF WInv, PlaceInv, Apart
  <2>2. Waves(r) = Waves(gone) /\ Cardinality(r) = Cardinality(gone) /\ ends' = all /\ now' = now
    BY <1>1, <1>5
  <2> HIDE DEF r
  <2>3. GoodEnds(all, now) /\ Waves(all) = Waves(ends) \cup Waves(r)
        /\ Cardinality(all) = Cardinality(ends) + Cardinality(r)
    BY <1>3, <2>1, EndsJoin
  <2> HIDE DEF all
  <2> QED BY <2>2, <2>3
<1>8. HeapInv'
  BY <1>1, <1>2, <1>4 DEF WInv, HeapInv, GoodHeap, HeapWave
<1>9. EndedInv'
  BY <1>1 DEF WInv, EndedInv
<1>10. PlaceInv'
  <2>1. /\ Waves(heap)' = Waves(left) /\ Waves(ends)' = Waves(ends) \cup Waves(gone)
        /\ runs' = runs /\ ToSet(ended)' = ToSet(ended)
    BY <1>1, <1>7 DEF Waves, ToSet
  <2> QED BY <1>6, <2>1 DEF WInv, PlaceInv, Apart
<1>11. DueInv'
  <2>1. /\ \A t \in ticks : t \in Int /\ t >= now
        /\ \A h \in heap : h.at \in Int /\ \E t \in ticks : t <= h.at
    BY <1>3 DEF WInv, DueInv, GoodHeap, HeapWave
  <2>2. CASE left = {}
    <3>1. ticks' = ticks \ {now} /\ heap' = {} /\ now' = now
      BY <1>1, <2>2
    <3> QED BY <2>1, <3>1 DEF DueInv
  <2>3. CASE left # {}
    <3> DEFINE m == Min(Ends(left))
    <3>1. m \in Int /\ (\E x \in left : x.at = m) /\ \A x \in left : m <= x.at
      BY <1>4, <2>3, EarliestIs
    <3>2. ticks' = (ticks \ {now}) \cup {m} /\ heap' = left /\ now' = now
      BY <1>1, <2>3
    <3> HIDE DEF m
    <3>3. m >= now
      BY <1>2, <1>3, <2>1, <3>1
    <3> QED BY <2>1, <3>1, <3>2, <3>3 DEF DueInv
  <2> QED BY <2>2, <2>3
<1>12. NoneLost'
  <2>1. /\ Cardinality(heap) = Cardinality(left) + Cardinality(gone)
        /\ Cardinality(left) \in Nat /\ Cardinality(gone) \in Nat
    <3>1. IsFiniteSet(left) /\ IsFiniteSet(gone)
      BY <1>4 DEF GoodHeap
    <3>2. Cardinality(left \cup gone) = Cardinality(left) + Cardinality(gone) - Cardinality(left \cap gone)
      BY <3>1, FS_Union
    <3>3. Cardinality(left \cap gone) = 0
      BY <1>2, FS_EmptySet
    <3> QED BY <1>2, <3>1, <3>2, <3>3, FS_CardinalityType
  <2>2. /\ Activated # 1 => submitted = Cardinality(heap) + Cardinality(ends) + Len(ended)
        /\ Cardinality(ends) \in Nat /\ Len(ended) \in Nat
    BY FS_CardinalityType DEF WInv, NoneLost, GoodEnds, EndedInv
  <2> DEFINE m == Cardinality(left)
             n == Cardinality(gone)
             k == Cardinality(ends)
             l == Len(ended)
  <2>3. /\ submitted' = submitted /\ Cardinality(heap') = m
        /\ Cardinality(ends') = k + n /\ Len(ended') = l
    BY <1>1, <1>7
  <2>4. /\ m \in Nat /\ n \in Nat /\ k \in Nat /\ l \in Nat
        /\ Activated # 1 => submitted = (m + n) + k + l
    BY <2>1, <2>2
  <2> HIDE DEF m, n, k, l
  <2>5. Activated # 1 => submitted' = Cardinality(heap') + Cardinality(ends') + Len(ended')
    BY <2>3, <2>4
  <2> QED BY <2>5 DEF NoneLost
<1> QED BY <1>7, <1>8, <1>9, <1>10, <1>11, <1>12 DEF WInv, GoodEnds

\* Predict: the predicted end is a number after now.
LEMMA PredictedIs ==
  ASSUME IInv, NEW w \in Wave, NEW b \in Block
  PROVE  StartOf(w) + Predicted(w, b) \in Int /\ now \in Nat
<1>1. now \in Nat
  BY TimeAssumption DEF IInv, ClockInv
<1>2. w \in DOMAIN runs => runs[w].start \in Int /\ runs[w].last \in Int
  BY DEF IInv, ClockInv, Run
<1> DEFINE rest == IF engines[b].enabled THEN engines[b].pred ELSE ModelTime
<1>3. rest \in Int
  <2>1. engines[b] \in Engine
    BY DEF IInv, EnginesInv
  <2> QED BY <2>1, TimeAssumption DEF Engine
<1> HIDE DEF rest
<1>4. Predicted(w, b) = IF Running(w) THEN (runs[w].last - runs[w].start) + rest ELSE rest
  BY DEF Predicted, rest
<1>5. StartOf(w) = IF Running(w) THEN runs[w].start ELSE now
  BY DEF StartOf
<1>6. CASE Running(w)
  BY <1>2, <1>3, <1>4, <1>5, <1>6, <1>1 DEF Running
<1>7. CASE ~ Running(w)
  BY <1>1, <1>3, <1>4, <1>5, <1>7
<1> QED BY <1>1, <1>6, <1>7

\* Predict: when a wave is predicted it gets an event unless an earlier wave has
\* one, and the last wave of the kernel moves all into completion events,
LEMMA PredictWaves ==
  ASSUME IInv, WInv, NEW w \in Wave, NEW b \in Block, Predict(w, b)
  PROVE  WInv'
<1> DEFINE at == Max({StartOf(w) + Predicted(w, b), now + 1})
           new == [wave |-> w, at |-> at, nr |-> submitted]
           h == heap \cup {new}
<1>1. at \in Int /\ at >= now + 1 /\ now \in Nat
  <2>1. StartOf(w) + Predicted(w, b) \in Int /\ now \in Nat
    BY PredictedIs
  <2> DEFINE x == StartOf(w) + Predicted(w, b)
  <2> HIDE DEF x
  <2>2. x \in Int /\ now + 1 \in Int
    BY <2>1 DEF x
  <2>3. Max({x, now + 1}) \in Int /\ Max({x, now + 1}) >= now + 1
    BY <2>2, MaxIs
  <2> QED BY <2>1, <2>3 DEF x
<1>2. /\ UNCHANGED <<now, ended>> /\ submitted' = submitted + 1
      /\ DOMAIN runs' = DOMAIN runs \ {w}
      /\ w \notin Waves(heap) \cup ToSet(ended) \cup Waves(ends)
  BY DEF Predict, Waves
<1>3. IF submitted + 1 = Cardinality(Wave)
        THEN ends' = ends \cup Finetuned(h) /\ heap' = {} /\ ticks' = {}
        ELSE heap' = h /\ ticks' = ticks \cup Schedule(h, new) /\ UNCHANGED ends
  BY DEF Predict
<1> HIDE DEF at
<1>4. /\ new \in HeapWave /\ new.wave = w /\ new.nr = submitted /\ new.at = at
      /\ GoodHeap(heap) /\ submitted \in Nat /\ \A x \in heap : x \in HeapWave /\ x.nr < submitted /\ x.wave # w
  BY <1>1, <1>2 DEF HeapWave, WInv, HeapInv, GoodHeap, Waves
<1> HIDE DEF new
<1>5. GoodHeap(h) /\ Waves(h) = Waves(heap) \cup {w} /\ Cardinality(h) = Cardinality(heap) + 1
  <2>1. new \notin heap /\ IsFiniteSet(heap)
    BY <1>4 DEF GoodHeap
  <2>2. IsFiniteSet(h) /\ Cardinality(h) = Cardinality(heap) + 1
    BY <2>1, FS_AddElement
  <2>3. \A x, y \in h : x.wave = y.wave \/ x.nr = y.nr => x = y
    <3>1. \A x, y \in heap : x.wave = y.wave \/ x.nr = y.nr => x = y
      BY <1>4 DEF GoodHeap
    <3>2. \A x \in heap : x.wave # new.wave /\ x.nr # new.nr
      BY <1>4 DEF HeapWave
    <3> QED BY <3>1, <3>2
  <2>4. h \in SUBSET HeapWave
    BY <1>4
  <2>5. Waves(h) = Waves(heap) \cup {w}
    BY <1>4 DEF Waves
  <2> HIDE DEF h
  <2> QED BY <2>2, <2>3, <2>4, <2>5 DEF GoodHeap
<1>6. EndedInv'
  BY <1>2 DEF WInv, EndedInv
<1>7. /\ Activated # 1 => submitted = Cardinality(heap) + Cardinality(ends) + Len(ended)
      /\ Cardinality(heap) \in Nat /\ Cardinality(ends) \in Nat /\ Len(ended) \in Nat
  BY <1>4, FS_CardinalityType DEF WInv, NoneLost, GoodHeap, GoodEnds, EndedInv
<1>8. CASE submitted + 1 = Cardinality(Wave)
  <2> DEFINE r == Finetuned(h)
             all == ends \cup r
  <2>1. ends' = all /\ heap' = {} /\ ticks' = {}
    BY <1>3, <1>8
  <2>2. /\ GoodEnds(r, now + 1) /\ Waves(r) \subseteq Waves(h)
        /\ Activated # 1 => Cardinality(r) = Cardinality(h)
    <3>1. now \in Int /\ GoodHeap(h)
      BY <1>1, <1>5
    <3> HIDE DEF h
    <3> QED BY <3>1, FinetunedIs
  <2> HIDE DEF r
  <2>3. Waves(ends) \cap Waves(r) = {} /\ GoodEnds(ends, now) /\ now \in Int
    BY <1>1, <1>2, <1>5, <2>2 DEF WInv, PlaceInv, Apart
  <2>4. GoodEnds(all, now) /\ Waves(all) = Waves(ends) \cup Waves(r)
        /\ Cardinality(all) = Cardinality(ends) + Cardinality(r)
    BY <2>2, <2>3, EndsJoin
  <2> HIDE DEF all
  <2>5. GoodEnds(ends, now)'
    BY <1>2, <2>1, <2>4 DEF GoodEnds
  <2>6. HeapInv'
    BY <1>2, <1>4, <2>1, FS_EmptySet DEF HeapInv, GoodHeap
  <2>7. PlaceInv'
    <3>1. /\ Waves(heap)' = {} /\ Waves(ends)' = Waves(ends) \cup Waves(r)
          /\ ToSet(ended)' = ToSet(ended)
      BY <1>2, <2>1, <2>4 DEF Waves, ToSet
    <3>2. \A v \in Waves(r) : v \in Waves(heap) \/ v = w
      BY <1>5, <2>2
    <3> QED BY <1>2, <3>1, <3>2 DEF WInv, PlaceInv, Apart
  <2>8. DueInv'
    BY <2>1 DEF DueInv
  <2>9. NoneLost'
    <3> SUFFICES ASSUME Activated # 1 PROVE submitted' = Cardinality(heap') + Cardinality(ends') + Len(ended')
      BY DEF NoneLost
    <3> DEFINE m == Cardinality(heap)
               k == Cardinality(ends)
               l == Len(ended)
    <3>1. /\ submitted' = submitted + 1 /\ Cardinality(heap') = 0
          /\ Cardinality(ends') = k + (m + 1) /\ Len(ended') = l
      BY <1>2, <1>5, <2>1, <2>2, <2>4, FS_EmptySet
    <3>2. m \in Nat /\ k \in Nat /\ l \in Nat /\ submitted = m + k + l
      BY <1>7
    <3> HIDE DEF m, k, l
    <3> QED BY <3>1, <3>2
  <2> QED BY <1>6, <2>5, <2>6, <2>7, <2>8, <2>9 DEF WInv
<1>9. CASE submitted + 1 # Cardinality(Wave)
  <2>1. heap' = h /\ ticks' = ticks \cup Schedule(h, new) /\ ends' = ends
    BY <1>3, <1>9
  <2>2. GoodEnds(ends, now)'
    BY <1>2, <2>1 DEF WInv, GoodEnds
  <2>3. HeapInv'
    <3>1. \A x \in h : x.nr < submitted'
      <4>1. \A x \in h : x = new \/ x \in heap
        OBVIOUS
      <4> HIDE DEF h
      <4> QED BY <1>2, <1>4, <4>1 DEF HeapWave
    <3>2. GoodHeap(heap') /\ submitted' \in Nat
      BY <1>2, <1>4, <1>5, <2>1
    <3> HIDE DEF h
    <3> QED BY <2>1, <3>1, <3>2 DEF HeapInv, GoodHeap, HeapWave
  <2>4. PlaceInv'
    <3>1. /\ Waves(heap)' = Waves(heap) \cup {w} /\ Waves(ends)' = Waves(ends)
          /\ ToSet(ended)' = ToSet(ended)
      <4> HIDE DEF h
      <4> QED BY <1>2, <1>5, <2>1 DEF Waves, ToSet
    <3> QED BY <1>2, <3>1 DEF WInv, PlaceInv, Apart
  <2>5. DueInv'
    <3>1. /\ \A t \in ticks : t \in Int /\ t >= now
          /\ \A x \in heap : x.at \in Int /\ \E t \in ticks : t <= x.at
      BY <1>4 DEF WInv, DueInv, HeapWave
    <3>2. \A t \in Schedule(h, new) : t = at
      BY <1>4 DEF Schedule
    <3>3. \E t \in ticks \cup Schedule(h, new) : t <= at
      <4>1. CASE Schedule(h, new) = {}
        <5>1. ~ (new.at = Min(Ends(h)) /\ \A x \in h \ {new} : x.at > new.at)
          BY <4>1 DEF Schedule
        <5>2. \E x \in heap : x.at <= at
          <6>1. /\ Min(Ends(h)) \in Int /\ (\E x \in h : x.at = Min(Ends(h)))
                /\ \A x \in h : Min(Ends(h)) <= x.at
            <7> HIDE DEF h
            <7>1. h # {}
              BY DEF h
            <7> QED BY <1>5, <7>1, EarliestIs
          <6>2. CASE new.at # Min(Ends(h))
            <7>1. PICK x \in h : x.at = Min(Ends(h))
              BY <6>1
            <7>2. x \in heap
              BY <6>2, <7>1
            <7>3. Min(Ends(h)) <= at
              BY <1>4, <6>1
            <7> QED BY <7>1, <7>2, <7>3
          <6>3. CASE ~ (\A x \in h \ {new} : x.at > new.at)
            BY <1>1, <1>4, <3>1, <6>3
          <6> QED BY <5>1, <6>2, <6>3
        <5>3. PICK x \in heap : x.at <= at
          BY <5>2
        <5>4. PICK t \in ticks : t <= x.at
          BY <3>1
        <5>5. t \in Int /\ x.at \in Int
          BY <3>1
        <5> QED BY <1>1, <5>3, <5>4, <5>5
      <4>2. CASE Schedule(h, new) # {}
        <5>1. PICK t \in Schedule(h, new) : TRUE
          BY <4>2
        <5>2. t = at /\ at <= at
          BY <1>1, <3>2, <5>1
        <5> QED BY <5>1, <5>2
      <4> QED BY <4>1, <4>2
    <3>4. \A t \in ticks \cup Schedule(h, new) : t \in Int /\ t >= now
      BY <1>1, <3>1, <3>2
    <3>5. \A x \in h : \E t \in ticks \cup Schedule(h, new) : t <= x.at
      BY <1>4, <3>1, <3>3
    <3> HIDE DEF h
    <3> QED BY <1>2, <2>1, <3>4, <3>5 DEF DueInv
  <2>6. NoneLost'
    <3> SUFFICES ASSUME Activated # 1 PROVE submitted' = Cardinality(heap') + Cardinality(ends') + Len(ended')
      BY DEF NoneLost
    <3> DEFINE m == Cardinality(heap)
               k == Cardinality(ends)
               l == Len(ended)
    <3> HIDE DEF h
    <3>1. /\ submitted' = submitted + 1 /\ Cardinality(heap') = m + 1
          /\ Cardinality(ends') = k /\ Len(ended') = l
      BY <1>2, <1>5, <2>1
    <3>2. m \in Nat /\ k \in Nat /\ l \in Nat /\ submitted = m + k + l
      BY <1>7
    <3> HIDE DEF m, k, l
    <3> QED BY <3>1, <3>2
  <2> QED BY <1>6, <2>2, <2>3, <2>4, <2>5, <2>6 DEF WInv
<1> QED BY <1>8, <1>9

\* and at every other step.
LEMMA StepWaves == IInv /\ WInv /\ [Next]_vars => WInv'
<1> SUFFICES ASSUME IInv, WInv, [Next]_vars PROVE WInv'
  OBVIOUS
<1>1. now \in Nat
  BY TimeAssumption DEF IInv, ClockInv
<1>2. ASSUME UNCHANGED <<now, heap, ticks, ends, ended, submitted>>, DOMAIN runs' = DOMAIN runs
      PROVE  WInv'
  BY <1>2 DEF WInv, HeapInv, EndedInv, NoneLost, GoodEnds, DueInv, PlaceInv, Apart
<1>3. ASSUME NEW w \in Wave, NEW b \in Block, FlushBlock(w, b) PROVE WInv'
  BY <1>2, <1>3 DEF FlushBlock
<1>4. ASSUME NEW n \in 1 .. PeakInsts, IPCCollect(n) PROVE WInv'
  BY <1>2, <1>4 DEF IPCCollect, waveVars
<1>5. CASE UNCHANGED vars
  BY <1>2, <1>5 DEF vars, waveVars
<1> QED BY <1>1, <1>3, <1>4, <1>5, AdvanceWaves, HandledWaves, StartWaves, EndWaves,
           CompletionWaves, PredictWaves DEF Next

\* The invariant of the time engine: each wave is in one place, whatever is due is
\* not in the past, an event comes at or before the next predicted end, and the
\* waves are counted.
THEOREM WavesInvariance == Spec => []WInv
<1>1. Init => IInv /\ WInv
  BY InitInv, InitWaves
<1>2. (IInv /\ WInv) /\ [Next]_vars => (IInv /\ WInv)'
  BY StepInv, StepWaves
<1> QED BY <1>1, <1>2, PTL DEF Spec

\* A wave runs in detail, or is predicted, or has a completion event, or has
\* ended, and no wave ends twice.
EndsOnce ==
  /\ Apart(DOMAIN runs, Waves(heap), Waves(ends), ToSet(ended))
  /\ \A x, y \in heap : x.wave = y.wave => x = y
  /\ \A x, y \in ends : x.wave = y.wave => x = y
  /\ \A i, j \in DOMAIN ended : ended[i] = ended[j] => i = j

\* Nothing that is due is in the past, and an event that is not wakes the
\* engine up when the next predicted wave ends, or before.
NothingOverdue ==
  /\ \A h \in heap : h.at >= now /\ \E t \in ticks : now <= t /\ t <= h.at
  /\ \A e \in ends : e.at >= now

\* The time engine ends every wave once, none too late, and forgets none.
THEOREM PredictionsKept == Spec => [](EndsOnce /\ NothingOverdue /\ NoneLost)
<1>1. IInv /\ WInv => EndsOnce /\ NothingOverdue /\ NoneLost
  <2> SUFFICES ASSUME IInv, WInv PROVE EndsOnce /\ NothingOverdue /\ NoneLost
    OBVIOUS
  <2>1. EndsOnce
    BY DEF WInv, HeapInv, GoodHeap, GoodEnds, EndedInv, PlaceInv, EndsOnce
  <2>2. NothingOverdue
    <3>1. now \in Nat /\ \A h \in heap : h.at \in Int
      BY TimeAssumption DEF IInv, ClockInv, WInv, HeapInv, GoodHeap, HeapWave
    <3>2. /\ \A t \in ticks : t \in Int /\ t >= now
          /\ \A h \in heap : \E t \in ticks : t <= h.at
      BY DEF WInv, DueInv
    <3>3. \A h \in heap : h.at >= now /\ \E t \in ticks : now <= t /\ t <= h.at
      BY <3>1, <3>2
    <3> QED BY <3>3 DEF WInv, GoodEnds, NothingOverdue
  <2>3. NoneLost
    BY DEF WInv
  <2> QED BY <2>1, <2>2, <2>3
<1> QED BY <1>1, Invariance, WavesInvariance, PTL
=============================================================================
