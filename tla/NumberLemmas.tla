------------------------------ MODULE NumberLemmas ------------------------------
(***************************************************************************)
(* Least and greatest elements of sets of numbers, for the proofs about    *)
(* Min and Max, and sums over finite sets, for those about MapThenSumSet.  *)
(***************************************************************************)
EXTENDS Integers, Functions, FiniteSetsExt, FiniteSetTheorems, WellFoundedInduction, TLAPS

\* A set of numbers that is not empty has a least element.
LEMMA LeastOf ==
  ASSUME NEW T \in SUBSET Nat, T # {}
  PROVE  \E m \in T : \A k \in T : m <= k
<1> DEFINE R == OpToRel(<, Nat)
<1>1. IsWellFoundedOn(R, Nat)
  BY NatLessThanWellFounded
<1>2. \A x, y \in Nat : x < y => <<x, y>> \in R
  BY DEF OpToRel
<1> HIDE DEF R
<1>3. PICK m \in T : \A k \in T : ~ (<<k, m>> \in R)
  BY <1>1, WFMin
<1>4. ASSUME NEW k \in T  PROVE m <= k
  <2>1. k \in Nat /\ m \in Nat
    OBVIOUS
  <2>2. ~(k < m)
    BY <1>2, <1>3, <2>1
  <2> QED  BY <2>1, <2>2
<1> QED  BY <1>3, <1>4

\* A set of numbers up to N that is not empty has its Max as an element.
LEMMA GreatestOf ==
  ASSUME NEW N \in Nat, NEW T \in SUBSET (0..N), T # {}
  PROVE  Max(T) \in T /\ \A k \in T : k <= Max(T)
<1> DEFINE U == {n \in 0..N : N - n \in T}
<1>1. U \in SUBSET Nat
  OBVIOUS
<1>2. U # {}
  <2>1. PICK x \in T : TRUE
    OBVIOUS
  <2>2. N - x \in U
    BY <2>1
  <2> QED  BY <2>2
<1>3. PICK m \in U : \A k \in U : m <= k
  <2> HIDE DEF U
  <2> QED  BY <1>1, <1>2, LeastOf
<1>4. N - m \in T
  OBVIOUS
<1>5. ASSUME NEW y \in T  PROVE N - m >= y
  <2>1. N - y \in U
    OBVIOUS
  <2>2. m <= N - y
    BY <1>3, <2>1
  <2> QED  BY <2>2
<1> QED  BY <1>4, <1>5 DEF Max

\* A finite set of numbers that is not empty has a greatest one.
LEMMA FiniteGreatest ==
  ASSUME NEW S \in SUBSET Nat, IsFiniteSet(S), S # {}
  PROVE  \E m \in S : \A x \in S : x <= m
<1> DEFINE Bad(X) == X # {} /\ ~ \E m \in X : \A x \in X : x <= m
           sizes == {Cardinality(X) : X \in {Y \in SUBSET S : Bad(Y)}}
<1>1. SUFFICES ASSUME Bad(S)  PROVE FALSE
  OBVIOUS
<1>2. sizes \in SUBSET Nat /\ sizes # {}
  <2>1. \A X \in SUBSET S : Cardinality(X) \in Nat
    BY FS_Subset, FS_CardinalityType
  <2>2. Cardinality(S) \in sizes
    BY <1>1
  <2> QED  BY <2>1, <2>2
<1>3. PICK n \in sizes : \A k \in sizes : n <= k
  <2> HIDE DEF sizes
  <2> QED  BY <1>2, LeastOf
<1>4. PICK X \in SUBSET S : Bad(X) /\ Cardinality(X) = n
  BY <1>3
<1>5. PICK y \in X : TRUE
  BY <1>4
<1> DEFINE Y == X \ {y}
<1>6. IsFiniteSet(X) /\ Cardinality(X) \in Nat
  BY FS_Subset, FS_CardinalityType
<1>7. Cardinality(Y) = n - 1 /\ n \in Nat
  BY <1>4, <1>5, <1>6, FS_RemoveElement
<1>8. ~Bad(Y)
  <2>1. CASE Bad(Y)
    <3>1. Cardinality(Y) \in sizes
      BY <2>1
    <3> HIDE DEF sizes
    <3>2. n <= Cardinality(Y)
      BY <1>3, <3>1
    <3> QED  BY <1>7, <3>2
  <2> QED  BY <2>1
<1>9. CASE Y = {}
  BY <1>4, <1>5, <1>9
<1>10. ASSUME NEW m \in Y, \A x \in Y : x <= m  PROVE FALSE
  <2>1. m \in Nat /\ y \in Nat /\ X \subseteq Nat
    OBVIOUS
  <2>2. \E g \in {m, y} : \A x \in X : x <= g
    <3>1. CASE y <= m
      BY <1>10, <2>1, <3>1
    <3>2. CASE m <= y
      BY <1>10, <2>1, <3>2
    <3> QED  BY <2>1, <3>1, <3>2
  <2> QED  BY <1>4, <1>5, <2>2
<1> QED  BY <1>8, <1>9, <1>10

\* The lesser of two numbers is one of them.
LEMMA LesserOf ==
  ASSUME NEW a \in Int, NEW b \in Int
  PROVE  Min({a, b}) \in {a, b}
<1>1. \E x \in {a, b} : \A y \in {a, b} : x <= y
  <2>1. CASE a <= b
    BY <2>1
  <2>2. CASE b <= a
    BY <2>2
  <2> QED  BY <2>1, <2>2
<1> QED  BY <1>1 DEF Min

-----------------------------------------------------------------------------
(* Sums over the elements of a finite set, one after the other, as          *)
(* MapThenSumSet takes them.                                                *)

\* F[X] is the sum of g over X, the elements taken in the order of `next'.
Sums(F, g, next, T) ==
  \A X \in SUBSET T : F[X] = IF X = {} THEN 0 ELSE g[next[X]] + F[X \ {next[X]}]

\* Whichever element is taken first, the sum is the same.
AnyOrder(F, g, T) ==
  \A X \in SUBSET T : F[X] \in Int /\ \A x \in X : F[X] = g[x] + F[X \ {x}]

\* `next' names an element of each set that has one.
Picks(next, T) == \A X \in SUBSET T : X # {} => next[X] \in X

LEMMA OneLess ==
  ASSUME NEW T, IsFiniteSet(T), NEW X \in SUBSET T, NEW x \in X
  PROVE  /\ Cardinality(X) \in Nat /\ Cardinality(X) # 0
         /\ Cardinality(X \ {x}) = Cardinality(X) - 1
         /\ X \ {x} \in SUBSET T
<1>1. IsFiniteSet(X) /\ X # {}
  BY FS_Subset
<1> QED  BY <1>1, FS_CardinalityType, FS_EmptySet, FS_RemoveElement

\* There are such sums ...
LEMMA SumsExist ==
  ASSUME NEW T, IsFiniteSet(T), NEW g \in [T -> Int], NEW next, Picks(next, T)
  PROVE  \E F \in [SUBSET T -> Int] : Sums(F, g, next, T)
<1> DEFINE Value(F, X) == IF X = {} THEN 0 ELSE g[next[X]] + F[X \ {next[X]}]
           Upto(n) == \E F \in [SUBSET T -> Int] :
                        \A X \in SUBSET T : Cardinality(X) <= n => F[X] = Value(F, X)
           bad == {n \in Nat : ~Upto(n)}
<1>1. \A X \in SUBSET T : Cardinality(X) \in Nat /\ Cardinality(X) <= Cardinality(T)
  BY FS_Subset, FS_CardinalityType
<1>2. bad = {}
  <2> SUFFICES ASSUME bad # {}  PROVE FALSE
    OBVIOUS
  <2>1. PICK n \in bad : \A k \in bad : n <= k
    <3>1. bad \in SUBSET Nat
      OBVIOUS
    <3> HIDE DEF bad
    <3> QED  BY <3>1, LeastOf
  <2>2. n # 0
    <3> DEFINE Z == [X \in SUBSET T |-> 0]
    <3>1. \A X \in SUBSET T : Cardinality(X) <= 0 => X = {}
      BY <1>1, FS_Subset, FS_EmptySet
    <3>2. Upto(0)
      <4>1. Z \in [SUBSET T -> Int] /\ \A X \in SUBSET T : Cardinality(X) <= 0 => Z[X] = Value(Z, X)
        BY <3>1
      <4> QED  BY <4>1
    <3> QED  BY <2>1, <3>2, ZenonT(60)
  <2>3. Upto(n - 1) /\ n \in Nat
    <3> HIDE DEF Upto
    <3>1. n \in Nat /\ n - 1 \in Nat
      BY <2>1, <2>2
    <3>2. n - 1 \notin bad
      <4> HIDE DEF bad
      <4> QED  BY <2>1, <3>1
    <3> QED  BY <3>1, <3>2
  <2>4. PICK F \in [SUBSET T -> Int] :
          \A X \in SUBSET T : Cardinality(X) <= n - 1 => F[X] = Value(F, X)
    BY <2>3
  <2> DEFINE G == [X \in SUBSET T |-> Value(F, X)]
  <2>5. G \in [SUBSET T -> Int]
    <3> SUFFICES ASSUME NEW X \in SUBSET T  PROVE Value(F, X) \in Int
      OBVIOUS
    <3>1. X # {} => next[X] \in T /\ X \ {next[X]} \in SUBSET T
      BY DEF Picks
    <3> QED  BY <3>1
  <2>6. ASSUME NEW X \in SUBSET T, Cardinality(X) <= n  PROVE G[X] = Value(G, X)
    <3>1. CASE X = {}
      BY <3>1
    <3>2. CASE X # {}
      <4> DEFINE Y == X \ {next[X]}
      <4>1. next[X] \in X
        BY <3>2 DEF Picks
      <4>2. Y \in SUBSET T /\ Cardinality(Y) = Cardinality(X) - 1
        BY <4>1, OneLess
      <4>3. Cardinality(Y) <= n - 1
        BY <1>1, <2>3, <2>6, <4>2
      <4>4. F[Y] = Value(F, Y)
        BY <2>4, <4>2, <4>3
      <4>5. G[Y] = Value(F, Y)
        BY <4>2
      <4> HIDE DEF Y
      <4>6. G[X] = g[next[X]] + F[Y]
        BY <3>2 DEF Y
      <4>7. Value(G, X) = g[next[X]] + G[Y]
        BY <3>2 DEF Y
      <4> QED  BY <4>4, <4>5, <4>6, <4>7
    <3> QED  BY <3>1, <3>2
  <2>7. Upto(n)
    <3> HIDE DEF G, Value
    <3> QED  BY <2>5, <2>6
  <2> QED  BY <2>1, <2>7
<1>3. Upto(Cardinality(T))
  <2>1. Cardinality(T) \in Nat
    BY <1>1
  <2> QED  BY <1>2, <2>1
<1> QED  BY <1>1, <1>3 DEF Sums

\* ... which are numbers and do not depend on the order.
LEMMA SumsInAnyOrder ==
  ASSUME NEW T, IsFiniteSet(T), NEW g \in [T -> Int], NEW next, Picks(next, T),
         NEW F, Sums(F, g, next, T)
  PROVE  AnyOrder(F, g, T)
<1> DEFINE Good(X) == F[X] \in Int /\ \A x \in X : F[X] = g[x] + F[X \ {x}]
           sizes == {Cardinality(X) : X \in {Y \in SUBSET T : ~Good(Y)}}
<1>1. \A X \in SUBSET T : Cardinality(X) \in Nat
  BY FS_Subset, FS_CardinalityType
<1>2. SUFFICES ASSUME sizes # {}  PROVE FALSE
  BY DEF AnyOrder
<1>3. PICK n \in sizes : \A k \in sizes : n <= k
  <2>1. sizes \in SUBSET Nat
    BY <1>1
  <2> HIDE DEF sizes
  <2> QED  BY <1>2, <2>1, LeastOf
<1>4. PICK X \in SUBSET T : ~Good(X) /\ Cardinality(X) = n
  BY <1>3
<1>5. \A Y \in SUBSET T : Cardinality(Y) < n => Good(Y)
  <2> SUFFICES ASSUME NEW Y \in SUBSET T, Cardinality(Y) < n, ~Good(Y)  PROVE FALSE
    OBVIOUS
  <2>1. Cardinality(Y) \in sizes
    OBVIOUS
  <2> HIDE DEF sizes
  <2>2. n <= Cardinality(Y)
    BY <1>3, <2>1
  <2> QED  BY <1>1, <1>4, <2>2
<1> HIDE DEF sizes
<1>6. X # {}
  <2>1. F[{}] = 0
    BY DEF Sums
  <2> QED  BY <1>4, <2>1
<1> DEFINE c == next[X]
           Xc == X \ {c}
<1>7. c \in X /\ F[X] = g[c] + F[Xc] /\ c \in T
  BY <1>6 DEF Picks, Sums
<1>8. Xc \in SUBSET T /\ Cardinality(Xc) < n
  BY <1>1, <1>4, <1>7, OneLess
<1>9. Good(Xc)
  BY <1>5, <1>8
<1>10. F[X] \in Int
  BY <1>7, <1>9
<1>11. ASSUME NEW x \in X  PROVE F[X] = g[x] + F[X \ {x}]
  <2>1. CASE x = c
    BY <1>7, <2>1
  <2>2. CASE x # c
    <3> DEFINE Xx == X \ {x}
               both == X \ {c, x}
    <3>1. Xx \in SUBSET T /\ Cardinality(Xx) < n /\ x \in T
      BY <1>1, <1>4, OneLess
    <3>2. Good(Xx)
      BY <1>5, <3>1
    <3>3. c \in Xx /\ x \in Xc /\ Xx \ {c} = both /\ Xc \ {x} = both
      BY <1>7, <2>2
    <3>4. F[Xx] = g[c] + F[both]
      BY <3>2, <3>3
    <3>5. F[Xc] = g[x] + F[both]
      BY <1>9, <3>3
    <3>6. F[both] \in Int
      <4>1. /\ Xc \ {x} \in SUBSET T /\ Cardinality(Xc \ {x}) = Cardinality(Xc) - 1
            /\ Cardinality(Xc) \in Nat
        BY <1>8, <3>3, OneLess
      <4>2. both \in SUBSET T /\ Cardinality(both) = Cardinality(Xc) - 1
        BY <3>3, <4>1
      <4>3. Cardinality(both) < n /\ n \in Nat
        <5>1. n \in Nat
          BY <1>1, <1>4
        <5> HIDE DEF Xc, both
        <5> QED  BY <1>8, <4>1, <4>2, <5>1
      <4> QED  BY <1>5, <4>2, <4>3
    <3>7. g[c] \in Int /\ g[x] \in Int
      BY <1>7, <3>1
    <3> HIDE DEF Xx, Xc, both, c
    <3> QED  BY <1>7, <3>4, <3>5, <3>6, <3>7 DEF Xx
  <2> QED  BY <2>1, <2>2
<1> QED  BY <1>4, <1>10, <1>11

\* The sum of a function over a finite set, element by element.
LEMMA SumOfFunction ==
  ASSUME NEW T, IsFiniteSet(T), NEW g \in [T -> Int]
  PROVE  \E F : F[{}] = 0 /\ AnyOrder(F, g, T) /\ SumFunction(g) = F[T]
<1> DEFINE Chosen(X) == CHOOSE x \in X : TRUE
           Folded(F, X) == IF X = {} THEN 0 ELSE g[Chosen(X)] + F[X \ {Chosen(X)}]
<1>1. PICK next : \A X \in SUBSET T : next[X] = Chosen(X)
  <2> DEFINE f == [X \in SUBSET T |-> Chosen(X)]
  <2>1. \A X \in SUBSET T : f[X] = Chosen(X)
    OBVIOUS
  <2> QED  BY <2>1
<1>2. Picks(next, T)
  BY <1>1 DEF Picks
<1>3. \A F : \A X \in SUBSET T : Folded(F, X) = IF X = {} THEN 0 ELSE g[next[X]] + F[X \ {next[X]}]
  <2> HIDE DEF Chosen
  <2> QED  BY <1>1
<1>4. PICK sum : sum = [X \in SUBSET T |-> Folded(sum, X)] /\ SumFunction(g) = sum[T]
  <2> DEFINE s == CHOOSE iter : iter = [X \in SUBSET T |-> Folded(iter, X)]
  <2>1. PICK F \in [SUBSET T -> Int] : Sums(F, g, next, T)
    BY <1>2, SumsExist
  <2>2. SumFunction(g) = s[T]
    BY DEF SumFunction, SumFunctionOnSet, FoldFunctionOnSet, MapThenFoldSet
  <2> HIDE DEF Folded
  <2>3. F = [X \in SUBSET T |-> Folded(F, X)]
    <3>1. \A X \in SUBSET T : F[X] = Folded(F, X)
      BY <1>3, <2>1 DEF Sums
    <3> QED  BY <3>1
  <2>4. s = [X \in SUBSET T |-> Folded(s, X)]
    BY <2>3
  <2> QED  BY <2>2, <2>4
<1> HIDE DEF Folded
<1>5. Sums(sum, g, next, T)
  BY <1>3, <1>4 DEF Sums
<1>6. AnyOrder(sum, g, T)
  BY <1>2, <1>5, SumsInAnyOrder
<1>7. sum[{}] = 0
  BY <1>5 DEF Sums
<1> QED  BY <1>4, <1>6, <1>7

LEMMA SumIsInteger ==
  ASSUME NEW T, IsFiniteSet(T), NEW g \in [T -> Int]
  PROVE  SumFunction(g) \in Int
<1>1. PICK F : AnyOrder(F, g, T) /\ SumFunction(g) = F[T]
  BY SumOfFunction
<1>2. T \in SUBSET T
  OBVIOUS
<1> QED  BY <1>1, <1>2 DEF AnyOrder

LEMMA SumIsNatural ==
  ASSUME NEW T, IsFiniteSet(T), NEW g \in [T -> Nat]
  PROVE  SumFunction(g) \in Nat
<1>1. PICK F : F[{}] = 0 /\ AnyOrder(F, g, T) /\ SumFunction(g) = F[T]
  <2>1. g \in [T -> Int]
    OBVIOUS
  <2> QED  BY <2>1, SumOfFunction
<1>2. \A X \in SUBSET T : F[X] \in Int /\ \A x \in X : F[X] = g[x] + F[X \ {x}]
  BY <1>1 DEF AnyOrder
<1> DEFINE wrong == {X \in SUBSET T : F[X] \notin Nat}
           sizes == {Cardinality(X) : X \in wrong}
<1>3. SUFFICES ASSUME wrong # {}  PROVE FALSE
  BY <1>1
<1>4. \A X \in SUBSET T : IsFiniteSet(X) /\ Cardinality(X) \in Nat
  BY FS_Subset, FS_CardinalityType
<1>5. PICK n \in sizes : \A k \in sizes : n <= k
  <2>1. sizes \in SUBSET Nat /\ sizes # {}
    BY <1>3, <1>4
  <2> HIDE DEF sizes
  <2> QED  BY <2>1, LeastOf
<1>6. PICK X \in wrong : Cardinality(X) = n
  BY <1>5
<1>7. X # {}
  BY <1>1, <1>6
<1>8. PICK x \in X : TRUE
  BY <1>7
<1> DEFINE Y == X \ {x}
<1>9. Cardinality(Y) = Cardinality(X) - 1 /\ Y \in SUBSET T
  BY <1>6, OneLess
<1>10. F[Y] \in Nat
  <2> SUFFICES ASSUME F[Y] \notin Nat  PROVE FALSE
    OBVIOUS
  <2>1. Cardinality(Y) \in sizes
    BY <1>9
  <2> HIDE DEF sizes, Y
  <2>2. n <= Cardinality(Y)
    BY <1>5, <2>1
  <2>3. n \in Nat
    BY <1>4, <1>6
  <2> QED  BY <1>6, <1>9, <2>2, <2>3
<1>11. F[X] = g[x] + F[Y] /\ g[x] \in Nat
  BY <1>2, <1>6
<1>12. F[X] \in Nat
  <2> HIDE DEF Y
  <2> QED  BY <1>10, <1>11
<1> QED  BY <1>6, <1>12

\* A set of sets that has the empty one, and each that it has without one of
\* its elements.
OneByOne(P, T) == {} \in P /\ \A X \in SUBSET T : \A x \in X : X \ {x} \in P => X \in P

\* All subsets are reached one element after the other.
LEMMA ReachedOneByOne ==
  ASSUME NEW T, IsFiniteSet(T), NEW P, OneByOne(P, T)
  PROVE  T \in P
<1>1. PICK missing : missing = {X \in SUBSET T : X \notin P}
  OBVIOUS
<1>2. PICK sizes : sizes = {Cardinality(X) : X \in missing}
  OBVIOUS
<1>3. SUFFICES ASSUME missing # {}  PROVE FALSE
  BY <1>1
<1>4. \A X \in SUBSET T : Cardinality(X) \in Nat
  BY FS_Subset, FS_CardinalityType
<1>5. PICK n \in sizes : \A k \in sizes : n <= k
  <2>1. sizes \in SUBSET Nat /\ sizes # {}
    BY <1>1, <1>2, <1>3, <1>4
  <2> QED  BY <2>1, LeastOf
<1>6. PICK X \in missing : Cardinality(X) = n
  BY <1>2, <1>5
<1>7. X \in SUBSET T /\ X # {} /\ n \in Nat
  BY <1>1, <1>4, <1>6 DEF OneByOne
<1>8. PICK x \in X : TRUE
  BY <1>7
<1>9. PICK Y : Y = X \ {x}
  OBVIOUS
<1>10. Cardinality(Y) = n - 1 /\ Y \in SUBSET T
  BY <1>6, <1>7, <1>9, OneLess
<1>11. Y \in P
  <2> SUFFICES ASSUME Y \notin P  PROVE FALSE
    OBVIOUS
  <2>1. n - 1 \in sizes
    BY <1>1, <1>2, <1>10
  <2>2. n <= n - 1
    BY <1>5, <2>1
  <2> QED  BY <1>7, <2>2
<1>12. X \in P
  BY <1>7, <1>8, <1>9, <1>11 DEF OneByOne
<1> QED  BY <1>1, <1>6, <1>12

\* The sum of differences is the difference of the sums.
LEMMA SumOfDifferences ==
  ASSUME NEW T, IsFiniteSet(T), NEW g \in [T -> Int], NEW h \in [T -> Int],
         NEW d, d = [x \in T |-> g[x] - h[x]]
  PROVE  SumFunction(d) = SumFunction(g) - SumFunction(h)
<1>1. d \in [T -> Int] /\ \A x \in T : d[x] = g[x] - h[x]
  OBVIOUS
<1>2. PICK G : G[{}] = 0 /\ AnyOrder(G, g, T) /\ SumFunction(g) = G[T]
  BY SumOfFunction
<1>3. PICK H : H[{}] = 0 /\ AnyOrder(H, h, T) /\ SumFunction(h) = H[T]
  BY SumOfFunction
<1>4. PICK D : D[{}] = 0 /\ AnyOrder(D, d, T) /\ SumFunction(d) = D[T]
  BY <1>1, SumOfFunction
<1>5. PICK P : P = {X \in SUBSET T : D[X] = G[X] - H[X]}
  OBVIOUS
<1>6. ASSUME NEW X \in SUBSET T, NEW x \in X, X \ {x} \in P  PROVE X \in P
  <2>1. PICK Y \in SUBSET T : Y = X \ {x}
    OBVIOUS
  <2>2. G[X] = g[x] + G[Y] /\ H[X] = h[x] + H[Y] /\ D[X] = d[x] + D[Y]
    BY <1>2, <1>3, <1>4, <2>1 DEF AnyOrder
  <2>3. G[Y] \in Int /\ H[Y] \in Int /\ D[Y] = G[Y] - H[Y]
    BY <1>2, <1>3, <1>5, <1>6, <2>1 DEF AnyOrder
  <2>4. g[x] \in Int /\ h[x] \in Int /\ d[x] = g[x] - h[x]
    BY <1>1
  <2>5. D[X] = G[X] - H[X]
    BY <2>2, <2>3, <2>4
  <2> QED  BY <1>5, <2>5
<1>7. {} \in P
  BY <1>2, <1>3, <1>4, <1>5
<1>8. T \in P
  BY <1>6, <1>7, ReachedOneByOne DEF OneByOne
<1> QED  BY <1>2, <1>3, <1>4, <1>5, <1>8

\* Elements whose value is 0 can be left out of a sum.
LEMMA SumOverPart ==
  ASSUME NEW T, IsFiniteSet(T), NEW g \in [T -> Int], NEW A \in SUBSET T, \A x \in T \ A : g[x] = 0,
         NEW a, a = [x \in A |-> g[x]]
  PROVE  SumFunction(a) = SumFunction(g)
<1>1. a \in [A -> Int] /\ IsFiniteSet(A) /\ \A x \in A : a[x] = g[x]
  BY FS_Subset
<1>2. PICK G : G[{}] = 0 /\ AnyOrder(G, g, T) /\ SumFunction(g) = G[T]
  BY SumOfFunction
<1>3. PICK F : F[{}] = 0 /\ AnyOrder(F, a, A) /\ SumFunction(a) = F[A]
  BY <1>1, SumOfFunction
<1>4. PICK P : P = {X \in SUBSET T : F[X \cap A] = G[X]}
  OBVIOUS
<1>5. ASSUME NEW X \in SUBSET T, NEW x \in X, X \ {x} \in P  PROVE X \in P
  <2>1. PICK Y \in SUBSET T : Y = X \ {x}
    OBVIOUS
  <2>2. G[X] = g[x] + G[Y] /\ G[Y] \in Int /\ F[Y \cap A] = G[Y]
    BY <1>2, <1>4, <1>5, <2>1 DEF AnyOrder
  <2>3. PICK XA, YA : XA = X \cap A /\ YA = Y \cap A
    OBVIOUS
  <2>4. F[XA] = G[X]
    <3>1. CASE x \in A
      <4>1. XA \in SUBSET A /\ x \in XA /\ YA = XA \ {x}
        BY <2>1, <2>3, <3>1
      <4>2. F[XA] = a[x] + F[YA]
        BY <1>3, <4>1 DEF AnyOrder
      <4> QED  BY <1>1, <2>2, <2>3, <3>1, <4>2
    <3>2. CASE x \notin A
      <4>1. XA = YA
        BY <2>1, <2>3, <3>2
      <4>2. g[x] = 0
        BY <3>2
      <4> QED  BY <2>2, <2>3, <4>1, <4>2
    <3> QED  BY <3>1, <3>2
  <2> QED  BY <1>4, <2>3, <2>4
<1>6. {} \in P
  <2>1. {} \cap A = {}
    OBVIOUS
  <2> QED  BY <1>2, <1>3, <1>4, <2>1
<1>7. T \in P
  BY <1>5, <1>6, ReachedOneByOne DEF OneByOne
<1>8. T \cap A = A
  OBVIOUS
<1> QED  BY <1>2, <1>3, <1>4, <1>7, <1>8

\* Every element of U is the one of just one element of T.
OneToOne(f, T, U) ==
  /\ f \in [T -> U]
  /\ \A x, y \in T : f[x] = f[y] => x = y
  /\ \A u \in U : \E x \in T : f[x] = u

\* Values that are the same one by one have the same sum.
LEMMA SumOneToOne ==
  ASSUME NEW T, IsFiniteSet(T), NEW U, IsFiniteSet(U), NEW f, OneToOne(f, T, U),
         NEW g \in [T -> Int], NEW h \in [U -> Int], \A x \in T : g[x] = h[f[x]]
  PROVE  SumFunction(g) = SumFunction(h)
<1>1. PICK G : G[{}] = 0 /\ AnyOrder(G, g, T) /\ SumFunction(g) = G[T]
  BY SumOfFunction
<1>2. PICK H : H[{}] = 0 /\ AnyOrder(H, h, U) /\ SumFunction(h) = H[U]
  BY SumOfFunction
<1>3. PICK image : image = [X \in SUBSET T |-> {f[x] : x \in X}]
  OBVIOUS
<1>4. PICK P : P = {X \in SUBSET T : G[X] = H[image[X]]}
  OBVIOUS
<1>5. ASSUME NEW X \in SUBSET T, NEW x \in X, X \ {x} \in P  PROVE X \in P
  <2>1. PICK Y \in SUBSET T : Y = X \ {x}
    OBVIOUS
  <2>2. G[X] = g[x] + G[Y] /\ G[Y] = H[image[Y]]
    BY <1>1, <1>4, <1>5, <2>1 DEF AnyOrder
  <2>3. image[X] \in SUBSET U /\ f[x] \in image[X] /\ image[Y] = image[X] \ {f[x]}
    BY <1>3, <2>1 DEF OneToOne
  <2>4. H[image[X]] = h[f[x]] + H[image[Y]]
    <3>1. PICK V, v : V \in SUBSET U /\ V = image[X] /\ v = f[x] /\ v \in V
      BY <2>3
    <3>2. H[V] = h[v] + H[V \ {v}]
      BY <1>2, <3>1 DEF AnyOrder
    <3> QED  BY <2>3, <3>1, <3>2
  <2>5. G[X] = H[image[X]]
    BY <2>2, <2>4
  <2> QED  BY <1>4, <2>5
<1>6. {} \in P
  <2>1. image[{}] = {}
    BY <1>3
  <2> QED  BY <1>1, <1>2, <1>4, <2>1
<1>7. T \in P
  BY <1>5, <1>6, ReachedOneByOne DEF OneByOne
<1>8. image[T] = U
  BY <1>3 DEF OneToOne
<1> QED  BY <1>1, <1>2, <1>4, <1>7, <1>8

\* ... and there are as many of them.
LEMMA CountOneToOne ==
  ASSUME NEW T, NEW U, IsFiniteSet(T), NEW f, OneToOne(f, T, U)
  PROVE  IsFiniteSet(U) /\ Cardinality(U) = Cardinality(T)
<1>1. f \in Bijection(T, U)
  BY DEF OneToOne, Bijection, Injection, Surjection, IsInjective
<1>2. ExistsBijection(T, U)
  BY <1>1 DEF ExistsBijection
<1> QED  BY <1>2, FS_Bijection
=============================================================================
