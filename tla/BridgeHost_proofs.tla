-------------------------- MODULE BridgeHost_proofs --------------------------
(***************************************************************************)
(* What the analyzer and the registry promise, for every window, every     *)
(* threshold and every history of a device's heap.                         *)
(***************************************************************************)
EXTENDS BridgeHost, FiniteSetTheorems, WellFoundedInduction, TLAPS

-----------------------------------------------------------------------------
(* Induction over the numbers. *)

(* A set of numbers has a least element: the intervals up to each are       *)
(* finite sets, which strict inclusion orders well.                         *)
LEMMA LeastNatural ==
    ASSUME NEW T \in SUBSET Nat, T # {}
    PROVE  \E n \in T : \A m \in T : n <= m
<1> DEFINE R == StrictSubsetOrdering(Nat)
           S == FiniteSubsetsOf(Nat)
           U == {0..n : n \in T}
<1>1. IsWellFoundedOn(R, S)
    BY FS_StrictSubsetOrderingWellFounded
<1>2. U \subseteq S /\ U # {}
    <2>1. ASSUME NEW n \in T PROVE 0..n \in S
        <3>1. IsFiniteSet(0..n)
            BY FS_Interval
        <3> QED
            BY <3>1 DEF FiniteSubsetsOf
    <2> QED
        BY <2>1
<1> HIDE DEF R, S
<1>3. PICK x \in U : \A y \in U : ~(<<y, x>> \in R)
    BY <1>1, <1>2, WFMin
<1>4. PICK n \in T : x = 0..n
    BY <1>3
<1>5. ASSUME NEW m \in T, m < n PROVE FALSE
    <2>1. 0..m \subseteq 0..n /\ 0..m # 0..n
        <3>1. n \in 0..n /\ n \notin 0..m
            BY <1>5
        <3> QED
            BY <1>5, <3>1
    <2>2. <<0..m, 0..n>> \in R
        BY <2>1 DEF R, StrictSubsetOrdering
    <2> QED
        BY <1>3, <1>4, <2>2
<1> QED
    BY <1>5

(* Induction. The predicate is a set: what the theorems of the library      *)
(* state for an operator cannot be instantiated by the provers.             *)
LEMMA InductionOnSet ==
    ASSUME NEW T, 0 \in T, \A n \in Nat : n \in T => n + 1 \in T
    PROVE  Nat \subseteq T
<1> SUFFICES ASSUME Nat \ T # {} PROVE FALSE
    OBVIOUS
<1>1. PICK n \in Nat \ T : \A m \in Nat \ T : n <= m
    BY LeastNatural
<1>2. n # 0 /\ n - 1 \in Nat /\ (n - 1) + 1 = n
    BY <1>1
<1>3. n - 1 \in T
    BY <1>1, <1>2
<1> QED
    BY <1>1, <1>2, <1>3

-----------------------------------------------------------------------------
(* What the inductive invariant says beyond the types. *)

(* The manager's time is that of the line, as far as purging tells ages     *)
(* apart, and what was purged was silent for longer than the timeout.       *)
AgeInv ==
    history # <<>> =>
        IF manager = Absent THEN silence > OfflineTimeout
        ELSE manager.age = IF silence < LongAgo THEN silence ELSE LongAgo

(* While the device's heap has not fallen no sample is less than the one    *)
(* before it, and the manager is never ahead of the device.                 *)
SteadyInv ==
    ~fell /\ ~purged =>
        /\ manager = Absent => history = <<>>
        /\ manager # Absent => manager.heap <= heap
        /\ \A i \in DOMAIN history : history[i].heap <= manager.heap
        /\ \A i, j \in DOMAIN history : i <= j => history[i].heap <= history[j].heap

-----------------------------------------------------------------------------
(* Sums satisfies the equation it is defined by. *)
LEMMA SumsExist ==
    ASSUME NEW s \in Seq(Int)
    PROVE  Sums(s) = [i \in 0..Len(s) |-> IF i = 0 THEN 0 ELSE Sums(s)[i - 1] + s[i]]
<1> DEFINE IsSum(g, n) == g = [i \in 0..n |-> IF i = 0 THEN 0 ELSE g[i - 1] + s[i]]
           T == {n \in Nat : n <= Len(s) => \E g : IsSum(g, n)}
<1>1. 0 \in T
    <2>1. IsSum([i \in 0..0 |-> 0], 0)
        OBVIOUS
    <2> QED
        BY <2>1
<1>2. ASSUME NEW n \in Nat, n \in T PROVE n + 1 \in T
    <2> SUFFICES ASSUME n + 1 <= Len(s) PROVE \E g : IsSum(g, n + 1)
        OBVIOUS
    <2>1. PICK g : IsSum(g, n)
        BY <1>2
    <2> DEFINE h == [i \in 0..(n + 1) |-> IF i = n + 1 THEN g[n] + s[n + 1] ELSE g[i]]
    <2>2. ASSUME NEW i \in 0..(n + 1)
          PROVE  h[i] = IF i = 0 THEN 0 ELSE h[i - 1] + s[i]
        <3>1. CASE i = n + 1
            <4>1. i # 0 /\ i - 1 = n /\ n # n + 1 /\ n \in 0..(n + 1)
                BY <3>1
            <4> QED
                BY <3>1, <4>1
        <3>2. CASE i # n + 1 /\ i # 0
            <4>1. i \in 0..n /\ i - 1 \in 0..(n + 1) /\ i - 1 # n + 1
                BY <3>2
            <4>2. g[i] = g[i - 1] + s[i]
                BY <2>1, <3>2, <4>1
            <4> QED
                BY <3>2, <4>1, <4>2
        <3>3. CASE i = 0
            BY <2>1, <3>3
        <3> QED
            BY <3>1, <3>2, <3>3
    <2>3. IsSum(h, n + 1)
        BY <2>2
    <2> QED
        BY <2>3
<1> HIDE DEF T, IsSum
<1>3. Nat \subseteq T
    BY <1>1, <1>2, InductionOnSet
<1>4. \E g : IsSum(g, Len(s))
    BY <1>3 DEF T
<1>5. Sums(s) = CHOOSE g : IsSum(g, Len(s))
    BY DEF Sums, IsSum
<1>6. IsSum(Sums(s), Len(s))
    BY <1>4, <1>5
<1> QED
    BY <1>6 DEF IsSum

LEMMA SumsStep ==
    ASSUME NEW s \in Seq(Int)
    PROVE  /\ Sums(s)[0] = 0
           /\ \A i \in 1..Len(s) : Sums(s)[i] = Sums(s)[i - 1] + s[i]
           /\ \A i \in 0..Len(s) : Sums(s)[i] \in Int
<1>1. Sums(s)[0] = 0 /\ \A i \in 1..Len(s) : Sums(s)[i] = Sums(s)[i - 1] + s[i]
    BY SumsExist
<1> DEFINE T == {n \in Nat : n <= Len(s) => Sums(s)[n] \in Int}
<1>2. 0 \in T
    BY <1>1
<1>3. ASSUME NEW n \in Nat, n \in T PROVE n + 1 \in T
    <2> SUFFICES ASSUME n + 1 <= Len(s) PROVE Sums(s)[n + 1] \in Int
        OBVIOUS
    <2>1. n + 1 \in 1..Len(s) /\ (n + 1) - 1 = n /\ Sums(s)[n] \in Int
        BY <1>3
    <2>2. s[n + 1] \in Int
        BY <2>1
    <2> QED
        BY <1>1, <2>1, <2>2
<1> HIDE DEF T
<1>4. Nat \subseteq T
    BY <1>2, <1>3, InductionOnSet
<1>5. \A i \in 0..Len(s) : Sums(s)[i] \in Int
    BY <1>4 DEF T
<1> QED
    BY <1>1, <1>5

-----------------------------------------------------------------------------
(* The algebra of the two steps below. *)
LEMMA SpreadStep ==
    ASSUME NEW k \in Int, NEW X \in Int, NEW Y \in Int, NEW a \in Int, NEW b \in Int,
           NEW A \in Int, NEW B \in Int, NEW P \in Int
    PROVE  (k + 1) * (X * Y) - X * (B + b) - Y * (A + a) + (P + a * b)
              = (k * (X * Y) - X * B - Y * A + P) + (X - a) * (Y - b)
OBVIOUS

LEMMA CovarianceStep ==
    ASSUME NEW k \in Int, NEW a \in Int, NEW b \in Int,
           NEW A \in Int, NEW B \in Int, NEW P \in Int
    PROVE  (k + 1) * (P + a * b) - (A + a) * (B + b)
              = (k * P - A * B) + (k * (a * b) - a * B - b * A + P)
OBVIOUS

LEMMA ProductPositive ==
    ASSUME NEW a \in Int, NEW b \in Int, a >= 0, b >= 0
    PROVE  a * b >= 0
OBVIOUS

-----------------------------------------------------------------------------
(* The spread of the first k samples below a sample X, Y. *)
Spread(x, y, X, Y, k) ==
    k * (X * Y) - X * Sums(y)[k] - Y * Sums(x)[k] + Sums(Products(x, y))[k]

Prefix(x, y, k) == k * Sums(Products(x, y))[k] - Sums(x)[k] * Sums(y)[k]

Pair(x, y) == x \in Seq(Int) /\ y \in Seq(Int) /\ Len(x) = Len(y)

Rising(x) == \A i, j \in DOMAIN x : i <= j => x[i] <= x[j]

LEMMA ProductsTyped ==
    ASSUME NEW x, NEW y, Pair(x, y)
    PROVE  /\ Products(x, y) \in Seq(Int) /\ Len(Products(x, y)) = Len(x)
           /\ \A i \in 1..Len(x) : Products(x, y)[i] = x[i] * y[i]
<1>1. /\ x \in Seq(Int) /\ y \in Seq(Int) /\ Len(x) \in Nat
      /\ DOMAIN x = 1..Len(x) /\ DOMAIN y = 1..Len(x)
    BY DEF Pair
<1>2. \A i \in 1..Len(x) : x[i] * y[i] \in Int
    BY <1>1
<1>3. Products(x, y) \in [1..Len(x) -> Int]
    BY <1>1, <1>2 DEF Products
<1> QED
    BY <1>1, <1>3 DEF Products

(* One step of all three sums. *)
LEMMA PairSums ==
    ASSUME NEW x, NEW y, Pair(x, y), NEW k \in Nat, k + 1 <= Len(x)
    PROVE  /\ x[k + 1] \in Int /\ y[k + 1] \in Int
           /\ Sums(x)[k] \in Int /\ Sums(y)[k] \in Int /\ Sums(Products(x, y))[k] \in Int
           /\ Sums(x)[k + 1] = Sums(x)[k] + x[k + 1]
           /\ Sums(y)[k + 1] = Sums(y)[k] + y[k + 1]
           /\ Sums(Products(x, y))[k + 1] = Sums(Products(x, y))[k] + x[k + 1] * y[k + 1]
<1>1. x \in Seq(Int) /\ y \in Seq(Int) /\ Len(x) = Len(y) /\ Len(x) \in Nat
    BY DEF Pair
<1>2. k + 1 \in 1..Len(x) /\ (k + 1) - 1 = k /\ k \in 0..Len(x)
    BY <1>1
<1>3. x[k + 1] \in Int /\ y[k + 1] \in Int
    BY <1>1, <1>2
<1> DEFINE p == Products(x, y)
<1>4. p \in Seq(Int) /\ Len(p) = Len(x) /\ p[k + 1] = x[k + 1] * y[k + 1]
    BY <1>2, ProductsTyped
<1> HIDE DEF p
<1>5. ASSUME NEW s \in Seq(Int), Len(s) = Len(x)
      PROVE  Sums(s)[k] \in Int /\ Sums(s)[k + 1] = Sums(s)[k] + s[k + 1]
    BY <1>2, <1>5, SumsStep
<1>6. Sums(p)[k] \in Int /\ Sums(p)[k + 1] = Sums(p)[k] + x[k + 1] * y[k + 1]
    BY <1>4, <1>5
<1>7. /\ Sums(x)[k] \in Int /\ Sums(x)[k + 1] = Sums(x)[k] + x[k + 1]
      /\ Sums(y)[k] \in Int /\ Sums(y)[k + 1] = Sums(y)[k] + y[k + 1]
    BY <1>1, <1>5
<1> QED
    BY <1>3, <1>6, <1>7 DEF p

LEMMA PairSumsZero ==
    ASSUME NEW x, NEW y, Pair(x, y)
    PROVE  Sums(x)[0] = 0 /\ Sums(y)[0] = 0 /\ Sums(Products(x, y))[0] = 0
BY ProductsTyped, SumsStep DEF Pair

(* Each sample below X, Y adds the product of its two distances to it. *)
LEMMA SpreadGrows ==
    ASSUME NEW x, NEW y, Pair(x, y), NEW X \in Int, NEW Y \in Int,
           NEW k \in Nat, k + 1 <= Len(x)
    PROVE  /\ Spread(x, y, X, Y, k) \in Int
           /\ Spread(x, y, X, Y, k + 1)
                 = Spread(x, y, X, Y, k) + (X - x[k + 1]) * (Y - y[k + 1])
<1>1. PICK a \in Int, b \in Int, A \in Int, B \in Int, P \in Int :
        /\ a = x[k + 1] /\ b = y[k + 1]
        /\ A = Sums(x)[k] /\ B = Sums(y)[k] /\ P = Sums(Products(x, y))[k]
    BY PairSums
<1>2. /\ Sums(x)[k + 1] = A + a /\ Sums(y)[k + 1] = B + b
      /\ Sums(Products(x, y))[k + 1] = P + a * b
    BY <1>1, PairSums
<1>3. Spread(x, y, X, Y, k) = k * (X * Y) - X * B - Y * A + P
    BY <1>1 DEF Spread
<1>4. Spread(x, y, X, Y, k + 1) = (k + 1) * (X * Y) - X * (B + b) - Y * (A + a) + (P + a * b)
    BY <1>2 DEF Spread
<1>5. k * (X * Y) - X * B - Y * A + P \in Int
    OBVIOUS
<1>6. (k + 1) * (X * Y) - X * (B + b) - Y * (A + a) + (P + a * b)
         = (k * (X * Y) - X * B - Y * A + P) + (X - a) * (Y - b)
    BY SpreadStep
<1> QED
    BY <1>1, <1>3, <1>4, <1>5, <1>6

LEMMA PrefixGrows ==
    ASSUME NEW x, NEW y, Pair(x, y), NEW k \in Nat, k + 1 <= Len(x)
    PROVE  /\ Prefix(x, y, k) \in Int
           /\ Prefix(x, y, k + 1) = Prefix(x, y, k) + Spread(x, y, x[k + 1], y[k + 1], k)
<1>1. PICK a \in Int, b \in Int, A \in Int, B \in Int, P \in Int :
        /\ a = x[k + 1] /\ b = y[k + 1]
        /\ A = Sums(x)[k] /\ B = Sums(y)[k] /\ P = Sums(Products(x, y))[k]
    BY PairSums
<1>2. /\ Sums(x)[k + 1] = A + a /\ Sums(y)[k + 1] = B + b
      /\ Sums(Products(x, y))[k + 1] = P + a * b
    BY <1>1, PairSums
<1>3. Spread(x, y, a, b, k) = k * (a * b) - a * B - b * A + P
    BY <1>1 DEF Spread
<1>4. Prefix(x, y, k) = k * P - A * B
    BY <1>1 DEF Prefix
<1>7. k * P - A * B \in Int
    OBVIOUS
<1>5. Prefix(x, y, k + 1) = (k + 1) * (P + a * b) - (A + a) * (B + b)
    BY <1>2 DEF Prefix
<1>6. (k + 1) * (P + a * b) - (A + a) * (B + b)
         = (k * P - A * B) + (k * (a * b) - a * B - b * A + P)
    BY CovarianceStep
<1> QED
    BY <1>1, <1>3, <1>4, <1>5, <1>6, <1>7

(* The spread below a sample that no earlier one exceeds is not negative,   *)
(* and as large as what the first sample adds.                              *)
LEMMA SpreadPositive ==
    ASSUME NEW x, NEW y, Pair(x, y), NEW m \in 1..Len(x),
           \A i \in 1..m : x[i] <= x[m] /\ y[i] <= y[m]
    PROVE  \A k \in 0..m :
              /\ Spread(x, y, x[m], y[m], k) \in Int
              /\ Spread(x, y, x[m], y[m], k) >= 0
              /\ k > 0 => Spread(x, y, x[m], y[m], k) >= (x[m] - x[1]) * (y[m] - y[1])
<1>1. /\ x \in Seq(Int) /\ y \in Seq(Int) /\ Len(x) = Len(y) /\ Len(x) \in Nat
    BY DEF Pair
<1>2. PICK X \in Int, Y \in Int : X = x[m] /\ Y = y[m]
    BY <1>1
<1> DEFINE S(k) == Spread(x, y, X, Y, k)
           First == (X - x[1]) * (Y - y[1])
           T == {k \in Nat : k <= m => S(k) \in Int /\ S(k) >= 0 /\ (k > 0 => S(k) >= First)}
<1>3. S(0) = 0
    <2>1. Sums(x)[0] = 0 /\ Sums(y)[0] = 0 /\ Sums(Products(x, y))[0] = 0
        BY PairSumsZero
    <2>2. 0 * (X * Y) - X * 0 - Y * 0 + 0 = 0
        OBVIOUS
    <2> QED
        BY <2>1, <2>2 DEF Spread
<1>4. 0 \in T
    BY <1>3
<1>5. ASSUME NEW k \in Nat, k \in T PROVE k + 1 \in T
    <2> SUFFICES ASSUME k + 1 <= m
                 PROVE  S(k + 1) \in Int /\ S(k + 1) >= 0 /\ (k + 1 > 0 => S(k + 1) >= First)
        OBVIOUS
    <2>1. k + 1 <= Len(x) /\ k + 1 \in 1..m /\ k <= m
        BY <1>1
    <2>2. S(k) \in Int /\ S(k + 1) = S(k) + (X - x[k + 1]) * (Y - y[k + 1])
        BY <2>1, SpreadGrows
    <2>3. x[k + 1] \in Int /\ y[k + 1] \in Int /\ x[k + 1] <= X /\ y[k + 1] <= Y
        BY <1>1, <1>2, <2>1
    <2>4. PICK d \in Int : d = (X - x[k + 1]) * (Y - y[k + 1]) /\ d >= 0
        <3>1. X - x[k + 1] \in Int /\ X - x[k + 1] >= 0 /\ Y - y[k + 1] \in Int /\ Y - y[k + 1] >= 0
            BY <2>3
        <3> QED
            BY <3>1, ProductPositive
    <2> HIDE DEF S
    <2>5. S(k) >= 0 /\ (k > 0 => S(k) >= First)
        BY <1>5, <2>1
    <2>6. CASE k = 0
        <3>1. d = First
            BY <2>4, <2>6
        <3> QED
            BY <1>3, <2>2, <2>4, <2>5, <2>6, <3>1
    <2>7. CASE k # 0
        <3>1. First \in Int
            <4>1. x[1] \in Int /\ y[1] \in Int
                BY <1>1
            <4> QED
                BY <4>1
        <3> HIDE DEF First
        <3> QED
            BY <2>2, <2>4, <2>5, <2>7, <3>1
    <2> QED
        BY <2>6, <2>7
<1> HIDE DEF T, S
<1>6. Nat \subseteq T
    BY <1>4, <1>5, InductionOnSet
<1>7. \A k \in 0..m : S(k) \in Int /\ S(k) >= 0 /\ (k > 0 => S(k) >= First)
    BY <1>6 DEF T
<1> QED
    BY <1>2, <1>7 DEF S

(* Chebyshev's inequality: what rises together has no negative covariance.  *)
LEMMA RisingTogether ==
    ASSUME NEW x, NEW y, Pair(x, y), Rising(x), Rising(y)
    PROVE  \A k \in 0..Len(x) : Prefix(x, y, k) \in Int /\ Prefix(x, y, k) >= 0
<1>1. /\ x \in Seq(Int) /\ y \in Seq(Int) /\ Len(x) = Len(y) /\ Len(x) \in Nat
    BY DEF Pair
<1> DEFINE T == {k \in Nat : k <= Len(x) => Prefix(x, y, k) \in Int /\ Prefix(x, y, k) >= 0}
<1>2. 0 \in T
    <2>1. Sums(x)[0] = 0 /\ Sums(y)[0] = 0 /\ Sums(Products(x, y))[0] = 0
        BY PairSumsZero
    <2> QED
        BY <2>1 DEF Prefix
<1>3. ASSUME NEW k \in Nat, k \in T PROVE k + 1 \in T
    <2> SUFFICES ASSUME k + 1 <= Len(x)
                 PROVE  Prefix(x, y, k + 1) \in Int /\ Prefix(x, y, k + 1) >= 0
        OBVIOUS
    <2>1. k + 1 \in 1..Len(x) /\ k \in 0..(k + 1) /\ k <= Len(x)
        BY <1>1
    <2>2. \A i \in 1..(k + 1) : x[i] <= x[k + 1] /\ y[i] <= y[k + 1]
        <3>1. DOMAIN x = 1..Len(x) /\ DOMAIN y = 1..Len(x)
            BY <1>1
        <3>2. \A i \in 1..(k + 1) : i \in 1..Len(x) /\ i <= k + 1
            BY <1>1, <2>1
        <3> QED
            BY <2>1, <3>1, <3>2 DEF Rising
    <2>3. /\ Spread(x, y, x[k + 1], y[k + 1], k) \in Int
          /\ Spread(x, y, x[k + 1], y[k + 1], k) >= 0
        BY <2>1, <2>2, SpreadPositive
    <2>4. /\ Prefix(x, y, k) \in Int
          /\ Prefix(x, y, k + 1) = Prefix(x, y, k) + Spread(x, y, x[k + 1], y[k + 1], k)
        BY PrefixGrows
    <2> QED
        BY <1>3, <2>1, <2>3, <2>4
<1> HIDE DEF T
<1>4. Nat \subseteq T
    BY <1>2, <1>3, InductionOnSet
<1> QED
    BY <1>4 DEF T

(* The covariance is the last prefix. *)
LEMMA CovariancePrefix ==
    ASSUME NEW x, NEW y, Pair(x, y)
    PROVE  Covariance(x, y) = Prefix(x, y, Len(x))
<1>1. Len(Products(x, y)) = Len(x) /\ Len(x) = Len(y)
    BY ProductsTyped DEF Pair
<1> QED
    BY <1>1 DEF Covariance, Prefix, Total

(* The variance of what rises at all is positive. *)
LEMMA VariancePositive ==
    ASSUME NEW x \in Seq(Int), Rising(x), Len(x) > 0
    PROVE  /\ VarianceOf(x) \in Int
           /\ x[1] < x[Len(x)] => VarianceOf(x) > 0
<1> DEFINE n == Len(x)
<1>1. Pair(x, x) /\ n \in Nat
    BY DEF Pair
<1>2. VarianceOf(x) = Prefix(x, x, n)
    BY <1>1, CovariancePrefix DEF VarianceOf
<1>3. \A k \in 0..n : Prefix(x, x, k) \in Int /\ Prefix(x, x, k) >= 0
    BY <1>1, RisingTogether
<1>4. ASSUME x[1] < x[n] PROVE Prefix(x, x, n) > 0
    <2>1. PICK k \in Nat : n = k + 1
        BY <1>1
    <2>2. k > 0
        BY <1>4, <2>1
    <2>3. k + 1 \in 1..Len(x) /\ k \in 0..(k + 1) /\ k \in 0..n /\ k + 1 <= Len(x)
        BY <2>1
    <2>4. \A i \in 1..(k + 1) : x[i] <= x[k + 1] /\ x[i] <= x[k + 1]
        BY <2>1 DEF Rising
    <2> DEFINE d == x[k + 1] - x[1]
               S == Spread(x, x, x[k + 1], x[k + 1], k)
    <2>5. S \in Int /\ S >= d * d
        BY <1>1, <2>2, <2>3, <2>4, SpreadPositive
    <2>6. d \in Int /\ d > 0
        <3>1. x[1] \in Int /\ x[k + 1] \in Int
            BY <2>1
        <3> QED
            BY <1>4, <2>1, <3>1
    <2>7. Prefix(x, x, k + 1) = Prefix(x, x, k) + S
        BY <1>1, <2>3, PrefixGrows
    <2>8. Prefix(x, x, k) \in Int /\ Prefix(x, x, k) >= 0
        BY <1>3, <2>3
    <2> HIDE DEF d, S
    <2>9. d * d > 0
        BY <2>6
    <2>10. S > 0
        BY <2>5, <2>6, <2>9
    <2> QED
        BY <2>1, <2>5, <2>7, <2>8, <2>10
<1> QED
    BY <1>1, <1>2, <1>3, <1>4

-----------------------------------------------------------------------------
(* The history. *)

Sample == [gap : 0..MaxGap, heap : Heaps \cup {0}]

LEMMA Constants ==
    /\ Heaps \subseteq Nat /\ WindowSize \in Nat \ {0} /\ MinSamples \in Nat \ {0}
    /\ MinRSquared \in 0..100 /\ RollingThreshold \in Nat /\ TotalHeap \in Nat
    /\ OfflineTimeout \in Nat /\ MaxGap \in Nat
<1>1. {MinRSquared, RollingThreshold} \subseteq 0..100
    BY HostAssumption
<1>2. MinRSquared \in 0..100 /\ RollingThreshold \in 0..100
    BY <1>1
<1> QED
    BY <1>2, HostAssumption

LEMMA SampleTyped ==
    ASSUME NEW e \in Sample
    PROVE  e.gap \in Nat /\ e.heap \in Nat
<1>1. Heaps \subseteq Nat /\ MaxGap \in Nat
    BY Constants
<1>2. e.gap \in 0..MaxGap /\ e.heap \in Heaps \cup {0}
    BY DEF Sample
<1>3. e.gap \in Nat
    BY <1>1, <1>2
<1>4. e.heap \in Nat
    <2>1. e.heap \in Heaps => e.heap \in Nat
        BY <1>1
    <2>2. e.heap = 0 => e.heap \in Nat
        OBVIOUS
    <2>3. e.heap \in Heaps \/ e.heap = 0
        BY <1>2
    <2> QED
        BY <2>1, <2>2, <2>3
<1> QED
    BY <1>3, <1>4

Increasing(h) == \A i, j \in DOMAIN h : i <= j => h[i].heap <= h[j].heap

LEMMA GapsTyped ==
    ASSUME NEW h \in Seq(Sample)
    PROVE  /\ Gaps(h) \in Seq(Int) /\ Len(Gaps(h)) = Len(h)
           /\ \A i \in 1..Len(h) : Gaps(h)[i] >= 0
           /\ Len(h) > 0 => Gaps(h)[1] = 0
<1>1. \A i \in 1..Len(h) : h[i].gap \in Nat
    BY SampleTyped
<1>2. DOMAIN h = 1..Len(h) /\ Len(h) \in Nat
    OBVIOUS
<1>3. Gaps(h) \in [1..Len(h) -> Nat]
    BY <1>1, <1>2 DEF Gaps
<1>4. Gaps(h) \in Seq(Int) /\ Len(Gaps(h)) = Len(h)
    BY <1>2, <1>3
<1> QED
    BY <1>2, <1>3, <1>4 DEF Gaps

(* The times start at 0 and rise. *)
LEMMA TimesTyped ==
    ASSUME NEW h \in Seq(Sample)
    PROVE  /\ Times(h) \in Seq(Int) /\ Len(Times(h)) = Len(h)
           /\ Rising(Times(h))
           /\ Len(h) > 0 => Times(h)[1] = 0
<1> DEFINE g == Gaps(h)
           S == Sums(g)
           n == Len(h)
<1>1. g \in Seq(Int) /\ Len(g) = n /\ (\A i \in 1..n : g[i] >= 0) /\ (n > 0 => g[1] = 0)
    BY GapsTyped
<1>2. n \in Nat /\ DOMAIN h = 1..n
    OBVIOUS
<1>3. /\ S[0] = 0
      /\ \A i \in 1..n : S[i] = S[i - 1] + g[i]
      /\ \A i \in 0..n : S[i] \in Int
    BY <1>1, SumsStep
<1>4. Times(h) = [i \in 1..n |-> S[i]]
    BY <1>2 DEF Times
<1> HIDE DEF g, S, n
<1>5. Times(h) \in [1..n -> Int]
    BY <1>3, <1>4
<1>6. Times(h) \in Seq(Int) /\ Len(Times(h)) = n /\ DOMAIN Times(h) = 1..n
    BY <1>2, <1>5
<1>7. \A i, j \in 1..n : i <= j => S[i] <= S[j]
    <2> DEFINE T == {d \in Nat : \A i \in 1..n : i + d <= n => S[i] <= S[i + d]}
    <2>1. 0 \in T
        <3>1. \A i \in 1..n : S[i] \in Int /\ i + 0 = i
            BY <1>2, <1>3
        <3> QED
            BY <3>1
    <2>2. ASSUME NEW d \in Nat, d \in T PROVE d + 1 \in T
        <3> SUFFICES ASSUME NEW i \in 1..n, i + (d + 1) <= n PROVE S[i] <= S[i + (d + 1)]
            OBVIOUS
        <3>1. i + d <= n /\ i + (d + 1) \in 1..n /\ (i + (d + 1)) - 1 = i + d
            BY <1>2
        <3>2. S[i + (d + 1)] = S[i + d] + g[i + (d + 1)] /\ g[i + (d + 1)] >= 0
            BY <1>1, <1>3, <3>1
        <3>3. S[i] <= S[i + d]
            BY <2>2, <3>1
        <3>4. S[i] \in Int /\ S[i + d] \in Int /\ g[i + (d + 1)] \in Int
            BY <1>1, <1>2, <1>3, <3>1
        <3> QED
            BY <3>2, <3>3, <3>4
    <2> HIDE DEF T
    <2>3. Nat \subseteq T
        BY <2>1, <2>2, InductionOnSet
    <2>4. ASSUME NEW i \in 1..n, NEW j \in 1..n, i <= j PROVE S[i] <= S[j]
        <3>1. j - i \in Nat /\ i + (j - i) = j /\ i + (j - i) <= n
            BY <1>2, <2>4
        <3>2. j - i \in T
            BY <2>3, <3>1
        <3> QED
            BY <3>1, <3>2 DEF T
    <2> QED
        BY <2>4
<1>8. Rising(Times(h))
    BY <1>4, <1>6, <1>7 DEF Rising
<1>9. n > 0 => Times(h)[1] = 0
    <2> SUFFICES ASSUME n > 0 PROVE Times(h)[1] = 0
        OBVIOUS
    <2>1. 1 \in 1..n /\ 1 - 1 = 0
        BY <1>2
    <2>2. S[1] = S[0] + g[1] /\ g[1] = 0 /\ S[0] = 0
        BY <1>1, <1>3, <2>1
    <2> QED
        BY <1>4, <2>1, <2>2
<1> QED
    BY <1>6, <1>8, <1>9 DEF n

LEMMA ValuesTyped ==
    ASSUME NEW h \in Seq(Sample)
    PROVE  /\ Values(h) \in Seq(Int) /\ Len(Values(h)) = Len(h)
           /\ \A i \in 1..Len(h) : Values(h)[i] = h[i].heap
           /\ Increasing(h) => Rising(Values(h))
<1>1. \A i \in 1..Len(h) : h[i].heap \in Int
    BY SampleTyped
<1>2. DOMAIN h = 1..Len(h) /\ Len(h) \in Nat
    OBVIOUS
<1>3. Values(h) \in [1..Len(h) -> Int] /\ \A i \in 1..Len(h) : Values(h)[i] = h[i].heap
    BY <1>1, <1>2 DEF Values
<1>4. Values(h) \in Seq(Int) /\ Len(Values(h)) = Len(h) /\ DOMAIN Values(h) = 1..Len(h)
    BY <1>2, <1>3
<1> QED
    BY <1>2, <1>3, <1>4 DEF Rising, Increasing

-----------------------------------------------------------------------------
(* A heap that does not fall. *)

LEMMA MinIs ==
    ASSUME NEW S \in SUBSET Int, NEW m \in S, \A z \in S : m <= z
    PROVE  Min(S) = m
<1>1. Min(S) \in S /\ \A z \in S : Min(S) <= z
    BY DEF Min
<1>2. Min(S) \in Int /\ m \in Int /\ Min(S) <= m /\ m <= Min(S)
    BY <1>1
<1> QED
    BY <1>2

(* One sample, or none, has no variance. *)
LEMMA FewSamplesVary ==
    ASSUME NEW x \in Seq(Int), Len(x) > 0 => x[1] = 0, VarianceOf(x) # 0
    PROVE  Len(x) >= 2
<1>0. Len(x) \in Nat
    OBVIOUS
<1> SUFFICES ASSUME ~(Len(x) >= 2) PROVE VarianceOf(x) = 0
    OBVIOUS
<1>1. Pair(x, x)
    BY DEF Pair
<1>2. VarianceOf(x) = Prefix(x, x, Len(x))
    BY <1>1, CovariancePrefix DEF VarianceOf
<1>3. Prefix(x, x, 0) = 0
    <2>1. Sums(x)[0] = 0 /\ Sums(Products(x, x))[0] = 0
        BY <1>1, PairSumsZero
    <2> QED
        BY <2>1 DEF Prefix
<1>4. CASE Len(x) = 0
    BY <1>2, <1>3, <1>4
<1>5. CASE Len(x) = 1
    <2>1. Prefix(x, x, 0 + 1) = Prefix(x, x, 0) + Spread(x, x, x[0 + 1], x[0 + 1], 0)
        BY <1>1, <1>5, PrefixGrows
    <2>2. x[1] = 0
        BY <1>5
    <2>3. Spread(x, x, 0, 0, 0) = 0
        <3>1. Sums(x)[0] = 0 /\ Sums(Products(x, x))[0] = 0
            BY <1>1, PairSumsZero
        <3> QED
            BY <3>1 DEF Spread
    <2> QED
        BY <1>2, <1>3, <1>5, <2>1, <2>2, <2>3
<1>6. Len(x) = 0 \/ Len(x) = 1
    <2>1. \A n \in Nat : n = 0 \/ n = 1 \/ n >= 2
        OBVIOUS
    <2> QED
        BY <1>0, <2>1
<1> QED
    BY <1>4, <1>5, <1>6

LEMMA IncreasingIsStable ==
    ASSUME NEW h \in Seq(Sample), Increasing(h)
    PROVE  Projection(h).verdict = "stable"
<1> DEFINE x == Times(h)
           y == Values(h)
<1> SUFFICES ASSUME VarianceOf(x) # 0
             PROVE  /\ ~FitsLeak(x, y)
                    /\ ~(100 * FloorDrop(y) > RollingThreshold * TotalHeap)
    BY DEF Projection, Stable
<1>1. /\ x \in Seq(Int) /\ y \in Seq(Int) /\ Len(x) = Len(h) /\ Len(y) = Len(h)
      /\ Rising(x) /\ Rising(y) /\ (Len(x) > 0 => x[1] = 0)
    BY TimesTyped, ValuesTyped
<1> HIDE DEF x, y
<1>2. Pair(x, y)
    BY <1>1 DEF Pair
<1>3. ~FitsLeak(x, y)
    <2>1. Len(x) \in 0..Len(x)
        BY <1>1
    <2>2. Prefix(x, y, Len(x)) \in Int /\ Prefix(x, y, Len(x)) >= 0
        BY <1>1, <1>2, <2>1, RisingTogether
    <2>3. Covariance(x, y) \in Int /\ Covariance(x, y) >= 0
        BY <1>2, <2>2, CovariancePrefix
    <2> QED
        BY <2>3 DEF FitsLeak
<1>4. Len(y) >= 2 /\ Len(y) \in Nat
    BY <1>1, FewSamplesVary
<1>5. FloorDrop(y) = 0
    <2> DEFINE first == {y[i] : i \in 1..(Len(y) \div 2)}
               all == {y[i] : i \in DOMAIN y}
    <2>1. 1 \in 1..(Len(y) \div 2) /\ 1..(Len(y) \div 2) \subseteq DOMAIN y /\ 1 \in DOMAIN y
          /\ DOMAIN y = 1..Len(y)
        BY <1>1, <1>4
    <2>2. y[1] \in Int /\ \A i \in DOMAIN y : y[i] \in Int /\ y[1] <= y[i]
        <3>1. \A i \in 1..Len(y) : y[i] \in Int /\ 1 <= i
            BY <1>1
        <3> QED
            BY <1>1, <2>1, <3>1 DEF Rising
    <2>3. /\ first \subseteq Int /\ y[1] \in first /\ \A z \in first : y[1] <= z
          /\ all \subseteq Int /\ y[1] \in all /\ \A z \in all : y[1] <= z
        BY <2>1, <2>2
    <2>4. Min(first) = y[1] /\ Min(all) = y[1]
        <3> HIDE DEF first, all
        <3> QED
            BY <2>3, MinIs
    <2> QED
        BY <2>2, <2>4 DEF FloorDrop
<1>6. ~(100 * FloorDrop(y) > RollingThreshold * TotalHeap)
    <2>1. RollingThreshold \in Nat /\ TotalHeap \in Nat
        BY Constants
    <2>2. RollingThreshold * TotalHeap \in Int /\ RollingThreshold * TotalHeap >= 0
        BY <2>1, ProductPositive
    <2> QED
        BY <1>5, <2>2
<1> QED
    BY <1>3, <1>6

-----------------------------------------------------------------------------
(* A heap that falls in proportion to the time. *)

LEMMA LinearStep ==
    ASSUME NEW t \in Int, NEW b \in Int, NEW c \in Int,
           NEW p \in Int, NEW q \in Int, NEW r \in Int,
           NEW P \in Int, NEW Q \in Int, NEW R \in Int,
           t * P = c * Q - b * R, t * p = c * q - b * r
    PROVE  t * (P + p) = c * (Q + q) - b * (R + r)
OBVIOUS

(* What holds of the elements holds of the totals. *)
LEMMA LinearTotals ==
    ASSUME NEW p \in Seq(Int), NEW q \in Seq(Int), NEW r \in Seq(Int),
           Len(q) = Len(p), Len(r) = Len(p),
           NEW t \in Int, NEW b \in Int, NEW c \in Int,
           \A i \in 1..Len(p) : t * p[i] = c * q[i] - b * r[i]
    PROVE  /\ Total(p) \in Int /\ Total(q) \in Int /\ Total(r) \in Int
           /\ t * Total(p) = c * Total(q) - b * Total(r)
<1> DEFINE n == Len(p)
           T == {k \in Nat : k <= n => t * Sums(p)[k] = c * Sums(q)[k] - b * Sums(r)[k]}
<1>1. n \in Nat
    OBVIOUS
<1>2. 0 \in T
    <2>1. Sums(p)[0] = 0 /\ Sums(q)[0] = 0 /\ Sums(r)[0] = 0
        BY SumsStep
    <2>2. t * 0 = c * 0 - b * 0
        OBVIOUS
    <2> QED
        BY <2>1, <2>2
<1>3. ASSUME NEW k \in Nat, k \in T PROVE k + 1 \in T
    <2> SUFFICES ASSUME k + 1 <= n
                 PROVE  t * Sums(p)[k + 1] = c * Sums(q)[k + 1] - b * Sums(r)[k + 1]
        OBVIOUS
    <2>1. k + 1 \in 1..n /\ (k + 1) - 1 = k /\ k \in 0..n /\ k <= n
        BY <1>1
    <2>2. ASSUME NEW s \in Seq(Int), Len(s) = n
          PROVE  Sums(s)[k] \in Int /\ s[k + 1] \in Int /\ Sums(s)[k + 1] = Sums(s)[k] + s[k + 1]
        BY <2>1, <2>2, SumsStep
    <2>3. /\ Sums(p)[k] \in Int /\ p[k + 1] \in Int /\ Sums(p)[k + 1] = Sums(p)[k] + p[k + 1]
          /\ Sums(q)[k] \in Int /\ q[k + 1] \in Int /\ Sums(q)[k + 1] = Sums(q)[k] + q[k + 1]
          /\ Sums(r)[k] \in Int /\ r[k + 1] \in Int /\ Sums(r)[k + 1] = Sums(r)[k] + r[k + 1]
        BY <2>2
    <2>4. t * Sums(p)[k] = c * Sums(q)[k] - b * Sums(r)[k]
        BY <1>3, <2>1
    <2>5. t * p[k + 1] = c * q[k + 1] - b * r[k + 1]
        BY <2>1
    <2>6. PICK P \in Int, Q \in Int, R \in Int :
             P = Sums(p)[k] /\ Q = Sums(q)[k] /\ R = Sums(r)[k]
        BY <2>3
    <2>7. PICK x \in Int, y \in Int, z \in Int : x = p[k + 1] /\ y = q[k + 1] /\ z = r[k + 1]
        BY <2>3
    <2>8. t * (P + x) = c * (Q + y) - b * (R + z)
        <3>1. t * P = c * Q - b * R /\ t * x = c * y - b * z
            BY <2>4, <2>5, <2>6, <2>7
        <3> QED
            BY <3>1, LinearStep
    <2> QED
        BY <2>3, <2>6, <2>7, <2>8
<1> HIDE DEF T
<1>4. Nat \subseteq T
    BY <1>2, <1>3, InductionOnSet
<1>5. t * Sums(p)[n] = c * Sums(q)[n] - b * Sums(r)[n]
    BY <1>1, <1>4 DEF T
<1>6. n \in 0..n
    BY <1>1
<1>7. Sums(p)[n] \in Int /\ Sums(q)[n] \in Int /\ Sums(r)[n] \in Int
    BY <1>6, SumsStep
<1> QED
    BY <1>5, <1>7 DEF Total

LEMMA TotalOfOnes ==
    ASSUME NEW n \in Nat
    PROVE  /\ [i \in 1..n |-> 1] \in Seq(Int) /\ Len([i \in 1..n |-> 1]) = n
           /\ Total([i \in 1..n |-> 1]) = n
<1> DEFINE s == [i \in 1..n |-> 1]
           T == {k \in Nat : k <= n => Sums(s)[k] = k}
<1>1. s \in Seq(Int) /\ Len(s) = n /\ \A i \in 1..n : s[i] = 1
    OBVIOUS
<1> HIDE DEF s
<1>2. Sums(s)[0] = 0 /\ \A i \in 1..n : Sums(s)[i] = Sums(s)[i - 1] + s[i]
    BY <1>1, SumsStep
<1>3. 0 \in T
    BY <1>2
<1>4. ASSUME NEW k \in Nat, k \in T PROVE k + 1 \in T
    <2> SUFFICES ASSUME k + 1 <= n PROVE Sums(s)[k + 1] = k + 1
        OBVIOUS
    <2>1. k + 1 \in 1..n /\ (k + 1) - 1 = k /\ k <= n
        OBVIOUS
    <2>2. Sums(s)[k] = k /\ s[k + 1] = 1
        BY <1>1, <1>4, <2>1
    <2> QED
        BY <1>2, <2>1, <2>2
<1> HIDE DEF T
<1>5. Nat \subseteq T
    BY <1>3, <1>4, InductionOnSet
<1>6. Total(s) = n
    BY <1>1, <1>5 DEF T, Total
<1> QED
    BY <1>1, <1>6 DEF s

(* The regression of it is exact: r_value ** 2 is 1. *)
LEMMA LeakFits ==
    ASSUME NEW t \in Nat \ {0}, NEW b \in Nat \ {0},
           NEW C \in Int, NEW V \in Int, NEW W \in Int, V > 0,
           t * C = -(b * V), t * W = -(b * C)
    PROVE  C < 0 /\ C * C = V * W
<1>1. b * V > 0
    OBVIOUS
<1>2. t * C < 0
    BY <1>1
<1>3. C < 0
    BY <1>2
<1>4. t * (C * C) = C * (t * C)
    OBVIOUS
<1>5. C * (-(b * V)) = V * (-(b * C))
    OBVIOUS
<1>6. V * (t * W) = t * (V * W)
    OBVIOUS
<1>7. t * (C * C) = t * (V * W)
    BY <1>4, <1>5, <1>6
<1>8. C * C = V * W
    <2> DEFINE u == C * C
               v == V * W
    <2>1. u \in Int /\ v \in Int /\ t * u = t * v
        BY <1>7
    <2> HIDE DEF u, v
    <2>2. t * (u - v) = 0
        BY <2>1
    <2>3. u - v = 0
        BY <2>1, <2>2
    <2>4. u = v
        BY <2>1, <2>3
    <2> QED
        BY <2>4 DEF u, v
<1> QED
    BY <1>3, <1>8

LEMMA LeakIsProjected ==
    ASSUME NEW h \in Seq(Sample), NEW bytes \in Nat \ {0}, NEW time \in Nat \ {0},
           Len(h) >= MinSamples, Last(Times(h)) > 0,
           \A i \in DOMAIN Times(h) :
              (Values(h)[1] - Values(h)[i]) * time = bytes * Times(h)[i]
    PROVE  /\ Projection(h).verdict = "leak"
           /\ Projection(h).seconds * bytes = Projection(h).per * Last(Values(h)) * time
<1> DEFINE x == Times(h)
           y == Values(h)
           n == Len(h)
           ones == [i \in 1..n |-> 1]
<1>1. /\ x \in Seq(Int) /\ y \in Seq(Int) /\ Len(x) = n /\ Len(y) = n
      /\ Rising(x) /\ (n > 0 => x[1] = 0) /\ n \in Nat
    BY TimesTyped, ValuesTyped
<1>2. /\ \A i \in DOMAIN x : (y[1] - y[i]) * time = bytes * x[i]
      /\ Last(x) > 0 /\ n >= MinSamples /\ n > 0
    BY <1>1, Constants
<1>3. DOMAIN x = 1..n /\ \A i \in 1..n : x[i] \in Int /\ y[i] \in Int
    BY <1>1
<1> HIDE DEF x, y
<1>4. Pair(x, y) /\ Pair(x, x) /\ Pair(y, y)
    BY <1>1 DEF Pair
<1> DEFINE c == time * y[1]
<1>5. c \in Int /\ bytes \in Int /\ time \in Int
    <2>1. y[1] \in Int
        BY <1>1, <1>2, <1>3
    <2> QED
        BY <2>1
<1>6. ASSUME NEW i \in 1..n PROVE time * y[i] = c - bytes * x[i]
    <2>1. x[i] \in Int /\ y[i] \in Int /\ y[1] \in Int /\ (y[1] - y[i]) * time = bytes * x[i]
        <3>1. 1 \in 1..n
            BY <1>1, <1>2
        <3>2. x[i] \in Int /\ y[i] \in Int /\ y[1] \in Int
            BY <1>3, <3>1
        <3>3. (y[1] - y[i]) * time = bytes * x[i]
            BY <1>2, <1>3
        <3> QED
            BY <3>2, <3>3
    <2>2. (y[1] - y[i]) * time = time * y[1] - time * y[i]
        BY <2>1
    <2>3. time * y[1] \in Int /\ time * y[i] \in Int /\ bytes * x[i] \in Int
        BY <2>1
    <2> QED
        BY <2>1, <2>2, <2>3
<1> HIDE DEF c
<1>7. PICK A \in Int, B \in Int :
         A = Total(x) /\ B = Total(y) /\ time * B = c * n - bytes * A
    <2>1. ones \in Seq(Int) /\ Len(ones) = n /\ Total(ones) = n /\ \A i \in 1..n : ones[i] = 1
        BY <1>1, TotalOfOnes
    <2> HIDE DEF ones
    <2>2. \A i \in 1..n : time * y[i] = c * ones[i] - bytes * x[i]
        <3> SUFFICES ASSUME NEW i \in 1..n PROVE time * y[i] = c * ones[i] - bytes * x[i]
            OBVIOUS
        <3>1. ones[i] = 1 /\ c * 1 = c
            BY <1>5, <2>1
        <3> QED
            BY <1>6, <3>1
    <2>3. /\ Total(y) \in Int /\ Total(x) \in Int
          /\ time * Total(y) = c * Total(ones) - bytes * Total(x)
        <3>1. /\ Len(ones) = Len(y) /\ Len(x) = Len(y)
              /\ \A i \in 1..Len(y) : time * y[i] = c * ones[i] - bytes * x[i]
            BY <1>1, <2>1, <2>2
        <3>2. x \in Seq(Int) /\ y \in Seq(Int) /\ ones \in Seq(Int)
            BY <1>1, <2>1
        <3> QED
            BY <1>5, <3>1, <3>2, LinearTotals
    <2> QED
        BY <2>1, <2>3
<1>8. /\ Products(x, y) \in Seq(Int) /\ Len(Products(x, y)) = n
      /\ \A i \in 1..n : Products(x, y)[i] = x[i] * y[i]
      /\ Products(x, x) \in Seq(Int) /\ Len(Products(x, x)) = n
      /\ \A i \in 1..n : Products(x, x)[i] = x[i] * x[i]
      /\ Products(y, y) \in Seq(Int) /\ Len(Products(y, y)) = n
      /\ \A i \in 1..n : Products(y, y)[i] = y[i] * y[i]
    BY <1>1, <1>4, ProductsTyped
<1>9. ASSUME NEW i \in 1..n
      PROVE  /\ time * (x[i] * y[i]) = c * x[i] - bytes * (x[i] * x[i])
             /\ time * (y[i] * y[i]) = c * y[i] - bytes * (x[i] * y[i])
    <2>1. PICK u \in Int, v \in Int : u = x[i] /\ v = y[i]
        BY <1>3
    <2>2. time * v = c - bytes * u
        BY <1>6, <2>1
    <2>3. time * (u * v) = u * (time * v) /\ time * (v * v) = v * (time * v)
        OBVIOUS
    <2>4. /\ u * (c - bytes * u) = c * u - bytes * (u * u)
          /\ v * (c - bytes * u) = c * v - bytes * (u * v)
        BY <1>5
    <2> QED
        BY <2>1, <2>2, <2>3, <2>4
<1>10. PICK P \in Int, Q \in Int :
          P = Total(Products(x, y)) /\ Q = Total(Products(x, x)) /\ time * P = c * A - bytes * Q
    <2> DEFINE p == Products(x, y)
               r == Products(x, x)
    <2>1. /\ p \in Seq(Int) /\ r \in Seq(Int) /\ Len(p) = n /\ Len(r) = n
          /\ \A i \in 1..n : time * p[i] = c * x[i] - bytes * r[i]
        BY <1>8, <1>9
    <2> HIDE DEF p, r
    <2>2. /\ Total(p) \in Int /\ Total(r) \in Int
          /\ time * Total(p) = c * Total(x) - bytes * Total(r)
        BY <1>1, <1>5, <2>1, LinearTotals
    <2> QED
        BY <1>7, <2>2 DEF p, r
<1>11. PICK R \in Int : R = Total(Products(y, y)) /\ time * R = c * B - bytes * P
    <2> DEFINE p == Products(y, y)
               r == Products(x, y)
    <2>1. /\ p \in Seq(Int) /\ r \in Seq(Int) /\ Len(p) = n /\ Len(r) = n
          /\ \A i \in 1..n : time * p[i] = c * y[i] - bytes * r[i]
        BY <1>8, <1>9
    <2> HIDE DEF p, r
    <2>2. /\ Total(p) \in Int /\ Total(r) \in Int
          /\ time * Total(p) = c * Total(y) - bytes * Total(r)
        BY <1>1, <1>5, <2>1, LinearTotals
    <2> QED
        BY <1>7, <1>10, <2>2 DEF p, r
<1> DEFINE C == n * P - A * B
           V == n * Q - A * A
           W == n * R - B * B
<1>12. Covariance(x, y) = C /\ VarianceOf(x) = V /\ VarianceOf(y) = W
    BY <1>1, <1>7, <1>10, <1>11 DEF Covariance, VarianceOf
(* The covariance is that of the time with itself, up to the rate.          *)
<1>13. time * C = -(bytes * V) /\ time * W = -(bytes * C)
    <2>1. n \in Int
        BY <1>1
    <2>2. time * B = c * n - bytes * A /\ time * P = c * A - bytes * Q /\ time * R = c * B - bytes * P
        BY <1>7, <1>10, <1>11
    <2>3. /\ time * (n * P - A * B) = -(bytes * (n * Q - A * A))
          /\ time * (n * R - B * B) = -(bytes * (n * P - A * B))
        <3> HIDE DEF n
        <3>1. /\ time * (n * P - A * B) = n * (time * P) - A * (time * B)
              /\ time * (n * R - B * B) = n * (time * R) - B * (time * B)
            BY <2>1
        <3>2. /\ n * (c * A - bytes * Q) - A * (c * n - bytes * A) = -(bytes * (n * Q - A * A))
              /\ n * (c * B - bytes * P) - B * (c * n - bytes * A) = -(bytes * (n * P - A * B))
            BY <1>5, <2>1
        <3> QED
            BY <2>2, <3>1, <3>2
    <2> QED
        BY <2>3
<1>14. C \in Int /\ V \in Int /\ W \in Int
    BY <1>1
<1> HIDE DEF C, V, W
<1>15. V > 0
    <2>1. x[1] < x[Len(x)]
        BY <1>1, <1>2 DEF Last
    <2> QED
        BY <1>1, <1>2, <1>12, <2>1, VariancePositive
<1>16. C < 0 /\ C * C = V * W
    BY <1>13, <1>14, <1>15, LeakFits
<1>17. FitsLeak(x, y)
    <2>1. C * C \in Int /\ C * C >= 0 /\ MinRSquared \in 0..100
        BY <1>14, Constants
    <2>2. PICK u \in Int : u = C * C /\ u = V * W /\ u >= 0
        BY <1>16, <2>1
    <2>3. 100 * u >= MinRSquared * u
        BY <2>1, <2>2
    <2>4. 100 * C * C = 100 * u /\ MinRSquared * V * W = MinRSquared * u
        <3>1. 100 * C * C = 100 * (C * C) /\ MinRSquared * V * W = MinRSquared * (V * W)
            BY <1>14, <2>1
        <3> QED
            BY <2>2, <3>1
    <2> QED
        BY <1>12, <1>16, <2>3, <2>4 DEF FitsLeak
<1>18. Projection(h) = [verdict |-> "leak", seconds |-> Last(y) * V, per |-> -C]
    <2>1. ~(n < MinSamples \/ VarianceOf(x) = 0)
        <3>1. MinSamples \in Nat
            BY Constants
        <3> QED
            BY <1>1, <1>2, <1>12, <1>14, <1>15, <3>1
    <2> QED
        BY <1>12, <1>17, <2>1 DEF Projection, x, y
<1>19. (Last(y) * V) * bytes = (-C) * Last(y) * time
    <2>1. PICK l \in Int : l = Last(y)
        BY <1>1, <1>2, <1>3 DEF Last
    <2>2. (l * V) * bytes = l * (bytes * V)
        BY <1>14
    <2>3. (-C) * l * time = l * (-(time * C))
        BY <1>14
    <2>4. -(time * C) = bytes * V
        <3>1. time * C \in Int /\ bytes * V \in Int
            BY <1>14
        <3> QED
            BY <1>13, <3>1
    <2> QED
        BY <2>1, <2>2, <2>3, <2>4
<1> QED
    BY <1>18, <1>19 DEF y

-----------------------------------------------------------------------------
(* The inductive invariant. *)

Manager == [known : {TRUE}, heap : Heaps \cup {0}, hasKeyframe : BOOLEAN, age : 0..LongAgo]

TypeInv ==
    /\ heap \in Heaps
    /\ fell \in BOOLEAN
    /\ purged \in BOOLEAN
    /\ manager = Absent \/ manager \in Manager
    /\ silence \in 0..MaxGap
    /\ history \in Seq(Sample)
    /\ Len(history) <= WindowSize

IInv == TypeInv /\ AgeInv /\ SteadyInv

LEMMA NotAbsent == \A m \in Manager : m # Absent
BY DEF Manager, Absent

LEMMA Ages == LongAgo \in Nat /\ 0 < LongAgo /\ LongAgo = OfflineTimeout + 1
BY Constants DEF LongAgo

(* The deque has the samples before, but the oldest of a full window, and   *)
(* then the new one.                                                        *)
LEMMA WithSampleIs ==
    ASSUME NEW h \in Seq(Sample), Len(h) <= WindowSize, NEW e \in Sample
    PROVE  /\ WithSample(h, e) \in Seq(Sample)
           /\ Len(WithSample(h, e)) \in 1..WindowSize
           /\ \E d \in {0, 1} :
                 /\ Len(WithSample(h, e)) = Len(h) + 1 - d
                 /\ \A i \in 1..Len(WithSample(h, e)) :
                       WithSample(h, e)[i] = IF i + d = Len(h) + 1 THEN e ELSE h[i + d]
<1> DEFINE all == Append(h, e)
<1>1. /\ all \in Seq(Sample) /\ Len(all) = Len(h) + 1 /\ Len(h) \in Nat
      /\ \A i \in 1..(Len(h) + 1) : all[i] = IF i = Len(h) + 1 THEN e ELSE h[i]
    OBVIOUS
<1>2. WindowSize \in Nat \ {0}
    BY Constants
<1>3. WithSample(h, e) = IF Len(all) > WindowSize THEN Tail(all) ELSE all
    BY DEF WithSample
<1> HIDE DEF all
<1>4. CASE Len(all) > WindowSize
    <2>1. /\ Tail(all) \in Seq(Sample) /\ Len(Tail(all)) = Len(h)
          /\ \A i \in 1..Len(h) : Tail(all)[i] = all[i + 1]
        BY <1>1
    <2>2. \A i \in 1..Len(h) : Tail(all)[i] = IF i + 1 = Len(h) + 1 THEN e ELSE h[i + 1]
        BY <1>1, <2>1
    <2>3. Len(h) = WindowSize /\ Len(h) = Len(h) + 1 - 1
        BY <1>1, <1>2, <1>4
    <2> QED
        BY <1>2, <1>3, <1>4, <2>1, <2>2, <2>3
<1>5. CASE ~(Len(all) > WindowSize)
    <2>1. Len(all) \in 1..WindowSize /\ Len(all) = Len(h) + 1 - 0
        BY <1>1, <1>2, <1>5
    <2>2. \A i \in 1..Len(all) : all[i] = IF i + 0 = Len(h) + 1 THEN e ELSE h[i + 0]
        BY <1>1
    <2> QED
        BY <1>1, <1>3, <1>5, <2>1, <2>2
<1> QED
    BY <1>4, <1>5

LEMMA UpdatedIs ==
    ASSUME NEW m \in Manager, NEW type, NEW h \in Heaps
    PROVE  /\ Updated(m, type, h) \in Manager
           /\ Updated(m, type, h).age = 0
           /\ Updated(m, type, h).heap \in {h, m.heap}
<1>0. 0 \in 0..LongAgo
    BY Ages
<1>1. m.heap \in Heaps \cup {0} /\ m.hasKeyframe \in BOOLEAN
    BY DEF Manager
<1>2. CASE type = "keyframe"
    <2>1. Updated(m, type, h) = [m EXCEPT !.heap = h, !.hasKeyframe = TRUE, !.age = 0]
        BY <1>2 DEF Updated
    <2> QED
        BY <1>0, <1>1, <2>1 DEF Manager
<1>3. CASE type = "delta" /\ m.hasKeyframe /\ h # heap
    <2>1. Updated(m, type, h) = [m EXCEPT !.heap = h, !.age = 0]
        BY <1>3 DEF Updated
    <2> QED
        BY <1>0, <1>1, <2>1 DEF Manager
<1>4. CASE type # "keyframe" /\ ~(type = "delta" /\ m.hasKeyframe /\ h # heap)
    <2>1. Updated(m, type, h) = [m EXCEPT !.age = 0]
        BY <1>4 DEF Updated
    <2> QED
        BY <1>0, <1>1, <2>1 DEF Manager
<1> QED
    BY <1>2, <1>3, <1>4

(* One turn of the loop. *)
LEMMA Handled ==
    ASSUME TypeInv, NEW type, NEW h \in Heaps, HandlePacket(type, h)
    PROVE  /\ manager' \in Manager /\ manager' # Absent /\ manager'.age = 0
           /\ manager'.heap \in {h, IF manager = Absent THEN 0 ELSE manager.heap}
           /\ silence' = 0
           /\ history' \in Seq(Sample) /\ Len(history') \in 1..WindowSize
           /\ \E d \in {0, 1} :
                 /\ Len(history') = Len(history) + 1 - d
                 /\ \A i \in 1..Len(history') :
                       history'[i].heap = IF i + d = Len(history) + 1 THEN manager'.heap
                                          ELSE history[i + d].heap
<1>1. GetOrCreate \in Manager /\ GetOrCreate.heap = IF manager = Absent THEN 0 ELSE manager.heap
    <2>1. NewManager \in Manager /\ NewManager.heap = 0
        BY Ages DEF NewManager, Manager
    <2> QED
        BY <2>1, NotAbsent DEF GetOrCreate, TypeInv
<1>2. manager' = Updated(GetOrCreate, type, h) /\ silence' = 0
      /\ history' = WithSample(history, [gap |-> silence, heap |-> manager'.heap])
    BY DEF HandlePacket
<1>3. /\ manager' \in Manager /\ manager'.age = 0
      /\ manager'.heap \in {h, IF manager = Absent THEN 0 ELSE manager.heap}
    BY <1>1, <1>2, UpdatedIs
<1>4. manager' # Absent
    BY <1>3, NotAbsent
<1> DEFINE e == [gap |-> silence, heap |-> manager'.heap]
<1>5. e \in Sample /\ e.heap = manager'.heap
    BY <1>3 DEF Sample, Manager, TypeInv
<1> HIDE DEF e
<1>6. history' = WithSample(history, e)
    BY <1>2 DEF e
<1>7. history \in Seq(Sample) /\ Len(history) <= WindowSize
    BY DEF TypeInv
<1>8. history' \in Seq(Sample) /\ Len(history') \in 1..WindowSize
    BY <1>5, <1>6, <1>7, WithSampleIs
<1>9. PICK d \in {0, 1} :
         /\ Len(history') = Len(history) + 1 - d
         /\ \A i \in 1..Len(history') :
               history'[i] = IF i + d = Len(history) + 1 THEN e ELSE history[i + d]
    BY <1>5, <1>6, <1>7, WithSampleIs
<1>10. \A i \in 1..Len(history') :
          history'[i].heap = IF i + d = Len(history) + 1 THEN manager'.heap
                             ELSE history[i + d].heap
    BY <1>5, <1>9
<1> QED
    BY <1>2, <1>3, <1>4, <1>8, <1>9, <1>10

LEMMA InitInv == Init => IInv
<1> SUFFICES ASSUME Init PROVE IInv
    OBVIOUS
<1>1. 0 \in 0..MaxGap /\ WindowSize \in Nat
    BY Constants
<1>2. heap \in Heaps /\ manager = Absent /\ silence = 0 /\ history = <<>>
    BY DEF Init
<1>3. fell \in BOOLEAN /\ purged \in BOOLEAN
    BY DEF Init
<1>4. history \in Seq(Sample) /\ Len(history) = 0 /\ DOMAIN history = {}
    BY <1>2
<1>5. TypeInv
    BY <1>1, <1>2, <1>3, <1>4 DEF TypeInv
<1>6. AgeInv /\ SteadyInv
    BY <1>2, <1>4 DEF AgeInv, SteadyInv
<1> QED
    BY <1>5, <1>6 DEF IInv

LEMMA StepTyped == TypeInv /\ [Next]_vars => TypeInv'
<1> SUFFICES ASSUME TypeInv, [Next]_vars PROVE TypeInv'
    OBVIOUS
<1>1. CASE Cycle
    <2>1. PICK h \in Heaps, type \in {"keyframe", "delta"} :
             /\ heap' = h
             /\ fell' = (fell \/ h < heap)
             /\ HandlePacket(type, h) \/ UNCHANGED <<manager, history, silence>>
             /\ UNCHANGED purged
        BY <1>1 DEF Cycle
    <2>2. heap' \in Heaps
        BY <2>1
    <2>3. fell' \in BOOLEAN
        BY <2>1 DEF TypeInv
    <2>4. purged' \in BOOLEAN
        BY <2>1 DEF TypeInv
    <2>5. CASE HandlePacket(type, h)
        <3>1. /\ manager' \in Manager /\ silence' = 0
              /\ history' \in Seq(Sample) /\ Len(history') \in 1..WindowSize
            BY <2>5, Handled
        <3>2. silence' \in 0..MaxGap /\ Len(history') <= WindowSize
            BY <3>1, Constants
        <3> QED
            BY <2>2, <2>3, <2>4, <3>1, <3>2 DEF TypeInv
    <2>6. CASE UNCHANGED <<manager, history, silence>>
        BY <2>2, <2>3, <2>4, <2>6 DEF TypeInv
    <2> QED
        BY <2>1, <2>5, <2>6
<1>2. CASE Wait
    <2>1. /\ silence < MaxGap /\ silence' = silence + 1
          /\ UNCHANGED <<heap, fell, history, purged>>
          /\ manager' = IF manager = Absent \/ manager.age = LongAgo
                        THEN manager ELSE [manager EXCEPT !.age = @ + 1]
        BY <1>2 DEF Wait
    <2>2. silence' \in 0..MaxGap
        BY <2>1, Constants DEF TypeInv
    <2>3. manager' = Absent \/ manager' \in Manager
        <3>1. CASE manager = Absent \/ manager.age = LongAgo
            BY <2>1, <3>1 DEF TypeInv
        <3>2. CASE manager # Absent /\ manager.age # LongAgo
            <4>1. manager \in Manager /\ manager.age \in 0..LongAgo
                BY <3>2 DEF TypeInv, Manager
            <4>2. manager.age + 1 \in 0..LongAgo
                BY <3>2, <4>1, Ages
            <4>3. manager' = [manager EXCEPT !.age = manager.age + 1]
                BY <2>1, <3>2
            <4> QED
                BY <4>1, <4>2, <4>3 DEF Manager
        <3> QED
            BY <3>1, <3>2
    <2> QED
        BY <2>1, <2>2, <2>3 DEF TypeInv
<1>3. CASE Purge
    <2>1. manager' = Absent /\ purged' = TRUE /\ UNCHANGED <<heap, fell, silence, history>>
        BY <1>3 DEF Purge
    <2>2. purged' \in BOOLEAN
        BY <2>1
    <2> QED
        BY <2>1, <2>2 DEF TypeInv
<1>4. CASE UNCHANGED vars
    BY <1>4 DEF vars, TypeInv
<1> QED
    BY <1>1, <1>2, <1>3, <1>4 DEF Next

LEMMA StepAges == TypeInv /\ AgeInv /\ [Next]_vars => AgeInv'
<1> SUFFICES ASSUME TypeInv, AgeInv, [Next]_vars PROVE AgeInv'
    OBVIOUS
<1> USE DEF AgeInv
<1>1. CASE \E h \in Heaps, type \in {"keyframe", "delta"} : HandlePacket(type, h)
    <2>1. manager' # Absent /\ manager'.age = 0 /\ silence' = 0
        BY <1>1, Handled
    <2> QED
        BY <2>1, Ages
<1>2. CASE UNCHANGED <<manager, history, silence>>
    BY <1>2
<1>3. CASE Wait
    <2>1. /\ silence' = silence + 1 /\ history' = history
          /\ manager' = IF manager = Absent \/ manager.age = LongAgo
                        THEN manager ELSE [manager EXCEPT !.age = @ + 1]
        BY <1>3 DEF Wait
    <2> SUFFICES ASSUME history # <<>>
                 PROVE  IF manager' = Absent THEN silence' > OfflineTimeout
                        ELSE manager'.age = IF silence' < LongAgo THEN silence' ELSE LongAgo
        BY <2>1
    <2>2. silence \in Nat /\ OfflineTimeout \in Nat
        BY Constants DEF TypeInv
    <2>3. CASE manager = Absent
        BY <2>1, <2>2, <2>3
    <2>4. CASE manager # Absent /\ manager.age = LongAgo
        <3>1. ~(silence + 1 < LongAgo)
            BY <2>2, <2>4, Ages
        <3> QED
            BY <2>1, <2>4, <3>1
    <2>5. CASE manager # Absent /\ manager.age # LongAgo
        <3>1. manager \in Manager
            BY <2>5 DEF TypeInv
        <3>2. manager' = [manager EXCEPT !.age = manager.age + 1]
            BY <2>1, <2>5
        <3>3. manager'.age = manager.age + 1
            BY <3>1, <3>2 DEF Manager
        <3>4. manager' # Absent
            <4>1. manager.age \in 0..LongAgo
                BY <3>1 DEF Manager
            <4>2. manager.age + 1 \in 0..LongAgo
                BY <2>5, <4>1, Ages
            <4>3. manager' \in Manager
                BY <3>1, <3>2, <4>2 DEF Manager
            <4> QED
                BY <4>3, NotAbsent
        <3>5. silence < LongAgo /\ manager.age = silence
            BY <2>5
        <3>6. silence + 1 = IF silence + 1 < LongAgo THEN silence + 1 ELSE LongAgo
            BY <2>2, <3>5, Ages
        <3> QED
            BY <2>1, <3>3, <3>4, <3>5, <3>6
    <2> QED
        BY <2>3, <2>4, <2>5
<1>4. CASE Purge
    <2>1. /\ manager # Absent /\ manager.age > OfflineTimeout /\ manager' = Absent
          /\ UNCHANGED <<silence, history>>
        BY <1>4 DEF Purge
    <2> SUFFICES ASSUME history # <<>> PROVE silence > OfflineTimeout
        BY <2>1
    <2>2. silence \in Nat /\ OfflineTimeout \in Nat
        BY Constants DEF TypeInv
    <2> QED
        BY <2>1, <2>2, Ages
<1> QED
    BY <1>1, <1>2, <1>3, <1>4 DEF Next, Cycle, vars

LEMMA StepSteady == TypeInv /\ SteadyInv /\ [Next]_vars => SteadyInv'
<1> SUFFICES ASSUME TypeInv, SteadyInv, [Next]_vars, ~fell', ~purged'
             PROVE  /\ manager' = Absent => history' = <<>>
                    /\ manager' # Absent => manager'.heap <= heap'
                    /\ \A i \in DOMAIN history' : history'[i].heap <= manager'.heap
                    /\ \A i, j \in DOMAIN history' :
                          i <= j => history'[i].heap <= history'[j].heap
    BY DEF SteadyInv
<1>1. CASE Cycle
    <2>1. PICK h \in Heaps, type \in {"keyframe", "delta"} :
             /\ heap' = h
             /\ fell' = (fell \/ h < heap)
             /\ HandlePacket(type, h) \/ UNCHANGED <<manager, history, silence>>
             /\ UNCHANGED purged
        BY <1>1 DEF Cycle
    <2>2. ~fell /\ ~purged /\ ~(h < heap)
        BY <2>1
    <2>3. h \in Nat /\ heap \in Nat /\ heap <= h
        BY <2>2, Constants DEF TypeInv
    <2>4. /\ manager = Absent => history = <<>>
          /\ manager # Absent => manager.heap <= heap
          /\ \A i \in DOMAIN history : history[i].heap <= manager.heap
          /\ \A i, j \in DOMAIN history : i <= j => history[i].heap <= history[j].heap
        BY <2>2 DEF SteadyInv
    <2>5. manager # Absent => manager.heap \in Nat
        <3> SUFFICES ASSUME manager # Absent PROVE manager.heap \in Nat
            OBVIOUS
        <3>1. manager.heap \in Heaps \/ manager.heap = 0
            BY DEF TypeInv, Manager
        <3>2. manager.heap \in Heaps => manager.heap \in Nat
            BY Constants
        <3>3. manager.heap = 0 => manager.heap \in Nat
            OBVIOUS
        <3> QED
            BY <3>1, <3>2, <3>3
    <2>6. DOMAIN history = 1..Len(history) /\ Len(history) \in Nat
          /\ \A i \in DOMAIN history : history[i].heap \in Nat
        BY SampleTyped DEF TypeInv
    <2>7. CASE HandlePacket(type, h)
        <3>1. /\ manager' # Absent
              /\ manager'.heap \in {h, IF manager = Absent THEN 0 ELSE manager.heap}
              /\ history' \in Seq(Sample) /\ Len(history') \in 1..WindowSize
            BY <2>7, Handled
        <3>2. PICK d \in {0, 1} :
                 /\ Len(history') = Len(history) + 1 - d
                 /\ \A i \in 1..Len(history') :
                       history'[i].heap = IF i + d = Len(history) + 1 THEN manager'.heap
                                          ELSE history[i + d].heap
            BY <2>7, Handled
        <3>3. DOMAIN history' = 1..Len(history')
            BY <3>1
        <3>4. manager'.heap \in Nat /\ manager'.heap <= h
            BY <2>3, <2>4, <2>5, <3>1
        <3>5. \A i \in DOMAIN history : history[i].heap <= manager'.heap
            <4> SUFFICES ASSUME NEW i \in DOMAIN history PROVE history[i].heap <= manager'.heap
                OBVIOUS
            <4>1. manager # Absent
                BY <2>4, <2>6
            <4>2. history[i].heap <= manager.heap /\ manager.heap <= h
                BY <2>3, <2>4, <2>5, <4>1
            <4> QED
                BY <2>3, <2>5, <2>6, <3>1, <4>1, <4>2
        <3>6. \A i \in DOMAIN history' :
                 IF i + d = Len(history) + 1
                 THEN history'[i].heap = manager'.heap
                 ELSE i + d \in DOMAIN history /\ history'[i].heap = history[i + d].heap
            BY <2>6, <3>2, <3>3
        <3>7. \A i \in DOMAIN history' : history'[i].heap <= manager'.heap
            BY <3>4, <3>5, <3>6
        <3>8. ASSUME NEW i \in DOMAIN history', NEW j \in DOMAIN history', i <= j
              PROVE  history'[i].heap <= history'[j].heap
            <4>1. CASE j + d = Len(history) + 1
                BY <3>6, <3>7, <4>1
            <4>2. CASE j + d # Len(history) + 1
                <5>1. j + d \in DOMAIN history /\ history'[j].heap = history[j + d].heap
                    BY <3>6, <4>2
                <5>2. i + d # Len(history) + 1 /\ i + d <= j + d
                    BY <2>6, <3>3, <3>8, <5>1
                <5>3. i + d \in DOMAIN history /\ history'[i].heap = history[i + d].heap
                    BY <3>6, <5>2
                <5> QED
                    BY <2>4, <5>1, <5>2, <5>3
            <4> QED
                BY <4>1, <4>2
        <3> QED
            BY <2>1, <3>1, <3>4, <3>7, <3>8
    <2>8. CASE UNCHANGED <<manager, history, silence>>
        <3>1. manager # Absent => manager.heap <= h
            BY <2>3, <2>4, <2>5
        <3> QED
            BY <2>1, <2>4, <2>8, <3>1
    <2> QED
        BY <2>1, <2>7, <2>8
<1>2. CASE Wait
    <2>1. /\ UNCHANGED <<heap, fell, history, purged>>
          /\ manager' = IF manager = Absent \/ manager.age = LongAgo
                        THEN manager ELSE [manager EXCEPT !.age = @ + 1]
        BY <1>2 DEF Wait
    <2>2. /\ manager = Absent => manager' = Absent
          /\ manager # Absent => manager' # Absent /\ manager'.heap = manager.heap
        <3>1. CASE manager = Absent \/ manager.age = LongAgo
            BY <2>1, <3>1
        <3>2. CASE manager # Absent /\ manager.age # LongAgo
            <4>1. manager \in Manager /\ manager' = [manager EXCEPT !.age = @ + 1]
                BY <2>1, <3>2 DEF TypeInv
            <4>2. manager'.known = TRUE /\ manager'.heap = manager.heap
                BY <4>1 DEF Manager
            <4> QED
                BY <3>2, <4>2 DEF Absent
        <3> QED
            BY <3>1, <3>2
    <2>3. /\ manager = Absent => history = <<>>
          /\ manager # Absent => manager.heap <= heap
          /\ \A i \in DOMAIN history : history[i].heap <= manager.heap
          /\ \A i, j \in DOMAIN history : i <= j => history[i].heap <= history[j].heap
        BY <2>1 DEF SteadyInv
    <2>4. manager' = Absent => DOMAIN history = {}
        BY <2>2, <2>3
    <2> QED
        BY <2>1, <2>2, <2>3, <2>4
<1>3. CASE Purge
    BY <1>3 DEF Purge
<1>4. CASE UNCHANGED vars
    BY <1>4 DEF vars, SteadyInv
<1> QED
    BY <1>1, <1>2, <1>3, <1>4 DEF Next

LEMMA Inductive == Spec => []IInv
<1>1. IInv /\ [Next]_vars => IInv'
    BY StepTyped, StepAges, StepSteady DEF IInv
<1> QED
    BY <1>1, InitInv, PTL DEF Spec

-----------------------------------------------------------------------------
(* The theorems. *)

(* Every variable keeps its type, whatever the window and the timeout       *)
(* (oom_analyzer.py:44-60, device_registry.py:40-118).                      *)
THEOREM TypeCorrect == Spec => []TypeOK
<1>1. IInv => TypeOK
    <2> SUFFICES ASSUME TypeInv PROVE TypeOK
        BY DEF IInv
    <2>1. fell \in BOOLEAN /\ purged \in BOOLEAN
        BY DEF TypeInv
    <2>2. {fell, purged} \subseteq BOOLEAN
        BY <2>1
    <2>3. \A i \in DOMAIN history : history[i] \in Sample
        BY DEF TypeInv
    <2>4. heap \in Heaps /\ silence \in 0..MaxGap /\ Len(history) <= WindowSize
        BY DEF TypeInv
    <2>5. manager = Absent \/ manager \in Manager
        BY DEF TypeInv
    <2> QED
        BY <2>2, <2>3, <2>4, <2>5 DEF TypeOK, Sample, Manager
<1> QED
    BY <1>1, Inductive, PTL

(* A device whose free heap never falls raises no alarm, for every length   *)
(* of the window, every threshold and every spacing of the samples: what    *)
(* rises with the time has no negative covariance with it (Chebyshev).      *)
(* (main.py:78-82, state_manager.py:158, oom_analyzer.py:95-117.)           *)
THEOREM SteadyRaisesNoAlarm == Spec => []SteadyHeapQuiet
<1>1. IInv => SteadyHeapQuiet
    <2> SUFFICES ASSUME IInv, ~fell, ~purged PROVE Projection(history).verdict = "stable"
        BY DEF SteadyHeapQuiet
    <2>1. history \in Seq(Sample) /\ Increasing(history)
        BY DEF IInv, TypeInv, SteadyInv, Increasing
    <2> QED
        BY <2>1, IncreasingIsStable
<1> QED
    BY <1>1, Inductive, PTL

(* A heap that falls in proportion to the time is projected to the moment   *)
(* it reaches 0, for every rate and every spacing of the samples            *)
(* (oom_analyzer.py:84-107).                                                *)
THEOREM LeaksAreProjected == Spec => []LeakProjected
<1>1. IInv => LeakProjected
    <2> SUFFICES ASSUME IInv, NEW bytes \in 1..TotalHeap, NEW time \in 1..MaxGap,
                        Len(history) >= MinSamples, Last(Times(history)) > 0,
                        \A i \in DOMAIN Times(history) :
                           (Values(history)[1] - Values(history)[i]) * time
                               = bytes * Times(history)[i]
                 PROVE  /\ Projection(history).verdict = "leak"
                        /\ Projection(history).seconds * bytes
                              = Projection(history).per * Last(Values(history)) * time
        BY DEF LeakProjected
    <2>1. history \in Seq(Sample) /\ bytes \in Nat \ {0} /\ time \in Nat \ {0}
        BY Constants DEF IInv, TypeInv
    <2> QED
        BY <2>1, LeakIsProjected
<1> QED
    BY <1>1, Inductive, PTL

(* A device heard of within the timeout is in the registry, however purges  *)
(* and packets interleave (state_manager.py:144-157,                        *)
(* device_registry.py:102-118).                                             *)
THEOREM HeardStayRegistered == Spec => []HeardIsRegistered
<1>1. IInv => HeardIsRegistered
    <2> SUFFICES ASSUME IInv, history # <<>>, silence <= OfflineTimeout PROVE manager # Absent
        BY DEF HeardIsRegistered
    <2>1. silence \in Nat /\ OfflineTimeout \in Nat
        BY Constants DEF IInv, TypeInv
    <2> QED
        BY <2>1 DEF IInv, AgeInv
<1> QED
    BY <1>1, Inductive, PTL
=============================================================================
