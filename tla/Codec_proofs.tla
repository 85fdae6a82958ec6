----------------------------- MODULE Codec_proofs -----------------------------
(***************************************************************************)
(* What the wire format promises, for every snapshot the struct can hold,  *)
(* every time, every sequence number and every error on the line: the      *)
(* bytes are bytes, the host reads what the device wrote, damage within    *)
(* two neighbouring bytes is rejected but for one error, the frames are as *)
(* long as the buffers are measured for, and the crash text can be read.   *)
(*                                                                         *)
(* The order: numbers and their bits; the register of the CRC as a vector  *)
(* of bits on which a shift is linear and one to one, and the register     *)
(* over a sequence of bytes; damage; the layout of a frame; the bytes of   *)
(* a keyframe and of a delta and what their readers make of them; the      *)
(* inductive invariant; the sizes of the payloads.                         *)
(***************************************************************************)
EXTENDS Codec, FiniteSetTheorems, WellFoundedInduction, SequenceTheorems, TLAPS

-----------------------------------------------------------------------------
(* Induction over the numbers. *)

(* A set of numbers has a least element: the intervals up to each are       *)
(* finite sets, which strict inclusion orders well.                         *)
LEMMA LeastNatural ==
    ASSUME NEW T \in SUBSET Nat, T # {}
    PROVE  \E n \in T : \A m \in T : n <= m
<1> DEFINE R == StrictSubsetOrdering(Nat)
           S == FiniteSubsetsOf(Nat)
           U == {0..n : n \in T}
<1>1. IsWellFoundedOn(R, S)
    BY FS_StrictSubsetOrderingWellFounded
<1>2. U \subseteq S /\ U # {}
    <2>1. ASSUME NEW n \in T PROVE 0..n \in S
        <3>1. IsFiniteSet(0..n)
            BY FS_Interval
        <3> QED
            BY <3>1 DEF FiniteSubsetsOf
    <2> QED
        BY <2>1
<1> HIDE DEF R, S
<1>3. PICK x \in U : \A y \in U : ~(<<y, x>> \in R)
    BY <1>1, <1>2, WFMin
<1>4. PICK n \in T : x = 0..n
    BY <1>3
<1>5. ASSUME NEW m \in T, m < n PROVE FALSE
    <2>1. 0..m \subseteq 0..n /\ 0..m # 0..n
        <3>1. n \in 0..n /\ n \notin 0..m
            BY <1>5
        <3> QED
            BY <1>5, <3>1
    <2>2. <<0..m, 0..n>> \in R
        BY <2>1 DEF R, StrictSubsetOrdering
    <2> QED
        BY <1>3, <1>4, <2>2
<1> QED
    BY <1>5

(* Induction. The predicate is a set: what the theorems of the library      *)
(* state for an operator cannot be instantiated by the provers.             *)
LEMMA InductionOnSet ==
    ASSUME NEW T, 0 \in T, \A n \in Nat : n \in T => n + 1 \in T
    PROVE  Nat \subseteq T
<1> SUFFICES ASSUME Nat \ T # {} PROVE FALSE
    OBVIOUS
<1>1. PICK n \in Nat \ T : \A m \in Nat \ T : n <= m
    BY LeastNatural
<1>2. n # 0 /\ n - 1 \in Nat /\ (n - 1) + 1 = n
    BY <1>1
<1>3. n - 1 \in T
    BY <1>1, <1>2
<1> QED
    BY <1>1, <1>2, <1>3

-----------------------------------------------------------------------------
(* A loop of n turns over values of X, whose turn k is step[<<_, k>>], has the  *)
(* values f[0], ..., f[n].                                                  *)
IsLoop(X, base, step, n, f) ==
    /\ f \in [0..n -> X]
    /\ f[0] = base
    /\ \A k \in 0..(n - 1) : f[k + 1] = step[<<f[k], k + 1>>]

LEMMA LoopExists ==
    ASSUME NEW X, NEW base \in X, NEW step \in [X \X Nat -> X], NEW n \in Nat
    PROVE  \E f : IsLoop(X, base, step, n, f)
<1> DEFINE T == {m \in Nat : \E f : IsLoop(X, base, step, m, f)}
<1>1. 0 \in T
    <2>1. IsLoop(X, base, step, 0, [k \in 0..0 |-> base])
        BY DEF IsLoop
    <2> QED
        BY <2>1
<1>2. ASSUME NEW m \in Nat, m \in T PROVE m + 1 \in T
    <2>1. PICK f : IsLoop(X, base, step, m, f)
        BY <1>2
    <2> DEFINE g == [k \in 0..(m + 1) |-> IF k = m + 1 THEN step[<<f[m], m + 1>>] ELSE f[k]]
    <2>2. g \in [0..(m + 1) -> X]
        BY <2>1 DEF IsLoop
    <2>3. g[0] = base
        BY <2>1 DEF IsLoop
    <2>4. ASSUME NEW k \in 0..m PROVE g[k + 1] = step[<<g[k], k + 1>>]
        <3>1. CASE k = m
            <4>1. g[m + 1] = step[<<f[m], m + 1>>]
                OBVIOUS
            <4>2. m \in 0..(m + 1) /\ m # m + 1
                OBVIOUS
            <4>3. g[m] = f[m]
                BY <4>2
            <4> HIDE DEF g
            <4> QED
                BY <3>1, <4>1, <4>3
        <3>2. CASE k \in 0..(m - 1)
            <4>1. g[k + 1] = f[k + 1] /\ g[k] = f[k]
                BY <3>2
            <4> QED
                BY <2>1, <3>2, <4>1 DEF IsLoop
        <3> QED
            BY <3>1, <3>2
    <2> HIDE DEF g
    <2>5. 0..((m + 1) - 1) = 0..m
        OBVIOUS
    <2>6. IsLoop(X, base, step, m + 1, g)
        BY <2>2, <2>3, <2>4, <2>5 DEF IsLoop
    <2> QED
        BY <2>6
<1> HIDE DEF T
<1>3. Nat \subseteq T
    BY <1>1, <1>2, InductionOnSet
<1> QED
    BY <1>3 DEF T

-----------------------------------------------------------------------------
(* Numbers and bits. *)

IsAbove(bits, a) ==
    a = [k \in 0..16 |->
            IF k = 16 THEN 0 ELSE 2 * a[k + 1] + (IF k \in bits THEN 1 ELSE 0)]

(* a[k] is the number the bits from k on make. *)
Sums(bits, a) ==
    /\ a[16] = 0
    /\ \A k \in 0..16 : a[k] \in Nat
    /\ \A k \in 0..15 : a[k] = 2 * a[k + 1] + (IF k \in bits THEN 1 ELSE 0)
    /\ Number(bits) = a[0]

LEMMA NumberAbove ==
    ASSUME NEW bits
    PROVE  \E a : Sums(bits, a)
<1> DEFINE step == [x \in Nat \X Nat |->
                       2 * x[1] + (IF 16 - x[2] \in bits THEN 1 ELSE 0)]
<1>1. step \in [Nat \X Nat -> Nat]
    OBVIOUS
<1>2. PICK f : IsLoop(Nat, 0, step, 16, f)
    <2> HIDE DEF step
    <2> QED
        BY <1>1, LoopExists
<1> DEFINE b == [k \in 0..16 |-> f[16 - k]]
<1>3. /\ b \in [0..16 -> Nat]
      /\ b[16] = 0
    BY <1>2 DEF IsLoop
<1>4. ASSUME NEW k \in 0..15
      PROVE  b[k] = 2 * b[k + 1] + (IF k \in bits THEN 1 ELSE 0)
    <2>1. PICK m \in 0..(16 - 1) : m = 15 - k /\ m + 1 = 16 - k /\ 16 - (16 - k) = k
        OBVIOUS
    <2> HIDE DEF step
    <2>2. f[16 - k] = step[<<f[15 - k], 16 - k>>]
        BY <1>2, <2>1 DEF IsLoop
    <2>3. f[15 - k] \in Nat /\ 16 - k \in Nat
        BY <1>2, <2>1 DEF IsLoop
    <2>4. step[<<f[15 - k], 16 - k>>] = 2 * f[15 - k] + (IF k \in bits THEN 1 ELSE 0)
        BY <2>1, <2>3 DEF step
    <2>5. b[k] = f[16 - k] /\ b[k + 1] = f[15 - k]
        OBVIOUS
    <2> QED
        BY <2>2, <2>4, <2>5
<1> HIDE DEF b
<1>5. IsAbove(bits, b)
    BY <1>3, <1>4 DEF IsAbove
<1> DEFINE a == CHOOSE g : IsAbove(bits, g)
<1>6. Number(bits) = a[0]
    BY DEF Number, IsAbove
<1>7. IsAbove(bits, a)
    BY <1>5
<1> HIDE DEF a
<1>8. a[16] = 0 /\ a = [k \in 0..16 |-> a[k]]
    BY <1>7 DEF IsAbove
<1>9. ASSUME NEW k \in 0..15
      PROVE  a[k] = 2 * a[k + 1] + (IF k \in bits THEN 1 ELSE 0)
    BY <1>7 DEF IsAbove
<1>10. ASSUME NEW k \in 0..15, a[k + 1] \in Nat PROVE a[k] \in Nat
    BY <1>9, <1>10
<1>11. a[15] \in Nat /\ a[14] \in Nat /\ a[13] \in Nat /\ a[12] \in Nat
    BY <1>8, <1>10
<1>12. a[11] \in Nat /\ a[10] \in Nat /\ a[9] \in Nat /\ a[8] \in Nat
    BY <1>10, <1>11
<1>13. a[7] \in Nat /\ a[6] \in Nat /\ a[5] \in Nat /\ a[4] \in Nat
    BY <1>10, <1>12
<1>14. a[3] \in Nat /\ a[2] \in Nat /\ a[1] \in Nat /\ a[0] \in Nat
    BY <1>10, <1>13
<1>15. \A k \in 0..16 : a[k] \in Nat
    BY <1>8, <1>11, <1>12, <1>13, <1>14
<1> QED
    BY <1>6, <1>8, <1>9, <1>15 DEF Sums

LEMMA SumsStep ==
    ASSUME NEW d, NEW x, Sums(d, x), NEW k \in 0..15, NEW j \in 1..16, j = k + 1
    PROVE  /\ x[j] \in Nat
           /\ k \in d => x[k] = 2 * x[j] + 1
           /\ k \notin d => x[k] = 2 * x[j]
<1>1. j \in 0..16
    OBVIOUS
<1>2. PICK p \in Nat : p = x[j]
    BY <1>1 DEF Sums
<1>3. x[k] = 2 * x[k + 1] + (IF k \in d THEN 1 ELSE 0)
    BY DEF Sums
<1> QED
    BY <1>2, <1>3

(* A number has its bits for itself alone. *)
LEMMA NumberInjective ==
    ASSUME NEW b \in SUBSET (0..15), NEW c \in SUBSET (0..15), Number(b) = Number(c)
    PROVE  b = c
<1>1. PICK x : Sums(b, x)
    BY NumberAbove
<1>2. PICK y : Sums(c, y)
    BY NumberAbove
<1> DEFINE T == {k \in Nat : k <= 16 => /\ x[k] = y[k]
                                       /\ \A j \in 0..(k - 1) : j \in b <=> j \in c}
<1>3. 0 \in T
    <2>1. x[0] = y[0]
        BY <1>1, <1>2 DEF Sums
    <2> QED
        BY <2>1
<1>4. ASSUME NEW n \in Nat, n \in T PROVE n + 1 \in T
    <2> SUFFICES ASSUME n + 1 <= 16
                 PROVE  /\ x[n + 1] = y[n + 1]
                        /\ \A j \in 0..((n + 1) - 1) : j \in b <=> j \in c
        OBVIOUS
    <2>1. n \in 0..15 /\ n + 1 \in 0..16 /\ x[n] = y[n]
        BY <1>4
    <2>2. PICK m \in 1..16 : m = n + 1
        BY <2>1
    <2>3. /\ x[m] \in Nat
          /\ n \in b => x[n] = 2 * x[m] + 1
          /\ n \notin b => x[n] = 2 * x[m]
        BY <1>1, <2>1, <2>2, SumsStep
    <2>4. /\ y[m] \in Nat
          /\ n \in c => y[n] = 2 * y[m] + 1
          /\ n \notin c => y[n] = 2 * y[m]
        BY <1>2, <2>1, <2>2, SumsStep
    <2>5. PICK p \in Nat, q \in Nat : p = x[m] /\ q = y[m]
        BY <2>3, <2>4
    <2>6. p = q /\ (n \in b <=> n \in c)
        BY <2>1, <2>3, <2>4, <2>5
    <2>7. \A j \in 0..((n + 1) - 1) : j = n \/ j \in 0..(n - 1)
        OBVIOUS
    <2>8. \A j \in 0..(n - 1) : j \in b <=> j \in c
        BY <1>4, <2>1
    <2> QED
        BY <2>2, <2>5, <2>6, <2>7, <2>8
<1> HIDE DEF T
<1>5. 16 \in T
    BY <1>3, <1>4, InductionOnSet
<1>6. \A j \in 0..15 : j \in b <=> j \in c
    BY <1>5 DEF T
<1> QED
    BY <1>6

LEMMA SumsOfByte ==
    ASSUME NEW d, d \cap (8..15) = {}, NEW x, Sums(d, x)
    PROVE  x[8] = 0
<1>1. ASSUME NEW k \in 8..15, NEW j \in 9..16, j = k + 1, x[j] = 0 PROVE x[k] = 0
    <2>1. k \in 0..15 /\ j \in 1..16 /\ k \notin d
        OBVIOUS
    <2>2. x[k] = 2 * x[j]
        BY <1>1, <2>1, SumsStep
    <2> QED
        BY <1>1, <2>2
<1>2. x[15] = 0 /\ x[14] = 0 /\ x[13] = 0 /\ x[12] = 0
    BY <1>1 DEF Sums
<1> QED
    BY <1>1, <1>2

LEMMA LowByteOfNumber ==
    ASSUME NEW d \in SUBSET (0..15), NEW x, Sums(d, x)
    PROVE  Number(d) = Number(d \cap (0..7)) + 256 * x[8]
<1>1. PICK y : Sums(d \cap (0..7), y)
    BY NumberAbove
<1>2. (d \cap (0..7)) \cap (8..15) = {}
    OBVIOUS
<1>4. y[8] = 0
    BY <1>1, <1>2, SumsOfByte
<1>5. PICK h \in Nat : h = x[8]
    BY DEF Sums
<1>6. ASSUME NEW k \in 0..7, NEW j \in 1..8, j = k + 1,
             NEW p \in Nat, NEW q \in Nat, q = 2 * p, x[j] = y[j] + p
      PROVE  x[k] = y[k] + q
    <2>1. k \in 0..15 /\ j \in 1..16 /\ (k \in d <=> k \in d \cap (0..7))
        OBVIOUS
    <2>2. /\ x[j] \in Nat
          /\ k \in d => x[k] = 2 * x[j] + 1
          /\ k \notin d => x[k] = 2 * x[j]
        BY <1>6, <2>1, SumsStep
    <2>3. /\ y[j] \in Nat
          /\ k \in d => y[k] = 2 * y[j] + 1
          /\ k \notin d => y[k] = 2 * y[j]
        BY <1>1, <1>6, <2>1, SumsStep
    <2> QED
        BY <1>6, <2>2, <2>3
<1>7. x[7] = y[7] + 2 * h
    BY <1>4, <1>5, <1>6
<1>8. x[6] = y[6] + 4 * h
    BY <1>6, <1>7
<1>9. x[5] = y[5] + 8 * h
    BY <1>6, <1>8
<1>10. x[4] = y[4] + 16 * h
    BY <1>6, <1>9
<1>11. x[3] = y[3] + 32 * h
    BY <1>6, <1>10
<1>12. x[2] = y[2] + 64 * h
    BY <1>6, <1>11
<1>13. x[1] = y[1] + 128 * h
    BY <1>6, <1>12
<1>14. x[0] = y[0] + 256 * h
    BY <1>6, <1>13
<1> QED
    BY <1>1, <1>5, <1>14 DEF Sums

(* A word is its low byte and 256 times its high byte. *)
LEMMA NumberSplit ==
    ASSUME NEW b \in SUBSET (0..15), NEW c \in SUBSET (0..15), b \ (0..7) = c \ (0..7)
    PROVE  \E h \in Nat : /\ Number(b) = Number(b \cap (0..7)) + 256 * h
                          /\ Number(c) = Number(c \cap (0..7)) + 256 * h
<1>1. PICK x : Sums(b, x)
    BY NumberAbove
<1>2. PICK y : Sums(c, y)
    BY NumberAbove
<1>3. ASSUME NEW k \in 8..15, x[k + 1] = y[k + 1] PROVE x[k] = y[k]
    <2>1. k \in b <=> k \in b \ (0..7)
        OBVIOUS
    <2>2. k \in c <=> k \in c \ (0..7)
        OBVIOUS
    <2>3. k \in b <=> k \in c
        BY <2>1, <2>2
    <2>4. k \in 0..15
        OBVIOUS
    <2>5. x[k] = 2 * x[k + 1] + (IF k \in b THEN 1 ELSE 0)
        BY <1>1, <2>4 DEF Sums
    <2>6. y[k] = 2 * y[k + 1] + (IF k \in c THEN 1 ELSE 0)
        BY <1>2, <2>4 DEF Sums
    <2> QED
        BY <1>3, <2>3, <2>5, <2>6
<1>4. x[15] = y[15] /\ x[14] = y[14] /\ x[13] = y[13] /\ x[12] = y[12]
    BY <1>1, <1>2, <1>3 DEF Sums
<1>5. x[11] = y[11] /\ x[10] = y[10] /\ x[9] = y[9] /\ x[8] = y[8]
    BY <1>3, <1>4
<1>6. Number(b) = Number(b \cap (0..7)) + 256 * x[8]
    BY <1>1, LowByteOfNumber
<1>7. Number(c) = Number(c \cap (0..7)) + 256 * y[8]
    BY <1>2, LowByteOfNumber
<1>8. x[8] \in Nat
    BY <1>1 DEF Sums
<1> QED
    BY <1>5, <1>6, <1>7, <1>8

(* A byte is the number of its bits. *)
LEMMA NumberOfByte ==
    ASSUME NEW b \in SUBSET (0..7)
    PROVE  Number(b) \in 0..255
<1>1. PICK x : Sums(b, x)
    BY NumberAbove
<1>4. x[8] = 0
    <2>1. b \cap (8..15) = {}
        OBVIOUS
    <2> QED
        BY <1>1, <2>1, SumsOfByte
<1>5. ASSUME NEW k \in 0..7, NEW j \in 1..8, j = k + 1
      PROVE  x[k] \in Nat /\ x[j] \in Nat /\ x[k] <= 2 * x[j] + 1
    <2>1. k \in 0..15 /\ j \in 1..16
        OBVIOUS
    <2>2. /\ x[j] \in Nat
          /\ k \in b => x[k] = 2 * x[j] + 1
          /\ k \notin b => x[k] = 2 * x[j]
        BY <1>1, <1>5, <2>1, SumsStep
    <2> QED
        BY <2>2
<1>6. x[7] <= 1 /\ x[6] <= 3 /\ x[5] <= 7 /\ x[4] <= 15
    BY <1>4, <1>5
<1>7. x[3] <= 31 /\ x[2] <= 63 /\ x[1] <= 127 /\ x[0] <= 255
    BY <1>5, <1>6
<1>8. x[0] \in Nat
    BY <1>1 DEF Sums
<1>9. Number(b) = x[0]
    BY <1>1 DEF Sums
<1> QED
    BY <1>7, <1>8, <1>9

LEMMA Halving ==
    ASSUME NEW n \in Nat
    PROVE  /\ n \div 2 \in Nat
           /\ n % 2 \in {0, 1}
           /\ n = 2 * (n \div 2) + (n % 2)
OBVIOUS

LEMMA ByteHasBits ==
    ASSUME NEW v \in 0..255
    PROVE  \E b \in SUBSET (0..7) : Number(b) = v
<1> DEFINE step == [x \in Nat \X Nat |-> x[1] \div 2]
<1>1. step \in [Nat \X Nat -> Nat]
    BY Halving
<1>2. PICK f : IsLoop(Nat, v, step, 8, f)
    <2> HIDE DEF step
    <2>1. v \in Nat /\ 8 \in Nat
        OBVIOUS
    <2> QED
        BY <1>1, <2>1, LoopExists
<1>3. f[0] = v /\ \A k \in 0..8 : f[k] \in Nat
    BY <1>2 DEF IsLoop
<1>4. ASSUME NEW k \in 0..7
      PROVE  f[k] = 2 * f[k + 1] + (f[k] % 2) /\ f[k] % 2 \in {0, 1}
    <2>1. f[k] \in Nat /\ k + 1 \in Nat /\ k \in 0..(8 - 1)
        BY <1>3
    <2>2. f[k + 1] = step[<<f[k], k + 1>>]
        <3> HIDE DEF step
        <3> QED
            BY <1>2, <2>1 DEF IsLoop
    <2>3. f[k + 1] = f[k] \div 2
        BY <2>1, <2>2
    <2> QED
        BY <2>1, <2>3, Halving
<1>5. ASSUME NEW k \in 0..7, NEW j \in 1..8, j = k + 1
      PROVE  f[k] \in Nat /\ f[j] \in Nat /\ 2 * f[j] <= f[k]
    <2>1. f[k] = 2 * f[k + 1] + (f[k] % 2) /\ f[k] % 2 \in {0, 1}
        BY <1>4
    <2>2. f[j] \in Nat /\ f[k] \in Nat
        BY <1>3
    <2> QED
        BY <1>5, <2>1, <2>2
<1>6. f[1] <= 127 /\ f[2] <= 63 /\ f[3] <= 31 /\ f[4] <= 15
    BY <1>3, <1>5
<1>7. f[5] <= 7 /\ f[6] <= 3 /\ f[7] <= 1 /\ f[8] = 0
    BY <1>5, <1>6
<1> DEFINE b == {k \in 0..7 : f[k] % 2 = 1}
<1>8. \A k \in 0..15 : k \in b <=> k \in 0..7 /\ f[k] % 2 = 1
    OBVIOUS
<1> HIDE DEF b
<1>9. PICK x : Sums(b, x)
    BY NumberAbove
<1>10. x[8] = 0
    <2>1. b \cap (8..15) = {}
        BY DEF b
    <2> QED
        BY <1>9, <2>1, SumsOfByte
<1>13. ASSUME NEW k \in 0..7, NEW j \in 1..8, j = k + 1, x[j] = f[j] PROVE x[k] = f[k]
    <2>1. k \in 0..15 /\ j \in 1..16
        OBVIOUS
    <2>2. /\ k \in b => x[k] = 2 * x[j] + 1
          /\ k \notin b => x[k] = 2 * x[j]
        BY <1>9, <1>13, <2>1, SumsStep
    <2>3. f[k] = 2 * f[j] + (f[k] % 2) /\ f[k] % 2 \in {0, 1}
        BY <1>4, <1>13
    <2>4. f[j] \in Nat
        BY <1>3, <2>1
    <2> QED
        BY <1>8, <1>13, <2>1, <2>2, <2>3, <2>4
<1>14. x[7] = f[7] /\ x[6] = f[6] /\ x[5] = f[5] /\ x[4] = f[4]
    BY <1>7, <1>10, <1>13
<1>15. x[3] = f[3] /\ x[2] = f[2] /\ x[1] = f[1] /\ x[0] = f[0]
    BY <1>13, <1>14
<1>16. Number(b) = v /\ b \in SUBSET (0..7)
    BY <1>3, <1>9, <1>15 DEF Sums, b
<1> QED
    BY <1>16

LEMMA BitsOfByte ==
    ASSUME NEW v \in 0..255
    PROVE  Bits[v] \in SUBSET (0..7) /\ Number(Bits[v]) = v
BY ByteHasBits DEF Bits

LEMMA BitsOfNumber ==
    ASSUME NEW b \in SUBSET (0..7)
    PROVE  Bits[Number(b)] = b
<1>1. Bits[Number(b)] \in SUBSET (0..7) /\ Number(Bits[Number(b)]) = Number(b)
    BY NumberOfByte, BitsOfByte
<1> QED
    BY <1>1, NumberInjective

-----------------------------------------------------------------------------
(* The register of the CRC: a vector of 16 bits, on which a shift is        *)
(* linear and one to one.                                                   *)

Words16 == SUBSET (0..15)

LEMMA InXor ==
    ASSUME NEW a, NEW b, NEW x
    PROVE  x \in Xor(a, b) <=> ~(x \in a <=> x \in b)
BY Zenon DEF Xor

LEMMA InShift ==
    ASSUME NEW c \in Words16, NEW x
    PROVE  x \in CrcShift(c) <=>
              /\ x \in 0..15
              /\ ~((x \in 1..15 /\ x - 1 \in c) <=> (15 \in c /\ x \in {0, 5, 12}))
<1> DEFINE a == {bit + 1 : bit \in c \ {15}}
           p == IF 15 \in c THEN CrcPoly ELSE {}
<1>1. x \in a <=> x \in 1..15 /\ x - 1 \in c
    <2>1. ASSUME x \in a PROVE x \in 1..15 /\ x - 1 \in c
        <3>1. PICK bit \in c \ {15} : x = bit + 1
            BY <2>1
        <3>2. bit \in 0..14
            BY <3>1 DEF Words16
        <3> QED
            BY <3>1, <3>2
    <2>2. ASSUME x \in 1..15, x - 1 \in c PROVE x \in a
        <3>1. x - 1 \in c \ {15} /\ x = (x - 1) + 1
            BY <2>2
        <3> QED
            BY <3>1
    <2> QED
        BY <2>1, <2>2
<1>2. x \in p <=> 15 \in c /\ x \in {0, 5, 12}
    BY DEF CrcPoly
<1>3. x \in CrcShift(c) <=> ~(x \in a <=> x \in p)
    <2>1. CrcShift(c) = Xor(a, p)
        BY DEF CrcShift
    <2> HIDE DEF a, p
    <2> QED
        BY <2>1, InXor
<1> HIDE DEF a, p
<1>4. x \in {0, 5, 12} => x \in 0..15
    OBVIOUS
<1>5. x \in 1..15 => x \in 0..15
    OBVIOUS
<1> QED
    BY <1>1, <1>2, <1>3, <1>4, <1>5

LEMMA XorType ==
    ASSUME NEW a \in Words16, NEW b \in Words16
    PROVE  Xor(a, b) \in Words16
BY DEF Xor, Words16

LEMMA ShiftType ==
    ASSUME NEW c \in Words16
    PROVE  CrcShift(c) \in Words16
BY InShift DEF Words16

LEMMA ShiftLinear ==
    ASSUME NEW a \in Words16, NEW b \in Words16
    PROVE  CrcShift(Xor(a, b)) = Xor(CrcShift(a), CrcShift(b))
<1>1. ASSUME NEW x PROVE x \in CrcShift(Xor(a, b)) <=> x \in Xor(CrcShift(a), CrcShift(b))
    <2>1. x \in CrcShift(Xor(a, b)) <=>
              /\ x \in 0..15
              /\ ~(/\ x \in 1..15
                   /\ x - 1 \in Xor(a, b)
                   <=> 15 \in Xor(a, b) /\ x \in {0, 5, 12})
        BY XorType, InShift
    <2>2. x - 1 \in Xor(a, b) <=> ~(x - 1 \in a <=> x - 1 \in b)
        BY InXor
    <2>3. 15 \in Xor(a, b) <=> ~(15 \in a <=> 15 \in b)
        BY InXor
    <2>4. x \in Xor(CrcShift(a), CrcShift(b)) <=> ~(x \in CrcShift(a) <=> x \in CrcShift(b))
        BY InXor
    <2>5. x \in CrcShift(a) <=>
              /\ x \in 0..15
              /\ ~((x \in 1..15 /\ x - 1 \in a) <=> (15 \in a /\ x \in {0, 5, 12}))
        BY InShift
    <2>6. x \in CrcShift(b) <=>
              /\ x \in 0..15
              /\ ~((x \in 1..15 /\ x - 1 \in b) <=> (15 \in b /\ x \in {0, 5, 12}))
        BY InShift
    <2> QED
        BY <2>1, <2>2, <2>3, <2>4, <2>5, <2>6
<1> QED
    BY <1>1

LEMMA ShiftInjective ==
    ASSUME NEW a \in Words16, NEW b \in Words16, CrcShift(a) = CrcShift(b)
    PROVE  a = b
<1>1. 15 \in a <=> 15 \in b
    <2>1. 0 \in CrcShift(a) <=> 15 \in a
        BY InShift
    <2>2. 0 \in CrcShift(b) <=> 15 \in b
        BY InShift
    <2> QED
        BY <2>1, <2>2
<1>2. ASSUME NEW x \in 0..14 PROVE x \in a <=> x \in b
    <2>1. x + 1 \in 0..15 /\ x + 1 \in 1..15 /\ (x + 1) - 1 = x
        OBVIOUS
    <2>2. x + 1 \in CrcShift(a) <=> ~(x \in a <=> (15 \in a /\ x + 1 \in {0, 5, 12}))
        BY <2>1, InShift
    <2>3. x + 1 \in CrcShift(b) <=> ~(x \in b <=> (15 \in b /\ x + 1 \in {0, 5, 12}))
        BY <2>1, InShift
    <2> QED
        BY <1>1, <2>2, <2>3
<1>3. \A x \in 0..15 : x = 15 \/ x \in 0..14
    OBVIOUS
<1>4. \A x \in 0..15 : x \in a <=> x \in b
    BY <1>1, <1>2, <1>3
<1> QED
    BY <1>4 DEF Words16

(* The sixteen bits after a shift *)
LEMMA ShiftBits ==
    ASSUME NEW c \in Words16, NEW d, d = CrcShift(c)
    PROVE  /\ 0 \in d <=> 15 \in c
           /\ 1 \in d <=> 0 \in c
           /\ 2 \in d <=> 1 \in c
           /\ 3 \in d <=> 2 \in c
           /\ 4 \in d <=> 3 \in c
           /\ 5 \in d <=> ~(4 \in c <=> 15 \in c)
           /\ 6 \in d <=> 5 \in c
           /\ 7 \in d <=> 6 \in c
           /\ 8 \in d <=> 7 \in c
           /\ 9 \in d <=> 8 \in c
           /\ 10 \in d <=> 9 \in c
           /\ 11 \in d <=> 10 \in c
           /\ 12 \in d <=> ~(11 \in c <=> 15 \in c)
           /\ 13 \in d <=> 12 \in c
           /\ 14 \in d <=> 13 \in c
           /\ 15 \in d <=> 14 \in c
BY InShift

(* The eight shifts of one byte *)
Eight(c) ==
    CrcShift(CrcShift(CrcShift(CrcShift(CrcShift(CrcShift(CrcShift(CrcShift(c))))))))

LEMMA EightType ==
    ASSUME NEW c \in Words16
    PROVE  Eight(c) \in Words16
BY ShiftType DEF Eight

LEMMA EightLinear ==
    ASSUME NEW a \in Words16, NEW b \in Words16
    PROVE  Eight(Xor(a, b)) = Xor(Eight(a), Eight(b))
BY ShiftType, ShiftLinear DEF Eight

LEMMA EightInjective ==
    ASSUME NEW a \in Words16, NEW b \in Words16, Eight(a) = Eight(b)
    PROVE  a = b
BY ShiftType, ShiftInjective DEF Eight

High(byte) == {bit + 8 : bit \in Bits[byte]}

LEMMA CrcByteIsEight ==
    ASSUME NEW crc \in Words16, NEW byte \in 0..255
    PROVE  /\ High(byte) \in SUBSET (8..15)
           /\ CrcByte(crc, byte) = Eight(Xor(crc, High(byte)))
           /\ CrcByte(crc, byte) \in Words16
<1> DEFINE IsIt(g) == g = [k \in 0..8 |-> IF k = 0 THEN Xor(crc, High(byte))
                                          ELSE CrcShift(g[k - 1])]
           start == Xor(crc, High(byte))
           step == [x \in Words16 \X Nat |-> CrcShift(x[1])]
<1>1. High(byte) \in SUBSET (8..15)
    BY BitsOfByte DEF High
<1>2. start \in Words16
    BY <1>1, XorType DEF Words16
<1>3. step \in [Words16 \X Nat -> Words16]
    BY ShiftType
<1>4. PICK f : IsLoop(Words16, start, step, 8, f)
    <2> HIDE DEF start, step
    <2> QED
        BY <1>2, <1>3, LoopExists
<1>5. ASSUME NEW k \in 0..8 PROVE f[k] = IF k = 0 THEN start ELSE CrcShift(f[k - 1])
    <2>1. CASE k = 0
        BY <1>4, <2>1 DEF IsLoop
    <2>2. CASE k # 0
        <3>1. PICK m \in 0..(8 - 1) : m = k - 1 /\ m + 1 = k
            BY <2>2
        <3>2. f[m + 1] = step[<<f[m], m + 1>>]
            <4> HIDE DEF step
            <4> QED
                BY <1>4, <3>1 DEF IsLoop
        <3>3. f[m] \in Words16 /\ m + 1 \in Nat
            BY <1>4, <3>1 DEF IsLoop
        <3> QED
            BY <2>2, <3>1, <3>2, <3>3
    <2> QED
        BY <2>1, <2>2
<1>6. IsIt(f)
    <2> HIDE DEF start, step
    <2>1. f = [k \in 0..8 |-> f[k]]
        BY <1>4 DEF IsLoop
    <2> QED
        BY <1>5, <2>1 DEF start
<1> DEFINE g == CHOOSE h : IsIt(h)
<1>7. CrcByte(crc, byte) = g[8]
    BY DEF CrcByte, High
<1> HIDE DEF IsIt
<1>8. IsIt(g)
    BY <1>6
<1> HIDE DEF g
<1>9. g[0] = start /\ \A k \in 1..8 : g[k] = CrcShift(g[k - 1])
    BY <1>8 DEF IsIt
<1>10. g[8] = Eight(start)
    BY <1>9 DEF Eight
<1> QED
    BY <1>1, <1>2, <1>7, <1>10, EightType

LEMMA EightSteps ==
    ASSUME NEW d \in Words16
    PROVE  \E s1, s2, s3, s4, s5, s6, s7 \in Words16 :
              /\ s1 = CrcShift(d) /\ s2 = CrcShift(s1) /\ s3 = CrcShift(s2)
              /\ s4 = CrcShift(s3) /\ s5 = CrcShift(s4) /\ s6 = CrcShift(s5)
              /\ s7 = CrcShift(s6) /\ Eight(d) = CrcShift(s7)
BY ShiftType, Zenon DEF Eight

(* What eight shifts make of a high byte *)
LEMMA EightBits ==
    ASSUME NEW d \in SUBSET (8..15), NEW e, e = Eight(d)
    PROVE  /\ 0 \in e <=> ~(8 \in d <=> 12 \in d)
           /\ 1 \in e <=> ~(9 \in d <=> 13 \in d)
           /\ 2 \in e <=> ~(10 \in d <=> 14 \in d)
           /\ 3 \in e <=> ~(11 \in d <=> 15 \in d)
           /\ 4 \in e <=> 12 \in d
           /\ 5 \in e <=> ~(13 \in d <=> ~(8 \in d <=> 12 \in d))
           /\ 6 \in e <=> ~(14 \in d <=> ~(9 \in d <=> 13 \in d))
           /\ 7 \in e <=> ~(15 \in d <=> ~(10 \in d <=> 14 \in d))
           /\ 8 \in e <=> ~(11 \in d <=> 15 \in d)
           /\ 9 \in e <=> 12 \in d
           /\ 10 \in e <=> 13 \in d
           /\ 11 \in e <=> 14 \in d
           /\ 12 \in e <=> ~(15 \in d <=> ~(8 \in d <=> 12 \in d))
           /\ 13 \in e <=> ~(9 \in d <=> 13 \in d)
           /\ 14 \in e <=> ~(10 \in d <=> 14 \in d)
           /\ 15 \in e <=> ~(11 \in d <=> 15 \in d)
<1>1. d \in Words16
    BY DEF Words16
<1>2. PICK s1 \in Words16, s2 \in Words16, s3 \in Words16, s4 \in Words16,
           s5 \in Words16, s6 \in Words16, s7 \in Words16 :
              /\ s1 = CrcShift(d) /\ s2 = CrcShift(s1) /\ s3 = CrcShift(s2)
              /\ s4 = CrcShift(s3) /\ s5 = CrcShift(s4) /\ s6 = CrcShift(s5)
              /\ s7 = CrcShift(s6) /\ Eight(d) = CrcShift(s7)
    BY <1>1, EightSteps
<1>3. /\ 0 \notin d /\ 1 \notin d /\ 2 \notin d /\ 3 \notin d
      /\ 4 \notin d /\ 5 \notin d /\ 6 \notin d /\ 7 \notin d
    OBVIOUS
<1> QED
    BY <1>1, <1>2, <1>3, ShiftBits

(* Only zero leaves the low byte of the register zero. *)
LEMMA EightLow ==
    ASSUME NEW d \in SUBSET (8..15), Eight(d) \cap (0..7) = {}
    PROVE  d = {}
<1>1. PICK e : e = Eight(d)
    OBVIOUS
<1>2. /\ 0 \notin e /\ 1 \notin e /\ 2 \notin e /\ 3 \notin e
      /\ 4 \notin e /\ 5 \notin e /\ 6 \notin e /\ 7 \notin e
    BY <1>1
<1>3. /\ 8 \notin d /\ 9 \notin d /\ 10 \notin d /\ 11 \notin d
      /\ 12 \notin d /\ 13 \notin d /\ 14 \notin d /\ 15 \notin d
    BY <1>1, <1>2, EightBits
<1> QED
    BY <1>3

(* One byte, 137, leaves the high byte of the register zero; the low byte   *)
(* is then 161.                                                             *)
LEMMA EightHigh ==
    ASSUME NEW d \in SUBSET (8..15), d # {}
    PROVE  /\ Eight(d) \in SUBSET (0..7) => d = {8, 11, 15}
           /\ d = {8, 11, 15} => Eight(d) = {0, 5, 7}
<1>1. PICK e : e = Eight(d)
    OBVIOUS
<1>2. ASSUME e \in SUBSET (0..7) PROVE d = {8, 11, 15}
    <2>1. /\ 8 \notin e /\ 9 \notin e /\ 10 \notin e /\ 11 \notin e
          /\ 12 \notin e /\ 13 \notin e /\ 14 \notin e /\ 15 \notin e
        BY <1>2
    <2>2. /\ 9 \notin d /\ 10 \notin d /\ 12 \notin d /\ 13 \notin d /\ 14 \notin d
          /\ 8 \in d <=> 15 \in d
          /\ 11 \in d <=> 15 \in d
        BY <1>1, <2>1, EightBits
    <2>3. \A i \in 8..15 : \/ i = 8 \/ i = 9 \/ i = 10 \/ i = 11
                          \/ i = 12 \/ i = 13 \/ i = 14 \/ i = 15
        OBVIOUS
    <2>4. \A i \in d : i = 8 \/ i = 11 \/ i = 15
        BY <2>2, <2>3
    <2>5. 15 \in d
        BY <2>2, <2>4
    <2>6. 8 \in d /\ 11 \in d
        BY <2>2, <2>5
    <2> QED
        BY <2>4, <2>5, <2>6
<1>3. ASSUME d = {8, 11, 15} PROVE e = {0, 5, 7}
    <2>1. /\ 8 \in d /\ 11 \in d /\ 15 \in d
          /\ 9 \notin d /\ 10 \notin d /\ 12 \notin d /\ 13 \notin d /\ 14 \notin d
        BY <1>3
    <2>2. /\ 0 \in e /\ 5 \in e /\ 7 \in e
          /\ 1 \notin e /\ 2 \notin e /\ 3 \notin e /\ 4 \notin e /\ 6 \notin e
        BY <1>1, <2>1, EightBits
    <2>3. /\ 8 \notin e /\ 9 \notin e /\ 10 \notin e /\ 11 \notin e
          /\ 12 \notin e /\ 13 \notin e /\ 14 \notin e /\ 15 \notin e
        BY <1>1, <2>1, EightBits
    <2>4. e \in Words16
        BY <1>1, EightType DEF Words16
    <2>5. \A x \in 0..15 : \/ x = 0 \/ x = 1 \/ x = 2 \/ x = 3 \/ x = 4 \/ x = 5 \/ x = 6
                          \/ x = 7 \/ x = 8 \/ x = 9 \/ x = 10 \/ x = 11 \/ x = 12
                          \/ x = 13 \/ x = 14 \/ x = 15
        OBVIOUS
    <2>6. \A x \in e : x = 0 \/ x = 5 \/ x = 7
        BY <2>2, <2>3, <2>4, <2>5 DEF Words16
    <2> QED
        BY <2>2, <2>6
<1> QED
    BY <1>1, <1>2, <1>3

LEMMA XorFacts ==
    ASSUME NEW a, NEW b, NEW c
    PROVE  /\ Xor(Xor(a, b), Xor(a, c)) = Xor(b, c)
           /\ Xor(Xor(a, b), b) = a
           /\ Xor(Xor(a, b), c) = Xor(a, Xor(b, c))
           /\ Xor(a, b) = Xor(a, c) => b = c
           /\ Xor(a, b) = {} <=> a = b
           /\ Xor(a, b) = a <=> b = {}
BY Zenon DEF Xor

LEMMA HighType ==
    ASSUME NEW byte \in 0..255
    PROVE  High(byte) \in SUBSET (8..15) /\ High(byte) \in Words16
<1>1. High(byte) \in SUBSET (8..15)
    BY ONLY BitsOfByte, Z3 DEF High
<1>2. \A i \in 8..15 : i \in 0..15
    OBVIOUS
<1> QED
    BY <1>1, <1>2 DEF Words16

(* The register after a byte tells the register before it. *)
LEMMA CrcByteInjective ==
    ASSUME NEW a \in Words16, NEW b \in Words16, NEW byte \in 0..255,
           CrcByte(a, byte) = CrcByte(b, byte)
    PROVE  a = b
<1>1. Eight(Xor(a, High(byte))) = Eight(Xor(b, High(byte)))
    BY CrcByteIsEight
<1>2. High(byte) \in Words16
    BY HighType
<1>3. Xor(a, High(byte)) = Xor(b, High(byte))
    BY <1>1, <1>2, XorType, EightInjective
<1>4. Xor(Xor(a, High(byte)), High(byte)) = a /\ Xor(Xor(b, High(byte)), High(byte)) = b
    BY XorFacts
<1> QED
    BY <1>3, <1>4

LEMMA HighInjective ==
    ASSUME NEW v \in 0..255, NEW w \in 0..255, High(v) = High(w)
    PROVE  v = w
<1>1. Bits[v] \in SUBSET (0..7) /\ Bits[w] \in SUBSET (0..7)
    BY BitsOfByte
<1>2. ASSUME NEW i \in 0..7 PROVE i \in Bits[v] <=> i \in Bits[w]
    <2>1. i + 8 \in High(v) <=> i \in Bits[v]
        BY <1>1 DEF High
    <2>2. i + 8 \in High(w) <=> i \in Bits[w]
        BY <1>1 DEF High
    <2> QED
        BY <2>1, <2>2
<1>3. Bits[v] = Bits[w]
    BY <1>1, <1>2
<1> QED
    BY <1>3, BitsOfByte

SameAfterTwo(r, v, w, x, y) == CrcByte(CrcByte(r, v), w) = CrcByte(CrcByte(r, x), y)

(* The register after two bytes tells the two.                              *)
LEMMA TwoBytes ==
    ASSUME NEW r \in Words16, NEW v \in 0..255, NEW w \in 0..255,
           NEW x \in 0..255, NEW y \in 0..255, SameAfterTwo(r, v, w, x, y)
    PROVE  v = x /\ w = y
<1> DEFINE p == CrcByte(r, v)
           q == CrcByte(r, x)
           d == Xor(High(v), High(x))
<1>1. /\ p \in Words16 /\ q \in Words16 /\ r \in Words16
      /\ High(v) \in Words16 /\ High(w) \in Words16
      /\ High(x) \in Words16 /\ High(y) \in Words16
    BY CrcByteIsEight, HighType
<1>2. p = Eight(Xor(r, High(v))) /\ q = Eight(Xor(r, High(x)))
    BY CrcByteIsEight
<1>3. Eight(Xor(p, High(w))) = Eight(Xor(q, High(y)))
    <2>1. CrcByte(p, w) = CrcByte(q, y)
        BY DEF SameAfterTwo
    <2> HIDE DEF p, q
    <2>2. CrcByte(p, w) = Eight(Xor(p, High(w)))
        BY <1>1, CrcByteIsEight
    <2>3. CrcByte(q, y) = Eight(Xor(q, High(y)))
        BY <1>1, CrcByteIsEight
    <2> QED
        BY <2>1, <2>2, <2>3
<1> HIDE DEF p, q
<1>4. Xor(p, High(w)) = Xor(q, High(y))
    BY <1>1, <1>3, XorType, EightInjective
<1>5. Xor(p, q) = Eight(d)
    <2>1. Xor(p, q) = Eight(Xor(Xor(r, High(v)), Xor(r, High(x))))
        BY <1>1, <1>2, XorType, EightLinear
    <2> QED
        BY <2>1, XorFacts
<1>6. Xor(p, q) = Xor(High(w), High(y))
    <2>1. ASSUME NEW i PROVE i \in Xor(p, q) <=> i \in Xor(High(w), High(y))
        <3>1. ~(i \in p <=> i \in High(w)) <=> ~(i \in q <=> i \in High(y))
            <4>1. i \in Xor(p, High(w)) <=> ~(i \in p <=> i \in High(w))
                BY InXor
            <4>2. i \in Xor(q, High(y)) <=> ~(i \in q <=> i \in High(y))
                BY InXor
            <4> QED
                BY <1>4, <4>1, <4>2
        <3>2. i \in Xor(p, q) <=> ~(i \in p <=> i \in q)
            BY InXor
        <3>3. i \in Xor(High(w), High(y)) <=> ~(i \in High(w) <=> i \in High(y))
            BY InXor
        <3> QED
            BY <3>1, <3>2, <3>3
    <2> QED
        BY <2>1
<1>7. d \in SUBSET (8..15) /\ Xor(High(w), High(y)) \cap (0..7) = {}
    <2>1. /\ High(v) \in SUBSET (8..15) /\ High(w) \in SUBSET (8..15)
          /\ High(x) \in SUBSET (8..15) /\ High(y) \in SUBSET (8..15)
        BY HighType
    <2>2. \A i \in 8..15 : i \notin 0..7
        OBVIOUS
    <2> QED
        BY <2>1, <2>2 DEF Xor
<1>8. d = {}
    BY <1>5, <1>6, <1>7, EightLow
<1>9. v = x
    <2>1. High(v) = High(x)
        BY <1>8, XorFacts
    <2> QED
        BY <2>1, HighInjective
<1>10. Xor(p, High(w)) = Xor(p, High(y))
    BY <1>2, <1>4, <1>9
<1>11. w = y
    <2>1. High(w) = High(y)
        BY <1>10, XorFacts
    <2> QED
        BY <2>1, HighInjective
<1> QED
    BY <1>9, <1>11
-----------------------------------------------------------------------------
(* The register over a sequence of bytes.                                   *)

IsRegister(bytes, r) ==
    /\ r \in [0..Len(bytes) -> Words16]
    /\ r[0] = CrcInit
    /\ \A k \in 0..(Len(bytes) - 1) : r[k + 1] = CrcByte(r[k], bytes[k + 1])

(* step of a table whose row from holds what the turns after from have made *)
(* of every register                                                        *)
TurnOf(bytes) ==
    [x \in [0..Len(bytes) -> [Words16 -> Words16]] \X Nat |->
        [from \in 0..Len(bytes) |->
            IF x[2] \in 1..Len(bytes) /\ x[2] > from
            THEN [crc \in Words16 |-> CrcByte(x[1][from][crc], bytes[x[2]])]
            ELSE x[1][from]]]

Same == [crc \in Words16 |-> crc]

(* turns[to][from][crc]: the register crc after the turns from+1, ..., to   *)
AreTurns(bytes, turns) ==
    /\ \A to, from \in 0..Len(bytes) : turns[to][from] \in [Words16 -> Words16]
    /\ \A to, from \in 0..Len(bytes) : to <= from => turns[to][from] = Same
    /\ \A to, from \in 0..Len(bytes), next \in 1..Len(bytes) :
          next = to + 1 /\ from <= to =>
             turns[next][from] = [crc \in Words16 |-> CrcByte(turns[to][from][crc], bytes[next])]

LEMMA TurnsExist ==
    ASSUME NEW bytes \in Seq(0..255)
    PROVE  \E turns : AreTurns(bytes, turns)
<1> DEFINE n == Len(bytes)
           X == [0..n -> [Words16 -> Words16]]
           base == [from \in 0..n |-> Same]
           step == TurnOf(bytes)
<1>0. ASSUME NEW k \in 1..Len(bytes) PROVE bytes[k] \in 0..255
    BY ElementOfSeq
<1>1. n \in Nat /\ base \in X
    BY DEF Same
<1>2. step \in [X \X Nat -> X]
    <2>1. ASSUME NEW x \in X, NEW k \in Nat
          PROVE  [from \in 0..n |-> IF k \in 1..n /\ k > from
                                    THEN [crc \in Words16 |-> CrcByte(x[from][crc], bytes[k])]
                                    ELSE x[from]] \in X
        <3>1. ASSUME NEW from \in 0..n, k \in 1..n
              PROVE  [crc \in Words16 |-> CrcByte(x[from][crc], bytes[k])] \in [Words16 -> Words16]
            <4>1. bytes[k] \in 0..255
                BY <1>0, <3>1
            <4>2. x[from] \in [Words16 -> Words16]
                OBVIOUS
            <4>3. ASSUME NEW crc \in Words16 PROVE CrcByte(x[from][crc], bytes[k]) \in Words16
                <5>1. x[from][crc] \in Words16
                    BY <4>2
                <5> QED
                    BY <4>1, <5>1, CrcByteIsEight
            <4> QED
                BY <4>3
        <3>2. ASSUME NEW from \in 0..n
              PROVE  (IF k \in 1..n /\ k > from
                      THEN [crc \in Words16 |-> CrcByte(x[from][crc], bytes[k])]
                      ELSE x[from]) \in [Words16 -> Words16]
            <4>1. x[from] \in [Words16 -> Words16]
                OBVIOUS
            <4> QED
                BY <3>1, <4>1
        <3> QED
            BY <3>2
    <2> QED
        BY <2>1 DEF TurnOf
<1>3. PICK turns : IsLoop(X, base, step, n, turns)
    <2> HIDE DEF X, base, step, n
    <2> QED
        BY <1>1, <1>2, LoopExists
<1>4. /\ \A to \in 0..n : turns[to] \in X
      /\ turns[0] = base
    <2> HIDE DEF X, base, step, n
    <2> QED
        BY <1>3 DEF IsLoop
<1>5. ASSUME NEW to \in 0..n, NEW next \in 1..n, next = to + 1
      PROVE  turns[next] = step[<<turns[to], next>>]
    <2>1. to \in 0..(n - 1)
        BY <1>5
    <2> HIDE DEF X, base, step, n
    <2> QED
        BY <1>3, <1>5, <2>1 DEF IsLoop
<1>6. ASSUME NEW to \in 0..n, NEW next \in 1..n, next = to + 1, NEW from \in 0..n
      PROVE  turns[next][from] =
                IF next > from
                THEN [crc \in Words16 |-> CrcByte(turns[to][from][crc], bytes[next])]
                ELSE turns[to][from]
    <2>1. PICK x \in X : x = turns[to]
        BY <1>4
    <2>2. turns[next] = step[<<x, next>>]
        BY <1>5, <1>6, <2>1
    <2>3. step[<<x, next>>] =
            [fr \in 0..n |->
                IF next \in 1..n /\ next > fr
                THEN [crc \in Words16 |-> CrcByte(x[fr][crc], bytes[next])]
                ELSE x[fr]]
        <3>1. next \in Nat
            OBVIOUS
        <3> QED
            BY <2>1, <3>1 DEF TurnOf
    <2> HIDE DEF step
    <2> QED
        BY <2>1, <2>2, <2>3
<1> HIDE DEF step
<1>7. ASSUME NEW from \in 0..n PROVE \A to \in 0..n : to <= from => turns[to][from] = Same
    <2> DEFINE T == {m \in Nat : m \in 0..n /\ m <= from => turns[m][from] = Same}
    <2>1. 0 \in T
        BY <1>4
    <2>2. ASSUME NEW m \in Nat, m \in T PROVE m + 1 \in T
        <3> SUFFICES ASSUME m + 1 \in 0..n, m + 1 <= from PROVE turns[m + 1][from] = Same
            OBVIOUS
        <3>1. m \in 0..n /\ m <= from /\ m + 1 \in 1..n /\ ~(m + 1 > from)
            BY <1>1
        <3>2. PICK next \in 1..n : next = m + 1
            BY <3>1
        <3>3. turns[next][from] = turns[m][from]
            BY <1>6, <3>1, <3>2
        <3> QED
            BY <2>2, <3>1, <3>2, <3>3
    <2> HIDE DEF T
    <2>3. Nat \subseteq T
        BY <2>1, <2>2, InductionOnSet
    <2> QED
        BY <1>1, <2>3 DEF T
<1>8. ASSUME NEW to \in 0..n, NEW from \in 0..n, NEW next \in 1..n, next = to + 1, from <= to
      PROVE  turns[next][from] = [crc \in Words16 |-> CrcByte(turns[to][from][crc], bytes[next])]
    <2>1. next > from
        BY <1>8
    <2> QED
        BY <1>6, <1>8, <2>1
<1>9. ASSUME NEW to \in 0..n, NEW from \in 0..n PROVE turns[to][from] \in [Words16 -> Words16]
    BY <1>4
<1> QED
    BY <1>7, <1>8, <1>9 DEF AreTurns
LEMMA TurnsCompose ==
    ASSUME NEW bytes \in Seq(0..255), NEW turns, AreTurns(bytes, turns),
           NEW from \in 0..Len(bytes), NEW mid \in 0..Len(bytes), from <= mid,
           NEW crc \in Words16
    PROVE  \A to \in 0..Len(bytes) :
              mid <= to => turns[to][from][crc] = turns[to][mid][turns[mid][from][crc]]
<1> DEFINE n == Len(bytes)
           T == {m \in Nat : m \in 0..n /\ mid <= m =>
                                turns[m][from][crc] = turns[m][mid][turns[mid][from][crc]]}
<1>0. n \in Nat
    OBVIOUS
<1>1. turns[mid][from][crc] \in Words16
    <2>1. turns[mid][from] \in [Words16 -> Words16]
        BY DEF AreTurns
    <2> QED
        BY <2>1
<1>2. turns[mid][mid][turns[mid][from][crc]] = turns[mid][from][crc]
    <2>1. turns[mid][mid] = Same
        BY DEF AreTurns
    <2> QED
        BY <1>1, <2>1 DEF Same
<1>3. 0 \in T
    <2> SUFFICES ASSUME mid <= 0
                 PROVE  turns[0][from][crc] = turns[0][mid][turns[mid][from][crc]]
        OBVIOUS
    <2>1. mid = 0
        OBVIOUS
    <2> QED
        BY <1>2, <2>1
<1>4. ASSUME NEW m \in Nat, m \in T PROVE m + 1 \in T
    <2> SUFFICES ASSUME m + 1 \in 0..n, mid <= m + 1
                 PROVE  turns[m + 1][from][crc] = turns[m + 1][mid][turns[mid][from][crc]]
        OBVIOUS
    <2>1. m \in 0..n /\ m + 1 \in 1..n
        BY <1>0
    <2>2. CASE mid = m + 1
        BY <1>2, <2>2
    <2>3. CASE mid <= m
        <3>1. PICK next \in 1..n : next = m + 1
            BY <2>1
        <3>2. turns[next][from] = [c \in Words16 |-> CrcByte(turns[m][from][c], bytes[next])]
            <4>1. from <= m
                BY <2>1, <2>3
            <4> QED
                BY <2>1, <3>1, <4>1 DEF AreTurns
        <3>3. turns[next][mid] = [c \in Words16 |-> CrcByte(turns[m][mid][c], bytes[next])]
            BY <2>1, <2>3, <3>1 DEF AreTurns
        <3>4. turns[m][from][crc] = turns[m][mid][turns[mid][from][crc]]
            BY <1>4, <2>1, <2>3
        <3>5. turns[next][from][crc] = CrcByte(turns[m][from][crc], bytes[next])
            BY <3>2
        <3>6. turns[next][mid][turns[mid][from][crc]]
                 = CrcByte(turns[m][mid][turns[mid][from][crc]], bytes[next])
            BY <1>1, <3>3
        <3> QED
            BY <3>1, <3>4, <3>5, <3>6
    <2> QED
        BY <2>1, <2>2, <2>3
<1> HIDE DEF T
<1>5. Nat \subseteq T
    BY <1>3, <1>4, InductionOnSet
<1> QED
    BY <1>5 DEF T

(* The table of CrcOver, half by half *)
IsOver(bytes, over) ==
    over = [turns \in (0..Len(bytes)) \X (0..Len(bytes)) |->
            LET from == turns[1]  to == turns[2]  mid == (from + to) \div 2 IN
            [crc \in SUBSET (0..15) |->
                CASE to <= from    -> crc
                  [] to = from + 1 -> CrcByte(crc, bytes[to])
                  [] OTHER         -> over[<<mid, to>>][over[<<from, mid>>][crc]]]]

LEMMA Middle ==
    ASSUME NEW from \in Nat, NEW to \in Nat, to > from + 1
    PROVE  /\ (from + to) \div 2 \in Nat
           /\ from < (from + to) \div 2
           /\ (from + to) \div 2 < to
<1>1. PICK s \in Nat : s = from + to
    OBVIOUS
<1>2. s \div 2 \in Nat /\ s % 2 \in {0, 1} /\ s = 2 * (s \div 2) + (s % 2)
    BY Halving
<1>3. PICK h \in Nat, r \in {0, 1} : h = s \div 2 /\ s = 2 * h + r
    BY <1>2
<1>4. from < h /\ h < to
    BY <1>1, <1>3
<1> QED
    BY <1>1, <1>3, <1>4

LEMMA OverExists ==
    ASSUME NEW bytes \in Seq(0..255), NEW turns, AreTurns(bytes, turns)
    PROVE  IsOver(bytes, [x \in (0..Len(bytes)) \X (0..Len(bytes)) |-> turns[x[2]][x[1]]])
<1> DEFINE n == Len(bytes)
           over == [x \in (0..n) \X (0..n) |-> turns[x[2]][x[1]]]
           Right(from, to) ==
              [crc \in Words16 |->
                CASE to <= from    -> crc
                  [] to = from + 1 -> CrcByte(crc, bytes[to])
                  [] OTHER         -> over[<<(from + to) \div 2, to>>]
                                         [over[<<from, (from + to) \div 2>>][crc]]]
<1>0. n \in Nat
    OBVIOUS
<1>1. ASSUME NEW from \in 0..n, NEW to \in 0..n
      PROVE  turns[to][from] = Right(from, to)
    <2>1. CASE to <= from
        <3>1. turns[to][from] = Same
            BY <2>1 DEF AreTurns
        <3>2. Right(from, to) = Same
            <4>0. ~(to = from + 1)
                BY <2>1
            <4> HIDE DEF over
            <4>1. \A crc \in Words16 : Right(from, to)[crc] = crc
                BY ONLY <2>1, <4>0
            <4> QED
                BY <2>1, <4>1, Zenon DEF Same
        <3> QED
            BY ONLY <3>1, <3>2
    <2>2. CASE to = from + 1
        <3>1. to \in 1..n /\ ~(to <= from)
            BY <2>2
        <3>2. turns[to][from] = [crc \in Words16 |-> CrcByte(turns[from][from][crc], bytes[to])]
            BY <2>2, <3>1 DEF AreTurns
        <3>3. turns[from][from] = Same
            BY DEF AreTurns
        <3>4. turns[to][from] = [crc \in Words16 |-> CrcByte(crc, bytes[to])]
            BY <3>2, <3>3 DEF Same
        <3> QED
            BY <2>2, <3>1, <3>4
    <2>3. CASE to > from + 1
        <3>1. PICK mid \in 0..n : mid = (from + to) \div 2 /\ from < mid /\ mid < to
            BY <1>0, <2>3, Middle
        <3>2. ASSUME NEW crc \in Words16
              PROVE  turns[to][from][crc] = turns[to][mid][turns[mid][from][crc]]
            <4>1. from <= mid /\ mid <= to
                BY <3>1
            <4> QED
                BY <4>1, TurnsCompose
        <3>3. turns[to][from] = [crc \in Words16 |-> turns[to][from][crc]]
            BY DEF AreTurns
        <3>4. over[<<mid, to>>] = turns[to][mid] /\ over[<<from, mid>>] = turns[mid][from]
            OBVIOUS
        <3> HIDE DEF over
        <3>5. turns[to][from] = [crc \in Words16 |-> over[<<mid, to>>][over[<<from, mid>>][crc]]]
            BY <3>2, <3>3, <3>4
        <3>6. ~(to <= from) /\ to # from + 1
            BY <2>3
        <3> QED
            BY <3>1, <3>5, <3>6
    <2>4. to <= from \/ to = from + 1 \/ to > from + 1
        BY <1>0
    <2> HIDE DEF Right
    <2> QED
        BY <2>1, <2>2, <2>3, <2>4
<1>2. over = [x \in (0..n) \X (0..n) |-> Right(x[1], x[2])]
    <2>1. \A x \in (0..n) \X (0..n) : x[1] \in 0..n /\ x[2] \in 0..n
        OBVIOUS
    <2>2. \A x \in (0..n) \X (0..n) : turns[x[2]][x[1]] = Right(x[1], x[2])
        <3> HIDE DEF Right
        <3> QED
            BY <1>1, <2>1
    <2> HIDE DEF Right
    <2> QED
        BY <2>2
<1> HIDE DEF n
<1> QED
    BY <1>2, Zenon DEF IsOver, Words16, n

OverRow(bytes, over, from, to) ==
    [crc \in Words16 |->
        CASE to <= from    -> crc
          [] to = from + 1 -> CrcByte(crc, bytes[to])
          [] OTHER         -> over[<<(from + to) \div 2, to>>]
                                 [over[<<from, (from + to) \div 2>>][crc]]]

LEMMA OverAt ==
    ASSUME NEW bytes, NEW over, IsOver(bytes, over),
           NEW from \in 0..Len(bytes), NEW to \in 0..Len(bytes)
    PROVE  over[<<from, to>>] =
              OverRow(bytes, over, from, to)
<1> DEFINE D == (0..Len(bytes)) \X (0..Len(bytes))
           Row(x) == [crc \in SUBSET (0..15) |->
                       CASE x[2] <= x[1]    -> crc
                         [] x[2] = x[1] + 1 -> CrcByte(crc, bytes[x[2]])
                         [] OTHER           -> over[<<(x[1] + x[2]) \div 2, x[2]>>]
                                                 [over[<<x[1], (x[1] + x[2]) \div 2>>][crc]]]
<1>1. over = [x \in D |-> Row(x)]
    BY Zenon DEF IsOver
<1>2. <<from, to>> \in D
    OBVIOUS
<1> HIDE DEF D, Row
<1>3. over[<<from, to>>] = Row(<<from, to>>)
    BY <1>1, <1>2
<1> QED
    BY <1>3 DEF Row, OverRow, Words16

LEMMA OverSame ==
    ASSUME NEW bytes, NEW over, IsOver(bytes, over),
           NEW from \in 0..Len(bytes), NEW to \in 0..Len(bytes), to <= from
    PROVE  over[<<from, to>>] = [crc \in Words16 |-> crc]
<1> DEFINE row == over[<<from, to>>]
<1>1. row = OverRow(bytes, over, from, to)
    BY OverAt
<1> HIDE DEF row
<1>2. row = [crc \in Words16 |-> crc]
    BY <1>1 DEF OverRow
<1> QED
    BY <1>2 DEF row

LEMMA OverNext ==
    ASSUME NEW bytes, NEW over, IsOver(bytes, over),
           NEW from \in 0..Len(bytes), NEW to \in 0..Len(bytes), to = from + 1
    PROVE  over[<<from, to>>] = [crc \in Words16 |-> CrcByte(crc, bytes[to])]
<1> DEFINE row == over[<<from, to>>]
<1>1. row = OverRow(bytes, over, from, to)
    BY OverAt
<1>2. ~(to <= from)
    OBVIOUS
<1> HIDE DEF row
<1>3. row = [crc \in Words16 |-> CrcByte(crc, bytes[to])]
    BY <1>1, <1>2 DEF OverRow
<1> QED
    BY <1>3 DEF row

LEMMA OverHalves ==
    ASSUME NEW bytes, NEW over, IsOver(bytes, over),
           NEW from \in 0..Len(bytes), NEW to \in 0..Len(bytes), to > from + 1,
           NEW mid, mid = (from + to) \div 2
    PROVE  over[<<from, to>>] =
              [crc \in Words16 |-> over[<<mid, to>>][over[<<from, mid>>][crc]]]
<1> DEFINE row == over[<<from, to>>]
           rest(c) == over[<<mid, to>>][c]
           first(c) == over[<<from, mid>>][c]
<1>1. row = [crc \in Words16 |->
                 CASE to <= from    -> crc
                   [] to = from + 1 -> CrcByte(crc, bytes[to])
                   [] OTHER         -> rest(first(crc))]
    <2>1. row = OverRow(bytes, over, from, to)
        BY OverAt
    <2> QED
        BY <2>1 DEF OverRow
<1>2. ~(to <= from) /\ to # from + 1
    OBVIOUS
<1> HIDE DEF row, rest, first
<1>3. row = [crc \in Words16 |-> rest(first(crc))]
    BY <1>1, <1>2
<1> QED
    BY <1>3 DEF row, rest, first

LEMMA OverIsTurns ==
    ASSUME NEW bytes \in Seq(0..255), NEW turns, AreTurns(bytes, turns),
           NEW over, IsOver(bytes, over)
    PROVE  over[<<0, Len(bytes)>>] = turns[Len(bytes)][0]
<1> DEFINE n == Len(bytes)
           table == [x \in (0..n) \X (0..n) |-> turns[x[2]][x[1]]]
           T == {w \in Nat : \A from, to \in 0..n :
                               to <= from + w => over[<<from, to>>] = turns[to][from]}
<1>0. n \in Nat
    OBVIOUS
<1>1. IsOver(bytes, table)
    BY OverExists
<1>2. ASSUME NEW from \in 0..n, NEW to \in 0..n PROVE table[<<from, to>>] = turns[to][from]
    OBVIOUS
<1> HIDE DEF table
<1>3. ASSUME NEW from \in 0..n, NEW to \in 0..n, to <= from + 1
      PROVE  over[<<from, to>>] = turns[to][from]
    <2>1. CASE to <= from
        <3>1. over[<<from, to>>] = [crc \in Words16 |-> crc]
            BY <2>1, OverSame
        <3>2. table[<<from, to>>] = [crc \in Words16 |-> crc]
            BY <1>1, <2>1, OverSame
        <3> QED
            BY <1>2, <3>1, <3>2
    <2>2. CASE to = from + 1
        <3>0. ~(to <= from)
            BY <2>2
        <3>1. over[<<from, to>>] = [crc \in Words16 |-> CrcByte(crc, bytes[to])]
            BY <2>2, OverNext
        <3>2. table[<<from, to>>] = [crc \in Words16 |-> CrcByte(crc, bytes[to])]
            BY <1>1, <2>2, OverNext
        <3> QED
            BY <1>2, <3>1, <3>2
    <2> QED
        BY <1>3, <2>1, <2>2
<1>4. ASSUME NEW from \in 0..n, NEW to \in 0..n, to > from + 1,
             NEW mid \in 0..n, mid = (from + to) \div 2,
             over[<<mid, to>>] = turns[to][mid], over[<<from, mid>>] = turns[mid][from]
      PROVE  over[<<from, to>>] = turns[to][from]
    <2>0. ~(to <= from) /\ to # from + 1
        BY <1>4
    <2>1. over[<<from, to>>] = [crc \in Words16 |-> over[<<mid, to>>][over[<<from, mid>>][crc]]]
        <3>1. to > from + 1 /\ mid = (from + to) \div 2
            BY <1>4
        <3> QED
            BY <3>1, OverHalves
    <2>2. table[<<from, to>>] = [crc \in Words16 |-> table[<<mid, to>>][table[<<from, mid>>][crc]]]
        BY <1>1, <1>4, OverHalves
    <2>3. table[<<mid, to>>] = turns[to][mid] /\ table[<<from, mid>>] = turns[mid][from]
        BY <1>2
    <2> QED
        BY <1>2, <1>4, <2>1, <2>2, <2>3
<1>5. 0 \in T
    <2>1. ASSUME NEW from \in 0..n, NEW to \in 0..n, to <= from + 0 PROVE to <= from + 1
        BY <2>1
    <2> QED
        BY <1>3, <2>1
<1>6. ASSUME NEW w \in Nat, w \in T PROVE w + 1 \in T
    <2> SUFFICES ASSUME NEW from \in 0..n, NEW to \in 0..n, to <= from + (w + 1)
                 PROVE  over[<<from, to>>] = turns[to][from]
        OBVIOUS
    <2>1. CASE to <= from + 1
        BY <1>3, <2>1
    <2>2. CASE to > from + 1
        <3>1. PICK mid \in 0..n : mid = (from + to) \div 2 /\ from < mid /\ mid < to
            BY <1>0, <2>2, Middle
        <3>2. to <= mid + w /\ mid <= from + w
            BY <3>1
        <3>3. over[<<mid, to>>] = turns[to][mid] /\ over[<<from, mid>>] = turns[mid][from]
            BY <1>6, <3>2
        <3> QED
            BY <1>4, <2>2, <3>1, <3>3
    <2> QED
        BY <2>1, <2>2
<1> HIDE DEF T
<1>7. n \in T
    BY <1>0, <1>5, <1>6, InductionOnSet
<1> QED
    BY <1>0, <1>7 DEF T

LEMMA Registers ==
    ASSUME NEW bytes \in Seq(0..255)
    PROVE  \E r : IsRegister(bytes, r) /\ Crc16(bytes) = Number(r[Len(bytes)])
<1> DEFINE n == Len(bytes)
<1>0. n \in Nat
    OBVIOUS
<1>1. PICK turns : AreTurns(bytes, turns)
    BY TurnsExist
<1> DEFINE over == CHOOSE o : IsOver(bytes, o)
<1>2. CrcOver(bytes) = over[<<0, n>>]
    BY DEF CrcOver, IsOver
<1>3. IsOver(bytes, over)
    BY <1>1, OverExists
<1> HIDE DEF over
<1>4. CrcOver(bytes) = turns[n][0]
    BY <1>1, <1>2, <1>3, OverIsTurns
<1> DEFINE r == [k \in 0..n |-> turns[k][0][CrcInit]]
<1>5. CrcInit \in Words16
    BY DEF CrcInit, Words16
<1>6. r \in [0..n -> Words16]
    <2>1. ASSUME NEW k \in 0..n PROVE turns[k][0][CrcInit] \in Words16
        <3>1. turns[k][0] \in [Words16 -> Words16]
            BY <1>0, <1>1 DEF AreTurns
        <3> QED
            BY <1>5, <3>1
    <2> QED
        BY <2>1
<1>7. r[0] = CrcInit
    <2>1. turns[0][0] = Same
        BY <1>0, <1>1 DEF AreTurns
    <2> QED
        BY <1>0, <1>5, <2>1 DEF Same
<1>8. ASSUME NEW k \in 0..(n - 1) PROVE r[k + 1] = CrcByte(r[k], bytes[k + 1])
    <2>1. PICK next \in 1..n : next = k + 1
        BY <1>0
    <2>2. k \in 0..n /\ 0 <= k /\ 0 \in 0..n /\ next \in 0..n
        BY <1>0
    <2>3. turns[next][0] = [crc \in Words16 |-> CrcByte(turns[k][0][crc], bytes[next])]
        BY <1>1, <2>1, <2>2 DEF AreTurns
    <2>4. turns[next][0][CrcInit] = CrcByte(turns[k][0][CrcInit], bytes[next])
        BY <1>5, <2>3
    <2> QED
        BY <2>1, <2>2, <2>4
<1>9. Crc16(bytes) = Number(r[n])
    BY <1>0, <1>4 DEF Crc16
<1> HIDE DEF r
<1> QED
    BY <1>6, <1>7, <1>8, <1>9 DEF IsRegister

LEMMA RegisterAt ==
    ASSUME NEW bytes \in Seq(0..255), NEW r, IsRegister(bytes, r),
           NEW k \in 0..Len(bytes), NEW next \in 1..Len(bytes), next = k + 1
    PROVE  /\ r[k] \in Words16
           /\ bytes[next] \in 0..255
           /\ r[next] = CrcByte(r[k], bytes[next])
<1>1. r[k] \in Words16
    BY DEF IsRegister
<1>2. bytes[next] \in 0..255
    BY ElementOfSeq
<1>3. k \in 0..(Len(bytes) - 1)
    OBVIOUS
<1> QED
    BY <1>1, <1>2, <1>3 DEF IsRegister

(* The same bytes make the same register, *)
LEMMA SameBefore ==
    ASSUME NEW a \in Seq(0..255), NEW b \in Seq(0..255), Len(a) = Len(b),
           NEW r, IsRegister(a, r), NEW q, IsRegister(b, q),
           NEW k \in 0..Len(a), \A i \in 1..k : a[i] = b[i]
    PROVE  r[k] = q[k]
<1> DEFINE T == {m \in Nat : m <= k => r[m] = q[m]}
<1>0. Len(a) \in Nat
    OBVIOUS
<1>1. 0 \in T
    BY DEF IsRegister
<1>2. ASSUME NEW m \in Nat, m \in T PROVE m + 1 \in T
    <2> SUFFICES ASSUME m + 1 <= k PROVE r[m + 1] = q[m + 1]
        OBVIOUS
    <2>1. PICK next \in 1..Len(a) : next = m + 1 /\ next \in 1..k /\ m \in 0..Len(a)
        BY <1>0
    <2>2. r[m] = q[m] /\ a[next] = b[next]
        BY <1>2, <2>1
    <2>3. r[next] = CrcByte(r[m], a[next])
        BY <2>1, RegisterAt
    <2>4. q[next] = CrcByte(q[m], b[next])
        BY <2>1, RegisterAt
    <2> QED
        BY <2>1, <2>2, <2>3, <2>4
<1> HIDE DEF T
<1>3. k \in T
    BY <1>0, <1>1, <1>2, InductionOnSet
<1> QED
    BY <1>0, <1>3 DEF T

(* and only the same registers are made the same. *)
LEMMA DifferentAfter ==
    ASSUME NEW a \in Seq(0..255), NEW b \in Seq(0..255), Len(a) = Len(b),
           NEW r, IsRegister(a, r), NEW q, IsRegister(b, q),
           NEW k \in 0..Len(a), r[k] # q[k],
           \A i \in (k + 1)..Len(a) : a[i] = b[i]
    PROVE  r[Len(a)] # q[Len(a)]
<1> DEFINE T == {m \in Nat : k <= m /\ m <= Len(a) => r[m] # q[m]}
<1>0. Len(a) \in Nat
    OBVIOUS
<1>1. 0 \in T
    <2> SUFFICES ASSUME k <= 0 PROVE r[0] # q[0]
        OBVIOUS
    <2>1. k = 0
        OBVIOUS
    <2> QED
        BY <2>1
<1>2. ASSUME NEW m \in Nat, m \in T PROVE m + 1 \in T
    <2> SUFFICES ASSUME k <= m + 1, m + 1 <= Len(a) PROVE r[m + 1] # q[m + 1]
        OBVIOUS
    <2>1. CASE k = m + 1
        BY <2>1
    <2>2. CASE k <= m
        <3>1. PICK next \in 1..Len(a) :
                  next = m + 1 /\ next \in (k + 1)..Len(a) /\ m \in 0..Len(a)
            BY <1>0, <2>2
        <3>2. r[m] # q[m] /\ a[next] = b[next]
            BY <1>2, <2>2, <3>1
        <3>3. r[m] \in Words16 /\ a[next] \in 0..255 /\ r[next] = CrcByte(r[m], a[next])
            BY <3>1, RegisterAt
        <3>4. q[m] \in Words16 /\ q[next] = CrcByte(q[m], b[next])
            BY <3>1, RegisterAt
        <3>5. PICK c \in Words16, d \in Words16, v \in 0..255 :
                  c = r[m] /\ d = q[m] /\ v = a[next]
            BY <3>3, <3>4
        <3>6. r[next] = CrcByte(c, v) /\ q[next] = CrcByte(d, v) /\ c # d
            BY <3>2, <3>3, <3>4, <3>5
        <3>7. CrcByte(c, v) # CrcByte(d, v)
            BY ONLY <3>6, CrcByteInjective
        <3> QED
            BY <3>1, <3>6, <3>7
    <2> QED
        BY <2>1, <2>2
<1> HIDE DEF T
<1>3. Nat \subseteq T
    BY <1>1, <1>2, InductionOnSet
<1> QED
    BY <1>0, <1>3 DEF T

(* Two bytes side by side that are not what they were change the CRC.       *)
LEMMA PairChangesCrc ==
    ASSUME NEW a \in Seq(0..255), NEW b \in Seq(0..255), Len(a) = Len(b),
           NEW k \in 1..Len(a), NEW next \in 1..Len(a), next = k + 1,
           \A i \in 1..Len(a) : i # k /\ i # next => a[i] = b[i],
           a[k] # b[k] \/ a[next] # b[next]
    PROVE  Crc16(a) # Crc16(b)
<1>0. Len(a) \in Nat
    OBVIOUS
<1>1. PICK r : IsRegister(a, r) /\ Crc16(a) = Number(r[Len(a)])
    BY Registers
<1>2. PICK q : IsRegister(b, q) /\ Crc16(b) = Number(q[Len(a)])
    BY Registers
<1>3. PICK before \in 0..Len(a) : k = before + 1
    <2>1. k - 1 \in 0..Len(a) /\ k = (k - 1) + 1
        BY <1>0
    <2> QED
        BY <2>1
<1>4. r[before] = q[before]
    <2>1. \A i \in 1..before : a[i] = b[i]
        BY <1>0, <1>3
    <2> QED
        BY <1>1, <1>2, <2>1, SameBefore
<1>5. /\ r[before] \in Words16 /\ a[k] \in 0..255
      /\ r[k] = CrcByte(r[before], a[k])
    BY <1>1, <1>3, RegisterAt
<1>6. b[k] \in 0..255 /\ q[k] = CrcByte(q[before], b[k])
    BY <1>2, <1>3, RegisterAt
<1>7. k \in 0..Len(a)
    BY <1>0
<1>8. a[next] \in 0..255 /\ r[next] = CrcByte(r[k], a[next])
    BY <1>1, <1>7, RegisterAt
<1>9. b[next] \in 0..255 /\ q[next] = CrcByte(q[k], b[next])
    BY <1>2, <1>7, RegisterAt
<1>10. r[next] # q[next]
    <2> SUFFICES ASSUME r[next] = q[next] PROVE FALSE
        OBVIOUS
    <2>1. CrcByte(CrcByte(r[before], a[k]), a[next]) = CrcByte(CrcByte(r[before], b[k]), b[next])
        BY <1>4, <1>5, <1>6, <1>8, <1>9
    <2>2. PICK c \in Words16, v \in 0..255, w \in 0..255, x \in 0..255, y \in 0..255 :
              c = r[before] /\ v = a[k] /\ w = a[next] /\ x = b[k] /\ y = b[next]
        BY ONLY <1>5, <1>6, <1>8, <1>9
    <2>3. CrcByte(CrcByte(c, v), w) = CrcByte(CrcByte(c, x), y)
        BY <2>1, <2>2
    <2>4. v = x /\ w = y
        <3>1. SameAfterTwo(c, v, w, x, y)
            BY <2>3 DEF SameAfterTwo
        <3>2. ASSUME NEW u \in Words16, NEW i1 \in 0..255, NEW i2 \in 0..255,
                     NEW j1 \in 0..255, NEW j2 \in 0..255, SameAfterTwo(u, i1, i2, j1, j2)
              PROVE  i1 = j1 /\ i2 = j2
            BY ONLY <3>2, TwoBytes
        <3> QED
            BY ONLY c \in Words16, v \in 0..255, w \in 0..255, x \in 0..255, y \in 0..255,
                    <3>1, <3>2, Zenon
    <2> QED
        BY <2>2, <2>4
<1>11. r[Len(a)] # q[Len(a)]
    <2>1. \A i \in (next + 1)..Len(a) : a[i] = b[i]
        BY <1>0
    <2>2. next \in 0..Len(a)
        BY <1>0
    <2> QED
        BY <1>1, <1>2, <1>10, <2>1, <2>2, DifferentAfter
<1>12. r[Len(a)] \in SUBSET (0..15) /\ q[Len(a)] \in SUBSET (0..15)
    <2>1. Len(a) \in 0..Len(a) /\ Words16 = SUBSET (0..15)
        BY <1>0 DEF Words16
    <2>2. r \in [0..Len(a) -> Words16] /\ q \in [0..Len(a) -> Words16]
        BY <1>1, <1>2 DEF IsRegister
    <2> QED
        BY <2>1, <2>2
<1> QED
    BY <1>1, <1>2, <1>11, <1>12, NumberInjective

(* How the last byte changes the register *)
LEMMA LastByteChangesRegister ==
    ASSUME NEW a \in Seq(0..255), NEW b \in Seq(0..255), Len(a) = Len(b), Len(a) # 0,
           \A i \in 1..(Len(a) - 1) : a[i] = b[i]
    PROVE  \E r, q \in Words16 :
              /\ Crc16(a) = Number(r) /\ Crc16(b) = Number(q)
              /\ Xor(r, q) = Eight(Xor(High(a[Len(a)]), High(b[Len(a)])))
<1>0. Len(a) \in Nat
    OBVIOUS
<1>1. PICK r : IsRegister(a, r) /\ Crc16(a) = Number(r[Len(a)])
    BY Registers
<1>2. PICK q : IsRegister(b, q) /\ Crc16(b) = Number(q[Len(a)])
    BY Registers
<1>3. PICK last \in 1..Len(a), before \in 0..Len(a) : last = Len(a) /\ last = before + 1
    BY <1>0
<1>4. r[before] = q[before]
    <2>1. \A i \in 1..before : a[i] = b[i]
        BY <1>0, <1>3
    <2> QED
        BY <1>1, <1>2, <2>1, SameBefore
<1>5. PICK c \in Words16, v \in 0..255 :
          c = r[before] /\ v = a[last] /\ r[last] = CrcByte(c, v)
    <2>1. /\ r[before] \in Words16 /\ a[last] \in 0..255
          /\ r[last] = CrcByte(r[before], a[last])
        BY <1>1, <1>3, RegisterAt
    <2> QED
        BY <2>1
<1>6. PICK w \in 0..255 : w = b[last] /\ q[last] = CrcByte(c, w)
    <2>1. b[last] \in 0..255 /\ q[last] = CrcByte(q[before], b[last])
        <3>1. last \in 1..Len(b) /\ before \in 0..Len(b)
            BY <1>3
        <3> QED
            BY ONLY <1>2, <1>3, <3>1, RegisterAt, Z3
    <2> QED
        BY <1>4, <1>5, <2>1
<1>7. /\ r[last] = Eight(Xor(c, High(v))) /\ q[last] = Eight(Xor(c, High(w)))
      /\ r[last] \in Words16 /\ q[last] \in Words16
    <2>1. CrcByte(c, v) = Eight(Xor(c, High(v))) /\ CrcByte(c, v) \in Words16
        BY ONLY <1>5, CrcByteIsEight
    <2>2. CrcByte(c, w) = Eight(Xor(c, High(w))) /\ CrcByte(c, w) \in Words16
        BY ONLY <1>5, <1>6, CrcByteIsEight
    <2> QED
        BY <1>5, <1>6, <2>1, <2>2, Zenon
<1>8. High(v) \in Words16 /\ High(w) \in Words16
    BY HighType
<1>9. Xor(r[last], q[last]) = Eight(Xor(High(v), High(w)))
    <2>1. Xor(r[last], q[last]) = Eight(Xor(Xor(c, High(v)), Xor(c, High(w))))
        BY <1>7, <1>8, XorType, EightLinear
    <2> QED
        BY <2>1, XorFacts
<1> QED
    BY <1>1, <1>2, <1>3, <1>5, <1>6, <1>7, <1>9

-----------------------------------------------------------------------------
(* Sequences of bytes. *)

LEMMA Join ==
    ASSUME NEW S, NEW a \in Seq(S), NEW b \in Seq(S)
    PROVE  /\ a \o b \in Seq(S)
           /\ Len(a \o b) = Len(a) + Len(b)
           /\ \A i \in 1..Len(a) : (a \o b)[i] = a[i]
           /\ \A j \in 1..Len(b) : (a \o b)[Len(a) + j] = b[j]
OBVIOUS

(* The n elements of s from the place from to the place to *)
IsCut(s, from, n, to) ==
    /\ from \in Nat /\ n \in Nat
    /\ 1 <= from /\ to = from + n - 1 /\ to <= Len(s)

(* They are those of t. *)
Holds(t, s, from, n) ==
    /\ Len(t) = n
    /\ \A j \in 1..n, k \in 1..Len(s) : k = from + j - 1 => t[j] = s[k]

LEMMA Cut ==
    ASSUME NEW S, NEW s \in Seq(S), NEW from, NEW n, NEW to, IsCut(s, from, n, to)
    PROVE  /\ SubSeq(s, from, to) \in Seq(S)
           /\ Holds(SubSeq(s, from, to), s, from, n)
<1>0. from \in Nat /\ n \in Nat /\ 1 <= from /\ to = from + n - 1 /\ to <= Len(s)
    BY DEF IsCut
<1>1. Len(s) \in Nat /\ to \in Int /\ from \in Int
    BY <1>0
<1>2. \A i \in from..to : i \in 1..Len(s)
    BY <1>0, <1>1
<1>3. \A i \in from..to : s[i] \in S
    BY <1>2, ElementOfSeq
<1>4. /\ SubSeq(s, from, to) \in Seq(S)
      /\ Len(SubSeq(s, from, to)) = IF from <= to THEN to - from + 1 ELSE 0
      /\ \A i \in 1..(to - from + 1) : SubSeq(s, from, to)[i] = s[from + i - 1]
    BY <1>1, <1>3, SubSeqProperties
<1>5. to - from + 1 = n /\ (from <= to <=> n > 0)
    BY <1>0, <1>1
<1>6. Len(SubSeq(s, from, to)) = n
    BY <1>0, <1>4, <1>5
<1>7. \A j \in 1..n, k \in 1..Len(s) : k = from + j - 1 => SubSeq(s, from, to)[j] = s[k]
    BY <1>4, <1>5
<1> QED
    BY <1>4, <1>6, <1>7 DEF Holds

(* The middle of three pieces *)
LEMMA CutMiddle ==
    ASSUME NEW S, NEW a \in Seq(S), NEW b \in Seq(S), NEW c \in Seq(S),
           NEW from, NEW to, from = Len(a) + 1, to = Len(a) + Len(b)
    PROVE  SubSeq((a \o b) \o c, from, to) = b
<1> DEFINE s == (a \o b) \o c
<1>1. Len(a) \in Nat /\ Len(b) \in Nat /\ Len(c) \in Nat
    OBVIOUS
<1>2. /\ s \in Seq(S) /\ Len(s) = Len(a) + Len(b) + Len(c)
      /\ \A j \in 1..Len(b) : s[Len(a) + j] = b[j]
    <2>1. /\ a \o b \in Seq(S) /\ Len(a \o b) = Len(a) + Len(b)
          /\ \A j \in 1..Len(b) : (a \o b)[Len(a) + j] = b[j]
        BY Join
    <2>2. /\ s \in Seq(S) /\ Len(s) = Len(a \o b) + Len(c)
          /\ \A i \in 1..Len(a \o b) : s[i] = (a \o b)[i]
        BY <2>1, Join
    <2>3. \A j \in 1..Len(b) : Len(a) + j \in 1..Len(a \o b)
        BY <1>1, <2>1
    <2> HIDE DEF s
    <2> QED
        BY <1>1, <2>1, <2>2, <2>3
<1> HIDE DEF s
<1>3. PICK n \in Nat : n = Len(b)
    BY <1>1
<1>4. IsCut(s, from, n, to)
    BY <1>1, <1>2, <1>3 DEF IsCut
<1>5. SubSeq(s, from, to) \in Seq(S) /\ Holds(SubSeq(s, from, to), s, from, n)
    BY <1>2, <1>4, Cut
<1>6. ASSUME NEW j \in 1..n PROVE SubSeq(s, from, to)[j] = b[j]
    <2>1. PICK k \in 1..Len(s) : k = Len(a) + j
        <3>1. Len(a) + j \in 1..Len(s)
            BY <1>1, <1>2, <1>3
        <3> QED
            BY <3>1
    <2>2. k = from + j - 1
        BY <1>1, <2>1
    <2>3. SubSeq(s, from, to)[j] = s[k]
        BY <1>5, <2>2 DEF Holds
    <2> QED
        BY <1>2, <1>3, <2>1, <2>3
<1>7. SubSeq(s, from, to) = b
    <2>1. Len(SubSeq(s, from, to)) = n
        BY <1>5 DEF Holds
    <2> QED
        BY <1>3, <1>5, <1>6, <2>1, SeqEqual
<1> QED
    BY <1>7 DEF s

LEMMA SameBytes ==
    ASSUME NEW a \in 0..255, NEW b \in 0..255, NEW c \in 0..255, NEW d \in 0..255,
           a + 256 * b = c + 256 * d
    PROVE  a = c /\ b = d
OBVIOUS

(* A word made of two bytes *)
(* The word of two bytes *)
WordIs(low, high) == /\ Bits[low] \cup High(high) \in Words16
                     /\ Number(Bits[low] \cup High(high)) = low + 256 * high

LEMMA WordOfBytes ==
    ASSUME NEW low \in 0..255, NEW high \in 0..255
    PROVE  WordIs(low, high)
<1> DEFINE d == Bits[low] \cup High(high)
<1>1. Bits[low] \in SUBSET (0..7) /\ Number(Bits[low]) = low
    BY BitsOfByte
<1>2. Bits[high] \in SUBSET (0..7) /\ Number(Bits[high]) = high
    BY BitsOfByte
<1>3. High(high) \in SUBSET (8..15)
    BY HighType
<1>4. d \in SUBSET (0..15) /\ d \cap (0..7) = Bits[low]
    <2>1. \A k \in 0..7 : k \in 0..15 /\ k \notin 8..15
        OBVIOUS
    <2>2. \A k \in 8..15 : k \in 0..15 /\ k \notin 0..7
        OBVIOUS
    <2> QED
        BY <1>1, <1>3, <2>1, <2>2
<1>5. ASSUME NEW k \in 0..7, NEW m \in 8..15, m = k + 8 PROVE m \in d <=> k \in Bits[high]
    <2>1. m \notin Bits[low]
        BY <1>1
    <2>2. m \in High(high) <=> k \in Bits[high]
        BY <1>2, <1>5 DEF High
    <2> QED
        BY <2>1, <2>2
<1> HIDE DEF d
<1>6. PICK x : Sums(d, x)
    BY NumberAbove
<1>7. PICK y : Sums(Bits[high], y)
    BY NumberAbove
<1>8. x[16] = 0 /\ y[8] = 0
    <2>1. Bits[high] \cap (8..15) = {}
        BY <1>2
    <2> QED
        <3>1. x[16] = 0
            BY <1>6 DEF Sums
        <3>2. y[8] = 0
            BY <1>7, <2>1, SumsOfByte
        <3> QED
            BY <3>1, <3>2
<1>9. ASSUME NEW k \in 0..7, NEW j \in 1..8, j = k + 1,
             NEW m \in 8..15, m = k + 8, NEW l \in 9..16, l = k + 9, x[l] = y[j]
      PROVE  x[m] = y[k]
    <2>1. k \in 0..15 /\ j \in 1..16 /\ m \in 0..15 /\ l \in 1..16 /\ l = m + 1
        BY <1>9
    <2>2. /\ m \in d => x[m] = 2 * x[l] + 1
          /\ m \notin d => x[m] = 2 * x[l]
        BY <1>6, <2>1, SumsStep
    <2>3. /\ k \in Bits[high] => y[k] = 2 * y[j] + 1
          /\ k \notin Bits[high] => y[k] = 2 * y[j]
        BY <1>7, <1>9, <2>1, SumsStep
    <2>4. m \in d <=> k \in Bits[high]
        BY <1>5, <1>9
    <2> QED
        BY <1>9, <2>2, <2>3, <2>4
<1>10. x[15] = y[7] /\ x[14] = y[6] /\ x[13] = y[5] /\ x[12] = y[4]
    BY <1>8, <1>9
<1>11. x[11] = y[3] /\ x[10] = y[2] /\ x[9] = y[1] /\ x[8] = y[0]
    BY <1>9, <1>10
<1>12. x[8] = high
    BY <1>2, <1>7, <1>11 DEF Sums
<1>13. Number(d) = low + 256 * high
    BY <1>1, <1>4, <1>6, <1>12, LowByteOfNumber
<1> QED
    <2>1. /\ Bits[low] \cup High(high) \in Words16
          /\ Number(Bits[low] \cup High(high)) = low + 256 * high
        BY <1>4, <1>13 DEF d, Words16
    <2> QED
        BY <2>1, Zenon DEF WordIs

-----------------------------------------------------------------------------
(* Damage. *)

(* Two frames that differ in two bytes side by side *)
DifferAt(F, G, i, next) ==
    /\ i \in 1..Len(F) /\ next \in 1..Len(F) /\ next = i + 1
    /\ Len(G) = Len(F)
    /\ \A j \in 1..Len(F) : j # i /\ j # next => G[j] = F[j]
    /\ G[i] # F[i] \/ G[next] # F[next]

(* by the error e *)
DifferBy(F, G, i, next, e) ==
    /\ Bits[G[i]] = Xor(Bits[F[i]], e[1])
    /\ Bits[G[next]] = Xor(Bits[F[next]], e[2])
    /\ e[1] \in SUBSET (0..7) /\ e[2] \in SUBSET (0..7)
    /\ e = <<e[1], e[2]>> /\ (e[1] # {} \/ e[2] # {})

LEMMA StruckBytes ==
    ASSUME NEW F \in Seq(0..255), NEW i \in 1..Len(F), NEW next \in 1..Len(F), next = i + 1,
           NEW e \in Errors, NEW G, G = Struck(F, i, e)
    PROVE  G \in Seq(0..255) /\ DifferAt(F, G, i, next) /\ DifferBy(F, G, i, next, e)
<1> DEFINE v == Number(Xor(Bits[F[i]], e[1]))
           w == Number(Xor(Bits[F[next]], e[2]))
<1>1. /\ e[1] \in SUBSET (0..7) /\ e[2] \in SUBSET (0..7)
      /\ e = <<e[1], e[2]>> /\ (e[1] # {} \/ e[2] # {})
    <2>1. Errors \subseteq ((SUBSET (0..7)) \X (SUBSET (0..7))) \ {<<{}, {}>>}
        BY ErrorsAssumption
    <2>2. e \in (SUBSET (0..7)) \X (SUBSET (0..7)) /\ e # <<{}, {}>>
        BY <2>1
    <2>3. e = <<e[1], e[2]>> /\ e[1] \in SUBSET (0..7) /\ e[2] \in SUBSET (0..7)
        BY <2>2
    <2> QED
        BY <2>2, <2>3
<1>2. F[i] \in 0..255 /\ F[next] \in 0..255
    BY ElementOfSeq
<1>3. /\ Bits[F[i]] \in SUBSET (0..7) /\ Number(Bits[F[i]]) = F[i]
      /\ Bits[F[next]] \in SUBSET (0..7) /\ Number(Bits[F[next]]) = F[next]
    BY <1>2, BitsOfByte
<1>4. Xor(Bits[F[i]], e[1]) \in SUBSET (0..7) /\ Xor(Bits[F[next]], e[2]) \in SUBSET (0..7)
    BY <1>1, <1>3 DEF Xor
<1>5. /\ v \in 0..255 /\ Bits[v] = Xor(Bits[F[i]], e[1])
      /\ w \in 0..255 /\ Bits[w] = Xor(Bits[F[next]], e[2])
    <2>1. ASSUME NEW b, b \in SUBSET (0..7) PROVE Number(b) \in 0..255 /\ Bits[Number(b)] = b
        BY ONLY <2>1, NumberOfByte, BitsOfNumber
    <2>2. PICK b, c : b = Xor(Bits[F[i]], e[1]) /\ c = Xor(Bits[F[next]], e[2])
        OBVIOUS
    <2>3. b \in SUBSET (0..7) /\ c \in SUBSET (0..7)
        BY ONLY <1>4, <2>2
    <2>4. v = Number(b) /\ w = Number(c)
        BY ONLY <2>2
    <2>5. Number(b) \in 0..255 /\ Bits[Number(b)] = b
        BY ONLY <2>1, <2>3
    <2>6. Number(c) \in 0..255 /\ Bits[Number(c)] = c
        BY ONLY <2>1, <2>3
    <2> HIDE DEF v, w
    <2> QED
        BY <2>2, <2>4, <2>5, <2>6, Zenon
<1>6. G = [[F EXCEPT ![i] = v] EXCEPT ![next] = w]
    BY DEF Struck
<1> HIDE DEF v, w
<1>7. /\ G \in Seq(0..255) /\ Len(G) = Len(F)
      /\ \A j \in 1..Len(F) : G[j] = IF j = next THEN w ELSE IF j = i THEN v ELSE F[j]
    <2> DEFINE H == [F EXCEPT ![i] = v]
    <2>1. /\ H \in Seq(0..255) /\ Len(H) = Len(F)
          /\ \A j \in 1..Len(F) : H[j] = IF j = i THEN v ELSE F[j]
        BY <1>5, ExceptSeq
    <2> HIDE DEF H
    <2>2. /\ [H EXCEPT ![next] = w] \in Seq(0..255) /\ Len([H EXCEPT ![next] = w]) = Len(H)
          /\ \A j \in 1..Len(H) : [H EXCEPT ![next] = w][j] = IF j = next THEN w ELSE H[j]
        BY <1>5, <2>1, ExceptSeq
    <2>3. G = [H EXCEPT ![next] = w]
        BY <1>6 DEF H
    <2> QED
        BY <2>1, <2>2, <2>3
<1>8. G[i] = v /\ G[next] = w
    BY <1>7
<1>9. G[i] # F[i] \/ G[next] # F[next]
    <2> SUFFICES ASSUME G[i] = F[i], G[next] = F[next] PROVE FALSE
        OBVIOUS
    <2>1. Xor(Bits[F[i]], e[1]) = Bits[F[i]] /\ Xor(Bits[F[next]], e[2]) = Bits[F[next]]
        BY <1>5, <1>8
    <2> QED
        BY <1>1, <2>1, XorFacts
<1>10. DifferAt(F, G, i, next)
    BY <1>7, <1>9 DEF DifferAt
<1>11. DifferBy(F, G, i, next, e)
    BY <1>1, <1>5, <1>8 DEF DifferBy
<1> QED
    BY <1>7, <1>10, <1>11

(* n bytes, enough for a header and a CRC *)
Whole(F, n) == F \in Seq(0..255) /\ n \in Nat /\ n = Len(F) /\ n >= 14

(* What the CRC of a frame is computed over *)
Body(F) == Covered(SubSeq(F, 1, Len(F) - 2))

IsBody(a, F, n) ==
    /\ a \in Seq(0..255)
    /\ Len(a) = n - 4
    /\ \A j \in 1..(n - 4) : a[j] = F[j + 2]

(* What the framer looks at *)
Seen(F, n, crc) ==
    /\ F[1] = 170 /\ F[2] = 85 /\ F[3] = 1
    /\ F[11] + 256 * F[12] = n - 14
    /\ F[n - 1] + 256 * F[n] = crc

LEMMA FrameParts ==
    ASSUME NEW F, NEW n, Whole(F, n)
    PROVE  IsBody(Body(F), F, n) /\ (Accepted(F) <=> Seen(F, n, Crc16(Body(F))))
<1> USE DEF Whole
<1>0. PICK m \in Nat, d \in Nat, to \in Nat, low \in Nat :
          m = n - 14 /\ d = n - 4 /\ to = n - 2 /\ low = n - 1
    <2>1. n - 14 \in Nat /\ n - 4 \in Nat /\ n - 2 \in Nat /\ n - 1 \in Nat
        OBVIOUS
    <2> QED
        BY <2>1
<1>1. SubSeq(F, 1, 2) = Sync <=> F[1] = 170 /\ F[2] = 85
    <2>1. IsCut(F, 1, 2, 2)
        BY DEF IsCut
    <2>2. SubSeq(F, 1, 2) \in Seq(0..255) /\ Holds(SubSeq(F, 1, 2), F, 1, 2)
        BY <2>1, Cut
    <2>3. Len(SubSeq(F, 1, 2)) = 2 /\ SubSeq(F, 1, 2)[1] = F[1] /\ SubSeq(F, 1, 2)[2] = F[2]
        BY <2>2 DEF Holds
    <2>4. Sync \in Seq(0..255) /\ Len(Sync) = 2 /\ Sync[1] = 170 /\ Sync[2] = 85
        BY DEF Sync
    <2>5. ASSUME F[1] = 170, F[2] = 85 PROVE SubSeq(F, 1, 2) = Sync
        <3>1. \A j \in 1..Len(Sync) : SubSeq(F, 1, 2)[j] = Sync[j]
            BY <2>3, <2>4, <2>5
        <3> QED
            BY <2>2, <2>3, <2>4, <3>1, SeqEqual
    <2> QED
        BY <2>3, <2>4, <2>5
<1>2. FromLe(SubSeq(F, 11, 12)) = F[11] + 256 * F[12]
    <2>1. IsCut(F, 11, 2, 12)
        BY DEF IsCut
    <2>2. Holds(SubSeq(F, 11, 12), F, 11, 2)
        BY <2>1, Cut
    <2>3. /\ Len(SubSeq(F, 11, 12)) = 2
          /\ SubSeq(F, 11, 12)[1] = F[11] /\ SubSeq(F, 11, 12)[2] = F[12]
        BY <2>2 DEF Holds
    <2> QED
        BY <2>3 DEF FromLe
<1>3. Len(PayloadOf(F)) = n - 14
    <2>1. IsCut(F, 13, m, to)
        BY <1>0 DEF IsCut
    <2>2. Len(SubSeq(F, 13, to)) = m
        BY <2>1, Cut DEF Holds
    <2> QED
        BY <1>0, <2>2 DEF PayloadOf, HeaderSize
<1>4. FromLe(SubSeq(F, Len(F) - 1, Len(F))) = F[n - 1] + 256 * F[n]
    <2> DEFINE s == SubSeq(F, low, n)
    <2>1. IsCut(F, low, 2, n)
        BY <1>0 DEF IsCut
    <2>2. Holds(s, F, low, 2)
        BY <2>1, Cut
    <2> HIDE DEF s
    <2>3. low = low + 1 - 1 /\ n = low + 2 - 1 /\ low \in 1..Len(F) /\ n \in 1..Len(F)
        BY <1>0
    <2>4. Len(s) = 2 /\ s[1] = F[low] /\ s[2] = F[n]
        BY <2>2, <2>3 DEF Holds
    <2>5. FromLe(s) = F[low] + 256 * F[n]
        BY <2>4 DEF FromLe
    <2> QED
        BY <1>0, <2>5 DEF s
<1>5. IsBody(Body(F), F, n)
    <2> DEFINE s == SubSeq(F, 1, to)
               c == SubSeq(s, 3, to)
    <2>1. IsCut(F, 1, to, to)
        BY <1>0 DEF IsCut
    <2>2. s \in Seq(0..255) /\ Holds(s, F, 1, to) /\ Len(s) = to
        <3>1. s \in Seq(0..255) /\ Holds(s, F, 1, to)
            BY <2>1, Cut
        <3> QED
            BY <3>1 DEF Holds
    <2> HIDE DEF s
    <2>3. IsCut(s, 3, d, to)
        BY <1>0, <2>2 DEF IsCut
    <2>4. c \in Seq(0..255) /\ Holds(c, s, 3, d) /\ Len(c) = d
        <3>1. c \in Seq(0..255) /\ Holds(c, s, 3, d)
            <4>1. s \in Seq(0..255)
                BY <2>2
            <4> QED
                BY ONLY <2>3, <4>1, Cut DEF c
        <3> QED
            BY <3>1 DEF Holds
    <2> HIDE DEF c
    <2>5. ASSUME NEW j \in 1..d PROVE c[j] = F[j + 2]
        <3>1. PICK k \in 1..to : k = j + 2
            <4>1. j + 2 \in 1..to
                BY <1>0
            <4> QED
                BY <4>1
        <3>2. k \in 1..Len(s) /\ k = 3 + j - 1 /\ k \in 1..Len(F) /\ k = 1 + k - 1
            BY <1>0, <2>2, <3>1
        <3>3. c[j] = s[k]
            BY <2>4, <3>2 DEF Holds
        <3>4. s[k] = F[k]
            BY <2>2, <3>2 DEF Holds
        <3> QED
            BY <3>1, <3>3, <3>4
    <2>6. c = Body(F)
        BY <1>0, <2>2 DEF c, s, Covered, Body
    <2>7. IsBody(c, F, n)
        BY <1>0, <2>4, <2>5 DEF IsBody
    <2> QED
        BY <2>6, <2>7
<1>6. Accepted(F) <=> Seen(F, n, Crc16(Body(F)))
    BY ONLY <1>1, <1>2, <1>3, <1>4 DEF Accepted, Version, Seen, Body
<1> QED
    BY <1>5, <1>6

LEMMA DamageBeforeCrc ==
    ASSUME NEW F, NEW G, NEW n, Whole(F, n), Whole(G, n), Accepted(F),
           NEW i, NEW next, DifferAt(F, G, i, next), next <= n - 2
    PROVE  ~Accepted(G)
<1> DEFINE a == Body(F)
           b == Body(G)
<1>1. Seen(F, n, Crc16(a)) /\ IsBody(a, F, n)
    BY FrameParts
<1>2. IsBody(b, G, n) /\ (Accepted(G) => Seen(G, n, Crc16(b)))
    BY FrameParts
<1>3. n \in Nat /\ n = Len(F) /\ n >= 14 /\ i \in 1..n /\ next \in 1..n /\ next = i + 1
    BY DEF Whole, DifferAt
<1> HIDE DEF a, b
<1>4. CASE i <= 2
    <2>1. i \in {1, 2} /\ next \in {2, 3} /\ next = i + 1
        BY <1>3, <1>4
    <2>2. F[1] = 170 /\ F[2] = 85 /\ F[3] = 1
        BY <1>1 DEF Seen
    <2>3. ASSUME G[1] = 170, G[2] = 85, G[3] = 1 PROVE FALSE
        BY <2>1, <2>2, <2>3 DEF DifferAt
    <2> QED
        BY <1>2, <2>3 DEF Seen
<1>5. CASE i >= 3
    <2>1. PICK k \in 1..(n - 4), m \in 1..(n - 4) : k = i - 2 /\ m = i - 1 /\ m = k + 1
        <3>1. i - 2 \in 1..(n - 4) /\ i - 1 \in 1..(n - 4) /\ i - 1 = (i - 2) + 1
            BY <1>3, <1>5
        <3> QED
            BY <3>1
    <2>2. k + 2 = i /\ m + 2 = next
        BY <1>3, <2>1
    <2>3. ASSUME NEW j \in 1..(n - 4), j # k, j # m PROVE a[j] = b[j]
        <3>1. PICK l \in 1..Len(F) : l = j + 2 /\ l # i /\ l # next
            <4>1. j + 2 \in 1..Len(F) /\ j + 2 # i /\ j + 2 # next
                BY <1>3, <2>1, <2>2, <2>3
            <4> QED
                BY <4>1
        <3>2. G[l] = F[l]
            BY <3>1 DEF DifferAt
        <3> QED
            BY <1>1, <1>2, <3>1, <3>2 DEF IsBody
    <2>4. a[k] = F[i] /\ b[k] = G[i] /\ a[m] = F[next] /\ b[m] = G[next]
        BY <1>1, <1>2, <2>1, <2>2 DEF IsBody
    <2>5. a[k] # b[k] \/ a[m] # b[m]
        BY <2>4 DEF DifferAt
    <2>6. Crc16(a) # Crc16(b)
        <3>1. a \in Seq(0..255) /\ b \in Seq(0..255) /\ Len(a) = n - 4 /\ Len(b) = n - 4
            BY <1>1, <1>2 DEF IsBody
        <3>2. /\ Len(a) = Len(b) /\ k \in 1..Len(a) /\ m \in 1..Len(a) /\ m = k + 1
              /\ \A j \in 1..Len(a) : j # k /\ j # m => a[j] = b[j]
            BY <2>1, <2>3, <3>1
        <3> QED
            BY <2>5, <3>1, <3>2, PairChangesCrc
    <2>7. G[n - 1] = F[n - 1] /\ G[n] = F[n]
        <3>1. PICK low \in 1..Len(F) : low = n - 1 /\ low # i /\ low # next /\ n \in 1..Len(F)
                                       /\ n # i /\ n # next
            <4>1. /\ n - 1 \in 1..Len(F) /\ n - 1 # i /\ n - 1 # next /\ n \in 1..Len(F)
                  /\ n # i /\ n # next
                BY <1>3
            <4> QED
                BY <4>1
        <3> QED
            BY <3>1 DEF DifferAt
    <2> QED
        BY <1>1, <1>2, <2>6, <2>7 DEF Seen
<1> QED
    BY <1>3, <1>4, <1>5

LEMMA DamageInCrc ==
    ASSUME NEW F, NEW G, NEW n, Whole(F, n), Whole(G, n), Accepted(F),
           NEW i, NEW next, DifferAt(F, G, i, next), next = n
    PROVE  ~Accepted(G)
<1> DEFINE a == Body(F)
           b == Body(G)
<1>1. Seen(F, n, Crc16(a)) /\ IsBody(a, F, n)
    BY FrameParts
<1>2. IsBody(b, G, n) /\ (Accepted(G) => Seen(G, n, Crc16(b)))
    BY FrameParts
<1>3. /\ n \in Nat /\ n = Len(F) /\ n = Len(G) /\ n >= 14
      /\ i \in 1..n /\ next \in 1..n /\ i = n - 1
    BY DEF Whole, DifferAt
<1> HIDE DEF a, b
<1>4. ASSUME NEW j \in 1..(n - 4) PROVE a[j] = b[j]
    <2>1. PICK l \in 1..Len(F) : l = j + 2 /\ l # i /\ l # next
        <3>1. j + 2 \in 1..Len(F) /\ j + 2 # i /\ j + 2 # next
            BY <1>3
        <3> QED
            BY <3>1
    <2>2. G[l] = F[l]
        BY <2>1 DEF DifferAt
    <2> QED
        BY <1>1, <1>2, <2>1, <2>2 DEF IsBody
<1>5. a = b
    <2>1. a \in Seq(0..255) /\ b \in Seq(0..255) /\ Len(a) = n - 4 /\ Len(b) = n - 4
        BY <1>1, <1>2 DEF IsBody
    <2> QED
        BY <1>4, <2>1, SeqEqual
<1>6. ASSUME Accepted(G) PROVE FALSE
    <2>1. G[i] + 256 * G[next] = F[i] + 256 * F[next]
        BY <1>1, <1>2, <1>3, <1>5, <1>6 DEF Seen
    <2>2. F[i] \in 0..255 /\ F[next] \in 0..255
        BY <1>3, ElementOfSeq DEF Whole
    <2>3. G[i] \in 0..255 /\ G[next] \in 0..255
        BY <1>3, ElementOfSeq DEF Whole
    <2>4. PICK p \in 0..255, q \in 0..255 : p = G[i] /\ q = G[next]
        BY <2>3
    <2>5. PICK r \in 0..255, t \in 0..255 : r = F[i] /\ t = F[next]
        BY <2>2
    <2>6. p = r /\ q = t
        <3>1. p + 256 * q = r + 256 * t
            BY <2>1, <2>4, <2>5
        <3>2. p \in 0..255 /\ q \in 0..255 /\ r \in 0..255 /\ t \in 0..255
            BY <2>4, <2>5
        <3> QED
            BY ONLY <3>1, <3>2
    <2> QED
        BY <2>4, <2>5, <2>6 DEF DifferAt
<1> QED
    BY <1>6

(* The register at the end of the payload and the two bytes of the CRC, when *)
(* the last byte of the payload and the first of the CRC are not what they  *)
(* were                                                                     *)
LEMMA DamageAcross ==
    ASSUME NEW F, NEW G, NEW n, Whole(F, n), Whole(G, n), Accepted(F), n >= 15,
           NEW i, NEW next, DifferAt(F, G, i, next), i = n - 2,
           NEW e, DifferBy(F, G, i, next, e)
    PROVE  Accepted(G) <=> e = <<{0, 3, 7}, {0, 5, 7}>>
<1> DEFINE a == Body(F)
           b == Body(G)
           d == Xor(High(F[i]), High(G[i]))
<1>1. /\ Bits[G[i]] = Xor(Bits[F[i]], e[1])
      /\ Bits[G[next]] = Xor(Bits[F[next]], e[2])
      /\ e[1] \in SUBSET (0..7) /\ e[2] \in SUBSET (0..7)
    BY DEF DifferBy
<1>2. e = <<e[1], e[2]>> /\ (e[1] # {} \/ e[2] # {})
    BY DEF DifferBy
<1>3. Seen(F, n, Crc16(a)) /\ IsBody(a, F, n)
    BY FrameParts
<1>4. IsBody(b, G, n) /\ (Accepted(G) <=> Seen(G, n, Crc16(b)))
    BY FrameParts
<1> HIDE DEF a, b, d
<1>5. /\ n \in Nat /\ n = Len(F) /\ n = Len(G) /\ n >= 15
      /\ i \in 1..n /\ next \in 1..n /\ i = n - 2 /\ next = n - 1
    <2>1. n \in Nat /\ n = Len(F) /\ n = Len(G) /\ n >= 15 /\ i = n - 2
        BY DEF Whole
    <2>2. i \in 1..n /\ next \in 1..n /\ next = i + 1
        BY <2>1 DEF DifferAt
    <2>3. next = n - 1
        BY <2>1, <2>2
    <2> QED
        BY <2>1, <2>2, <2>3
<1>6. ASSUME NEW j \in 1..n, j # i, j # next PROVE G[j] = F[j]
    BY <1>5, <1>6 DEF DifferAt
<1>7. Accepted(G) <=> G[next] + 256 * F[n] = Crc16(b)
    <2>1. \A j \in {1, 2, 3, 11, 12} : j \in 1..n /\ j # i /\ j # next
        BY <1>5
    <2>2. n \in 1..n /\ n # i /\ n # next
        BY <1>5
    <2>3. G[1] = F[1] /\ G[2] = F[2] /\ G[3] = F[3] /\ G[11] = F[11] /\ G[12] = F[12] /\ G[n] = F[n]
        BY <1>6, <2>1, <2>2
    <2> QED
        BY <1>3, <1>4, <1>5, <2>3 DEF Seen
<1>8. \E r, q \in Words16 : Crc16(a) = Number(r) /\ Crc16(b) = Number(q) /\ Xor(r, q) = Eight(d)
    <2>0. a \in Seq(0..255) /\ b \in Seq(0..255) /\ Len(a) = n - 4 /\ Len(b) = n - 4
        BY <1>3, <1>4 DEF IsBody
    <2>1. PICK last \in 1..(n - 4) : last = n - 4 /\ last + 2 = i
        <3>1. n - 4 \in 1..(n - 4) /\ (n - 4) + 2 = i
            BY <1>5
        <3> QED
            BY <3>1
    <2>2. ASSUME NEW j \in 1..(Len(a) - 1) PROVE a[j] = b[j]
        <3>1. j \in 1..(n - 4)
            BY <1>5, <2>0
        <3>2. PICK l \in 1..n : l = j + 2 /\ l # i /\ l # next
            <4>1. j + 2 \in 1..n /\ j + 2 # i /\ j + 2 # next
                BY ONLY <1>5, <2>0, <2>1
            <4> QED
                BY <4>1
        <3>3. G[l] = F[l]
            BY <1>6, <3>2
        <3> QED
            BY <1>3, <1>4, <3>1, <3>2, <3>3 DEF IsBody
    <2>3. Len(a) = Len(b) /\ Len(a) # 0
        <3>1. n - 4 # 0
            BY <1>5
        <3> QED
            BY <2>0, <3>1, Zenon
    <2>4. \E r, q \in Words16 :
              /\ Crc16(a) = Number(r) /\ Crc16(b) = Number(q)
              /\ Xor(r, q) = Eight(Xor(High(a[Len(a)]), High(b[Len(a)])))
        BY <2>0, <2>2, <2>3, LastByteChangesRegister
    <2>5. a[Len(a)] = F[i] /\ b[Len(a)] = G[i]
        BY <1>3, <1>4, <2>0, <2>1 DEF IsBody
    <2> QED
        BY <2>4, <2>5 DEF d
<1>9. PICK r \in Words16, q \in Words16 :
          Crc16(a) = Number(r) /\ Crc16(b) = Number(q) /\ Xor(r, q) = Eight(d)
    BY <1>8
<1>10. /\ F[i] \in 0..255 /\ G[i] \in 0..255 /\ F[next] \in 0..255 /\ G[next] \in 0..255
       /\ F[n] \in 0..255
    <2>1. F \in Seq(0..255) /\ G \in Seq(0..255)
        BY DEF Whole
    <2>2. F[i] \in 0..255 /\ F[next] \in 0..255
        BY <1>5, <2>1, ElementOfSeq
    <2>3. G[i] \in 0..255 /\ G[next] \in 0..255
        BY <1>5, <2>1, ElementOfSeq
    <2>4. n \in 1..Len(F)
        BY <1>5
    <2>5. F[n] \in 0..255
        BY <2>1, <2>4, ElementOfSeq
    <2> QED
        BY <2>2, <2>3, <2>5
<1>11. r = Bits[F[next]] \cup High(F[n])
    <2>1. PICK low \in 0..255, high \in 0..255 : low = F[next] /\ high = F[n]
        BY <1>10
    <2>2. /\ Bits[low] \cup High(high) \in Words16
          /\ Number(Bits[low] \cup High(high)) = low + 256 * high
        <3>1. WordIs(low, high)
            BY ONLY low \in 0..255, high \in 0..255, WordOfBytes
        <3> QED
            BY <3>1, Zenon DEF WordIs
    <2>3. Number(r) = F[next] + 256 * F[n]
        BY <1>3, <1>5, <1>9 DEF Seen
    <2> QED
        BY <2>1, <2>2, <2>3, NumberInjective DEF Words16
<1>12. Accepted(G) <=> q = Bits[G[next]] \cup High(F[n])
    <2>1. PICK low \in 0..255, high \in 0..255 : low = G[next] /\ high = F[n]
        BY <1>10
    <2>2. /\ Bits[low] \cup High(high) \in Words16
          /\ Number(Bits[low] \cup High(high)) = low + 256 * high
        <3>1. WordIs(low, high)
            BY ONLY low \in 0..255, high \in 0..255, WordOfBytes
        <3> QED
            BY <3>1, Zenon DEF WordIs
    <2>3. Accepted(G) <=> Number(Bits[low] \cup High(high)) = Number(q)
        BY <1>7, <1>9, <2>1, <2>2
    <2> QED
        BY <2>1, <2>2, <2>3, NumberInjective DEF Words16
<1>13. Bits[G[next]] \cup High(F[n]) = Xor(r, e[2])
    <2>1. High(F[n]) \cap (0..7) = {}
        <3>1. High(F[n]) \in SUBSET (8..15)
            BY <1>10, HighType
        <3>2. \A k \in 8..15 : k \notin 0..7
            OBVIOUS
        <3> QED
            BY <3>1, <3>2
    <2> QED
        BY <1>1, <1>11, <2>1, Zenon DEF Xor
<1>14. Accepted(G) <=> Eight(d) = e[2]
    <2>1. q = Xor(r, e[2]) <=> Xor(r, q) = e[2]
        BY Zenon DEF Xor
    <2> QED
        BY <1>9, <1>12, <1>13, <2>1
<1>15. d = {k + 8 : k \in e[1]}
    <2>1. Bits[F[i]] \in SUBSET (0..7)
        BY <1>10, BitsOfByte
    <2>2. ASSUME NEW x PROVE x \in d <=> x \in {k + 8 : k \in e[1]}
        <3>1. x \in d <=> ~(x \in High(F[i]) <=> x \in High(G[i]))
            BY InXor DEF d
        <3>2. ASSUME NEW k \in 0..7, x = k + 8
              PROVE  /\ x \in High(F[i]) <=> k \in Bits[F[i]]
                     /\ x \in High(G[i]) <=> ~(k \in Bits[F[i]] <=> k \in e[1])
                     /\ x \in {m + 8 : m \in e[1]} <=> k \in e[1]
            <4>1. x \in High(F[i]) <=> k \in Bits[F[i]]
                BY <2>1, <3>2 DEF High
            <4>2. x \in High(G[i]) <=> k \in Bits[G[i]]
                <5>1. Bits[G[i]] \in SUBSET (0..7)
                    BY <1>10, BitsOfByte
                <5> QED
                    BY <3>2, <5>1 DEF High
            <4>3. k \in Bits[G[i]] <=> ~(k \in Bits[F[i]] <=> k \in e[1])
                BY <1>1, InXor
            <4>4. x \in {m + 8 : m \in e[1]} <=> k \in e[1]
                BY <1>1, <3>2
            <4> QED
                BY <4>1, <4>2, <4>3, <4>4
        <3>3. CASE \E k \in 0..7 : x = k + 8
            BY <3>1, <3>2, <3>3
        <3>4. CASE ~ \E k \in 0..7 : x = k + 8
            <4>1. x \notin High(F[i])
                BY <2>1, <3>4 DEF High
            <4>2. x \notin High(G[i])
                <5>1. Bits[G[i]] \in SUBSET (0..7)
                    BY <1>10, BitsOfByte
                <5> QED
                    BY <3>4, <5>1 DEF High
            <4>3. x \notin {k + 8 : k \in e[1]}
                BY <1>1, <3>4
            <4> QED
                BY <3>1, <4>1, <4>2, <4>3
        <3> QED
            BY <3>3, <3>4
    <2> QED
        BY <2>2
<1>16. d \in SUBSET (8..15)
    <2>1. High(F[i]) \in SUBSET (8..15) /\ High(G[i]) \in SUBSET (8..15)
        BY <1>10, HighType
    <2> QED
        BY <2>1 DEF d, Xor
<1>17. d = {8, 11, 15} <=> e[1] = {0, 3, 7}
    <2>1. ASSUME e[1] = {0, 3, 7} PROVE d = {8, 11, 15}
        BY <1>15, <2>1
    <2>2. ASSUME d = {8, 11, 15} PROVE e[1] = {0, 3, 7}
        <3>1. \A k \in 0..7 : k \in e[1] <=> k + 8 \in d
            BY <1>1, <1>15
        <3>2. \A k \in 0..7 : k \in e[1] <=> k \in {0, 3, 7}
            BY <2>2, <3>1
        <3>3. {0, 3, 7} \subseteq 0..7
            OBVIOUS
        <3> QED
            BY <1>1, <3>2, <3>3
    <2> QED
        BY <2>1, <2>2
<1>18. CASE d = {}
    <2>1. e[1] = {}
        BY <1>15, <1>18
    <2>2. Eight(d) = {}
        <3>1. CrcShift({}) = {}
            BY InShift DEF Words16
        <3> QED
            BY <1>18, <3>1 DEF Eight
    <2>3. e[2] # {} /\ e # <<{0, 3, 7}, {0, 5, 7}>>
        BY <1>2, <2>1
    <2> QED
        BY <1>14, <2>2, <2>3
<1>19. CASE d # {}
    <2>1. /\ Eight(d) \in SUBSET (0..7) => d = {8, 11, 15}
          /\ d = {8, 11, 15} => Eight(d) = {0, 5, 7}
        BY <1>16, <1>19, EightHigh
    <2>2. Eight(d) = e[2] <=> e[1] = {0, 3, 7} /\ e[2] = {0, 5, 7}
        BY <1>1, <1>17, <2>1
    <2>3. e = <<{0, 3, 7}, {0, 5, 7}>> <=> e[1] = {0, 3, 7} /\ e[2] = {0, 5, 7}
        BY <1>2
    <2> QED
        BY <1>14, <2>2, <2>3
<1> QED
    BY <1>18, <1>19

LEMMA DamageOnce ==
    ASSUME NEW F, NEW n, Whole(F, n), Accepted(F), NEW i \in DamagedAt(F), NEW e \in Errors
    PROVE  /\ Whole(Struck(F, i, e), n)
           /\ Accepted(Struck(F, i, e)) <=> i = n - 2 /\ e = <<{0, 3, 7}, {0, 5, 7}>>
<1>1. F \in Seq(0..255) /\ n \in Nat /\ n = Len(F) /\ n >= 14
    BY DEF Whole
<1>2. i \in 1..(n - 1) /\ ({i, i + 1} \cap {11, 12} = {})
    BY <1>1 DEF DamagedAt
<1>3. PICK next \in 1..n : next = i + 1
    <2>1. i + 1 \in 1..n
        BY <1>1, <1>2
    <2> QED
        BY <2>1
<1>4. PICK G : G = Struck(F, i, e)
    OBVIOUS
<1>5. G \in Seq(0..255) /\ DifferAt(F, G, i, next) /\ DifferBy(F, G, i, next, e)
    <2>1. i \in 1..Len(F) /\ next \in 1..Len(F)
        BY <1>1, <1>2, <1>3
    <2> QED
        BY <1>1, <1>3, <1>4, <2>1, StruckBytes
<1>6. Whole(G, n)
    BY <1>1, <1>5 DEF Whole, DifferAt
<1>7. CASE next <= n - 2
    <2>1. ~Accepted(G)
        BY <1>5, <1>6, <1>7, DamageBeforeCrc
    <2>2. i # n - 2
        BY <1>1, <1>2, <1>3, <1>7
    <2> QED
        BY <1>4, <1>6, <2>1, <2>2
<1>8. CASE next = n - 1
    <2>1. i = n - 2
        BY <1>1, <1>2, <1>3, <1>8
    <2>2. n >= 15
        <3>1. i # 12
            BY <1>2
        <3> QED
            BY <1>1, <2>1, <3>1
    <2>3. Accepted(G) <=> e = <<{0, 3, 7}, {0, 5, 7}>>
        BY <1>5, <1>6, <2>1, <2>2, DamageAcross
    <2> QED
        BY <1>4, <1>6, <2>1, <2>3
<1>9. CASE next = n
    <2>1. ~Accepted(G)
        BY <1>5, <1>6, <1>9, DamageInCrc
    <2>2. i # n - 2
        BY <1>1, <1>2, <1>3, <1>9
    <2> QED
        BY <1>4, <1>6, <2>1, <2>2
<1>10. next <= n - 2 \/ next = n - 1 \/ next = n
    BY <1>1, <1>3
<1> QED
    BY <1>7, <1>8, <1>9, <1>10

-----------------------------------------------------------------------------
(* Frames. *)

LEMMA IsShort ==
    ASSUME NEW y \in Nat, y <= 256 * 255 + 255
    PROVE  y \in Shorts
<1>1. PICK top : top = 256 * 256 - 1
    OBVIOUS
<1>2. y <= top /\ top \in Nat
    BY <1>1
<1>3. y \in 0..top
    BY ONLY y \in Nat, <1>2
<1> QED
    BY <1>1, <1>3, Zenon DEF Shorts

LEMMA NumberOfWord ==
    ASSUME NEW b \in Words16
    PROVE  Number(b) \in Shorts
<1>1. PICK x : Sums(b, x)
    BY NumberAbove
<1>2. ASSUME NEW k \in 0..15, NEW j \in 1..16, j = k + 1, NEW top \in Nat, x[j] <= top
      PROVE  x[k] \in Nat /\ x[k] <= 2 * top + 1
    <2>1. /\ x[j] \in Nat
          /\ k \in b => x[k] = 2 * x[j] + 1
          /\ k \notin b => x[k] = 2 * x[j]
        BY <1>1, <1>2, SumsStep
    <2> QED
        BY <1>2, <2>1
<1>3. x[16] = 0
    BY <1>1 DEF Sums
<1>4. x[15] <= 1 /\ x[14] <= 3 /\ x[13] <= 7 /\ x[12] <= 15
    BY <1>2, <1>3
<1>5. x[11] <= 31 /\ x[10] <= 63 /\ x[9] <= 127 /\ x[8] <= 255
    BY <1>2, <1>4
<1>6. x[7] <= 2 * 255 + 1 /\ x[6] <= 4 * 255 + 3 /\ x[5] <= 8 * 255 + 7 /\ x[4] <= 16 * 255 + 15
    BY <1>2, <1>5
<1>7. x[3] <= 32 * 255 + 31 /\ x[2] <= 64 * 255 + 63 /\ x[1] <= 128 * 255 + 127
    BY <1>2, <1>6
<1>8. x[0] <= 256 * 255 + 255 /\ x[0] \in Nat
    BY <1>2, <1>7
<1>9. Number(b) = x[0]
    BY <1>1 DEF Sums
<1> QED
    BY <1>8, <1>9, IsShort

LEMMA CrcIsWord ==
    ASSUME NEW bytes \in Seq(0..255)
    PROVE  Crc16(bytes) \in Shorts
<1>1. PICK r : IsRegister(bytes, r) /\ Crc16(bytes) = Number(r[Len(bytes)])
    BY Registers
<1>2. PICK w \in Words16 : w = r[Len(bytes)]
    <2>1. Len(bytes) \in 0..Len(bytes)
        OBVIOUS
    <2>2. r[Len(bytes)] \in Words16
        BY <1>1, <2>1 DEF IsRegister
    <2> QED
        BY <2>2
<1>3. Number(w) \in Shorts
    BY NumberOfWord
<1> QED
    BY <1>1, <1>2, <1>3

(* Bytes that stand for a value *)
Stand(bytes, n, v) == bytes \in Seq(0..255) /\ Len(bytes) = n /\ FromLe(bytes) = v

(* The two bytes of a word *)
IsSplit(v, a, b) == /\ a \in 0..255 /\ b \in 0..255 /\ a = v % 256 /\ b = v \div 256
                    /\ v = a + 256 * b

LEMMA WordSplit ==
    ASSUME NEW v \in Shorts
    PROVE  \E a, b : IsSplit(v, a, b)
<1>1. PICK a, b : a = v % 256 /\ b = v \div 256
    OBVIOUS
<1>2. a \in 0..255 /\ b \in 0..255 /\ v = a + 256 * b
    <2>1. v \in Nat /\ v < 256 * 256
        <3>1. PICK top : top = 256 * 256 - 1
            OBVIOUS
        <3>2. v \in 0..top
            BY <3>1, Zenon DEF Shorts
        <3>3. top \in Nat /\ top < 256 * 256
            BY ONLY <3>1
        <3>4. v \in Nat /\ v <= top
            BY ONLY <3>2, <3>3
        <3> QED
            BY ONLY <3>3, <3>4
    <2>2. a \in 0..255
        BY ONLY <1>1, <2>1
    <2>3. b \in Nat /\ v = a + 256 * b
        BY ONLY <1>1, <2>1
    <2>4. b \in 0..255
        BY ONLY <2>1, <2>2, <2>3
    <2> QED
        BY <2>2, <2>3, <2>4, Zenon
<1>3. IsSplit(v, a, b)
    BY <1>1, <1>2 DEF IsSplit
<1> QED
    BY <1>3, Zenon

LEMMA FromTwo ==
    ASSUME NEW s, Len(s) = 2
    PROVE  FromLe(s) = s[1] + 256 * s[2]
<1>1. 1 + 1 = 2 /\ 2 # 1
    OBVIOUS
<1> QED
    BY ONLY Len(s) = 2, <1>1 DEF FromLe

LEMMA FromFour ==
    ASSUME NEW s, Len(s) = 4
    PROVE  FromLe(s) = <<s[1] + 256 * s[2], s[3] + 256 * s[4]>>
<1>1. 1 + 1 = 2 /\ 3 + 1 = 4 /\ 4 # 1 /\ 4 # 2
    OBVIOUS
<1> QED
    BY ONLY Len(s) = 4, <1>1 DEF FromLe

LEMMA FromOne ==
    ASSUME NEW s, Len(s) = 1
    PROVE  FromLe(s) = s[1]
BY DEF FromLe

LEMMA TwoStand ==
    ASSUME NEW v, NEW a, NEW b, IsSplit(v, a, b)
    PROVE  Stand(<<a, b>>, 2, v)
<1>0. a \in 0..255 /\ b \in 0..255 /\ v = a + 256 * b
    BY Zenon DEF IsSplit
<1>1. PICK s : s = <<a, b>>
    OBVIOUS
<1>2. s \in Seq(0..255) /\ Len(s) = 2
    BY ONLY <1>0, <1>1
<1>3. s[1] = a /\ s[2] = b
    BY <1>1
<1>4. FromLe(s) = s[1] + 256 * s[2]
    BY <1>2, FromTwo
<1> QED
    BY <1>0, <1>1, <1>2, <1>3, <1>4, Zenon DEF Stand

LEMMA FourStand ==
    ASSUME NEW v, NEW a, NEW b, IsSplit(v, a, b), NEW w, NEW c, NEW d, IsSplit(w, c, d)
    PROVE  Stand(U16(v) \o U16(w), 4, <<v, w>>)
<1>1. PICK s, t : s = U16(v) /\ t = U16(w)
    OBVIOUS
<1>2. s = <<a, b>> /\ t = <<c, d>>
    BY <1>1, Zenon DEF U16, IsSplit
<1>3. a \in 0..255 /\ b \in 0..255 /\ c \in 0..255 /\ d \in 0..255
    BY Zenon DEF IsSplit
<1>4. PICK u : u = s \o t
    OBVIOUS
<1>5. s \in Seq(0..255) /\ t \in Seq(0..255)
    BY <1>2, <1>3
<1>6. Len(s) = 2 /\ Len(t) = 2 /\ s[1] = a /\ s[2] = b /\ t[1] = c /\ t[2] = d
    BY <1>2
<1>7. u \in Seq(0..255) /\ Len(u) = 4 /\ u[1] = a /\ u[2] = b /\ u[3] = c /\ u[4] = d
    <2>1. /\ u \in Seq(0..255)
          /\ Len(u) = Len(s) + Len(t)
          /\ \A k \in 1..Len(s) : u[k] = s[k]
          /\ \A k \in 1..Len(t) : u[Len(s) + k] = t[k]
        BY <1>4, <1>5, Join
    <2>2. u[1] = s[1] /\ u[2] = s[2]
        BY <1>6, <2>1
    <2>3. u[3] = t[1] /\ u[4] = t[2]
        BY <1>6, <2>1
    <2> QED
        BY <1>6, <2>1, <2>2, <2>3
<1>8. FromLe(u) = <<u[1] + 256 * u[2], u[3] + 256 * u[4]>>
    BY <1>7, FromFour
<1>9. a + 256 * b = v /\ c + 256 * d = w
    BY Zenon DEF IsSplit
<1>10. FromLe(u) = <<v, w>>
    BY <1>7, <1>8, <1>9, Zenon
<1> QED
    BY <1>1, <1>4, <1>7, <1>10, Zenon DEF Stand

LEMMA WordBytes ==
    ASSUME NEW v \in Shorts
    PROVE  Stand(U16(v), 2, v)
<1>1. PICK a, b : IsSplit(v, a, b)
    BY WordSplit, Zenon
<1>2. U16(v) = <<a, b>>
    BY <1>1, Zenon DEF U16, IsSplit
<1>3. Stand(<<a, b>>, 2, v)
    BY ONLY <1>1, TwoStand, Zenon
<1> QED
    BY <1>2, <1>3, Zenon

LEMMA PairBytes ==
    ASSUME NEW v \in Shorts \X Shorts
    PROVE  Stand(U32(v), 4, v)
<1>1. v[1] \in Shorts /\ v[2] \in Shorts /\ v = <<v[1], v[2]>>
    OBVIOUS
<1>2. PICK a, b : IsSplit(v[1], a, b)
    BY <1>1, WordSplit, Zenon
<1>3. PICK c, d : IsSplit(v[2], c, d)
    BY <1>1, WordSplit, Zenon
<1>4. Stand(U16(v[1]) \o U16(v[2]), 4, <<v[1], v[2]>>)
    BY <1>2, <1>3, FourStand, Zenon
<1> QED
    BY <1>1, <1>4, Zenon DEF U32

(* The bytes of a value of n bytes *)
LEMMA LeStands ==
    ASSUME NEW n, NEW v,
           \/ n = 1 /\ v \in 0..255
           \/ n = 2 /\ v \in Shorts
           \/ n = 4 /\ v \in Shorts \X Shorts
    PROVE  Stand(Le(v, n), n, v)
<1>1. CASE n = 1 /\ v \in 0..255
    <2>1. Le(v, n) = <<v>>
        BY <1>1 DEF Le
    <2>2. PICK s : s = <<v>>
        OBVIOUS
    <2>3. s \in Seq(0..255) /\ Len(s) = 1 /\ s[1] = v
        BY <1>1, <2>2
    <2>4. Stand(s, 1, v)
        BY <2>3, FromOne DEF Stand
    <2> QED
        BY <1>1, <2>1, <2>2, <2>4
<1>2. CASE n = 2 /\ v \in Shorts
    <2>1. Le(v, n) = U16(v)
        BY <1>2 DEF Le
    <2> QED
        BY <1>2, <2>1, WordBytes
<1>3. CASE n = 4 /\ v \in Shorts \X Shorts
    <2>1. Le(v, n) = U32(v)
        BY <1>3 DEF Le
    <2> QED
        BY <1>3, <2>1, PairBytes
<1> QED
    BY <1>1, <1>2, <1>3

(* p stands in s behind the first at elements. *)
Piece(S, s, at, p) ==
    /\ s \in Seq(S) /\ p \in Seq(S) /\ at \in Nat
    /\ at + Len(p) <= Len(s)
    /\ \A j \in 1..Len(p), k \in 1..Len(s) : k = at + j => s[k] = p[j]

LEMMA PieceWhole ==
    ASSUME NEW S, NEW s \in Seq(S)
    PROVE  Piece(S, s, 0, s)
BY DEF Piece

(* The two parts of a piece *)
LEMMA PieceSplit ==
    ASSUME NEW S, NEW s, NEW at, NEW a \in Seq(S), NEW b \in Seq(S), Piece(S, s, at, a \o b),
           NEW next, next = at + Len(a)
    PROVE  Piece(S, s, at, a) /\ Piece(S, s, next, b)
<1>1. PICK c : c = a \o b
    OBVIOUS
<1>2. /\ c \in Seq(S) /\ Len(c) = Len(a) + Len(b)
      /\ \A i \in 1..Len(a) : c[i] = a[i]
      /\ \A j \in 1..Len(b) : c[Len(a) + j] = b[j]
    BY <1>1, Join
<1>3. /\ s \in Seq(S) /\ at \in Nat
      /\ at + Len(c) <= Len(s)
      /\ \A j \in 1..Len(c), k \in 1..Len(s) : k = at + j => s[k] = c[j]
    BY <1>1 DEF Piece
<1>4. Len(a) \in Nat /\ Len(b) \in Nat /\ Len(s) \in Nat
    BY <1>3
<1>5. Piece(S, s, at, a)
    <2>1. at + Len(a) <= Len(s)
        BY <1>2, <1>3, <1>4
    <2>2. \A j \in 1..Len(a) : j \in 1..Len(c)
        BY <1>2, <1>4
    <2>3. \A j \in 1..Len(a), k \in 1..Len(s) : k = at + j => s[k] = a[j]
        BY <1>2, <1>3, <2>2
    <2> QED
        BY <1>3, <2>1, <2>3 DEF Piece
<1>6. Piece(S, s, next, b)
    <2>1. next \in Nat /\ next + Len(b) <= Len(s)
        BY <1>2, <1>3, <1>4
    <2>2. ASSUME NEW j \in 1..Len(b), NEW k \in 1..Len(s), k = next + j PROVE s[k] = b[j]
        <3>1. PICK m \in 1..Len(c) : m = Len(a) + j
            <4>1. Len(a) + j \in 1..Len(c)
                BY <1>2, <1>4
            <4> QED
                BY <4>1
        <3>2. k = at + m
            BY <1>3, <1>4, <2>2, <3>1
        <3>3. s[k] = c[m]
            BY <1>3, <3>2
        <3>4. c[m] = b[j]
            BY <1>2, <3>1
        <3> QED
            BY <3>3, <3>4
    <2> QED
        BY <1>3, <2>1, <2>2 DEF Piece
<1> QED
    BY <1>5, <1>6

LEMMA PieceCut ==
    ASSUME NEW S, NEW s, NEW at, NEW p, Piece(S, s, at, p),
           NEW from, NEW to, from = at + 1, to = at + Len(p)
    PROVE  SubSeq(s, from, to) = p
<1>1. /\ s \in Seq(S) /\ p \in Seq(S) /\ at \in Nat
      /\ at + Len(p) <= Len(s)
      /\ \A j \in 1..Len(p), k \in 1..Len(s) : k = at + j => s[k] = p[j]
    BY DEF Piece
<1>2. PICK n \in Nat, all \in Nat : n = Len(p) /\ all = Len(s)
    BY <1>1
<1>3. IsCut(s, from, n, to)
    BY <1>1, <1>2 DEF IsCut
<1>4. SubSeq(s, from, to) \in Seq(S) /\ Holds(SubSeq(s, from, to), s, from, n)
    BY <1>1, <1>3, Cut
<1>5. ASSUME NEW j \in 1..n PROVE SubSeq(s, from, to)[j] = p[j]
    <2>1. PICK k \in 1..Len(s) : k = at + j
        <3>1. at + j \in 1..Len(s)
            BY <1>1, <1>2
        <3> QED
            BY <3>1
    <2>2. k = from + j - 1
        BY <1>1, <2>1
    <2>3. SubSeq(s, from, to)[j] = s[k]
        BY <1>4, <2>2 DEF Holds
    <2>4. s[k] = p[j]
        BY <1>1, <1>2, <2>1
    <2> QED
        BY <2>3, <2>4
<1>6. Len(SubSeq(s, from, to)) = n
    BY <1>4 DEF Holds
<1> QED
    BY <1>1, <1>2, <1>4, <1>5, <1>6, SeqEqual

LEMMA PieceAt ==
    ASSUME NEW S, NEW s, NEW at, NEW p, Piece(S, s, at, p),
           NEW j \in 1..Len(p), NEW k, k = at + j
    PROVE  k \in 1..Len(s) /\ s[k] = p[j]
<1>1. s \in Seq(S) /\ p \in Seq(S) /\ at \in Nat /\ at + Len(p) <= Len(s)
    BY DEF Piece
<1>2. PICK n \in Nat, all \in Nat : n = Len(p) /\ all = Len(s)
    BY <1>1
<1>3. k \in 1..Len(s)
    BY <1>1, <1>2
<1> QED
    BY <1>3 DEF Piece

(* A sequence of n bytes *)
Bytes(s, n) == s \in Seq(0..255) /\ n \in Nat /\ Len(s) = n

(* It stands in s behind the first at bytes. *)
At(s, at, p) == Piece(0..255, s, at, p)

LEMMA BytesJoin ==
    ASSUME NEW s, NEW n, Bytes(s, n), NEW t, NEW m, Bytes(t, m), NEW all, all = n + m
    PROVE  Bytes(s \o t, all)
<1>1. s \in Seq(0..255) /\ t \in Seq(0..255)
    BY DEF Bytes
<1>2. s \o t \in Seq(0..255) /\ Len(s \o t) = Len(s) + Len(t)
    BY <1>1, Join
<1>3. n \in Nat /\ m \in Nat /\ Len(s) = n /\ Len(t) = m
    BY DEF Bytes
<1> QED
    BY <1>2, <1>3 DEF Bytes

LEMMA AtStart ==
    ASSUME NEW s, NEW n, Bytes(s, n)
    PROVE  At(s, 0, s)
BY PieceWhole DEF Bytes, At

LEMMA AtSplit ==
    ASSUME NEW s, NEW at, NEW a, NEW n, Bytes(a, n), NEW b, NEW m, Bytes(b, m), At(s, at, a \o b),
           NEW next, next = at + n
    PROVE  At(s, at, a) /\ At(s, next, b)
<1>1. a \in Seq(0..255) /\ b \in Seq(0..255) /\ next = at + Len(a)
    BY DEF Bytes
<1>2. Piece(0..255, s, at, a \o b)
    BY DEF At
<1>3. Piece(0..255, s, at, a) /\ Piece(0..255, s, next, b)
    BY <1>1, <1>2, PieceSplit
<1> QED
    BY <1>3 DEF At

LEMMA AtCut ==
    ASSUME NEW s, NEW at, NEW p, NEW n, Bytes(p, n), At(s, at, p),
           NEW from, NEW to, from = at + 1, to = at + n
    PROVE  SubSeq(s, from, to) = p
<1>1. to = at + Len(p)
    BY DEF Bytes
<1>2. Piece(0..255, s, at, p)
    BY DEF At
<1> QED
    BY <1>1, <1>2, PieceCut

LEMMA AtSlice ==
    ASSUME NEW s, NEW at, NEW p, NEW n, Bytes(p, n), At(s, at, p)
    PROVE  SubSeq(s, at + 1, at + n) = p
BY AtCut

LEMMA AtByte ==
    ASSUME NEW s, NEW at, NEW p, NEW n, Bytes(p, n), At(s, at, p),
           NEW j, j \in 1..n, NEW k, k = at + j
    PROVE  k \in 1..Len(s) /\ s[k] = p[j]
<1>1. j \in 1..Len(p)
    BY DEF Bytes
<1>2. Piece(0..255, s, at, p)
    BY DEF At
<1> QED
    BY <1>1, <1>2, PieceAt

(* What a reader gets from a frame of this type, time and payload *)
Packed(F, type, time, payload) ==
    /\ Whole(F, Len(F)) /\ Len(F) = Len(payload) + 14
    /\ Accepted(F)
    /\ F[4] = type
    /\ FromLe(SubSeq(F, 7, 10)) = time
    /\ PayloadOf(F) = payload

LEMMA FrameIsPacked ==
    ASSUME NEW type \in {Delta, Keyframe}, NEW number \in Shorts, NEW time \in Shorts \X Shorts,
           NEW payload \in Seq(0..255), Len(payload) \in Shorts
    PROVE  Packed(FramePacket(type, number, time, payload), type, time, payload)
<1> DEFINE start == <<Version, type>>
           b2 == Le(number, 2)
           b4 == Le(time, 4)
           bl == Le(Len(payload), 2)
           h1 == Sync \o start
           h2 == h1 \o b2
           h3 == h2 \o b4
           h4 == h3 \o bl
           body == h4 \o payload
           crc == Le(Crc16(Covered(body)), 2)
           F == body \o crc
<1>1. FramePacket(type, number, time, payload) = F
    BY DEF FramePacket
<1>2. Bytes(b2, 2)
    <2>1. Stand(b2, 2, number)
        BY LeStands
    <2> QED
        BY <2>1 DEF Stand, Bytes
<1>3. Bytes(b4, 4) /\ FromLe(b4) = time
    <2>1. Stand(b4, 4, time)
        BY LeStands
    <2> QED
        BY <2>1 DEF Stand, Bytes
<1>4. Bytes(bl, 2) /\ Len(bl) = 2 /\ FromLe(bl) = Len(payload)
    <2>1. Stand(bl, 2, Len(payload))
        BY LeStands
    <2> QED
        BY <2>1 DEF Stand, Bytes
<1>5. Bytes(start, 2) /\ start[1] = 1 /\ start[2] = type
    BY DEF Version, Delta, Keyframe, Bytes
<1>6. Bytes(Sync, 2) /\ Sync[1] = 170 /\ Sync[2] = 85
    BY DEF Sync, Bytes
<1> HIDE DEF start, b2, b4, bl
<1>7. Bytes(h1, 4)
    BY <1>5, <1>6, BytesJoin
<1> HIDE DEF h1
<1>8. Bytes(h2, 6)
    BY <1>2, <1>7, BytesJoin
<1> HIDE DEF h2
<1>9. Bytes(h3, 10)
    BY <1>3, <1>8, BytesJoin
<1> HIDE DEF h3
<1>10. Bytes(h4, 12)
    <2>1. Bytes(bl, 2) /\ 12 = 10 + 2
        BY <1>4
    <2> QED
        BY <1>9, <2>1, BytesJoin
<1> HIDE DEF h4
<1>11. PICK m \in Nat, all \in Nat, n \in Nat : m = Len(payload) /\ all = m + 12 /\ n = m + 14
    <2>1. Len(payload) \in Nat /\ Len(payload) + 12 \in Nat /\ Len(payload) + 14 \in Nat
        OBVIOUS
    <2> QED
        BY <2>1
<1>12. Bytes(payload, m) /\ Bytes(body, all)
    <2>1. Bytes(payload, m)
        BY <1>11 DEF Bytes
    <2>2. all = 12 + m
        BY <1>11
    <2> QED
        BY <1>10, <2>1, <2>2, BytesJoin
<1> HIDE DEF body
<1>13. /\ Bytes(crc, 2) /\ Len(crc) = 2
       /\ FromLe(crc) = Crc16(Covered(body))
    <2>1. Covered(body) \in Seq(0..255)
        <3>1. PICK k \in Nat : k = all - 2
            <4>1. all - 2 \in Nat
                BY <1>11
            <4> QED
                BY <4>1
        <3>2. IsCut(body, 3, k, all)
            BY <1>11, <1>12, <3>1 DEF IsCut, Bytes
        <3>3. SubSeq(body, 3, all) \in Seq(0..255)
            BY ONLY <1>12, <3>2, Cut, Zenon DEF Bytes
        <3> QED
            BY <1>12, <3>3 DEF Covered, Bytes
    <2>2. Crc16(Covered(body)) \in Shorts
        BY <2>1, CrcIsWord
    <2>3. Stand(crc, 2, Crc16(Covered(body)))
        BY <2>2, LeStands
    <2> QED
        BY <2>3 DEF Stand, Bytes
<1> HIDE DEF crc
<1>14. Bytes(F, n)
    <2>1. n = all + 2
        BY <1>11
    <2> QED
        BY <1>12, <1>13, <2>1, BytesJoin
<1>15. Whole(F, n)
    BY <1>11, <1>14 DEF Whole, Bytes
<1>16. At(F, 0, body) /\ At(F, all, crc)
    <2>1. At(F, 0, body \o crc)
        BY <1>14, AtStart
    <2>2. all = 0 + all
        BY <1>11
    <2> QED
        BY <1>12, <1>13, <2>1, <2>2, AtSplit
<1> HIDE DEF F
<1>17. At(F, 0, h4) /\ At(F, 12, payload)
    BY <1>10, <1>12, <1>16, AtSplit DEF body
<1>18. At(F, 0, h3) /\ At(F, 10, bl)
    BY ONLY <1>4, <1>9, <1>17, AtSplit DEF h4
<1>19. At(F, 0, h2) /\ At(F, 6, b4)
    BY ONLY <1>3, <1>8, <1>18, AtSplit DEF h3
<1>20. At(F, 0, h1) /\ At(F, 4, b2)
    BY <1>2, <1>7, <1>19, AtSplit DEF h2
<1>21. At(F, 0, Sync) /\ At(F, 2, start)
    BY <1>5, <1>6, <1>20, AtSplit DEF h1
<1>22. F[1] = 170 /\ F[2] = 85 /\ F[3] = 1 /\ F[4] = type
    <2>1. F[1] = Sync[1] /\ F[2] = Sync[2]
        BY <1>6, <1>21, AtByte
    <2>2. F[3] = start[1] /\ F[4] = start[2]
        BY <1>5, <1>21, AtByte
    <2> QED
        BY <1>5, <1>6, <2>1, <2>2
<1>23. F[11] + 256 * F[12] = Len(payload)
    <2>1. F[11] = bl[1] /\ F[12] = bl[2]
        BY <1>4, <1>18, AtByte
    <2>2. FromLe(bl) = bl[1] + 256 * bl[2]
        BY <1>4, FromTwo
    <2> QED
        BY <1>4, <2>1, <2>2
<1>24. F[n - 1] + 256 * F[n] = Crc16(Body(F))
    <2>1. n - 1 = all + 1 /\ n = all + 2
        BY <1>11
    <2>2. F[all + 1] = crc[1] /\ F[all + 2] = crc[2]
        BY <1>13, <1>16, AtByte
    <2>3. FromLe(crc) = crc[1] + 256 * crc[2]
        BY <1>13, FromTwo
    <2>4. SubSeq(F, 1, n - 2) = body
        <3>1. n - 2 = 0 + all
            BY <1>11
        <3>2. 1 = 0 + 1
            OBVIOUS
        <3> QED
            BY ONLY <1>12, <1>16, <3>1, <3>2, AtCut
    <2>5. Body(F) = Covered(body)
        BY <1>14, <2>4 DEF Body, Bytes
    <2> QED
        <3>1. F[n - 1] = crc[1] /\ F[n] = crc[2]
            BY <2>1, <2>2, Zenon
        <3>2. Crc16(Body(F)) = FromLe(crc)
            BY <1>13, <2>5, Zenon
        <3> QED
            BY <2>3, <3>1, <3>2, Zenon
<1>25. Accepted(F)
    <2>1. Seen(F, n, Crc16(Body(F)))
        BY <1>11, <1>22, <1>23, <1>24 DEF Seen
    <2> QED
        BY <1>15, <2>1, FrameParts
<1>26. FromLe(SubSeq(F, 7, 10)) = time
    <2>1. SubSeq(F, 7, 10) = b4
        <3>1. PICK at, from, to, k : at = 6 /\ from = 7 /\ to = 10 /\ k = 4
            OBVIOUS
        <3>2. Bytes(b4, k) /\ At(F, at, b4)
            BY <1>3, <1>19, <3>1
        <3>3. from = at + 1 /\ to = at + k
            BY <3>1
        <3>4. SubSeq(F, from, to) = b4
            BY ONLY <3>2, <3>3, AtCut
        <3> QED
            BY <3>1, <3>4
    <2> QED
        BY <1>3, <2>1
<1>27. PayloadOf(F) = payload
    <2>1. SubSeq(F, 13, all) = payload
        <3>1. 13 = 12 + 1 /\ all = 12 + m
            BY <1>11
        <3> QED
            BY <1>12, <1>17, <3>1, AtCut
    <2>2. Len(F) - 2 = all /\ HeaderSize + 1 = 13
        BY <1>11, <1>14 DEF HeaderSize, Bytes
    <2> QED
        BY <2>1, <2>2 DEF PayloadOf
<1>28. Len(F) = Len(payload) + 14 /\ Len(F) = n
    BY <1>11, <1>14 DEF Bytes
<1>29. Packed(F, type, time, payload)
    BY <1>14, <1>15, <1>22, <1>25, <1>26, <1>27, <1>28, Zenon DEF Packed
<1> QED
    BY <1>1, <1>29, Zenon

-----------------------------------------------------------------------------
(* FlattenSeq. *)

(* g[k] is the first k parts, one after the other. *)
IsLaid(parts, n, g) ==
    /\ g \in [0..n -> Seq(0..255)]
    /\ g[0] = <<>>
    /\ \A k \in 0..(n - 1) : g[k + 1] = g[k] \o parts[k + 1]

(* The turns of the recursive function in FlattenSeq *)
IsIt(parts, n, f) ==
    f = [i \in 1..n |-> IF i = 1 THEN parts[i] ELSE f[i - 1] \o parts[i]]

LEMMA LaidIsIt ==
    ASSUME NEW n \in Nat, n # 0, NEW parts \in [1..n -> Seq(0..255)], NEW g, IsLaid(parts, n, g)
    PROVE  IsIt(parts, n, [i \in 1..n |-> g[i]])
<1> DEFINE f == [i \in 1..n |-> g[i]]
<1>1. ASSUME NEW i \in 1..n
      PROVE  f[i] = IF i = 1 THEN parts[i] ELSE f[i - 1] \o parts[i]
    <2>1. PICK k \in 0..(n - 1) : i = k + 1 /\ k = i - 1
        <3>1. i - 1 \in 0..(n - 1) /\ i = (i - 1) + 1
            OBVIOUS
        <3> QED
            BY <3>1
    <2>2. g[i] = g[k] \o parts[i]
        BY <2>1 DEF IsLaid
    <2>3. CASE i = 1
        <3>0. k = 0 /\ g[0] = <<>>
            BY <2>1, <2>3 DEF IsLaid
        <3>1. g[i] = <<>> \o parts[1]
            BY <2>2, <2>3, <3>0
        <3>2. <<>> \o parts[1] = parts[1]
            <4>1. parts[1] \in Seq(0..255)
                BY <2>3
            <4> QED
                BY <4>1, ConcatEmptySeq
        <3> QED
            BY <2>3, <3>1, <3>2
    <2>4. CASE i # 1
        <3>1. k \in 1..n /\ f[k] = g[k]
            BY <2>1, <2>4
        <3> QED
            BY <2>1, <2>2, <2>4, <3>1
    <2> QED
        BY <2>3, <2>4
<1> HIDE DEF f
<1>2. f = [i \in 1..n |-> f[i]]
    BY DEF f
<1>3. IsIt(parts, n, f)
    BY <1>1, <1>2 DEF IsIt
<1> QED
    BY <1>3 DEF f

LEMMA ItIsLaid ==
    ASSUME NEW n \in Nat, n # 0, NEW parts \in [1..n -> Seq(0..255)], NEW g, IsLaid(parts, n, g),
           NEW f, IsIt(parts, n, f)
    PROVE  f[n] = g[n]
<1> DEFINE T == {k \in Nat : k + 1 <= n => f[k + 1] = g[k + 1]}
<1>0. PICK h : h = [i \in 1..n |-> g[i]]
    OBVIOUS
<1>1. IsIt(parts, n, h)
    BY <1>0, LaidIsIt
<1>2. 0 \in T
    <2>1. f[1] = parts[1] /\ h[1] = parts[1]
        BY <1>1 DEF IsIt
    <2> QED
        BY <1>0, <2>1
<1>3. ASSUME NEW k \in Nat, k \in T PROVE k + 1 \in T
    <2> SUFFICES ASSUME (k + 1) + 1 <= n PROVE f[(k + 1) + 1] = g[(k + 1) + 1]
        OBVIOUS
    <2>1. PICK i \in 1..n, j \in 1..n : i = (k + 1) + 1 /\ j = k + 1 /\ i - 1 = j /\ i # 1
        <3>1. (k + 1) + 1 \in 1..n /\ k + 1 \in 1..n
            OBVIOUS
        <3> QED
            BY <3>1
    <2>2. f[j] = h[j]
        BY <1>0, <1>3, <2>1
    <2>3. f[i] = f[j] \o parts[i] /\ h[i] = h[j] \o parts[i]
        BY <1>1, <2>1, Zenon DEF IsIt
    <2> QED
        BY <1>0, <2>1, <2>2, <2>3
<1> HIDE DEF T
<1>4. Nat \subseteq T
    BY <1>2, <1>3, InductionOnSet
<1>5. PICK k \in Nat : k + 1 = n
    <2>1. n - 1 \in Nat /\ (n - 1) + 1 = n
        OBVIOUS
    <2> QED
        BY <2>1
<1>6. k \in T /\ k + 1 <= n
    BY <1>4, <1>5
<1>7. f[k + 1] = g[k + 1]
    BY <1>6 DEF T
<1> QED
    BY <1>5, <1>7

LEMMA Flatten ==
    ASSUME NEW n \in Nat, NEW parts \in [1..n -> Seq(0..255)]
    PROVE  \E g : IsLaid(parts, n, g) /\ Seqs!FlattenSeq(parts) = g[n]
<1> DEFINE X == Seq(0..255)
           step == [c \in X \X Nat |-> IF c[2] \in 1..n THEN c[1] \o parts[c[2]] ELSE c[1]]
<1>1. step \in [X \X Nat -> X]
    <2>1. ASSUME NEW c \in X \X Nat PROVE (IF c[2] \in 1..n THEN c[1] \o parts[c[2]] ELSE c[1]) \in X
        <3>1. c[1] \in X
            OBVIOUS
        <3>2. CASE c[2] \in 1..n
            <4>1. parts[c[2]] \in Seq(0..255)
                BY <3>2
            <4>2. c[1] \o parts[c[2]] \in X
                BY <3>1, <4>1, Join
            <4> QED
                BY <3>2, <4>2
        <3> QED
            BY <3>1, <3>2
    <2> QED
        BY <2>1
<1>2. <<>> \in X
    OBVIOUS
<1>3. ASSUME NEW x \in X, NEW k \in 1..n PROVE step[<<x, k>>] = x \o parts[k]
    <2>1. <<x, k>> \in X \X Nat
        OBVIOUS
    <2> QED
        BY <2>1
<1> HIDE DEF X, step
<1>4. PICK g : IsLoop(X, <<>>, step, n, g)
    BY <1>1, <1>2, LoopExists
<1>5. IsLaid(parts, n, g)
    <2>1. g \in [0..n -> X] /\ g[0] = <<>>
        BY <1>4 DEF IsLoop
    <2>2. ASSUME NEW k \in 0..(n - 1) PROVE g[k + 1] = g[k] \o parts[k + 1]
        <3>1. g[k + 1] = step[<<g[k], k + 1>>]
            BY <1>4 DEF IsLoop
        <3>2. g[k] \in X /\ k + 1 \in 1..n
            BY <2>1
        <3> QED
            BY <1>3, <3>1, <3>2
    <2> QED
        BY <2>1, <2>2 DEF IsLaid, X
<1>6. DOMAIN parts = 1..n /\ Len(parts) = n
    OBVIOUS
<1>7. CASE n = 0
    <2>1. Seqs!FlattenSeq(parts) = parts
        BY <1>6, <1>7 DEF Seqs!FlattenSeq
    <2>2. parts = <<>>
        BY <1>6, <1>7
    <2> QED
        BY <1>5, <1>7, <2>1, <2>2 DEF IsLaid
<1>8. CASE n # 0
    <2>1. Seqs!FlattenSeq(parts) = (CHOOSE f : IsIt(parts, n, f))[n]
        BY <1>6, <1>8 DEF Seqs!FlattenSeq, IsIt
    <2>2. \E f : IsIt(parts, n, f)
        BY <1>5, <1>8, LaidIsIt
    <2>3. PICK f : f = CHOOSE h : IsIt(parts, n, h)
        OBVIOUS
    <2>4. IsIt(parts, n, f)
        BY <2>2, <2>3
    <2>5. f[n] = g[n]
        BY <1>5, <1>8, <2>4, ItIsLaid
    <2> QED
        BY <1>5, <2>1, <2>3, <2>5
<1> QED
    BY <1>7, <1>8

(* The first k parts stand where all of them do, and the next one behind    *)
(* them.                                                                    *)
LEMMA LaidAt ==
    ASSUME NEW n \in Nat, NEW parts \in [1..n -> Seq(0..255)], NEW g, IsLaid(parts, n, g),
           NEW s, NEW at, At(s, at, g[n]), NEW k \in 0..(n - 1)
    PROVE  At(s, at, g[k]) /\ At(s, at + Len(g[k]), parts[k + 1])
<1> DEFINE T == {j \in Nat : \A i \in 0..n : i + j = n => At(s, at, g[i])}
<1>1. ASSUME NEW i \in 0..(n - 1), At(s, at, g[i + 1])
      PROVE  At(s, at, g[i]) /\ At(s, at + Len(g[i]), parts[i + 1])
    <2>1. i + 1 \in 1..n /\ i \in 0..n
        OBVIOUS
    <2>2. g[i] \in Seq(0..255) /\ parts[i + 1] \in Seq(0..255) /\ g[i + 1] = g[i] \o parts[i + 1]
        BY <2>1 DEF IsLaid
    <2>3. PICK a, b, m, l : a = g[i] /\ b = parts[i + 1] /\ m = Len(a) /\ l = Len(b)
        OBVIOUS
    <2>4. Bytes(a, m) /\ Bytes(b, l)
        BY <2>2, <2>3 DEF Bytes
    <2>5. At(s, at, a \o b)
        BY <1>1, <2>2, <2>3
    <2>6. At(s, at, a) /\ At(s, at + m, b)
        BY <2>4, <2>5, AtSplit
    <2> QED
        BY <2>3, <2>6
<1>2. 0 \in T
    OBVIOUS
<1>3. ASSUME NEW j \in Nat, j \in T PROVE j + 1 \in T
    <2> SUFFICES ASSUME NEW i \in 0..n, i + (j + 1) = n PROVE At(s, at, g[i])
        OBVIOUS
    <2>1. i \in 0..(n - 1) /\ i + 1 \in 0..n /\ (i + 1) + j = n
        OBVIOUS
    <2>2. At(s, at, g[i + 1])
        BY <1>3, <2>1
    <2> QED
        BY <1>1, <2>1, <2>2
<1> HIDE DEF T
<1>4. Nat \subseteq T
    BY <1>2, <1>3, InductionOnSet
<1>5. PICK i \in 0..n, j \in Nat : i = k + 1 /\ i + j = n
    <2>1. k + 1 \in 0..n /\ n - (k + 1) \in Nat /\ (k + 1) + (n - (k + 1)) = n
        OBVIOUS
    <2> QED
        BY <2>1
<1>6. At(s, at, g[i])
    <2>1. j \in T
        BY <1>4
    <2> QED
        BY <1>5, <2>1 DEF T
<1> QED
    BY <1>1, <1>5, <1>6

LEMMA LaidBlocks ==
    ASSUME NEW n \in Nat, NEW parts \in [1..n -> Seq(0..255)], NEW g, IsLaid(parts, n, g),
           \A k \in 1..n : Len(parts[k]) = 24,
           NEW m \in 0..n
    PROVE  Len(g[m]) = 24 * m
<1> DEFINE T == {k \in Nat : k <= n => Len(g[k]) = 24 * k}
<1>1. 0 \in T
    BY DEF IsLaid
<1>2. ASSUME NEW k \in Nat, k \in T PROVE k + 1 \in T
    <2> SUFFICES ASSUME k + 1 <= n PROVE Len(g[k + 1]) = 24 * (k + 1)
        OBVIOUS
    <2>1. k \in 0..(n - 1) /\ k \in 0..n /\ k + 1 \in 1..n
        OBVIOUS
    <2>2. g[k] \in Seq(0..255) /\ parts[k + 1] \in Seq(0..255) /\ g[k + 1] = g[k] \o parts[k + 1]
        BY <2>1 DEF IsLaid
    <2>3. Len(g[k + 1]) = Len(g[k]) + Len(parts[k + 1])
        BY <2>2, Join
    <2>4. Len(g[k]) = 24 * k
        BY <1>2
    <2>5. Len(parts[k + 1]) = 24
        BY <2>1
    <2> QED
        BY <2>3, <2>4, <2>5
<1> HIDE DEF T
<1>3. Nat \subseteq T
    BY <1>1, <1>2, InductionOnSet
<1> QED
    BY <1>3 DEF T

LEMMA LaidBound ==
    ASSUME NEW n \in Nat, NEW parts \in [1..n -> Seq(0..255)], NEW g, IsLaid(parts, n, g),
           \A k \in 1..n : Len(parts[k]) <= 5,
           NEW m \in 0..n
    PROVE  Len(g[m]) <= 5 * m
<1> DEFINE T == {k \in Nat : k <= n => Len(g[k]) <= 5 * k}
<1>1. 0 \in T
    BY DEF IsLaid
<1>2. ASSUME NEW k \in Nat, k \in T PROVE k + 1 \in T
    <2> SUFFICES ASSUME k + 1 <= n PROVE Len(g[k + 1]) <= 5 * (k + 1)
        OBVIOUS
    <2>1. k \in 0..(n - 1) /\ k \in 0..n /\ k + 1 \in 1..n
        OBVIOUS
    <2>2. g[k] \in Seq(0..255) /\ parts[k + 1] \in Seq(0..255) /\ g[k + 1] = g[k] \o parts[k + 1]
        BY <2>1 DEF IsLaid
    <2>3. Len(g[k + 1]) = Len(g[k]) + Len(parts[k + 1])
        BY <2>2, Join
    <2>4. PICK a \in Nat, b \in Nat : a = Len(g[k]) /\ b = Len(parts[k + 1])
        BY <2>2
    <2>5. a <= 5 * k
        BY <1>2, <2>4
    <2>6. b <= 5
        BY <2>1, <2>4
    <2>7. a + b <= 5 * (k + 1)
        BY <2>5, <2>6
    <2> QED
        BY <2>3, <2>4, <2>7
<1> HIDE DEF T
<1>3. Nat \subseteq T
    BY <1>1, <1>2, InductionOnSet
<1> QED
    BY <1>3 DEF T

-----------------------------------------------------------------------------
(* Names and tasks. *)

LEMMA ArrayIsSeq ==
    ASSUME NEW S, NEW n \in Nat, NEW a \in [1..n -> S]
    PROVE  a \in Seq(S) /\ Len(a) = n
OBVIOUS

(* As many characters of the name as there is room for *)
LEMMA NameBack ==
    ASSUME NEW name \in Seq(1..127)
    PROVE  /\ Bytes(NameField(name), 16)
           /\ NameOf(NameField(name)) = Truncated(name)
<1> DEFINE field == NameField(name)
           size == IF Len(name) < 16 THEN Len(name) ELSE 15
           used == {k \in DOMAIN field : field[k] # 0}
<1>0. Len(name) \in Nat /\ \A k \in 1..Len(name) : name[k] \in 1..127
    BY ElementOfSeq
<1>1. /\ Bytes(field, 16) /\ DOMAIN field = 1..16
      /\ \A k \in 1..16 : field[k] = IF k < 16 /\ k <= Len(name) THEN name[k] ELSE 0
    <2> DEFINE byte(k) == IF k < 16 /\ k <= Len(name) THEN name[k] ELSE 0
    <2>1. field = [k \in 1..16 |-> byte(k)]
        BY Zenon DEF NameField, NameLen
    <2>2. ASSUME NEW k \in 1..16 PROVE byte(k) \in 0..255
        BY <1>0
    <2> HIDE DEF byte, field
    <2>3. field \in [1..16 -> 0..255] /\ DOMAIN field = 1..16
        BY ONLY <2>1, <2>2
    <2>4. \A k \in 1..16 : field[k] = byte(k)
        BY ONLY <2>1
    <2>5. field \in Seq(0..255) /\ Len(field) = 16
        <3>1. PICK n \in Nat : n = 16
            OBVIOUS
        <3>2. field \in [1..n -> 0..255]
            BY <2>3, <3>1
        <3>3. field \in Seq(0..255) /\ Len(field) = n
            BY ONLY n \in Nat, <3>2, ArrayIsSeq
        <3> QED
            BY <3>1, <3>3
    <2>6. Bytes(field, 16)
        BY ONLY <2>5 DEF Bytes
    <2> QED
        BY <2>3, <2>4, <2>6 DEF byte
<1>2. size \in 0..15 /\ size <= Len(name)
    <2>1. CASE Len(name) < 16
        <3>1. PICK n \in Nat : n = Len(name)
            BY <1>0
        <3>2. n < 16
            BY <2>1, <3>1
        <3>3. size = n
            BY <2>1, <3>1, Zenon
        <3>4. n \in 0..15
            BY <3>2
        <3>5. n <= n
            OBVIOUS
        <3> QED
            BY <3>1, <3>3, <3>4, <3>5, Zenon
    <2>2. CASE ~(Len(name) < 16)
        BY <1>0, <2>2
    <2> QED
        BY <2>1, <2>2
<1>3. \A k \in 1..16 : k < 16 /\ k <= Len(name) <=> k <= size
    BY <1>0
<1> HIDE DEF field, size
<1>4. \A k \in 1..16 : k \in used <=> k <= size
    <2>1. ASSUME NEW k \in 1..16 PROVE field[k] # 0 <=> k <= size
        <3>1. CASE k <= size
            <4>1. k < 16 /\ k <= Len(name)
                BY <1>3, <3>1
            <4>2. field[k] = name[k]
                BY <1>1, <4>1
            <4>3. name[k] \in 1..127
                BY <1>0, <4>1
            <4>4. name[k] # 0
                <5>1. 0 \notin 1..127
                    OBVIOUS
                <5> QED
                    BY <4>3, <5>1
            <4> QED
                BY <3>1, <4>2, <4>4
        <3>2. CASE ~(k <= size)
            <4>1. field[k] = 0
                BY <1>1, <1>3, <3>2
            <4> QED
                BY <3>2, <4>1
        <3> QED
            BY <3>1, <3>2
    <2> QED
        BY <1>1, <2>1
<1>5. used \subseteq 1..16
    BY <1>1
<1> HIDE DEF used
<1>6. (IF used = {} THEN 0 ELSE Max(used)) = size
    <2>1. CASE size = 0
        <3>1. used = {}
            BY <1>4, <1>5, <2>1
        <3> QED
            BY <2>1, <3>1
    <2>2. CASE size # 0
        <3>1. size \in used
            BY <1>2, <1>4, <2>2
        <3>2. \A k \in used : size >= k
            BY <1>4, <1>5
        <3>3. \A k \in used : (\A l \in used : k >= l) => k = size
            BY <1>2, <1>5, <3>1, <3>2
        <3>4. Max(used) = size
            BY <3>1, <3>2, <3>3 DEF Max
        <3> QED
            BY <3>1, <3>4
    <2> QED
        BY <2>1, <2>2
<1>7. SubSeq(field, 1, size) = SubSeq(name, 1, size)
    <2>1. IsCut(field, 1, size, size) /\ IsCut(name, 1, size, size)
        BY <1>1, <1>2 DEF IsCut, Bytes
    <2>2. /\ SubSeq(field, 1, size) \in Seq(0..255)
          /\ Holds(SubSeq(field, 1, size), field, 1, size)
        <3>1. field \in Seq(0..255)
            BY <1>1 DEF Bytes
        <3> QED
            BY <2>1, <3>1, Cut
    <2>3. /\ SubSeq(name, 1, size) \in Seq(1..127)
          /\ Holds(SubSeq(name, 1, size), name, 1, size)
        BY <2>1, Cut
    <2>4. Len(SubSeq(field, 1, size)) = size /\ Len(SubSeq(name, 1, size)) = size
        BY <2>2, <2>3 DEF Holds
    <2>5. ASSUME NEW j \in 1..size PROVE SubSeq(field, 1, size)[j] = SubSeq(name, 1, size)[j]
        <3>1. j \in 1..Len(field) /\ j \in 1..Len(name) /\ j = 1 + j - 1 /\ j \in 1..16 /\ j <= size
            <4>1. Len(field) = 16
                BY <1>1 DEF Bytes
            <4>2. size \in 0..15 /\ size <= Len(name) /\ Len(name) \in Nat
                BY <1>0, <1>2
            <4> HIDE DEF size
            <4> QED
                BY ONLY j \in 1..size, <4>1, <4>2
        <3>2. SubSeq(field, 1, size)[j] = field[j] /\ SubSeq(name, 1, size)[j] = name[j]
            BY <2>2, <2>3, <3>1 DEF Holds
        <3>3. field[j] = name[j]
            BY <1>1, <1>3, <3>1
        <3> QED
            BY <3>2, <3>3
    <2>6. SubSeq(name, 1, size) \in Seq(0..255)
        <3>1. Seq(1..127) \subseteq Seq(0..255)
            OBVIOUS
        <3> QED
            BY <2>3, <3>1
    <2> QED
        BY <2>2, <2>4, <2>5, <2>6, SeqEqual
<1>8. NameOf(field) = SubSeq(field, 1, size)
    BY <1>6 DEF NameOf, used
<1>9. Truncated(name) = SubSeq(name, 1, size)
    BY DEF Truncated, NameLen, size
<1> QED
    BY <1>1, <1>7, <1>8, <1>9 DEF field

LEMMA ShortName ==
    ASSUME NEW name \in Seq(1..127)
    PROVE  /\ Truncated(name) \in Seq(1..127) /\ Len(Truncated(name)) < NameLen
           /\ Len(name) < NameLen => Truncated(name) = name
<1>1. PICK size \in Nat : size = IF Len(name) < NameLen THEN Len(name) ELSE NameLen - 1
    BY DEF NameLen
<1>2. size <= Len(name) /\ size < NameLen
    BY <1>1 DEF NameLen
<1>3. IsCut(name, 1, size, size)
    BY <1>2 DEF IsCut
<1>4. SubSeq(name, 1, size) \in Seq(1..127) /\ Holds(SubSeq(name, 1, size), name, 1, size)
    BY <1>3, Cut
<1>5. Truncated(name) = SubSeq(name, 1, size)
    BY <1>1 DEF Truncated
<1>6. Len(SubSeq(name, 1, size)) = size
    BY <1>4 DEF Holds
<1>7. ASSUME Len(name) < NameLen PROVE SubSeq(name, 1, size) = name
    <2>1. size = Len(name)
        BY <1>1, <1>7
    <2>2. ASSUME NEW j \in 1..size PROVE SubSeq(name, 1, size)[j] = name[j]
        <3>1. j \in 1..Len(name) /\ j = 1 + j - 1
            BY <2>1
        <3> QED
            BY <1>4, <3>1 DEF Holds
    <2> QED
        BY <1>4, <1>6, <2>1, <2>2, SeqEqual
<1> QED
    BY <1>2, <1>4, <1>5, <1>6, <1>7

LEMMA Widths ==
    /\ Values("state") = 0..255 /\ Values("priority") = 0..255
    /\ Values("cpu_utilization_pct") = 0..255
    /\ Values("stack_hwm_words") = Shorts
    /\ Values("runtime_ticks") = Shorts \X Shorts
    /\ Values("heap_free_bytes") = Shorts \X Shorts
    /\ Values("heap_min_ever_bytes") = Shorts \X Shorts
<1>1. Width("state") = 1 /\ Width("priority") = 1 /\ Width("cpu_utilization_pct") = 1
    BY DEF Width
<1>2. Width("stack_hwm_words") = 2
    BY DEF Width
<1>3. Width("runtime_ticks") = 4 /\ Width("heap_free_bytes") = 4 /\ Width("heap_min_ever_bytes") = 4
    BY DEF Width
<1>4. ASSUME NEW f, Width(f) = 1 PROVE Values(f) = 0..255
    BY <1>4 DEF Values
<1>5. ASSUME NEW f, Width(f) = 2 PROVE Values(f) = Shorts
    BY <1>5 DEF Values
<1>6. ASSUME NEW f, Width(f) = 4 PROVE Values(f) = Shorts \X Shorts
    BY <1>6 DEF Values
<1> QED
    BY <1>1, <1>2, <1>3, <1>4, <1>5, <1>6

LEMMA TaskFieldValues ==
    ASSUME NEW r, HasFields(r, TaskFields)
    PROVE  /\ r["state"] \in 0..255 /\ r["priority"] \in 0..255
           /\ r["stack_hwm_words"] \in Shorts /\ r["runtime_ticks"] \in Shorts \X Shorts
BY Widths DEF HasFields, TaskFields

LEMMA MemoryFieldValues ==
    ASSUME NEW r, HasFields(r, MemoryFields)
    PROVE  /\ r["heap_free_bytes"] \in Shorts \X Shorts
           /\ r["heap_min_ever_bytes"] \in Shorts \X Shorts
           /\ r["cpu_utilization_pct"] \in 0..255
BY Widths DEF HasFields, MemoryFields

(* A task is read back as it was written. *)
LEMMA TaskBack ==
    ASSUME NEW t, t.name \in Seq(1..127), HasFields(t.field, TaskFields)
    PROVE  /\ Bytes(TaskBytes(t), 24)
           /\ TaskOf(TaskBytes(t)) = [name |-> Truncated(t.name), field |-> t.field]
<1> DEFINE r == t.field
           n == NameField(t.name)
           a == Le(r["state"], 1)
           b == Le(r["priority"], 1)
           c == Le(r["stack_hwm_words"], 2)
           d == Le(r["runtime_ticks"], 4)
           h1 == n \o a
           h2 == h1 \o b
           h3 == h2 \o c
           s == h3 \o d
<1>1. TaskBytes(t) = s
    BY DEF TaskBytes
<1>2. /\ r["state"] \in 0..255 /\ r["priority"] \in 0..255
      /\ r["stack_hwm_words"] \in Shorts /\ r["runtime_ticks"] \in Shorts \X Shorts
    BY TaskFieldValues
<1>3. Stand(a, 1, r["state"]) /\ Stand(b, 1, r["priority"])
    BY <1>2, LeStands
<1>4. Stand(c, 2, r["stack_hwm_words"]) /\ Stand(d, 4, r["runtime_ticks"])
    BY <1>2, LeStands
<1>5. Bytes(n, 16) /\ NameOf(n) = Truncated(t.name)
    BY NameBack
<1> HIDE DEF n, a, b, c, d
<1>6. Bytes(a, 1) /\ Bytes(b, 1) /\ Bytes(c, 2) /\ Bytes(d, 4)
    BY <1>3, <1>4 DEF Stand, Bytes
<1>7. Bytes(h1, 17)
    <2>1. Bytes(n, 16) /\ Bytes(a, 1) /\ 17 = 16 + 1
        BY <1>5, <1>6
    <2> QED
        BY ONLY <2>1, BytesJoin
<1> HIDE DEF h1
<1>8. Bytes(h2, 18)
    <2>1. Bytes(h1, 17) /\ Bytes(b, 1) /\ 18 = 17 + 1
        BY <1>6, <1>7
    <2> QED
        BY ONLY <2>1, BytesJoin
<1> HIDE DEF h2
<1>9. Bytes(h3, 20)
    BY <1>6, <1>8, BytesJoin
<1> HIDE DEF h3
<1>10. Bytes(s, 24)
    BY <1>6, <1>9, BytesJoin
<1>11. At(s, 0, h3) /\ At(s, 20, d)
    <2>1. At(s, 0, h3 \o d)
        BY <1>10, AtStart
    <2> QED
        BY <1>6, <1>9, <2>1, AtSplit
<1> HIDE DEF s
<1>12. At(s, 0, h2) /\ At(s, 18, c)
    BY ONLY <1>6, <1>8, <1>11, AtSplit DEF h3
<1>13. At(s, 0, h1) /\ At(s, 17, b)
    BY ONLY <1>6, <1>7, <1>12, AtSplit DEF h2
<1>14. At(s, 0, n) /\ At(s, 16, a)
    <2>1. Bytes(n, 16) /\ Bytes(a, 1) /\ 16 = 0 + 16 /\ At(s, 0, n \o a)
        BY <1>5, <1>6, <1>13 DEF h1
    <2> QED
        BY ONLY <2>1, AtSplit
<1>15. SubSeq(s, 1, 16) = n
    <2>1. SubSeq(s, 0 + 1, 0 + 16) = n
        BY <1>5, <1>14, AtSlice
    <2> QED
        BY <2>1
<1>16. SubSeq(s, 19, 20) = c
    <2>1. SubSeq(s, 18 + 1, 18 + 2) = c
        BY <1>6, <1>12, AtSlice
    <2> QED
        BY <2>1
<1>17. SubSeq(s, 21, 24) = d
    <2>1. SubSeq(s, 20 + 1, 20 + 4) = d
        BY <1>6, <1>11, AtSlice
    <2> QED
        BY <2>1
<1>18. s[17] = r["state"]
    <2>1. s[17] = a[1]
        BY <1>6, <1>14, AtByte
    <2>2. FromLe(a) = a[1] /\ FromLe(a) = r["state"]
        BY <1>3, FromOne DEF Stand
    <2> QED
        BY <2>1, <2>2
<1>19. s[18] = r["priority"]
    <2>1. s[18] = b[1]
        BY <1>6, <1>13, AtByte
    <2>2. FromLe(b) = b[1] /\ FromLe(b) = r["priority"]
        BY <1>3, FromOne DEF Stand
    <2> QED
        BY <2>1, <2>2
<1>20. FromLe(c) = r["stack_hwm_words"] /\ FromLe(d) = r["runtime_ticks"]
    BY <1>4 DEF Stand
<1>21. r = [f \in TaskFields |-> r[f]]
    BY DEF HasFields
<1> HIDE DEF r
<1>22. TaskOf(s).name = Truncated(t.name)
    BY <1>5, <1>15 DEF TaskOf, NameLen
<1>23. TaskOf(s).field = r
    <2>1. TaskOf(s).field = [f \in TaskFields |->
            CASE f = "state" -> s[17]
              [] f = "priority" -> s[18]
              [] f = "stack_hwm_words" -> FromLe(SubSeq(s, 19, 20))
              [] f = "runtime_ticks" -> FromLe(SubSeq(s, 21, 24))]
        BY DEF TaskOf
    <2>2. TaskOf(s).field = [f \in TaskFields |->
            CASE f = "state" -> r["state"]
              [] f = "priority" -> r["priority"]
              [] f = "stack_hwm_words" -> r["stack_hwm_words"]
              [] f = "runtime_ticks" -> r["runtime_ticks"]]
        BY <1>16, <1>17, <1>18, <1>19, <1>20, <2>1
    <2>3. ASSUME NEW f \in TaskFields PROVE TaskOf(s).field[f] = r[f]
        <3>1. CASE f = "state"
            BY <2>2, <3>1
        <3>2. CASE f = "priority"
            BY <2>2, <3>2
        <3>3. CASE f = "stack_hwm_words"
            BY <2>2, <3>3
        <3>4. CASE f = "runtime_ticks"
            BY <2>2, <3>4
        <3> QED
            BY <3>1, <3>2, <3>3, <3>4 DEF TaskFields
    <2>4. TaskOf(s).field = [f \in TaskFields |-> TaskOf(s).field[f]]
        BY <2>2
    <2> QED
        BY <1>21, <2>3, <2>4
<1>24. TaskOf(s) = [name |-> TaskOf(s).name, field |-> TaskOf(s).field]
    BY DEF TaskOf
<1>25. TaskOf(s) = [name |-> Truncated(t.name), field |-> r]
    BY <1>22, <1>23, <1>24
<1> QED
    BY <1>1, <1>10, <1>25 DEF r

-----------------------------------------------------------------------------
(* Keyframes. *)

(* A piece in the end of a sequence *)
LEMMA AtEnd ==
    ASSUME NEW s, NEW all, Bytes(s, all), NEW start, start \in 0..all,
           NEW p, NEW n, Bytes(p, n), NEW at, At(s, at, p), NEW rest, rest \in Nat, at = start + rest
    PROVE  At(SubSeq(s, start + 1, all), rest, p)
<1>1. s \in Seq(0..255) /\ Len(s) = all /\ all \in Nat
    BY DEF Bytes
<1>2. PICK k \in Nat, from \in Nat : k = all - start /\ from = start + 1
    <2>1. all - start \in Nat /\ start + 1 \in Nat
        BY <1>1
    <2> QED
        BY <2>1
<1>3. IsCut(s, from, k, all)
    BY <1>1, <1>2 DEF IsCut
<1>4. PICK e : e = SubSeq(s, from, all)
    OBVIOUS
<1>5. e \in Seq(0..255) /\ Holds(e, s, from, k)
    <2>1. SubSeq(s, from, all) \in Seq(0..255) /\ Holds(SubSeq(s, from, all), s, from, k)
        BY ONLY <1>1, <1>3, Cut
    <2> QED
        BY <1>4, <2>1, Zenon
<1>6. Len(e) = k
    BY <1>5 DEF Holds
<1>7. Piece(0..255, s, at, p)
    BY DEF At
<1>8. /\ p \in Seq(0..255) /\ at \in Nat /\ at + n <= Len(s) /\ Len(p) = n /\ n \in Nat
      /\ \A j \in 1..n, i \in 1..Len(s) : i = at + j => s[i] = p[j]
    BY <1>7 DEF Piece, Bytes
<1>9. rest + Len(p) <= Len(e)
    BY <1>1, <1>2, <1>6, <1>8
<1>10. ASSUME NEW j \in 1..Len(p), NEW i \in 1..Len(e), i = rest + j PROVE e[i] = p[j]
    <2>1. PICK l \in 1..Len(s) : l = from + i - 1 /\ l = at + j
        <3>1. from + i - 1 \in 1..Len(s) /\ from + i - 1 = at + j
            BY <1>1, <1>2, <1>6, <1>8, <1>10
        <3> QED
            BY <3>1
    <2>2. e[i] = s[l]
        BY <1>5, <1>6, <2>1 DEF Holds
    <2>3. s[l] = p[j]
        BY <1>8, <2>1
    <2> QED
        BY <2>2, <2>3
<1>11. Piece(0..255, e, rest, p)
    BY <1>5, <1>8, <1>9, <1>10 DEF Piece
<1> QED
    BY <1>2, <1>4, <1>11 DEF At

(* The tasks of a snapshot as the host keeps them *)
Kept(s) == [i \in Slots(s) |-> [name |-> Truncated(s.tasks[i].name), field |-> s.tasks[i].field]]

(* A snapshot of n tasks *)
Holding(s, n) ==
    /\ n \in 0..255 /\ n <= MaxTasks
    /\ Slots(s) = 0..(n - 1) /\ Cardinality(Slots(s)) = n
    /\ HasFields(s.memory, MemoryFields)
    /\ \A i \in Slots(s) : /\ s.tasks[i].name \in Seq(1..127)
                           /\ HasFields(s.tasks[i].field, TaskFields)

LEMMA HoldsSome ==
    ASSUME NEW s, IsSnapshot(s)
    PROVE  \E n : Holding(s, n)
<1>1. PICK n \in 0..MaxTasks : Slots(s) = 0..(n - 1)
    BY DEF IsSnapshot
<1>2. MaxTasks \in Nat /\ MaxTasks <= 255
    BY WireAssumption, CodecAssumption
<1>3. Cardinality(Slots(s)) = n
    BY <1>1, <1>2, FS_Interval
<1>4. HasFields(s.memory, MemoryFields)
    BY DEF IsSnapshot
<1>5. \A i \in Slots(s) : /\ s.tasks[i].name \in Seq(1..127)
                          /\ HasFields(s.tasks[i].field, TaskFields)
    BY DEF IsSnapshot
<1>6. n \in 0..255 /\ n <= MaxTasks
    BY <1>2
<1>7. Holding(s, n)
    BY <1>1, <1>3, <1>4, <1>5, <1>6, Zenon DEF Holding
<1> QED
    BY <1>7

(* The bytes of the tasks, one after the other *)
Blocks(s) == Seqs!FlattenSeq([k \in DOMAIN InOrder(s) |-> TaskBytes(InOrder(s)[k])])

LEMMA BlocksStand ==
    ASSUME NEW s, NEW n, Holding(s, n), NEW all, all = 24 * n
    PROVE  /\ Bytes(Blocks(s), all)
           /\ \A p, at, i : At(p, at, Blocks(s)) /\ i \in 0..(n - 1)
                                => At(p, at + 24 * i, TaskBytes(s.tasks[i]))
<1> DEFINE parts == [k \in DOMAIN InOrder(s) |-> TaskBytes(InOrder(s)[k])]
<1>1. n \in Nat /\ Slots(s) = 0..(n - 1) /\ Cardinality(Slots(s)) = n
    BY DEF Holding
<1>2. ASSUME NEW k \in 1..n
      PROVE  InOrder(s)[k] = s.tasks[k - 1] /\ Bytes(TaskBytes(InOrder(s)[k]), 24)
    <2>1. InOrder(s)[k] = s.tasks[k - 1] /\ k - 1 \in Slots(s)
        BY <1>1 DEF InOrder
    <2>2. s.tasks[k - 1].name \in Seq(1..127) /\ HasFields(s.tasks[k - 1].field, TaskFields)
        BY <2>1 DEF Holding
    <2>3. Bytes(TaskBytes(s.tasks[k - 1]), 24)
        BY <2>2, TaskBack
    <2> QED
        BY <2>1, <2>3
<1>3. DOMAIN InOrder(s) = 1..n
    BY <1>1 DEF InOrder
<1>4. /\ parts \in [1..n -> Seq(0..255)]
      /\ \A k \in 1..n : Len(parts[k]) = 24 /\ parts[k] = TaskBytes(s.tasks[k - 1])
    BY <1>2, <1>3 DEF Bytes
<1>5. Blocks(s) = Seqs!FlattenSeq(parts)
    BY DEF Blocks
<1> HIDE DEF parts
<1>6. PICK g : IsLaid(parts, n, g) /\ Blocks(s) = g[n]
    BY <1>1, <1>4, <1>5, Flatten
<1>7. ASSUME NEW k \in 0..n PROVE Len(g[k]) = 24 * k
    BY <1>1, <1>4, <1>6, LaidBlocks
<1>8. Bytes(Blocks(s), all)
    <2>1. n \in 0..n
        BY <1>1
    <2>2. g[n] \in Seq(0..255) /\ Len(g[n]) = 24 * n
        BY <1>6, <1>7, <2>1 DEF IsLaid
    <2> QED
        BY <1>1, <1>6, <2>2 DEF Bytes
<1>9. ASSUME NEW p, NEW at, At(p, at, Blocks(s)), NEW i, i \in 0..(n - 1)
      PROVE  At(p, at + 24 * i, TaskBytes(s.tasks[i]))
    <2>1. At(p, at + Len(g[i]), parts[i + 1])
        BY <1>1, <1>4, <1>6, <1>9, LaidAt
    <2>2. i \in 0..n /\ i + 1 \in 1..n /\ (i + 1) - 1 = i
        BY <1>1, <1>9
    <2>3. Len(g[i]) = 24 * i /\ parts[i + 1] = TaskBytes(s.tasks[i])
        BY <1>4, <1>7, <2>2
    <2> QED
        BY <2>1, <2>3
<1> QED
    BY <1>8, <1>9

(* What the host makes of a keyframe *)
Read(s, time) ==
    [tasks |-> Kept(s), memory |-> s.memory, timestamp |-> time, hasKeyframe |-> TRUE]

(* The three values behind the tasks *)
MemoryOf(m) ==
    [f \in MemoryFields |->
        CASE f = "heap_free_bytes" -> FromLe(SubSeq(m, 1, 4))
          [] f = "heap_min_ever_bytes" -> FromLe(SubSeq(m, 5, 8))
          [] f = "cpu_utilization_pct" -> m[9]]

LEMMA MemoryBack ==
    ASSUME NEW r, HasFields(r, MemoryFields), NEW m,
           At(m, 0, Le(r["heap_free_bytes"], 4)),
           At(m, 4, Le(r["heap_min_ever_bytes"], 4)),
           At(m, 8, Le(r["cpu_utilization_pct"], 1))
    PROVE  MemoryOf(m) = r
<1> DEFINE a == Le(r["heap_free_bytes"], 4)
           b == Le(r["heap_min_ever_bytes"], 4)
           c == Le(r["cpu_utilization_pct"], 1)
<1>1. /\ r["heap_free_bytes"] \in Shorts \X Shorts
      /\ r["heap_min_ever_bytes"] \in Shorts \X Shorts
      /\ r["cpu_utilization_pct"] \in 0..255
    BY MemoryFieldValues
<1>2. Stand(a, 4, r["heap_free_bytes"]) /\ Stand(b, 4, r["heap_min_ever_bytes"])
    BY <1>1, LeStands
<1>3. Stand(c, 1, r["cpu_utilization_pct"])
    BY <1>1, LeStands
<1>4. At(m, 0, a) /\ At(m, 4, b) /\ At(m, 8, c)
    OBVIOUS
<1> HIDE DEF a, b, c
<1>5. Bytes(a, 4) /\ Bytes(b, 4) /\ Bytes(c, 1)
    BY <1>2, <1>3 DEF Stand, Bytes
<1>6. SubSeq(m, 1, 4) = a
    <2>1. SubSeq(m, 0 + 1, 0 + 4) = a
        BY <1>4, <1>5, AtSlice
    <2> QED
        BY <2>1
<1>7. SubSeq(m, 5, 8) = b
    <2>1. SubSeq(m, 4 + 1, 4 + 4) = b
        BY <1>4, <1>5, AtSlice
    <2> QED
        BY <2>1
<1>8. m[9] = r["cpu_utilization_pct"]
    <2>1. m[9] = c[1]
        BY <1>4, <1>5, AtByte
    <2>2. FromLe(c) = c[1] /\ FromLe(c) = r["cpu_utilization_pct"]
        BY <1>3, FromOne DEF Stand
    <2> QED
        BY <2>1, <2>2
<1>9. FromLe(a) = r["heap_free_bytes"] /\ FromLe(b) = r["heap_min_ever_bytes"]
    BY <1>2 DEF Stand
<1>10. MemoryOf(m) = [f \in MemoryFields |->
            CASE f = "heap_free_bytes" -> FromLe(SubSeq(m, 1, 4))
              [] f = "heap_min_ever_bytes" -> FromLe(SubSeq(m, 5, 8))
              [] f = "cpu_utilization_pct" -> m[9]]
    BY DEF MemoryOf
<1>11. MemoryOf(m) = [f \in MemoryFields |->
            CASE f = "heap_free_bytes" -> r["heap_free_bytes"]
              [] f = "heap_min_ever_bytes" -> r["heap_min_ever_bytes"]
              [] f = "cpu_utilization_pct" -> r["cpu_utilization_pct"]]
    BY <1>6, <1>7, <1>8, <1>9, <1>10
<1>12. ASSUME NEW f \in MemoryFields PROVE MemoryOf(m)[f] = r[f]
    <2>1. CASE f = "heap_free_bytes"
        BY <1>11, <2>1
    <2>2. CASE f = "heap_min_ever_bytes"
        BY <1>11, <2>2
    <2>3. CASE f = "cpu_utilization_pct"
        BY <1>11, <2>3
    <2> QED
        BY <2>1, <2>2, <2>3 DEF MemoryFields
<1>13. r = [f \in MemoryFields |-> r[f]]
    BY DEF HasFields
<1>14. MemoryOf(m) = [f \in MemoryFields |-> MemoryOf(m)[f]]
    BY <1>11
<1> QED
    BY <1>12, <1>13, <1>14

(* The whole of it, but for the CRC: a keyframe says all that the device knows. *)
KeyframeRead(p, s, time) ==
    ParsesAsKeyframe(p) /\ ParsedKeyframe(p) = Read(s, time)

LEMMA KeyframeBack ==
    ASSUME NEW s, IsSnapshot(s), NEW number \in Shorts, NEW time \in Shorts \X Shorts
    PROVE  /\ KeyframePayload(s, number, time) \in Seq(0..255)
           /\ Len(KeyframePayload(s, number, time)) \in Shorts
           /\ KeyframeRead(KeyframePayload(s, number, time), s, time)
<1>0. PICK n : Holding(s, n)
    BY HoldsSome
<1>1. /\ n \in 0..255 /\ n <= MaxTasks /\ Slots(s) = 0..(n - 1) /\ Cardinality(Slots(s)) = n
      /\ HasFields(s.memory, MemoryFields)
    BY <1>0 DEF Holding
<1>2. PICK size \in Nat, l3 \in Nat, l4 \in Nat, l5 \in Nat, l \in Nat :
          size = 24 * n /\ l3 = 7 + size /\ l4 = 11 + size /\ l5 = 15 + size /\ l = 16 + size
    <2>1. /\ 24 * n \in Nat /\ 7 + 24 * n \in Nat /\ 11 + 24 * n \in Nat /\ 15 + 24 * n \in Nat
          /\ 16 + 24 * n \in Nat
        BY <1>1
    <2> QED
        BY <2>1
<1> DEFINE r == s.memory
           b2 == Le(number, 2)
           b4 == Le(time, 4)
           count == <<Cardinality(Slots(s))>>
           blocks == Blocks(s)
           a == Le(r["heap_free_bytes"], 4)
           b == Le(r["heap_min_ever_bytes"], 4)
           c == Le(r["cpu_utilization_pct"], 1)
           h1 == b2 \o b4
           h2 == h1 \o count
           h3 == h2 \o blocks
           h4 == h3 \o a
           h5 == h4 \o b
           p == h5 \o c
           m == SubSeq(p, 8 + 24 * n, l)
<1>3. KeyframePayload(s, number, time) = p
    BY DEF KeyframePayload, Blocks
<1>4. Stand(b2, 2, number) /\ Stand(b4, 4, time)
    BY LeStands
<1>5. Bytes(count, 1) /\ count[1] = n
    <2>1. count = <<n>> /\ n \in 0..255
        BY <1>1
    <2> HIDE DEF count
    <2>2. count \in Seq(0..255) /\ Len(count) = 1 /\ count[1] = n
        BY <2>1
    <2> QED
        BY <2>2 DEF Bytes
<1>6. /\ Bytes(blocks, size)
      /\ \A q, at, i : At(q, at, blocks) /\ i \in 0..(n - 1)
                           => At(q, at + 24 * i, TaskBytes(s.tasks[i]))
    BY <1>0, <1>2, BlocksStand
<1>7. /\ r["heap_free_bytes"] \in Shorts \X Shorts
      /\ r["heap_min_ever_bytes"] \in Shorts \X Shorts
      /\ r["cpu_utilization_pct"] \in 0..255
    BY <1>1, MemoryFieldValues
<1>8. Stand(a, 4, r["heap_free_bytes"]) /\ Stand(b, 4, r["heap_min_ever_bytes"])
    BY <1>7, LeStands
<1>9. Stand(c, 1, r["cpu_utilization_pct"])
    BY <1>7, LeStands
<1> HIDE DEF b2, b4, count, blocks, a, b, c
<1>10. Bytes(b2, 2) /\ Bytes(b4, 4) /\ FromLe(b4) = time
    BY <1>4 DEF Stand, Bytes
<1>11. Bytes(a, 4) /\ Bytes(b, 4) /\ Bytes(c, 1)
    BY <1>8, <1>9 DEF Stand, Bytes
<1>12. Bytes(h1, 6)
    <2>1. Bytes(b2, 2) /\ Bytes(b4, 4) /\ 6 = 2 + 4
        BY <1>10
    <2> QED
        BY ONLY <2>1, BytesJoin
<1> HIDE DEF h1
<1>13. Bytes(h2, 7)
    <2>1. Bytes(h1, 6) /\ Bytes(count, 1) /\ 7 = 6 + 1
        BY <1>5, <1>12
    <2> QED
        BY ONLY <2>1, BytesJoin
<1> HIDE DEF h2
<1>14. Bytes(h3, l3)
    BY <1>2, <1>6, <1>13, BytesJoin
<1> HIDE DEF h3
<1>15. Bytes(h4, l4)
    <2>1. l4 = l3 + 4
        BY <1>2
    <2> QED
        BY <1>11, <1>14, <2>1, BytesJoin
<1> HIDE DEF h4
<1>16. Bytes(h5, l5)
    <2>1. l5 = l4 + 4
        BY <1>2
    <2> QED
        BY <1>11, <1>15, <2>1, BytesJoin
<1> HIDE DEF h5
<1>17. Bytes(p, l)
    <2>1. l = l5 + 1
        BY <1>2
    <2> QED
        BY <1>11, <1>16, <2>1, BytesJoin
<1>18. At(p, 0, h5) /\ At(p, l5, c)
    <2>1. At(p, 0, h5 \o c)
        BY <1>17, AtStart
    <2>2. l5 = 0 + l5
        BY <1>2
    <2> QED
        BY <1>11, <1>16, <2>1, <2>2, AtSplit
<1> HIDE DEF p
<1>19. At(p, 0, h4) /\ At(p, l4, b)
    <2>1. At(p, 0, h4 \o b) /\ l4 = 0 + l4
        BY <1>2, <1>18 DEF h5
    <2> QED
        BY <1>11, <1>15, <2>1, AtSplit
<1>20. At(p, 0, h3) /\ At(p, l3, a)
    <2>1. At(p, 0, h3 \o a) /\ l3 = 0 + l3
        BY <1>2, <1>19 DEF h4
    <2> QED
        BY <1>11, <1>14, <2>1, AtSplit
<1>21. At(p, 0, h2) /\ At(p, 7, blocks)
    <2>1. At(p, 0, h2 \o blocks)
        BY <1>20 DEF h3
    <2> QED
        BY <1>6, <1>13, <2>1, AtSplit
<1>22. At(p, 0, h1) /\ At(p, 6, count)
    <2>1. At(p, 0, h1 \o count)
        BY <1>21 DEF h2
    <2> QED
        BY <1>5, <1>12, <2>1, AtSplit
<1>23. At(p, 0, b2) /\ At(p, 2, b4)
    <2>1. At(p, 0, b2 \o b4)
        BY <1>22 DEF h1
    <2> QED
        BY <1>10, <2>1, AtSplit
<1>24. p \in Seq(0..255) /\ Len(p) = l
    BY <1>17 DEF Bytes
<1>25. p[7] = n
    <2>1. p[7] = count[1]
        BY <1>5, <1>22, AtByte
    <2> QED
        BY <1>5, <2>1
<1>26. FromLe(SubSeq(p, 3, 6)) = time
    <2>1. SubSeq(p, 2 + 1, 2 + 4) = b4
        BY <1>10, <1>23, AtSlice
    <2>2. 2 + 1 = 3 /\ 2 + 4 = 6
        OBVIOUS
    <2>3. SubSeq(p, 3, 6) = b4
        BY ONLY <2>1, <2>2
    <2> QED
        BY <1>10, <2>3, Zenon
<1>27. ASSUME NEW i \in 0..(n - 1)
       PROVE  TaskOf(SubSeq(p, 8 + 24 * i, 31 + 24 * i))
                  = [name |-> Truncated(s.tasks[i].name), field |-> s.tasks[i].field]
    <2>1. s.tasks[i].name \in Seq(1..127) /\ HasFields(s.tasks[i].field, TaskFields)
        BY <1>0, <1>1 DEF Holding
    <2>2. PICK t : t = s.tasks[i]
        OBVIOUS
    <2>3. /\ Bytes(TaskBytes(t), 24)
          /\ TaskOf(TaskBytes(t)) = [name |-> Truncated(t.name), field |-> t.field]
        BY <2>1, <2>2, TaskBack
    <2>4. At(p, 7 + 24 * i, TaskBytes(t))
        BY <1>6, <1>21, <2>2
    <2>5. PICK at \in Nat : at = 7 + 24 * i
        <3>1. 7 + 24 * i \in Nat
            BY <1>1
        <3> QED
            BY <3>1
    <2>6. SubSeq(p, at + 1, at + 24) = TaskBytes(t)
        <3>1. PICK from, to, k, block :
                  from = at + 1 /\ to = at + 24 /\ k = 24 /\ block = TaskBytes(t)
            OBVIOUS
        <3>2. At(p, at, block) /\ Bytes(block, k)
            BY <2>3, <2>4, <2>5, <3>1
        <3>3. from = at + 1 /\ to = at + k
            BY <3>1
        <3>4. SubSeq(p, from, to) = block
            BY ONLY <3>2, <3>3, AtCut
        <3> QED
            BY <3>1, <3>4
    <2>7. at + 1 = 8 + 24 * i /\ at + 24 = 31 + 24 * i
        BY <1>1, <2>5
    <2> QED
        BY <2>2, <2>3, <2>6, <2>7
<1>28. MemoryOf(m) = r
    <2>1. m = SubSeq(p, l3 + 1, l)
        BY <1>1, <1>2
    <2> HIDE DEF m
    <2>2. l3 \in 0..l
        BY <1>2
    <2>3. At(m, 0, a)
        <3>1. 0 \in Nat /\ l3 = l3 + 0
            BY <1>2
        <3> QED
            BY <1>11, <1>17, <1>20, <2>1, <2>2, <3>1, AtEnd
    <2>4. At(m, 4, b)
        <3>1. 4 \in Nat /\ l4 = l3 + 4
            BY <1>2
        <3> QED
            BY <1>11, <1>17, <1>19, <2>1, <2>2, <3>1, AtEnd
    <2>5. At(m, 8, c)
        <3>1. 8 \in Nat /\ l5 = l3 + 8
            BY <1>2
        <3> QED
            BY <1>11, <1>17, <1>18, <2>1, <2>2, <3>1, AtEnd
    <2> QED
        BY <1>1, <2>3, <2>4, <2>5, MemoryBack DEF a, b, c
<1>29. ParsesAsKeyframe(p)
    <2>1. l >= 16 /\ l = 7 + 24 * n + 9
        BY <1>1, <1>2
    <2> QED
        BY <1>1, <1>24, <1>25, <2>1 DEF ParsesAsKeyframe
<1>30. ParsedKeyframe(p) = Read(s, time)
    <2>1. ParsedKeyframe(p) =
            [tasks  |-> [i \in 0..(n - 1) |-> TaskOf(SubSeq(p, 8 + 24 * i, 31 + 24 * i))],
             memory |-> MemoryOf(m), timestamp |-> FromLe(SubSeq(p, 3, 6)), hasKeyframe |-> TRUE]
        <3>1. ParsedKeyframe(p) =
                [tasks  |-> [i \in 0..(p[7] - 1) |-> TaskOf(SubSeq(p, 8 + 24 * i, 31 + 24 * i))],
                 memory |-> MemoryOf(SubSeq(p, 8 + 24 * p[7], Len(p))),
                 timestamp |-> FromLe(SubSeq(p, 3, 6)), hasKeyframe |-> TRUE]
            BY Zenon DEF ParsedKeyframe, MemoryOf
        <3> QED
            BY <1>24, <1>25, <3>1, Zenon
    <2>2. [i \in 0..(n - 1) |-> TaskOf(SubSeq(p, 8 + 24 * i, 31 + 24 * i))] = Kept(s)
        BY <1>1, <1>27 DEF Kept
    <2> HIDE DEF m
    <2> QED
        BY <1>26, <1>28, <2>1, <2>2, Zenon DEF Read
<1>31. Len(p) \in Shorts
    <2>1. l <= 16 + 24 * 255
        BY <1>1, <1>2
    <2>2. l <= 256 * 255 + 255
        BY <2>1
    <2> QED
        BY <1>2, <1>24, <2>2, IsShort
<1> QED
    BY <1>3, <1>24, <1>29, <1>30, <1>31, Zenon DEF KeyframeRead

-----------------------------------------------------------------------------
(* The values of a delta. *)

(* A place is the field id of a slot: of the memory, or of one of m tasks. *)
IsPlace(slot, id, m) ==
    \/ slot = 15 /\ id \in {5, 6, 7}
    \/ slot \in 0..(m - 1) /\ id \in {1, 2, 3, 4}

LEMMA FieldOrders ==
    /\ FieldOrder[1] = "state" /\ FieldOrder[2] = "priority"
    /\ FieldOrder[3] = "stack_hwm_words" /\ FieldOrder[4] = "runtime_ticks"
    /\ FieldOrder[5] = "heap_free_bytes" /\ FieldOrder[6] = "heap_min_ever_bytes"
    /\ FieldOrder[7] = "cpu_utilization_pct" /\ DOMAIN FieldOrder = 1..7
BY DEF FieldOrder

(* k is a number that a field has. *)
LEMMA FieldIds ==
    ASSUME NEW k, k \in {1, 2, 3, 4, 5, 6, 7}
    PROVE  FieldId(FieldOrder[k]) = k
<1>1. k \in DOMAIN FieldOrder
    BY FieldOrders
<1>2. ASSUME NEW l \in DOMAIN FieldOrder, FieldOrder[l] = FieldOrder[k] PROVE l = k
    <2>1. l \in {1, 2, 3, 4, 5, 6, 7}
        BY FieldOrders
    <2> QED
        BY <1>2, <2>1, FieldOrders
<1> QED
    BY <1>1, <1>2 DEF FieldId

(* The number of a place *)
NumberOf(slot, id) == IF slot = 15 THEN id - 4 ELSE 4 * slot + id + 3

(* The place k is the field id of the slot, of m tasks. *)
PlaceAs(k, slot, id, m) == /\ IsPlace(slot, id, m) /\ PlaceOf(k) = <<slot, FieldOrder[id]>>
                           /\ k = NumberOf(slot, id)

LEMMA PlaceIs ==
    ASSUME NEW m \in 0..15, NEW q, q = 3 + 4 * m, NEW k \in 1..q
    PROVE  \E slot, id : PlaceAs(k, slot, id, m)
<1>1. CASE k <= 3
    <2>1. PICK id \in {5, 6, 7} : id = k + 4
        <3>1. k + 4 \in {5, 6, 7}
            BY <1>1
        <3> QED
            BY <3>1
    <2>2. PlaceOf(k) = <<15, FieldOrder[id]>>
        BY <1>1, <2>1 DEF PlaceOf, SystemSlot
    <2>3. IsPlace(15, id, m)
        BY DEF IsPlace
    <2>4. k = NumberOf(15, id)
        BY <2>1 DEF NumberOf
    <2> QED
        BY <2>2, <2>3, <2>4, Zenon DEF PlaceAs
<1>2. CASE ~(k <= 3)
    <2>1. PICK slot, id : slot = (k - 4) \div 4 /\ id = ((k - 4) % 4) + 1
        OBVIOUS
    <2>2. PlaceOf(k) = <<slot, FieldOrder[id]>>
        BY <1>2, <2>1 DEF PlaceOf
    <2>3. slot \in 0..(m - 1) /\ id \in {1, 2, 3, 4}
        BY <1>2, <2>1
    <2>4. IsPlace(slot, id, m)
        BY <2>3 DEF IsPlace
    <2>5. k = NumberOf(slot, id)
        <3>1. slot # 15
            BY <2>3
        <3>2. k = 4 * slot + id + 3
            BY <1>2, <2>1
        <3> QED
            BY <3>1, <3>2 DEF NumberOf
    <2> QED
        BY <2>2, <2>4, <2>5, Zenon DEF PlaceAs
<1> QED
    BY <1>1, <1>2

LEMMA PlaceHas ==
    ASSUME NEW m \in 0..15, NEW q, q = 3 + 4 * m, NEW slot, NEW id, IsPlace(slot, id, m)
    PROVE  \E k \in 1..q : PlaceOf(k) = <<slot, FieldOrder[id]>>
<1>1. CASE slot = 15 /\ id \in {5, 6, 7}
    <2>1. PICK k \in 1..q : k = id - 4 /\ k <= 3 /\ k + 4 = id
        <3>1. id - 4 \in 1..q /\ id - 4 <= 3 /\ (id - 4) + 4 = id
            BY <1>1
        <3> QED
            BY <3>1
    <2>2. PlaceOf(k) = <<slot, FieldOrder[id]>>
        BY <1>1, <2>1 DEF PlaceOf, SystemSlot
    <2> QED
        BY <2>2
<1>2. CASE slot \in 0..(m - 1) /\ id \in {1, 2, 3, 4}
    <2>1. PICK k \in 1..q : k = 4 * slot + id + 3
        <3>1. 4 * slot + id + 3 \in 1..q
            BY <1>2
        <3> QED
            BY <3>1
    <2>2. ~(k <= 3) /\ (k - 4) \div 4 = slot /\ ((k - 4) % 4) + 1 = id
        BY <1>2, <2>1
    <2>3. PlaceOf(k) = <<slot, FieldOrder[id]>>
        BY <2>2 DEF PlaceOf
    <2> QED
        BY <2>3
<1> QED
    BY <1>1, <1>2 DEF IsPlace

LEMMA PlaceWidths ==
    ASSUME NEW slot, NEW id, NEW m \in 0..15, IsPlace(slot, id, m)
    PROVE  /\ Width(FieldOrder[id]) \in {1, 2, 4}
           /\ slot = 15 => FieldOrder[id] \in MemoryFields
           /\ slot # 15 => FieldOrder[id] \in TaskFields
<1>1. CASE id \in {5, 6, 7} /\ slot = 15
    BY <1>1, FieldOrders DEF Width, MemoryFields
<1>2. CASE id \in {1, 2, 3, 4} /\ slot \in 0..(m - 1)
    <2>1. Width(FieldOrder[id]) \in {1, 2, 4} /\ FieldOrder[id] \in TaskFields
        BY <1>2, FieldOrders DEF Width, TaskFields
    <2>2. slot # 15
        BY <1>2
    <2> QED
        BY <2>1, <2>2
<1> QED
    BY <1>1, <1>2 DEF IsPlace

(* What the bytes of an entry are, and how they are read *)
IsEntry(e, w, tag, v) ==
    /\ tag \in 0..255 /\ w \in {1, 2, 4}
    /\ e = <<tag>> \o Le(v, w)
    /\ Stand(Le(v, w), w, v)

(* The entry of a value has the tag of its place. *)
HasTag(slot, id, f, v) ==
    \E tag : /\ IsEntry(Entry(slot, f, v), Width(f), tag, v)
             /\ tag \div 16 = slot /\ tag % 16 = id

LEMMA EntryIs ==
    ASSUME NEW slot, NEW id, NEW m \in 0..15, IsPlace(slot, id, m),
           NEW f, f = FieldOrder[id], NEW v \in Values(f)
    PROVE  HasTag(slot, id, f, v)
<1>1. slot \in 0..15 /\ id \in {1, 2, 3, 4, 5, 6, 7}
    BY DEF IsPlace
<1>2. FieldId(f) = id
    BY <1>1, FieldIds
<1>3. PICK tag : tag = (16 * slot + id) % 256
    OBVIOUS
<1>4. tag = 16 * slot + id
    BY <1>1, <1>3
<1>5. tag \in 0..255 /\ tag \div 16 = slot /\ tag % 16 = id
    BY <1>1, <1>4
<1>6. PICK w : w = Width(f) /\ w \in {1, 2, 4}
    BY PlaceWidths
<1>7. \/ w = 1 /\ v \in 0..255
      \/ w = 2 /\ v \in Shorts
      \/ w = 4 /\ v \in Shorts \X Shorts
    BY <1>6, Zenon DEF Values
<1>8. Stand(Le(v, w), w, v)
    BY <1>7, LeStands
<1>9. Entry(slot, f, v) = <<tag>> \o Le(v, w)
    BY <1>2, <1>3, <1>6 DEF Entry
<1>10. IsEntry(Entry(slot, f, v), w, tag, v)
    BY <1>5, <1>6, <1>8, <1>9 DEF IsEntry
<1> QED
    BY <1>5, <1>6, <1>10 DEF HasTag

LEMMA EntryBytes ==
    ASSUME NEW e, NEW w, NEW tag, NEW v, IsEntry(e, w, tag, v)
    PROVE  Bytes(e, 1 + w)
<1>1. /\ tag \in 0..255 /\ w \in {1, 2, 4} /\ e = <<tag>> \o Le(v, w)
      /\ Stand(Le(v, w), w, v)
    BY DEF IsEntry
<1>2. PICK a, b : a = <<tag>> /\ b = Le(v, w)
    OBVIOUS
<1>3. Bytes(a, 1)
    <2>1. a \in Seq(0..255) /\ Len(a) = 1
        BY <1>1, <1>2
    <2> QED
        BY <2>1 DEF Bytes
<1>4. Bytes(b, w)
    BY <1>1, <1>2 DEF Stand, Bytes
<1> QED
    BY <1>1, <1>2, <1>3, <1>4, BytesJoin

(* An entry behind at bytes of p *)
LEMMA EntryAt ==
    ASSUME NEW e, NEW w, NEW tag, NEW v, IsEntry(e, w, tag, v), NEW p, NEW at, At(p, at, e),
           NEW here, here = at + 1, NEW next, next = here + 1 + w
    PROVE  /\ p[here] = tag /\ here \in Nat /\ next \in Nat
           /\ next <= Len(p) + 1
           /\ FromLe(SubSeq(p, here + 1, next - 1)) = v
<1>1. /\ tag \in 0..255 /\ w \in {1, 2, 4} /\ e = <<tag>> \o Le(v, w)
      /\ Stand(Le(v, w), w, v)
    BY DEF IsEntry
<1>2. PICK a, b : a = <<tag>> /\ b = Le(v, w)
    OBVIOUS
<1>3. Bytes(a, 1) /\ a[1] = tag
    <2>1. a \in Seq(0..255) /\ Len(a) = 1 /\ a[1] = tag
        BY <1>1, <1>2
    <2> QED
        BY <2>1 DEF Bytes
<1>4. Bytes(b, w) /\ FromLe(b) = v
    BY <1>1, <1>2 DEF Stand, Bytes
<1>5. At(p, at, a) /\ At(p, here, b)
    BY <1>1, <1>2, <1>3, <1>4, AtSplit
<1>6. at \in Nat /\ here + w <= Len(p) /\ Len(p) \in Nat
    <2>1. Piece(0..255, p, at, a) /\ Piece(0..255, p, here, b)
        BY <1>5 DEF At
    <2>2. at \in Nat /\ here + Len(b) <= Len(p) /\ p \in Seq(0..255)
        BY <2>1 DEF Piece
    <2>3. Len(b) = w
        BY <1>4 DEF Bytes
    <2> QED
        BY <2>2, <2>3
<1>7. p[here] = tag
    BY <1>3, <1>5, AtByte
<1>8. SubSeq(p, here + 1, here + w) = b
    BY <1>4, <1>5, AtSlice
<1>9. next - 1 = here + w /\ here \in Nat /\ next \in Nat /\ next <= Len(p) + 1
    BY <1>1, <1>6
<1> QED
    BY <1>4, <1>7, <1>8, <1>9

(* The state of a host that knows the tasks of s *)
Knows(st, s) ==
    /\ st = [tasks |-> st.tasks, memory |-> st.memory, timestamp |-> st.timestamp,
             hasKeyframe |-> TRUE]
    /\ st.tasks = [i \in Slots(s) |-> [name |-> s.tasks[i].name, field |-> st.tasks[i].field]]
    /\ \A i \in Slots(s) : st.tasks[i].field = [f \in TaskFields |-> st.tasks[i].field[f]]
    /\ st.memory = [f \in MemoryFields |-> st.memory[f]]

(* The value of a place changes, others do not. *)
Changes(st, next, slot, f, v) ==
    /\ next.timestamp = st.timestamp
    /\ \A g \in MemoryFields : next.memory[g] = IF slot = 15 /\ g = f THEN v ELSE st.memory[g]
    /\ \A i \in DOMAIN st.tasks, g \in TaskFields :
          next.tasks[i].field[g] = IF i = slot /\ g = f THEN v ELSE st.tasks[i].field[g]

IsState(st, tasks, memory, time, key) ==
    st = [tasks |-> tasks, memory |-> memory, timestamp |-> time, hasKeyframe |-> key]

LEMMA NewMemory ==
    ASSUME NEW st, NEW a, NEW b, NEW c, NEW d, IsState(st, a, b, c, d), NEW x
    PROVE  IsState([st EXCEPT !.memory = x], a, x, c, d)
BY DEF IsState

LEMMA NewTasks ==
    ASSUME NEW st, NEW a, NEW b, NEW c, NEW d, IsState(st, a, b, c, d), NEW x
    PROVE  IsState([st EXCEPT !.tasks = x], x, b, c, d)
BY DEF IsState

LEMMA NewTime ==
    ASSUME NEW st, NEW a, NEW b, NEW c, NEW d, IsState(st, a, b, c, d), NEW x
    PROVE  IsState([st EXCEPT !.timestamp = x], a, b, x, d)
BY DEF IsState

LEMMA MemoryChange ==
    ASSUME NEW s, NEW st, Knows(st, s), NEW f \in MemoryFields, NEW v
    PROVE  /\ Knows([st EXCEPT !.memory[f] = v], s)
           /\ Changes(st, [st EXCEPT !.memory[f] = v], 15, f, v)
<1>1. PICK tasks, memory, time :
          /\ tasks = st.tasks /\ memory = st.memory /\ time = st.timestamp
          /\ st = [tasks |-> tasks, memory |-> memory, timestamp |-> time, hasKeyframe |-> TRUE]
    BY DEF Knows
<1>2. PICK changed : changed = [memory EXCEPT ![f] = v]
    OBVIOUS
<1>3. PICK next :
          next = [tasks |-> tasks, memory |-> changed, timestamp |-> time, hasKeyframe |-> TRUE]
    OBVIOUS
<1>4. [st EXCEPT !.memory[f] = v] = next
    <2>1. [st EXCEPT !.memory[f] = v] = [st EXCEPT !.memory = changed]
        BY <1>1, <1>2
    <2>2. [st EXCEPT !.memory = changed] = next
        <3>1. IsState(st, tasks, memory, time, TRUE)
            BY <1>1, Zenon DEF IsState
        <3>2. IsState([st EXCEPT !.memory = changed], tasks, changed, time, TRUE)
            BY <3>1, NewMemory
        <3> QED
            BY <1>3, <3>2, Zenon DEF IsState
    <2> QED
        BY <2>1, <2>2
<1>5. next.tasks = tasks /\ next.memory = changed /\ next.timestamp = time
    BY <1>3
<1>6. /\ changed = [g \in MemoryFields |-> changed[g]]
      /\ \A g \in MemoryFields : changed[g] = IF g = f THEN v ELSE memory[g]
    <2>1. memory = [g \in MemoryFields |-> memory[g]]
        BY <1>1 DEF Knows
    <2> QED
        BY <1>2, <2>1
<1>7. /\ tasks = [i \in Slots(s) |-> [name |-> s.tasks[i].name, field |-> tasks[i].field]]
      /\ \A i \in Slots(s) : tasks[i].field = [g \in TaskFields |-> tasks[i].field[g]]
    BY <1>1 DEF Knows
<1>8. Knows(next, s)
    BY <1>3, <1>5, <1>6, <1>7, Zenon DEF Knows
<1>9. Changes(st, next, 15, f, v)
    <2>2. \A g \in TaskFields : g # f
        BY DEF TaskFields, MemoryFields
    <2>3. \A g \in MemoryFields : next.memory[g] = IF 15 = 15 /\ g = f THEN v ELSE st.memory[g]
        BY <1>1, <1>5, <1>6
    <2>4. \A i \in DOMAIN st.tasks, g \in TaskFields :
              next.tasks[i].field[g] = IF i = 15 /\ g = f THEN v ELSE st.tasks[i].field[g]
        BY <1>1, <1>5, <2>2
    <2> QED
        BY <1>1, <1>5, <2>3, <2>4 DEF Changes
<1> QED
    BY <1>4, <1>8, <1>9

LEMMA TaskChange ==
    ASSUME NEW s, NEW st, Knows(st, s), NEW slot \in Slots(s), slot # 15,
           NEW f \in TaskFields, NEW v
    PROVE  /\ Knows([st EXCEPT !.tasks[slot].field[f] = v], s)
           /\ Changes(st, [st EXCEPT !.tasks[slot].field[f] = v], slot, f, v)
<1>1. PICK tasks, memory, time :
          /\ tasks = st.tasks /\ memory = st.memory /\ time = st.timestamp
          /\ st = [tasks |-> tasks, memory |-> memory, timestamp |-> time, hasKeyframe |-> TRUE]
    BY DEF Knows
<1>2. /\ tasks = [i \in Slots(s) |-> [name |-> s.tasks[i].name, field |-> tasks[i].field]]
      /\ \A i \in Slots(s) : tasks[i].field = [g \in TaskFields |-> tasks[i].field[g]]
      /\ memory = [g \in MemoryFields |-> memory[g]]
    BY <1>1 DEF Knows
<1>3. PICK task, fields : task = tasks[slot] /\ fields = task.field
    OBVIOUS
<1>4. PICK fields2 : fields2 = [fields EXCEPT ![f] = v]
    OBVIOUS
<1>5. PICK task2 : task2 = [task EXCEPT !.field = fields2]
    OBVIOUS
<1>6. PICK tasks2 : tasks2 = [tasks EXCEPT ![slot] = task2]
    OBVIOUS
<1>7. PICK next :
          next = [tasks |-> tasks2, memory |-> memory, timestamp |-> time, hasKeyframe |-> TRUE]
    OBVIOUS
<1>8. [st EXCEPT !.tasks[slot].field[f] = v] = next
    <2>1. [st EXCEPT !.tasks[slot].field[f] = v] = [st EXCEPT !.tasks = tasks2]
        BY <1>1, <1>3, <1>4, <1>5, <1>6
    <2>2. [st EXCEPT !.tasks = tasks2] = next
        <3>1. IsState(st, tasks, memory, time, TRUE)
            BY <1>1, Zenon DEF IsState
        <3>2. IsState([st EXCEPT !.tasks = tasks2], tasks2, memory, time, TRUE)
            BY <3>1, NewTasks
        <3> QED
            BY <1>7, <3>2, Zenon DEF IsState
    <2> QED
        BY <2>1, <2>2
<1>9. next.tasks = tasks2 /\ next.memory = memory /\ next.timestamp = time
    BY <1>7
<1>10. task = [name |-> s.tasks[slot].name, field |-> fields]
    BY <1>2, <1>3
<1>11. task2 = [name |-> s.tasks[slot].name, field |-> fields2]
    BY <1>5, <1>10
<1>12. /\ fields2 = [g \in TaskFields |-> fields2[g]]
       /\ \A g \in TaskFields : fields2[g] = IF g = f THEN v ELSE fields[g]
    <2>1. fields = [g \in TaskFields |-> fields[g]]
        BY <1>2, <1>3
    <2> QED
        BY <1>4, <2>1
<1>13. DOMAIN tasks = Slots(s)
    BY <1>2
<1>14. /\ DOMAIN tasks2 = Slots(s) /\ tasks2 = [i \in Slots(s) |-> tasks2[i]]
       /\ \A i \in Slots(s) : tasks2[i] = IF i = slot THEN task2 ELSE tasks[i]
    <2>1. tasks2 = [i \in Slots(s) |-> IF i = slot THEN task2 ELSE tasks[i]]
        BY <1>6, <1>13
    <2> QED
        BY <2>1
<1>15. ASSUME NEW i \in Slots(s)
       PROVE  /\ tasks2[i] = [name |-> s.tasks[i].name, field |-> tasks2[i].field]
              /\ tasks2[i].field = [g \in TaskFields |-> tasks2[i].field[g]]
              /\ \A g \in TaskFields :
                    tasks2[i].field[g] = IF i = slot /\ g = f THEN v ELSE tasks[i].field[g]
    <2>1. CASE i = slot
        <3>1. tasks2[i] = task2 /\ tasks2[i].field = fields2 /\ tasks[i].field = fields
            BY <1>3, <1>11, <1>14, <2>1
        <3>2. tasks2[i] = [name |-> s.tasks[i].name, field |-> tasks2[i].field]
            BY <1>11, <2>1, <3>1
        <3> QED
            BY <1>12, <2>1, <3>1, <3>2
    <2>2. CASE i # slot
        <3>1. tasks2[i] = tasks[i]
            BY <1>14, <2>2
        <3>2. tasks[i] = [name |-> s.tasks[i].name, field |-> tasks[i].field]
            BY <1>2
        <3> QED
            BY <1>2, <2>2, <3>1, <3>2
    <2> QED
        BY <2>1, <2>2
<1>16. tasks2 = [i \in Slots(s) |-> [name |-> s.tasks[i].name, field |-> tasks2[i].field]]
    BY <1>14, <1>15
<1>17. Knows(next, s)
    BY ONLY <1>2, <1>7, <1>9, <1>15, <1>16 DEF Knows
<1>18. Changes(st, next, slot, f, v)
    <2>1. \A g \in MemoryFields : next.memory[g] = IF slot = 15 /\ g = f THEN v ELSE st.memory[g]
        BY <1>1, <1>9
    <2>2. \A i \in DOMAIN st.tasks, g \in TaskFields :
              next.tasks[i].field[g] = IF i = slot /\ g = f THEN v ELSE st.tasks[i].field[g]
        BY ONLY <1>1, <1>9, <1>13, <1>15, Zenon
    <2> QED
        BY <1>1, <1>9, <2>1, <2>2 DEF Changes
<1> QED
    BY <1>8, <1>17, <1>18

(* One turn of the loop, over an entry *)
Turned(c, next, st, s, slot, f, v) ==
    \E new : /\ c = [at |-> next, state |-> new]
             /\ Knows(new, s) /\ Changes(st, new, slot, f, v)

LEMMA OneTurn ==
    ASSUME NEW s, NEW st, Knows(st, s), NEW m \in 0..15, \A i \in 0..(m - 1) : i \in Slots(s),
           NEW slot, NEW id, IsPlace(slot, id, m), NEW f, f = FieldOrder[id], NEW v,
           NEW w, w = Width(f), NEW e, NEW tag, IsEntry(e, w, tag, v),
           tag \div 16 = slot, tag % 16 = id,
           NEW p, NEW at, At(p, at, e), NEW here, here = at + 1, NEW next, next = here + 1 + w,
           NEW c, c = [at |-> here, state |-> st]
    PROVE  Turned(DeltaTurn(p, c), next, st, s, slot, f, v)
<1>1. /\ p[here] = tag /\ here \in Nat /\ next \in Nat /\ next <= Len(p) + 1
      /\ FromLe(SubSeq(p, here + 1, next - 1)) = v
    BY EntryAt
<1>2. w \in {1, 2, 4} /\ Len(p) \in Nat
    <2>1. w \in {1, 2, 4}
        BY DEF IsEntry
    <2>2. p \in Seq(0..255)
        BY DEF At, Piece
    <2> QED
        BY <2>1, <2>2
<1>3. c.at = here /\ c.state = st
    OBVIOUS
<1>4. /\ slot = 15 => f \in MemoryFields
      /\ slot # 15 => f \in TaskFields
    BY PlaceWidths
<1>5. DOMAIN st.tasks = Slots(s)
    BY DEF Knows
<1>6. id \in (IF slot = SystemSlot THEN 5..7 ELSE 1..4)
    BY DEF IsPlace, SystemSlot
<1>7. ~(here > Len(p)) /\ ~(next > Len(p) + 1)
    <2>1. here <= Len(p)
        <3>1. here \in Int /\ next \in Int /\ w \in 1..4 /\ Len(p) \in Int
              /\ next = here + 1 + w /\ next <= Len(p) + 1
            BY <1>1, <1>2
        <3> QED
            BY ONLY <3>1
    <2> QED
        BY <1>1, <1>2, <2>1
<1>8. slot = SystemSlot \/ slot \in DOMAIN st.tasks
    BY <1>5 DEF IsPlace, SystemSlot
<1>9. DeltaTurn(p, c) =
          IF slot = SystemSlot
          THEN [at |-> next, state |-> [st EXCEPT !.memory[f] = v]]
          ELSE [at |-> next, state |-> [st EXCEPT !.tasks[slot].field[f] = v]]
    <2> DEFINE known == id \in (IF slot = SystemSlot THEN 5..7 ELSE 1..4)
               after == here + 1 + (IF known THEN Width(f) ELSE 0)
               value == FromLe(SubSeq(p, here + 1, after - 1))
    <2>1. DeltaTurn(p, c) =
              IF here > Len(p) THEN c
              ELSE IF slot # SystemSlot /\ slot \notin DOMAIN st.tasks
              THEN [c EXCEPT !.at = after]
              ELSE IF ~known \/ after > Len(p) + 1
              THEN [c EXCEPT !.at = Len(p) + 1]
              ELSE IF slot = SystemSlot
              THEN [at |-> after, state |-> [st EXCEPT !.memory[f] = value]]
              ELSE [at |-> after, state |-> [st EXCEPT !.tasks[slot].field[f] = value]]
        BY <1>1, <1>3, Zenon DEF DeltaTurn
    <2>2. known
        BY <1>6
    <2> HIDE DEF known
    <2>3. after = next
        BY <2>2
    <2>4. value = v
        BY <1>1, <2>3, Zenon
    <2> HIDE DEF after, value
    <2> QED
        BY <1>7, <1>8, <2>1, <2>2, <2>3, <2>4, Zenon
<1>10. CASE slot = 15
    <2>1. PICK new : new = [st EXCEPT !.memory[f] = v]
        OBVIOUS
    <2>2. Knows(new, s) /\ Changes(st, new, 15, f, v)
        BY <1>4, <1>10, <2>1, MemoryChange, Zenon
    <2>3. DeltaTurn(p, c) = [at |-> next, state |-> new]
        BY <1>9, <1>10, <2>1, Zenon DEF SystemSlot
    <2> QED
        BY <1>10, <2>2, <2>3, Zenon DEF Turned
<1>11. CASE slot # 15
    <2>1. PICK new : new = [st EXCEPT !.tasks[slot].field[f] = v]
        OBVIOUS
    <2>2. slot \in Slots(s) /\ f \in TaskFields
        BY <1>4, <1>5, <1>8, <1>11 DEF SystemSlot
    <2>3. Knows(new, s) /\ Changes(st, new, slot, f, v)
        BY <1>11, <2>1, <2>2, TaskChange, Zenon
    <2>4. DeltaTurn(p, c) = [at |-> next, state |-> new]
        BY <1>9, <1>11, <2>1, Zenon DEF SystemSlot
    <2> QED
        BY <2>3, <2>4, Zenon DEF Turned
<1> QED
    BY <1>10, <1>11

(* The value of the place k *)
Val(s, k) == ValueAt(s, PlaceOf(k)[1], PlaceOf(k)[2])

(* The first j of q values are those of new, the others those of new or of old. *)
Mixed(st, new, old, j, q) ==
    \A k \in 1..q : Val(st, k) = Val(new, k) \/ (k > j /\ Val(st, k) = Val(old, k))

LEMMA MixedChange ==
    ASSUME NEW m \in 0..15, NEW q, q = 3 + 4 * m,
           NEW new, NEW old, NEW st, Knows(st, new), \A i \in 0..(m - 1) : i \in Slots(new),
           NEW j \in Nat, Mixed(st, new, old, j, q), NEW l \in 1..q, l = j + 1,
           NEW slot, NEW id, IsPlace(slot, id, m), NEW f, f = FieldOrder[id],
           PlaceOf(l) = <<slot, f>>,
           NEW next, Changes(st, next, slot, f, Val(new, l))
    PROVE  Mixed(next, new, old, l, q)
<1> DEFINE v == Val(new, l)
<1>1. ASSUME NEW k \in 1..q
      PROVE  Val(next, k) = IF PlaceOf(k) = PlaceOf(l) THEN v ELSE Val(st, k)
    <2>1. PICK slot2, id2 : IsPlace(slot2, id2, m) /\ PlaceOf(k) = <<slot2, FieldOrder[id2]>>
        <3>1. PICK slot2, id2 : PlaceAs(k, slot2, id2, m)
            BY PlaceIs
        <3> QED
            BY <3>1, Zenon DEF PlaceAs
    <2>2. PICK f2 : f2 = FieldOrder[id2]
        OBVIOUS
    <2>3. slot2 = 15 => f2 \in MemoryFields
        BY <2>1, <2>2, PlaceWidths
    <2>4. slot2 # 15 => f2 \in TaskFields
        BY <2>1, <2>2, PlaceWidths
    <2>5. PlaceOf(k) = PlaceOf(l) <=> slot2 = slot /\ f2 = f
        BY <2>1, <2>2
    <2>6. Val(next, k) = ValueAt(next, slot2, f2) /\ Val(st, k) = ValueAt(st, slot2, f2)
        BY <2>1, <2>2 DEF Val
    <2> HIDE DEF v
    <2>7. CASE slot2 = 15
        <3>1. Val(next, k) = next.memory[f2] /\ Val(st, k) = st.memory[f2]
            BY <2>6, <2>7 DEF ValueAt, SystemSlot
        <3>2. next.memory[f2] = IF slot = 15 /\ f2 = f THEN v ELSE st.memory[f2]
            BY <2>3, <2>7 DEF Changes, v
        <3> QED
            BY <2>5, <2>7, <3>1, <3>2
    <2>8. CASE slot2 # 15
        <3>1. Val(next, k) = next.tasks[slot2].field[f2] /\ Val(st, k) = st.tasks[slot2].field[f2]
            BY <2>6, <2>8 DEF ValueAt, SystemSlot
        <3>2. slot2 \in DOMAIN st.tasks
            <4>1. slot2 \in 0..(m - 1)
                BY <2>1, <2>8 DEF IsPlace
            <4>2. slot2 \in Slots(new)
                BY <4>1
            <4> QED
                BY <4>2 DEF Knows
        <3>3. next.tasks[slot2].field[f2] =
                  IF slot2 = slot /\ f2 = f THEN v ELSE st.tasks[slot2].field[f2]
            BY <2>4, <2>8, <3>2 DEF Changes, v
        <3> QED
            BY <2>5, <3>1, <3>3
    <2> QED
        BY <2>7, <2>8
<1>2. ASSUME NEW k \in 1..q
      PROVE  Val(next, k) = Val(new, k) \/ (k > l /\ Val(next, k) = Val(old, k))
    <2>1. CASE PlaceOf(k) = PlaceOf(l)
        <3>1. Val(new, k) = Val(new, l)
            BY <2>1 DEF Val
        <3> QED
            BY <1>1, <2>1, <3>1
    <2>2. CASE PlaceOf(k) # PlaceOf(l)
        <3>1. Val(next, k) = Val(st, k)
            BY <1>1, <2>2
        <3>2. k # l
            BY <2>2
        <3>3. Val(st, k) = Val(new, k) \/ (k > j /\ Val(st, k) = Val(old, k))
            BY DEF Mixed
        <3>4. k > j => k > l
            BY <3>2
        <3> QED
            BY <3>1, <3>3, <3>4
    <2> QED
        BY <2>1, <2>2
<1> QED
    BY <1>2 DEF Mixed

LEMMA ValType ==
    ASSUME NEW s, NEW n, Holding(s, n), NEW m \in 0..15, m <= n, NEW slot, NEW id,
           IsPlace(slot, id, m), NEW f, f = FieldOrder[id]
    PROVE  ValueAt(s, slot, f) \in Values(f)
<1>1. /\ slot = 15 => f \in MemoryFields
      /\ slot # 15 => f \in TaskFields
    BY PlaceWidths
<1>2. CASE slot = 15
    <2>1. HasFields(s.memory, MemoryFields)
        BY DEF Holding
    <2> QED
        BY <1>1, <1>2, <2>1 DEF HasFields, ValueAt, SystemSlot
<1>3. CASE slot # 15
    <2>1. slot \in 0..(m - 1)
        BY <1>3 DEF IsPlace
    <2>2. slot \in Slots(s)
        BY <2>1 DEF Holding
    <2>3. HasFields(s.tasks[slot].field, TaskFields)
        BY <2>2 DEF Holding
    <2> QED
        BY <1>1, <1>3, <2>3 DEF HasFields, ValueAt, SystemSlot
<1> QED
    BY <1>2, <1>3

(* The entries of a delta *)
Entries(new, old, q) == [k \in 1..q |-> EntryOf(PlaceOf(k), new, old)]

(* The entry of the place k, which is not empty *)
EntryFor(new, old, m, k, slot, id, tag) ==
    /\ IsPlace(slot, id, m) /\ PlaceOf(k) = <<slot, FieldOrder[id]>>
    /\ IsEntry(EntryOf(PlaceOf(k), new, old), Width(FieldOrder[id]), tag, Val(new, k))
    /\ tag \div 16 = slot /\ tag % 16 = id

LEMMA EntryOfPlace ==
    ASSUME NEW new, NEW n, Holding(new, n), NEW old, NEW m \in 0..15, m <= n,
           NEW q, q = 3 + 4 * m, NEW k \in 1..q
    PROVE  /\ Val(new, k) = Val(old, k) => EntryOf(PlaceOf(k), new, old) = <<>>
           /\ Val(new, k) # Val(old, k) =>
                  \E slot, id, tag : EntryFor(new, old, m, k, slot, id, tag)
<1>1. EntryOf(PlaceOf(k), new, old) =
          IF Val(new, k) = Val(old, k) THEN <<>>
          ELSE Entry(PlaceOf(k)[1], PlaceOf(k)[2], Val(new, k))
    BY Zenon DEF EntryOf, Val
<1>2. ASSUME Val(new, k) # Val(old, k)
      PROVE  \E slot, id, tag : EntryFor(new, old, m, k, slot, id, tag)
    <2>1. PICK slot, id : IsPlace(slot, id, m) /\ PlaceOf(k) = <<slot, FieldOrder[id]>>
        <3>1. PICK slot, id : PlaceAs(k, slot, id, m)
            BY PlaceIs
        <3> QED
            BY <3>1, Zenon DEF PlaceAs
    <2>2. PICK f : f = FieldOrder[id]
        OBVIOUS
    <2>3. PlaceOf(k)[1] = slot /\ PlaceOf(k)[2] = f
        BY <2>1, <2>2
    <2>4. PICK v : v = Val(new, k)
        OBVIOUS
    <2>5. v \in Values(f)
        BY <2>1, <2>2, <2>3, <2>4, ValType DEF Val
    <2>6. PICK tag : /\ IsEntry(Entry(slot, f, v), Width(f), tag, v)
                     /\ tag \div 16 = slot /\ tag % 16 = id
        <3>1. HasTag(slot, id, f, v)
            BY <2>1, <2>2, <2>5, EntryIs
        <3> QED
            BY <3>1, Zenon DEF HasTag
    <2>7. EntryOf(PlaceOf(k), new, old) = Entry(slot, f, v)
        BY <1>1, <1>2, <2>3, <2>4, Zenon
    <2>8. EntryFor(new, old, m, k, slot, id, tag)
        BY <2>1, <2>2, <2>4, <2>6, <2>7, Zenon DEF EntryFor
    <2> QED
        BY <2>8, Zenon
<1> QED
    BY <1>1, <1>2

(* What a delta is made of: q strings of bytes, none longer than five *)
AreParts(parts, q) == /\ parts \in [1..q -> Seq(0..255)]
                      /\ \A k \in 1..q : Len(parts[k]) <= 5

LEMMA EntriesAre ==
    ASSUME NEW new, NEW n, Holding(new, n), NEW old, NEW m \in 0..15, m <= n,
           NEW q, q = 3 + 4 * m
    PROVE  AreParts(Entries(new, old, q), q)
<1>1. ASSUME NEW k \in 1..q
      PROVE  /\ EntryOf(PlaceOf(k), new, old) \in Seq(0..255)
             /\ Len(EntryOf(PlaceOf(k), new, old)) <= 5
    <2> DEFINE e == EntryOf(PlaceOf(k), new, old)
    <2>1. CASE Val(new, k) = Val(old, k)
        <3>1. e = <<>>
            BY <2>1, EntryOfPlace
        <3> HIDE DEF e
        <3>2. e \in Seq(0..255) /\ Len(e) <= 5
            BY <3>1
        <3> QED
            BY <3>2 DEF e
    <2>2. CASE Val(new, k) # Val(old, k)
        <3>1. PICK slot, id, tag : EntryFor(new, old, m, k, slot, id, tag)
            BY <2>2, EntryOfPlace
        <3>2. PICK w, v : w = Width(FieldOrder[id]) /\ v = Val(new, k) /\ IsEntry(e, w, tag, v)
            BY <3>1 DEF EntryFor
        <3> HIDE DEF e
        <3>3. Bytes(e, 1 + w) /\ w \in {1, 2, 4}
            BY <3>2, EntryBytes DEF IsEntry
        <3>4. e \in Seq(0..255) /\ Len(e) <= 5
            BY <3>3 DEF Bytes
        <3> QED
            BY <3>4 DEF e
    <2> QED
        BY <2>1, <2>2
<1> QED
    <2> DEFINE part(k) == EntryOf(PlaceOf(k), new, old)
    <2>1. Entries(new, old, q) = [k \in 1..q |-> part(k)]
        BY Zenon DEF Entries
    <2>2. \A k \in 1..q : part(k) \in Seq(0..255) /\ Len(part(k)) <= 5
        BY <1>1
    <2> HIDE DEF part
    <2> QED
        BY ONLY <2>1, <2>2 DEF AreParts

-----------------------------------------------------------------------------
(* Deltas. *)

(* The turns of the loop *)
IsRun(p, st, n, t) ==
    t = [k \in 0..n |-> IF k = 0 THEN [at |-> 1, state |-> st] ELSE DeltaTurn(p, t[k - 1])]

LEMMA RunExists ==
    ASSUME NEW p, NEW st, NEW n \in Nat
    PROVE  \E t : IsRun(p, st, n, t)
<1> DEFINE T == {k \in Nat : \E t : IsRun(p, st, k, t)}
<1>1. 0 \in T
    <2> DEFINE t == [k \in 0..0 |-> [at |-> 1, state |-> st]]
    <2>1. IsRun(p, st, 0, t)
        BY DEF IsRun
    <2> QED
        BY <2>1
<1>2. ASSUME NEW k \in Nat, k \in T PROVE k + 1 \in T
    <2>1. PICK t : IsRun(p, st, k, t)
        BY <1>2
    <2> DEFINE u == [l \in 0..(k + 1) |-> IF l = k + 1 THEN DeltaTurn(p, t[k]) ELSE t[l]]
    <2>2. ASSUME NEW l \in 0..(k + 1)
          PROVE  u[l] = IF l = 0 THEN [at |-> 1, state |-> st] ELSE DeltaTurn(p, u[l - 1])
        <3>1. CASE l = k + 1
            <4>1. l # 0 /\ l - 1 = k /\ k \in 0..(k + 1) /\ k # k + 1
                BY <3>1
            <4> QED
                BY <3>1, <4>1
        <3>2. CASE l # k + 1 /\ l # 0
            <4>1. l \in 0..k /\ l - 1 \in 0..k /\ l - 1 \in 0..(k + 1) /\ l - 1 # k + 1
                BY <3>2
            <4>2. t[l] = DeltaTurn(p, t[l - 1])
                BY <2>1, <3>2, <4>1 DEF IsRun
            <4> QED
                BY <3>2, <4>1, <4>2
        <3>3. CASE l = 0
            <4>1. t[0] = [at |-> 1, state |-> st]
                BY <2>1 DEF IsRun
            <4>2. u[0] = t[0]
                OBVIOUS
            <4> HIDE DEF u
            <4> QED
                BY <3>3, <4>1, <4>2, Zenon
        <3> QED
            BY <3>1, <3>2, <3>3
    <2>3. u = [l \in 0..(k + 1) |-> u[l]]
        OBVIOUS
    <2> HIDE DEF u
    <2>4. u = [l \in 0..(k + 1) |->
                  IF l = 0 THEN [at |-> 1, state |-> st] ELSE DeltaTurn(p, u[l - 1])]
        BY <2>2, <2>3, Zenon
    <2>5. IsRun(p, st, k + 1, u)
        BY <2>4, Zenon DEF IsRun
    <2> QED
        BY <2>5
<1> HIDE DEF T
<1>3. Nat \subseteq T
    BY <1>1, <1>2, InductionOnSet
<1> QED
    BY <1>3 DEF T

LEMMA AppliedIs ==
    ASSUME NEW p, NEW st, NEW n \in Nat, n = Len(p)
    PROVE  \E t : IsRun(p, st, n, t) /\ AppliedDelta(p, st) = t[n].state
<1>1. PICK t : t = CHOOSE u : IsRun(p, st, n, u)
    OBVIOUS
<1>2. IsRun(p, st, n, t)
    BY <1>1, RunExists
<1>3. AppliedDelta(p, st) = (CHOOSE u : IsRun(p, st, n, u))[n].state
    BY DEF AppliedDelta, IsRun
<1> QED
    BY <1>1, <1>2, <1>3

LEMMA RunStep ==
    ASSUME NEW p, NEW st, NEW n \in Nat, NEW t, IsRun(p, st, n, t),
           NEW k \in 0..n, NEW l \in 0..n, l = k + 1
    PROVE  t[l] = DeltaTurn(p, t[k])
<1>1. l # 0 /\ l - 1 = k
    OBVIOUS
<1> QED
    BY <1>1 DEF IsRun

(* What a turn makes of the entry e of the place l *)
Passed(c, here, e, new, old, l, q) ==
    \E x, w : /\ w \in {1, 2, 4} /\ Bytes(e, 1 + w)
              /\ c = [at |-> here + 1 + w, state |-> x]
              /\ Knows(x, new) /\ Mixed(x, new, old, l, q)

LEMMA TurnOfEntry ==
    ASSUME NEW new, NEW n, Holding(new, n), NEW old, NEW m \in 0..15, m <= n,
           NEW q, q = 3 + 4 * m,
           NEW st, Knows(st, new), NEW j \in Nat, Mixed(st, new, old, j, q),
           NEW l \in 1..q, l = j + 1, Val(new, l) # Val(old, l),
           NEW e, e = EntryOf(PlaceOf(l), new, old),
           NEW p, NEW at, At(p, at, e), NEW here, here = at + 1,
           NEW c, c = [at |-> here, state |-> st]
    PROVE  Passed(DeltaTurn(p, c), here, e, new, old, l, q)
<1>1. PICK slot, id, tag : EntryFor(new, old, m, l, slot, id, tag)
    BY EntryOfPlace
<1>2. PICK f, v, w : f = FieldOrder[id] /\ v = Val(new, l) /\ w = Width(f)
    OBVIOUS
<1>3. /\ IsPlace(slot, id, m) /\ PlaceOf(l) = <<slot, f>> /\ IsEntry(e, w, tag, v)
      /\ tag \div 16 = slot /\ tag % 16 = id
    BY <1>1, <1>2, Zenon DEF EntryFor
<1>4. w \in {1, 2, 4} /\ Bytes(e, 1 + w)
    BY <1>3, EntryBytes DEF IsEntry
<1>5. \A i \in 0..(m - 1) : i \in Slots(new)
    BY DEF Holding
<1>6. PICK next : next = here + 1 + w
    OBVIOUS
<1>7. Turned(DeltaTurn(p, c), next, st, new, slot, f, v)
    <2>1. PICK k : k = m /\ k \in 0..15 /\ IsPlace(slot, id, k) /\ \A i \in 0..(k - 1) : i \in Slots(new)
        BY <1>3, <1>5
    <2>2. Knows(st, new) /\ At(p, at, e) /\ here = at + 1 /\ c = [at |-> here, state |-> st]
        OBVIOUS
    <2> QED
        BY ONLY <1>2, <1>3, <1>6, <2>1, <2>2, OneTurn
<1>8. PICK x : /\ DeltaTurn(p, c) = [at |-> next, state |-> x]
               /\ Knows(x, new) /\ Changes(st, x, slot, f, v)
    BY <1>7 DEF Turned
<1>9. Mixed(x, new, old, l, q)
    <2>1. Changes(st, x, slot, f, Val(new, l))
        BY <1>2, <1>8
    <2>2. PICK k : k = m /\ k \in 0..15 /\ q = 3 + 4 * k /\ IsPlace(slot, id, k)
                   /\ \A i \in 0..(k - 1) : i \in Slots(new)
        BY <1>3, <1>5
    <2>3. /\ Knows(st, new) /\ j \in Nat /\ Mixed(st, new, old, j, q)
          /\ l \in 1..q /\ l = j + 1
        OBVIOUS
    <2> QED
        BY ONLY <1>2, <1>3, <2>1, <2>2, <2>3, MixedChange
<1> QED
    BY <1>4, <1>6, <1>8, <1>9 DEF Passed

LEMMA TurnOfNothing ==
    ASSUME NEW new, NEW old, NEW q \in Nat, NEW st, NEW j \in Nat, Mixed(st, new, old, j, q),
           NEW l \in 1..q, l = j + 1, Val(new, l) = Val(old, l)
    PROVE  Mixed(st, new, old, l, q)
<1>1. ASSUME NEW k \in 1..q
      PROVE  Val(st, k) = Val(new, k) \/ (k > l /\ Val(st, k) = Val(old, k))
    <2>1. Val(st, k) = Val(new, k) \/ (k > j /\ Val(st, k) = Val(old, k))
        BY DEF Mixed
    <2>2. CASE k = l
        BY <2>1, <2>2
    <2>3. CASE k # l
        <3>1. k > j => k > l
            BY <2>3
        <3> QED
            BY <2>1, <3>1
    <2> QED
        BY <2>2, <2>3
<1> QED
    BY <1>1 DEF Mixed

(* After the first j entries, laid down in g: the loop stands behind them. *)
Behind(t, g, j, new, old, q) ==
    \E k, x : /\ k \in 0..Len(g[j])
              /\ t[k] = [at |-> Len(g[j]) + 1, state |-> x]
              /\ Knows(x, new) /\ Mixed(x, new, old, j, q)

LEMMA NextBehind ==
    ASSUME NEW new, NEW n, Holding(new, n), NEW old, NEW m \in 0..15, m <= n,
           NEW q, q = 3 + 4 * m,
           NEW g, IsLaid(Entries(new, old, q), q, g), NEW p, Bytes(p, Len(p)), p = g[q],
           NEW st, NEW t, IsRun(p, st, Len(p), t),
           NEW j \in 0..(q - 1), NEW l, l = j + 1, Behind(t, g, j, new, old, q)
    PROVE  Behind(t, g, l, new, old, q)
<1>1. PICK k, x : /\ k \in 0..Len(g[j])
                  /\ t[k] = [at |-> Len(g[j]) + 1, state |-> x]
                  /\ Knows(x, new) /\ Mixed(x, new, old, j, q)
    BY DEF Behind
<1>2. PICK e : e = EntryOf(PlaceOf(l), new, old)
    OBVIOUS
<1>3. q \in Nat /\ j \in Nat /\ l \in 1..q /\ l \in 0..q /\ j \in 0..q
    OBVIOUS
<1>4. Entries(new, old, q)[l] = e
    BY <1>2, <1>3 DEF Entries
<1>5. g[j] \in Seq(0..255) /\ g[l] \in Seq(0..255) /\ g[l] = g[j] \o e
    BY <1>3, <1>4 DEF IsLaid
<1>6. PICK at : at = Len(g[j]) /\ at \in Nat
    <2>1. g[j] \in Seq(0..255)
        BY <1>5
    <2>2. Len(g[j]) \in Nat
        BY ONLY <2>1
    <2> QED
        BY <2>2
<1>7. CASE Val(new, l) = Val(old, l)
    <2>1. e = <<>>
        BY <1>2, <1>3, <1>7, EntryOfPlace
    <2>2. g[l] = g[j]
        BY <1>5, <2>1
    <2>3. Mixed(x, new, old, l, q)
        BY <1>1, <1>3, <1>7, TurnOfNothing
    <2> QED
        BY <1>1, <2>2, <2>3 DEF Behind
<1>8. CASE Val(new, l) # Val(old, l)
    <2>1. At(p, at, e)
        <3>1. At(p, 0, g[q])
            BY AtStart
        <3>2. Entries(new, old, q) \in [1..q -> Seq(0..255)]
            <4>1. AreParts(Entries(new, old, q), q)
                BY EntriesAre
            <4> QED
                BY <4>1, Zenon DEF AreParts
        <3>3. At(p, 0 + Len(g[j]), Entries(new, old, q)[j + 1])
            BY <1>3, <3>1, <3>2, LaidAt
        <3> QED
            BY <1>4, <1>6, <3>3
    <2>2. PICK c, here : c = t[k] /\ here = at + 1
        OBVIOUS
    <2>3. c = [at |-> here, state |-> x]
        BY <1>1, <1>6, <2>2
    <2>4. Passed(DeltaTurn(p, c), here, e, new, old, l, q)
        BY <1>1, <1>2, <1>3, <1>8, <2>1, <2>2, <2>3, TurnOfEntry
    <2>5. PICK y, w : /\ w \in {1, 2, 4} /\ Bytes(e, 1 + w)
                      /\ DeltaTurn(p, c) = [at |-> here + 1 + w, state |-> y]
                      /\ Knows(y, new) /\ Mixed(y, new, old, l, q)
        BY <2>4 DEF Passed
    <2>6. Len(g[l]) = at + 1 + w
        <3>1. e \in Seq(0..255) /\ Len(e) = 1 + w
            BY <2>5 DEF Bytes
        <3> QED
            BY <1>5, <1>6, <2>5, <3>1
    <2>7. Len(g[l]) <= Len(p) /\ Len(p) \in Nat
        <3>1. p \in Seq(0..255) /\ Len(p) \in Nat
            BY DEF Bytes
        <3>2. at + Len(e) <= Len(p)
            BY <2>1 DEF At, Piece
        <3>3. Len(e) = 1 + w
            BY <2>5 DEF Bytes
        <3>4. PICK len, all : len = Len(p) /\ all = Len(e)
            OBVIOUS
        <3>5. all = 1 + w /\ at + all <= len
            BY <3>2, <3>3, <3>4
        <3>6. at + 1 + w <= len
            <4>1. w \in Nat
                BY <2>5
            <4>2. len \in Nat /\ at \in Nat
                BY <1>6, <3>1, <3>4
            <4> QED
                BY ONLY <3>5, <4>1, <4>2
        <3> QED
            BY <2>6, <3>1, <3>4, <3>6
    <2>8. PICK turn : turn = k + 1
        OBVIOUS
    <2>9. k \in 0..Len(p) /\ turn \in 0..Len(p) /\ turn \in 0..Len(g[l])
        BY ONLY <1>1, <1>6, <2>5, <2>6, <2>7, <2>8, Z3
    <2>10. t[turn] = DeltaTurn(p, c)
        <3>1. PICK len : len = Len(p) /\ len \in Nat
            BY <2>7
        <3>2. IsRun(p, st, len, t) /\ k \in 0..len /\ turn \in 0..len
            BY <2>9, <3>1
        <3>3. t[turn] = DeltaTurn(p, t[k])
            BY ONLY <2>8, <3>1, <3>2, RunStep
        <3> QED
            BY <2>2, <3>3
    <2>11. here + 1 + w = Len(g[l]) + 1
        BY <1>6, <2>2, <2>5, <2>6
    <2> QED
        BY <2>5, <2>9, <2>10, <2>11 DEF Behind
<1> QED
    BY <1>7, <1>8

(* What the host has of the device: all but the fields of the tasks without a tag *)
Good(st, s, time) ==
    /\ Knows(st, s) /\ st.timestamp = time /\ st.memory = s.memory
    /\ \A i \in Slots(s) : i < DeltaTasks => st.tasks[i].field = s.tasks[i].field

LEMMA LeastOfTwo ==
    ASSUME NEW a \in Nat, NEW b \in Nat
    PROVE  /\ Min({a, b}) \in Nat /\ Min({a, b}) <= a /\ Min({a, b}) <= b
           /\ \A i \in Nat : i < a /\ i < b => i < Min({a, b})
<1>1. \E x \in {a, b} : \A y \in {a, b} : x <= y
    BY SMT
<1>2. Min({a, b}) \in {a, b} /\ \A y \in {a, b} : Min({a, b}) <= y
    BY <1>1 DEF Min
<1> QED
    BY <1>2

(* The loop stays where it has ended. *)
LEMMA RunEnds ==
    ASSUME NEW p, NEW n \in Nat, n = Len(p), NEW st, NEW t, IsRun(p, st, n, t),
           NEW x, NEW k \in 0..n, t[k] = [at |-> n + 1, state |-> x]
    PROVE  t[n] = t[k]
<1> DEFINE E == {l \in Nat : k + l <= n => t[k + l] = t[k]}
<1>1. 0 \in E
    OBVIOUS
<1>2. ASSUME NEW l \in Nat, l \in E PROVE l + 1 \in E
    <2>1. CASE k + (l + 1) <= n
        <3>1. PICK u, v : u = k + l /\ v = k + (l + 1)
            OBVIOUS
        <3>2. u \in 0..n /\ v \in 0..n /\ v = u + 1
            BY <2>1, <3>1
        <3>3. t[v] = DeltaTurn(p, t[u])
            BY <3>2, RunStep
        <3>4. t[u] = t[k]
            BY <1>2, <2>1, <3>1
        <3>5. t[k].at > Len(p)
            BY SMT
        <3>6. DeltaTurn(p, t[k]) = t[k]
            BY <3>5, Zenon DEF DeltaTurn
        <3> QED
            BY <3>1, <3>3, <3>4, <3>6
    <2>2. CASE ~(k + (l + 1) <= n)
        BY <2>2
    <2> QED
        BY <2>1, <2>2
<1> HIDE DEF E
<1>3. Nat \subseteq E
    BY <1>1, <1>2, InductionOnSet
<1>4. PICK l \in Nat : k + l = n
    <2>1. n - k \in Nat /\ k + (n - k) = n
        OBVIOUS
    <2> QED
        BY <2>1
<1> QED
    BY <1>3, <1>4 DEF E

(* q values are those of the memory and of m of the n tasks. *)
Few(m, n, q) == m \in 0..15 /\ m <= n /\ q = 3 + 4 * m

(* The memory and the first m tasks are those of s. *)
Agrees(x, s, m) ==
    /\ x.memory = s.memory
    /\ \A i \in 0..(m - 1) : x.tasks[i].field = s.tasks[i].field

(* A state that has the q values in common with new has what it has. *)
LEMMA MixedGood ==
    ASSUME NEW new, NEW n, Holding(new, n), NEW old, NEW m, NEW q, Few(m, n, q),
           NEW x, Knows(x, new), Mixed(x, new, old, q, q)
    PROVE  Agrees(x, new, m)
<1> m \in 0..15 /\ m <= n /\ q = 3 + 4 * m
    BY DEF Few
<1>1. ASSUME NEW slot, NEW id, IsPlace(slot, id, m), NEW f, f = FieldOrder[id]
      PROVE  ValueAt(x, slot, f) = ValueAt(new, slot, f)
    <2>1. PICK k \in 1..q : PlaceOf(k) = <<slot, f>>
        BY <1>1, PlaceHas
    <2>2. Val(x, k) = Val(new, k)
        BY DEF Mixed
    <2> QED
        BY <2>1, <2>2 DEF Val
<1>2. x.memory = new.memory
    <2>1. /\ x.memory = [f \in MemoryFields |-> x.memory[f]]
          /\ new.memory = [f \in MemoryFields |-> new.memory[f]]
        BY DEF Knows, Holding, HasFields
    <2>2. ASSUME NEW f \in MemoryFields PROVE x.memory[f] = new.memory[f]
        <3>1. PICK id \in {5, 6, 7} : f = FieldOrder[id]
            BY FieldOrders DEF MemoryFields
        <3>2. IsPlace(15, id, m)
            BY DEF IsPlace
        <3>3. ValueAt(x, 15, f) = ValueAt(new, 15, f)
            BY <1>1, <3>1, <3>2
        <3> QED
            BY <3>3 DEF ValueAt, SystemSlot
    <2> QED
        BY <2>1, <2>2
<1>3. ASSUME NEW i \in 0..(m - 1) PROVE x.tasks[i].field = new.tasks[i].field
    <2>1. i \in Slots(new)
        BY DEF Holding
    <2>2. /\ x.tasks[i].field = [f \in TaskFields |-> x.tasks[i].field[f]]
          /\ new.tasks[i].field = [f \in TaskFields |-> new.tasks[i].field[f]]
        BY <2>1 DEF Knows, Holding, HasFields
    <2>3. ASSUME NEW f \in TaskFields PROVE x.tasks[i].field[f] = new.tasks[i].field[f]
        <3>1. PICK id \in {1, 2, 3, 4} : f = FieldOrder[id]
            BY FieldOrders DEF TaskFields
        <3>2. IsPlace(i, id, m) /\ i # 15
            BY DEF IsPlace
        <3>3. ValueAt(x, i, f) = ValueAt(new, i, f)
            BY <1>1, <3>1, <3>2
        <3> QED
            BY <3>2, <3>3 DEF ValueAt, SystemSlot
    <2> QED
        BY <2>2, <2>3
<1> QED
    BY <1>2, <1>3 DEF Agrees

(* What the host makes of a delta *)
DeltaRead(p, st, new) ==
    \E x : /\ AppliedDelta(p, st) = x /\ Knows(x, new) /\ x.memory = new.memory
           /\ \A i \in Slots(new) : i < DeltaTasks => x.tasks[i].field = new.tasks[i].field

LEMMA DeltaBack ==
    ASSUME NEW new, IsSnapshot(new), NEW old, IsSnapshot(old), Slots(old) = Slots(new),
           NEW st, Knows(st, new), st.memory = old.memory,
           \A i \in Slots(old) : i < DeltaTasks => st.tasks[i].field = old.tasks[i].field
    PROVE  /\ DeltaPayload(new, old) \in Seq(0..255)
           /\ Len(DeltaPayload(new, old)) \in Shorts
           /\ DeltaRead(DeltaPayload(new, old), st, new)
<1>1. PICK n : Holding(new, n)
    BY HoldsSome
<1>2. n \in Nat /\ Cardinality(Slots(new)) = n /\ Slots(new) = 0..(n - 1)
    BY <1>1 DEF Holding
<1>3. DeltaTasks \in Nat /\ DeltaTasks <= 15
    BY CodecAssumption, WireAssumption DEF SystemSlot
<1>4. PICK m : m = Min({n, DeltaTasks})
    OBVIOUS
<1>5. /\ m \in 0..15 /\ m <= n /\ m <= DeltaTasks
      /\ \A i \in Nat : i < n /\ i < DeltaTasks => i < m
    <2>1. /\ m \in Nat /\ m <= n /\ m <= DeltaTasks
          /\ \A i \in Nat : i < n /\ i < DeltaTasks => i < m
        BY ONLY <1>2, <1>3, <1>4, LeastOfTwo
    <2>2. m \in 0..15
        BY <1>3, <2>1
    <2> QED
        BY <2>1, <2>2
<1>6. PICK q : q = 3 + 4 * m
    OBVIOUS
<1>7. q \in Nat /\ q <= 63
    BY <1>5, <1>6
<1>8. PICK entries : entries = Entries(new, old, q)
    OBVIOUS
<1>9. /\ entries \in [1..q -> Seq(0..255)]
      /\ \A k \in 1..q : Len(entries[k]) <= 5
    <2>1. AreParts(Entries(new, old, q), q)
        BY ONLY <1>1, <1>5, <1>6, EntriesAre
    <2> QED
        BY ONLY <1>8, <2>1 DEF AreParts
<1>10. PICK g : IsLaid(entries, q, g) /\ Seqs!FlattenSeq(entries) = g[q]
    BY <1>7, <1>9, Flatten
<1>11. DeltaPayload(new, old) = g[q]
    BY <1>2, <1>4, <1>6, <1>8, <1>10, Zenon DEF DeltaPayload, Entries
<1>12. PICK p : p = g[q]
    OBVIOUS
<1>13. p \in Seq(0..255) /\ Len(p) \in Nat
    <2>1. q \in 0..q
        BY <1>7
    <2> QED
        BY <1>10, <1>12, <2>1 DEF IsLaid
<1>14. Len(p) \in Shorts
    <2>1. Len(p) <= 5 * q
        BY <1>7, <1>9, <1>10, <1>12, LaidBound
    <2>2. Len(p) <= 256 * 255 + 255
        BY <1>7, <1>13, <2>1
    <2> QED
        BY <1>13, <2>2, IsShort
<1>15. PICK len : len = Len(p) /\ len \in Nat
    BY <1>13
<1>16. PICK t : IsRun(p, st, len, t) /\ AppliedDelta(p, st) = t[len].state
    BY <1>15, AppliedIs
<1> DEFINE B == {j \in Nat : j <= q => Behind(t, g, j, new, old, q)}
<1>17. 0 \in B
    <2>1. Mixed(st, new, old, 0, q)
        <3>1. ASSUME NEW k \in 1..q PROVE Val(st, k) = Val(old, k)
            <4>1. PICK slot, id : IsPlace(slot, id, m) /\ PlaceOf(k) = <<slot, FieldOrder[id]>>
                <5>1. PICK slot, id : PlaceAs(k, slot, id, m)
                    BY <1>5, <1>6, PlaceIs
                <5> QED
                    BY <5>1, Zenon DEF PlaceAs
            <4>2. PICK f : f = FieldOrder[id]
                OBVIOUS
            <4>3. ValueAt(st, slot, f) = ValueAt(old, slot, f)
                <5>1. CASE slot = 15
                    BY <5>1 DEF ValueAt, SystemSlot
                <5>2. CASE slot # 15
                    <6>1. slot \in 0..(m - 1)
                        BY <4>1, <5>2 DEF IsPlace
                    <6>2. slot \in Slots(old) /\ slot < DeltaTasks
                        BY <1>2, <1>3, <1>5, <6>1
                    <6> QED
                        BY <5>2, <6>2 DEF ValueAt, SystemSlot
                <5> QED
                    BY <5>1, <5>2
            <4> QED
                BY <4>1, <4>2, <4>3 DEF Val
        <3> QED
            BY <3>1 DEF Mixed
    <2>2. g[0] = <<>> /\ Len(g[0]) = 0
        BY <1>10 DEF IsLaid
    <2>3. t[0] = [at |-> 1, state |-> st]
        <3>1. 0 \in 0..len
            BY <1>15
        <3> QED
            BY <1>16, <3>1 DEF IsRun
    <2>4. 0 \in 0..Len(g[0]) /\ t[0] = [at |-> Len(g[0]) + 1, state |-> st]
        BY <2>2, <2>3
    <2>5. Behind(t, g, 0, new, old, q)
        BY <2>1, <2>4 DEF Behind
    <2> QED
        BY <2>5
<1>18. ASSUME NEW j \in Nat, j \in B PROVE j + 1 \in B
    <2>1. CASE j + 1 <= q
        <3>1. PICK l : l = j + 1
            OBVIOUS
        <3>2. j \in 0..(q - 1) /\ j <= q
            BY <1>7, <2>1
        <3>3. Behind(t, g, j, new, old, q)
            BY <1>18, <3>2
        <3>4. Bytes(p, Len(p)) /\ IsRun(p, st, Len(p), t)
            BY <1>13, <1>15, <1>16 DEF Bytes
        <3>5. IsLaid(Entries(new, old, q), q, g)
            BY <1>8, <1>10
        <3>6. Behind(t, g, l, new, old, q)
            BY ONLY <1>1, <1>5, <1>6, <1>12, <3>1, <3>2, <3>3, <3>4, <3>5, NextBehind
        <3> QED
            BY <3>1, <3>6
    <2>2. CASE ~(j + 1 <= q)
        BY <2>2
    <2> QED
        BY <2>1, <2>2
<1> HIDE DEF B
<1>19. Nat \subseteq B
    BY <1>17, <1>18, InductionOnSet
<1>20. Behind(t, g, q, new, old, q)
    BY <1>7, <1>19 DEF B
<1>21. PICK k, x : /\ k \in 0..len
                   /\ t[k] = [at |-> len + 1, state |-> x]
                   /\ Knows(x, new) /\ Mixed(x, new, old, q, q)
    BY <1>12, <1>15, <1>20 DEF Behind
<1>22. t[len] = t[k]
    BY <1>15, <1>16, <1>21, RunEnds
<1>23. AppliedDelta(p, st) = x
    BY <1>16, <1>21, <1>22
<1>24. /\ x.memory = new.memory
       /\ \A i \in 0..(m - 1) : x.tasks[i].field = new.tasks[i].field
    <2>1. Few(m, n, q)
        BY <1>5, <1>6 DEF Few
    <2>2. Agrees(x, new, m)
        BY <1>1, <1>21, <2>1, MixedGood
    <2> QED
        BY <2>2 DEF Agrees
<1>25. ASSUME NEW i \in Slots(new), i < DeltaTasks PROVE x.tasks[i].field = new.tasks[i].field
    <2>1. i \in 0..(m - 1)
        BY <1>2, <1>5, <1>25
    <2> QED
        BY <1>24, <2>1
<1>26. DeltaRead(p, st, new)
    BY <1>21, <1>23, <1>24, <1>25 DEF DeltaRead
<1> QED
    BY <1>11, <1>12, <1>13, <1>14, <1>26

-----------------------------------------------------------------------------
(* The inductive invariant. *)

(* A snapshot whose names fit their fields *)
Fits(s) == IsSnapshot(s) /\ \A i \in Slots(s) : Len(s.tasks[i].name) < NameLen

DeviceHolds == Fits(device) /\ sentAt \in Shorts \X Shorts

Shaped(st) ==
    /\ IsState(st, st.tasks, st.memory, st.timestamp, st.hasKeyframe)
    /\ st.hasKeyframe \in BOOLEAN

(* The host's state has its four parts. *)
HostHolds ==
    /\ Shaped(host)
    /\ synced \in BOOLEAN

(* A frame on the line: undamaged it is accepted, and brings the host up to *)
(* date when the host was so, or when it is a keyframe.                     *)
LineHolds ==
    /\ frame = <<>> => hit = <<>>
    /\ frame # <<>> => Whole(frame, Len(frame))
    /\ frame # <<>> /\ hit = <<>> =>
          /\ Accepted(frame)
          /\ synced \/ frame[4] = Keyframe => Good(Updated(host, frame), device, sentAt)
    /\ frame = <<>> /\ synced => Good(host, device, sentAt)

NoReason == [k \in 1..CrashReasonMaxLen |-> 0]

CrashHolds ==
    /\ culprit = NoCulprit => crash = NoReason
    /\ culprit # NoCulprit => culprit \in OverflowNames /\ crash = CrashReason(culprit, NoReason)

Counters == seq \in 0..(SeqMod - 1) /\ frames \in 0..MaxFrames /\ source \in {"agent", "mock"}

CodecInvariant ==
    Counters /\ DeviceHolds /\ HostHolds /\ LineHolds /\ DamageRejected /\ CrashHolds

-----------------------------------------------------------------------------
(* Type correctness of the host. *)

LEMMA ShapedIs ==
    ASSUME NEW st, NEW a, NEW b, NEW c, NEW d \in BOOLEAN, IsState(st, a, b, c, d)
    PROVE  Shaped(st)
<1>1. st = [tasks |-> a, memory |-> b, timestamp |-> c, hasKeyframe |-> d]
    BY DEF IsState
<1>2. st.tasks = a /\ st.memory = b /\ st.timestamp = c /\ st.hasKeyframe = d
    BY <1>1
<1> HIDE DEF IsState
<1> QED
    BY <1>2 DEF Shaped

(* The state after a turn of the loop *)
ShapedTurn(c) == \E y, u : c = [at |-> y, state |-> u] /\ Shaped(u)

LEMMA TurnShaped ==
    ASSUME NEW p, NEW c, ShapedTurn(c)
    PROVE  ShapedTurn(DeltaTurn(p, c))
<1>1. PICK y, u : c = [at |-> y, state |-> u] /\ Shaped(u)
    BY DEF ShapedTurn
<1>2. PICK a, b, d, e : IsState(u, a, b, d, e) /\ a = u.tasks /\ b = u.memory /\ e \in BOOLEAN
    BY <1>1 DEF Shaped
<1>3. c.state = u
    BY <1>1
<1>4. ASSUME NEW x PROVE ShapedTurn([c EXCEPT !.at = x])
    <2>1. [c EXCEPT !.at = x] = [at |-> x, state |-> u]
        BY <1>1
    <2> QED
        BY <1>1, <2>1 DEF ShapedTurn
<1>5. ASSUME NEW x, NEW f, NEW v, NEW z, z = [u EXCEPT !.memory[f] = v]
      PROVE  ShapedTurn([at |-> x, state |-> z])
    <2>1. PICK memory : z = [u EXCEPT !.memory[f] = v] /\ memory = [b EXCEPT ![f] = v]
        BY <1>5
    <2>2. z = [u EXCEPT !.memory = memory]
        BY <1>2, <2>1
    <2>3. IsState(z, a, memory, d, e)
        BY <1>2, <2>2, NewMemory
    <2>4. Shaped(z)
        BY <1>2, <2>3, ShapedIs
    <2> QED
        BY <2>1, <2>4 DEF ShapedTurn
<1>6. ASSUME NEW x, NEW slot, NEW f, NEW v, NEW z, z = [u EXCEPT !.tasks[slot].field[f] = v]
      PROVE  ShapedTurn([at |-> x, state |-> z])
    <2>1. PICK task, tasks : /\ z = [u EXCEPT !.tasks[slot].field[f] = v]
                             /\ task = [a[slot] EXCEPT !.field = [a[slot].field EXCEPT ![f] = v]]
                             /\ tasks = [a EXCEPT ![slot] = task]
        BY <1>6
    <2>2. z = [u EXCEPT !.tasks = tasks]
        BY <1>2, <2>1
    <2>3. IsState(z, tasks, b, d, e)
        BY <1>2, <2>2, NewTasks
    <2>4. Shaped(z)
        BY <1>2, <2>3, ShapedIs
    <2> QED
        BY <2>1, <2>4 DEF ShapedTurn
<1> DEFINE slot == p[c.at] \div 16
           id == p[c.at] % 16
           known == id \in (IF slot = SystemSlot THEN 5..7 ELSE 1..4)
           f == FieldOrder[id]
           next == c.at + 1 + (IF known THEN Width(f) ELSE 0)
           value == FromLe(SubSeq(p, c.at + 1, next - 1))
<1>7. DeltaTurn(p, c) =
        IF c.at > Len(p) THEN c
        ELSE IF slot # SystemSlot /\ slot \notin DOMAIN c.state.tasks
        THEN [c EXCEPT !.at = next]
        ELSE IF ~known \/ next > Len(p) + 1
        THEN [c EXCEPT !.at = Len(p) + 1]
        ELSE IF slot = SystemSlot
        THEN [at |-> next, state |-> [c.state EXCEPT !.memory[f] = value]]
        ELSE [at |-> next, state |-> [c.state EXCEPT !.tasks[slot].field[f] = value]]
    BY Zenon DEF DeltaTurn
<1> HIDE DEF slot, id, known, f, next, value
<1>8. \/ DeltaTurn(p, c) = c
      \/ DeltaTurn(p, c) = [c EXCEPT !.at = next]
      \/ DeltaTurn(p, c) = [c EXCEPT !.at = Len(p) + 1]
      \/ DeltaTurn(p, c) = [at |-> next, state |-> [u EXCEPT !.memory[f] = value]]
      \/ DeltaTurn(p, c) = [at |-> next, state |-> [u EXCEPT !.tasks[slot].field[f] = value]]
    BY <1>3, <1>7, Zenon
<1>9. CASE DeltaTurn(p, c) = c
    BY <1>9, Zenon
<1>10. CASE DeltaTurn(p, c) = [c EXCEPT !.at = next]
    BY <1>4, <1>10, Zenon
<1>11. CASE DeltaTurn(p, c) = [c EXCEPT !.at = Len(p) + 1]
    BY <1>4, <1>11, Zenon
<1>12. CASE DeltaTurn(p, c) = [at |-> next, state |-> [u EXCEPT !.memory[f] = value]]
    <2>1. PICK z : z = [u EXCEPT !.memory[f] = value]
        OBVIOUS
    <2>2. ShapedTurn([at |-> next, state |-> z])
        BY <1>5, <2>1
    <2> QED
        BY <1>12, <2>1, <2>2
<1>13. CASE DeltaTurn(p, c) = [at |-> next, state |-> [u EXCEPT !.tasks[slot].field[f] = value]]
    <2>1. PICK z : z = [u EXCEPT !.tasks[slot].field[f] = value]
        OBVIOUS
    <2>2. ShapedTurn([at |-> next, state |-> z])
        BY <1>6, <2>1
    <2> QED
        BY <1>13, <2>1, <2>2
<1> QED
    BY <1>8, <1>9, <1>10, <1>11, <1>12, <1>13

LEMMA AppliedShaped ==
    ASSUME NEW p, Len(p) \in Nat, NEW st, Shaped(st)
    PROVE  Shaped(AppliedDelta(p, st))
<1>1. PICK n \in Nat : n = Len(p)
    OBVIOUS
<1>2. PICK t : IsRun(p, st, n, t) /\ AppliedDelta(p, st) = t[n].state
    BY <1>1, AppliedIs
<1> DEFINE T == {k \in Nat : k <= n => ShapedTurn(t[k])}
<1>3. 0 \in T
    <2>1. 0 \in 0..n
        OBVIOUS
    <2>2. t[0] = [at |-> 1, state |-> st]
        BY <1>2, <2>1 DEF IsRun
    <2> QED
        BY <2>2 DEF ShapedTurn
<1>4. ASSUME NEW k \in Nat, k \in T PROVE k + 1 \in T
    <2>1. CASE k + 1 <= n
        <3>1. PICK l : l = k + 1 /\ l \in 0..n /\ k \in 0..n
            BY <2>1
        <3>2. t[l] = DeltaTurn(p, t[k])
            BY <1>2, <3>1, RunStep
        <3>3. ShapedTurn(t[k])
            BY <1>4, <3>1
        <3> QED
            BY <3>1, <3>2, <3>3, TurnShaped
    <2>2. CASE ~(k + 1 <= n)
        BY <2>2
    <2> QED
        BY <2>1, <2>2
<1> HIDE DEF T
<1>5. Nat \subseteq T
    BY <1>3, <1>4, InductionOnSet
<1>6. ShapedTurn(t[n])
    BY <1>5 DEF T
<1>7. PICK y, u : t[n] = [at |-> y, state |-> u] /\ Shaped(u)
    BY <1>6 DEF ShapedTurn
<1> QED
    BY <1>2, <1>7

LEMMA UpdatedShaped ==
    ASSUME NEW st, Shaped(st), NEW F, Whole(F, Len(F))
    PROVE  Shaped(Updated(st, F))
<1>1. PICK p : p = PayloadOf(F)
    OBVIOUS
<1>2. Len(p) \in Nat
    <2>1. F \in Seq(0..255) /\ Len(F) \in Nat /\ Len(F) >= 14
        BY DEF Whole
    <2>2. p = SubSeq(F, 13, Len(F) - 2)
        BY <1>1 DEF PayloadOf, HeaderSize
    <2> QED
        BY <2>1, <2>2
<1>3. Shaped(ParsedKeyframe(p))
    <2>1. \E a, b, c : IsState(ParsedKeyframe(p), a, b, c, TRUE)
        BY DEF ParsedKeyframe, IsState
    <2> QED
        BY <2>1, ShapedIs
<1>4. ASSUME NEW x PROVE Shaped([AppliedDelta(p, st) EXCEPT !.timestamp = x])
    <2>1. PICK u : u = AppliedDelta(p, st) /\ Shaped(u)
        BY <1>2, AppliedShaped
    <2>2. PICK a, b, c, d : IsState(u, a, b, c, d) /\ d \in BOOLEAN
        BY <2>1 DEF Shaped
    <2>3. IsState([u EXCEPT !.timestamp = x], a, b, x, d)
        BY <2>2, NewTime
    <2> QED
        BY <2>1, <2>2, <2>3, ShapedIs
<1>5. \/ Updated(st, F) = ParsedKeyframe(p)
      \/ Updated(st, F) = [AppliedDelta(p, st) EXCEPT !.timestamp = FromLe(SubSeq(F, 7, 10))]
      \/ Updated(st, F) = st
    <2>1. Updated(st, F) =
            CASE F[4] = Keyframe /\ ParsesAsKeyframe(p) -> ParsedKeyframe(p)
              [] F[4] = Delta /\ st.hasKeyframe ->
                    [AppliedDelta(p, st) EXCEPT !.timestamp = FromLe(SubSeq(F, 7, 10))]
              [] OTHER -> st
        BY <1>1, Zenon DEF Updated
    <2>2. ~(F[4] = Keyframe /\ F[4] = Delta)
        BY DEF Keyframe, Delta
    <2> QED
        BY <2>1, <2>2
<1> QED
    BY <1>3, <1>4, <1>5, Zenon

-----------------------------------------------------------------------------
(* The host is up to date. *)

LEMMA ReadGood ==
    ASSUME NEW s, IsSnapshot(s), NEW d, IsSnapshot(d), d.memory = s.memory,
           d.tasks = Kept(s), NEW time
    PROVE  Good(Read(s, time), d, time)
<1>1. PICK st : st = Read(s, time)
    OBVIOUS
<1>2. /\ st = [tasks |-> Kept(s), memory |-> s.memory, timestamp |-> time, hasKeyframe |-> TRUE]
      /\ st.tasks = Kept(s) /\ st.memory = s.memory /\ st.timestamp = time
    BY <1>1 DEF Read
<1>3. PICK n : Holding(s, n)
    BY HoldsSome
<1>4. Slots(d) = Slots(s)
    BY DEF Kept, Slots
<1>5. ASSUME NEW i \in Slots(s)
      PROVE  /\ d.tasks[i] = Kept(s)[i] /\ st.tasks[i] = Kept(s)[i]
             /\ Kept(s)[i] = [name |-> Truncated(s.tasks[i].name), field |-> s.tasks[i].field]
    BY <1>2 DEF Kept
<1>6. ASSUME NEW i \in Slots(s)
      PROVE  /\ st.tasks[i] = [name |-> d.tasks[i].name, field |-> st.tasks[i].field]
             /\ st.tasks[i].field = [f \in TaskFields |-> st.tasks[i].field[f]]
             /\ st.tasks[i].field = d.tasks[i].field
    <2>1. s.tasks[i].field = [f \in TaskFields |-> s.tasks[i].field[f]]
        BY <1>3 DEF Holding, HasFields
    <2>2. /\ Kept(s)[i].name = Truncated(s.tasks[i].name)
          /\ Kept(s)[i].field = s.tasks[i].field
        <3>1. PICK a, b : a = Truncated(s.tasks[i].name) /\ b = s.tasks[i].field
            OBVIOUS
        <3>2. Kept(s)[i] = [name |-> a, field |-> b]
            BY <1>5, <3>1
        <3> QED
            BY <3>1, <3>2
    <2> QED
        BY <1>5, <2>1, <2>2
<1>7. st.tasks = [i \in Slots(d) |-> [name |-> d.tasks[i].name, field |-> st.tasks[i].field]]
    <2>1. st.tasks = [i \in Slots(s) |-> st.tasks[i]]
        BY <1>2 DEF Kept
    <2>2. \A i \in Slots(s) : st.tasks[i] = [name |-> d.tasks[i].name, field |-> st.tasks[i].field]
        BY <1>6
    <2> QED
        BY <1>4, <2>1, <2>2, Zenon
<1>8. st.memory = [f \in MemoryFields |-> st.memory[f]]
    BY <1>2, <1>3 DEF Holding, HasFields
<1>9. st = [tasks |-> st.tasks, memory |-> st.memory, timestamp |-> st.timestamp,
            hasKeyframe |-> TRUE]
    BY <1>2
<1>10. Knows(st, d)
    BY <1>4, <1>6, <1>7, <1>8, <1>9, Zenon DEF Knows
<1> QED
    BY <1>1, <1>2, <1>4, <1>6, <1>10 DEF Good

(* The host that knows a device knows it when its tasks have the same names. *)
LEMMA KnowsSame ==
    ASSUME NEW st, NEW s, NEW d, Knows(st, d), SameTopology(s, d)
    PROVE  Knows(st, s)
<1>1. Slots(s) = Slots(d) /\ \A i \in Slots(d) : s.tasks[i].name = d.tasks[i].name
    BY DEF SameTopology
<1>2. st.tasks = [i \in Slots(d) |-> [name |-> d.tasks[i].name, field |-> st.tasks[i].field]]
    BY DEF Knows
<1>3. st.tasks = [i \in Slots(s) |-> [name |-> s.tasks[i].name, field |-> st.tasks[i].field]]
    BY <1>1, <1>2
<1> QED
    BY <1>1, <1>3 DEF Knows

(* A keyframe that arrives *)
LEMMA KeyframeGood ==
    ASSUME NEW s, IsSnapshot(s), NEW d, IsSnapshot(d), d.memory = s.memory, d.tasks = Kept(s),
           NEW number \in Shorts, NEW t \in Shorts \X Shorts, NEW u \in Shorts \X Shorts,
           NEW F, F = FramePacket(Keyframe, number, t, KeyframePayload(s, number, u)), NEW st
    PROVE  /\ Whole(F, Len(F)) /\ Accepted(F)
           /\ Good(Updated(st, F), d, u)
<1>1. PICK p : p = KeyframePayload(s, number, u)
    OBVIOUS
<1>2. p \in Seq(0..255) /\ Len(p) \in Shorts /\ KeyframeRead(p, s, u)
    BY <1>1, KeyframeBack
<1>3. Packed(F, Keyframe, t, p)
    <2>1. Keyframe \in {Delta, Keyframe}
        OBVIOUS
    <2>2. PICK type : type = Keyframe
        OBVIOUS
    <2> QED
        BY <1>1, <1>2, <2>1, FrameIsPacked
<1>4. Updated(st, F) = Read(s, u)
    <2>1. F[4] = Keyframe /\ PayloadOf(F) = p
        BY <1>3 DEF Packed
    <2>2. ParsesAsKeyframe(p) /\ ParsedKeyframe(p) = Read(s, u)
        BY <1>2 DEF KeyframeRead
    <2>3. F[4] # Delta
        BY <2>1 DEF Keyframe, Delta
    <2>4. Updated(st, F) =
            CASE F[4] = Keyframe /\ ParsesAsKeyframe(p) -> ParsedKeyframe(p)
              [] F[4] = Delta /\ st.hasKeyframe ->
                    [AppliedDelta(p, st) EXCEPT !.timestamp = FromLe(SubSeq(F, 7, 10))]
              [] OTHER -> st
        BY <2>1, Zenon DEF Updated
    <2> QED
        BY <2>1, <2>2, <2>3, <2>4
<1>5. Good(Read(s, u), d, u)
    BY ReadGood
<1> QED
    BY <1>3, <1>4, <1>5, Zenon DEF Packed

LEMMA KeptFits ==
    ASSUME NEW s, Fits(s)
    PROVE  s.tasks = Kept(s)
<1>1. PICK n : Holding(s, n) /\ IsSnapshot(s)
    BY HoldsSome DEF Fits
<1>2. ASSUME NEW i \in Slots(s)
      PROVE  s.tasks[i] = [name |-> Truncated(s.tasks[i].name), field |-> s.tasks[i].field]
    <2>1. s.tasks[i] = [name |-> s.tasks[i].name, field |-> s.tasks[i].field]
        BY <1>1 DEF IsSnapshot
    <2>2. s.tasks[i].name \in Seq(1..127) /\ Len(s.tasks[i].name) < NameLen
        BY <1>1 DEF Holding, Fits
    <2>3. Truncated(s.tasks[i].name) = s.tasks[i].name
        BY <2>2, ShortName
    <2> QED
        BY <2>1, <2>3
<1>3. s.tasks = [i \in Slots(s) |-> s.tasks[i]]
    BY <1>1 DEF IsSnapshot
<1> QED
    BY <1>2, <1>3 DEF Kept

(* The frame of a delta *)
LEMMA DeltaPacked ==
    ASSUME NEW s, IsSnapshot(s), NEW d, Fits(d), SameTopology(s, d),
           NEW number \in Shorts, NEW t \in Shorts \X Shorts,
           NEW p, p = DeltaPayload(s, d),
           NEW F, F = FramePacket(Delta, number, t, p)
    PROVE  p \in Seq(0..255) /\ Len(p) \in Shorts /\ Packed(F, Delta, t, p)
<1>1. Slots(d) = Slots(s) /\ IsSnapshot(d)
    BY DEF SameTopology, Fits
<1>2. PICK x : x = Read(d, t) /\ Good(x, d, t)
    BY <1>1, KeptFits, ReadGood
<1>3. p \in Seq(0..255) /\ Len(p) \in Shorts
    <2>1. Knows(x, s)
        BY <1>2, KnowsSame DEF Good
    <2>2. /\ x.memory = d.memory
          /\ \A i \in Slots(d) : i < DeltaTasks => x.tasks[i].field = d.tasks[i].field
        BY <1>2 DEF Good
    <2> QED
        BY <1>1, <2>1, <2>2, DeltaBack
<1>4. Packed(F, Delta, t, p)
    <2>1. Delta \in {Delta, Keyframe}
        OBVIOUS
    <2> QED
        BY <1>3, <2>1, FrameIsPacked
<1> QED
    BY <1>3, <1>4

(* A delta that arrives at a host that is up to date; an empty one says     *)
(* that nothing has changed.                                                *)
DeltaArrives(F, p, st, s, d, t, time) ==
    /\ Whole(F, Len(F)) /\ Accepted(F) /\ F[4] = Delta
    /\ Good(st, d, time) => Good(Updated(st, F), s, t)
    /\ p = <<>> /\ Good(st, d, time) => Good(st, s, time)

LEMMA DeltaGood ==
    ASSUME NEW s, IsSnapshot(s), NEW d, Fits(d), SameTopology(s, d),
           NEW number \in Shorts, NEW t \in Shorts \X Shorts,
           NEW p, p = DeltaPayload(s, d),
           NEW F, F = FramePacket(Delta, number, t, p), NEW st, NEW time
    PROVE  DeltaArrives(F, p, st, s, d, t, time)
<1>1. Slots(d) = Slots(s) /\ IsSnapshot(d)
    BY DEF SameTopology, Fits
<1>2. ASSUME NEW x, NEW at, Good(x, d, at)
      PROVE  p \in Seq(0..255) /\ Len(p) \in Shorts /\ DeltaRead(p, x, s)
    <2>1. Knows(x, s)
        BY <1>2, KnowsSame DEF Good
    <2>2. /\ x.memory = d.memory
          /\ \A i \in Slots(d) : i < DeltaTasks => x.tasks[i].field = d.tasks[i].field
        BY <1>2 DEF Good
    <2> QED
        BY <1>1, <2>1, <2>2, DeltaBack
<1>4. Packed(F, Delta, t, p)
    BY DeltaPacked
<1>5. F[4] = Delta /\ PayloadOf(F) = p /\ FromLe(SubSeq(F, 7, 10)) = t
    BY <1>4 DEF Packed
<1>6. ASSUME Good(st, d, time) PROVE Good(Updated(st, F), s, t)
    <2>1. DeltaRead(p, st, s)
        BY <1>2, <1>6
    <2>2. PICK x : /\ AppliedDelta(p, st) = x /\ Knows(x, s) /\ x.memory = s.memory
                   /\ \A i \in Slots(s) : i < DeltaTasks => x.tasks[i].field = s.tasks[i].field
        BY <2>1 DEF DeltaRead
    <2>3. st.hasKeyframe
        <3>1. st = [tasks |-> st.tasks, memory |-> st.memory, timestamp |-> st.timestamp,
                    hasKeyframe |-> TRUE]
            BY <1>6 DEF Good, Knows
        <3>2. \A a, b, c : [tasks |-> a, memory |-> b, timestamp |-> c,
                             hasKeyframe |-> TRUE].hasKeyframe = TRUE
            OBVIOUS
        <3> QED
            BY <3>1, <3>2
    <2>4. PICK y : y = [x EXCEPT !.timestamp = t]
        OBVIOUS
    <2>5. Updated(st, F) = y
        <3>1. F[4] # Keyframe
            BY <1>5 DEF Keyframe, Delta
        <3>2. Updated(st, F) =
                CASE F[4] = Keyframe /\ ParsesAsKeyframe(p) -> ParsedKeyframe(p)
                  [] F[4] = Delta /\ st.hasKeyframe ->
                        [AppliedDelta(p, st) EXCEPT !.timestamp = FromLe(SubSeq(F, 7, 10))]
                  [] OTHER -> st
            BY <1>5, Zenon DEF Updated
        <3>3. Updated(st, F) = [AppliedDelta(p, st) EXCEPT !.timestamp = FromLe(SubSeq(F, 7, 10))]
            BY <1>5, <2>3, <3>1, <3>2
        <3> QED
            BY <1>5, <2>2, <2>4, <3>3
    <2>6. IsState(y, x.tasks, x.memory, t, TRUE)
        <3>1. IsState(x, x.tasks, x.memory, x.timestamp, TRUE)
            BY <2>2, Zenon DEF Knows, IsState
        <3> QED
            BY <2>4, <3>1, NewTime
    <2>7. y = [tasks |-> x.tasks, memory |-> x.memory, timestamp |-> t, hasKeyframe |-> TRUE]
        BY <2>6 DEF IsState
    <2>8. y.tasks = x.tasks /\ y.memory = x.memory /\ y.timestamp = t
        BY <2>7
    <2>9. Knows(y, s)
        BY <2>2, <2>7, <2>8, Zenon DEF Knows
    <2>10. Good(y, s, t)
        BY <2>2, <2>8, <2>9, Zenon DEF Good
    <2> QED
        BY <2>5, <2>10
<1>7. ASSUME p = <<>>, Good(st, d, time) PROVE Good(st, s, time)
    <2>1. PICK x : /\ AppliedDelta(p, st) = x /\ Knows(x, s) /\ x.memory = s.memory
                   /\ \A i \in Slots(s) : i < DeltaTasks => x.tasks[i].field = s.tasks[i].field
        BY <1>2, <1>7 DEF DeltaRead
    <2>2. AppliedDelta(p, st) = st
        <3>1. 0 \in Nat /\ 0 = Len(p)
            BY <1>7
        <3>2. PICK t2 : IsRun(p, st, 0, t2) /\ AppliedDelta(p, st) = t2[0].state
            BY <3>1, AppliedIs
        <3>3. t2[0] = [at |-> 1, state |-> st]
            <4>1. 0 \in 0..0
                OBVIOUS
            <4> QED
                BY <3>2, <4>1 DEF IsRun
        <3> QED
            BY <3>2, <3>3
    <2>3. st.timestamp = time
        BY <1>7 DEF Good
    <2> QED
        BY <2>1, <2>2, <2>3 DEF Good
<1> QED
    BY <1>4, <1>5, <1>6, <1>7, Zenon DEF Packed, DeltaArrives

-----------------------------------------------------------------------------
(* The crash diagnostics. *)

LEMMA TextIs ==
    ASSUME NEW name \in OverflowNames
    PROVE  CrashText(name) \in Seq(1..255)
<1>1. CrashPrefix \in Seq(1..255)
    BY DEF CrashPrefix
<1>2. PICK rest : rest = IF name = NULL THEN <<>> ELSE name
    OBVIOUS
<1>3. rest \in Seq(1..255)
    <2>1. CASE name = NULL
        <3>1. rest = <<>>
            BY <1>2, <2>1
        <3> QED
            BY <3>1
    <2>2. CASE name # NULL
        <3>1. name \in OverflowNames \ {NULL}
            BY <2>2
        <3>2. name \in Seq(1..255)
            BY <3>1, CodecAssumption
        <3> QED
            BY <1>2, <2>2, <3>2
    <2> QED
        BY <2>1, <2>2
<1>4. CrashPrefix \o rest \in Seq(1..255)
    BY <1>1, <1>3, Join
<1> QED
    BY <1>2, <1>4 DEF CrashText

(* c is the buffer of 64 bytes that the hook leaves: the text up to the     *)
(* place end, and zeros from there.                                         *)
Left(c, text, len, end) ==
    /\ text \in Seq(1..255) /\ len = Len(text) /\ len \in Nat
    /\ end = IF len < 64 THEN len + 1 ELSE 64
    /\ c = [k \in 1..64 |-> IF k < end THEN text[k] ELSE 0]

LEMMA LeftEnd ==
    ASSUME NEW c, NEW text, NEW len, NEW end, Left(c, text, len, end)
    PROVE  \E m : /\ m \in 0..63 /\ m <= len /\ end = m + 1 /\ end \in 1..64
                  /\ m < len => m = 63
<1>1. len \in Nat /\ end = IF len < 64 THEN len + 1 ELSE 64
    BY DEF Left
<1>2. PICK m : m = end - 1
    OBVIOUS
<1>3. m \in 0..63 /\ m <= len /\ end = m + 1 /\ end \in 1..64 /\ (m < len => m = 63)
    BY ONLY <1>1, <1>2
<1> QED
    BY <1>3

LEMMA LeftZeros ==
    ASSUME NEW c, NEW text, NEW len, NEW end, Left(c, text, len, end)
    PROVE  {k \in DOMAIN c : c[k] = 0} = end..64
<1>1. PICK m : m \in 0..63 /\ m <= len /\ end = m + 1
    BY LeftEnd
<1>2. \A k \in 1..64 : c[k] = IF k < end THEN text[k] ELSE 0
    BY DEF Left
<1>3. DOMAIN c = 1..64
    BY DEF Left
<1>4. len \in Nat /\ \A k \in 1..len : text[k] \in 1..255
    BY DEF Left
<1>5. ASSUME NEW k \in 1..64 PROVE c[k] = 0 <=> k \in end..64
    <2>1. CASE k < end
        <3>1. k \in 1..len /\ ~(k \in end..64)
            BY ONLY <1>1, <1>4, <2>1, k \in 1..64
        <3>2. text[k] \in 1..255
            BY <1>4, <3>1
        <3>3. text[k] # 0
            BY ONLY <3>2
        <3>4. c[k] = text[k]
            BY <1>2, <2>1
        <3> QED
            BY <3>1, <3>3, <3>4
    <2>2. CASE ~(k < end)
        <3>1. k \in end..64
            BY ONLY <1>1, <2>2, k \in 1..64
        <3>2. c[k] = 0
            BY <1>2, <2>2
        <3> QED
            BY <3>1, <3>2
    <2> QED
        BY <2>1, <2>2
<1>6. \A k \in end..64 : k \in 1..64
    BY ONLY <1>1
<1> QED
    BY <1>3, <1>5, <1>6

LEMMA LeftRead ==
    ASSUME NEW c, NEW text, NEW len, NEW end, Left(c, text, len, end),
           NEW m, m \in 0..63, m <= len, end = m + 1
    PROVE  /\ Len(SubSeq(c, 1, m)) = m
           /\ Seqs!IsPrefix(SubSeq(c, 1, m), text)
<1>1. /\ text \in Seq(1..255) /\ len = Len(text) /\ len \in Nat
      /\ \A k \in 1..len : text[k] \in 1..255
    BY DEF Left
<1>2. c \in Seq(0..255) /\ Len(c) = 64
    <2>1. ASSUME NEW k \in 1..64 PROVE c[k] \in 0..255
        <3>1. CASE k < end
            <4>1. k \in 1..len
                BY ONLY <1>1, <3>1, m <= len, end = m + 1, m \in 0..63, k \in 1..64
            <4>2. c[k] = text[k]
                BY <3>1 DEF Left
            <4>3. text[k] \in 0..255
                <5>1. text[k] \in 1..255
                    BY <1>1, <4>1
                <5> QED
                    BY ONLY <5>1
            <4> QED
                BY <4>2, <4>3
        <3>2. CASE ~(k < end)
            <4>1. c[k] = 0
                BY <3>2 DEF Left
            <4> QED
                BY <4>1
        <3> QED
            BY <3>1, <3>2
    <2>2. c = [k \in 1..64 |-> c[k]]
        BY DEF Left
    <2>3. PICK n : n = 64
        OBVIOUS
    <2>4. n \in Nat
        BY ONLY <2>3
    <2>5. c \in [1..n -> 0..255]
        BY ONLY <2>1, <2>2, <2>3
    <2>6. c \in Seq(0..255) /\ Len(c) = n
        BY <2>4, <2>5, ArrayIsSeq
    <2> QED
        BY <2>3, <2>6
<1>3. IsCut(c, 1, m, m)
    BY <1>2 DEF IsCut
<1>4. PICK read : read = SubSeq(c, 1, m)
    OBVIOUS
<1>5. read \in Seq(0..255) /\ Holds(read, c, 1, m)
    <2>1. PICK at : at = 1
        OBVIOUS
    <2>2. IsCut(c, at, m, m) /\ read = SubSeq(c, at, m)
        BY <1>3, <1>4, <2>1
    <2>3. read \in Seq(0..255) /\ Holds(read, c, at, m)
        <3>1. SubSeq(c, at, m) \in Seq(0..255) /\ Holds(SubSeq(c, at, m), c, at, m)
            BY ONLY <1>2, <2>2, Cut
        <3> QED
            BY <2>2, <3>1, Zenon
    <2> QED
        BY <2>1, <2>3
<1>6. Len(read) = m
    BY <1>5 DEF Holds
<1>7. ASSUME NEW j \in 1..m PROVE read[j] = text[j]
    <2>1. j \in 1..64 /\ j = 1 + j - 1 /\ j < end
        BY ONLY j \in 1..m, m \in 0..63, end = m + 1
    <2>2. read[j] = c[j]
        BY <1>2, <1>5, <2>1 DEF Holds
    <2>3. c[j] = text[j]
        BY <2>1 DEF Left
    <2> QED
        BY <2>2, <2>3
<1>8. m \in Nat /\ m <= len
    OBVIOUS
<1>9. SubSeq(read, 1, m) = SubSeq(text, 1, m)
    BY ONLY <1>1, <1>5, <1>6, <1>7, <1>8
<1>10. Seqs!IsPrefix(read, text)
    BY <1>1, <1>6, <1>8, <1>9 DEF Seqs!IsPrefix
<1> QED
    BY <1>4, <1>6, <1>10

LEMMA LeastOfRange ==
    ASSUME NEW end, end \in 1..64
    PROVE  Min(end..64) = end
<1>1. end \in end..64 /\ \A k \in end..64 : end <= k
    OBVIOUS
<1>2. \A k \in end..64 : k <= end => k = end
    OBVIOUS
<1> QED
    BY <1>1, <1>2 DEF Min

LEMMA ReasonIsLeft ==
    ASSUME NEW name \in OverflowNames
    PROVE  \E len, end : Left(CrashReason(name, NoReason), CrashText(name), len, end)
<1>1. PICK text : text = CrashText(name) /\ text \in Seq(1..255)
    BY TextIs
<1>2. PICK len : len = Len(text) /\ len \in Nat
    BY <1>1
<1>3. PICK end : end = IF len < 64 THEN len + 1 ELSE 64
    OBVIOUS
<1>4. CrashReason(name, NoReason) =
        [k \in DOMAIN NoReason |-> IF k < end THEN text[k] ELSE IF k = end THEN 0 ELSE NoReason[k]]
    BY <1>1, <1>2, <1>3 DEF CrashReason, CrashReasonMaxLen
<1>5. DOMAIN NoReason = 1..64 /\ \A k \in 1..64 : NoReason[k] = 0
    BY DEF NoReason, CrashReasonMaxLen
<1>6. CrashReason(name, NoReason) = [k \in 1..64 |-> IF k < end THEN text[k] ELSE 0]
    BY ONLY <1>4, <1>5
<1>7. Left(CrashReason(name, NoReason), CrashText(name), len, end)
    <2>1. CrashText(name) = text
        BY <1>1
    <2> QED
        BY ONLY <1>1, <1>2, <1>3, <1>6, <2>1 DEF Left
<1> QED
    BY <1>7, Zenon

(* The text is readable after an overflow, and nothing is before. *)
LEMMA CrashIsReadable ==
    ASSUME CrashHolds
    PROVE  CrashReadable
<1> DEFINE zeros == {k \in DOMAIN crash : crash[k] = 0}
           read  == SubSeq(crash, 1, Min(zeros) - 1)
<1>1. CASE culprit = NoCulprit
    <2>1. crash = NoReason
        BY <1>1 DEF CrashHolds
    <2>2. zeros = 1..64
        BY <2>1 DEF NoReason, CrashReasonMaxLen
    <2>3. Min(zeros) = 1
        <3>1. 1 \in 1..64
            OBVIOUS
        <3> QED
            BY <2>2, <3>1, LeastOfRange
    <2>4. read = <<>>
        <3>1. crash \in Seq({0})
            BY <2>1 DEF NoReason, CrashReasonMaxLen
        <3>2. SubSeq(crash, 1, 0) = <<>>
            BY ONLY <3>1
        <3> HIDE DEF zeros
        <3>3. read = SubSeq(crash, 1, 0)
            BY <2>3
        <3> QED
            BY <3>2, <3>3
    <2>5. zeros # {}
        BY <2>2
    <2> QED
        BY <1>1, <2>4, <2>5 DEF CrashReadable
<1>2. CASE culprit # NoCulprit
    <2>1. culprit \in OverflowNames /\ crash = CrashReason(culprit, NoReason)
        BY <1>2 DEF CrashHolds
    <2>2. PICK text, len, end : text = CrashText(culprit) /\ Left(crash, text, len, end)
        BY <2>1, ReasonIsLeft
    <2>3. PICK m : /\ m \in 0..63 /\ m <= len /\ end = m + 1 /\ end \in 1..64
                   /\ m < len => m = 63
        BY <2>2, LeftEnd
    <2>4. zeros = end..64
        BY <2>2, LeftZeros
    <2> HIDE DEF zeros
    <2>5. Min(zeros) = end
        <3>1. Min(end..64) = end
            BY <2>3, LeastOfRange
        <3> QED
            BY <2>4, <3>1, Zenon
    <2>6. read = SubSeq(crash, 1, m)
        <3>1. end - 1 = m
            BY <2>3
        <3> QED
            BY <2>5, <3>1
    <2>7. Len(read) = m /\ Seqs!IsPrefix(read, text)
        <3>1. Len(SubSeq(crash, 1, m)) = m /\ Seqs!IsPrefix(SubSeq(crash, 1, m), text)
            BY <2>2, <2>3, LeftRead
        <3> HIDE DEF read
        <3> QED
            BY <2>6, <3>1
    <2>8. len = Len(text)
        BY <2>2 DEF Left
    <2> HIDE DEF read
    <2>9. zeros # {}
        <3>1. 64 \in end..64
            BY ONLY <2>3
        <3> QED
            BY <2>4, <3>1, Zenon
    <2>10. m < len => zeros = {CrashReasonMaxLen}
        BY <2>3, <2>4 DEF CrashReasonMaxLen
    <2>11. Len(read) < Len(text) => zeros = {CrashReasonMaxLen}
        BY <2>7, <2>8, <2>10
    <2>12. CrashReadable <=>
              /\ zeros # {}
              /\ IF culprit = NoCulprit THEN read = <<>>
                 ELSE /\ Seqs!IsPrefix(read, CrashText(culprit))
                      /\ Len(read) < Len(CrashText(culprit)) => zeros = {CrashReasonMaxLen}
        BY Zenon DEF CrashReadable, zeros, read
    <2> QED
        BY <1>2, <2>2, <2>7, <2>9, <2>11, <2>12
<1> QED
    BY <1>1, <1>2

-----------------------------------------------------------------------------
(* The inductive invariant is one. *)

LEMMA InitHolds ==
    ASSUME Init
    PROVE  CodecInvariant
<1> USE DEF Init
<1>1. Counters
    <2>1. seq \in 0..(SeqMod - 1)
        BY CodecAssumption
    <2>2. frames \in 0..MaxFrames
        BY CodecAssumption
    <2> QED
        BY <2>1, <2>2 DEF Counters
<1>2. DeviceHolds
    <2>1. Fits(device)
        BY CodecAssumption DEF Fits
    <2>2. 0 \in Shorts
        BY IsShort
    <2> QED
        BY <2>1, <2>2 DEF DeviceHolds
<1>3. HostHolds
    <2>1. \E a, b, c : IsState(host, a, b, c, FALSE)
        BY DEF NoState, IsState
    <2>2. Shaped(host)
        BY <2>1, ShapedIs
    <2> QED
        BY <2>2 DEF HostHolds
<1>4. LineHolds
    BY DEF LineHolds
<1>5. DamageRejected
    BY DEF DamageRejected
<1>6. CrashHolds
    BY DEF CrashHolds, NoReason
<1> QED
    BY <1>1, <1>2, <1>3, <1>4, <1>5, <1>6 DEF CodecInvariant

(* The sequence number and the timestamps fit the header. *)
LEMMA Numbers ==
    ASSUME Counters
    PROVE  /\ seq \in Shorts
           /\ (seq + 1) % SeqMod \in 0..(SeqMod - 1)
           /\ frames < MaxFrames => frames + 1 \in 0..MaxFrames
<1>1. SeqMod \in Nat \ {0, 1} /\ MaxFrames \in Nat
    BY CodecAssumption, WireAssumption
<1>2. SeqMod <= 256 * 255 + 256
    BY <1>1, CodecAssumption
<1>3. seq \in 0..(SeqMod - 1) /\ frames \in 0..MaxFrames
    BY DEF Counters
<1>4. seq \in Nat /\ seq <= 256 * 255 + 255
    BY <1>1, <1>2, <1>3
<1>5. seq \in Shorts
    BY <1>4, IsShort
<1>6. (seq + 1) % SeqMod \in 0..(SeqMod - 1)
    BY <1>1, <1>3
<1>7. frames < MaxFrames => frames + 1 \in 0..MaxFrames
    BY <1>1, <1>3
<1> QED
    BY <1>5, <1>6, <1>7

(* A frame is put on the line. *)
LEMMA FrameSent ==
    ASSUME hit = <<>>, UNCHANGED <<hit, host, synced>>,
           Whole(frame', Len(frame')), Accepted(frame'),
           synced \/ frame'[4] = Keyframe => Good(Updated(host, frame'), device', sentAt')
    PROVE  LineHolds' /\ DamageRejected'
<1>1. frame' # <<>>
    <2>1. Len(frame') >= 14
        BY DEF Whole
    <2> QED
        BY <2>1
<1>2. LineHolds'
    BY <1>1 DEF LineHolds
<1>3. DamageRejected'
    BY DEF DamageRejected
<1> QED
    BY <1>2, <1>3

LEMMA AgentHolds ==
    ASSUME CodecInvariant, AgentSends
    PROVE  CodecInvariant'
<1>1. /\ source = "agent" /\ culprit = NoCulprit /\ frame = <<>> /\ frames < MaxFrames
      /\ seq' = (seq + 1) % SeqMod /\ frames' = frames + 1
      /\ UNCHANGED <<source, hit, host, synced, crash, culprit>>
    BY DEF AgentSends, crashVars
<1>2. /\ Counters /\ DeviceHolds /\ HostHolds /\ LineHolds /\ CrashHolds
      /\ Fits(device) /\ IsSnapshot(device) /\ sentAt \in Shorts \X Shorts
      /\ hit = <<>> /\ (synced => Good(host, device, sentAt))
    BY <1>1 DEF CodecInvariant, DeviceHolds, Fits, LineHolds
<1>3. PICK s \in Snapshots, force \in BOOLEAN, t \in Timestamps :
          LET keyframe == force \/ frames = 0 \/ ~SameTopology(s, device)
              payload == IF keyframe THEN KeyframePayload(s, seq, t) ELSE DeltaPayload(s, device)
          IN  /\ device' = s
              /\ IF payload = <<>> THEN UNCHANGED <<frame, sentAt>>
                 ELSE /\ frame' = FramePacket(IF keyframe THEN Keyframe ELSE Delta,
                                              seq, t, payload)
                      /\ sentAt' = t
    BY DEF AgentSends
<1> DEFINE keyframe == force \/ frames = 0 \/ ~SameTopology(s, device)
           payload == IF keyframe THEN KeyframePayload(s, seq, t) ELSE DeltaPayload(s, device)
<1>4. /\ device' = s
      /\ payload = <<>> => UNCHANGED <<frame, sentAt>>
      /\ payload # <<>> => /\ frame' = FramePacket(IF keyframe THEN Keyframe ELSE Delta,
                                                  seq, t, payload)
                           /\ sentAt' = t
    BY <1>3
<1>5. t \in Shorts \X Shorts /\ Fits(s) /\ IsSnapshot(s)
    BY CodecAssumption DEF Fits
<1>6. seq \in Shorts
    BY <1>2, Numbers
<1>7. Counters'
    BY <1>1, <1>2, Numbers DEF Counters
<1>8. DeviceHolds'
    BY <1>2, <1>4, <1>5 DEF DeviceHolds
<1>9. HostHolds' /\ CrashHolds'
    BY <1>1, <1>2 DEF HostHolds, CrashHolds
<1>10. LineHolds' /\ DamageRejected'
    <2>1. CASE keyframe
        <3>1. PICK p : p = KeyframePayload(s, seq, t) /\ p = payload
            BY <2>1
        <3>2. p # <<>>
            <4>1. ParsesAsKeyframe(p)
                <5>1. KeyframeRead(p, s, t)
                    <6>1. KeyframeRead(KeyframePayload(s, seq, t), s, t)
                        BY ONLY <1>5, <1>6, KeyframeBack
                    <6> QED
                        BY <3>1, <6>1, Zenon
                <5> QED
                    BY <5>1, Zenon DEF KeyframeRead
            <4>2. Len(p) >= 16
                BY <4>1 DEF ParsesAsKeyframe
            <4> QED
                BY <4>2
        <3> HIDE DEF payload
        <3>3. frame' = FramePacket(Keyframe, seq, t, p) /\ sentAt' = t
            BY <1>4, <2>1, <3>1, <3>2, Zenon
        <3>4. s.tasks = Kept(s)
            BY <1>5, KeptFits
        <3>5. PICK F : F = frame' /\ F = FramePacket(Keyframe, seq, t, KeyframePayload(s, seq, t))
            BY <3>1, <3>3
        <3>6. Whole(F, Len(F)) /\ Accepted(F) /\ Good(Updated(host, F), s, t)
            BY <1>5, <1>6, <3>4, <3>5, KeyframeGood
        <3> QED
            BY <1>1, <1>2, <1>4, <3>3, <3>5, <3>6, FrameSent
    <2>2. CASE ~keyframe
        <3>1. SameTopology(s, device)
            BY <2>2
        <3>2. PICK p : p = DeltaPayload(s, device) /\ p = payload
            BY <2>2
        <3> HIDE DEF payload, keyframe
        <3>3. PICK F : F = FramePacket(Delta, seq, t, p)
            OBVIOUS
        <3>4. /\ Whole(F, Len(F)) /\ Accepted(F) /\ F[4] = Delta
              /\ Good(host, device, sentAt) => Good(Updated(host, F), s, t)
              /\ p = <<>> /\ Good(host, device, sentAt) => Good(host, s, sentAt)
            <4>1. DeltaArrives(F, p, host, s, device, t, sentAt)
                BY <1>2, <1>5, <1>6, <3>1, <3>2, <3>3, DeltaGood
            <4> QED
                BY <4>1, Zenon DEF DeltaArrives
        <3>5. CASE p = <<>>
            <4>1. frame' = <<>> /\ sentAt' = sentAt /\ hit' = <<>> /\ host' = host /\ synced' = synced
                BY <1>1, <1>2, <1>4, <3>2, <3>5
            <4>2. synced => Good(host, s, sentAt)
                BY <1>2, <3>4, <3>5
            <4>3. LineHolds'
                BY <1>4, <4>1, <4>2 DEF LineHolds
            <4>4. DamageRejected'
                BY <4>1 DEF DamageRejected
            <4> QED
                BY <4>3, <4>4
        <3>6. CASE p # <<>>
            <4>1. frame' = F /\ sentAt' = t
                BY <1>4, <2>2, <3>2, <3>3, <3>6, Zenon
            <4>2. synced \/ F[4] = Keyframe => Good(Updated(host, F), s, t)
                <5>1. F[4] # Keyframe
                    BY <3>4 DEF Delta, Keyframe
                <5> QED
                    BY <1>2, <3>4, <5>1
            <4> QED
                BY <1>1, <1>2, <1>4, <3>4, <4>1, <4>2, FrameSent
        <3> QED
            BY <3>5, <3>6
    <2> QED
        BY <2>1, <2>2
<1> QED
    BY <1>7, <1>8, <1>9, <1>10 DEF CodecInvariant

LEMMA MockHolds ==
    ASSUME CodecInvariant, MockSends
    PROVE  CodecInvariant'
<1>1. /\ source = "mock" /\ frame = <<>> /\ frames < MaxFrames
      /\ seq' = (seq + 1) % SeqMod /\ frames' = frames + 1
      /\ UNCHANGED <<source, hit, host, synced, crash, culprit>>
    BY DEF MockSends, crashVars
<1>2. /\ Counters /\ HostHolds /\ LineHolds /\ CrashHolds /\ hit = <<>>
    BY <1>1 DEF CodecInvariant, LineHolds
<1>3. PICK s \in MockSnapshots, t \in Timestamps, u \in Timestamps :
          /\ device' = [s EXCEPT !.tasks =
                           [i \in Slots(s) |-> [s.tasks[i] EXCEPT !.name = Truncated(@)]]]
          /\ sentAt' = u
          /\ frame' = FramePacket(Keyframe, seq, t, KeyframePayload(s, seq, u))
    BY DEF MockSends
<1>4. t \in Shorts \X Shorts /\ u \in Shorts \X Shorts /\ IsSnapshot(s)
    BY CodecAssumption
<1>5. seq \in Shorts
    BY <1>2, Numbers
<1>6. PICK d : d = device'
    OBVIOUS
<1>7. d = [tasks |-> Kept(s), memory |-> s.memory]
    <2>1. [i \in Slots(s) |-> [s.tasks[i] EXCEPT !.name = Truncated(@)]] = Kept(s)
        <3>1. ASSUME NEW i \in Slots(s)
              PROVE  [s.tasks[i] EXCEPT !.name = Truncated(@)] =
                         [name |-> Truncated(s.tasks[i].name), field |-> s.tasks[i].field]
            <4>1. PICK task, name, field : task = s.tasks[i] /\ name = task.name /\ field = task.field
                OBVIOUS
            <4>2. task = [name |-> name, field |-> field]
                BY <1>4, <4>1 DEF IsSnapshot
            <4>3. [task EXCEPT !.name = Truncated(name)] = [name |-> Truncated(name), field |-> field]
                BY <4>2
            <4> QED
                BY <4>1, <4>3
        <3> QED
            BY <3>1 DEF Kept
    <2>2. PICK tasks : tasks = Kept(s)
        OBVIOUS
    <2>3. d = [s EXCEPT !.tasks = tasks]
        BY <1>3, <1>6, <2>1, <2>2
    <2>4. s = [tasks |-> s.tasks, memory |-> s.memory]
        BY <1>4 DEF IsSnapshot
    <2> QED
        BY <2>2, <2>3, <2>4
<1>8. d.tasks = Kept(s) /\ d.memory = s.memory
    BY <1>7
<1>9. Fits(d) /\ IsSnapshot(d)
    <2>1. Slots(d) = Slots(s)
        BY <1>8 DEF Slots, Kept
    <2>2. ASSUME NEW i \in Slots(s)
          PROVE  /\ d.tasks[i] = [name |-> d.tasks[i].name, field |-> d.tasks[i].field]
                 /\ d.tasks[i].name \in Seq(1..127) /\ Len(d.tasks[i].name) < NameLen
                 /\ HasFields(d.tasks[i].field, TaskFields)
        <3>1. PICK task, name, field : /\ task = d.tasks[i] /\ name = Truncated(s.tasks[i].name)
                                       /\ field = s.tasks[i].field
            OBVIOUS
        <3>2. task = [name |-> name, field |-> field]
            BY <1>8, <3>1 DEF Kept
        <3>3. task.name = name /\ task.field = field
            BY <3>2
        <3>4. s.tasks[i].name \in Seq(1..127) /\ HasFields(field, TaskFields)
            BY <1>4, <3>1 DEF IsSnapshot
        <3>5. name \in Seq(1..127) /\ Len(name) < NameLen
            BY <3>1, <3>4, ShortName
        <3> QED
            BY <3>1, <3>2, <3>3, <3>4, <3>5
    <2>3. d = [tasks |-> d.tasks, memory |-> d.memory]
        BY <1>7, <1>8
    <2>4. d.tasks = [i \in Slots(d) |-> d.tasks[i]]
        BY <1>8, <2>1 DEF Kept
    <2>5. \E n \in 0..MaxTasks : Slots(d) = 0..(n - 1)
        BY <1>4, <2>1 DEF IsSnapshot
    <2>6. HasFields(d.memory, MemoryFields)
        BY <1>4, <1>8 DEF IsSnapshot
    <2>7. IsSnapshot(d)
        BY <2>1, <2>2, <2>3, <2>4, <2>5, <2>6, Zenon DEF IsSnapshot
    <2> QED
        BY <2>1, <2>2, <2>7 DEF Fits
<1>10. Counters'
    BY <1>1, <1>2, Numbers DEF Counters
<1>11. DeviceHolds'
    BY <1>3, <1>4, <1>6, <1>9 DEF DeviceHolds
<1>12. HostHolds' /\ CrashHolds'
    BY <1>1, <1>2 DEF HostHolds, CrashHolds
<1>13. LineHolds' /\ DamageRejected'
    <2>1. PICK F : F = frame' /\ F = FramePacket(Keyframe, seq, t, KeyframePayload(s, seq, u))
        BY <1>3
    <2>2. Whole(F, Len(F)) /\ Accepted(F) /\ Good(Updated(host, F), d, u)
        BY <1>4, <1>5, <1>8, <1>9, <2>1, KeyframeGood
    <2> QED
        BY <1>1, <1>2, <1>3, <1>6, <2>1, <2>2, FrameSent
<1> QED
    BY <1>10, <1>11, <1>12, <1>13 DEF CodecInvariant

LEMMA DamageHolds ==
    ASSUME CodecInvariant, Damage
    PROVE  CodecInvariant'
<1>1. /\ frame # <<>> /\ hit = <<>>
      /\ UNCHANGED <<source, device, sentAt, seq, frames, host, synced, crash, culprit>>
    BY DEF Damage, crashVars
<1>2. PICK i \in DamagedAt(frame), e \in Errors : frame' = Struck(frame, i, e) /\ hit' = <<i, e>>
    BY DEF Damage
<1>3. /\ Counters /\ DeviceHolds /\ HostHolds /\ CrashHolds
      /\ Whole(frame, Len(frame)) /\ Accepted(frame)
    BY <1>1 DEF CodecInvariant, LineHolds
<1>4. PICK n : n = Len(frame) /\ Whole(frame, n)
    BY <1>3
<1>5. /\ Whole(frame', n)
      /\ Accepted(frame') <=> i = n - 2 /\ e = <<{0, 3, 7}, {0, 5, 7}>>
    BY <1>2, <1>3, <1>4, DamageOnce
<1>6. Len(frame') = n /\ frame' # <<>> /\ n \in Nat
    <2>1. Len(frame') = n /\ n >= 14 /\ n \in Nat
        BY <1>5 DEF Whole
    <2> QED
        BY <2>1
<1>7. hit' # <<>>
    BY <1>2
<1>8. DamageRejected'
    <2>1. hit' = <<Len(frame') - 2, <<{0, 3, 7}, {0, 5, 7}>>>>
             <=> i = n - 2 /\ e = <<{0, 3, 7}, {0, 5, 7}>>
        BY <1>2, <1>6
    <2> QED
        BY <1>5, <2>1 DEF DamageRejected
<1>9. LineHolds'
    BY <1>5, <1>6, <1>7 DEF LineHolds
<1>10. Counters' /\ DeviceHolds' /\ HostHolds' /\ CrashHolds'
    BY <1>1, <1>3 DEF Counters, DeviceHolds, HostHolds, CrashHolds
<1> QED
    BY <1>8, <1>9, <1>10 DEF CodecInvariant

LEMMA DeliverHolds ==
    ASSUME CodecInvariant, Deliver
    PROVE  CodecInvariant'
<1>1. /\ frame # <<>> /\ frame' = <<>> /\ hit' = <<>>
      /\ UNCHANGED <<source, device, sentAt, seq, frames, crash, culprit>>
    BY DEF Deliver, crashVars
<1>2. /\ Counters /\ DeviceHolds /\ HostHolds /\ LineHolds /\ CrashHolds
      /\ Whole(frame, Len(frame)) /\ Shaped(host) /\ synced \in BOOLEAN
    BY <1>1 DEF CodecInvariant, LineHolds, HostHolds
<1>3. ASSUME Accepted(frame) PROVE HostHolds' /\ (synced' => Good(host', device', sentAt'))
    <2>1. host' = Updated(host, frame) /\ synced' = (hit = <<>> /\ (synced \/ frame[4] = Keyframe))
        BY <1>3 DEF Deliver
    <2>2. HostHolds'
        <3>1. Shaped(host')
            BY <1>2, <2>1, UpdatedShaped
        <3>2. synced' \in BOOLEAN
            BY <2>1
        <3> QED
            BY <3>1, <3>2 DEF HostHolds
    <2>3. synced' => Good(host', device', sentAt')
        BY <1>1, <1>2, <2>1 DEF LineHolds
    <2> QED
        BY <2>2, <2>3
<1>4. ASSUME ~Accepted(frame) PROVE HostHolds' /\ (synced' => Good(host', device', sentAt'))
    <2>1. host' = host /\ synced' = FALSE
        BY <1>4 DEF Deliver
    <2> QED
        BY <1>2, <2>1 DEF HostHolds
<1>5. HostHolds' /\ (synced' => Good(host', device', sentAt'))
    BY <1>3, <1>4
<1>6. LineHolds' /\ DamageRejected'
    BY <1>1, <1>5 DEF LineHolds, DamageRejected
<1>7. Counters' /\ DeviceHolds' /\ CrashHolds'
    BY <1>1, <1>2 DEF Counters, DeviceHolds, CrashHolds
<1> QED
    BY <1>5, <1>6, <1>7 DEF CodecInvariant

LEMMA OverflowHolds ==
    ASSUME CodecInvariant, StackOverflow
    PROVE  CodecInvariant'
<1>1. /\ culprit = NoCulprit
      /\ UNCHANGED <<source, device, sentAt, seq, frames, frame, hit, host, synced>>
    BY DEF StackOverflow
<1>2. PICK name \in OverflowNames : crash' = CrashReason(name, crash) /\ culprit' = name
    BY DEF StackOverflow
<1>3. CrashHolds'
    <2>1. crash = NoReason
        BY <1>1 DEF CodecInvariant, CrashHolds
    <2>2. culprit' # NoCulprit
        BY <1>2, CodecAssumption
    <2> QED
        BY <1>2, <2>1, <2>2 DEF CrashHolds
<1>4. Counters' /\ DeviceHolds' /\ HostHolds' /\ LineHolds' /\ DamageRejected'
    BY <1>1 DEF CodecInvariant, Counters, DeviceHolds, HostHolds, LineHolds, DamageRejected
<1> QED
    BY <1>3, <1>4 DEF CodecInvariant

LEMMA NextHolds ==
    ASSUME CodecInvariant, [Next]_vars
    PROVE  CodecInvariant'
<1>1. CASE AgentSends
    BY <1>1, AgentHolds
<1>2. CASE MockSends
    BY <1>2, MockHolds
<1>3. CASE Damage
    BY <1>3, DamageHolds
<1>4. CASE Deliver
    BY <1>4, DeliverHolds
<1>5. CASE StackOverflow
    BY <1>5, OverflowHolds
<1>6. CASE UNCHANGED vars
    BY <1>6 DEF vars, crashVars, CodecInvariant, Counters, DeviceHolds, HostHolds, LineHolds,
                DamageRejected, CrashHolds
<1> QED
    BY <1>1, <1>2, <1>3, <1>4, <1>5, <1>6 DEF Next

(* The inductive invariant holds in every state: each of the five actions,  *)
(* which stand for the agent's cycle, the mock device's, the line, the      *)
(* bridge and the overflow hook, keeps it.                                  *)
THEOREM CodecIsSound == Spec => []CodecInvariant
<1>1. Init => CodecInvariant
    BY InitHolds
<1>2. CodecInvariant /\ [Next]_vars => CodecInvariant'
    BY NextHolds
<1> QED
    BY <1>1, <1>2, PTL DEF Spec

LEMMA InSeq ==
    ASSUME NEW S, NEW F \in Seq(S)
    PROVE  \A i \in DOMAIN F : F[i] \in S
<1>1. DOMAIN F = 1..Len(F)
    OBVIOUS
<1> QED
    BY <1>1, ElementOfSeq

(* Type correctness: every byte the encoder and the framer put on the line  *)
(* is one, damaged or not, the sequence number stays within its width, and  *)
(* only a frame on the line is damaged.                                     *)
THEOREM TypeCorrect == Spec => []TypeOK
<1>1. ASSUME CodecInvariant PROVE TypeOK
    <2>1. /\ source \in {"agent", "mock"} /\ seq \in 0..(SeqMod - 1) /\ frames \in 0..MaxFrames
        BY <1>1 DEF CodecInvariant, Counters
    <2>2. \A i \in DOMAIN frame : frame[i] \in 0..255
        <3>1. CASE frame = <<>>
            BY <3>1
        <3>2. CASE frame # <<>>
            <4>1. frame \in Seq(0..255)
                BY <1>1, <3>2 DEF CodecInvariant, LineHolds, Whole
            <4>2. PICK F : F = frame /\ F \in Seq(0..255)
                BY <4>1
            <4>3. \A i \in DOMAIN F : F[i] \in 0..255
                BY <4>2, InSeq
            <4> QED
                BY <4>2, <4>3
        <3> QED
            BY <3>1, <3>2
    <2>3. hit # <<>> => frame # <<>>
        BY <1>1 DEF CodecInvariant, LineHolds
    <2>4. synced \in BOOLEAN /\ host.hasKeyframe \in BOOLEAN
        BY <1>1 DEF CodecInvariant, HostHolds, Shaped
    <2> QED
        BY <2>1, <2>2, <2>3, <2>4, Zenon DEF TypeOK
<1> QED
    BY <1>1, CodecIsSound, PTL

(* Damage: the framer and decoder.py reject every frame with an error       *)
(* within two neighbouring bytes, neither of them of the length field,      *)
(* whatever the frame and the error, but for one error over the boundary of *)
(* payload and CRC, which they accept in every frame.                       *)
THEOREM DamageIsRejected == Spec => []DamageRejected
<1>1. CodecInvariant => DamageRejected
    BY DEF CodecInvariant
<1> QED
    BY <1>1, CodecIsSound, PTL

(* Round trip: when every frame since a keyframe came through undamaged,    *)
(* StateManager has what the device last sent: the time, the memory, the    *)
(* names and, for the tasks a delta has a tag for, the fields.              *)
THEOREM RoundTrips == Spec => []RoundTrip
<1>1. ASSUME CodecInvariant PROVE RoundTrip
    <2>1. ASSUME synced, frame = <<>>
          PROVE  /\ host.timestamp = sentAt /\ host.memory = device.memory
                 /\ SameTopology(host, device)
                 /\ \A i \in Slots(device) : i < DeltaTasks =>
                       host.tasks[i].field = device.tasks[i].field
        <3>1. Good(host, device, sentAt)
            BY <1>1, <2>1 DEF CodecInvariant, LineHolds
        <3>2. SameTopology(host, device)
            <4>1. host.tasks = [i \in Slots(device) |->
                                   [name |-> device.tasks[i].name, field |-> host.tasks[i].field]]
                BY <3>1 DEF Good, Knows
            <4>2. Slots(host) = Slots(device)
                BY <4>1 DEF Slots
            <4>3. ASSUME NEW i \in Slots(device) PROVE host.tasks[i].name = device.tasks[i].name
                <5>1. host.tasks[i] = [name |-> device.tasks[i].name, field |-> host.tasks[i].field]
                    BY <4>1
                <5>2. PICK a, b : a = device.tasks[i].name /\ b = host.tasks[i].field
                    OBVIOUS
                <5>3. host.tasks[i] = [name |-> a, field |-> b]
                    BY <5>1, <5>2
                <5> QED
                    BY <5>2, <5>3
            <4> QED
                BY <4>2, <4>3 DEF SameTopology
        <3> QED
            BY <3>1, <3>2 DEF Good
    <2> QED
        BY <2>1 DEF RoundTrip
<1> QED
    BY <1>1, CodecIsSound, PTL

(* The crash text: whatever bytes the overflow hook finds at the name, a    *)
(* reader of s_crash_reason gets the prefix and as much of the name as      *)
(* fits.                                                                    *)
THEOREM CrashIsRead == Spec => []CrashReadable
<1>1. CodecInvariant => CrashReadable
    BY CrashIsReadable DEF CodecInvariant
<1> QED
    BY <1>1, CodecIsSound, PTL
-----------------------------------------------------------------------------
(* The sizes of the payloads. *)

LEMMA PlaceOnce ==
    ASSUME NEW m \in 0..15, NEW q, q = 3 + 4 * m, NEW k \in 1..q, NEW l \in 1..q,
           PlaceOf(k) = PlaceOf(l)
    PROVE  k = l
<1>1. PICK slot, id : /\ IsPlace(slot, id, m) /\ PlaceOf(k) = <<slot, FieldOrder[id]>>
                      /\ k = NumberOf(slot, id)
    <2>1. PICK slot, id : PlaceAs(k, slot, id, m)
        BY ONLY m \in 0..15, q = 3 + 4 * m, k \in 1..q, PlaceIs
    <2> QED
        BY <2>1, Zenon DEF PlaceAs
<1>2. PICK slot2, id2 : /\ IsPlace(slot2, id2, m) /\ PlaceOf(l) = <<slot2, FieldOrder[id2]>>
                        /\ l = NumberOf(slot2, id2)
    <2>1. PICK slot2, id2 : PlaceAs(l, slot2, id2, m)
        BY ONLY m \in 0..15, q = 3 + 4 * m, l \in 1..q, PlaceIs
    <2> QED
        BY <2>1, Zenon DEF PlaceAs
<1>3. slot = slot2 /\ FieldOrder[id] = FieldOrder[id2]
    <2>1. <<slot, FieldOrder[id]>> = <<slot2, FieldOrder[id2]>>
        BY <1>1, <1>2, Zenon
    <2> QED
        BY ONLY <2>1
<1>4. id \in {1, 2, 3, 4, 5, 6, 7} /\ id2 \in {1, 2, 3, 4, 5, 6, 7}
    BY <1>1, <1>2 DEF IsPlace
<1>5. id = id2
    BY ONLY <1>3, <1>4, FieldIds
<1> QED
    BY ONLY <1>1, <1>2, <1>3, <1>5

(* The first k places whose values are not as they were and take w bytes *)
IsChanged(new, old, k, w) == Val(new, k) # Val(old, k) /\ Width(PlaceOf(k)[2]) = w

Changed(new, old, k, w) == {PlaceOf(l) : l \in {j \in 1..k : IsChanged(new, old, j, w)}}

(* There are a of them. *)
AreChanged(new, old, k, w, a) ==
    a \in Nat /\ IsFiniteSet(Changed(new, old, k, w)) /\ Cardinality(Changed(new, old, k, w)) = a

LEMMA ChangedNone ==
    ASSUME NEW new, NEW old, NEW w
    PROVE  AreChanged(new, old, 0, w, 0)
<1>1. Changed(new, old, 0, w) = {}
    BY DEF Changed
<1> QED
    BY <1>1, FS_EmptySet DEF AreChanged

LEMMA ChangedOne ==
    ASSUME NEW m \in 0..15, NEW q, q = 3 + 4 * m, NEW k \in 0..(q - 1),
           NEW new, NEW old, NEW w, NEW a, AreChanged(new, old, k, w, a)
    PROVE  /\ IsChanged(new, old, k + 1, w) => AreChanged(new, old, k + 1, w, a + 1)
           /\ ~IsChanged(new, old, k + 1, w) => AreChanged(new, old, k + 1, w, a)
<1> DEFINE S == Changed(new, old, k, w)
           T == Changed(new, old, k + 1, w)
<1>1. k + 1 \in 1..q /\ \A j : j \in 1..(k + 1) <=> j \in 1..k \/ j = k + 1
    OBVIOUS
<1>2. ASSUME IsChanged(new, old, k + 1, w) PROVE AreChanged(new, old, k + 1, w, a + 1)
    <2>1. T = S \cup {PlaceOf(k + 1)}
        BY <1>1, <1>2, Zenon DEF Changed
    <2>2. PlaceOf(k + 1) \notin S
        <3>1. ASSUME NEW l \in 1..k, PlaceOf(l) = PlaceOf(k + 1) PROVE FALSE
            <4>1. l \in 1..q /\ l # k + 1
                BY <1>1
            <4> QED
                BY <1>1, <3>1, <4>1, PlaceOnce
        <3> QED
            BY <3>1, Zenon DEF Changed
    <2> HIDE DEF S, T
    <2>3. a \in Nat /\ IsFiniteSet(S) /\ Cardinality(S) = a
        BY DEF S, AreChanged
    <2>4. IsFiniteSet(T) /\ Cardinality(T) = a + 1
        BY <2>1, <2>2, <2>3, FS_AddElement
    <2> QED
        BY <2>3, <2>4 DEF T, AreChanged
<1>3. ASSUME ~IsChanged(new, old, k + 1, w) PROVE AreChanged(new, old, k + 1, w, a)
    <2>1. T = S
        BY <1>1, <1>3, Zenon DEF Changed
    <2> QED
        BY <2>1 DEF AreChanged
<1> QED
    BY <1>2, <1>3

(* The bytes of the entries of the first k places *)
Measured(new, old, k, len) ==
    \E a \in Nat, b \in Nat, c \in Nat :
        /\ AreChanged(new, old, k, 1, a) /\ AreChanged(new, old, k, 2, b) /\ AreChanged(new, old, k, 4, c)
        /\ len = 2 * a + 3 * b + 5 * c

LEMMA MeasuredOne ==
    ASSUME NEW new, NEW n, Holding(new, n), NEW old, NEW m \in 0..15, m <= n,
           NEW q, q = 3 + 4 * m, NEW k \in 0..(q - 1), NEW len, Measured(new, old, k, len)
    PROVE  Measured(new, old, k + 1, len + Len(EntryOf(PlaceOf(k + 1), new, old)))
<1>1. PICK a \in Nat, b \in Nat, c \in Nat :
        /\ AreChanged(new, old, k, 1, a) /\ AreChanged(new, old, k, 2, b) /\ AreChanged(new, old, k, 4, c)
        /\ len = 2 * a + 3 * b + 5 * c
    BY DEF Measured
<1>2. PICK l \in 1..q : l = k + 1
    OBVIOUS
<1>3. PICK e : e = EntryOf(PlaceOf(l), new, old)
    OBVIOUS
<1>4. ASSUME NEW w, NEW x, AreChanged(new, old, k, w, x)
      PROVE  /\ IsChanged(new, old, l, w) => AreChanged(new, old, l, w, x + 1)
             /\ ~IsChanged(new, old, l, w) => AreChanged(new, old, l, w, x)
    BY <1>2, <1>4, ChangedOne
<1>5. CASE Val(new, l) = Val(old, l)
    <2>1. e = <<>>
        BY <1>3, <1>5, EntryOfPlace
    <2>2. Len(e) = 0
        BY <2>1
    <2>3. AreChanged(new, old, l, 1, a) /\ AreChanged(new, old, l, 2, b) /\ AreChanged(new, old, l, 4, c)
        BY <1>1, <1>4, <1>5, Zenon DEF IsChanged
    <2>4. len + Len(e) = 2 * a + 3 * b + 5 * c
        BY <1>1, <2>2
    <2>5. Measured(new, old, l, len + Len(e))
        BY <2>3, <2>4, Zenon DEF Measured
    <2> QED
        BY <1>2, <1>3, <2>5
<1>6. CASE Val(new, l) # Val(old, l)
    <2>1. PICK slot, id, tag : EntryFor(new, old, m, l, slot, id, tag)
        BY <1>6, EntryOfPlace
    <2>2. PICK w, v : w = Width(FieldOrder[id]) /\ v = Val(new, l) /\ IsEntry(e, w, tag, v)
        BY <1>3, <2>1 DEF EntryFor
    <2>3. Len(e) = 1 + w /\ w \in {1, 2, 4}
        <3>1. Bytes(e, 1 + w) /\ w \in {1, 2, 4}
            BY <2>2, EntryBytes DEF IsEntry
        <3> QED
            BY <3>1 DEF Bytes
    <2>4. Width(PlaceOf(l)[2]) = w
        BY <2>1, <2>2 DEF EntryFor
    <2>5. \A x : IsChanged(new, old, l, x) <=> x = w
        BY <1>6, <2>4, Zenon DEF IsChanged
    <2>6. PICK a2, b2, c2 : /\ a2 = IF w = 1 THEN a + 1 ELSE a
                            /\ b2 = IF w = 2 THEN b + 1 ELSE b
                            /\ c2 = IF w = 4 THEN c + 1 ELSE c
        OBVIOUS
    <2>7. /\ a2 \in Nat /\ b2 \in Nat /\ c2 \in Nat
          /\ len + Len(e) = 2 * a2 + 3 * b2 + 5 * c2
        BY <1>1, <2>3, <2>6
    <2>8. AreChanged(new, old, l, 1, a2)
        BY <1>1, <1>4, <2>5, <2>6, Zenon
    <2>9. AreChanged(new, old, l, 2, b2)
        BY <1>1, <1>4, <2>5, <2>6, Zenon
    <2>10. AreChanged(new, old, l, 4, c2)
        BY <1>1, <1>4, <2>5, <2>6, Zenon
    <2>11. Measured(new, old, l, len + Len(e))
        BY <2>7, <2>8, <2>9, <2>10, Zenon DEF Measured
    <2> QED
        BY <1>2, <1>3, <2>11
<1> QED
    BY <1>5, <1>6

LEMMA MeasuredAll ==
    ASSUME NEW new, NEW n, Holding(new, n), NEW old, NEW m \in 0..15, m <= n,
           NEW q, q = 3 + 4 * m, NEW parts, parts = Entries(new, old, q),
           NEW g, IsLaid(parts, q, g)
    PROVE  Measured(new, old, q, Len(g[q]))
<1> DEFINE T == {k \in Nat : k <= q => Measured(new, old, k, Len(g[k]))}
<1>0. q \in Nat /\ parts \in [1..q -> Seq(0..255)]
    <2>1. Entries(new, old, q) \in [1..q -> Seq(0..255)]
        <3>1. AreParts(Entries(new, old, q), q)
            BY EntriesAre
        <3> QED
            BY <3>1, Zenon DEF AreParts
    <2>2. q \in Nat
        OBVIOUS
    <2> QED
        BY <2>1, <2>2
<1>1. 0 \in T
    <2>1. g[0] = <<>>
        BY DEF IsLaid
    <2>2. Len(g[0]) = 2 * 0 + 3 * 0 + 5 * 0
        BY <2>1
    <2>3. 0 \in Nat
        OBVIOUS
    <2>4. Measured(new, old, 0, Len(g[0]))
        BY <2>2, <2>3, ChangedNone, Zenon DEF Measured
    <2> QED
        BY <2>4
<1>2. ASSUME NEW k \in Nat, k \in T PROVE k + 1 \in T
    <2> SUFFICES ASSUME k + 1 <= q PROVE Measured(new, old, k + 1, Len(g[k + 1]))
        OBVIOUS
    <2>1. k \in 0..(q - 1) /\ k \in 0..q /\ k + 1 \in 1..q
        BY <1>0
    <2>2. g[k] \in Seq(0..255) /\ parts[k + 1] \in Seq(0..255) /\ g[k + 1] = g[k] \o parts[k + 1]
        BY <1>0, <2>1 DEF IsLaid
    <2>3. Len(g[k + 1]) = Len(g[k]) + Len(parts[k + 1])
        BY <2>2
    <2>4. parts[k + 1] = EntryOf(PlaceOf(k + 1), new, old)
        BY <2>1 DEF Entries
    <2>5. Measured(new, old, k, Len(g[k]))
        BY <1>2, <2>1
    <2>6. Measured(new, old, k + 1, Len(g[k]) + Len(EntryOf(PlaceOf(k + 1), new, old)))
        BY <2>1, <2>5, MeasuredOne
    <2> QED
        BY <2>3, <2>4, <2>6
<1> HIDE DEF T
<1>3. q \in T
    BY <1>0, <1>1, <1>2, InductionOnSet
<1> QED
    BY <1>0, <1>3 DEF T

(* What the abstract delta between two snapshots holds of width w *)
PairsOf(new, old, w) ==
    {x \in Abstract!DeltaPairs(new) :
        /\ new.tasks[x[1]].field[x[2]] # old.tasks[x[1]].field[x[2]]
        /\ Width(x[2]) = w}

FieldsOf(new, old, w) ==
    {f \in MemoryFields : new.memory[f] # old.memory[f] /\ Width(f) = w}

LEMMA FieldsHaveIds ==
    /\ \A f \in TaskFields : \E id \in {1, 2, 3, 4} : f = FieldOrder[id]
    /\ \A f \in MemoryFields : \E id \in {5, 6, 7} : f = FieldOrder[id]
BY FieldOrders DEF TaskFields, MemoryFields

LEMMA PairsAre ==
    ASSUME NEW s, NEW slot, NEW f
    PROVE  <<slot, f>> \in Abstract!DeltaPairs(s) <=>
               slot \in Slots(s) /\ slot < DeltaTasks /\ f \in TaskFields
<1> DEFINE I == {j \in Slots(s) : j < DeltaTasks}
<1>1. Abstract!DeltaPairs(s) = {<<i, g>> : i \in I, g \in TaskFields}
    BY DEF Abstract!DeltaPairs, Abstract!Slots, Abstract!TaskFields, Slots, TaskFields
<1>2. slot \in I <=> slot \in Slots(s) /\ slot < DeltaTasks
    OBVIOUS
<1> HIDE DEF I
<1> QED
    BY <1>1, <1>2

(* The places that are not as they were, by their width: pairs and fields *)
LEMMA ChangedIs ==
    ASSUME NEW new, NEW n, Holding(new, n), NEW old, NEW m \in 0..15, m <= n,
           m <= DeltaTasks, \A i \in Nat : i < n /\ i < DeltaTasks => i < m,
           DeltaTasks <= 15, NEW q, q = 3 + 4 * m, NEW w
    PROVE  Changed(new, old, q, w) =
               PairsOf(new, old, w) \cup {<<15, f>> : f \in FieldsOf(new, old, w)}
<1> DEFINE U == PairsOf(new, old, w) \cup {<<15, f>> : f \in FieldsOf(new, old, w)}
<1>0. Slots(new) = 0..(n - 1) /\ n \in Nat /\ DeltaTasks \in Nat
    BY WireAssumption DEF Holding
<1>1. ASSUME NEW l \in 1..q, IsChanged(new, old, l, w) PROVE PlaceOf(l) \in U
    <2>1. PICK slot, id : IsPlace(slot, id, m) /\ PlaceOf(l) = <<slot, FieldOrder[id]>>
        <3>1. PICK slot, id : PlaceAs(l, slot, id, m)
            BY PlaceIs
        <3> QED
            BY <3>1, Zenon DEF PlaceAs
    <2>2. PICK f : f = FieldOrder[id] /\ PlaceOf(l) = <<slot, f>>
        BY <2>1
    <2>3. ValueAt(new, slot, f) # ValueAt(old, slot, f) /\ Width(f) = w
        <3>1. PlaceOf(l)[1] = slot /\ PlaceOf(l)[2] = f
            BY <2>2
        <3> QED
            BY <1>1, <3>1, Zenon DEF IsChanged, Val
    <2>4. CASE slot = 15
        <3>1. f \in MemoryFields
            BY <2>1, <2>2, <2>4, PlaceWidths
        <3>2. new.memory[f] # old.memory[f]
            BY <2>3, <2>4 DEF ValueAt, SystemSlot
        <3>3. f \in FieldsOf(new, old, w)
            BY <2>3, <3>1, <3>2, Zenon DEF FieldsOf
        <3> QED
            BY <2>2, <2>4, <3>3
    <2>5. CASE slot # 15
        <3>1. f \in TaskFields
            BY <2>1, <2>2, <2>5, PlaceWidths
        <3>2. new.tasks[slot].field[f] # old.tasks[slot].field[f]
            BY <2>3, <2>5 DEF ValueAt, SystemSlot
        <3>3. slot \in 0..(m - 1)
            BY <2>1, <2>5 DEF IsPlace
        <3>4. slot \in Slots(new) /\ slot < DeltaTasks
            BY <1>0, <3>3
        <3>5. <<slot, f>> \in Abstract!DeltaPairs(new)
            BY <3>1, <3>4, PairsAre
        <3>6. <<slot, f>> \in PairsOf(new, old, w)
            <4>1. \A x : x = <<slot, f>> => x[1] = slot /\ x[2] = f
                OBVIOUS
            <4> QED
                BY <2>3, <3>2, <3>5, <4>1, Zenon DEF PairsOf
        <3> QED
            BY <2>2, <3>6
    <2> QED
        BY <2>4, <2>5
<1>2. ASSUME NEW slot, NEW id, NEW f, IsPlace(slot, id, m), f = FieldOrder[id], Width(f) = w,
             ValueAt(new, slot, f) # ValueAt(old, slot, f)
      PROVE  <<slot, f>> \in Changed(new, old, q, w)
    <2>1. PICK l \in 1..q : PlaceOf(l) = <<slot, f>>
        BY <1>2, PlaceHas
    <2>2. PlaceOf(l)[1] = slot /\ PlaceOf(l)[2] = f
        BY <2>1
    <2>3. IsChanged(new, old, l, w)
        BY <1>2, <2>2, Zenon DEF IsChanged, Val
    <2> QED
        BY <2>1, <2>3, Zenon DEF Changed
<1>3. ASSUME NEW x \in PairsOf(new, old, w) PROVE x \in Changed(new, old, q, w)
    <2>1. /\ x \in Abstract!DeltaPairs(new) /\ Width(x[2]) = w
          /\ new.tasks[x[1]].field[x[2]] # old.tasks[x[1]].field[x[2]]
        BY <1>3, Zenon DEF PairsOf
    <2>2. PICK slot, f : x = <<slot, f>>
        BY <2>1 DEF Abstract!DeltaPairs
    <2>3. x[1] = slot /\ x[2] = f
        BY <2>2
    <2>4. slot \in Slots(new) /\ slot < DeltaTasks /\ f \in TaskFields
        BY <2>1, <2>2, PairsAre
    <2>5. slot \in 0..(m - 1) /\ slot # 15
        BY <1>0, <2>4
    <2>6. PICK id \in {1, 2, 3, 4} : f = FieldOrder[id]
        BY <2>4, FieldsHaveIds
    <2>7. IsPlace(slot, id, m)
        BY <2>5, <2>6 DEF IsPlace
    <2>8. ValueAt(new, slot, f) # ValueAt(old, slot, f)
        BY <2>1, <2>3, <2>5 DEF ValueAt, SystemSlot
    <2> QED
        BY <1>2, <2>1, <2>2, <2>3, <2>6, <2>7, <2>8
<1>4. ASSUME NEW f \in FieldsOf(new, old, w) PROVE <<15, f>> \in Changed(new, old, q, w)
    <2>1. f \in MemoryFields /\ new.memory[f] # old.memory[f] /\ Width(f) = w
        BY <1>4, Zenon DEF FieldsOf
    <2>2. PICK id \in {5, 6, 7} : f = FieldOrder[id]
        BY <2>1, FieldsHaveIds
    <2>3. IsPlace(15, id, m)
        BY <2>2 DEF IsPlace
    <2>4. ValueAt(new, 15, f) # ValueAt(old, 15, f)
        BY <2>1 DEF ValueAt, SystemSlot
    <2> QED
        BY <1>2, <2>1, <2>2, <2>3, <2>4
<1>5. Changed(new, old, q, w) \subseteq U
    <2> HIDE DEF U
    <2> QED
        BY <1>1, Zenon DEF Changed
<1>6. U \subseteq Changed(new, old, q, w)
    BY <1>3, <1>4, Zenon
<1> QED
    BY <1>5, <1>6, Zenon

(* An abstract delta has as many values of each width as there are such     *)
(* places.                                                                  *)
LEMMA ChangedCount ==
    ASSUME NEW P, NEW M, NEW C, C = P \cup {<<15, f>> : f \in M}, IsFiniteSet(C),
           \A x \in P : x[1] # 15
    PROVE  /\ Cardinality(P) + Cardinality(M) = Cardinality(C)
           /\ Cardinality(P) \in Nat /\ Cardinality(M) \in Nat
<1> DEFINE T == {<<15, f>> : f \in M}
<1>1. IsFiniteSet(P) /\ IsFiniteSet(T)
    BY FS_Subset
<1>2. P \cap T = {}
    OBVIOUS
<1>3. Cardinality(C) = Cardinality(P) + Cardinality(T)
    <2> HIDE DEF T
    <2>1. C = P \cup T
        BY DEF T
    <2>2. Cardinality(P \cap T) = 0
        BY <1>2, FS_EmptySet
    <2>3. Cardinality(P) \in Nat /\ Cardinality(T) \in Nat
        BY <1>1, FS_CardinalityType
    <2>4. Cardinality(P \cup T) = Cardinality(P) + Cardinality(T) - Cardinality(P \cap T)
        BY <1>1, FS_Union
    <2>5. Cardinality(C) = Cardinality(P) + Cardinality(T) - 0
        BY <2>1, <2>2, <2>4, Zenon
    <2> QED
        BY ONLY <2>3, <2>5
<1>4. Cardinality(M) = Cardinality(T)
    <2> DEFINE h == [x \in T |-> x[2]]
    <2>1. h \in [T -> M]
        OBVIOUS
    <2>2. \A x, y \in T : h[x] = h[y] => x = y
        OBVIOUS
    <2>3. \A f \in M : \E x \in T : h[x] = f
        <3>1. ASSUME NEW f \in M PROVE <<15, f>> \in T /\ h[<<15, f>>] = f
            OBVIOUS
        <3> QED
            BY <3>1
    <2> HIDE DEF h
    <2>4. h \in Injection(T, M)
        BY <2>1, <2>2 DEF Injection, IsInjective
    <2>5. h \in Surjection(T, M)
        BY <2>1, <2>3 DEF Surjection
    <2>6. ExistsBijection(T, M)
        BY <2>4, <2>5 DEF ExistsBijection, Bijection
    <2> QED
        BY <1>1, <2>6, FS_Bijection
<1>5. Cardinality(P) \in Nat /\ Cardinality(T) \in Nat
    BY <1>1, FS_CardinalityType
<1> QED
    BY <1>3, <1>4, <1>5

LEMMA KeyframeSize ==
    ASSUME NEW s, IsSnapshot(s), NEW number \in Shorts, NEW time \in Shorts \X Shorts
    PROVE  Len(KeyframePayload(s, number, time)) = PayloadSize(Abstract!KeyframeOf(s))
<1>1. PICK n : Holding(s, n)
    BY HoldsSome
<1>2. n \in Nat /\ Slots(s) = 0..(n - 1) /\ Cardinality(Slots(s)) = n
    BY <1>1 DEF Holding
<1>3. PICK p : p = KeyframePayload(s, number, time)
    OBVIOUS
<1>4. p \in Seq(0..255) /\ ParsesAsKeyframe(p) /\ ParsedKeyframe(p) = Read(s, time)
    BY <1>3, KeyframeBack DEF KeyframeRead
<1>5. PICK count \in Nat : count = p[7]
    <2>1. 7 \in 1..Len(p)
        BY <1>4 DEF ParsesAsKeyframe
    <2>2. p[7] \in 0..255
        BY <1>4, <2>1, ElementOfSeq
    <2> QED
        BY <2>2
<1>6. Len(p) = 7 + 24 * count + 9
    BY <1>4, <1>5 DEF ParsesAsKeyframe
<1>7. 0..(count - 1) = 0..(n - 1)
    <2>1. DOMAIN ParsedKeyframe(p).tasks = 0..(count - 1)
        BY <1>5 DEF ParsedKeyframe
    <2>2. DOMAIN Read(s, time).tasks = 0..(n - 1)
        BY <1>2 DEF Read, Kept
    <2> QED
        BY <1>4, <2>1, <2>2, Zenon
<1>8. count = n
    <2>1. \A k \in Nat : Cardinality(0..(k - 1)) = k
        <3>1. ASSUME NEW k \in Nat PROVE Cardinality(0..(k - 1)) = k
            <4>1. Cardinality(0..(k - 1)) = IF 0 > k - 1 THEN 0 ELSE (k - 1) - 0 + 1
                BY FS_Interval
            <4> QED
                BY <4>1
        <3> QED
            BY <3>1
    <2> QED
        BY <1>2, <1>5, <1>7, <2>1, Zenon
<1>9. PICK k : k = Abstract!KeyframeOf(s)
    OBVIOUS
<1>10. k = [type |-> "keyframe", tasks |-> s.tasks, memory |-> s.memory]
    BY <1>9 DEF Abstract!KeyframeOf
<1>11. k.type = "keyframe" /\ Slots(k) = Slots(s)
    BY <1>10 DEF Slots
<1>12. PayloadSize(k) = 7 + 24 * n + 9
    BY <1>2, <1>11, Zenon DEF PayloadSize, KeyframeBytes
<1> QED
    BY <1>3, <1>6, <1>8, <1>9, <1>12

LEMMA DeltaSize ==
    ASSUME NEW new, IsSnapshot(new), NEW old, Slots(old) = Slots(new)
    PROVE  Len(DeltaPayload(new, old)) = PayloadSize(Abstract!DeltaOf(new, old))
<1>1. PICK n : Holding(new, n)
    BY HoldsSome
<1>2. n \in Nat /\ Cardinality(Slots(new)) = n /\ Slots(new) = 0..(n - 1)
    BY <1>1 DEF Holding
<1>3. DeltaTasks \in Nat /\ DeltaTasks <= 15
    BY CodecAssumption, WireAssumption DEF SystemSlot
<1>4. PICK m : m = Min({n, DeltaTasks})
    OBVIOUS
<1>5. /\ m \in 0..15 /\ m <= n /\ m <= DeltaTasks
      /\ \A i \in Nat : i < n /\ i < DeltaTasks => i < m
    <2>1. /\ m \in Nat /\ m <= n /\ m <= DeltaTasks
          /\ \A i \in Nat : i < n /\ i < DeltaTasks => i < m
        BY ONLY <1>2, <1>3, <1>4, LeastOfTwo
    <2>2. m \in 0..15
        BY <1>3, <2>1
    <2> QED
        BY <2>1, <2>2
<1>6. PICK q : q = 3 + 4 * m
    OBVIOUS
<1>7. PICK parts : parts = Entries(new, old, q)
    OBVIOUS
<1>8. q \in Nat /\ parts \in [1..q -> Seq(0..255)]
    <2>1. Entries(new, old, q) \in [1..q -> Seq(0..255)]
        <3>1. AreParts(Entries(new, old, q), q)
            BY ONLY <1>1, <1>5, <1>6, EntriesAre
        <3> QED
            BY <3>1, Zenon DEF AreParts
    <2>2. q \in Nat
        BY <1>5, <1>6
    <2> QED
        BY <1>7, <2>1, <2>2
<1>9. PICK g : IsLaid(parts, q, g) /\ Seqs!FlattenSeq(parts) = g[q]
    BY <1>8, Flatten
<1>10. DeltaPayload(new, old) = g[q]
    BY <1>2, <1>4, <1>6, <1>7, <1>9, Zenon DEF DeltaPayload, Entries
<1>11. Measured(new, old, q, Len(g[q]))
    BY <1>1, <1>5, <1>6, <1>7, <1>9, MeasuredAll
<1>12. PICK a \in Nat, b \in Nat, c \in Nat :
           /\ AreChanged(new, old, q, 1, a) /\ AreChanged(new, old, q, 2, b)
           /\ AreChanged(new, old, q, 4, c)
           /\ Len(g[q]) = 2 * a + 3 * b + 5 * c
    BY <1>11 DEF Measured
<1>13. ASSUME NEW w, NEW x, AreChanged(new, old, q, w, x)
       PROVE  Cardinality(PairsOf(new, old, w)) + Cardinality(FieldsOf(new, old, w)) = x
    <2> DEFINE P == PairsOf(new, old, w)
               M == FieldsOf(new, old, w)
               C == Changed(new, old, q, w)
    <2>1. C = P \cup {<<15, f>> : f \in M}
        <3>1. m \in 0..15 /\ m <= n /\ m <= DeltaTasks /\ DeltaTasks <= 15 /\ q = 3 + 4 * m
            BY <1>3, <1>5, <1>6
        <3>2. \A i \in Nat : i < n /\ i < DeltaTasks => i < m
            BY <1>5
        <3> HIDE DEF P, M, C
        <3>3. Changed(new, old, q, w) = PairsOf(new, old, w) \cup {<<15, f>> : f \in FieldsOf(new, old, w)}
            BY ONLY <1>1, <3>1, <3>2, ChangedIs
        <3> QED
            BY <3>3 DEF P, M, C
    <2>2. IsFiniteSet(C) /\ Cardinality(C) = x
        BY <1>13 DEF AreChanged
    <2>3. \A y \in P : y[1] # 15
        <3>1. ASSUME NEW y \in P, y[1] = 15 PROVE FALSE
            <4>1. y \in Abstract!DeltaPairs(new)
                BY Zenon DEF PairsOf
            <4>2. PICK slot, f : y = <<slot, f>>
                BY <4>1 DEF Abstract!DeltaPairs
            <4>3. slot < DeltaTasks /\ slot = 15
                BY <3>1, <4>1, <4>2, PairsAre
            <4> QED
                BY <1>3, <4>3
        <3> QED
            BY <3>1
    <2> HIDE DEF P, M, C
    <2>4. Cardinality(P) + Cardinality(M) = Cardinality(C)
        BY <2>1, <2>2, <2>3, ChangedCount
    <2> QED
        BY <2>2, <2>4 DEF P, M
<1>14. PICK d : d = Abstract!DeltaOf(new, old)
    OBVIOUS
<1>15. PICK pairs, fields :
           /\ pairs = {x \in Abstract!DeltaPairs(new) :
                          new.tasks[x[1]].field[x[2]] # old.tasks[x[1]].field[x[2]]}
           /\ fields = {f \in MemoryFields : new.memory[f] # old.memory[f]}
    OBVIOUS
<1>16. d = [type |-> "delta", changes |-> [x \in pairs |-> new.tasks[x[1]].field[x[2]]],
            memory |-> [f \in fields |-> new.memory[f]]]
    BY <1>14, <1>15, Zenon DEF Abstract!DeltaOf, Abstract!DeltaWith, Abstract!MemoryFields, MemoryFields
<1>17. d.type = "delta" /\ DOMAIN d.changes = pairs /\ DOMAIN d.memory = fields
    BY <1>16
<1>18. ASSUME NEW w
       PROVE  /\ {x \in DOMAIN d.changes : Width(x[2]) = w} = PairsOf(new, old, w)
              /\ {f \in DOMAIN d.memory : Width(f) = w} = FieldsOf(new, old, w)
    BY <1>15, <1>17, Zenon DEF PairsOf, FieldsOf
<1>19. PICK of1, of2, of4 :
           /\ of1 = Cardinality(PairsOf(new, old, 1)) + Cardinality(FieldsOf(new, old, 1))
           /\ of2 = Cardinality(PairsOf(new, old, 2)) + Cardinality(FieldsOf(new, old, 2))
           /\ of4 = Cardinality(PairsOf(new, old, 4)) + Cardinality(FieldsOf(new, old, 4))
    OBVIOUS
<1>20. of1 = a /\ of2 = b /\ of4 = c
    BY <1>12, <1>13, <1>19, Zenon
<1>21. PayloadSize(d) = DeltaBytes(d)
    BY <1>17 DEF PayloadSize
<1>22. DeltaBytes(d) = 2 * of1 + 3 * of2 + 5 * of4
    BY <1>18, <1>19, Zenon DEF DeltaBytes
<1> QED
    BY <1>10, <1>12, <1>14, <1>20, <1>21, <1>22

(* Sizes: the buffers of transport and framer are measured by the abstract  *)
(* payloads; the frame that encoder_encode and frame_packet make of any two *)
(* snapshots has that many bytes.                                           *)
THEOREM SizesAreRight == Spec => SizesAgree
<1> DEFINE Size == FrameSize(IF frame'[4] = Keyframe THEN Abstract!KeyframeOf(device')
                             ELSE Abstract!DeltaOf(device', device))
<1>1. ASSUME CodecInvariant, AgentSends, frame' # <<>>
      PROVE  Len(frame') = Size
    <2>1. PICK s \in Snapshots, force \in BOOLEAN, t \in Timestamps :
              LET keyframe == force \/ frames = 0 \/ ~SameTopology(s, device)
                  payload == IF keyframe THEN KeyframePayload(s, seq, t) ELSE DeltaPayload(s, device)
              IN  /\ device' = s
                  /\ IF payload = <<>> THEN UNCHANGED <<frame, sentAt>>
                     ELSE /\ frame' = FramePacket(IF keyframe THEN Keyframe ELSE Delta,
                                                  seq, t, payload)
                          /\ sentAt' = t
        BY <1>1 DEF AgentSends
    <2> DEFINE keyframe == force \/ frames = 0 \/ ~SameTopology(s, device)
               payload == IF keyframe THEN KeyframePayload(s, seq, t) ELSE DeltaPayload(s, device)
               type == IF keyframe THEN Keyframe ELSE Delta
    <2>2. frame = <<>>
        BY <1>1 DEF AgentSends
    <2>3. device' = s /\ frame' = FramePacket(type, seq, t, payload)
        BY <1>1, <2>1, <2>2
    <2>4. /\ IsSnapshot(s) /\ Fits(device) /\ t \in Shorts \X Shorts /\ seq \in Shorts
          /\ IsSnapshot(device)
        BY <1>1, CodecAssumption, Numbers DEF CodecInvariant, DeviceHolds, Fits
    <2>5. PICK F : F = frame'
        OBVIOUS
    <2>6. CASE keyframe
        <3>1. PICK p : p = KeyframePayload(s, seq, t) /\ F = FramePacket(Keyframe, seq, t, p)
            BY <2>3, <2>5, <2>6
        <3>2. /\ p \in Seq(0..255) /\ Len(p) \in Shorts
              /\ Len(p) = PayloadSize(Abstract!KeyframeOf(s))
            BY <2>4, <3>1, KeyframeBack, KeyframeSize
        <3>3. Packed(F, Keyframe, t, p)
            <4>1. PICK k : k = Keyframe /\ k \in {Delta, Keyframe}
                OBVIOUS
            <4> QED
                BY <2>4, <3>1, <3>2, <4>1, FrameIsPacked
        <3>4. Len(F) = Len(p) + 14 /\ F[4] = Keyframe /\ Len(p) \in Nat
            BY <3>2, <3>3 DEF Packed
        <3>5. Size = Overhead + Len(p)
            BY <2>3, <2>5, <3>2, <3>4, Zenon DEF FrameSize
        <3> HIDE DEF Size
        <3> QED
            BY <2>5, <3>4, <3>5 DEF Overhead
    <2>7. CASE ~keyframe
        <3>1. PICK p : p = DeltaPayload(s, device) /\ F = FramePacket(Delta, seq, t, p)
            BY <2>3, <2>5, <2>7
        <3>2. SameTopology(s, device) /\ Slots(device) = Slots(s)
            BY <2>7 DEF SameTopology
        <3>3. Packed(F, Delta, t, p) /\ p \in Seq(0..255)
            BY <2>4, <3>1, <3>2, DeltaPacked
        <3>4. Len(p) = PayloadSize(Abstract!DeltaOf(s, device))
            BY <2>4, <3>1, <3>2, DeltaSize
        <3>5. Len(F) = Len(p) + 14 /\ F[4] = Delta /\ Len(p) \in Nat
            BY <3>3 DEF Packed
        <3>6. F[4] # Keyframe
            BY <3>5 DEF Delta, Keyframe
        <3>7. Size = Overhead + Len(p)
            BY <2>3, <2>5, <3>4, <3>6, Zenon DEF FrameSize
        <3> HIDE DEF Size
        <3> QED
            BY <2>5, <3>5, <3>7 DEF Overhead
    <2> HIDE DEF keyframe
    <2> QED
        BY <2>6, <2>7
<1>2. ASSUME CodecInvariant, [Next]_vars, source = "agent", frame = <<>>, frame' # <<>>
      PROVE  Len(frame') = Size
    <2>1. ~MockSends
        BY <1>2 DEF MockSends
    <2>2. ~Damage /\ ~Deliver
        BY <1>2 DEF Damage, Deliver
    <2>3. ~StackOverflow /\ ~UNCHANGED vars
        BY <1>2 DEF StackOverflow, vars
    <2>4. AgentSends
        BY <1>2, <2>1, <2>2, <2>3 DEF Next
    <2> QED
        BY <1>1, <1>2, <2>4
<1>3. CodecInvariant /\ [Next]_vars =>
          [source = "agent" /\ frame = <<>> /\ frame' # <<>> => Len(frame') = Size]_vars
    BY <1>2
<1> QED
    BY <1>3, CodecIsSound, PTL DEF Spec, SizesAgree
=============================================================================
