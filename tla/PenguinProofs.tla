--------------------------- MODULE PenguinProofs ---------------------------
(***************************************************************************)
(* Proofs about Penguin and the allocators it is built on, for any pool,   *)
(* any number of slabs and any sizes.                                      *)
(***************************************************************************)
EXTENDS Penguin, FiniteSetTheorems, WellFoundedInduction, TLAPS

(* Numbers.  The inductions look at a smallest number for which a law      *)
(* would fail.                                                             *)
LEMMA SmallestNumber ==
  ASSUME NEW T \in SUBSET Nat, T # {}
  PROVE  \E n \in T : \A m \in T : n <= m
<1> DEFINE R == StrictSubsetOrdering(Nat)
           W == FiniteSubsetsOf(Nat)
           U == {0..n : n \in T}
<1>1. IsWellFoundedOn(R, W)
  BY FS_StrictSubsetOrderingWellFounded
<1>2. U \subseteq W /\ U # {}
  <2>1. \A n \in T : IsFiniteSet(0..n) /\ 0..n \in SUBSET Nat
    BY FS_Interval
  <2> QED
    BY <2>1 DEF FiniteSubsetsOf
<1>3. \A s, t \in U : t \subseteq s /\ t # s => <<t, s>> \in R
  BY DEF StrictSubsetOrdering
<1> HIDE DEF R, W
<1>4. PICK u \in U : \A v \in U : ~ (<<v, u>> \in R)
  <2> HIDE DEF U
  <2> QED
    BY <1>1, <1>2, WFMin
<1>5. PICK n \in T : u = 0..n
  BY <1>4
<1>6. ASSUME NEW m \in T, m < n PROVE FALSE
  <2>1. 0..m \in U /\ 0..m \subseteq u /\ n \in u /\ n \notin 0..m
    BY <1>5, <1>6
  <2>2. 0..m # u
    BY <2>1
  <2> QED
    BY <1>3, <1>4, <2>1, <2>2
<1> QED
  BY <1>6

LEMMA LargestNumber ==
  ASSUME NEW T \in SUBSET Nat, T # {}, NEW b \in Nat, \A n \in T : n <= b
  PROVE  \E n \in T : \A m \in T : m <= n
<1> DEFINE U == {b - n : n \in T}
<1>1. U \in SUBSET Nat /\ U # {}
  <2>1. \A n \in T : b - n \in Nat
    OBVIOUS
  <2> QED
    BY <2>1
<1>2. PICK u \in U : \A v \in U : u <= v
  BY <1>1, SmallestNumber
<1>3. PICK n \in T : u = b - n
  BY <1>2
<1>4. \A m \in T : b - n <= b - m
  BY <1>2, <1>3
<1>5. \A m \in T : m <= n
  BY <1>4
<1> QED
  BY <1>5

LEMMA MinIs ==
  ASSUME NEW T \in SUBSET Nat, T # {}
  PROVE  Min(T) \in T /\ \A m \in T : Min(T) <= m
BY SmallestNumber DEF Min

LEMMA MaxIs ==
  ASSUME NEW T \in SUBSET Nat, T # {}, NEW b \in Nat, \A n \in T : n <= b
  PROVE  Max(T) \in T /\ \A m \in T : m <= Max(T)
<1>1. \E n \in T : \A m \in T : n >= m
  BY LargestNumber
<1>2. Max(T) \in T /\ \A m \in T : Max(T) >= m
  BY <1>1 DEF Max
<1> QED
  BY <1>2

(* A function that is defined along the numbers of N exists.               *)
Recurs(f, N, a, F) == f = [n \in N |-> IF n = 0 THEN a ELSE F[f[n - 1]]]

LEMMA RecursAt ==
  ASSUME NEW f, NEW N, NEW a, NEW F, Recurs(f, N, a, F), NEW n \in N
  PROVE  f[n] = IF n = 0 THEN a ELSE F[f[n - 1]]
BY DEF Recurs

LEMMA RecursOnce ==
  ASSUME NEW a, NEW F, NEW m \in Nat, NEW n \in Nat, NEW f, NEW g,
         Recurs(f, 0..m, a, F), Recurs(g, 0..n, a, F),
         NEW k \in Nat, k <= m, k <= n
  PROVE  f[k] = g[k]
<1> DEFINE T == {i \in Nat : i <= m /\ i <= n /\ f[i] # g[i]}
<1> SUFFICES ASSUME T # {} PROVE FALSE
  OBVIOUS
<1>1. PICK i \in T : \A j \in T : i <= j
  BY SmallestNumber
<1>2. i # 0
  BY <1>1, RecursAt
<1>3. i - 1 \in Nat /\ i - 1 <= m /\ i - 1 <= n /\ i - 1 \notin T
  BY <1>1, <1>2
<1>4. f[i - 1] = g[i - 1]
  BY <1>3
<1>5. i \in 0..m /\ i \in 0..n
  BY <1>1
<1>6. f[i] = F[f[i - 1]] /\ g[i] = F[g[i - 1]]
  <2>1. f[i] = F[f[i - 1]]
    <3>1. f[i] = IF i = 0 THEN a ELSE F[f[i - 1]]
      BY <1>5 DEF Recurs
    <3> QED
      BY <1>2, <3>1
  <2>2. g[i] = F[g[i - 1]]
    BY <1>2, <1>5, RecursAt
  <2> QED
    BY <2>1, <2>2
<1> QED
  BY <1>1, <1>4, <1>6

LEMMA RecursUpTo ==
  ASSUME NEW a, NEW F, NEW n \in Nat
  PROVE  \E f : Recurs(f, 0..n, a, F)
<1> DEFINE T == {i \in Nat : ~ \E f : Recurs(f, 0..i, a, F)}
<1> SUFFICES ASSUME T # {} PROVE FALSE
  OBVIOUS
<1>1. PICK i \in T : \A j \in T : i <= j
  BY SmallestNumber
<1>2. CASE i = 0
  <2> DEFINE f == [k \in 0..0 |-> a]
  <2>1. Recurs(f, 0..0, a, F)
    BY DEF Recurs
  <2> QED
    BY <1>1, <1>2, <2>1
<1>3. CASE i # 0
  <2>1. i - 1 \in Nat /\ i - 1 \notin T
    BY <1>1, <1>3
  <2>2. PICK g : Recurs(g, 0..(i - 1), a, F)
    BY <2>1
  <2> DEFINE f == [k \in 0..i |-> IF k = i THEN F[g[i - 1]] ELSE g[k]]
  <2>3. ASSUME NEW k \in 0..(i - 1) PROVE g[k] = IF k = 0 THEN a ELSE F[g[k - 1]]
    <3> DEFINE N == 0..(i - 1)
    <3>1. Recurs(g, N, a, F) /\ k \in N
      BY <2>2
    <3> HIDE DEF N
    <3> QED
      BY <3>1, RecursAt
  <2>4. \A k \in 0..i : f[k] = IF k = 0 THEN a ELSE F[f[k - 1]]
    BY <1>1, <1>3, <2>3
  <2>5. f = [k \in 0..i |-> f[k]]
    OBVIOUS
  <2> HIDE DEF f
  <2>6. Recurs(f, 0..i, a, F)
    BY <2>4, <2>5 DEF Recurs
  <2> QED
    BY <1>1, <2>6
<1> QED
  BY <1>2, <1>3

LEMMA Recursion ==
  ASSUME NEW a, NEW F, NEW N \in SUBSET Nat, \A n \in N : n = 0 \/ n - 1 \in N
  PROVE  \E f : Recurs(f, N, a, F)
<1> DEFINE g(n) == CHOOSE f : Recurs(f, 0..n, a, F)
           f == [n \in N |-> g(n)[n]]
<1>1. \A n \in Nat : Recurs(g(n), 0..n, a, F)
  BY RecursUpTo
<1>2. ASSUME NEW n \in N PROVE f[n] = IF n = 0 THEN a ELSE F[f[n - 1]]
  <2>1. n \in Nat /\ n \in 0..n
    OBVIOUS
  <2>0. f[n] = g(n)[n]
    <3> HIDE DEF g
    <3> QED
      OBVIOUS
  <2>2. Recurs(g(n), 0..n, a, F)
    BY <1>1, <2>1
  <2> HIDE DEF g
  <2>3. CASE n = 0
    BY <2>0, <2>1, <2>2, <2>3, RecursAt
  <2>4. CASE n # 0
    <3>1. n - 1 \in N /\ n - 1 \in Nat /\ f[n - 1] = g(n - 1)[n - 1]
      BY <2>4
    <3>2. Recurs(g(n - 1), 0..(n - 1), a, F)
      BY <1>1, <3>1
    <3>3. g(n)[n - 1] = g(n - 1)[n - 1]
      BY <2>1, <2>2, <3>1, <3>2, RecursOnce
    <3>4. g(n)[n] = F[g(n)[n - 1]]
      BY <2>1, <2>2, <2>4, RecursAt
    <3> QED
      BY <2>0, <2>4, <3>1, <3>3, <3>4
  <2> QED
    BY <2>3, <2>4
<1>3. f = [n \in N |-> f[n]]
  OBVIOUS
<1> HIDE DEF f
<1>4. Recurs(f, N, a, F)
  BY <1>2, <1>3 DEF Recurs
<1> QED
  BY <1>4

-----------------------------------------------------------------------------
(* Powers of two.                                                          *)
LEMMA Induct ==
  ASSUME NEW T \in SUBSET Nat, 0 \in T, \A n \in T : n + 1 \in T
  PROVE  \A n \in Nat : n \in T
<1> DEFINE U == Nat \ T
<1> SUFFICES ASSUME U # {} PROVE FALSE
  OBVIOUS
<1>1. PICK n \in U : \A m \in U : n <= m
  BY SmallestNumber
<1>2. n # 0
  BY <1>1
<1>3. n - 1 \in Nat /\ n - 1 \notin U
  BY <1>1, <1>2
<1>4. (n - 1) + 1 \in T /\ (n - 1) + 1 = n
  BY <1>3
<1> QED
  BY <1>1, <1>4

LEMMA PowIs == Pow2 = [p \in Nat |-> IF p = 0 THEN 1 ELSE 2 * Pow2[p - 1]]
<1> DEFINE F == [x \in Nat |-> 2 * x]
<1>1. PICK f : Recurs(f, Nat, 1, F)
  BY Recursion
<1>2. f[0] = 1 /\ \A n \in Nat : f[n + 1] = F[f[n]]
  BY <1>1 DEF Recurs
<1> DEFINE T == {n \in Nat : f[n] \in Nat}
<1>0. \A x \in Nat : F[x] \in Nat
  OBVIOUS
<1> HIDE DEF F
<1>3. 0 \in T /\ \A n \in T : n + 1 \in T
  BY <1>0, <1>2
<1>4. \A n \in Nat : f[n] \in Nat
  <2> HIDE DEF T
  <2>1. T \in SUBSET Nat /\ \A n \in T : f[n] \in Nat
    BY DEF T
  <2> QED
    BY <1>3, <2>1, Induct
<1>5. \A n \in Nat : n # 0 => F[f[n - 1]] = 2 * f[n - 1]
  <2>1. ASSUME NEW n \in Nat, n # 0 PROVE F[f[n - 1]] = 2 * f[n - 1]
    <3>1. f[n - 1] \in Nat
      BY <1>4, <2>1
    <3> QED
      BY <3>1 DEF F
  <2> QED
    BY <2>1
<1>6. f = [n \in Nat |-> IF n = 0 THEN 1 ELSE F[f[n - 1]]]
  BY <1>1 DEF Recurs
<1>7. f = [p \in Nat |-> IF p = 0 THEN 1 ELSE 2 * f[p - 1]]
  BY <1>5, <1>6
<1>8. \E g : g = [p \in Nat |-> IF p = 0 THEN 1 ELSE 2 * g[p - 1]]
  BY <1>7
<1> QED
  BY <1>8 DEF Pow2

LEMMA PowLaw ==
  Pow2[0] = 1 /\ \A p \in Nat : Pow2[p] \in Nat \ {0} /\ Pow2[p + 1] = 2 * Pow2[p]
<1>1. Pow2[0] = 1
  BY PowIs
<1>2. \A p \in Nat : Pow2[p + 1] = 2 * Pow2[p]
  BY PowIs
<1> DEFINE T == {n \in Nat : Pow2[n] \in Nat \ {0}}
<1>3. 0 \in T /\ \A n \in T : n + 1 \in T
  BY <1>1, <1>2
<1>4. \A n \in Nat : Pow2[n] \in Nat \ {0}
  <2> HIDE DEF T
  <2>1. T \in SUBSET Nat /\ \A n \in T : Pow2[n] \in Nat \ {0}
    BY DEF T
  <2> QED
    BY <1>3, <2>1, Induct
<1> QED
  BY <1>1, <1>2, <1>4

LEMMA PowSum == \A m, n \in Nat : Pow2[m + n] = Pow2[m] * Pow2[n]
<1> SUFFICES ASSUME NEW m \in Nat PROVE \A n \in Nat : Pow2[m + n] = Pow2[m] * Pow2[n]
  OBVIOUS
<1> DEFINE T == {n \in Nat : Pow2[m + n] = Pow2[m] * Pow2[n]}
<1>1. 0 \in T
  BY PowLaw
<1>2. ASSUME NEW n \in T PROVE n + 1 \in T
  <2>1. n \in Nat /\ m + n \in Nat /\ m + (n + 1) = (m + n) + 1
    OBVIOUS
  <2>2. Pow2[m + (n + 1)] = 2 * Pow2[m + n] /\ Pow2[n + 1] = 2 * Pow2[n]
    BY <2>1, PowLaw
  <2>3. Pow2[m] \in Nat /\ Pow2[n] \in Nat
    BY PowLaw
  <2>4. \A x, y \in Nat : 2 * (x * y) = x * (2 * y)
    OBVIOUS
  <2> QED
    BY <2>2, <2>3, <2>4
<1> HIDE DEF T
<1>3. T \in SUBSET Nat /\ \A n \in T : Pow2[m + n] = Pow2[m] * Pow2[n]
  BY DEF T
<1> QED
  BY <1>1, <1>2, <1>3, Induct

LEMMA PowBig == \A n \in Nat : n < Pow2[n]
<1> DEFINE T == {n \in Nat : n < Pow2[n]}
<1>1. 0 \in T /\ \A n \in T : n + 1 \in T
  BY PowLaw
<1> HIDE DEF T
<1>2. T \in SUBSET Nat /\ \A n \in T : n < Pow2[n]
  BY DEF T
<1> QED
  BY <1>1, <1>2, Induct

LEMMA PowLess ==
  ASSUME NEW m \in Nat, NEW n \in Nat
  PROVE  (m < n => 2 * Pow2[m] <= Pow2[n]) /\ (m <= n <=> Pow2[m] <= Pow2[n])
<1>1. \A i, k \in Nat : Pow2[i] <= Pow2[i + k]
  <2> SUFFICES ASSUME NEW i \in Nat, NEW k \in Nat PROVE Pow2[i] <= Pow2[i + k]
    OBVIOUS
  <2>1. Pow2[i + k] = Pow2[i] * Pow2[k] /\ Pow2[i] \in Nat \ {0} /\ Pow2[k] \in Nat \ {0}
    BY PowSum, PowLaw
  <2>2. \A x, y \in Nat \ {0} : x <= x * y
    OBVIOUS
  <2> QED
    BY <2>1, <2>2
<1>2. \A i, k \in Nat : i <= k => Pow2[i] <= Pow2[k]
  <2> SUFFICES ASSUME NEW i \in Nat, NEW k \in Nat, i <= k PROVE Pow2[i] <= Pow2[k]
    OBVIOUS
  <2>1. k - i \in Nat /\ i + (k - i) = k
    OBVIOUS
  <2> QED
    BY <1>1, <2>1
<1>3. \A i, k \in Nat : i < k => 2 * Pow2[i] <= Pow2[k]
  <2> SUFFICES ASSUME NEW i \in Nat, NEW k \in Nat, i < k PROVE 2 * Pow2[i] <= Pow2[k]
    OBVIOUS
  <2>1. i + 1 \in Nat /\ i + 1 <= k
    OBVIOUS
  <2> QED
    BY <1>2, <2>1, PowLaw
<1> QED
  BY <1>2, <1>3, PowLaw

(* The quotient of an addition and of a quotient.                          *)
LEMMA DivIs ==
  ASSUME NEW x \in Nat, NEW k \in Nat \ {0}, NEW q \in Nat
  PROVE  x \div k = q <=> k * q <= x /\ x < k * q + k
<1> DEFINE d == x \div k
           r == x % k
<1>1. d \in Nat /\ r \in Nat /\ r < k /\ x = k * d + r
  OBVIOUS
<1> HIDE DEF d, r
<1>2. d = q => k * q <= x /\ x < k * q + k
  BY <1>1
<1>3. ASSUME k * q <= x, x < k * q + k PROVE d = q
  <2>1. ASSUME d < q PROVE FALSE
    <3>1. k * (d + 1) <= k * q
      BY <1>1, <2>1
    <3>2. k * (d + 1) = k * d + k
      BY <1>1
    <3> QED
      BY <1>1, <1>3, <3>1, <3>2
  <2>2. ASSUME q < d PROVE FALSE
    <3>1. k * (q + 1) <= k * d
      BY <1>1, <2>2
    <3>2. k * (q + 1) = k * q + k
      BY <1>1
    <3> QED
      BY <1>1, <1>3, <3>1, <3>2
  <2> QED
    BY <1>1, <2>1, <2>2
<1> QED
  BY <1>2, <1>3 DEF d

LEMMA DivNat ==
  ASSUME NEW x \in Nat, NEW k \in Nat \ {0}
  PROVE  /\ x \div k \in Nat
         /\ k * (x \div k) <= x /\ x < k * (x \div k) + k
<1>1. x \div k \in Nat
  OBVIOUS
<1> QED
  BY <1>1, DivIs

LEMMA DivDiv ==
  ASSUME NEW x \in Nat, NEW j \in Nat \ {0}, NEW k \in Nat \ {0}
  PROVE  x \div (j * k) = (x \div j) \div k
<1> DEFINE q == x \div j
           r == q \div k
<1>1. q \in Nat /\ j * q <= x /\ x < j * q + j
  BY DivNat
<1> HIDE DEF q
<1>2. r \in Nat /\ k * r <= q /\ q < k * r + k
  BY <1>1, DivNat
<1> HIDE DEF r
<1>3. j * k \in Nat \ {0} /\ k * r \in Nat
  BY <1>2
<1>4. j * (k * r) <= j * q /\ j * (k * r) = (j * k) * r
  BY <1>1, <1>2, <1>3
<1>5. j * (q + 1) <= j * (k * r + k)
  BY <1>1, <1>2, <1>3
<1>6. j * (k * r + k) = (j * k) * r + j * k /\ j * (q + 1) = j * q + j
  BY <1>1, <1>2
<1>7. (j * k) * r <= x /\ x < (j * k) * r + j * k
  <2> DEFINE a == (j * k) * r
             b == j * k
             c == j * q
  <2>1. a \in Nat /\ b \in Nat /\ c \in Nat /\ a <= c /\ c + j <= a + b
    BY <1>1, <1>2, <1>3, <1>4, <1>5, <1>6
  <2> HIDE DEF a, b, c
  <2>2. a <= x /\ x < a + b
    BY <1>1, <2>1 DEF c
  <2> QED
    BY <2>2 DEF a, b
<1>8. x \div (j * k) = r
  BY <1>2, <1>3, <1>7, DivIs
<1> QED
  BY <1>8 DEF q, r

-----------------------------------------------------------------------------
(* The layers of the pool.                                                 *)
Log == CHOOSE p \in Nat : RootBlockSize = Pow2[p]

LEMMA Sized ==
  /\ Log \in Nat /\ RootBlockSize = Pow2[Log] /\ RootBlockSize \in Nat \ {0}
  /\ Layers \in Nat \ {0} /\ Layers <= Log + 1
<1> DEFINE n == BlocksCount
           P == {Pow2[p] : p \in {p \in 0..n : Pow2[p] <= n}}
           Q == {p \in 0..n : Pow2[p] >= n}
<1>0. n \in Nat /\ 15 <= n
  BY BuddyAssumption
<1>1. P \in SUBSET Nat /\ P # {} /\ \A x \in P : x <= n
  <2>1. Pow2[0] \in P
    BY <1>0, PowLaw
  <2>2. ASSUME NEW x \in P PROVE x \in Nat /\ x <= n
    <3>1. PICK p \in 0..n : x = Pow2[p] /\ Pow2[p] <= n
      OBVIOUS
    <3>2. p \in Nat
      BY <1>0
    <3> QED
      BY <3>1, <3>2, PowLaw
  <2> HIDE DEF P
  <2> QED
    BY <2>1, <2>2
<1>2. RootBlockSize \in P /\ \A x \in P : x <= RootBlockSize
  <2> HIDE DEF P
  <2>1. Max(P) \in P /\ \A x \in P : x <= Max(P)
    BY <1>0, <1>1, MaxIs
  <2> QED
    BY <2>1 DEF RootBlockSize, MaxLowerPowerOf2, P
<1>3. PICK L \in 0..n : RootBlockSize = Pow2[L] /\ Pow2[L] <= n
  BY <1>2
<1>4. Log \in Nat /\ RootBlockSize = Pow2[Log]
  <2>1. \E p \in Nat : RootBlockSize = Pow2[p]
    BY <1>0, <1>3
  <2> QED
    BY <2>1 DEF Log
<1>5. Pow2[Log + 1] > n
  <2> SUFFICES ASSUME Pow2[Log + 1] <= n PROVE FALSE
    BY <1>0, <1>4, PowLaw
  <2>1. Log + 1 \in 0..n
    BY <1>0, <1>4, PowBig, PowLaw
  <2>2. Pow2[Log + 1] \in P
    BY <2>1
  <2>3. Pow2[Log + 1] <= Pow2[Log]
    BY <1>2, <1>4, <2>2
  <2> QED
    BY <1>4, <2>3, PowLaw
<1>6. Q \in SUBSET Nat /\ n \in Q
  BY <1>0, PowBig, PowLaw
<1>7. Layers \in Q /\ \A q \in Q : Layers <= q
  <2> HIDE DEF Q
  <2>1. Min(Q) \in Q /\ \A q \in Q : Min(Q) <= q
    BY <1>6, MinIs
  <2> QED
    BY <2>1 DEF Layers, Log2Upper, Q
<1>8. Log + 1 \in Q
  <2>1. Log < Pow2[Log] /\ Pow2[Log] <= n
    BY <1>3, <1>4, PowBig
  <2> QED
    BY <1>0, <1>4, <1>5, <2>1, PowLaw
<1>9. Layers # 0
  BY <1>0, <1>7, PowLaw
<1> QED
  BY <1>4, <1>6, <1>7, <1>8, <1>9, PowLaw

LEMMA LayerIs ==
  /\ 0 \in Layer /\ Layer \subseteq Nat
  /\ \A l \in Layer : l <= Log /\ Log - l \in Nat /\ \A k \in 0..l : k \in Layer
BY Sized DEF Layer

LEMMA BlockSizeIs ==
  ASSUME NEW l \in Layer
  PROVE  /\ BlockSize(l) \in Nat \ {0}
         /\ BlockSize(l) = Pow2[Log - l]
         /\ BlockSize(l) * Pow2[l] = RootBlockSize
<1>1. l \in Nat /\ Log - l \in Nat /\ (Log - l) + l = Log
  BY LayerIs, Sized
<1>2. Pow2[Log - l] * Pow2[l] = RootBlockSize /\ Pow2[Log - l] \in Nat \ {0} /\ Pow2[l] \in Nat \ {0}
  BY <1>1, PowSum, PowLaw, Sized, ZenonT(60)
<1>3. RootBlockSize \div Pow2[l] = Pow2[Log - l]
  <2> DEFINE a == Pow2[l]
             b == Pow2[Log - l]
  <2>1. a * b = RootBlockSize /\ a \in Nat \ {0} /\ b \in Nat /\ RootBlockSize \in Nat
    BY <1>2, Sized
  <2> HIDE DEF a, b
  <2>2. RootBlockSize \div a = b
    BY <2>1, DivIs
  <2> QED
    BY <2>2 DEF a, b
<1> QED
  BY <1>2, <1>3 DEF BlockSize

LEMMA Halves ==
  ASSUME NEW l \in Layer, NEW k \in 0..l
  PROVE  /\ k \in Layer /\ l - k \in Nat
         /\ BlockSize(k) = BlockSize(l) * Pow2[l - k]
<1>1. k \in Layer /\ l \in Nat /\ l - k \in Nat /\ Log - l \in Nat /\ Log - k \in Nat
  BY LayerIs
<1>2. Log - k = (Log - l) + (l - k)
  BY <1>1, LayerIs, Sized
<1>3. Pow2[Log - k] = Pow2[Log - l] * Pow2[l - k]
  BY <1>1, <1>2, PowSum
<1>4. BlockSize(k) = Pow2[Log - k] /\ BlockSize(l) = Pow2[Log - l]
  BY <1>1, BlockSizeIs
<1> QED
  BY <1>1, <1>3, <1>4

(* In each layer every page lies in one block, which begins at a multiple  *)
(* of its size.                                                            *)
LEMMA PointerIs ==
  ASSUME NEW l \in Layer, NEW i \in Index(l)
  PROVE  ToPointer(l, i) \in Page /\ ToIndex(l, ToPointer(l, i)) = i
<1>1. BlockSize(l) \in Nat \ {0} /\ BlockSize(l) * Pow2[l] = RootBlockSize
  BY BlockSizeIs
<1>2. l \in Nat /\ Pow2[l] \in Nat \ {0} /\ i \in Nat /\ i + 1 <= Pow2[l]
  BY LayerIs, PowLaw DEF Index
<1> DEFINE b == BlockSize(l)
           m == Pow2[l]
<1>3. b * i \in Nat /\ b * i < b * m
  <2>1. b \in Nat \ {0} /\ m \in Nat /\ i \in Nat /\ i < m
    BY <1>1, <1>2
  <2> HIDE DEF b, m
  <2> QED
    BY <2>1
<1>4. (b * i) \div b = i
  <2>1. b \in Nat \ {0} /\ b * i \in Nat /\ i \in Nat /\ b * i <= b * i /\ b * i < b * i + b
    BY <1>1, <1>2, <1>3
  <2> HIDE DEF b
  <2> QED
    BY <2>1, DivIs
<1> QED
  BY <1>1, <1>3, <1>4, Sized DEF ToPointer, ToIndex, Page

LEMMA IndexIs ==
  ASSUME NEW l \in Layer, NEW p \in Page
  PROVE  ToIndex(l, p) \in Index(l)
<1> DEFINE b == BlockSize(l)
           m == Pow2[l]
           q == p \div b
<1>1. b \in Nat \ {0} /\ m \in Nat \ {0} /\ p \in Nat /\ p < b * m
  BY BlockSizeIs, LayerIs, PowLaw, Sized DEF Page
<1> HIDE DEF b, m
<1>2. q \in Nat /\ b * q <= p
  BY <1>1, DivNat
<1> HIDE DEF q
<1>3. q < m
  <2> SUFFICES ASSUME m <= q PROVE FALSE
    BY <1>1, <1>2
  <2>1. b * m <= b * q
    BY <1>1, <1>2
  <2> QED
    BY <1>1, <1>2, <2>1
<1> QED
  BY <1>1, <1>2, <1>3 DEF b, m, q, ToIndex, Index

LEMMA InBlock ==
  ASSUME NEW l \in Layer, NEW i \in Index(l), NEW p \in Page
  PROVE  p \in Pages(ToPointer(l, i), l) <=> ToIndex(l, p) = i
<1> DEFINE b == BlockSize(l)
<1>1. b \in Nat \ {0} /\ p \in Nat /\ i \in Nat
  BY BlockSizeIs, LayerIs, PowLaw, Sized DEF Page, Index
<1>2. b * i \in Nat /\ ToPointer(l, i) = b * i /\ Pages(b * i, l) = (b * i)..(b * i + b - 1)
  BY <1>1 DEF ToPointer, Pages
<1> HIDE DEF b
<1>3. p \div b = i <=> b * i <= p /\ p < b * i + b
  BY <1>1, DivIs
<1> QED
  BY <1>1, <1>2, <1>3 DEF ToIndex, b

LEMMA PagesAre ==
  ASSUME NEW l \in Layer, NEW i \in Index(l)
  PROVE  Pages(ToPointer(l, i), l) = {p \in Page : ToIndex(l, p) = i}
<1> DEFINE b == BlockSize(l)
           m == Pow2[l]
<1>1. b \in Nat \ {0} /\ m \in Nat \ {0} /\ i \in Nat /\ i + 1 <= m /\ b * m = RootBlockSize
  BY BlockSizeIs, LayerIs, PowLaw DEF Index
<1>2. b * i \in Nat /\ ToPointer(l, i) = b * i /\ Pages(b * i, l) = (b * i)..(b * i + b - 1)
  BY <1>1 DEF ToPointer, Pages
<1> HIDE DEF b, m
<1>3. b * (i + 1) <= b * m /\ b * (i + 1) = b * i + b
  BY <1>1
<1>4. Pages(ToPointer(l, i), l) \subseteq Page
  BY <1>1, <1>2, <1>3, Sized DEF Page
<1> QED
  BY <1>4, InBlock

(* What shares a block shares the larger ones around it.                   *)
LEMMA Nested ==
  ASSUME NEW l \in Layer, NEW k \in 0..l, NEW p \in Page
  PROVE  ToIndex(k, p) = ToIndex(l, p) \div Pow2[l - k]
<1>1. k \in Layer /\ l - k \in Nat /\ BlockSize(k) = BlockSize(l) * Pow2[l - k]
  BY Halves
<1>2. p \in Nat /\ BlockSize(l) \in Nat \ {0} /\ Pow2[l - k] \in Nat \ {0}
  BY <1>1, BlockSizeIs, PowLaw, Sized DEF Page
<1> QED
  BY <1>1, <1>2, DivDiv DEF ToIndex

(* Where a block of layer l may begin.                                     *)
Begins(l, p) == p = ToPointer(l, ToIndex(l, p))

LEMMA PointerBegins ==
  ASSUME NEW l \in Layer, NEW i \in Index(l)
  PROVE  Begins(l, ToPointer(l, i))
BY PointerIs DEF Begins

(* A block is the left-hand half of a left-hand half, all the way down.    *)
LEMMA LeftDown ==
  ASSUME NEW l \in Layer, NEW k \in 0..l, NEW p \in Page, Begins(k, p)
  PROVE  /\ Begins(l, p)
         /\ k < l => /\ ToIndex(l, p) % 2 = 0
                     /\ ToIndex(l, p) + 1 \in Index(l)
<1> DEFINE i == ToIndex(k, p)
           b == BlockSize(l)
           m == Pow2[l - k]
<1>1. /\ k \in Layer /\ l \in Nat /\ k \in Nat /\ l - k \in Nat /\ p \in Nat
      /\ BlockSize(k) = b * m
  BY Halves, LayerIs, Sized DEF Page
<1>2. b \in Nat \ {0} /\ m \in Nat \ {0} /\ i \in Index(k) /\ i \in Nat
  BY <1>1, BlockSizeIs, PowLaw, IndexIs DEF Index
<1>3. p = (b * m) * i
  BY <1>1 DEF Begins, ToPointer
<1> HIDE DEF i, b, m
<1>4. m * i \in Nat /\ p = b * (m * i)
  BY <1>2, <1>3
<1>5. p \div b = m * i
  BY <1>1, <1>2, <1>4, DivIs
<1>6. ToIndex(l, p) = m * i
  BY <1>5 DEF ToIndex, b
<1>7. Begins(l, p)
  BY <1>4, <1>6 DEF Begins, ToPointer, b
<1>8. ASSUME k < l PROVE ToIndex(l, p) % 2 = 0 /\ ToIndex(l, p) + 1 \in Index(l)
  <2>1. l - k - 1 \in Nat /\ (l - k - 1) + 1 = l - k /\ l - 1 \in Nat /\ (l - 1) + 1 = l
    BY <1>1, <1>8
  <2>2. m = 2 * Pow2[l - k - 1] /\ Pow2[l - k - 1] \in Nat
    BY <2>1, PowLaw DEF m
  <2>3. Pow2[l] = 2 * Pow2[l - 1] /\ Pow2[l - 1] \in Nat
    BY <2>1, PowLaw
  <2>4. m * i = 2 * (Pow2[l - k - 1] * i) /\ Pow2[l - k - 1] * i \in Nat
    BY <1>2, <2>2
  <2>5. ToIndex(l, p) \in Index(l)
    BY IndexIs
  <2> DEFINE x == Pow2[l - k - 1] * i
  <2>6. ToIndex(l, p) = 2 * x /\ x \in Nat
    BY <1>6, <2>4
  <2> HIDE DEF x
  <2> QED
    BY <2>3, <2>5, <2>6 DEF Index
<1> QED
  BY <1>7, <1>8

(* Blocks that share a page lie in one another.                            *)
LEMMA SameAbove ==
  ASSUME NEW l \in Layer, NEW k \in 0..l, NEW p \in Page, NEW q \in Page,
         ToIndex(l, p) = ToIndex(l, q)
  PROVE  ToIndex(k, p) = ToIndex(k, q)
BY Nested

LEMMA BlockOfPage ==
  ASSUME NEW l \in Layer, NEW p \in Page, Begins(l, p)
  PROVE  Pages(p, l) = {q \in Page : ToIndex(l, q) = ToIndex(l, p)}
BY PagesAre, IndexIs DEF Begins

(* The block a request is answered with.                                   *)
LEMMA SourceIs ==
  ASSUME NEW fit \in Layer
  PROVE  /\ SourceLayer(fit) \in Layer /\ SourceLayer(fit) \in 0..fit
         /\ \A l \in (SourceLayer(fit) + 1)..fit : freelist[l] = <<>>
<1> DEFINE S == {l \in 0..fit : l = 0 \/ freelist[l] # <<>>}
<1>1. fit \in Nat
  BY LayerIs
<1>2. S \in SUBSET Nat /\ 0 \in S /\ \A l \in S : l <= fit
  BY <1>1
<1>3. \A l \in 0..fit : l \notin S => freelist[l] = <<>>
  OBVIOUS
<1>4. S \subseteq 0..fit /\ SourceLayer(fit) = Max(S)
  BY DEF SourceLayer
<1> HIDE DEF S
<1>5. SourceLayer(fit) \in S /\ \A l \in S : l <= SourceLayer(fit)
  BY <1>1, <1>2, <1>4, MaxIs
<1>6. \A l \in (SourceLayer(fit) + 1)..fit : l \in 0..fit /\ l \notin S
  <2>1. SourceLayer(fit) \in Nat
    BY <1>2, <1>5
  <2>2. ASSUME NEW l \in (SourceLayer(fit) + 1)..fit PROVE l \in 0..fit /\ l \notin S
    <3>1. l \in 0..fit /\ ~ (l <= SourceLayer(fit))
      BY <1>1, <2>1
    <3> QED
      BY <1>5, <3>1
  <2> QED
    BY <2>2
<1> QED
  BY <1>3, <1>4, <1>5, <1>6, LayerIs

-----------------------------------------------------------------------------
(* Lists.                                                                  *)
LEMMA PopSet ==
  ASSUME NEW S, NEW s \in Seq(S), s # <<>>
  PROVE  /\ Tail(s) \in Seq(S) /\ Head(s) \in S
         /\ Len(Tail(s)) = Len(s) - 1
         /\ ToSet(s) = {Head(s)} \union ToSet(Tail(s))
<1>1. Tail(s) \in Seq(S) /\ Head(s) \in S /\ Len(s) \in Nat \ {0}
  OBVIOUS
<1>2. Len(Tail(s)) = Len(s) - 1
  OBVIOUS
<1>3. Head(s) = s[1] /\ \A i \in 1..(Len(s) - 1) : Tail(s)[i] = s[i + 1]
  OBVIOUS
<1>4. DOMAIN s = 1..Len(s) /\ DOMAIN Tail(s) = 1..(Len(s) - 1)
  OBVIOUS
<1>5. \A i \in 1..Len(s) : s[i] \in {Head(s)} \union ToSet(Tail(s))
  <2>1. ASSUME NEW i \in 1..Len(s) PROVE s[i] \in {Head(s)} \union ToSet(Tail(s))
    <3>1. CASE i = 1
      BY <1>3, <3>1
    <3>2. CASE i # 1
      <4>1. i - 1 \in 1..(Len(s) - 1) /\ s[i] = Tail(s)[i - 1]
        BY <1>1, <1>3, <3>2
      <4> QED
        BY <1>4, <4>1 DEF ToSet
    <3> QED
      BY <3>1, <3>2
  <2> QED
    BY <2>1
<1>6. \A i \in 1..(Len(s) - 1) : Tail(s)[i] \in ToSet(s)
  <2>1. ASSUME NEW i \in 1..(Len(s) - 1) PROVE Tail(s)[i] \in ToSet(s)
    <3>1. i + 1 \in 1..Len(s) /\ Tail(s)[i] = s[i + 1]
      BY <1>1, <1>3
    <3> QED
      BY <1>4, <3>1 DEF ToSet
  <2> QED
    BY <2>1
<1>7. Head(s) \in ToSet(s)
  BY <1>1, <1>3, <1>4 DEF ToSet
<1>8. ToSet(s) \subseteq {Head(s)} \union ToSet(Tail(s)) /\ ToSet(Tail(s)) \subseteq ToSet(s)
  BY <1>4, <1>5, <1>6 DEF ToSet
<1> QED
  BY <1>1, <1>2, <1>7, <1>8

LEMMA PushSet ==
  ASSUME NEW S, NEW s \in Seq(S), NEW x \in S
  PROVE  /\ <<x>> \o s \in Seq(S)
         /\ Len(<<x>> \o s) = Len(s) + 1
         /\ ToSet(<<x>> \o s) = {x} \union ToSet(s)
<1> DEFINE t == <<x>> \o s
<1>1. t \in Seq(S) /\ Len(t) = Len(s) + 1
  OBVIOUS
<1>2. t # <<>> /\ Head(t) = x /\ Tail(t) = s
  <2>1. t # <<>>
    BY <1>1
  <2>2. Head(t) = x
    OBVIOUS
  <2>3. Tail(t) = s
    OBVIOUS
  <2> QED
    BY <2>1, <2>2, <2>3
<1> HIDE DEF t
<1>3. ToSet(t) = {Head(t)} \union ToSet(Tail(t))
  BY <1>1, <1>2, PopSet
<1> QED
  BY <1>1, <1>2, <1>3 DEF t

LEMMA NoneIn == ToSet(<<>>) = {}
BY DEF ToSet

-----------------------------------------------------------------------------
(* The buddy allocator.  A block that is free begins where a block of its  *)
(* layer may begin, one that was handed out too, and it has the layer that *)
(* its size asks for; and while no memory was handed out that was in use,  *)
(* no page has two holders.                                                *)
BuddyInv ==
  /\ BuddyTypeOK
  /\ \A l \in Layer : \A p \in ToSet(freelist[l]) : Begins(l, p)
  /\ \A b \in live : Begins(b.layer, b.page) /\ b.layer = BestFitLayer(b.asked)
  /\ ~ shared => \A b, c \in live : b # c => Held(b) \cap Held(c) = {}

LEMMA InitBuddyInv == BuddyInit => BuddyInv
<1> SUFFICES ASSUME BuddyInit PROVE BuddyInv
  OBVIOUS
<1>1. 0 \in Layer /\ 0 \in Page /\ Begins(0, 0)
  <2>1. 0 \in Layer /\ 0 \in Index(0)
    BY LayerIs, PowLaw DEF Index
  <2>2. ToPointer(0, 0) = 0
    BY <2>1, BlockSizeIs DEF ToPointer
  <2> QED
    BY <2>1, <2>2, PointerIs, PointerBegins
<1>2. freelist \in [Layer -> Seq(Page)]
  BY <1>1 DEF BuddyInit
<1>3. \A l \in Layer : \A p \in ToSet(freelist[l]) : Begins(l, p)
  BY <1>1 DEF BuddyInit, ToSet
<1>4. bitmap \subseteq ((0..(BitmapSize - 1)) \X (0..7)) \union Cells
  BY DEF BuddyInit
<1> QED
  BY <1>2, <1>3, <1>4 DEF BuddyInit, BuddyInv, BuddyTypeOK

LEMMA GivenIs ==
  ASSUME BuddyInv, NEW pages \in Sizes, Available(pages)
  PROVE  LET fit == BestFitLayer(pages)
             source == SourceLayer(fit)
         IN /\ fit \in Layer /\ source \in Layer /\ source \in 0..fit
            /\ Given(pages) \in Page
            /\ Given(pages) \in ToSet(freelist[source])
            /\ freelist[source] # <<>>
            /\ Begins(source, Given(pages)) /\ Begins(fit, Given(pages))
<1> DEFINE fit == BestFitLayer(pages)
           source == SourceLayer(fit)
<1>1. fit \in Layer /\ source \in Layer /\ source \in 0..fit /\ freelist[source] # <<>>
  BY SourceIs DEF Available
<1>2. freelist[source] \in Seq(Page)
  BY <1>1 DEF BuddyInv, BuddyTypeOK
<1>3. Given(pages) = Head(freelist[source])
  BY DEF Given
<1>4. Given(pages) \in Page /\ Given(pages) \in ToSet(freelist[source])
  BY <1>1, <1>2, <1>3, PopSet
<1>5. Begins(source, Given(pages))
  BY <1>1, <1>4 DEF BuddyInv
<1> QED
  BY <1>1, <1>4, <1>5, LeftDown

LEMMA AllocStep ==
  ASSUME BuddyInv, NEW pages \in Sizes, Alloc(pages)
  PROVE  BuddyInv'
<1> DEFINE fit == BestFitLayer(pages)
           source == SourceLayer(fit)
           page == Given(pages)
           halves == (source + 1)..fit
           Right(l) == ToIndex(l, page) + 1
           new == [page |-> page, layer |-> fit, asked |-> pages]
<1>1. /\ fit \in Layer /\ source \in Layer /\ source \in 0..fit
      /\ page \in Page /\ freelist[source] # <<>>
      /\ Begins(source, page) /\ Begins(fit, page)
  BY GivenIs DEF Alloc
<1>2. fit \in Nat /\ source \in Nat /\ source <= fit
  <2>1. fit \in Nat /\ source \in Nat
    BY <1>1, LayerIs
  <2> HIDE DEF fit, source
  <2> QED
    BY <1>1, <2>1
<1>3. \A l \in halves : /\ l \in Layer /\ l - 1 \in Layer
                        /\ ToIndex(l - 1, page) \in Index(l - 1) /\ Right(l) \in Index(l)
                        /\ ToIndex(l, page) \in Index(l)
  <2> SUFFICES ASSUME NEW l \in halves
               PROVE  /\ l \in Layer /\ l - 1 \in Layer
                      /\ ToIndex(l - 1, page) \in Index(l - 1) /\ Right(l) \in Index(l)
                      /\ ToIndex(l, page) \in Index(l)
    OBVIOUS
  <2>1. l \in 0..fit /\ l - 1 \in 0..fit /\ source \in 0..l /\ source < l
    BY <1>2
  <2>2. l \in Layer /\ l - 1 \in Layer
    BY <1>1, <2>1, LayerIs
  <2> QED
    BY <1>1, <2>1, <2>2, LeftDown, IndexIs
<1>4. /\ bitmap' = (bitmap \union {Cell(l - 1, ToIndex(l - 1, page)) : l \in halves}
                           \union {Cell(l, Right(l)) : l \in halves})
                   \ {Cell(l, ToIndex(l, page)) : l \in halves \cap {fit}}
      /\ freelist' = [l \in Layer |->
            IF l = source THEN Tail(freelist[l])
            ELSE IF l \in halves THEN <<ToPointer(l, Right(l))>> \o freelist[l]
            ELSE freelist[l]]
      /\ live' = live \union {new}
      /\ ~ shared /\ shared' = \E b \in live : Held(b) \cap Pages(page, fit) # {}
      /\ rightFreed' = rightFreed
  BY DEF Alloc, Split
<1>5. freelist \in [Layer -> Seq(Page)]
  BY DEF BuddyInv, BuddyTypeOK
<1>6. new \in [page : Page, layer : Layer, asked : Sizes]
  BY <1>1
<1> HIDE DEF fit, source, page, halves, new
<1>7. ASSUME NEW l \in Layer
      PROVE  freelist'[l] \in Seq(Page) /\ \A p \in ToSet(freelist'[l]) : Begins(l, p)
  <2>1. freelist[l] \in Seq(Page) /\ \A p \in ToSet(freelist[l]) : Begins(l, p)
    BY DEF BuddyInv, BuddyTypeOK
  <2>2. CASE l = source
    <3>1. freelist'[l] = Tail(freelist[l]) /\ freelist[l] # <<>>
      BY <1>1, <1>4, <2>2
    <3> QED
      BY <2>1, <3>1, PopSet
  <2>3. CASE l # source /\ l \in halves
    <3>1. freelist'[l] = <<ToPointer(l, Right(l))>> \o freelist[l]
      BY <1>4, <2>3
    <3>2. ToPointer(l, Right(l)) \in Page /\ Begins(l, ToPointer(l, Right(l)))
      BY <1>3, <2>3, PointerIs, PointerBegins
    <3> QED
      BY <2>1, <3>1, <3>2, PushSet
  <2>4. CASE l # source /\ l \notin halves
    BY <1>4, <2>1, <2>4
  <2> QED
    BY <2>2, <2>3, <2>4
<1>8. freelist' \in [Layer -> Seq(Page)]
  <2>1. freelist' = [l \in Layer |-> freelist'[l]]
    BY <1>4
  <2> QED
    BY <1>7, <2>1
<1>9. bitmap' \subseteq ((0..(BitmapSize - 1)) \X (0..7)) \union Cells
  <2>1. \A l \in halves : Cell(l - 1, ToIndex(l - 1, page)) \in Cells /\ Cell(l, Right(l)) \in Cells
    BY <1>3 DEF Cells
  <2>2. bitmap \subseteq ((0..(BitmapSize - 1)) \X (0..7)) \union Cells
    BY DEF BuddyInv, BuddyTypeOK
  <2>3. bitmap' \subseteq bitmap \union {Cell(l - 1, ToIndex(l - 1, page)) : l \in halves}
                                 \union {Cell(l, Right(l)) : l \in halves}
    BY <1>4
  <2> QED
    BY <2>1, <2>2, <2>3
<1>10. live' \subseteq [page : Page, layer : Layer, asked : Sizes]
  BY <1>4, <1>6 DEF BuddyInv, BuddyTypeOK
<1>11. BuddyTypeOK'
  BY <1>4, <1>8, <1>9, <1>10 DEF BuddyTypeOK, BuddyInv
<1>12. \A b \in live' : Begins(b.layer, b.page) /\ b.layer = BestFitLayer(b.asked)
  BY <1>1, <1>4 DEF BuddyInv, new, fit, page
<1>13. ASSUME ~ shared', NEW b \in live', NEW c \in live', b # c
       PROVE  Held(b) \cap Held(c) = {}
  <2>1. Held(new) = Pages(page, fit)
    BY DEF new, Held
  <2>2. \A d \in live : Held(d) \cap Held(new) = {}
    BY <1>4, <1>13, <2>1
  <2>3. \A d, e \in live : d # e => Held(d) \cap Held(e) = {}
    BY <1>4 DEF BuddyInv
  <2> QED
    BY <1>4, <1>13, <2>2, <2>3
<1> QED
  BY <1>7, <1>11, <1>12, <1>13 DEF BuddyInv, Held

(* Where a block goes to when it is freed.                                 *)
LEMMA FreedIs ==
  ASSUME NEW page \in Page
  PROVE  LET start == StartLayer(page)
             top == JoinedLayer(start, page)
         IN start \in Layer /\ top \in Layer /\ top \in 0..start
<1> DEFINE start == StartLayer(page)
           top == JoinedLayer(start, page)
           S == {l \in Layer : l = 0 \/ ~ Get(l, ToIndex(l, page))}
           T == {l \in 0..start : l = 0 \/ Get(l, Sibling(ToIndex(l, page)))}
<1>1. S \in SUBSET Nat /\ 0 \in S /\ \A l \in S : l <= Log
  BY LayerIs
<1>2. S \subseteq Layer /\ start = Max(S)
  BY DEF StartLayer
<1> HIDE DEF S
<1>3. start \in Layer
  BY <1>1, <1>2, MaxIs, Sized
<1>4. start \in Nat /\ T \in SUBSET Nat /\ 0 \in T /\ \A l \in T : l <= start
  <2>1. start \in Nat
    BY <1>3, LayerIs
  <2> HIDE DEF start
  <2> QED
    BY <2>1
<1>5. T \subseteq 0..start /\ top = Max(T)
  BY DEF JoinedLayer
<1> HIDE DEF T, start
<1>6. top \in 0..start
  BY <1>4, <1>5, MaxIs
<1> QED
  BY <1>3, <1>6, LayerIs DEF start

LEMMA SiblingIs ==
  ASSUME NEW l \in Layer, l # 0, NEW i \in Index(l)
  PROVE  Sibling(i) \in Index(l)
<1>1. l - 1 \in Nat /\ (l - 1) + 1 = l
  BY LayerIs
<1>2. Pow2[l] = 2 * Pow2[l - 1] /\ Pow2[l - 1] \in Nat
  BY <1>1, PowLaw
<1> QED
  BY <1>2 DEF Index, Sibling

LEMMA FreeStep ==
  ASSUME BuddyInv, NEW b \in live, Free(b)
  PROVE  BuddyInv'
<1> DEFINE page == b.page
           start == StartLayer(page)
           top == JoinedLayer(start, page)
           Two(l) == {Cell(l, ToIndex(l, page)), Cell(l, Sibling(ToIndex(l, page)))}
<1>1. b \in [page : Page, layer : Layer, asked : Sizes] /\ page \in Page
  BY DEF BuddyInv, BuddyTypeOK
<1>2. start \in Layer /\ top \in Layer /\ top \in 0..start /\ start \in Nat
  BY <1>1, FreedIs, LayerIs
<1>3. /\ live' = live \ {b}
      /\ bitmap' = (bitmap \union UNION {Two(l) : l \in (top + 1)..start})
                   \ {Cell(top, ToIndex(top, page))}
      /\ freelist' = [freelist EXCEPT ![top] = <<ToPointer(top, ToIndex(top, page))>> \o @]
      /\ rightFreed' \in BOOLEAN
      /\ shared' = shared
  BY DEF Free, BuddyInv, BuddyTypeOK
<1> HIDE DEF page, start, top
<1>4. ToIndex(top, page) \in Index(top)
  BY <1>1, <1>2, IndexIs
<1>5. ToPointer(top, ToIndex(top, page)) \in Page
      /\ Begins(top, ToPointer(top, ToIndex(top, page)))
  BY <1>2, <1>4, PointerIs, PointerBegins
<1>6. ASSUME NEW l \in Layer
      PROVE  freelist'[l] \in Seq(Page) /\ \A p \in ToSet(freelist'[l]) : Begins(l, p)
  <2>1. freelist[l] \in Seq(Page) /\ \A p \in ToSet(freelist[l]) : Begins(l, p)
    BY DEF BuddyInv, BuddyTypeOK
  <2>2. CASE l = top
    <3>1. freelist'[l] = <<ToPointer(l, ToIndex(l, page))>> \o freelist[l]
      BY <1>3, <2>2 DEF BuddyInv, BuddyTypeOK
    <3> QED
      BY <1>5, <2>1, <2>2, <3>1, PushSet
  <2>3. CASE l # top
    BY <1>3, <2>1, <2>3 DEF BuddyInv, BuddyTypeOK
  <2> QED
    BY <2>2, <2>3
<1>7. freelist' \in [Layer -> Seq(Page)]
  <2>1. freelist' = [l \in Layer |-> freelist'[l]]
    BY <1>3 DEF BuddyInv, BuddyTypeOK
  <2> QED
    BY <1>6, <2>1
<1>8. bitmap' \subseteq ((0..(BitmapSize - 1)) \X (0..7)) \union Cells
  <2>1. ASSUME NEW l \in (top + 1)..start PROVE Two(l) \subseteq Cells
    <3>1. l \in 0..start /\ l # 0
      BY <1>2
    <3>2. l \in Layer
      BY <1>2, <3>1, LayerIs
    <3>3. ToIndex(l, page) \in Index(l) /\ Sibling(ToIndex(l, page)) \in Index(l)
      BY <1>1, <3>1, <3>2, IndexIs, SiblingIs
    <3> QED
      BY <3>2, <3>3 DEF Cells
  <2>2. bitmap \subseteq ((0..(BitmapSize - 1)) \X (0..7)) \union Cells
    BY DEF BuddyInv, BuddyTypeOK
  <2> HIDE DEF Two
  <2>3. bitmap' \subseteq bitmap \union UNION {Two(l) : l \in (top + 1)..start}
    BY <1>3
  <2>4. UNION {Two(l) : l \in (top + 1)..start} \subseteq Cells
    BY <2>1
  <2> QED
    BY <2>2, <2>3, <2>4
<1>9. BuddyTypeOK'
  BY <1>3, <1>7, <1>8 DEF BuddyTypeOK, BuddyInv
<1>10. \A c \in live' : Begins(c.layer, c.page) /\ c.layer = BestFitLayer(c.asked)
  BY <1>3 DEF BuddyInv
<1>11. ~ shared' => \A c, d \in live' : c # d => Held(c) \cap Held(d) = {}
  BY <1>3 DEF BuddyInv
<1> QED
  BY <1>6, <1>9, <1>10, <1>11 DEF BuddyInv, Held

-----------------------------------------------------------------------------
(* The bits.  Each block has a cell of its own.                            *)
LEMMA CellOnce ==
  ASSUME NEW l \in Layer, NEW i \in Index(l), NEW m \in Layer, NEW j \in Index(m),
         Cell(l, i) = Cell(m, j)
  PROVE  l = m /\ i = j
<1>1. /\ l \in Nat /\ m \in Nat /\ i \in Nat /\ j \in Nat /\ i < Pow2[l] /\ j < Pow2[m]
      /\ Pow2[l] \in Nat /\ Pow2[m] \in Nat
  BY LayerIs, PowLaw DEF Index
<1>2. MaskIndex(l, i) = MaskIndex(m, j) /\ BitIndex(l, i) = BitIndex(m, j)
  BY DEF Cell
<1>3. Pow2[0] = 1 /\ Pow2[1] = 2 /\ Pow2[2] = 4 /\ Pow2[3] = 8
  <2>1. Pow2[0 + 1] = 2 * Pow2[0] /\ Pow2[1 + 1] = 2 * Pow2[1] /\ Pow2[2 + 1] = 2 * Pow2[2]
    BY PowLaw
  <2>2. Pow2[0] = 1
    BY PowLaw
  <2> QED
    BY <2>1, <2>2
<1>4. ASSUME NEW k \in Nat, k >= 3
      PROVE  k - 3 \in Nat /\ Pow2[k - 3] \in Nat \ {0} /\ Pow2[k] = 8 * Pow2[k - 3]
  <2>1. k - 3 \in Nat /\ k = (k - 3) + 3 /\ 3 \in Nat
    BY <1>4
  <2>2. Pow2[(k - 3) + 3] = Pow2[k - 3] * Pow2[3]
    BY <2>1, PowSum
  <2>3. Pow2[k - 3] \in Nat \ {0}
    BY <2>1, PowLaw
  <2> QED
    BY <1>3, <2>1, <2>2, <2>3
<1>5. CASE l < 3 /\ m < 3
  <2>1. l \in {0, 1, 2} /\ m \in {0, 1, 2}
    BY <1>1, <1>5
  <2>2. i + Pow2[l] = j + Pow2[m]
    BY <1>2, <1>5 DEF BitIndex
  <2> QED
    BY <1>1, <1>3, <2>1, <2>2
<1>6. CASE l < 3 /\ ~ (m < 3)
  <2>1. MaskIndex(l, i) = 0 /\ MaskIndex(m, j) = Pow2[m - 3] + j \div 8
    BY <1>6 DEF MaskIndex
  <2>2. Pow2[m - 3] \in Nat \ {0} /\ j \div 8 \in Nat
    BY <1>1, <1>4, <1>6
  <2>3. Pow2[m - 3] + j \div 8 = 0
    BY <1>2, <2>1
  <2> QED
    BY <2>2, <2>3
<1>7. CASE ~ (l < 3) /\ m < 3
  <2>1. MaskIndex(m, j) = 0 /\ MaskIndex(l, i) = Pow2[l - 3] + i \div 8
    BY <1>7 DEF MaskIndex
  <2>2. Pow2[l - 3] \in Nat \ {0} /\ i \div 8 \in Nat
    BY <1>1, <1>4, <1>7
  <2>3. Pow2[l - 3] + i \div 8 = 0
    BY <1>2, <2>1
  <2> QED
    BY <2>2, <2>3
<1>8. CASE ~ (l < 3) /\ ~ (m < 3)
  <2> DEFINE a == Pow2[l - 3]
             b == Pow2[m - 3]
  <2>1. a + i \div 8 = b + j \div 8 /\ i % 8 = j % 8
    BY <1>2, <1>8 DEF MaskIndex, BitIndex
  <2>2. /\ l - 3 \in Nat /\ m - 3 \in Nat
        /\ a \in Nat \ {0} /\ b \in Nat \ {0} /\ i < 8 * a /\ j < 8 * b
    BY <1>1, <1>4, <1>8
  <2>3. ~ (l < m)
    <3> SUFFICES ASSUME l < m PROVE FALSE
      OBVIOUS
    <3>1. l - 3 < m - 3
      BY <1>1
    <3>2. 2 * a <= b
      BY <2>2, <3>1, PowLess
    <3> HIDE DEF a, b
    <3> QED
      BY <1>1, <2>1, <2>2, <3>2
  <2>4. ~ (m < l)
    <3> SUFFICES ASSUME m < l PROVE FALSE
      OBVIOUS
    <3>1. m - 3 < l - 3
      BY <1>1
    <3>2. 2 * b <= a
      BY <2>2, <3>1, PowLess
    <3> HIDE DEF a, b
    <3> QED
      BY <1>1, <2>1, <2>2, <3>2
  <2>5. l = m
    BY <1>1, <2>3, <2>4
  <2>6. i \div 8 = j \div 8
    BY <1>1, <2>1, <2>2, <2>5
  <2> QED
    BY <1>1, <2>1, <2>5, <2>6
<1> QED
  BY <1>5, <1>6, <1>7, <1>8

(* The halves of a block.                                                  *)
LEMMA Half ==
  ASSUME NEW l \in Layer, l # 0, NEW q \in Page
  PROVE  l - 1 \in Layer /\ ToIndex(l - 1, q) = ToIndex(l, q) \div 2
<1>1. l \in Nat /\ l - 1 \in 0..l /\ l - (l - 1) = 1
  BY LayerIs
<1>2. Pow2[1] = 2
  <2>1. Pow2[0 + 1] = 2 * Pow2[0] /\ Pow2[0] = 1
    BY PowLaw
  <2> QED
    BY <2>1
<1> QED
  BY <1>1, <1>2, Nested, LayerIs

(* A block x is a pair of its first page and its layer here.               *)
Over(q, x) == ToIndex(x[2], q) = ToIndex(x[2], x[1])

LEMMA OverIs ==
  ASSUME NEW l \in Layer, NEW p \in Page, Begins(l, p), NEW q \in Page
  PROVE  q \in Pages(p, l) <=> Over(q, <<p, l>>)
BY BlockOfPage DEF Over

LEMMA PagesInside ==
  ASSUME NEW l \in Layer, NEW p \in Page, Begins(l, p)
  PROVE  Pages(p, l) \subseteq Page
BY BlockOfPage

(* What buddy_alloc cuts a block into: the block it hands out, and a       *)
(* right-hand half in each layer it goes down.                             *)
Piece(page, l) == <<ToPointer(l, ToIndex(l, page) + 1), l>>

LEMMA Pieces ==
  ASSUME NEW fit \in Layer, NEW source \in 0..fit, NEW page \in Page, Begins(source, page),
         NEW q \in Page
  PROVE  /\ \A l \in (source + 1)..fit :
              /\ l \in Layer /\ l - 1 \in Layer /\ l # 0
              /\ Over(q, Piece(page, l)) <=> ToIndex(l, q) = ToIndex(l, page) + 1
              /\ Over(q, Piece(page, l)) =>
                   /\ Over(q, <<page, source>>) /\ ~ Over(q, <<page, fit>>)
                   /\ \A m \in source..(l - 1) : ToIndex(m, q) = ToIndex(m, page)
                   /\ \A m \in (source + 1)..fit : m # l => ~ Over(q, Piece(page, m))
         /\ Over(q, <<page, fit>>) => Over(q, <<page, source>>)
         /\ Over(q, <<page, source>>) =>
              Over(q, <<page, fit>>) \/ \E l \in (source + 1)..fit : Over(q, Piece(page, l))
<1> DEFINE halves == (source + 1)..fit
<1>1. fit \in Nat /\ source \in Nat /\ source <= fit
  BY LayerIs
<1>2. ASSUME NEW l \in halves
      PROVE  /\ l \in Layer /\ l - 1 \in Layer /\ l # 0 /\ l \in Nat /\ source \in 0..(l - 1)
             /\ ToIndex(l, page) % 2 = 0 /\ ToIndex(l, page) \in Nat /\ ToIndex(l, q) \in Nat
             /\ Over(q, Piece(page, l)) <=> ToIndex(l, q) = ToIndex(l, page) + 1
  <2>1. l \in 0..fit /\ l # 0 /\ l \in Nat /\ source \in 0..l /\ source < l /\ source \in 0..(l - 1)
    BY <1>1
  <2>2. l \in Layer /\ l - 1 \in Layer
    BY <2>1, LayerIs, Half
  <2>3. ToIndex(l, page) % 2 = 0 /\ ToIndex(l, page) + 1 \in Index(l)
    BY <2>1, <2>2, LeftDown
  <2>4. ToIndex(l, page) \in Nat /\ ToIndex(l, q) \in Nat
    BY <2>2, IndexIs DEF Index
  <2>5. Over(q, Piece(page, l)) <=> ToIndex(l, q) = ToIndex(l, page) + 1
    BY <2>2, <2>3, PointerIs DEF Over, Piece
  <2> QED
    BY <2>1, <2>2, <2>3, <2>4, <2>5
<1>3. ASSUME NEW l \in halves, Over(q, Piece(page, l)), NEW m \in source..(l - 1)
      PROVE  ToIndex(m, q) = ToIndex(m, page)
  <2>1. ToIndex(l, q) \div 2 = ToIndex(l, page) \div 2
    BY <1>2, <1>3
  <2>0. l \in Layer /\ l # 0 /\ l - 1 \in Layer /\ l \in Nat
    BY <1>2
  <2>2. ToIndex(l - 1, q) = ToIndex(l - 1, page)
    <3>1. ToIndex(l - 1, q) = ToIndex(l, q) \div 2
      BY <2>0, Half
    <3>2. ToIndex(l - 1, page) = ToIndex(l, page) \div 2
      BY <2>0, Half
    <3> QED
      BY <2>1, <3>1, <3>2
  <2>3. l - 1 \in Layer /\ m \in 0..(l - 1)
    BY <1>1, <2>0
  <2> QED
    BY <2>2, <2>3, SameAbove
<1>4. ASSUME NEW l \in halves, Over(q, Piece(page, l))
      PROVE  ToIndex(l, q) # ToIndex(l, page)
  BY <1>2, <1>4
<1>5. ASSUME NEW l \in halves, Over(q, Piece(page, l))
      PROVE  Over(q, <<page, source>>) /\ ~ Over(q, <<page, fit>>)
  <2>1. source \in source..(l - 1)
    BY <1>1, <1>2
  <2>2. Over(q, <<page, source>>)
    BY <1>3, <1>5, <2>1 DEF Over
  <2>3. l \in 0..fit
    BY <1>1
  <2>4. ~ Over(q, <<page, fit>>)
    BY <1>4, <1>5, <2>3, SameAbove DEF Over
  <2> QED
    BY <2>2, <2>4
<1>6. ASSUME NEW l \in halves, NEW m \in halves, m # l,
             Over(q, Piece(page, l)), Over(q, Piece(page, m))
      PROVE  FALSE
  <2>1. CASE m < l
    <3>1. m \in source..(l - 1)
      BY <1>1, <2>1
    <3> QED
      BY <1>3, <1>4, <1>6, <3>1
  <2>2. CASE l < m
    <3>1. l \in source..(m - 1)
      BY <1>1, <2>2
    <3> QED
      BY <1>3, <1>4, <1>6, <3>1
  <2> QED
    BY <1>1, <1>6, <2>1, <2>2
<1>7. Over(q, <<page, fit>>) => Over(q, <<page, source>>)
  BY SameAbove DEF Over
<1>8. ASSUME Over(q, <<page, source>>), ~ Over(q, <<page, fit>>)
      PROVE  \E l \in halves : Over(q, Piece(page, l))
  <2> DEFINE D == {l \in halves : ToIndex(l, q) # ToIndex(l, page)}
  <2>1. D \in SUBSET Nat /\ D \subseteq halves
    BY <1>2
  <2>2. source # fit /\ fit \in halves
    BY <1>1, <1>8
  <2>3. fit \in D
    BY <1>8, <2>2 DEF Over
  <2>4. \A l \in D : ToIndex(l, q) # ToIndex(l, page)
    OBVIOUS
  <2>5. \A l \in halves : l \notin D => ToIndex(l, q) = ToIndex(l, page)
    OBVIOUS
  <2> HIDE DEF D
  <2>6. PICK n \in D : \A m \in D : n <= m
    BY <2>1, <2>3, SmallestNumber
  <2>7. n \in halves /\ n \in Nat /\ source + 1 <= n
    BY <1>1, <2>1, <2>6
  <2>8. ToIndex(n - 1, q) = ToIndex(n - 1, page)
    <3>1. CASE n - 1 = source
      BY <1>8, <3>1 DEF Over
    <3>2. CASE n - 1 # source
      <4>1. n - 1 \in halves /\ ~ (n <= n - 1)
        BY <1>1, <2>7, <3>2
      <4> QED
        BY <2>5, <2>6, <4>1
    <3> QED
      BY <3>1, <3>2
  <2>9. ToIndex(n, q) \div 2 = ToIndex(n, page) \div 2
    <3>1. n \in Layer /\ n # 0
      BY <1>2, <2>7
    <3>2. ToIndex(n - 1, q) = ToIndex(n, q) \div 2
      BY <3>1, Half
    <3>3. ToIndex(n - 1, page) = ToIndex(n, page) \div 2
      BY <3>1, Half
    <3> QED
      BY <2>8, <3>2, <3>3
  <2>10. ToIndex(n, q) = ToIndex(n, page) + 1
    <3>1. /\ ToIndex(n, page) % 2 = 0 /\ ToIndex(n, page) \in Nat /\ ToIndex(n, q) \in Nat
          /\ ToIndex(n, q) # ToIndex(n, page)
      BY <1>2, <2>4, <2>6, <2>7
    <3> QED
      BY <2>9, <3>1
  <2> QED
    BY <1>2, <2>7, <2>10
<1> HIDE DEF halves
<1> QED
  BY <1>2, <1>3, <1>5, <1>6, <1>7, <1>8 DEF halves

(* As long as no right-hand half was freed, the blocks that are free or    *)
(* handed out tile the pool; a bit that is 0 belongs to the left-hand half *)
(* that such a block is, and no bit below a block is 0, so that            *)
(* buddy_free finds the layer of what it is given.                         *)
Handed == {<<b.page, b.layer>> : b \in live}
Blocks == Handed \union FreeBlocks

Tiles ==
  /\ \A x, y \in Blocks : \A q \in Page : Over(q, x) /\ Over(q, y) => x = y
  /\ \A q \in Page : \E x \in Blocks : Over(q, x)

NoneTwice ==
  /\ \A b, c \in live : b # c => <<b.page, b.layer>> # <<c.page, c.layer>>
  /\ Handed \cap FreeBlocks = {}
  /\ \A l \in Layer : \A i, j \in 1..Len(freelist[l]) :
       freelist[l][i] = freelist[l][j] => i = j

Bits ==
  /\ \A l \in Layer \ {0} : \A i \in Index(l) : i % 2 = 1 => Get(l, i)
  /\ \A x \in Blocks : ToIndex(x[2], x[1]) % 2 = 0 => ~ Get(x[2], ToIndex(x[2], x[1]))
  /\ \A x \in Blocks : \A q \in Page : Over(q, x) =>
       \A k \in Layer : x[2] < k => Get(k, ToIndex(k, q))

Tiled == ~ rightFreed => Tiles /\ NoneTwice /\ Bits

(* Every block has a cell in the bitmap, as it was counted.                *)
BitsFit == Cells \subseteq (0..(BitmapSize - 1)) \X (0..7)

LEMMA FreeIs ==
  ASSUME NEW l \in Layer, NEW p
  PROVE  <<p, l>> \in FreeBlocks <=> p \in ToSet(freelist[l])
BY DEF FreeBlocks

LEMMA BlocksAre ==
  ASSUME BuddyInv, NEW x \in Blocks
  PROVE  /\ x = <<x[1], x[2]>> /\ x[1] \in Page /\ x[2] \in Layer /\ Begins(x[2], x[1])
         /\ Over(x[1], x)
<1>1. CASE x \in Handed
  <2>1. PICK b \in live : x = <<b.page, b.layer>>
    BY <1>1 DEF Handed
  <2>2. b.page \in Page /\ b.layer \in Layer /\ Begins(b.layer, b.page)
    BY DEF BuddyInv, BuddyTypeOK
  <2> QED
    BY <2>1, <2>2 DEF Over
<1>2. CASE x \in FreeBlocks
  <2>1. PICK l \in Layer : x \in ToSet(freelist[l]) \X {l}
    BY <1>2 DEF FreeBlocks
  <2>2. x = <<x[1], x[2]>> /\ x[2] = l /\ x[1] \in ToSet(freelist[l])
    BY <2>1
  <2>3. freelist[l] \in Seq(Page) /\ Begins(l, x[1])
    BY <2>2 DEF BuddyInv, BuddyTypeOK
  <2>4. x[1] \in Page
    BY <2>2, <2>3 DEF ToSet
  <2> QED
    BY <2>2, <2>3, <2>4 DEF Over
<1> QED
  BY <1>1, <1>2 DEF Blocks

LEMMA TilesTile ==
  ASSUME BuddyInv, Tiled
  PROVE  Tiling
<1> SUFFICES ASSUME ~ rightFreed, NEW p \in Page
             PROVE  Cardinality({b \in live : p \in Held(b)})
                      + Cardinality({f \in FreeBlocks : p \in Pages(f[1], f[2])}) = 1
  BY DEF Tiling
<1> DEFINE L == {b \in live : p \in Held(b)}
           F == {f \in FreeBlocks : p \in Pages(f[1], f[2])}
<1>1. Tiles /\ NoneTwice
  BY DEF Tiled
<1>2. \A b \in live : /\ <<b.page, b.layer>> \in Blocks /\ <<b.page, b.layer>> \in Handed
                      /\ p \in Held(b) <=> Over(p, <<b.page, b.layer>>)
  <2> SUFFICES ASSUME NEW b \in live
               PROVE  /\ <<b.page, b.layer>> \in Blocks /\ <<b.page, b.layer>> \in Handed
                      /\ p \in Held(b) <=> Over(p, <<b.page, b.layer>>)
    OBVIOUS
  <2>1. b.page \in Page /\ b.layer \in Layer /\ Begins(b.layer, b.page)
    BY DEF BuddyInv, BuddyTypeOK
  <2> QED
    BY <2>1, OverIs DEF Held, Blocks, Handed
<1>3. \A f \in FreeBlocks : f \in Blocks /\ (p \in Pages(f[1], f[2]) <=> Over(p, f))
  <2> SUFFICES ASSUME NEW f \in FreeBlocks
               PROVE  f \in Blocks /\ (p \in Pages(f[1], f[2]) <=> Over(p, f))
    OBVIOUS
  <2>1. f \in Blocks
    BY DEF Blocks
  <2>2. f = <<f[1], f[2]>> /\ f[1] \in Page /\ f[2] \in Layer /\ Begins(f[2], f[1])
    BY <2>1, BlocksAre
  <2>3. p \in Pages(f[1], f[2]) <=> Over(p, <<f[1], f[2]>>)
    BY <2>2, OverIs
  <2> QED
    BY <2>1, <2>2, <2>3
<1>4. PICK x \in Blocks : Over(p, x)
  BY <1>1 DEF Tiles
<1>5. \A y \in Blocks : Over(p, y) => y = x
  BY <1>1, <1>4 DEF Tiles
<1>6. CASE x \in Handed
  <2>1. PICK b \in live : x = <<b.page, b.layer>>
    BY <1>6 DEF Handed
  <2>2. L = {b}
    BY <1>1, <1>2, <1>4, <1>5, <2>1 DEF NoneTwice
  <2>3. F = {}
    BY <1>1, <1>3, <1>5, <1>6 DEF NoneTwice
  <2> HIDE DEF L, F
  <2>4. Cardinality(L) = 1 /\ Cardinality(F) = 0
    BY <2>2, <2>3, FS_Singleton, FS_EmptySet
  <2>5. Cardinality(L) + Cardinality(F) = 1
    BY <2>4
  <2> QED
    BY <2>5 DEF L, F
<1>7. CASE x \in FreeBlocks
  <2>1. L = {}
    BY <1>1, <1>2, <1>5, <1>7 DEF NoneTwice
  <2>2. F = {x}
    BY <1>3, <1>4, <1>5, <1>7
  <2> HIDE DEF L, F
  <2>3. Cardinality(L) = 0 /\ Cardinality(F) = 1
    BY <2>1, <2>2, FS_Singleton, FS_EmptySet
  <2>4. Cardinality(L) + Cardinality(F) = 1
    BY <2>3
  <2> QED
    BY <2>4 DEF L, F
<1> QED
  BY <1>6, <1>7 DEF Blocks

LEMMA InitTiled == ASSUME BitsFit, BuddyInit PROVE Tiled
<1>1. 0 \in Layer /\ 0 \in Page /\ ToIndex(0, 0) = 0 /\ \A q \in Page : ToIndex(0, q) = 0
  <2>1. 0 \in Layer /\ 0 \in Index(0) /\ Index(0) = {0}
    BY LayerIs, PowLaw DEF Index
  <2>2. 0 \in Page
    BY Sized DEF Page
  <2> QED
    BY <2>1, <2>2, IndexIs
<1>2. live = {} /\ freelist = [l \in Layer |-> IF l = 0 THEN <<0>> ELSE <<>>]
  BY DEF BuddyInit
<1>3. Handed = {} /\ FreeBlocks = {<<0, 0>>}
  BY <1>1, <1>2 DEF Handed, FreeBlocks, ToSet
<1>4. Tiles
  BY <1>1, <1>3 DEF Tiles, Blocks, Over
<1>5. NoneTwice
  BY <1>2, <1>3 DEF NoneTwice
<1>6. bitmap = ((0..(BitmapSize - 1)) \X (0..7)) \ {Cell(0, 0)}
  <2>1. PICK garbage \in SUBSET {c \in Cells : c[1] >= BitmapSize} :
          bitmap = (((0..(BitmapSize - 1)) \X (0..7)) \union garbage) \ {Cell(0, 0)}
    BY DEF BuddyInit
  <2>2. BitmapSize \in Int
    BY BuddyAssumption DEF BitmapSize
  <2>3. \A c \in Cells : ~ (c[1] >= BitmapSize)
    BY <2>2 DEF BitsFit
  <2> QED
    BY <2>1, <2>3
<1>7. ASSUME NEW l \in Layer, NEW i \in Index(l)
      PROVE  Get(l, i) <=> l # 0
  <2>1. Cell(l, i) \in (0..(BitmapSize - 1)) \X (0..7)
    BY DEF BitsFit, Cells
  <2>2. l = 0 => i = 0
    BY PowLaw DEF Index
  <2>3. 0 \in Index(0)
    BY PowLaw DEF Index
  <2> QED
    BY <1>1, <1>6, <2>1, <2>2, <2>3, CellOnce DEF Get
<1>8. Bits
  <2>1. \A q \in Page : \A k \in Layer : 0 < k => Get(k, ToIndex(k, q))
    BY <1>7, IndexIs
  <2>2. 0 \in Index(0)
    BY PowLaw DEF Index
  <2>3. ~ Get(0, 0)
    BY <1>1, <1>7, <2>2
  <2>4. \A l \in Layer \ {0} : \A i \in Index(l) : i % 2 = 1 => Get(l, i)
    BY <1>7
  <2>5. Blocks = {<<0, 0>>}
    BY <1>3 DEF Blocks
  <2> QED
    BY <1>1, <2>1, <2>3, <2>4, <2>5 DEF Bits
<1> QED
  BY <1>4, <1>5, <1>8 DEF Tiled

LEMMA MaxOf ==
  ASSUME NEW T \in SUBSET Nat, NEW n \in T, \A m \in T : m <= n
  PROVE  Max(T) = n
<1>1. Max(T) \in T /\ \A m \in T : m <= Max(T)
  BY MaxIs
<1>2. Max(T) <= n /\ n <= Max(T) /\ Max(T) \in Nat /\ n \in Nat
  BY <1>1
<1> QED
  BY <1>2

(* A list in which nothing is twice, without its first.                    *)
LEMMA PopOnce ==
  ASSUME NEW S, NEW s \in Seq(S), s # <<>>,
         \A i, j \in 1..Len(s) : s[i] = s[j] => i = j
  PROVE  /\ ToSet(Tail(s)) = ToSet(s) \ {Head(s)}
         /\ \A i, j \in 1..Len(Tail(s)) : Tail(s)[i] = Tail(s)[j] => i = j
<1>1. Len(s) \in Nat \ {0} /\ Len(Tail(s)) = Len(s) - 1 /\ Tail(s) \in Seq(S)
  BY PopSet
<1>2. Head(s) = s[1] /\ \A i \in 1..(Len(s) - 1) : Tail(s)[i] = s[i + 1]
  OBVIOUS
<1>3. \A i \in 1..(Len(s) - 1) : i + 1 \in 1..Len(s) /\ i + 1 # 1
  BY <1>1
<1>4. Head(s) \notin ToSet(Tail(s))
  <2>1. 1 \in 1..Len(s) /\ DOMAIN Tail(s) = 1..(Len(s) - 1)
    BY <1>1
  <2> QED
    BY <1>2, <1>3, <2>1 DEF ToSet
<1>5. ToSet(s) = {Head(s)} \union ToSet(Tail(s))
  BY PopSet
<1> QED
  BY <1>1, <1>2, <1>3, <1>4, <1>5

LEMMA PushOnce ==
  ASSUME NEW S, NEW s \in Seq(S), NEW x \in S, x \notin ToSet(s),
         \A i, j \in 1..Len(s) : s[i] = s[j] => i = j
  PROVE  \A i, j \in 1..Len(<<x>> \o s) : (<<x>> \o s)[i] = (<<x>> \o s)[j] => i = j
<1> DEFINE t == <<x>> \o s
<1>1. Len(s) \in Nat /\ Len(t) = Len(s) + 1 /\ t[1] = x
  OBVIOUS
<1>2. \A i \in 1..Len(t) : i # 1 => t[i] = s[i - 1] /\ i - 1 \in 1..Len(s)
  BY <1>1
<1>3. \A i \in 1..Len(s) : s[i] # x
  <2>1. DOMAIN s = 1..Len(s)
    OBVIOUS
  <2> QED
    BY <2>1 DEF ToSet
<1> HIDE DEF t
<1>4. ASSUME NEW i \in 1..Len(t), NEW j \in 1..Len(t), t[i] = t[j] PROVE i = j
  <2>1. CASE i = 1 \/ j = 1
    BY <1>1, <1>2, <1>3, <1>4, <2>1
  <2>2. CASE i # 1 /\ j # 1
    <3>1. s[i - 1] = s[j - 1] /\ i - 1 \in 1..Len(s) /\ j - 1 \in 1..Len(s)
      BY <1>2, <1>4, <2>2
    <3>2. i - 1 = j - 1
      BY <3>1
    <3> QED
      BY <1>1, <3>2
  <2> QED
    BY <2>1, <2>2
<1> QED
  BY <1>4 DEF t

LEMMA AllocTiled ==
  ASSUME BuddyInv, Tiled, NEW pages \in Sizes, Alloc(pages)
  PROVE  Tiled'
<1> DEFINE fit == BestFitLayer(pages)
           source == SourceLayer(fit)
           page == Given(pages)
           halves == (source + 1)..fit
           src == <<page, source>>
           own == <<page, fit>>
           new == [page |-> page, layer |-> fit, asked |-> pages]
           parts == {Piece(page, l) : l \in halves}
<1> SUFFICES ASSUME ~ rightFreed' PROVE Tiles' /\ NoneTwice' /\ Bits'
  BY DEF Tiled
<1>0. ~ rightFreed /\ Tiles /\ NoneTwice /\ Bits
  BY DEF Alloc, Tiled
<1>1. /\ fit \in Layer /\ source \in Layer /\ source \in 0..fit
      /\ page \in Page /\ page \in ToSet(freelist[source]) /\ freelist[source] # <<>>
      /\ Begins(source, page) /\ Begins(fit, page) /\ page = Head(freelist[source])
  BY GivenIs DEF Alloc, Given
<1>2. \A l \in (source + 1)..fit : freelist[l] = <<>>
  BY <1>1, SourceIs
<1>3. /\ bitmap' = (bitmap \union {Cell(l - 1, ToIndex(l - 1, page)) : l \in halves}
                           \union {Cell(l, ToIndex(l, page) + 1) : l \in halves})
                   \ {Cell(l, ToIndex(l, page)) : l \in halves \cap {fit}}
      /\ freelist' = [l \in Layer |->
            IF l = source THEN Tail(freelist[l])
            ELSE IF l \in halves THEN <<ToPointer(l, ToIndex(l, page) + 1)>> \o freelist[l]
            ELSE freelist[l]]
      /\ live' = live \union {new}
  BY DEF Alloc, Split
<1>4. \A l \in Layer : freelist[l] \in Seq(Page)
  BY DEF BuddyInv, BuddyTypeOK
<1>5. new.page = page /\ new.layer = fit
  OBVIOUS
<1> HIDE DEF fit, source, page, new
<1>6. fit \in Nat /\ source \in Nat /\ source <= fit
  <2>1. fit \in Nat /\ source \in Nat
    BY <1>1, LayerIs
  <2> QED
    BY <1>1, <2>1
<1>7. \A l \in halves :
        /\ l \in Layer /\ l \in Nat /\ l - 1 \in Layer /\ l # 0 /\ source < l /\ l # source
        /\ ToIndex(l, page) % 2 = 0 /\ ToIndex(l, page) \in Index(l)
        /\ ToIndex(l, page) + 1 \in Index(l) /\ ToIndex(l - 1, page) \in Index(l - 1)
        /\ ToIndex(l, page) \in Nat
  <2> SUFFICES ASSUME NEW l \in halves
               PROVE  /\ l \in Layer /\ l \in Nat /\ l - 1 \in Layer /\ l # 0 /\ source < l
                      /\ ToIndex(l, page) % 2 = 0 /\ ToIndex(l, page) \in Index(l)
                      /\ ToIndex(l, page) + 1 \in Index(l)
                      /\ ToIndex(l - 1, page) \in Index(l - 1)
                      /\ ToIndex(l, page) \in Nat
    BY <1>6
  <2>1. l \in Nat /\ l \in 0..fit /\ l # 0 /\ source < l /\ source \in 0..l
    BY <1>6
  <2>2. l \in Layer
    BY <1>1, <2>1, LayerIs
  <2>3. l - 1 \in Layer
    BY <2>1, <2>2, <1>1, Half
  <2>4. ToIndex(l, page) \in Index(l) /\ ToIndex(l - 1, page) \in Index(l - 1)
    BY <1>1, <2>2, <2>3, IndexIs
  <2> QED
    BY <1>1, <2>1, <2>2, <2>3, <2>4, LeftDown DEF Index
<1>8. \A q \in Page :
        /\ \A l \in halves :
              /\ Over(q, Piece(page, l)) <=> ToIndex(l, q) = ToIndex(l, page) + 1
              /\ Over(q, Piece(page, l)) =>
                   /\ Over(q, src) /\ ~ Over(q, own)
                   /\ \A m \in halves : m # l => ~ Over(q, Piece(page, m))
        /\ Over(q, own) => Over(q, src)
        /\ Over(q, src) => Over(q, own) \/ \E l \in halves : Over(q, Piece(page, l))
  BY <1>1, Pieces
<1>9. Handed' = Handed \union {own}
  BY <1>3, <1>5 DEF Handed
<1>10. ASSUME NEW l \in Layer
       PROVE  /\ l = source => ToSet(freelist'[l]) = ToSet(freelist[l]) \ {page}
              /\ l \in halves => ToSet(freelist'[l]) = {ToPointer(l, ToIndex(l, page) + 1)}
              /\ l # source /\ l \notin halves => freelist'[l] = freelist[l]
              /\ \A i, j \in 1..Len(freelist'[l]) : freelist'[l][i] = freelist'[l][j] => i = j
  <2>1. freelist[l] \in Seq(Page)
    BY <1>4
  <2>2. \A i, j \in 1..Len(freelist[l]) : freelist[l][i] = freelist[l][j] => i = j
    BY <1>0 DEF NoneTwice
  <2>3. CASE l = source
    <3>1. freelist'[l] = Tail(freelist[l]) /\ freelist[l] # <<>> /\ page = Head(freelist[l])
      BY <1>1, <1>3, <2>3
    <3> QED
      BY <1>7, <2>1, <2>2, <2>3, <3>1, PopOnce
  <2>4. CASE l \in halves
    <3> DEFINE x == ToPointer(l, ToIndex(l, page) + 1)
    <3>1. l # source /\ x \in Page
      BY <1>7, <2>4, PointerIs
    <3>2. freelist'[l] = <<x>> \o <<>>
      BY <1>2, <1>3, <2>4, <3>1
    <3> HIDE DEF x
    <3>3. <<x>> \o <<>> = <<x>>
      BY <3>1
    <3>4. ToSet(<<x>>) = {x}
      BY DEF ToSet
    <3>5. \A i, j \in 1..Len(<<x>>) : i = j
      OBVIOUS
    <3> QED
      BY <2>4, <3>1, <3>2, <3>3, <3>4, <3>5 DEF x
  <2>5. CASE l # source /\ l \notin halves
    BY <1>3, <2>2, <2>5
  <2> QED
    BY <2>3, <2>4, <2>5
<1>11. FreeBlocks' = (FreeBlocks \ {src}) \union parts
  <2>1. ASSUME NEW l \in Layer, NEW p
        PROVE  p \in ToSet(freelist'[l]) <=>
                 (p \in ToSet(freelist[l]) /\ <<p, l>> # src) \/ <<p, l>> \in parts
    <3>1. CASE l = source
      <4>1. <<p, l>> \notin parts
        BY <1>7, <3>1 DEF Piece
      <4> QED
        BY <1>10, <3>1, <4>1
    <3>2. CASE l \in halves
      <4>1. freelist[l] = <<>> /\ ToSet(freelist[l]) = {}
        BY <1>2, <3>2, NoneIn
      <4>2. <<p, l>> \in parts <=> p = ToPointer(l, ToIndex(l, page) + 1)
        BY <3>2 DEF Piece
      <4> QED
        BY <1>10, <3>2, <4>1, <4>2
    <3>3. CASE l # source /\ l \notin halves
      <4>1. <<p, l>> \notin parts /\ <<p, l>> # src
        BY <3>3 DEF Piece
      <4> QED
        BY <1>10, <3>3, <4>1
    <3> QED
      BY <3>1, <3>2, <3>3
  <2>2. FreeBlocks' = UNION {ToSet(freelist'[l]) \X {l} : l \in Layer}
    BY DEF FreeBlocks
  <2>3. FreeBlocks = UNION {ToSet(freelist[l]) \X {l} : l \in Layer}
    BY DEF FreeBlocks
  <2>4. \A x \in parts : x[2] \in Layer /\ x = <<x[1], x[2]>>
    BY <1>7 DEF Piece
  <2> HIDE DEF parts, src
  <2>5. \A x : x \in FreeBlocks' <=>
          \E l \in Layer : \E p \in ToSet(freelist'[l]) : x = <<p, l>>
    BY <2>2
  <2>6. \A x : x \in FreeBlocks <=>
          \E l \in Layer : \E p \in ToSet(freelist[l]) : x = <<p, l>>
    BY <2>3
  <2>7. FreeBlocks' \subseteq (FreeBlocks \ {src}) \union parts
    BY <2>1, <2>5, <2>6
  <2>8. (FreeBlocks \ {src}) \subseteq FreeBlocks'
    BY <2>1, <2>5, <2>6
  <2>9. parts \subseteq FreeBlocks'
    BY <2>1, <2>4, <2>5
  <2> QED
    BY <2>7, <2>8, <2>9
<1>12. src \in FreeBlocks /\ src \in Blocks
  BY <1>1, FreeIs DEF Blocks
<1>13. \A x \in Blocks : x # src => x \notin parts /\ x # own
  <2> SUFFICES ASSUME NEW x \in Blocks, x # src PROVE x \notin parts /\ x # own
    OBVIOUS
  <2>1. x[1] \in Page /\ Over(x[1], x)
    BY BlocksAre
  <2>2. ~ Over(x[1], src)
    BY <1>0, <1>12, <2>1 DEF Tiles
  <2> QED
    BY <1>8, <2>1, <2>2
<1>14. own \notin parts
  <2>1. Over(page, own)
    BY DEF Over
  <2> QED
    BY <1>1, <1>8, <2>1
<1>15. Blocks' = (Blocks \ {src}) \union {own} \union parts
  <2>1. src \notin Handed
    BY <1>0, <1>12 DEF NoneTwice
  <2> QED
    BY <1>9, <1>11, <2>1 DEF Blocks
<1>16. Tiles'
  <2>1. ASSUME NEW x \in Blocks', NEW y \in Blocks', NEW q \in Page, Over(q, x), Over(q, y)
        PROVE  x = y
    <3>1. x \in Blocks \ {src} \/ x = own \/ x \in parts
      BY <1>15
    <3>2. y \in Blocks \ {src} \/ y = own \/ y \in parts
      BY <1>15
    <3>3. \A z \in Blocks \ {src} : Over(q, z) => ~ Over(q, src)
      BY <1>0, <1>12 DEF Tiles
    <3>4. \A z \in parts : Over(q, z) => Over(q, src) /\ ~ Over(q, own)
      BY <1>8
    <3>5. \A z, w \in parts : Over(q, z) /\ Over(q, w) => z = w
      BY <1>8
    <3>6. Over(q, own) => Over(q, src)
      BY <1>8
    <3>7. \A z, w \in Blocks \ {src} : Over(q, z) /\ Over(q, w) => z = w
      BY <1>0 DEF Tiles
    <3> HIDE DEF parts, own, src
    <3> QED
      BY <2>1, <3>1, <3>2, <3>3, <3>4, <3>5, <3>6, <3>7
  <2>2. ASSUME NEW q \in Page PROVE \E x \in Blocks' : Over(q, x)
    <3>1. PICK x \in Blocks : Over(q, x)
      BY <1>0 DEF Tiles
    <3>2. CASE x = src
      BY <1>8, <1>15, <3>1, <3>2
    <3>3. CASE x # src
      BY <1>15, <3>1, <3>3
    <3> QED
      BY <3>2, <3>3
  <2>3. \A q, x : Over(q, x)' <=> Over(q, x)
    BY DEF Over
  <2> QED
    BY <2>1, <2>2 DEF Tiles, Over
<1>17. NoneTwice'
  <2>1. \A b \in live : <<b.page, b.layer>> \in Handed
    BY DEF Handed
  <2>2. own \notin Handed
    <3>1. ASSUME own \in Handed PROVE FALSE
      <4>1. own \in Blocks /\ own # src
        BY <1>0, <1>12, <3>1 DEF NoneTwice, Blocks
      <4> QED
        BY <1>13, <4>1
    <3> QED
      BY <3>1
  <2>3. ASSUME NEW b \in live', NEW c \in live', b # c
        PROVE  <<b.page, b.layer>> # <<c.page, c.layer>>
    BY <1>0, <1>3, <1>5, <2>1, <2>2, <2>3 DEF NoneTwice
  <2>4. Handed' \cap FreeBlocks' = {}
    <3>1. own \notin FreeBlocks \ {src}
      BY <1>13 DEF Blocks
    <3>2. Handed \cap parts = {}
      <4>1. ASSUME NEW x \in Handed, x \in parts PROVE FALSE
        <5>1. x \in Blocks /\ x # src
          BY <1>0, <1>12, <4>1 DEF NoneTwice, Blocks
        <5> QED
          BY <1>13, <4>1, <5>1
      <4> QED
        BY <4>1
    <3>3. Handed \cap FreeBlocks = {}
      BY <1>0 DEF NoneTwice
    <3> QED
      BY <1>9, <1>11, <1>14, <3>1, <3>2, <3>3
  <2> QED
    BY <1>10, <2>3, <2>4 DEF NoneTwice
<1>18. ASSUME NEW k \in Layer, NEW i \in Index(k)
       PROVE  /\ Get(k, i) /\ ~ (fit \in halves /\ k = fit /\ i = ToIndex(fit, page)) =>
                   Cell(k, i) \in bitmap'
              /\ Cell(k, i) \in bitmap' =>
                   Get(k, i) \/ \E l \in halves : \/ k = l - 1 /\ i = ToIndex(l - 1, page)
                                                  \/ k = l /\ i = ToIndex(l, page) + 1
  <2>1. ASSUME fit \in halves, Cell(k, i) = Cell(fit, ToIndex(fit, page))
        PROVE  k = fit /\ i = ToIndex(fit, page)
    BY <1>7, <2>1, CellOnce
  <2>2. ASSUME NEW l \in halves, Cell(k, i) = Cell(l - 1, ToIndex(l - 1, page))
        PROVE  k = l - 1 /\ i = ToIndex(l - 1, page)
    BY <1>7, <2>2, CellOnce
  <2>3. ASSUME NEW l \in halves, Cell(k, i) = Cell(l, ToIndex(l, page) + 1)
        PROVE  k = l /\ i = ToIndex(l, page) + 1
    BY <1>7, <2>3, CellOnce
  <2> HIDE DEF halves
  <2> QED
    BY <1>3, <2>1, <2>2, <2>3 DEF Get
<1>19. fit \in halves => Cell(fit, ToIndex(fit, page)) \notin bitmap'
  BY <1>3
<1>20. ASSUME NEW l \in Layer \ {0}, NEW i \in Index(l), i % 2 = 1
       PROVE  Cell(l, i) \in bitmap'
  <2>1. Get(l, i)
    BY <1>0, <1>20 DEF Bits
  <2>2. ~ (fit \in halves /\ l = fit /\ i = ToIndex(fit, page))
    BY <1>7, <1>20
  <2> QED
    BY <1>18, <2>1, <2>2
<1>21. ASSUME NEW x \in Blocks', ToIndex(x[2], x[1]) % 2 = 0
       PROVE  Cell(x[2], ToIndex(x[2], x[1])) \notin bitmap'
  <2>1. CASE x \in Blocks \ {src}
    <3> DEFINE k == x[2]
               i == ToIndex(x[2], x[1])
    <3>1. x[1] \in Page /\ k \in Layer /\ Over(x[1], x) /\ i \in Index(k)
      BY <2>1, BlocksAre, IndexIs
    <3>2. ~ Get(k, i)
      BY <1>0, <1>21, <2>1 DEF Bits
    <3>3. ~ Over(x[1], src)
      BY <1>0, <1>12, <2>1, <3>1 DEF Tiles
    <3>4. ASSUME NEW l \in halves, k = l - 1, i = ToIndex(l - 1, page) PROVE FALSE
      <4>1. Over(page, x)
        BY <3>4 DEF Over
      <4>2. Over(page, src)
        BY DEF Over
      <4> QED
        BY <1>0, <1>1, <1>12, <2>1, <4>1, <4>2 DEF Tiles
    <3>5. ASSUME NEW l \in halves, k = l, i = ToIndex(l, page) + 1 PROVE FALSE
      BY <1>8, <3>1, <3>3, <3>5
    <3> QED
      BY <1>18, <3>1, <3>2, <3>4, <3>5
  <2>2. CASE x = own
    <3>1. CASE fit \in halves
      BY <1>19, <2>2, <3>1
    <3>2. CASE fit \notin halves
      <4>1. halves = {} /\ own = src
        BY <1>6, <3>2
      <4>2. bitmap' \subseteq bitmap
        BY <1>3, <4>1
      <4>3. ~ Get(x[2], ToIndex(x[2], x[1]))
        BY <1>0, <1>12, <1>21, <2>2, <4>1 DEF Bits
      <4> QED
        BY <4>2, <4>3 DEF Get
    <3> QED
      BY <3>1, <3>2
  <2>3. CASE x \in parts
    <3>1. PICK l \in halves : x = Piece(page, l)
      BY <2>3
    <3>2. ToIndex(x[2], x[1]) = ToIndex(l, page) + 1
      BY <1>7, <3>1, PointerIs DEF Piece
    <3> QED
      BY <1>7, <1>21, <3>1, <3>2
  <2> QED
    BY <1>15, <2>1, <2>2, <2>3
<1>22. ASSUME NEW x \in Blocks', NEW q \in Page, Over(q, x), NEW k \in Layer, x[2] < k
       PROVE  Cell(k, ToIndex(k, q)) \in bitmap'
  <2>0. ToIndex(k, q) \in Index(k) /\ k \in Nat
    BY IndexIs, LayerIs
  <2>4. \A y \in Blocks : Over(q, y) /\ y[2] < k => Get(k, ToIndex(k, q))
    BY <1>0 DEF Bits
  <2>1. CASE x \in Blocks \ {src}
    <3>1. Get(k, ToIndex(k, q))
      BY <1>22, <2>1, <2>4
    <3>2. ~ Over(q, src)
      BY <1>0, <1>12, <1>22, <2>1 DEF Tiles
    <3>3. ~ Over(q, own)
      BY <1>8, <3>2
    <3>4. ~ (k = fit /\ ToIndex(k, q) = ToIndex(fit, page))
      BY <3>3 DEF Over
    <3> QED
      BY <1>18, <2>0, <3>1, <3>4
  <2>2. CASE x = own
    <3>1. Over(q, src) /\ source < k /\ k # fit
      BY <1>6, <1>8, <1>22, <2>0, <2>2
    <3>2. Get(k, ToIndex(k, q))
      BY <1>12, <2>4, <3>1
    <3> QED
      BY <1>18, <2>0, <3>1, <3>2
  <2>3. CASE x \in parts
    <3>1. PICK l \in halves : x = Piece(page, l)
      BY <2>3
    <3>2. Over(q, src) /\ ~ Over(q, own) /\ source < l /\ l < k /\ l \in Nat
      BY <1>7, <1>8, <1>22, <3>1 DEF Piece
    <3>3. source < k
      BY <1>6, <2>0, <3>2
    <3>4. Get(k, ToIndex(k, q))
      BY <1>12, <2>4, <3>2, <3>3
    <3>5. ~ (k = fit /\ ToIndex(k, q) = ToIndex(fit, page))
      BY <3>2 DEF Over
    <3> QED
      BY <1>18, <2>0, <3>4, <3>5
  <2> QED
    BY <1>15, <2>1, <2>2, <2>3
<1>23. Bits'
  BY <1>20, <1>21, <1>22 DEF Bits, Get, Over
<1> QED
  BY <1>16, <1>17, <1>23

LEMMA FreeTiled ==
  ASSUME BuddyInv, Tiled, NEW b \in live, Free(b)
  PROVE  Tiled'
<1> DEFINE page == b.page
           layer == b.layer
           start == StartLayer(page)
           top == JoinedLayer(start, page)
           own == <<page, layer>>
           S == {l \in Layer : l = 0 \/ ~ Get(l, ToIndex(l, page))}
           T == {l \in 0..start : l = 0 \/ Get(l, Sibling(ToIndex(l, page)))}
<1> SUFFICES ASSUME ~ rightFreed' PROVE Tiles' /\ NoneTwice' /\ Bits'
  BY DEF Tiled
<1>1. page \in Page /\ layer \in Layer /\ Begins(layer, page)
  BY DEF BuddyInv, BuddyTypeOK
<1>2. /\ ~ rightFreed /\ Tiles /\ NoneTwice /\ Bits
      /\ ToIndex(layer, page) % 2 # 1
  BY DEF Free, Tiled
<1>3. ToIndex(layer, page) \in Index(layer) /\ ToIndex(layer, page) \in Nat
  BY <1>1, IndexIs DEF Index
<1>4. ToIndex(layer, page) % 2 = 0
  BY <1>2, <1>3
<1>5. own \in Handed /\ own \in Blocks /\ Over(page, own)
  BY DEF Handed, Blocks, Over
<1>6. ~ Get(layer, ToIndex(layer, page))
  BY <1>2, <1>4, <1>5 DEF Bits
<1>7. start = layer
  <2>1. S \in SUBSET Nat /\ layer \in S
    BY <1>1, <1>6, LayerIs
  <2>2. ASSUME NEW l \in S PROVE l <= layer
    <3>0. l \in Layer /\ l \in Nat /\ layer \in Nat
      BY <1>1, LayerIs
    <3> SUFFICES ASSUME layer < l PROVE FALSE
      <4> HIDE DEF layer
      <4> QED
        BY <3>0
    <3>1. l \in Layer /\ l # 0
      <4> HIDE DEF layer
      <4> QED
        BY <3>0
    <3>2. Get(l, ToIndex(l, page))
      BY <1>1, <1>2, <1>5, <3>1 DEF Bits
    <3> QED
      BY <3>1, <3>2
  <2>3. start = Max(S)
    BY DEF StartLayer
  <2> HIDE DEF S, start
  <2> QED
    BY <2>1, <2>2, <2>3, MaxOf
<1>8. top = layer
  <2>0. start \in Nat
    BY <1>1, <1>7, LayerIs
  <2>1. top = Max(T)
    BY DEF JoinedLayer
  <2> HIDE DEF start, top
  <2>2. start \in 0..start
    BY <2>0
  <2>3. start = 0 \/ Get(start, Sibling(ToIndex(start, page)))
    <3> SUFFICES ASSUME layer # 0 PROVE Get(layer, Sibling(ToIndex(layer, page)))
      BY <1>7
    <3>1. Sibling(ToIndex(layer, page)) \in Index(layer)
      BY <1>1, <1>3, SiblingIs
    <3>2. Sibling(ToIndex(layer, page)) % 2 = 1
      BY <1>3, <1>4 DEF Sibling
    <3> QED
      BY <1>1, <1>2, <3>1, <3>2 DEF Bits
  <2>4. T \in SUBSET Nat /\ start \in T /\ \A m \in T : m <= start
    BY <2>0, <2>2, <2>3
  <2> HIDE DEF T
  <2> QED
    BY <1>7, <2>1, <2>4, MaxOf
<1>9. ToPointer(layer, ToIndex(layer, page)) = page
  BY <1>1 DEF Begins
<1>10. /\ live' = live \ {b}
       /\ bitmap' = (bitmap \union
             UNION {{Cell(l, ToIndex(l, page)), Cell(l, Sibling(ToIndex(l, page)))} :
                      l \in (layer + 1)..layer}) \ {Cell(layer, ToIndex(layer, page))}
       /\ freelist' = [freelist EXCEPT ![layer] = <<page>> \o @]
  BY <1>7, <1>8, <1>9 DEF Free
<1> HIDE DEF page, layer, start, top
<1>11. bitmap' = bitmap
  <2>1. (layer + 1)..layer = {}
    BY <1>1, LayerIs
  <2>2. Cell(layer, ToIndex(layer, page)) \notin bitmap
    BY <1>6 DEF Get
  <2> QED
    BY <1>10, <2>1, <2>2
<1>12. Handed' = Handed \ {own}
  <2>1. \A c \in live : c # b => <<c.page, c.layer>> # own
    BY <1>2 DEF NoneTwice, page, layer
  <2>2. own = <<b.page, b.layer>>
    BY DEF page, layer
  <2> HIDE DEF own
  <2> QED
    BY <1>10, <2>1, <2>2 DEF Handed
<1>13. own \notin FreeBlocks
  BY <1>2, <1>5 DEF NoneTwice
<1>14. ASSUME NEW l \in Layer
       PROVE  /\ l # layer => freelist'[l] = freelist[l]
              /\ l = layer => ToSet(freelist'[l]) = {page} \union ToSet(freelist[l])
              /\ \A i, j \in 1..Len(freelist'[l]) : freelist'[l][i] = freelist'[l][j] => i = j
  <2>1. freelist[l] \in Seq(Page) /\ freelist \in [Layer -> Seq(Page)]
    BY DEF BuddyInv, BuddyTypeOK
  <2>2. \A i, j \in 1..Len(freelist[l]) : freelist[l][i] = freelist[l][j] => i = j
    BY <1>2 DEF NoneTwice
  <2>3. CASE l = layer
    <3>1. page \notin ToSet(freelist[l])
      BY <1>13, <2>3, FreeIs
    <3>2. freelist'[l] = <<page>> \o freelist[l]
      BY <1>10, <2>1, <2>3
    <3>3. ToSet(<<page>> \o freelist[l]) = {page} \union ToSet(freelist[l])
      BY <1>1, <2>1, PushSet
    <3>4. \A i, j \in 1..Len(<<page>> \o freelist[l]) :
            (<<page>> \o freelist[l])[i] = (<<page>> \o freelist[l])[j] => i = j
      BY <1>1, <2>1, <2>2, <3>1, PushOnce
    <3> QED
      BY <2>3, <3>2, <3>3, <3>4
  <2>4. CASE l # layer
    BY <1>10, <2>1, <2>2, <2>4
  <2> QED
    BY <2>3, <2>4
<1>15. FreeBlocks' = FreeBlocks \union {own}
  <2>1. FreeBlocks' = UNION {ToSet(freelist'[l]) \X {l} : l \in Layer}
    BY DEF FreeBlocks
  <2>2. FreeBlocks = UNION {ToSet(freelist[l]) \X {l} : l \in Layer}
    BY DEF FreeBlocks
  <2>3. \A x : x \in FreeBlocks' <=>
          \E l \in Layer : \E p \in ToSet(freelist'[l]) : x = <<p, l>>
    BY <2>1
  <2>4. \A x : x \in FreeBlocks <=>
          \E l \in Layer : \E p \in ToSet(freelist[l]) : x = <<p, l>>
    BY <2>2
  <2>5. \A l \in Layer : \A p : p \in ToSet(freelist'[l]) <=>
          p \in ToSet(freelist[l]) \/ <<p, l>> = own
    BY <1>14
  <2>6. FreeBlocks' \subseteq FreeBlocks \union {own}
    BY <2>3, <2>4, <2>5
  <2>7. FreeBlocks \subseteq FreeBlocks'
    BY <2>3, <2>4, <2>5
  <2>8. own \in FreeBlocks'
    BY <1>1, <2>3, <2>5
  <2> QED
    BY <2>6, <2>7, <2>8
<1>16. Blocks' = Blocks
  BY <1>5, <1>12, <1>15 DEF Blocks
<1>17. Tiles' /\ Bits'
  BY <1>2, <1>11, <1>16 DEF Tiles, Bits, Over, Get
<1>18. NoneTwice'
  <2>1. Handed' \cap FreeBlocks' = {}
    BY <1>2, <1>12, <1>15 DEF NoneTwice
  <2>2. \A c, d \in live' : c # d => <<c.page, c.layer>> # <<d.page, d.layer>>
    BY <1>2, <1>10 DEF NoneTwice
  <2> QED
    BY <1>14, <2>1, <2>2 DEF NoneTwice
<1> QED
  BY <1>17, <1>18

(* A block that holds a power of two of pages is as large.                 *)
LEMMA FitIs ==
  ASSUME NEW k \in Nat, BestFitLayer(Pow2[k]) \in Layer
  PROVE  BlockSize(BestFitLayer(Pow2[k])) = Min({Pow2[k], RootBlockSize})
<1> DEFINE quotient == RootBlockSize \div Pow2[k]
           fit == Log2Upper(quotient)
<1>1. BestFitLayer(Pow2[k]) = fit
  BY DEF BestFitLayer
<1>2. Log \in Nat /\ RootBlockSize = Pow2[Log] /\ Pow2[k] \in Nat \ {0} /\ Pow2[Log] \in Nat \ {0}
  BY Sized, PowLaw
<1>3. Min({Pow2[k], RootBlockSize}) \in {Pow2[k], RootBlockSize}
      /\ Min({Pow2[k], RootBlockSize}) <= Pow2[k]
      /\ Min({Pow2[k], RootBlockSize}) <= RootBlockSize
  <2>1. {Pow2[k], RootBlockSize} \in SUBSET Nat
    BY <1>2
  <2> QED
    BY <2>1, MinIs
<1>4. CASE k <= Log
  <2>1. Log - k \in Nat /\ Pow2[k] * Pow2[Log - k] = Pow2[Log]
    <3>1. Log - k \in Nat /\ k + (Log - k) = Log
      BY <1>2, <1>4
    <3>2. Pow2[k + (Log - k)] = Pow2[k] * Pow2[Log - k]
      BY <3>1, PowSum
    <3> QED
      BY <3>1, <3>2
  <2>2. quotient = Pow2[Log - k]
    <3> DEFINE a == Pow2[k]
               q == Pow2[Log - k]
    <3>1. a \in Nat \ {0} /\ q \in Nat /\ RootBlockSize \in Nat /\ RootBlockSize = a * q
      BY <1>2, <2>1, PowLaw
    <3> HIDE DEF a, q
    <3>2. RootBlockSize \div a = q
      BY <3>1, DivIs
    <3> QED
      BY <3>2 DEF a, q
  <2> DEFINE Q == {p \in 0..quotient : Pow2[p] >= quotient}
  <2>3. Q \in SUBSET Nat /\ Log - k \in Q /\ \A p \in Q : Log - k <= p
    <3>1. Log - k < quotient /\ quotient \in Nat
      BY <2>1, <2>2, PowBig, PowLaw
    <3>2. ASSUME NEW p \in Nat, Pow2[p] >= quotient PROVE Log - k <= p
      <4>1. Pow2[Log - k] <= Pow2[p]
        BY <2>1, <2>2, <3>2, PowLaw
      <4> QED
        BY <2>1, <4>1, PowLess
    <3> HIDE DEF quotient
    <3> QED
      BY <2>1, <2>2, <3>1, <3>2
  <2>4. fit = Log - k
    <3>1. fit = Min(Q)
      BY DEF Log2Upper
    <3>2. Min(Q) \in Q /\ \A p \in Q : Min(Q) <= p
      <4> HIDE DEF Q
      <4> QED
        BY <2>3, MinIs
    <3> HIDE DEF Q, fit
    <3>3. fit <= Log - k /\ Log - k <= fit /\ fit \in Nat
      BY <2>3, <3>1, <3>2
    <3> QED
      BY <2>1, <3>3
  <2> HIDE DEF fit
  <2>5. BlockSize(fit) = Pow2[Log - fit] /\ Log - fit = k
    BY <1>1, <1>2, <2>1, <2>4, BlockSizeIs
  <2>6. Pow2[k] <= RootBlockSize
    BY <1>2, <1>4, PowLess
  <2> QED
    BY <1>1, <1>2, <1>3, <2>5, <2>6
<1>5. CASE ~ (k <= Log)
  <2>1. Pow2[Log] < Pow2[k]
    <3>1. Log < k
      BY <1>2, <1>5
    <3>2. 2 * Pow2[Log] <= Pow2[k]
      BY <1>2, <3>1, PowLess
    <3> QED
      BY <1>2, <3>2
  <2>2. quotient = 0
    BY <1>2, <2>1, DivIs
  <2>3. fit = 0
    <3> DEFINE Q == {p \in 0..0 : Pow2[p] >= 0}
    <3>1. Q = {0}
      BY PowLaw
    <3>2. fit = Min(Q)
      BY <2>2 DEF Log2Upper
    <3>3. Min({0}) = 0
      BY MinIs
    <3> HIDE DEF Q, fit
    <3> QED
      BY <3>1, <3>2, <3>3
  <2> HIDE DEF fit
  <2>4. BlockSize(fit) = RootBlockSize
    <3>1. BlockSize(0) = Pow2[Log - 0] /\ Log - 0 = Log
      BY <1>2, LayerIs, BlockSizeIs
    <3> QED
      BY <1>2, <2>3, <3>1
  <2> QED
    BY <1>1, <1>2, <1>3, <2>1, <2>4
<1> QED
  BY <1>4, <1>5

LEMMA RoomEnough == ASSUME BuddyInv PROVE EnoughRoom
<1> SUFFICES ASSUME NEW b \in live, NEW k \in 0..b.asked, b.asked = Pow2[k]
             PROVE  Cardinality(Held(b)) = Min({b.asked, RootBlockSize})
  BY DEF EnoughRoom
<1>1. /\ b.page \in Page /\ b.layer \in Layer /\ b.asked \in Sizes
      /\ b.layer = BestFitLayer(b.asked)
  BY DEF BuddyInv, BuddyTypeOK
<1>2. k \in Nat
  BY <1>1, BuddyAssumption
<1>3. BlockSize(b.layer) = Min({b.asked, RootBlockSize})
  BY <1>1, <1>2, FitIs
<1>4. BlockSize(b.layer) \in Nat \ {0} /\ b.page \in Nat
  BY <1>1, BlockSizeIs, Sized DEF Page
<1>5. Cardinality(b.page..(b.page + BlockSize(b.layer) - 1)) = BlockSize(b.layer)
  <2> DEFINE end == b.page + BlockSize(b.layer) - 1
  <2>1. end \in Int /\ b.page \in Int /\ b.page <= end /\ end - b.page + 1 = BlockSize(b.layer)
    BY <1>4
  <2> HIDE DEF end
  <2>2. Cardinality(b.page..end) = end - b.page + 1
    BY <2>1, FS_Interval
  <2> QED
    BY <2>1, <2>2 DEF end
<1> QED
  BY <1>3, <1>5 DEF Held, Pages

-----------------------------------------------------------------------------
(* The memory that the functions of slab.c work on.  What they do to the   *)
(* links of the headers matters only where both links of a header become   *)
(* null: that is a cache alone in its slab.                                *)
Mem == [id : Slab, slab : SlabHeader, heads : [Page -> Header \union {None}],
        disordered : BOOLEAN, broken : BOOLEAN]

Lone(h) == h.prev = None /\ h.next = None

SameBut(h, g) ==
  /\ g.slab = h.slab /\ g.root = h.root
  /\ Lone(g) => Lone(h)

Relinked(m, n) ==
  /\ n \in Mem /\ n.id = m.id
  /\ \A d \in Page :
       /\ n.heads[d] = None <=> m.heads[d] = None
       /\ m.heads[d] # None =>
            /\ SameBut(m.heads[d], n.heads[d])
            /\ n.heads[d].count = m.heads[d].count
            /\ n.heads[d].recycled = m.heads[d].recycled
            /\ n.heads[d].fresh = m.heads[d].fresh

LEMMA HeadIs ==
  ASSUME NEW m \in Mem, NEW d \in Page, m.heads[d] # None
  PROVE  m.heads[d] \in Header
BY DEF Mem

LEMMA HoldsIs ==
  ASSUME NEW m \in Mem, NEW d \in Link, Holds(m, d)
  PROVE  d \in Page /\ m.heads[d] \in Header /\ m.heads[d] # None /\ m.heads[d].slab = m.id
BY HeadIs DEF Holds, Link

LEMMA SetPrev ==
  ASSUME NEW m \in Mem, NEW p \in Page, m.heads[p] # None, NEW x \in Link
  PROVE  LET n == [m EXCEPT !.heads[p].prev = x] IN
         /\ n \in Mem /\ n.id = m.id /\ n.slab = m.slab /\ n.broken = m.broken
         /\ n.disordered = m.disordered
         /\ \A d \in Page : d # p => n.heads[d] = m.heads[d]
         /\ n.heads[p] \in Header
         /\ n.heads[p] = [m.heads[p] EXCEPT !.prev = x]
BY DEF Mem, Header

LEMMA SetNext ==
  ASSUME NEW m \in Mem, NEW p \in Page, m.heads[p] # None, NEW x \in Link
  PROVE  LET n == [m EXCEPT !.heads[p].next = x] IN
         /\ n \in Mem /\ n.id = m.id /\ n.slab = m.slab /\ n.broken = m.broken
         /\ n.disordered = m.disordered
         /\ \A d \in Page : d # p => n.heads[d] = m.heads[d]
         /\ n.heads[p] \in Header
         /\ n.heads[p] = [m.heads[p] EXCEPT !.next = x]
BY DEF Mem, Header

(* The same, with the update as an operator.                               *)
NextSet(m, p, x) == [m EXCEPT !.heads[p].next = x]

LEMMA NextIs ==
  ASSUME NEW m \in Mem, NEW p \in Page, m.heads[p] # None, NEW x \in Link
  PROVE  /\ NextSet(m, p, x) \in Mem /\ NextSet(m, p, x).id = m.id /\ NextSet(m, p, x).slab = m.slab
         /\ NextSet(m, p, x).broken = m.broken /\ NextSet(m, p, x).disordered = m.disordered
         /\ \A d \in Page : d # p => NextSet(m, p, x).heads[d] = m.heads[d]
         /\ NextSet(m, p, x).heads[p] \in Header
         /\ NextSet(m, p, x).heads[p] = [m.heads[p] EXCEPT !.next = x]
BY SetNext DEF NextSet

LEMMA NoneIsNoHeader == ASSUME NEW h \in Header PROVE h # None
BY SlabAssumption

LEMMA RelinkPrev ==
  ASSUME NEW m \in Mem, NEW p \in Page, m.heads[p] # None, NEW x \in Link,
         x # None \/ m.heads[p].next # None
  PROVE  Relinked(m, [m EXCEPT !.heads[p].prev = x])
<1> DEFINE n == [m EXCEPT !.heads[p].prev = x]
<1>1. /\ n \in Mem /\ n.id = m.id
      /\ \A d \in Page : d # p => n.heads[d] = m.heads[d]
      /\ n.heads[p] \in Header /\ n.heads[p] = [m.heads[p] EXCEPT !.prev = x]
  BY SetPrev
<1>2. m.heads[p] \in Header
  BY HeadIs
<1> HIDE DEF n
<1>3. /\ n.heads[p].prev = x /\ n.heads[p].next = m.heads[p].next
      /\ n.heads[p].slab = m.heads[p].slab /\ n.heads[p].root = m.heads[p].root
      /\ n.heads[p].count = m.heads[p].count
      /\ n.heads[p].recycled = m.heads[p].recycled /\ n.heads[p].fresh = m.heads[p].fresh
  BY <1>1, <1>2 DEF Header
<1>4. n.heads[p] # None
  BY <1>1, NoneIsNoHeader
<1>5. Relinked(m, n)
  BY <1>1, <1>3, <1>4 DEF Relinked, SameBut, Lone
<1> QED
  BY <1>5 DEF n

LEMMA RelinkNext ==
  ASSUME NEW m \in Mem, NEW p \in Page, m.heads[p] # None, NEW x \in Link,
         x # None \/ m.heads[p].prev # None
  PROVE  Relinked(m, [m EXCEPT !.heads[p].next = x])
<1> DEFINE n == [m EXCEPT !.heads[p].next = x]
<1>1. /\ n \in Mem /\ n.id = m.id
      /\ \A d \in Page : d # p => n.heads[d] = m.heads[d]
      /\ n.heads[p] \in Header /\ n.heads[p] = [m.heads[p] EXCEPT !.next = x]
  BY SetNext
<1>2. m.heads[p] \in Header
  BY HeadIs
<1> HIDE DEF n
<1>3. /\ n.heads[p].next = x /\ n.heads[p].prev = m.heads[p].prev
      /\ n.heads[p].slab = m.heads[p].slab /\ n.heads[p].root = m.heads[p].root
      /\ n.heads[p].count = m.heads[p].count
      /\ n.heads[p].recycled = m.heads[p].recycled /\ n.heads[p].fresh = m.heads[p].fresh
  BY <1>1, <1>2 DEF Header
<1>4. n.heads[p] # None
  BY <1>1, NoneIsNoHeader
<1>5. Relinked(m, n)
  BY <1>1, <1>3, <1>4 DEF Relinked, SameBut, Lone
<1> QED
  BY <1>5 DEF n

LEMMA RelinkTrans ==
  ASSUME NEW l, NEW m, NEW n, Relinked(l, m), Relinked(m, n)
  PROVE  Relinked(l, n)
BY DEF Relinked, SameBut

LEMMA RelinkSelf == ASSUME NEW m \in Mem PROVE Relinked(m, m)
BY DEF Relinked, SameBut

LEMMA RelinkFlag ==
  ASSUME NEW m \in Mem
  PROVE  Relinked(m, [m EXCEPT !.disordered = TRUE])
         /\ [m EXCEPT !.disordered = TRUE].slab = m.slab
         /\ [m EXCEPT !.disordered = TRUE].broken = m.broken
BY DEF Relinked, SameBut, Mem

LEMMA BrokenIs ==
  ASSUME NEW m \in Mem
  PROVE  LET n == [m EXCEPT !.broken = TRUE] IN
         /\ Relinked(m, n) /\ n.slab = m.slab /\ n.heads = m.heads
         /\ n.disordered = m.disordered /\ n.broken = TRUE
BY DEF Relinked, SameBut, Mem

LEMMA MoveUpIs ==
  ASSUME NEW m \in Mem, NEW c \in Page, m.heads[c] # None, Holds(m, m.heads[c].prev)
  PROVE  LET n == MoveUp(m, c) IN
         Relinked(m, n) /\ n.slab = m.slab /\ n.broken = m.broken /\ n.disordered
<1> DEFINE p == m.heads[c].prev
           x == m.heads[c].next
           m1 == [m EXCEPT !.heads[p].prev = c]
           m2 == [m1 EXCEPT !.heads[p].next = x]
           m3 == [m2 EXCEPT !.heads[c].next = p]
           m4 == [m3 EXCEPT !.heads[c].prev = c]
           m5 == [m4 EXCEPT !.disordered = TRUE]
<1>1. MoveUp(m, c) = m5
  BY DEF MoveUp
<1>2. m.heads[c] \in Header /\ p \in Link /\ x \in Link
  BY HeadIs DEF Header
<1>3. p \in Page /\ m.heads[p] # None /\ p # None /\ c # None /\ p \in Link /\ c \in Link
  BY <1>2, HoldsIs, SlabAssumption DEF Link
<1> HIDE DEF p, x
<1>4. m1 \in Mem /\ Relinked(m, m1) /\ m1.slab = m.slab /\ m1.broken = m.broken
      /\ m1.heads[p].prev = c /\ m1.heads[p] # None /\ m1.heads[c] # None
  <2>1. Relinked(m, m1)
    BY <1>3, RelinkPrev
  <2>2. m1.heads[p] = [m.heads[p] EXCEPT !.prev = c] /\ m1.slab = m.slab /\ m1.broken = m.broken
    <3>1. m1.slab = m.slab /\ m1.broken = m.broken
      BY <1>3, SetPrev
    <3>2. m1.heads[p] = [m.heads[p] EXCEPT !.prev = c]
      BY <1>3, SetPrev, ZenonT(60)
    <3> QED
      BY <3>1, <3>2
  <2>3. m.heads[p] \in Header
    BY <1>3, HeadIs
  <2> HIDE DEF m1
  <2>4. m1.heads[p].prev = c
    BY <2>2, <2>3 DEF Header
  <2> QED
    BY <1>3, <2>1, <2>2, <2>4 DEF Relinked
<1> HIDE DEF m1
<1>5. m2 \in Mem /\ Relinked(m1, m2) /\ m2.slab = m1.slab /\ m2.broken = m1.broken
      /\ m2.heads[c] # None
  <2>1. Relinked(m1, m2)
    BY <1>2, <1>3, <1>4, RelinkNext
  <2>2. m2.slab = m1.slab /\ m2.broken = m1.broken
    BY <1>2, <1>3, <1>4, SetNext
  <2> HIDE DEF m2
  <2> QED
    BY <1>4, <2>1, <2>2 DEF Relinked
<1> HIDE DEF m2
<1>6. m3 \in Mem /\ Relinked(m2, m3) /\ m3.slab = m2.slab /\ m3.broken = m2.broken
      /\ m3.heads[c] # None
  <2>1. Relinked(m2, m3)
    BY <1>3, <1>5, RelinkNext
  <2>2. m3.slab = m2.slab /\ m3.broken = m2.broken
    BY <1>3, <1>5, SetNext
  <2> HIDE DEF m3
  <2> QED
    BY <1>5, <2>1, <2>2 DEF Relinked
<1> HIDE DEF m3
<1>7. m4 \in Mem /\ Relinked(m3, m4) /\ m4.slab = m3.slab /\ m4.broken = m3.broken
  <2>1. Relinked(m3, m4)
    BY <1>3, <1>6, RelinkPrev
  <2>2. m4.slab = m3.slab /\ m4.broken = m3.broken
    BY <1>3, <1>6, SetPrev
  <2> HIDE DEF m4
  <2> QED
    BY <2>1, <2>2 DEF Relinked
<1> HIDE DEF m4
<1>8. Relinked(m4, m5) /\ m5.slab = m4.slab /\ m5.broken = m4.broken
  BY <1>7, RelinkFlag
<1>9. m5.disordered
  BY <1>7 DEF Mem
<1> HIDE DEF m5
<1>10. Relinked(m, m5)
  <2>1. Relinked(m, m2)
    BY <1>4, <1>5, RelinkTrans
  <2>2. Relinked(m, m3)
    BY <1>6, <2>1, RelinkTrans
  <2>3. Relinked(m, m4)
    BY <1>7, <2>2, RelinkTrans
  <2> QED
    BY <1>8, <2>3, RelinkTrans
<1> QED
  BY <1>1, <1>4, <1>5, <1>6, <1>7, <1>8, <1>9, <1>10

LEMMA MoveDownIs ==
  ASSUME NEW m \in Mem, NEW c \in Page, m.heads[c] # None, Holds(m, m.heads[c].next)
  PROVE  LET n == MoveDown(m, c) IN
         Relinked(m, n) /\ n.slab = m.slab /\ n.broken = m.broken /\ n.disordered
<1> DEFINE p == m.heads[c].next
           x == m.heads[c].prev
           m1 == [m EXCEPT !.heads[p].next = c]
           m2 == [m1 EXCEPT !.heads[p].prev = x]
           m3 == [m2 EXCEPT !.heads[c].prev = p]
           m4 == [m3 EXCEPT !.heads[c].next = c]
           m5 == [m4 EXCEPT !.disordered = TRUE]
<1>1. MoveDown(m, c) = m5
  BY DEF MoveDown
<1>2. m.heads[c] \in Header /\ p \in Link /\ x \in Link
  BY HeadIs DEF Header
<1>3. p \in Page /\ m.heads[p] # None /\ p # None /\ c # None /\ p \in Link /\ c \in Link
  BY <1>2, HoldsIs, SlabAssumption DEF Link
<1> HIDE DEF p, x
<1>4. m1 \in Mem /\ Relinked(m, m1) /\ m1.slab = m.slab /\ m1.broken = m.broken
      /\ m1.heads[p].next = c /\ m1.heads[p] # None /\ m1.heads[c] # None
  <2>1. Relinked(m, m1)
    BY <1>3, RelinkNext
  <2>2. m1.heads[p] = [m.heads[p] EXCEPT !.next = c] /\ m1.slab = m.slab /\ m1.broken = m.broken
    <3>1. m1.slab = m.slab /\ m1.broken = m.broken
      BY <1>3, SetNext
    <3>2. m1.heads[p] = [m.heads[p] EXCEPT !.next = c]
      BY <1>3, SetNext, ZenonT(60)
    <3> QED
      BY <3>1, <3>2
  <2>3. m.heads[p] \in Header
    BY <1>3, HeadIs
  <2> HIDE DEF m1
  <2>4. m1.heads[p].next = c
    BY <2>2, <2>3 DEF Header
  <2> QED
    BY <1>3, <2>1, <2>2, <2>4 DEF Relinked
<1> HIDE DEF m1
<1>5. m2 \in Mem /\ Relinked(m1, m2) /\ m2.slab = m1.slab /\ m2.broken = m1.broken
      /\ m2.heads[c] # None
  <2>1. Relinked(m1, m2)
    BY <1>2, <1>3, <1>4, RelinkPrev
  <2>2. m2.slab = m1.slab /\ m2.broken = m1.broken
    BY <1>2, <1>3, <1>4, SetPrev
  <2> HIDE DEF m2
  <2> QED
    BY <1>4, <2>1, <2>2 DEF Relinked
<1> HIDE DEF m2
<1>6. m3 \in Mem /\ Relinked(m2, m3) /\ m3.slab = m2.slab /\ m3.broken = m2.broken
      /\ m3.heads[c] # None
  <2>1. Relinked(m2, m3)
    BY <1>3, <1>5, RelinkPrev
  <2>2. m3.slab = m2.slab /\ m3.broken = m2.broken
    BY <1>3, <1>5, SetPrev
  <2> HIDE DEF m3
  <2> QED
    BY <1>5, <2>1, <2>2 DEF Relinked
<1> HIDE DEF m3
<1>7. m4 \in Mem /\ Relinked(m3, m4) /\ m4.slab = m3.slab /\ m4.broken = m3.broken
  <2>1. Relinked(m3, m4)
    BY <1>3, <1>6, RelinkNext
  <2>2. m4.slab = m3.slab /\ m4.broken = m3.broken
    BY <1>3, <1>6, SetNext
  <2> HIDE DEF m4
  <2> QED
    BY <2>1, <2>2 DEF Relinked
<1> HIDE DEF m4
<1>8. Relinked(m4, m5) /\ m5.slab = m4.slab /\ m5.broken = m4.broken
  BY <1>7, RelinkFlag
<1>9. m5.disordered
  BY <1>7 DEF Mem
<1> HIDE DEF m5
<1>10. Relinked(m, m5)
  <2>1. Relinked(m, m2)
    BY <1>4, <1>5, RelinkTrans
  <2>2. Relinked(m, m3)
    BY <1>6, <2>1, RelinkTrans
  <2>3. Relinked(m, m4)
    BY <1>7, <2>2, RelinkTrans
  <2> QED
    BY <1>8, <2>3, RelinkTrans
<1> QED
  BY <1>1, <1>4, <1>5, <1>6, <1>7, <1>8, <1>9, <1>10

(* What slab_cache_init makes of m when it appends c.                      *)
Begun(m, n, c) ==
  LET alone == m.slab.first = None
      last == m.slab.last
  IN
  /\ n \in Mem /\ n.id = m.id /\ n.disordered = m.disordered
  /\ n.slab.first = IF alone THEN c ELSE m.slab.first
  /\ n.slab.last = c
  /\ n.slab.free = IF m.slab.free = None THEN c ELSE m.slab.free
  /\ n.heads[c] # None /\ n.heads[c].slab = m.id /\ n.heads[c].root = alone
  /\ n.heads[c].count = 0 /\ n.heads[c].recycled = <<>> /\ n.heads[c].fresh = 0
  /\ \A d \in Page : d # c => (n.heads[d] = None <=> m.heads[d] = None)
  /\ \A d \in Page : d # c /\ d # last => n.heads[d] = m.heads[d]
  /\ alone => /\ n.heads[c].prev = None /\ n.heads[c].next = None
              /\ \A d \in Page : d # c => n.heads[d] = m.heads[d]
              /\ n.broken = m.broken
  /\ ~ alone => (n.broken <=> m.broken \/ ~ (last = c \/ Holds(m, last)))
  /\ ~ alone /\ ~ n.broken =>
       /\ last \in Page /\ n.heads[c].prev = last
       /\ last = c => n.heads[c].next = c
       /\ last # c => /\ n.heads[c].next = None /\ Holds(m, last)
                      /\ n.heads[last] = [m.heads[last] EXCEPT !.next = c]

LEMMA CacheInitIs ==
  ASSUME NEW m \in Mem, NEW c \in Page
  PROVE  Begun(m, CacheInit(m, c), c)
<1> DEFINE alone == m.slab.first = None
           last == m.slab.last
           h == [slab |-> m.id, root |-> alone, prev |-> IF alone THEN None ELSE last,
                 next |-> None, count |-> 0, recycled |-> <<>>, fresh |-> 0]
           slab == [first |-> IF alone THEN c ELSE m.slab.first, last |-> c,
                    free |-> IF m.slab.free = None THEN c ELSE m.slab.free]
           added == [m EXCEPT !.slab = slab, !.heads[c] = h]
           linked == [added EXCEPT !.heads[last].next = c]
           lost == [added EXCEPT !.broken = TRUE]
           n == CacheInit(m, c)
<1>0. /\ m.slab \in SlabHeader /\ m.slab.first \in Link /\ last \in Link /\ m.slab.free \in Link
      /\ c \in Link /\ m.id \in Slab /\ None \in Link
  BY DEF Mem, SlabHeader, Link
<1>1. h \in Header /\ slab \in SlabHeader
  <2>1. CacheObjects \in Nat
    BY SlabAssumption
  <2> QED
    BY <1>0, <2>1 DEF Header, SlabHeader
<1>2. /\ h.slab = m.id /\ h.root = alone /\ h.prev = (IF alone THEN None ELSE last)
      /\ h.next = None /\ h.count = 0 /\ h.recycled = <<>> /\ h.fresh = 0
  OBVIOUS
<1>3. /\ slab.first = (IF alone THEN c ELSE m.slab.first) /\ slab.last = c
      /\ slab.free = (IF m.slab.free = None THEN c ELSE m.slab.free)
  OBVIOUS
<1>4. n = IF alone THEN added ELSE IF Holds(added, last) THEN linked ELSE lost
  BY DEF CacheInit, Using
<1> HIDE DEF h, slab, n
<1>5. /\ added \in Mem /\ added.id = m.id /\ added.disordered = m.disordered
      /\ added.slab = slab /\ added.broken = m.broken
      /\ added.heads[c] = h /\ \A d \in Page : d # c => added.heads[d] = m.heads[d]
  BY <1>1 DEF Mem
<1>6. h # None
  BY <1>1, NoneIsNoHeader
<1> HIDE DEF added
<1>7. /\ lost \in Mem /\ lost.id = m.id /\ lost.disordered = m.disordered
      /\ lost.slab = slab /\ lost.broken = TRUE /\ lost.heads = added.heads
  BY <1>5 DEF Mem
<1>8. Holds(added, last) <=> last # None /\ (last = c \/ Holds(m, last))
  BY <1>0, <1>2, <1>5, <1>6 DEF Holds, Link
<1>9. last = c => last # None
  BY SlabAssumption
<1>10. ASSUME Holds(added, last)
       PROVE  /\ last \in Page /\ linked \in Mem /\ linked.id = m.id
              /\ linked.disordered = m.disordered /\ linked.slab = slab
              /\ linked.broken = m.broken
              /\ \A d \in Page : d # last => linked.heads[d] = added.heads[d]
              /\ linked.heads[last] = [added.heads[last] EXCEPT !.next = c]
              /\ linked.heads[last] \in Header /\ linked.heads[last] # None
              /\ added.heads[last] \in Header
  <2>1. last \in Page /\ added.heads[last] # None /\ added.heads[last] \in Header
    BY <1>0, <1>5, <1>10, HoldsIs
  <2> HIDE DEF last
  <2>0. added \in Mem /\ last \in Page /\ added.heads[last] # None /\ c \in Link
    BY <1>0, <1>5, <2>1
  <2>5. linked = NextSet(added, last, c)
    BY DEF NextSet
  <2> HIDE DEF linked
  <2>2. /\ linked \in Mem /\ linked.id = m.id
        /\ linked.disordered = m.disordered /\ linked.slab = slab
        /\ linked.broken = m.broken
    <3>1. linked \in Mem /\ linked.id = added.id
      BY <2>0, <2>5, NextIs, ZenonT(60)
    <3>2. linked.disordered = added.disordered /\ linked.slab = added.slab
      BY <2>0, <2>5, NextIs, ZenonT(60)
    <3>3. linked.broken = added.broken
      BY <2>0, <2>5, NextIs, ZenonT(60)
    <3> QED
      BY <1>5, <3>1, <3>2, <3>3
  <2>3. /\ \A d \in Page : d # last => linked.heads[d] = added.heads[d]
        /\ linked.heads[last] \in Header
    <3>0. \A d \in Page : d # last => NextSet(added, last, c).heads[d] = added.heads[d]
      BY <2>0, NextIs, ZenonT(60)
    <3>1. \A d \in Page : d # last => linked.heads[d] = added.heads[d]
      BY <2>5, <3>0
    <3>2. linked.heads[last] \in Header
      BY <2>0, <2>5, NextIs
    <3> QED
      BY <3>1, <3>2
  <2>4. linked.heads[last] = [added.heads[last] EXCEPT !.next = c]
    BY <2>0, <2>5, NextIs
  <2> QED
    BY <2>1, <2>2, <2>3, <2>4, NoneIsNoHeader
<1> HIDE DEF linked, lost
<1>11. ASSUME alone PROVE Begun(m, n, c)
  <2>1. n = added
    BY <1>4, <1>11
  <2> QED
    BY <1>2, <1>3, <1>5, <1>6, <1>11, <2>1 DEF Begun
<1>12. ASSUME ~ alone, Holds(added, last) PROVE Begun(m, n, c)
  <2>1. n = linked
    BY <1>4, <1>12
  <2>2. CASE last = c
    <3>1. /\ n.heads[c].next = c /\ n.heads[c].prev = last /\ n.heads[c].slab = m.id
          /\ n.heads[c].root = alone /\ n.heads[c].count = 0 /\ n.heads[c].recycled = <<>>
          /\ n.heads[c].fresh = 0
      BY <1>1, <1>2, <1>5, <1>10, <1>12, <2>1, <2>2 DEF Header
    <3> QED
      BY <1>3, <1>5, <1>8, <1>10, <1>12, <2>1, <2>2, <3>1 DEF Begun
  <2>3. CASE last # c
    <3>1. /\ n.heads[c] = h /\ Holds(m, last) /\ added.heads[last] = m.heads[last]
          /\ n.heads[last] # None
      BY <1>5, <1>8, <1>10, <1>12, <2>1, <2>3
    <3> QED
      BY <1>2, <1>3, <1>5, <1>6, <1>8, <1>10, <1>12, <2>1, <2>3, <3>1 DEF Begun, Holds
  <2> QED
    BY <2>2, <2>3
<1>13. ASSUME ~ alone, ~ Holds(added, last) PROVE Begun(m, n, c)
  <2>1. n = lost
    BY <1>4, <1>13
  <2> QED
    BY <1>2, <1>3, <1>5, <1>6, <1>7, <1>8, <1>9, <1>13, <2>1 DEF Begun, Holds
<1>14. Begun(m, n, c)
  BY <1>11, <1>12, <1>13
<1> QED
  BY <1>14 DEF n

LEMMA NewCache ==
  ASSUME NEW m \in Mem, NEW c \in Page
  PROVE  /\ CacheInit(m, c).heads[c] # None /\ CacheInit(m, c).heads[c].slab = m.id
         /\ CacheInit(m, c).heads[c].count = 0 /\ CacheInit(m, c).heads[c].recycled = <<>>
         /\ CacheInit(m, c).heads[c].fresh = 0
<1> DEFINE n == CacheInit(m, c)
<1>1. Begun(m, n, c)
  BY CacheInitIs
<1> HIDE DEF n
<1>2. /\ n.heads[c] # None /\ n.heads[c].slab = m.id
      /\ n.heads[c].count = 0 /\ n.heads[c].recycled = <<>> /\ n.heads[c].fresh = 0
  BY <1>1 DEF Begun
<1> QED
  BY <1>2 DEF n

(* The loop for a cache with room.                                         *)
StepOf(m) ==
  [c \in Link |-> IF c = None THEN None
                  ELSE IF ~ Holds(m, c) \/ ~ IsFull(m.heads[c]) THEN c
                  ELSE m.heads[c].next]

LEMMA PagesCount == Cardinality(Page) = RootBlockSize
<1>1. RootBlockSize \in Nat \ {0}
  BY Sized
<1>2. 0 \in Int /\ RootBlockSize - 1 \in Int /\ ~ (0 > RootBlockSize - 1)
      /\ (RootBlockSize - 1) - 0 + 1 = RootBlockSize
  BY <1>1
<1>3. Cardinality(0..(RootBlockSize - 1)) = RootBlockSize
  BY <1>2, FS_Interval
<1> QED
  BY <1>3 DEF Page

LEMMA Walks ==
  ASSUME NEW m \in Mem
  PROVE  \E w \in [0..RootBlockSize -> Link] :
           /\ w[0] = m.slab.free
           /\ \A k \in 1..RootBlockSize : w[k] = StepOf(m)[w[k - 1]]
           /\ FirstFree(m) =
                LET end == w[RootBlockSize] IN
                IF end = None THEN [m EXCEPT !.slab.free = None]
                ELSE Using(m, {end}, [m EXCEPT !.slab.free = end,
                                               !.broken = IsFull(m.heads[end])])
<1> DEFINE N == 0..Cardinality(Page)
           F == StepOf(m)
           Walk(walk) == walk = [k \in N |->
             IF k = 0 THEN m.slab.free
             ELSE LET c == walk[k - 1] IN
               IF c = None THEN None
               ELSE IF ~ Holds(m, c) \/ ~ IsFull(m.heads[c]) THEN c
               ELSE m.heads[c].next]
           w == CHOOSE walk : Walk(walk)
<1>1. Cardinality(Page) = RootBlockSize /\ RootBlockSize \in Nat \ {0}
  BY PagesCount, Sized
<1>2. m.slab.free \in Link /\ None \in Link
  BY DEF Mem, SlabHeader, Link
<1>3. \A c \in Link : F[c] \in Link
  <2>1. ASSUME NEW c \in Link, Holds(m, c) PROVE m.heads[c].next \in Link
    <3>1. m.heads[c] \in Header
      BY <2>1, HoldsIs
    <3> QED
      BY <3>1 DEF Header
  <2> QED
    BY <1>2, <2>1 DEF StepOf
<1>4. \A c \in Link : F[c] = IF c = None THEN None
                             ELSE IF ~ Holds(m, c) \/ ~ IsFull(m.heads[c]) THEN c
                             ELSE m.heads[c].next
  BY DEF StepOf
<1> HIDE DEF F
<1>5. PICK f : Recurs(f, N, m.slab.free, F)
  <2>1. N \in SUBSET Nat /\ \A n \in N : n = 0 \/ n - 1 \in N
    BY <1>1
  <2> QED
    BY <2>1, Recursion
<1>6. f = [k \in N |-> IF k = 0 THEN m.slab.free ELSE F[f[k - 1]]]
  BY <1>5 DEF Recurs
<1>7. \A k \in N : f[k] \in Link
  <2> DEFINE T == {k \in Nat : k \in N => f[k] \in Link}
  <2>1. 0 \in T
    BY <1>1, <1>2, <1>6
  <2>2. ASSUME NEW k \in T PROVE k + 1 \in T
    <3>1. CASE k + 1 \in N
      <4>1. k \in N /\ (k + 1) - 1 = k /\ k + 1 # 0
        BY <1>1, <3>1
      <4>2. f[k + 1] = F[f[k]]
        BY <1>6, <3>1, <4>1
      <4> QED
        BY <1>3, <4>1, <4>2
    <3>2. CASE k + 1 \notin N
      BY <3>2
    <3> QED
      BY <3>1, <3>2
  <2>3. T \in SUBSET Nat
    OBVIOUS
  <2>4. \A k \in T : k \in N => f[k] \in Link
    OBVIOUS
  <2> HIDE DEF T
  <2>5. \A k \in Nat : k \in T
    BY <2>1, <2>2, <2>3, Induct
  <2>6. N \subseteq Nat
    BY <1>1
  <2> QED
    BY <2>4, <2>5, <2>6
<1>8. Walk(f)
  <2>1. \A k \in N : k # 0 => f[k - 1] \in Link
    <3>1. \A k \in N : k # 0 => k - 1 \in N
      BY <1>1
    <3> QED
      BY <1>7, <3>1
  <2> QED
    BY <1>4, <1>6, <2>1
<1>9. Walk(w)
  BY <1>8
<1>10. FirstFree(m) =
         LET end == w[Cardinality(Page)] IN
         IF end = None THEN [m EXCEPT !.slab.free = None]
         ELSE Using(m, {end}, [m EXCEPT !.slab.free = end, !.broken = IsFull(m.heads[end])])
  BY DEF FirstFree
<1> HIDE DEF w
<1>11. w[0] = m.slab.free /\ \A k \in N : k # 0 =>
         w[k] = LET c == w[k - 1] IN
                IF c = None THEN None
                ELSE IF ~ Holds(m, c) \/ ~ IsFull(m.heads[c]) THEN c
                ELSE m.heads[c].next
  <2>1. 0 \in N
    BY <1>1
  <2> QED
    BY <1>9, <2>1
<1>12. \A k \in N : w[k] \in Link
  <2> DEFINE T == {k \in Nat : k \in N => w[k] \in Link}
  <2>1. 0 \in T
    BY <1>2, <1>11
  <2>2. ASSUME NEW k \in T PROVE k + 1 \in T
    <3>1. CASE k + 1 \in N
      <4>1. k \in N /\ (k + 1) - 1 = k /\ k + 1 # 0
        BY <1>1, <3>1
      <4>2. w[k + 1] = F[w[k]]
        BY <1>4, <1>11, <3>1, <4>1
      <4> QED
        BY <1>3, <4>1, <4>2
    <3>2. CASE k + 1 \notin N
      BY <3>2
    <3> QED
      BY <3>1, <3>2
  <2>3. T \in SUBSET Nat
    OBVIOUS
  <2>4. \A k \in T : k \in N => w[k] \in Link
    OBVIOUS
  <2> HIDE DEF T
  <2>5. \A k \in Nat : k \in T
    BY <2>1, <2>2, <2>3, Induct
  <2>6. N \subseteq Nat
    BY <1>1
  <2> QED
    BY <2>4, <2>5, <2>6
<1>13. \A k \in 1..RootBlockSize : w[k] = F[w[k - 1]]
  <2>1. \A k \in 1..RootBlockSize : k \in N /\ k # 0 /\ k - 1 \in N
    BY <1>1
  <2> QED
    BY <1>4, <1>11, <1>12, <2>1
<1>14. w \in [0..RootBlockSize -> Link]
  <2>1. w = [k \in N |-> w[k]]
    BY <1>9
  <2> QED
    BY <1>1, <1>12, <2>1
<1> QED
  BY <1>1, <1>10, <1>11, <1>13, <1>14 DEF F

LEMMA FirstFreeIs ==
  ASSUME NEW m \in Mem
  PROVE  LET n == FirstFree(m) IN
         /\ n \in Mem /\ n.id = m.id /\ n.heads = m.heads /\ n.disordered = m.disordered
         /\ n.slab.first = m.slab.first /\ n.slab.last = m.slab.last
<1> DEFINE Named(end) ==
             IF end = None THEN [m EXCEPT !.slab.free = None]
             ELSE Using(m, {end}, [m EXCEPT !.slab.free = end,
                                            !.broken = IsFull(m.heads[end])])
<1>1. PICK w \in [0..RootBlockSize -> Link] : FirstFree(m) = Named(w[RootBlockSize])
  BY Walks
<1>2. w[RootBlockSize] \in Link
  BY Sized
<1>3. \A h : IsFull(h) \in BOOLEAN
  BY DEF IsFull
<1>4. ASSUME NEW end \in Link
      PROVE  LET n == Named(end) IN
             /\ n \in Mem /\ n.id = m.id /\ n.heads = m.heads /\ n.disordered = m.disordered
             /\ n.slab.first = m.slab.first /\ n.slab.last = m.slab.last
  <2>1. None \in Link
    BY DEF Link
  <2>2. m.slab \in SlabHeader
    BY DEF Mem
  <2>3. CASE end = None
    <3>1. Named(end) = [m EXCEPT !.slab.free = None]
      BY <2>3
    <3> QED
      BY <2>1, <2>2, <3>1, ZenonT(60) DEF Mem, SlabHeader
  <2>4. CASE end # None /\ Holds(m, end)
    <3> DEFINE full == IsFull(m.heads[end])
    <3>1. Named(end) = [m EXCEPT !.slab.free = end, !.broken = full]
      BY <2>4 DEF Using
    <3>2. full \in BOOLEAN
      BY <1>3
    <3> HIDE DEF full, Named
    <3> QED
      BY <1>4, <2>2, <3>1, <3>2, ZenonT(60) DEF Mem, SlabHeader
  <2>5. CASE end # None /\ ~ Holds(m, end)
    <3>1. Named(end) = [m EXCEPT !.broken = TRUE]
      BY <2>5 DEF Using
    <3> QED
      BY <2>2, <3>1 DEF Mem, SlabHeader
  <2> QED
    BY <2>3, <2>4, <2>5
<1> HIDE DEF Named
<1> QED
  BY <1>1, <1>2, <1>4

(* slab_cache_alloc up to the object.                                      *)
LEMMA CountIs ==
  ASSUME NEW m \in Mem, NEW c \in Page, m.heads[c] # None, m.heads[c].count < CacheObjects
  PROVE  LET n == [m EXCEPT !.heads[c].count = @ + 1] IN
         /\ n \in Mem /\ n.id = m.id /\ n.slab = m.slab /\ n.broken = m.broken
         /\ n.disordered = m.disordered
         /\ \A d \in Page : d # c => n.heads[d] = m.heads[d]
         /\ n.heads[c] \in Header
         /\ n.heads[c] = [m.heads[c] EXCEPT !.count = @ + 1]
<1>1. m.heads[c] \in Header
  BY HeadIs
<1>2. m.heads[c].count + 1 \in 0..CacheObjects
  BY <1>1, SlabAssumption DEF Header
<1> QED
  BY <1>1, <1>2 DEF Mem, Header

LEMMA PopIs ==
  ASSUME NEW n \in Mem, NEW c \in Page, n.heads[c] # None,
         n.heads[c].recycled = <<>> => n.heads[c].fresh < CacheObjects
  PROVE  LET r == IF n.heads[c].recycled = <<>>
                  THEN [n EXCEPT !.heads[c].fresh = @ + 1]
                  ELSE [n EXCEPT !.heads[c].recycled = Tail(@)]
         IN /\ r \in Mem /\ r.id = n.id /\ r.slab = n.slab /\ r.broken = n.broken
            /\ r.disordered = n.disordered
            /\ \A d \in Page : d # c => r.heads[d] = n.heads[d]
            /\ r.heads[c] \in Header
            /\ r.heads[c] = IF n.heads[c].recycled = <<>>
                            THEN [n.heads[c] EXCEPT !.fresh = @ + 1]
                            ELSE [n.heads[c] EXCEPT !.recycled = Tail(@)]
<1>1. n.heads[c] \in Header
  BY HeadIs
<1>2. CASE n.heads[c].recycled = <<>>
  <2>1. n.heads[c].fresh + 1 \in 0..CacheObjects
    BY <1>1, <1>2, SlabAssumption DEF Header
  <2> QED
    BY <1>1, <1>2, <2>1 DEF Mem, Header
<1>3. CASE n.heads[c].recycled # <<>>
  <2>1. n.heads[c].recycled \in Seq(Slot)
    BY <1>1 DEF Header
  <2>2. Tail(n.heads[c].recycled) \in Seq(Slot)
    BY <1>3, <2>1, PopSet
  <2> DEFINE t == Tail(n.heads[c].recycled)
  <2>3. [n EXCEPT !.heads[c].recycled = Tail(@)] = [n EXCEPT !.heads[c].recycled = t]
    OBVIOUS
  <2>4. [n.heads[c] EXCEPT !.recycled = Tail(@)] = [n.heads[c] EXCEPT !.recycled = t]
    OBVIOUS
  <2> HIDE DEF t
  <2>5. LET r == [n EXCEPT !.heads[c].recycled = t]
        IN /\ r \in Mem /\ r.id = n.id /\ r.slab = n.slab /\ r.broken = n.broken
           /\ r.disordered = n.disordered
           /\ \A d \in Page : d # c => r.heads[d] = n.heads[d]
           /\ r.heads[c] \in Header
           /\ r.heads[c] = [n.heads[c] EXCEPT !.recycled = t]
    BY <1>1, <2>2 DEF Mem, Header, t
  <2> QED
    BY <1>3, <2>3, <2>4, <2>5
<1> QED
  BY <1>2, <1>3
Taken(m, c) == [m EXCEPT !.heads[c].count = @ + 1]
Sorted(m, c) ==
  LET p == m.heads[c].prev
      taken == Taken(m, c)
  IN IF p = None THEN taken
     ELSE Using(taken, {p},
                IF taken.heads[p].count < taken.heads[c].count THEN MoveUp(taken, c) ELSE taken)
Popped(n, c) ==
  IF n.heads[c].recycled = <<>>
  THEN [n EXCEPT !.heads[c].fresh = @ + 1]
  ELSE [n EXCEPT !.heads[c].recycled = Tail(@)]

LEMMA CacheAllocAs ==
  ASSUME NEW m, NEW c
  PROVE  CacheAlloc(m, c) = IF Sorted(m, c).broken THEN Sorted(m, c)
                            ELSE Popped(FirstFree(Sorted(m, c)), c)
BY DEF CacheAlloc, Sorted, Taken, Popped

LEMMA SortedIs ==
  ASSUME NEW m \in Mem, NEW c \in Page, m.heads[c] # None, m.heads[c].count < CacheObjects
  PROVE  LET n == Sorted(m, c)
             p == m.heads[c].prev
             t == Taken(m, c)
         IN /\ n \in Mem /\ Relinked(t, n) /\ n.slab = m.slab
            /\ n.broken <=> m.broken \/ (p # None /\ ~ Holds(m, p))
            /\ ~ n.disordered => n.heads = t.heads /\ ~ m.disordered
            /\ m.disordered => n.disordered
            /\ ~ m.disordered /\ n.disordered => Holds(m, p) /\ n = MoveUp(t, c)
                                                 /\ t.heads[p].count < t.heads[c].count
            /\ t \in Mem /\ t.id = m.id /\ t.slab = m.slab /\ t.broken = m.broken
            /\ t.disordered = m.disordered
            /\ \A d \in Page : d # c => t.heads[d] = m.heads[d]
            /\ t.heads[c] \in Header /\ t.heads[c] = [m.heads[c] EXCEPT !.count = @ + 1]
<1> DEFINE n == Sorted(m, c)
           p == m.heads[c].prev
           t == Taken(m, c)
           up == MoveUp(t, c)
<1>1. /\ t \in Mem /\ t.id = m.id /\ t.slab = m.slab /\ t.broken = m.broken
      /\ t.disordered = m.disordered
      /\ \A d \in Page : d # c => t.heads[d] = m.heads[d]
      /\ t.heads[c] \in Header /\ t.heads[c] = [m.heads[c] EXCEPT !.count = @ + 1]
  BY CountIs DEF Taken
<1>2. m.heads[c] \in Header /\ p \in Link
  BY HeadIs DEF Header
<1>3. n = IF p = None THEN t
          ELSE IF Holds(t, p)
               THEN IF t.heads[p].count < t.heads[c].count THEN up ELSE t
               ELSE [t EXCEPT !.broken = TRUE]
  BY DEF Sorted, Using
<1>4. t.heads[c].prev = p /\ t.heads[c].slab = m.heads[c].slab /\ t.heads[c] # None
  BY <1>1, <1>2, NoneIsNoHeader DEF Header
<1>5. p # None => p \in Page
  BY <1>2 DEF Link
<1> HIDE DEF t, n, p
<1>6. Holds(t, p) <=> Holds(m, p)
  BY <1>1, <1>4, <1>5 DEF Holds
<1>7. CASE p = None
  <2>1. n = t /\ ~ Holds(m, p)
    BY <1>3, <1>7 DEF Holds
  <2> QED
    BY <1>1, <1>7, <2>1, RelinkSelf DEF n, p, t
<1>8. CASE p # None /\ ~ Holds(t, p)
  <2>1. n = [t EXCEPT !.broken = TRUE]
    BY <1>3, <1>8
  <2>2. Relinked(t, n) /\ n.slab = t.slab /\ n.heads = t.heads /\ n.broken = TRUE
        /\ n.disordered = t.disordered
    BY <1>1, <2>1, BrokenIs
  <2>3. n \in Mem
    BY <2>2 DEF Relinked
  <2> QED
    BY <1>1, <1>6, <1>8, <2>2, <2>3 DEF n, p, t
<1>9. CASE p # None /\ Holds(t, p) /\ t.heads[p].count < t.heads[c].count
  <2>1. n = up
    BY <1>3, <1>9
  <2>2. Relinked(t, n) /\ n.slab = t.slab /\ n.broken = t.broken /\ n.disordered
    BY <1>1, <1>4, <1>9, <2>1, MoveUpIs
  <2>3. n \in Mem /\ n.disordered = TRUE
    BY <2>2 DEF Relinked, Mem
  <2> QED
    BY <1>1, <1>6, <1>9, <2>1, <2>2, <2>3 DEF n, p, t
<1>10. CASE p # None /\ Holds(t, p) /\ ~ (t.heads[p].count < t.heads[c].count)
  <2>1. n = t
    BY <1>3, <1>10
  <2> QED
    BY <1>1, <1>6, <1>10, <2>1, RelinkSelf DEF n, p, t
<1> QED
  BY <1>7, <1>8, <1>9, <1>10

LEMMA CacheAllocIs ==
  ASSUME NEW m \in Mem, NEW c \in Page, m.heads[c] # None, m.heads[c].count < CacheObjects,
         m.heads[c].recycled = <<>> => m.heads[c].fresh < CacheObjects
  PROVE  LET r == CacheAlloc(m, c) IN
         /\ r \in Mem /\ r.id = m.id
         /\ r.slab.first = m.slab.first /\ r.slab.last = m.slab.last
         /\ \A d \in Page :
              /\ r.heads[d] = None <=> m.heads[d] = None
              /\ m.heads[d] # None => SameBut(m.heads[d], r.heads[d])
              /\ m.heads[d] # None /\ d # c =>
                   /\ r.heads[d].count = m.heads[d].count
                   /\ r.heads[d].recycled = m.heads[d].recycled
                   /\ r.heads[d].fresh = m.heads[d].fresh
         /\ ~ r.broken =>
              /\ ~ m.broken
              /\ r.heads[c].count = m.heads[c].count + 1
              /\ m.heads[c].recycled = <<>> =>
                   r.heads[c].recycled = <<>> /\ r.heads[c].fresh = m.heads[c].fresh + 1
              /\ m.heads[c].recycled # <<>> =>
                   /\ r.heads[c].recycled = Tail(m.heads[c].recycled)
                   /\ r.heads[c].fresh = m.heads[c].fresh
<1> DEFINE s == Sorted(m, c)
           t == Taken(m, c)
           f == FirstFree(s)
           r == CacheAlloc(m, c)
<1>1. /\ s \in Mem /\ Relinked(t, s) /\ s.slab = m.slab
      /\ m.broken => s.broken
      /\ t \in Mem /\ t.id = m.id
      /\ \A d \in Page : d # c => t.heads[d] = m.heads[d]
      /\ t.heads[c] \in Header /\ t.heads[c] = [m.heads[c] EXCEPT !.count = @ + 1]
  BY SortedIs
<1>2. r = IF s.broken THEN s ELSE Popped(f, c)
  BY CacheAllocAs
<1>3. m.heads[c] \in Header
  BY HeadIs
<1> HIDE DEF s, t, r
<1>4. /\ t.heads[c] # None /\ t.heads[c].slab = m.heads[c].slab
      /\ t.heads[c].root = m.heads[c].root /\ t.heads[c].prev = m.heads[c].prev
      /\ t.heads[c].next = m.heads[c].next /\ t.heads[c].recycled = m.heads[c].recycled
      /\ t.heads[c].fresh = m.heads[c].fresh /\ t.heads[c].count = m.heads[c].count + 1
  BY <1>1, <1>3, NoneIsNoHeader DEF Header
<1>5. /\ s.id = m.id
      /\ \A d \in Page :
           /\ s.heads[d] = None <=> m.heads[d] = None
           /\ m.heads[d] # None => SameBut(m.heads[d], s.heads[d])
           /\ m.heads[d] # None /\ d # c =>
                /\ s.heads[d].count = m.heads[d].count
                /\ s.heads[d].recycled = m.heads[d].recycled
                /\ s.heads[d].fresh = m.heads[d].fresh
      /\ s.heads[c].count = m.heads[c].count + 1
      /\ s.heads[c].recycled = m.heads[c].recycled
      /\ s.heads[c].fresh = m.heads[c].fresh
  <2>1. /\ s.id = m.id
        /\ \A d \in Page : s.heads[d] = None <=> t.heads[d] = None
        /\ \A d \in Page : t.heads[d] # None => SameBut(t.heads[d], s.heads[d])
        /\ \A d \in Page : t.heads[d] # None =>
             /\ s.heads[d].count = t.heads[d].count
             /\ s.heads[d].recycled = t.heads[d].recycled
             /\ s.heads[d].fresh = t.heads[d].fresh
    BY <1>1 DEF Relinked
  <2>2. SameBut(m.heads[c], s.heads[c])
    BY <1>4, <2>1 DEF SameBut, Lone
  <2>3. \A d \in Page : t.heads[d] = None <=> m.heads[d] = None
    BY <1>1, <1>4
  <2>4. \A d \in Page : m.heads[d] # None => SameBut(m.heads[d], s.heads[d])
    BY <1>1, <2>1, <2>2
  <2>5. ASSUME NEW d \in Page
        PROVE  s.heads[d] = None <=> m.heads[d] = None
    BY <2>1, <2>3
  <2>6. ASSUME NEW d \in Page, m.heads[d] # None, d # c
        PROVE  /\ s.heads[d].count = m.heads[d].count
               /\ s.heads[d].recycled = m.heads[d].recycled
               /\ s.heads[d].fresh = m.heads[d].fresh
    BY <1>1, <2>1, <2>3, <2>6
  <2>7. /\ s.heads[c].count = m.heads[c].count + 1
        /\ s.heads[c].recycled = m.heads[c].recycled
        /\ s.heads[c].fresh = m.heads[c].fresh
    BY <1>4, <2>1
  <2> QED
    BY <2>1, <2>4, <2>5, <2>6, <2>7
<1>6. CASE s.broken
  <2>1. r = s
    BY <1>2, <1>6
  <2> QED
    BY <1>1, <1>5, <1>6, <2>1 DEF r
<1>7. CASE ~ s.broken
  <2>1. r = Popped(f, c)
    BY <1>2, <1>7
  <2>2. /\ f \in Mem /\ f.id = s.id /\ f.heads = s.heads
        /\ f.slab.first = s.slab.first /\ f.slab.last = s.slab.last
    BY <1>1, FirstFreeIs
  <2> HIDE DEF f
  <2>3. f.heads[c] # None /\ (f.heads[c].recycled = <<>> => f.heads[c].fresh < CacheObjects)
    BY <1>5, <2>2
  <2>4. f.heads[c] \in Header
    BY <2>2, <2>3, HeadIs
  <2>5. /\ r \in Mem /\ r.id = f.id /\ r.slab = f.slab
        /\ \A d \in Page : d # c => r.heads[d] = f.heads[d]
        /\ r.heads[c] \in Header
        /\ r.heads[c] = IF f.heads[c].recycled = <<>>
                        THEN [f.heads[c] EXCEPT !.fresh = @ + 1]
                        ELSE [f.heads[c] EXCEPT !.recycled = Tail(@)]
    BY <2>1, <2>2, <2>3, PopIs DEF Popped
  <2>6. /\ r.heads[c] # None /\ r.heads[c].slab = f.heads[c].slab
        /\ r.heads[c].root = f.heads[c].root /\ r.heads[c].prev = f.heads[c].prev
        /\ r.heads[c].next = f.heads[c].next /\ r.heads[c].count = f.heads[c].count
        /\ f.heads[c].recycled = <<>> => /\ r.heads[c].recycled = <<>>
                                         /\ r.heads[c].fresh = f.heads[c].fresh + 1
        /\ f.heads[c].recycled # <<>> => /\ r.heads[c].recycled = Tail(f.heads[c].recycled)
                                         /\ r.heads[c].fresh = f.heads[c].fresh
    BY <2>4, <2>5, NoneIsNoHeader DEF Header
  <2>7. \A d \in Page :
           /\ r.heads[d] = None <=> m.heads[d] = None
           /\ m.heads[d] # None => SameBut(m.heads[d], r.heads[d])
           /\ m.heads[d] # None /\ d # c =>
                /\ r.heads[d].count = m.heads[d].count
                /\ r.heads[d].recycled = m.heads[d].recycled
                /\ r.heads[d].fresh = m.heads[d].fresh
    <3>1. SameBut(m.heads[c], r.heads[c])
      <4>1. SameBut(m.heads[c], f.heads[c])
        BY <1>5, <2>2
      <4> QED
        BY <2>6, <4>1 DEF SameBut, Lone
    <3>2. \A d \in Page : d # c => r.heads[d] = s.heads[d]
      BY <2>2, <2>5
    <3> QED
      BY <1>5, <2>6, <3>1, <3>2
  <2>8. ~ m.broken
    BY <1>1, <1>7
  <2> QED
    BY <1>1, <1>5, <2>2, <2>5, <2>6, <2>7, <2>8 DEF r
<1> QED
  BY <1>6, <1>7

(* What slab_cache_free leaves of the memory.                              *)
Put(m, c, slot) == [m EXCEPT !.heads[c].recycled = <<slot>> \o @, !.heads[c].count = @ - 1]

LEMMA PutIs ==
  ASSUME NEW m \in Mem, NEW c \in Page, m.heads[c] # None, NEW slot \in Slot,
         m.heads[c].count > 0
  PROVE  /\ Put(m, c, slot) \in Mem /\ Put(m, c, slot).id = m.id
         /\ Put(m, c, slot).slab = m.slab /\ Put(m, c, slot).broken = m.broken
         /\ Put(m, c, slot).disordered = m.disordered
         /\ \A d \in Page : d # c => Put(m, c, slot).heads[d] = m.heads[d]
         /\ Put(m, c, slot).heads[c] \in Header
         /\ Put(m, c, slot).heads[c].slab = m.heads[c].slab
         /\ Put(m, c, slot).heads[c].root = m.heads[c].root
         /\ Put(m, c, slot).heads[c].prev = m.heads[c].prev
         /\ Put(m, c, slot).heads[c].next = m.heads[c].next
         /\ Put(m, c, slot).heads[c].fresh = m.heads[c].fresh
         /\ Put(m, c, slot).heads[c].count = m.heads[c].count - 1
         /\ Put(m, c, slot).heads[c].recycled = <<slot>> \o m.heads[c].recycled
<1> DEFINE h == m.heads[c]
           t == <<slot>> \o h.recycled
           k == h.count - 1
           g == [h EXCEPT !.recycled = t, !.count = k]
           n == [m EXCEPT !.heads = [@ EXCEPT ![c] = g]]
<1>1. h \in Header
  BY HeadIs
<1>2. t \in Seq(Slot)
  <2>1. h.recycled \in Seq(Slot)
    BY <1>1 DEF Header
  <2> QED
    BY <2>1, PushSet
<1>3. k \in 0..CacheObjects
  BY <1>1, SlabAssumption DEF Header
<1>4. Put(m, c, slot) = n
  BY DEF Put, Mem
<1> HIDE DEF t, k
<1>5. /\ g \in Header /\ g.slab = h.slab /\ g.root = h.root /\ g.prev = h.prev /\ g.next = h.next
      /\ g.fresh = h.fresh /\ g.count = k /\ g.recycled = t
  BY <1>1, <1>2, <1>3 DEF Header
<1> HIDE DEF g, h
<1>6. /\ n \in Mem /\ n.id = m.id /\ n.slab = m.slab /\ n.broken = m.broken
      /\ n.disordered = m.disordered
      /\ \A d \in Page : d # c => n.heads[d] = m.heads[d]
      /\ n.heads[c] = g
  BY <1>5 DEF Mem
<1> HIDE DEF n
<1> QED
  BY <1>4, <1>5, <1>6 DEF h, t, k

LEMMA CacheFreeIs ==
  ASSUME NEW m \in Mem, NEW c \in Page, m.heads[c] # None, NEW slot \in Slot,
         m.heads[c].count > 0
  PROVE  LET r == CacheFree(m, c, slot) IN
         /\ r \in Mem /\ r.id = m.id /\ r.slab = m.slab
         /\ \A d \in Page :
              /\ r.heads[d] = None <=> m.heads[d] = None
              /\ m.heads[d] # None => SameBut(m.heads[d], r.heads[d])
              /\ m.heads[d] # None /\ d # c =>
                   /\ r.heads[d].count = m.heads[d].count
                   /\ r.heads[d].recycled = m.heads[d].recycled
                   /\ r.heads[d].fresh = m.heads[d].fresh
         /\ r.heads[c].count = m.heads[c].count - 1
         /\ r.heads[c].recycled = <<slot>> \o m.heads[c].recycled
         /\ r.heads[c].fresh = m.heads[c].fresh
         /\ ~ r.broken => ~ m.broken
<1> DEFINE t == Put(m, c, slot)
           r == CacheFree(m, c, slot)
           n == m.heads[c].next
           down == MoveDown(t, c)
<1>1. /\ t \in Mem /\ t.id = m.id /\ t.slab = m.slab /\ t.broken = m.broken
      /\ \A d \in Page : d # c => t.heads[d] = m.heads[d]
      /\ t.heads[c] \in Header
      /\ t.heads[c].slab = m.heads[c].slab /\ t.heads[c].root = m.heads[c].root
      /\ t.heads[c].prev = m.heads[c].prev /\ t.heads[c].next = n
      /\ t.heads[c].fresh = m.heads[c].fresh /\ t.heads[c].count = m.heads[c].count - 1
      /\ t.heads[c].recycled = <<slot>> \o m.heads[c].recycled
  BY PutIs
<1>2. r = IF n = None THEN t
          ELSE IF Holds(t, n)
               THEN IF t.heads[n].count > t.heads[c].count THEN down ELSE t
               ELSE [t EXCEPT !.broken = TRUE]
  BY DEF CacheFree, Using, Put
<1>3. t.heads[c] # None
  BY <1>1, NoneIsNoHeader
<1> HIDE DEF t, r, n
<1>4. Relinked(t, r) /\ r.slab = m.slab /\ (~ r.broken => ~ m.broken)
  <2>1. CASE r = t
    BY <1>1, <2>1, RelinkSelf
  <2>2. CASE r = [t EXCEPT !.broken = TRUE]
    BY <1>1, <2>2, BrokenIs
  <2>3. CASE r = down /\ Holds(t, n)
    BY <1>1, <1>3, <2>3, MoveDownIs
  <2> QED
    BY <1>2, <2>1, <2>2, <2>3
<1>5. /\ r \in Mem /\ r.id = m.id
      /\ \A d \in Page : r.heads[d] = None <=> t.heads[d] = None
      /\ \A d \in Page : t.heads[d] # None => SameBut(t.heads[d], r.heads[d])
      /\ \A d \in Page : t.heads[d] # None =>
           /\ r.heads[d].count = t.heads[d].count
           /\ r.heads[d].recycled = t.heads[d].recycled
           /\ r.heads[d].fresh = t.heads[d].fresh
  BY <1>1, <1>4 DEF Relinked
<1>6. SameBut(m.heads[c], r.heads[c])
  <2>1. SameBut(t.heads[c], r.heads[c])
    BY <1>3, <1>5
  <2> QED
    BY <1>1, <2>1 DEF SameBut, Lone, n
<1>7. \A d \in Page : t.heads[d] = None <=> m.heads[d] = None
  BY <1>1, <1>3
<1>8. ASSUME NEW d \in Page
      PROVE  r.heads[d] = None <=> m.heads[d] = None
  BY <1>5, <1>7
<1>9. ASSUME NEW d \in Page, m.heads[d] # None, d # c
      PROVE  /\ SameBut(m.heads[d], r.heads[d])
             /\ r.heads[d].count = m.heads[d].count
             /\ r.heads[d].recycled = m.heads[d].recycled
             /\ r.heads[d].fresh = m.heads[d].fresh
  BY <1>1, <1>5, <1>7, <1>9
<1>10. /\ r.heads[c].count = m.heads[c].count - 1
       /\ r.heads[c].recycled = <<slot>> \o m.heads[c].recycled
       /\ r.heads[c].fresh = m.heads[c].fresh
  BY <1>1, <1>3, <1>5
<1> QED
  BY <1>4, <1>5, <1>6, <1>8, <1>9, <1>10 DEF r

(* slab_cache_destroy.                                                     *)
LEMMA CacheDestroyIs ==
  ASSUME NEW m \in Mem, NEW c \in Page, m.heads[c] # None
  PROVE  LET r == CacheDestroy(m, c)
             h == m.heads[c]
         IN
         /\ r \in Mem /\ r.id = m.id
         /\ r.slab.first = IF h.prev = None THEN h.next ELSE m.slab.first
         /\ r.slab.last = IF h.next = None THEN h.prev ELSE m.slab.last
         /\ r.heads[c] = None
         /\ \A d \in Page : d # c =>
              /\ r.heads[d] = None <=> m.heads[d] = None
              /\ m.heads[d] # None => /\ SameBut(m.heads[d], r.heads[d])
                                      /\ r.heads[d].count = m.heads[d].count
                                      /\ r.heads[d].recycled = m.heads[d].recycled
                                      /\ r.heads[d].fresh = m.heads[d].fresh
         /\ ~ r.broken => ~ m.broken
<1> DEFINE h == m.heads[c]
           p == h.prev
           x == h.next
           ends == EndsWithout(m.slab, h)
           cut == [m EXCEPT !.slab = ends]
           b1 == [cut EXCEPT !.heads[p].next = x]
           b2 == [b1 EXCEPT !.heads[x].prev = p]
           u == IF p # None /\ x # None THEN Using(cut, {p, x}, b2) ELSE cut
           r == CacheDestroy(m, c)
<1>1. h \in Header /\ p \in Link /\ x \in Link
  BY HeadIs DEF Header
<1>2. /\ ends \in SlabHeader
      /\ ends.first = (IF p = None THEN x ELSE m.slab.first)
      /\ ends.last = (IF x = None THEN p ELSE m.slab.last)
  BY <1>1 DEF EndsWithout, Mem, SlabHeader
<1>3. r = [u EXCEPT !.heads[c] = None]
  BY DEF CacheDestroy
<1> HIDE DEF p, x, ends, h
<1>4. Relinked(m, cut) /\ cut.slab = ends /\ cut.broken = m.broken
  BY <1>2 DEF Relinked, SameBut, Mem
<1>5. cut \in Mem
  BY <1>4 DEF Relinked
<1>6. u = IF p # None /\ x # None
          THEN IF Holds(cut, p) /\ Holds(cut, x) THEN b2 ELSE [cut EXCEPT !.broken = TRUE]
          ELSE cut
  BY DEF Using
<1> HIDE DEF cut
<1>7. Relinked(cut, u) /\ u.slab = ends /\ (~ u.broken => ~ m.broken)
  <2>1. CASE p # None /\ x # None /\ Holds(cut, p) /\ Holds(cut, x)
    <3>1. /\ p \in Page /\ cut.heads[p] # None
          /\ x \in Page /\ cut.heads[x] # None
      BY <1>1, <1>5, <2>1, HoldsIs
    <3>2. Relinked(cut, b1)
      BY <1>1, <1>5, <2>1, <3>1, RelinkNext
    <3>3. b1.slab = ends /\ b1.broken = m.broken
      BY <1>1, <1>4, <1>5, <3>1, SetNext
    <3> HIDE DEF b1
    <3>4. b1 \in Mem /\ b1.heads[x] # None
      BY <3>1, <3>2 DEF Relinked
    <3>5. Relinked(b1, b2)
      BY <1>1, <2>1, <3>1, <3>4, RelinkPrev
    <3>6. b2.slab = ends /\ b2.broken = m.broken
      BY <1>1, <3>1, <3>3, <3>4, SetPrev
    <3>7. u = b2
      BY <1>6, <2>1
    <3> HIDE DEF b2
    <3> QED
      BY <3>2, <3>5, <3>6, <3>7, RelinkTrans
  <2>2. CASE u = [cut EXCEPT !.broken = TRUE]
    BY <1>4, <1>5, <2>2, BrokenIs
  <2>3. CASE u = cut
    BY <1>4, <1>5, <2>3, RelinkSelf
  <2> QED
    BY <1>6, <2>1, <2>2, <2>3
<1> HIDE DEF u
<1>8. Relinked(m, u)
  BY <1>4, <1>7, RelinkTrans
<1>9. /\ u \in Mem /\ u.id = m.id
      /\ \A d \in Page : u.heads[d] = None <=> m.heads[d] = None
      /\ \A d \in Page : m.heads[d] # None => SameBut(m.heads[d], u.heads[d])
      /\ \A d \in Page : m.heads[d] # None =>
           /\ u.heads[d].count = m.heads[d].count
           /\ u.heads[d].recycled = m.heads[d].recycled
           /\ u.heads[d].fresh = m.heads[d].fresh
  BY <1>8 DEF Relinked
<1>10. /\ r \in Mem /\ r.id = u.id /\ r.slab = u.slab /\ r.broken = u.broken
       /\ r.heads[c] = None /\ \A d \in Page : d # c => r.heads[d] = u.heads[d]
  BY <1>3, <1>9 DEF Mem
<1> HIDE DEF r
<1>11. ASSUME NEW d \in Page, d # c
       PROVE  /\ r.heads[d] = None <=> m.heads[d] = None
              /\ m.heads[d] # None => /\ SameBut(m.heads[d], r.heads[d])
                                      /\ r.heads[d].count = m.heads[d].count
                                      /\ r.heads[d].recycled = m.heads[d].recycled
                                      /\ r.heads[d].fresh = m.heads[d].fresh
  BY <1>9, <1>10, <1>11
<1> QED
  BY <1>2, <1>7, <1>9, <1>10, <1>11 DEF r, h, p, x

-----------------------------------------------------------------------------
(* The books of a cache: its header h counts the objects of S, which are   *)
(* those that were handed out of it; their slots and the recycled ones are *)
(* apart, and together all that it ever handed out.                        *)
Ledger(h, S) ==
  /\ h.count = Cardinality(S)
  /\ h.count <= MaxObjects(h)
  /\ {o.slot : o \in S} \cap ToSet(h.recycled) = {}
  /\ {o.slot : o \in S} \union ToSet(h.recycled) = 1..h.fresh
  /\ Len(h.recycled) + h.count = h.fresh
  /\ \A i, j \in 1..Len(h.recycled) : h.recycled[i] = h.recycled[j] => i = j

LEMMA LedgerSame ==
  ASSUME NEW h, NEW g, NEW S, Ledger(h, S), g.slab = h.slab, g.root = h.root,
         g.count = h.count, g.recycled = h.recycled, g.fresh = h.fresh
  PROVE  Ledger(g, S)
<1>1. MaxObjects(g) = MaxObjects(h)
  BY DEF MaxObjects
<1> QED
  BY <1>1 DEF Ledger

LEMMA MaxObjectsIs ==
  ASSUME NEW h \in Header
  PROVE  MaxObjects(h) \in Nat /\ 1 <= MaxObjects(h) /\ MaxObjects(h) <= CacheObjects
<1>1. h.slab \in Slab
  BY DEF Header
<1>2. CacheObjects \in Nat /\ RootObjects[h.slab] \in 1..CacheObjects
  BY <1>1, SlabAssumption
<1> QED
  BY <1>2 DEF MaxObjects

(* What slab_cache_alloc may count on.                                     *)
LEMMA LedgerRoom ==
  ASSUME NEW h \in Header, NEW S, Ledger(h, S), ~ IsFull(h)
  PROVE  /\ h.count < MaxObjects(h) /\ h.count < CacheObjects
         /\ h.recycled = <<>> => h.fresh < CacheObjects
         /\ SlotOf(h) \in Slot
         /\ \A o \in S : o.slot # SlotOf(h)
<1>1. /\ h.count \in Nat /\ h.fresh \in Nat /\ CacheObjects \in Nat
      /\ h.recycled \in Seq(Slot)
  BY SlabAssumption DEF Header
<1>2. h.count < MaxObjects(h) /\ h.count < CacheObjects
  BY <1>1, MaxObjectsIs DEF Ledger, IsFull
<1>3. CASE h.recycled = <<>>
  <2>1. h.fresh = h.count
    BY <1>1, <1>3 DEF Ledger
  <2>2. SlotOf(h) = h.fresh + 1 /\ SlotOf(h) \in Slot
    BY <1>1, <1>2, <1>3, <2>1 DEF SlotOf, Slot
  <2>3. \A o \in S : o.slot \in 1..h.fresh
    BY DEF Ledger
  <2> QED
    BY <1>1, <1>2, <2>1, <2>2, <2>3
<1>4. CASE h.recycled # <<>>
  <2>1. SlotOf(h) = Head(h.recycled)
    BY <1>4 DEF SlotOf
  <2>2. Head(h.recycled) \in Slot /\ Head(h.recycled) \in ToSet(h.recycled)
    BY <1>1, <1>4, PopSet
  <2>3. \A o \in S : o.slot \notin ToSet(h.recycled)
    BY DEF Ledger
  <2> QED
    BY <1>2, <1>4, <2>1, <2>2, <2>3
<1> QED
  BY <1>3, <1>4

LEMMA LedgerTake ==
  ASSUME NEW h \in Header, NEW g \in Header, NEW S, IsFiniteSet(S), Ledger(h, S), ~ IsFull(h),
         NEW o, o.slot = SlotOf(h),
         g.slab = h.slab, g.root = h.root, g.count = h.count + 1,
         h.recycled = <<>> => g.recycled = <<>> /\ g.fresh = h.fresh + 1,
         h.recycled # <<>> => g.recycled = Tail(h.recycled) /\ g.fresh = h.fresh
  PROVE  Ledger(g, S \union {o})
<1> DEFINE T == S \union {o}
           Slots(U) == {x.slot : x \in U}
<1>1. /\ h.count \in Nat /\ h.fresh \in Nat /\ CacheObjects \in Nat
      /\ h.recycled \in Seq(Slot) /\ Len(h.recycled) \in Nat
  BY SlabAssumption DEF Header
<1>2. o \notin S
  BY LedgerRoom
<1>3. Cardinality(T) = h.count + 1
  <2>1. h.count = Cardinality(S)
    BY DEF Ledger
  <2>2. Cardinality(S \union {o}) = Cardinality(S) + 1
    BY <1>2, FS_AddElement
  <2> QED
    BY <2>1, <2>2
<1>4. MaxObjects(g) = MaxObjects(h) /\ MaxObjects(h) \in Nat
  BY MaxObjectsIs DEF MaxObjects
<1>5. g.count <= MaxObjects(g)
  BY <1>1, <1>4, LedgerRoom
<1>6. Slots(T) = Slots(S) \union {SlotOf(h)} /\ SlotOf(h) \notin Slots(S)
  BY LedgerRoom
<1>7. /\ Slots(S) \cap ToSet(h.recycled) = {}
      /\ Slots(S) \union ToSet(h.recycled) = 1..h.fresh
      /\ Len(h.recycled) + h.count = h.fresh
      /\ \A i, j \in 1..Len(h.recycled) : h.recycled[i] = h.recycled[j] => i = j
  BY DEF Ledger
<1> HIDE DEF T, Slots
<1>8. /\ Slots(T) \cap ToSet(g.recycled) = {}
      /\ Slots(T) \union ToSet(g.recycled) = 1..g.fresh
      /\ Len(g.recycled) + g.count = g.fresh
      /\ \A i, j \in 1..Len(g.recycled) : g.recycled[i] = g.recycled[j] => i = j
  <2>1. CASE h.recycled = <<>>
    <3>1. /\ g.recycled = <<>> /\ g.fresh = h.fresh + 1 /\ SlotOf(h) = h.fresh + 1
          /\ Len(g.recycled) = 0 /\ Len(h.recycled) = 0
      BY <2>1 DEF SlotOf
    <3>2. ToSet(g.recycled) = {} /\ ToSet(h.recycled) = {}
      BY <2>1, <3>1, NoneIn
    <3>3. 1..(h.fresh + 1) = (1..h.fresh) \union {h.fresh + 1}
      BY <1>1
    <3> QED
      BY <1>1, <1>6, <1>7, <3>1, <3>2, <3>3
  <2>2. CASE h.recycled # <<>>
    <3>1. g.recycled = Tail(h.recycled) /\ g.fresh = h.fresh /\ SlotOf(h) = Head(h.recycled)
      BY <2>2 DEF SlotOf
    <3>2. /\ Len(g.recycled) = Len(h.recycled) - 1
          /\ ToSet(h.recycled) = {SlotOf(h)} \union ToSet(g.recycled)
      BY <1>1, <2>2, <3>1, PopSet
    <3>3. /\ ToSet(g.recycled) = ToSet(h.recycled) \ {SlotOf(h)}
          /\ \A i, j \in 1..Len(g.recycled) : g.recycled[i] = g.recycled[j] => i = j
      <4> DEFINE w == h.recycled
                 v == g.recycled
      <4>1. w \in Seq(Slot) /\ w # <<>> /\ \A i, j \in 1..Len(w) : w[i] = w[j] => i = j
        BY <1>1, <1>7, <2>2
      <4>2. v = Tail(w) /\ SlotOf(h) = Head(w)
        BY <3>1
      <4> HIDE DEF v, w
      <4>3. /\ ToSet(Tail(w)) = ToSet(w) \ {Head(w)}
            /\ \A i, j \in 1..Len(Tail(w)) : Tail(w)[i] = Tail(w)[j] => i = j
        BY <4>1, PopOnce
      <4>4. /\ ToSet(v) = ToSet(w) \ {SlotOf(h)}
            /\ \A i, j \in 1..Len(v) : v[i] = v[j] => i = j
        BY <4>2, <4>3
      <4> QED
        BY <4>4 DEF v, w
    <3>4. Len(g.recycled) + g.count = g.fresh
      <4> DEFINE j == Len(g.recycled)
                 k == Len(h.recycled)
      <4>1. j = k - 1 /\ k \in Nat /\ h.count \in Nat
        BY <1>1, <3>2
      <4>2. k + h.count = h.fresh
        BY <1>7
      <4>3. g.count = h.count + 1 /\ g.fresh = h.fresh
        BY <3>1
      <4> HIDE DEF j, k
      <4>4. j + g.count = g.fresh
        BY <4>1, <4>2, <4>3
      <4> QED
        BY <4>4 DEF j
    <3>5. /\ Slots(T) \cap ToSet(g.recycled) = {}
          /\ Slots(T) \union ToSet(g.recycled) = 1..g.fresh
      <4> DEFINE A == Slots(S)
                 B == ToSet(h.recycled)
                 x == SlotOf(h)
      <4>1. A \cap B = {} /\ A \union B = 1..g.fresh
        BY <1>7, <3>1
      <4>2. Slots(T) = A \union {x} /\ ToSet(g.recycled) = B \ {x} /\ x \in B
        BY <1>6, <3>2, <3>3
      <4> HIDE DEF A, B, x
      <4>3. (A \union {x}) \cap (B \ {x}) = {} /\ (A \union {x}) \union (B \ {x}) = A \union B
        BY <4>1, <4>2
      <4> QED
        BY <4>1, <4>2, <4>3
    <3> QED
      BY <3>3, <3>4, <3>5
  <2> QED
    BY <2>1, <2>2
<1> QED
  BY <1>3, <1>5, <1>8 DEF Ledger, T, Slots

LEMMA LedgerPut ==
  ASSUME NEW h \in Header, NEW g \in Header, NEW S, IsFiniteSet(S), Ledger(h, S),
         NEW o \in S, o.slot \in Slot, \A x \in S : x.slot = o.slot => x = o,
         g.slab = h.slab, g.root = h.root, g.count = h.count - 1,
         g.recycled = <<o.slot>> \o h.recycled, g.fresh = h.fresh
  PROVE  Ledger(g, S \ {o})
<1> DEFINE T == S \ {o}
           Slots(U) == {x.slot : x \in U}
<1>1. /\ h.count \in Nat /\ h.fresh \in Nat
      /\ h.recycled \in Seq(Slot) /\ Len(h.recycled) \in Nat
  BY SlabAssumption DEF Header
<1>3. Cardinality(T) = h.count - 1
  BY FS_RemoveElement DEF Ledger
<1>4. MaxObjects(g) = MaxObjects(h) /\ MaxObjects(h) \in Nat
  BY MaxObjectsIs DEF MaxObjects
<1>5. g.count <= MaxObjects(g)
  BY <1>1, <1>4 DEF Ledger
<1>6. Slots(S) = Slots(T) \union {o.slot} /\ o.slot \notin Slots(T)
  OBVIOUS
<1>7. /\ Slots(S) \cap ToSet(h.recycled) = {}
      /\ Slots(S) \union ToSet(h.recycled) = 1..h.fresh
      /\ Len(h.recycled) + h.count = h.fresh
      /\ \A i, j \in 1..Len(h.recycled) : h.recycled[i] = h.recycled[j] => i = j
  BY DEF Ledger
<1> HIDE DEF T, Slots
<1>8. Len(g.recycled) = Len(h.recycled) + 1 /\ ToSet(g.recycled) = {o.slot} \union ToSet(h.recycled)
  BY <1>1, PushSet
<1>9. o.slot \notin ToSet(h.recycled)
  BY <1>6, <1>7
<1>10. \A i, j \in 1..Len(g.recycled) : g.recycled[i] = g.recycled[j] => i = j
  <2> DEFINE r == h.recycled
  <2>1. r \in Seq(Slot) /\ o.slot \notin ToSet(r)
        /\ \A i, j \in 1..Len(r) : r[i] = r[j] => i = j
    BY <1>1, <1>7, <1>9
  <2> HIDE DEF r
  <2>2. \A i, j \in 1..Len(<<o.slot>> \o r) :
           (<<o.slot>> \o r)[i] = (<<o.slot>> \o r)[j] => i = j
    BY <2>1, PushOnce
  <2>3. g.recycled = <<o.slot>> \o r
    BY DEF r
  <2> QED
    BY <2>2, <2>3
<1>11. Len(g.recycled) + g.count = g.fresh
  BY <1>1, <1>7, <1>8
<1>12. /\ Slots(T) \cap ToSet(g.recycled) = {}
       /\ Slots(T) \union ToSet(g.recycled) = 1..g.fresh
  BY <1>6, <1>7, <1>8
<1> QED
  BY <1>3, <1>5, <1>10, <1>11, <1>12 DEF Ledger, T, Slots

LEMMA LedgerNew ==
  ASSUME NEW h \in Header, h.count = 0, h.recycled = <<>>, h.fresh = 0
  PROVE  Ledger(h, {}) /\ ~ IsFull(h)
<1>1. Cardinality({}) = 0
  BY FS_EmptySet
<1>2. MaxObjects(h) \in Nat /\ 1 <= MaxObjects(h)
  BY MaxObjectsIs
<1>3. ToSet(h.recycled) = {} /\ Len(h.recycled) = 0 /\ 1..h.fresh = {}
  BY NoneIn
<1> QED
  BY <1>1, <1>2, <1>3 DEF Ledger, IsFull

-----------------------------------------------------------------------------
(* What holds of the headers he and the slabs sl while nothing is wrong:   *)
(* a slab whose header is there has a first cache, and a cache with no     *)
(* link is the last one of its slab and the only one.                      *)
Lists(sl, he) ==
  /\ \A c \in Page : he[c] # None => sl[he[c].slab] # None /\ sl[he[c].slab].first # None
  /\ \A c \in Page : he[c] # None /\ Lone(he[c]) =>
       /\ sl[he[c].slab].last = c
       /\ \A d \in Page : he[d] # None /\ he[d].slab = he[c].slab => d = c

(* And what holds of the objects ob: each lies in a cache of its slab that *)
(* is there, nobody else has its slot, and the caches count their own, but *)
(* for those of the slab dy that is being destroyed.                       *)
Object == [slab : Slab, cache : Page, slot : Slot, size : Nat]
Out(ob, c) == {o \in ob : o.cache = c}
At(o, h, dy) ==
  h # None /\ h.slab = o.slab /\ o.slab # dy /\ o.size + HeaderSize <= SlabSizeByIndex(o.slab)

Books(he, ob, dy) ==
  /\ \A o \in ob : At(o, he[o.cache], dy)
  /\ \A o, p \in ob : o.cache = p.cache /\ o.slot = p.slot => o = p
  /\ \A c \in Page : he[c] # None /\ he[c].slab # dy => Ledger(he[c], Out(ob, c))

Slabbed == [Slab -> SlabHeader \union {None}]

LEMMA ListsKept ==
  ASSUME NEW m \in Mem, NEW n \in Mem, NEW sl \in Slabbed, Lists(sl, m.heads),
         sl[m.id] = m.slab, n.id = m.id,
         n.slab.first = m.slab.first, n.slab.last = m.slab.last,
         \A d \in Page : n.heads[d] = None <=> m.heads[d] = None,
         \A d \in Page : m.heads[d] # None => SameBut(m.heads[d], n.heads[d])
  PROVE  Lists([sl EXCEPT ![m.id] = n.slab], n.heads)
<1> DEFINE tl == [sl EXCEPT ![m.id] = n.slab]
<1>1. m.id \in Slab /\ n.slab \in SlabHeader /\ n.slab # None
  BY SlabAssumption DEF Mem
<1>2. \A k \in Slab : /\ sl[k] # None => tl[k] # None /\ tl[k].first = sl[k].first
                                          /\ tl[k].last = sl[k].last
  BY <1>1 DEF Slabbed
<1>3. \A d \in Page : m.heads[d] # None => m.heads[d].slab \in Slab
  BY HeadIs DEF Header
<1> HIDE DEF tl
<1>4. ASSUME NEW c \in Page, n.heads[c] # None
      PROVE  tl[n.heads[c].slab] # None /\ tl[n.heads[c].slab].first # None
  <2>1. m.heads[c] # None /\ n.heads[c].slab = m.heads[c].slab
    BY <1>4 DEF SameBut
  <2>2. sl[m.heads[c].slab] # None /\ sl[m.heads[c].slab].first # None
    BY <2>1 DEF Lists
  <2> QED
    BY <1>2, <1>3, <2>1, <2>2
<1>5. ASSUME NEW c \in Page, n.heads[c] # None, Lone(n.heads[c])
      PROVE  /\ tl[n.heads[c].slab].last = c
             /\ \A d \in Page : n.heads[d] # None /\ n.heads[d].slab = n.heads[c].slab => d = c
  <2>1. m.heads[c] # None /\ n.heads[c].slab = m.heads[c].slab /\ Lone(m.heads[c])
    BY <1>5 DEF SameBut
  <2>2. /\ sl[m.heads[c].slab] # None /\ sl[m.heads[c].slab].last = c
        /\ \A d \in Page : m.heads[d] # None /\ m.heads[d].slab = m.heads[c].slab => d = c
    BY <2>1 DEF Lists
  <2>3. \A d \in Page : n.heads[d] # None => m.heads[d] # None /\ n.heads[d].slab = m.heads[d].slab
    BY DEF SameBut
  <2> QED
    BY <1>2, <1>3, <2>1, <2>2, <2>3
<1> QED
  BY <1>4, <1>5 DEF Lists, tl

LEMMA ListsGrown ==
  ASSUME NEW m \in Mem, NEW c \in Page, m.heads[c] = None, NEW sl \in Slabbed, Lists(sl, m.heads),
         sl[m.id] = m.slab \/ (sl[m.id] = None /\ m.slab.first = None),
         ~ CacheInit(m, c).broken
  PROVE  Lists([sl EXCEPT ![m.id] = CacheInit(m, c).slab], CacheInit(m, c).heads)
<1> DEFINE n == CacheInit(m, c)
           tl == [sl EXCEPT ![m.id] = n.slab]
           alone == m.slab.first = None
           last == m.slab.last
<1>0. c # None
  BY SlabAssumption
<1>1. /\ n \in Mem /\ n.slab.last = c
      /\ n.slab.first = IF alone THEN c ELSE m.slab.first
      /\ n.heads[c].slab = m.id
      /\ \A d \in Page : d # c => (n.heads[d] = None <=> m.heads[d] = None)
      /\ \A d \in Page : d # c /\ d # last => n.heads[d] = m.heads[d]
  BY CacheInitIs DEF Begun
<1>2. alone => \A d \in Page : d # c => n.heads[d] = m.heads[d]
  BY CacheInitIs DEF Begun
<1>3. ~ alone => /\ last \in Page /\ n.heads[c].prev = last
                 /\ last # c => /\ Holds(m, last)
                                /\ n.heads[last] = [m.heads[last] EXCEPT !.next = c]
  BY CacheInitIs DEF Begun
<1> HIDE DEF n, last
<1>4. m.id \in Slab /\ n.slab \in SlabHeader /\ n.slab # None /\ n.slab.first # None
  BY <1>0, <1>1, SlabAssumption DEF Mem
<1>5. tl[m.id] = n.slab /\ \A k \in Slab : k # m.id => tl[k] = sl[k]
  BY <1>4 DEF Slabbed
<1> HIDE DEF tl
<1>6. \A d \in Page : m.heads[d] # None => m.heads[d].slab \in Slab
  BY HeadIs DEF Header
<1>7. alone => \A d \in Page : m.heads[d] # None => m.heads[d].slab # m.id
  BY DEF Lists
<1>8. ASSUME NEW d \in Page, d # c, n.heads[d] # None
      PROVE  /\ m.heads[d] # None /\ n.heads[d].slab = m.heads[d].slab
             /\ Lone(n.heads[d]) => n.heads[d] = m.heads[d]
  <2>1. m.heads[d] # None
    BY <1>1, <1>8
  <2>2. CASE n.heads[d] = m.heads[d]
    BY <2>1, <2>2
  <2>3. CASE ~ alone /\ d = last
    <3>1. n.heads[d] = [m.heads[d] EXCEPT !.next = c]
      BY <1>3, <1>8, <2>3
    <3>2. m.heads[d] \in Header
      BY <2>1, HeadIs
    <3>3. n.heads[d].next = c /\ n.heads[d].slab = m.heads[d].slab
      BY <3>1, <3>2 DEF Header
    <3> QED
      BY <1>0, <2>1, <3>3 DEF Lone
  <2> QED
    BY <1>1, <1>2, <1>8, <2>2, <2>3
<1>9. ASSUME NEW d \in Page, n.heads[d] # None
      PROVE  tl[n.heads[d].slab] # None /\ tl[n.heads[d].slab].first # None
  <2>1. CASE n.heads[d].slab = m.id
    BY <1>4, <1>5, <2>1
  <2>2. CASE n.heads[d].slab # m.id
    <3>1. d # c
      BY <1>1, <2>2
    <3>2. m.heads[d] # None /\ n.heads[d].slab = m.heads[d].slab
      BY <1>8, <1>9, <3>1
    <3>3. sl[m.heads[d].slab] # None /\ sl[m.heads[d].slab].first # None
      BY <3>2 DEF Lists
    <3> QED
      BY <1>5, <1>6, <2>2, <3>2, <3>3
  <2> QED
    BY <2>1, <2>2
<1>10. ASSUME NEW d \in Page, n.heads[d] # None, Lone(n.heads[d])
       PROVE  /\ tl[n.heads[d].slab].last = d
              /\ \A e \in Page : n.heads[e] # None /\ n.heads[e].slab = n.heads[d].slab => e = d
  <2>1. CASE d = c
    <3>1. alone
      <4>1. SUFFICES ASSUME ~ alone PROVE FALSE
        OBVIOUS
      <4>2. n.heads[c].prev # None
        BY <1>3, <4>1, SlabAssumption
      <4> QED
        BY <1>10, <2>1, <4>2 DEF Lone
    <3>2. \A e \in Page : e # c /\ n.heads[e] # None => n.heads[e].slab # m.id
      BY <1>7, <1>8, <3>1
    <3> QED
      BY <1>1, <1>5, <2>1, <3>2
  <2>2. CASE d # c
    <3>1. m.heads[d] # None /\ n.heads[d] = m.heads[d] /\ Lone(m.heads[d])
      BY <1>8, <1>10, <2>2
    <3>2. /\ sl[m.heads[d].slab] # None /\ sl[m.heads[d].slab].last = d
          /\ \A e \in Page : m.heads[e] # None /\ m.heads[e].slab = m.heads[d].slab => e = d
      BY <3>1 DEF Lists
    <3>3. m.heads[d].slab # m.id
      <4>1. SUFFICES ASSUME m.heads[d].slab = m.id PROVE FALSE
        OBVIOUS
      <4>2. ~ alone
        BY <1>7, <3>1, <4>1
      <4>3. d = last
        BY <3>2, <4>1, <4>2 DEF last
      <4>4. n.heads[d] = [m.heads[d] EXCEPT !.next = c] /\ m.heads[d] \in Header
        BY <1>3, <2>2, <3>1, <4>2, <4>3, HeadIs
      <4>5. n.heads[d].next = c
        BY <4>4 DEF Header
      <4> QED
        BY <1>0, <1>10, <4>5 DEF Lone
    <3>4. \A e \in Page : n.heads[e] # None /\ n.heads[e].slab = m.heads[d].slab => e = d
      BY <1>1, <1>8, <3>2, <3>3
    <3> QED
      BY <1>5, <1>6, <3>1, <3>2, <3>3, <3>4
  <2> QED
    BY <2>1, <2>2
<1> QED
  BY <1>9, <1>10 DEF Lists, tl, n

LEMMA ListsCut ==
  ASSUME NEW m \in Mem, NEW n \in Mem, NEW c \in Page, m.heads[c] # None, m.heads[c].slab = m.id,
         NEW sl \in Slabbed, Lists(sl, m.heads), sl[m.id] = m.slab, n.id = m.id,
         n.slab.first = IF m.heads[c].prev = None THEN m.heads[c].next ELSE m.slab.first,
         n.slab.last = IF m.heads[c].next = None THEN m.heads[c].prev ELSE m.slab.last,
         n.heads[c] = None,
         \A d \in Page : d # c => (n.heads[d] = None <=> m.heads[d] = None),
         \A d \in Page : d # c /\ m.heads[d] # None => SameBut(m.heads[d], n.heads[d])
  PROVE  Lists([sl EXCEPT ![m.id] = n.slab], n.heads)
<1> DEFINE tl == [sl EXCEPT ![m.id] = n.slab]
           h == m.heads[c]
<1>1. m.id \in Slab /\ n.slab \in SlabHeader /\ n.slab # None
  BY SlabAssumption DEF Mem
<1>2. tl[m.id] = n.slab /\ \A k \in Slab : k # m.id => tl[k] = sl[k]
  BY <1>1 DEF Slabbed
<1> HIDE DEF tl
<1>3. \A d \in Page : m.heads[d] # None => m.heads[d].slab \in Slab
  BY HeadIs DEF Header
<1>4. \A d \in Page : n.heads[d] # None =>
        /\ d # c /\ m.heads[d] # None /\ n.heads[d].slab = m.heads[d].slab
        /\ Lone(n.heads[d]) => Lone(m.heads[d])
  BY DEF SameBut
<1>5. ASSUME NEW d \in Page, n.heads[d] # None, m.heads[d].slab = m.id
      PROVE  n.slab.first # None
  <2>1. m.heads[d] # None /\ d # c
    BY <1>4, <1>5
  <2>2. ~ Lone(h)
    BY <1>5, <2>1 DEF Lists
  <2>3. m.slab.first # None
    BY DEF Lists
  <2> QED
    BY <2>2, <2>3 DEF Lone
<1>6. ASSUME NEW d \in Page, n.heads[d] # None
      PROVE  tl[n.heads[d].slab] # None /\ tl[n.heads[d].slab].first # None
  <2>1. m.heads[d] # None /\ n.heads[d].slab = m.heads[d].slab
    BY <1>4, <1>6
  <2>2. sl[m.heads[d].slab] # None /\ sl[m.heads[d].slab].first # None
    BY <2>1 DEF Lists
  <2> QED
    BY <1>1, <1>2, <1>3, <1>5, <1>6, <2>1, <2>2
<1>7. ASSUME NEW d \in Page, n.heads[d] # None, Lone(n.heads[d])
      PROVE  /\ tl[n.heads[d].slab].last = d
             /\ \A e \in Page : n.heads[e] # None /\ n.heads[e].slab = n.heads[d].slab => e = d
  <2>1. m.heads[d] # None /\ n.heads[d].slab = m.heads[d].slab /\ Lone(m.heads[d]) /\ d # c
    BY <1>4, <1>7
  <2>2. /\ sl[m.heads[d].slab].last = d
        /\ \A e \in Page : m.heads[e] # None /\ m.heads[e].slab = m.heads[d].slab => e = d
    BY <2>1 DEF Lists
  <2>3. m.heads[d].slab # m.id
    BY <2>1, <2>2
  <2> QED
    BY <1>2, <1>3, <1>4, <2>1, <2>2, <2>3
<1> QED
  BY <1>6, <1>7 DEF Lists, tl

LEMMA BooksChange ==
  ASSUME NEW m \in Mem, NEW n \in Mem, NEW c \in Page, NEW dy,
         NEW ob \in SUBSET Object, NEW pb \in SUBSET Object, Books(m.heads, ob, dy),
         \A d \in Page : d # c => (n.heads[d] = None <=> m.heads[d] = None),
         \A d \in Page : d # c /\ m.heads[d] # None =>
           /\ SameBut(m.heads[d], n.heads[d])
           /\ n.heads[d].count = m.heads[d].count
           /\ n.heads[d].recycled = m.heads[d].recycled
           /\ n.heads[d].fresh = m.heads[d].fresh,
         \A d \in Page : d # c => Out(pb, d) = Out(ob, d),
         \A o \in Out(pb, c) : At(o, n.heads[c], dy),
         \A o, p \in Out(pb, c) : o.slot = p.slot => o = p,
         n.heads[c] # None /\ n.heads[c].slab # dy => Ledger(n.heads[c], Out(pb, c))
  PROVE  Books(n.heads, pb, dy)
<1>1. \A o \in pb : o.cache \in Page
  BY DEF Object
<1>2. \A o \in pb : o.cache # c => o \in ob
  <2>1. \A o \in pb : o \in Out(pb, o.cache)
    BY DEF Out
  <2>2. \A o \in pb : o.cache # c => o \in Out(ob, o.cache)
    BY <1>1, <2>1
  <2> QED
    BY <2>2 DEF Out
<1>3. ASSUME NEW o \in pb PROVE At(o, n.heads[o.cache], dy)
  <2>1. CASE o.cache = c
    BY <2>1 DEF Out
  <2>2. CASE o.cache # c
    <3>1. At(o, m.heads[o.cache], dy)
      BY <1>2, <2>2 DEF Books
    <3> QED
      BY <1>1, <2>2, <3>1 DEF At, SameBut
  <2> QED
    BY <2>1, <2>2
<1>4. ASSUME NEW o \in pb, NEW p \in pb, o.cache = p.cache, o.slot = p.slot PROVE o = p
  <2>1. CASE o.cache = c
    BY <1>4, <2>1 DEF Out
  <2>2. CASE o.cache # c
    BY <1>2, <1>4, <2>2 DEF Books
  <2> QED
    BY <2>1, <2>2
<1>5. ASSUME NEW d \in Page, n.heads[d] # None, n.heads[d].slab # dy
      PROVE  Ledger(n.heads[d], Out(pb, d))
  <2>1. CASE d = c
    BY <1>5, <2>1
  <2>2. CASE d # c
    <3>1. /\ m.heads[d] # None /\ n.heads[d].slab = m.heads[d].slab
          /\ n.heads[d].root = m.heads[d].root
          /\ n.heads[d].count = m.heads[d].count
          /\ n.heads[d].recycled = m.heads[d].recycled
          /\ n.heads[d].fresh = m.heads[d].fresh
      BY <1>5, <2>2 DEF SameBut
    <3>2. Ledger(m.heads[d], Out(pb, d))
      BY <1>5, <2>2, <3>1 DEF Books
    <3> QED
      BY <3>1, <3>2, LedgerSame
  <2> QED
    BY <2>1, <2>2
<1> QED
  BY <1>3, <1>4, <1>5 DEF Books

(* A new cache has nobody's object.                                        *)
LEMMA InitBooks ==
  ASSUME NEW m \in Mem, NEW c \in Page, m.heads[c] = None, NEW ob \in SUBSET Object, NEW dy,
         Books(m.heads, ob, dy), ~ CacheInit(m, c).broken
  PROVE  Books(CacheInit(m, c).heads, ob, dy) /\ Out(ob, c) = {}
<1> DEFINE n == CacheInit(m, c)
           alone == m.slab.first = None
           last == m.slab.last
<1>1. /\ n \in Mem /\ n.heads[c] # None
      /\ n.heads[c].count = 0 /\ n.heads[c].recycled = <<>> /\ n.heads[c].fresh = 0
      /\ \A d \in Page : d # c => (n.heads[d] = None <=> m.heads[d] = None)
      /\ \A d \in Page : d # c /\ d # last => n.heads[d] = m.heads[d]
  BY CacheInitIs DEF Begun
<1>2. /\ alone => \A d \in Page : d # c => n.heads[d] = m.heads[d]
      /\ ~ alone /\ last # c => n.heads[last] = [m.heads[last] EXCEPT !.next = c]
  BY CacheInitIs DEF Begun
<1>3. c # None
  BY SlabAssumption
<1> HIDE DEF n, last
<1>4. Out(ob, c) = {}
  <2>1. \A o \in ob : m.heads[o.cache] # None
    BY DEF Books, At
  <2> QED
    BY <2>1 DEF Out
<1>5. n.heads[c] \in Header
  BY <1>1, HeadIs
<1>6. Ledger(n.heads[c], {})
  BY <1>1, <1>5, LedgerNew
<1>7. ASSUME NEW d \in Page, d # c, m.heads[d] # None
      PROVE  /\ SameBut(m.heads[d], n.heads[d])
             /\ n.heads[d].count = m.heads[d].count
             /\ n.heads[d].recycled = m.heads[d].recycled
             /\ n.heads[d].fresh = m.heads[d].fresh
  <2>1. CASE n.heads[d] = m.heads[d]
    BY <2>1 DEF SameBut
  <2>2. CASE ~ alone /\ d = last
    <3>1. n.heads[d] = [m.heads[d] EXCEPT !.next = c] /\ m.heads[d] \in Header
      BY <1>2, <1>7, <2>2, HeadIs
    <3>2. /\ n.heads[d].next = c /\ n.heads[d].slab = m.heads[d].slab
          /\ n.heads[d].root = m.heads[d].root /\ n.heads[d].count = m.heads[d].count
          /\ n.heads[d].recycled = m.heads[d].recycled /\ n.heads[d].fresh = m.heads[d].fresh
      BY <3>1 DEF Header
    <3> QED
      BY <1>3, <3>2 DEF SameBut, Lone
  <2> QED
    BY <1>1, <1>2, <1>7, <2>1, <2>2
<1>8. Books(n.heads, ob, dy)
  BY <1>1, <1>4, <1>6, <1>7, BooksChange
<1> QED
  BY <1>4, <1>8 DEF n

(* slab_cache_alloc hands out a slot that nobody has.                      *)
LEMMA TakeBooks ==
  ASSUME NEW m \in Mem, NEW c \in Page, m.heads[c] # None, m.heads[c].slab = m.id,
         NEW dy, m.id # dy, NEW ob \in SUBSET Object, IsFiniteSet(ob), Books(m.heads, ob, dy),
         ~ IsFull(m.heads[c]), NEW size \in Nat, size + HeaderSize <= SlabSizeByIndex(m.id)
  PROVE  LET o == [slab |-> m.id, size |-> size, cache |-> c, slot |-> SlotOf(m.heads[c])]
             r == CacheAlloc(m, c)
         IN /\ o \in Object
            /\ m.heads[c].count < CacheObjects
            /\ m.heads[c].recycled = <<>> => m.heads[c].fresh < CacheObjects
            /\ ~ r.broken => Books(r.heads, ob \union {o}, dy)
<1> DEFINE h == m.heads[c]
           o == [slab |-> m.id, size |-> size, cache |-> c, slot |-> SlotOf(h)]
           r == CacheAlloc(m, c)
           pb == ob \union {o}
<1>1. h \in Header
  BY HeadIs
<1>2. Ledger(h, Out(ob, c))
  BY DEF Books
<1>3. /\ h.count < CacheObjects /\ (h.recycled = <<>> => h.fresh < CacheObjects)
      /\ SlotOf(h) \in Slot /\ \A x \in Out(ob, c) : x.slot # SlotOf(h)
  BY <1>1, <1>2, LedgerRoom
<1>4. m.id \in Slab
  BY DEF Mem
<1>5. /\ o \in Object /\ o.slab = m.id /\ o.size = size /\ o.cache = c /\ o.slot = SlotOf(h)
  BY <1>3, <1>4 DEF Object
<1> HIDE DEF o
<1>6. ASSUME ~ r.broken PROVE Books(r.heads, pb, dy)
  <2>1. /\ r \in Mem
        /\ \A d \in Page : r.heads[d] = None <=> m.heads[d] = None
        /\ \A d \in Page : m.heads[d] # None => SameBut(m.heads[d], r.heads[d])
        /\ \A d \in Page : m.heads[d] # None /\ d # c =>
             /\ r.heads[d].count = m.heads[d].count
             /\ r.heads[d].recycled = m.heads[d].recycled
             /\ r.heads[d].fresh = m.heads[d].fresh
    BY <1>3, CacheAllocIs
  <2>2. /\ r.heads[c].count = h.count + 1
        /\ h.recycled = <<>> => r.heads[c].recycled = <<>> /\ r.heads[c].fresh = h.fresh + 1
        /\ h.recycled # <<>> => r.heads[c].recycled = Tail(h.recycled) /\ r.heads[c].fresh = h.fresh
    BY <1>3, <1>6, CacheAllocIs
  <2> HIDE DEF r
  <2>3. r.heads[c] # None /\ r.heads[c] \in Header /\ r.heads[c].slab = h.slab
        /\ r.heads[c].root = h.root
    BY <2>1, HeadIs DEF SameBut
  <2>4. Out(pb, c) = Out(ob, c) \union {o} /\ \A d \in Page : d # c => Out(pb, d) = Out(ob, d)
    BY <1>5 DEF Out
  <2>5. IsFiniteSet(Out(ob, c))
    BY FS_Subset DEF Out
  <2> HIDE DEF h
  <2>6. Ledger(r.heads[c], Out(ob, c) \union {o})
    <3> DEFINE g == r.heads[c]
               S == Out(ob, c)
    <3>1. /\ h \in Header /\ g \in Header /\ IsFiniteSet(S) /\ Ledger(h, S) /\ ~ IsFull(h)
          /\ o.slot = SlotOf(h) /\ g.slab = h.slab /\ g.root = h.root /\ g.count = h.count + 1
          /\ h.recycled = <<>> => g.recycled = <<>> /\ g.fresh = h.fresh + 1
          /\ h.recycled # <<>> => g.recycled = Tail(h.recycled) /\ g.fresh = h.fresh
      BY <1>1, <1>2, <1>5, <2>2, <2>3, <2>5 DEF h
    <3> HIDE DEF g, S
    <3>2. Ledger(g, S \union {o})
      BY <3>1, LedgerTake
    <3> QED
      BY <3>2 DEF g, S
  <2>7. ASSUME NEW x \in Out(pb, c) PROVE At(x, r.heads[c], dy)
    <3>1. CASE x = o
      BY <1>5, <2>3, <3>1 DEF At, h
    <3>2. CASE x \in Out(ob, c)
      <4>1. At(x, m.heads[c], dy)
        BY <3>2 DEF Out, Books
      <4> QED
        BY <2>3, <4>1 DEF At, h
    <3> QED
      BY <2>4, <3>1, <3>2
  <2>8. ASSUME NEW x \in Out(pb, c), NEW y \in Out(pb, c), x.slot = y.slot PROVE x = y
    <3>1. CASE x \in Out(ob, c) /\ y \in Out(ob, c)
      BY <2>8, <3>1 DEF Out, Books
    <3> QED
      BY <1>3, <1>5, <2>4, <2>8, <3>1
  <2>9. pb \in SUBSET Object
    BY <1>5
  <2>10. /\ \A d \in Page : d # c => (r.heads[d] = None <=> m.heads[d] = None)
         /\ \A d \in Page : d # c /\ m.heads[d] # None =>
             /\ SameBut(m.heads[d], r.heads[d])
             /\ r.heads[d].count = m.heads[d].count
             /\ r.heads[d].recycled = m.heads[d].recycled
             /\ r.heads[d].fresh = m.heads[d].fresh
    BY <2>1
  <2>11. r.heads[c] # None /\ r.heads[c].slab # dy => Ledger(r.heads[c], Out(pb, c))
    BY <2>4, <2>6
  <2>12. \A d \in Page : d # c => Out(pb, d) = Out(ob, d)
    BY <2>4
  <2>13. r \in Mem
    BY <2>1
  <2> HIDE DEF pb
  <2> QED
    BY <2>7, <2>8, <2>9, <2>10, <2>11, <2>12, <2>13, BooksChange
<1> QED
  BY <1>3, <1>5, <1>6 DEF o

(* slab_cache_free takes back what was handed out.                         *)
LEMMA PutBooks ==
  ASSUME NEW m \in Mem, NEW dy, NEW ob \in SUBSET Object, IsFiniteSet(ob),
         Books(m.heads, ob, dy), NEW o \in ob
  PROVE  /\ o.cache \in Page /\ o.slot \in Slot
         /\ m.heads[o.cache] # None /\ m.heads[o.cache].slab = o.slab
         /\ m.heads[o.cache].count > 0
         /\ Books(CacheFree(m, o.cache, o.slot).heads, ob \ {o}, dy)
<1> DEFINE c == o.cache
           h == m.heads[c]
           r == CacheFree(m, c, o.slot)
           pb == ob \ {o}
           S == Out(ob, c)
<1>1. c \in Page /\ o.slot \in Slot
  BY DEF Object
<1>2. h # None /\ h.slab = o.slab /\ o.slab # dy
  BY DEF Books, At
<1>3. h \in Header
  BY <1>1, <1>2, HeadIs
<1>4. Ledger(h, S)
  BY <1>1, <1>2 DEF Books
<1>5. o \in S /\ IsFiniteSet(S)
  BY FS_Subset DEF Out
<1>6. h.count > 0
  <2>1. h.count = Cardinality(S) /\ h.count \in Nat
    BY <1>3, <1>4 DEF Ledger, Header
  <2>2. S # {}
    BY <1>5
  <2> HIDE DEF S
  <2>3. Cardinality(S) # 0
    BY <1>5, <2>2, FS_EmptySet
  <2> QED
    BY <2>1, <2>3
<1>7. /\ r \in Mem
      /\ \A d \in Page : r.heads[d] = None <=> m.heads[d] = None
      /\ \A d \in Page : m.heads[d] # None => SameBut(m.heads[d], r.heads[d])
      /\ \A d \in Page : m.heads[d] # None /\ d # c =>
           /\ r.heads[d].count = m.heads[d].count
           /\ r.heads[d].recycled = m.heads[d].recycled
           /\ r.heads[d].fresh = m.heads[d].fresh
      /\ r.heads[c].count = h.count - 1
      /\ r.heads[c].recycled = <<o.slot>> \o h.recycled
      /\ r.heads[c].fresh = h.fresh
  BY <1>1, <1>2, <1>6, CacheFreeIs, ZenonT(60)
<1> HIDE DEF r, h, c
<1>8. r.heads[c] # None /\ r.heads[c] \in Header /\ r.heads[c].slab = h.slab
      /\ r.heads[c].root = h.root
  BY <1>1, <1>2, <1>7, HeadIs DEF SameBut, h
<1>9. Out(pb, c) = S \ {o} /\ \A d \in Page : d # c => Out(pb, d) = Out(ob, d)
  BY DEF Out, c
<1>10. \A x \in S : x \in ob /\ x.cache = c
  BY DEF Out
<1>11. \A x, y \in S : x.slot = y.slot => x = y
  BY <1>10 DEF Books
<1> HIDE DEF S
<1>12. Ledger(r.heads[c], S \ {o})
  <2> DEFINE g == r.heads[c]
  <2>1. /\ h \in Header /\ g \in Header /\ IsFiniteSet(S) /\ Ledger(h, S)
        /\ o \in S /\ o.slot \in Slot /\ \A x \in S : x.slot = o.slot => x = o
        /\ g.slab = h.slab /\ g.root = h.root /\ g.count = h.count - 1
        /\ g.recycled = <<o.slot>> \o h.recycled /\ g.fresh = h.fresh
    BY <1>1, <1>3, <1>4, <1>5, <1>7, <1>8, <1>11
  <2> HIDE DEF g
  <2>2. Ledger(g, S \ {o})
    BY <2>1, LedgerPut
  <2> QED
    BY <2>2 DEF g
<1>13. ASSUME NEW x \in Out(pb, c) PROVE At(x, r.heads[c], dy)
  <2>1. At(x, m.heads[c], dy)
    BY <1>9, <1>10 DEF Books
  <2> QED
    BY <1>8, <2>1 DEF At, h
<1>14. \A x, y \in Out(pb, c) : x.slot = y.slot => x = y
  BY <1>9, <1>11
<1>15. pb \in SUBSET Object
  OBVIOUS
<1> HIDE DEF pb
<1>16. Books(r.heads, pb, dy)
  <2>1. /\ \A d \in Page : d # c => (r.heads[d] = None <=> m.heads[d] = None)
        /\ \A d \in Page : d # c /\ m.heads[d] # None =>
            /\ SameBut(m.heads[d], r.heads[d])
            /\ r.heads[d].count = m.heads[d].count
            /\ r.heads[d].recycled = m.heads[d].recycled
            /\ r.heads[d].fresh = m.heads[d].fresh
    BY <1>7
  <2>2. r.heads[c] # None /\ r.heads[c].slab # dy => Ledger(r.heads[c], Out(pb, c))
    BY <1>9, <1>12
  <2>3. /\ \A d \in Page : d # c => Out(pb, d) = Out(ob, d)
        /\ r \in Mem
    BY <1>7, <1>9
  <2> QED
    BY <1>1, <1>13, <1>14, <1>15, <2>1, <2>2, <2>3, BooksChange
<1> QED
  BY <1>1, <1>2, <1>6, <1>16 DEF r, h, c, pb

(* A cache may go when nobody has an object of it.                         *)
LEMMA DropBooks ==
  ASSUME NEW m \in Mem, NEW c \in Page, m.heads[c] # None,
         NEW dy, NEW ob \in SUBSET Object, Books(m.heads, ob, dy), Out(ob, c) = {}
  PROVE  Books(CacheDestroy(m, c).heads, ob, dy)
<1> DEFINE r == CacheDestroy(m, c)
<1>1. /\ r \in Mem /\ r.heads[c] = None
      /\ \A d \in Page : d # c => (r.heads[d] = None <=> m.heads[d] = None)
      /\ \A d \in Page : d # c /\ m.heads[d] # None =>
           /\ SameBut(m.heads[d], r.heads[d])
           /\ r.heads[d].count = m.heads[d].count
           /\ r.heads[d].recycled = m.heads[d].recycled
           /\ r.heads[d].fresh = m.heads[d].fresh
  BY CacheDestroyIs
<1> HIDE DEF r
<1>2. Books(r.heads, ob, dy)
  BY <1>1, BooksChange
<1> QED
  BY <1>2 DEF r

-----------------------------------------------------------------------------
(* The slabs.  A header lies in a block that was handed out for a cache;   *)
(* and while nothing is wrong, lists and books are as they should be.      *)
Calm == ~ shared /\ ~ broken

SlabInv ==
  /\ SlabTypeOK /\ IsFiniteSet(objects)
  /\ \A c \in Page : heads[c] # None => \E b \in live : b.page = c /\ b.asked = CachePages
  /\ Calm => Lists(slabs, heads) /\ Books(heads, objects, dying)

LEMMA MemoryIs ==
  ASSUME SlabInv, NEW s \in Slab, slabs[s] # None
  PROVE  /\ Memory(s) \in Mem /\ Memory(s).id = s /\ Memory(s).slab = slabs[s]
         /\ Memory(s).heads = heads /\ Memory(s).broken = broken
<1>1. slabs[s] \in SlabHeader
  BY DEF SlabInv, SlabTypeOK
<1> QED
  BY <1>1 DEF SlabInv, SlabTypeOK, Memory, Mem

LEMMA Kept ==
  ASSUME SlabInv, NEW s \in Slab, NEW n \in Mem, Store(s, n),
         objects' \in SUBSET Object, IsFiniteSet(objects'), dying' \in Slab \union {None},
         \A c \in Page : n.heads[c] # None => \E b \in live' : b.page = c /\ b.asked = CachePages,
         Calm' => /\ Lists([slabs EXCEPT ![s] = n.slab], n.heads)
                  /\ Books(n.heads, objects', dying')
  PROVE  SlabInv'
<1>1. /\ slabs' = [slabs EXCEPT ![s] = n.slab] /\ heads' = n.heads
      /\ disordered' = n.disordered /\ broken' = n.broken
  BY DEF Store
<1>2. /\ n.slab \in SlabHeader /\ n.heads \in [Page -> Header \union {None}]
      /\ n.disordered \in BOOLEAN /\ n.broken \in BOOLEAN
  BY DEF Mem
<1>3. slabs' \in [Slab -> SlabHeader \union {None}]
  BY <1>1, <1>2 DEF SlabInv, SlabTypeOK
<1>4. SlabTypeOK'
  BY <1>1, <1>2, <1>3 DEF SlabTypeOK, Object
<1>5. \A c \in Page : heads'[c] # None => \E b \in live' : b.page = c /\ b.asked = CachePages
  BY <1>1
<1>6. Calm' => Lists(slabs', heads') /\ Books(heads', objects', dying')
  BY <1>1
<1> QED
  BY <1>4, <1>5, <1>6 DEF SlabInv

LEMMA AllocIs ==
  ASSUME BuddyInv, NEW pages \in Sizes, Alloc(pages)
  PROVE  /\ Given(pages) \in Page /\ live \subseteq live' /\ ~ shared
         /\ \E b \in live' : b.page = Given(pages) /\ b.asked = pages
         /\ \A b \in live : b.page = Given(pages) => shared'
<1> DEFINE fit == BestFitLayer(pages)
           page == Given(pages)
           new == [page |-> page, layer |-> fit, asked |-> pages]
<1>1. fit \in Layer /\ page \in Page
  BY GivenIs DEF Alloc
<1>2. /\ live' = live \union {new} /\ ~ shared
      /\ shared' = \E b \in live : Held(b) \cap Pages(page, fit) # {}
  BY DEF Alloc
<1>3. \A l \in Layer : page \in Pages(page, l)
  <2>1. page \in Nat /\ \A l \in Layer : BlockSize(l) \in Nat \ {0}
    BY <1>1, BlockSizeIs, Sized DEF Page
  <2> HIDE DEF page
  <2> QED
    BY <2>1 DEF Pages
<1>4. new.page = page /\ new.asked = pages
  OBVIOUS
<1>5. ASSUME NEW b \in live, b.page = page PROVE shared'
  <2>1. b.layer \in Layer
    BY DEF BuddyInv, BuddyTypeOK
  <2>2. page \in Held(b) /\ page \in Pages(page, fit)
    BY <1>1, <1>3, <1>5, <2>1 DEF Held
  <2> HIDE DEF page, fit
  <2> QED
    BY <1>2, <2>2
<1> HIDE DEF new
<1> QED
  BY <1>1, <1>2, <1>4, <1>5

(* No cache begins where one begins already, unless memory is shared.      *)
LEMMA NewPage ==
  ASSUME BuddyInv, SlabInv, NEW pages \in Sizes, Alloc(pages), ~ shared'
  PROVE  heads[Given(pages)] = None
<1>1. Given(pages) \in Page /\ \A b \in live : b.page = Given(pages) => shared'
  BY AllocIs
<1> QED
  BY <1>1 DEF SlabInv

LEMMA CacheSize == CachePages \in Sizes
BY SlabAssumption

LEMMA InitSlabStep ==
  ASSUME BuddyInv, SlabInv, NEW s \in Slab, InitSlab(s)
  PROVE  SlabInv'
<1> DEFINE c == Given(CachePages)
           m == [Memory(s) EXCEPT !.slab = NoCaches]
           n == CacheInit(m, c)
<1>1. slabs[s] = None /\ Alloc(CachePages) /\ Store(s, n) /\ objects' = objects /\ dying' = dying
      /\ ~ shared /\ ~ broken
  BY DEF InitSlab, SlabInit, Sane
<1>2. /\ c \in Page /\ live \subseteq live'
      /\ \E b \in live' : b.page = c /\ b.asked = CachePages
  BY <1>1, CacheSize, AllocIs
<1>3. ~ shared' => heads[c] = None
  BY <1>1, CacheSize, NewPage
<1>4. NoCaches \in SlabHeader /\ NoCaches.first = None
  BY DEF NoCaches, SlabHeader, Link
<1>5. m \in Mem /\ m.id = s /\ m.slab = NoCaches /\ m.heads = heads /\ m.broken = broken
  BY <1>4 DEF Memory, Mem, SlabInv, SlabTypeOK
<1> HIDE DEF m, c
<1>6. /\ n \in Mem /\ \A d \in Page : d # c => (n.heads[d] = None <=> m.heads[d] = None)
  <2>1. m \in Mem /\ c \in Page
    BY <1>2, <1>5
  <2>2. Begun(m, n, c)
    BY <2>1, CacheInitIs
  <2> HIDE DEF n
  <2> QED
    BY <2>2 DEF Begun
<1>7. \A d \in Page : n.heads[d] # None => \E b \in live' : b.page = d /\ b.asked = CachePages
  BY <1>2, <1>5, <1>6 DEF SlabInv
<1>8. slabs \in Slabbed /\ objects \in SUBSET Object
  BY DEF SlabInv, SlabTypeOK, Slabbed, Object
<1>9. Calm
  BY <1>1 DEF Calm
<1>10. Lists(slabs, heads) /\ Books(heads, objects, dying)
  BY <1>9 DEF SlabInv
<1>11. ASSUME Calm'
       PROVE  Lists([slabs EXCEPT ![s] = n.slab], n.heads) /\ Books(n.heads, objects', dying')
  <2>1. ~ n.broken /\ heads[c] = None
    BY <1>1, <1>3, <1>11 DEF Calm, Store
  <2>2. Lists([slabs EXCEPT ![m.id] = n.slab], n.heads)
    BY <1>1, <1>2, <1>4, <1>5, <1>8, <1>10, <2>1, ListsGrown
  <2>3. Books(n.heads, objects, dying)
    BY <1>2, <1>5, <1>8, <1>10, <2>1, InitBooks
  <2> QED
    BY <1>1, <1>5, <2>2, <2>3
<1> HIDE DEF n
<1>12. dying' \in Slab \union {None} /\ IsFiniteSet(objects')
  BY <1>1 DEF SlabInv, SlabTypeOK
<1> QED
  BY <1>1, <1>6, <1>7, <1>8, <1>11, <1>12, Kept

(* slab_alloc from a cache that has room.                                  *)
LEMMA TakeStep ==
  ASSUME BuddyInv, SlabInv, Sane, NEW s \in Slab, slabs[s] # None, Gives(s), NEW size \in Nat,
         size + HeaderSize <= SlabSizeByIndex(s), slabs[s].free # None, SlabAlloc(s, size)
  PROVE  SlabInv'
<1> DEFINE m == Memory(s)
           c == slabs[s].free
           n == CacheAlloc(m, c)
           r == Using(m, {c}, n)
           o == [slab |-> s, size |-> size, cache |-> c, slot |-> SlotOf(heads[c])]
<1>1. /\ Store(s, r) /\ UNCHANGED buddyVars /\ dying' = dying
      /\ objects' = IF broken' THEN objects ELSE objects \union {o}
  <2>1. ~ Grow(s)
    BY DEF Grow
  <2>2. Take(s)
    BY <2>1 DEF SlabAlloc
  <2> QED
    BY <2>2 DEF SlabAlloc, Take
<1>2. m \in Mem /\ m.id = s /\ m.slab = slabs[s] /\ m.heads = heads /\ m.broken = broken
  BY MemoryIs
<1>3. c \in Link
  BY <1>2 DEF Mem, SlabHeader
<1>4. Calm /\ s # dying
  BY SlabAssumption DEF Sane, Calm, Slab
<1>5. /\ slabs \in Slabbed /\ objects \in SUBSET Object /\ IsFiniteSet(objects)
      /\ dying \in Slab \union {None}
      /\ Lists(slabs, heads) /\ Books(heads, objects, dying)
  BY <1>4 DEF SlabInv, SlabTypeOK, Slabbed, Object
<1>6. live' = live /\ broken' = r.broken
  BY <1>1 DEF buddyVars, Store
<1>7. Holds(m, c) => ~ IsFull(m.heads[c])
  BY <1>2 DEF Gives
<1> HIDE DEF m, c
<1>8. CASE ~ Holds(m, c)
  <2>1. r = [m EXCEPT !.broken = TRUE]
    BY <1>8 DEF Using
  <2>2. r \in Mem /\ r.heads = heads /\ r.broken = TRUE
    BY <1>2, <2>1, BrokenIs DEF Relinked
  <2> HIDE DEF r
  <2>3. ~ Calm'
    BY <1>6, <2>2 DEF Calm
  <2>4. objects' = objects
    BY <1>1, <1>6, <2>2
  <2>5. \A d \in Page : r.heads[d] # None => \E b \in live' : b.page = d /\ b.asked = CachePages
    BY <1>6, <2>2 DEF SlabInv
  <2>6. objects' \in SUBSET Object /\ IsFiniteSet(objects') /\ dying' \in Slab \union {None}
    BY <1>1, <1>5, <2>4
  <2> QED
    BY <1>1, <2>2, <2>3, <2>5, <2>6, Kept
<1>9. CASE Holds(m, c)
  <2>1. r = n
    BY <1>9 DEF Using
  <2>2. c \in Page /\ m.heads[c] # None /\ m.heads[c].slab = m.id /\ ~ IsFull(m.heads[c])
    BY <1>2, <1>3, <1>7, <1>9, HoldsIs
  <2>3. /\ o \in Object
        /\ m.heads[c].count < CacheObjects
        /\ m.heads[c].recycled = <<>> => m.heads[c].fresh < CacheObjects
        /\ ~ n.broken => Books(n.heads, objects \union {o}, dying)
    <3>1. m.id # dying /\ size + HeaderSize <= SlabSizeByIndex(m.id) /\ Books(m.heads, objects, dying)
      BY <1>2, <1>4, <1>5
    <3>2. o = [slab |-> m.id, size |-> size, cache |-> c, slot |-> SlotOf(m.heads[c])]
      BY <1>2
    <3> HIDE DEF o
    <3> QED
      BY <1>2, <1>5, <2>2, <3>1, <3>2, TakeBooks
  <2> HIDE DEF o
  <2>4. /\ n \in Mem /\ n.id = s
        /\ n.slab.first = m.slab.first /\ n.slab.last = m.slab.last
        /\ \A d \in Page : n.heads[d] = None <=> m.heads[d] = None
        /\ \A d \in Page : m.heads[d] # None => SameBut(m.heads[d], n.heads[d])
    BY <1>2, <2>2, <2>3, CacheAllocIs
  <2> HIDE DEF n, r
  <2>5. \A d \in Page : n.heads[d] # None => \E b \in live' : b.page = d /\ b.asked = CachePages
    BY <1>2, <1>6, <2>4 DEF SlabInv
  <2>6. objects' \in SUBSET Object /\ IsFiniteSet(objects') /\ dying' \in Slab \union {None}
    <3>1. IsFiniteSet(objects \union {o})
      BY <1>5, FS_AddElement
    <3> QED
      BY <1>1, <1>5, <2>3, <3>1
  <2>7. Lists([slabs EXCEPT ![s] = n.slab], n.heads)
    <3>1. Lists(slabs, m.heads) /\ slabs[m.id] = m.slab /\ n.id = m.id
      BY <1>2, <1>5, <2>4
    <3>2. Lists([slabs EXCEPT ![m.id] = n.slab], n.heads)
      BY <1>2, <1>5, <2>4, <3>1, ListsKept
    <3> QED
      BY <1>2, <3>2
  <2>8. Calm' => Books(n.heads, objects', dying')
    BY <1>1, <1>6, <2>1, <2>3 DEF Calm
  <2> QED
    BY <1>1, <2>1, <2>4, <2>5, <2>6, <2>7, <2>8, Kept
<1> QED
  BY <1>8, <1>9

(* slab_alloc from a new cache.                                            *)
LEMMA GrowStep ==
  ASSUME BuddyInv, SlabInv, Sane, NEW s \in Slab, slabs[s] # None, NEW size \in Nat,
         size + HeaderSize <= SlabSizeByIndex(s), slabs[s].free = None, SlabAlloc(s, size)
  PROVE  SlabInv'
<1> DEFINE l == Memory(s)
           c == Given(CachePages)
           m == CacheInit(l, c)
           n == CacheAlloc(m, m.slab.free)
           r == IF m.broken THEN m ELSE n
           o == [slab |-> s, size |-> size, cache |-> c, slot |-> 1]
<1>1. /\ Store(s, r) /\ Alloc(CachePages) /\ dying' = dying
      /\ objects' = IF broken' THEN objects ELSE objects \union {o}
  <2>1. Grow(s)
    BY DEF Take, SlabAlloc
  <2> QED
    BY <2>1 DEF SlabAlloc, Grow
<1>2. l \in Mem /\ l.id = s /\ l.slab = slabs[s] /\ l.heads = heads /\ l.broken = broken
  BY MemoryIs
<1>3. c \in Page /\ live \subseteq live' /\ \E b \in live' : b.page = c /\ b.asked = CachePages
  BY <1>1, CacheSize, AllocIs
<1>4. ~ shared' => heads[c] = None
  BY <1>1, CacheSize, NewPage
<1>5. Calm /\ s # dying
  BY SlabAssumption DEF Sane, Calm, Slab
<1>6. /\ slabs \in Slabbed /\ objects \in SUBSET Object /\ IsFiniteSet(objects)
      /\ dying \in Slab \union {None}
      /\ Lists(slabs, heads) /\ Books(heads, objects, dying)
  BY <1>5 DEF SlabInv, SlabTypeOK, Slabbed, Object
<1> HIDE DEF l, c
<1>7. /\ m \in Mem /\ m.id = s /\ m.slab.free = c
      /\ m.heads[c] # None /\ m.heads[c].slab = s
      /\ m.heads[c].count = 0 /\ m.heads[c].recycled = <<>> /\ m.heads[c].fresh = 0
  <2>1. l \in Mem /\ c \in Page /\ l.slab.free = None /\ l.id = s
    BY <1>2, <1>3
  <2>2. m \in Mem /\ m.id = l.id
    BY <2>1, CacheInitIs, ZenonT(60) DEF Begun
  <2>3. m.slab.free = IF l.slab.free = None THEN c ELSE l.slab.free
    BY <2>1, CacheInitIs, ZenonT(60) DEF Begun
  <2>4. m.heads[c] # None /\ m.heads[c].slab = l.id
    BY <2>1, NewCache
  <2>5. m.heads[c].count = 0 /\ m.heads[c].recycled = <<>> /\ m.heads[c].fresh = 0
    BY <2>1, NewCache
  <2> QED
    BY <2>1, <2>2, <2>3, <2>4, <2>5
<1>8. \A d \in Page : d # c => (m.heads[d] = None <=> l.heads[d] = None)
  BY <1>2, <1>3, CacheInitIs, ZenonT(60) DEF Begun
<1>9. m.heads[c] \in Header /\ ~ IsFull(m.heads[c])
  BY <1>3, <1>7, HeadIs, LedgerNew
<1>10. SlotOf(m.heads[c]) = 1
  BY <1>7 DEF SlotOf
<1>11. m.heads[c].count < CacheObjects /\ m.heads[c].fresh < CacheObjects
  <2>1. 1 <= MaxObjects(m.heads[c]) /\ MaxObjects(m.heads[c]) <= CacheObjects
        /\ MaxObjects(m.heads[c]) \in Nat
    BY <1>9, MaxObjectsIs
  <2>2. CacheObjects \in Nat
    BY SlabAssumption
  <2> QED
    BY <1>7, <2>1, <2>2
<1>12. o \in Object
  <2>1. 1 \in Slot
    BY <1>7, <1>11, SlabAssumption DEF Slot
  <2> QED
    BY <1>3, <2>1 DEF Object
<1>13. o = [slab |-> m.id, size |-> size, cache |-> c, slot |-> SlotOf(m.heads[c])]
  BY <1>7, <1>10
<1>14. n = CacheAlloc(m, c)
  BY <1>7
<1> HIDE DEF o, n
<1>15. /\ n \in Mem /\ n.id = s
       /\ n.slab.first = m.slab.first /\ n.slab.last = m.slab.last
       /\ \A d \in Page : n.heads[d] = None <=> m.heads[d] = None
       /\ \A d \in Page : m.heads[d] # None => SameBut(m.heads[d], n.heads[d])
       /\ ~ n.broken => ~ m.broken
  <2> HIDE DEF m
  <2> QED
    BY <1>3, <1>7, <1>11, <1>14, CacheAllocIs
<1>16. ~ m.broken /\ heads[c] = None =>
         /\ Lists([slabs EXCEPT ![s] = m.slab], m.heads)
         /\ Books(m.heads, objects, dying)
  <2>1. SUFFICES ASSUME ~ m.broken, heads[c] = None
                 PROVE  /\ Lists([slabs EXCEPT ![s] = m.slab], m.heads)
                        /\ Books(m.heads, objects, dying)
    OBVIOUS
  <2>2. l.heads[c] = None /\ Lists(slabs, l.heads) /\ slabs[l.id] = l.slab
        /\ Books(l.heads, objects, dying)
    BY <1>2, <1>6, <2>1
  <2>3. Lists([slabs EXCEPT ![l.id] = m.slab], m.heads)
    BY <1>2, <1>3, <1>6, <2>1, <2>2, ListsGrown
  <2>4. Books(m.heads, objects, dying)
    BY <1>2, <1>3, <1>6, <2>1, <2>2, InitBooks
  <2> QED
    BY <1>2, <2>3, <2>4
<1> HIDE DEF m
<1>17. ASSUME ~ m.broken, heads[c] = None, ~ n.broken
       PROVE  /\ Lists([slabs EXCEPT ![s] = n.slab], n.heads)
              /\ Books(n.heads, objects \union {o}, dying)
  <2> DEFINE sl == [slabs EXCEPT ![s] = m.slab]
  <2>1. sl \in Slabbed /\ sl[m.id] = m.slab /\ Lists(sl, m.heads)
        /\ [sl EXCEPT ![m.id] = n.slab] = [slabs EXCEPT ![s] = n.slab]
    BY <1>6, <1>7, <1>16, <1>17 DEF Mem, Slabbed
  <2> HIDE DEF sl
  <2>2. Lists([sl EXCEPT ![m.id] = n.slab], n.heads)
    <3>1. n.id = m.id
      BY <1>7, <1>15
    <3> QED
      BY <1>7, <1>15, <2>1, <3>1, ListsKept
  <2>3. Books(n.heads, objects \union {o}, dying)
    <3>1. /\ m.heads[c].slab = m.id /\ m.id # dying /\ Books(m.heads, objects, dying)
          /\ size + HeaderSize <= SlabSizeByIndex(m.id)
      BY <1>5, <1>7, <1>16, <1>17
    <3> QED
      BY <1>3, <1>6, <1>7, <1>9, <1>13, <1>14, <1>17, <3>1, TakeBooks
  <2> QED
    BY <2>1, <2>2, <2>3
<1>18. r \in Mem /\ broken' = r.broken
  BY <1>1, <1>7, <1>15 DEF Store
<1>19. \A d \in Page : r.heads[d] # None => \E b \in live' : b.page = d /\ b.asked = CachePages
  BY <1>2, <1>3, <1>8, <1>15 DEF SlabInv
<1>20. objects' \in SUBSET Object /\ IsFiniteSet(objects') /\ dying' \in Slab \union {None}
  <2>1. IsFiniteSet(objects \union {o})
    BY <1>6, FS_AddElement
  <2> QED
    BY <1>1, <1>6, <1>12, <2>1
<1>21. Calm' => /\ Lists([slabs EXCEPT ![s] = r.slab], r.heads)
                /\ Books(r.heads, objects', dying')
  <2>1. SUFFICES ASSUME Calm'
                 PROVE  /\ Lists([slabs EXCEPT ![s] = r.slab], r.heads)
                        /\ Books(r.heads, objects', dying')
    OBVIOUS
  <2>2. ~ r.broken /\ heads[c] = None /\ objects' = objects \union {o}
    BY <1>1, <1>4, <1>18, <2>1 DEF Calm
  <2>3. r = n /\ ~ m.broken
    BY <2>2
  <2> QED
    BY <1>1, <1>17, <2>2, <2>3
<1> HIDE DEF r
<1> QED
  BY <1>1, <1>18, <1>19, <1>20, <1>21, Kept

LEMMA MallocStep ==
  ASSUME BuddyInv, SlabInv, NEW size \in Asked, Malloc(size)
  PROVE  SlabInv'
<1> DEFINE need == size + HeaderSize
           index == BestFitSlabIndex(need)
<1>1. size \in Nat /\ HeaderSize \in Nat /\ need \in Nat /\ ToPagesCount(need) \in Sizes
  BY PenguinAssumption
<1>2. Ready /\ Sane
  BY DEF Malloc
<1>3. CASE index \in Slab /\ Gives(index) /\ SlabAlloc(index, size)
  <2>1. size + HeaderSize <= SlabSizeByIndex(index)
    <3> DEFINE T == {i \in Slab : need < SlabSizeByIndex(i)}
    <3>1. T \union {Slabs} \in SUBSET Nat /\ Slabs \notin Slab
      BY SlabAssumption DEF Slab
    <3>2. index = Min(T \union {Slabs})
      BY DEF BestFitSlabIndex
    <3>3. index \in T \union {Slabs}
      BY <3>1, <3>2, MinIs
    <3>4. need < SlabSizeByIndex(index)
      BY <1>3, <3>1, <3>3
    <3>5. SlabSizeByIndex(index) \in Nat
      <4>1. index \in Nat
        BY <3>1, <3>3
      <4> HIDE DEF index
      <4>2. Pow2[index + 1] \in Nat
        BY <4>1, PowLaw
      <4> QED
        BY <4>2, PenguinAssumption DEF SlabSizeByIndex
    <3> QED
      BY <1>1, <3>4, <3>5
  <2>2. slabs[index] # None
    BY <1>2, <1>3 DEF Ready
  <2> HIDE DEF index
  <2>3. CASE slabs[index].free = None
    BY <1>1, <1>2, <1>3, <2>1, <2>2, <2>3, GrowStep
  <2>4. CASE slabs[index].free # None
    BY <1>1, <1>2, <1>3, <2>1, <2>2, <2>4, TakeStep
  <2> QED
    BY <2>3, <2>4
<1>4. CASE Alloc(ToPagesCount(need)) /\ UNCHANGED slabVars
  <2>1. live \subseteq live'
    BY <1>1, <1>4, AllocIs
  <2>2. SlabTypeOK' /\ IsFiniteSet(objects')
    BY <1>4 DEF SlabInv, SlabTypeOK, slabVars
  <2>3. \A c \in Page : heads'[c] # None => \E b \in live' : b.page = c /\ b.asked = CachePages
    BY <1>4, <2>1 DEF SlabInv, slabVars
  <2>4. Calm' => Lists(slabs', heads') /\ Books(heads', objects', dying')
    BY <1>2, <1>4 DEF SlabInv, slabVars, Calm, Sane
  <2> QED
    BY <2>2, <2>3, <2>4 DEF SlabInv
<1> QED
  BY <1>3, <1>4 DEF Malloc

LEMMA BlockOfIs ==
  ASSUME SlabInv, NEW c \in Page, heads[c] # None
  PROVE  BlockOf(c) \in live /\ BlockOf(c).page = c
BY DEF SlabInv, BlockOf

(* The block of a cache that is gone is given back.                        *)
LEMMA BlockBack ==
  ASSUME SlabInv, NEW c \in Page, heads[c] # None, Free(BlockOf(c)),
         NEW d \in Page, d # c, heads[d] # None
  PROVE  \E b \in live' : b.page = d /\ b.asked = CachePages
<1>1. PICK b \in live : b.page = d /\ b.asked = CachePages
  BY DEF SlabInv
<1>2. b # BlockOf(c)
  BY <1>1, BlockOfIs
<1>3. live' = live \ {BlockOf(c)}
  BY DEF Free
<1> QED
  BY <1>1, <1>2, <1>3

(* penguin_free of an object.                                              *)
LEMMA FreeObjectStep ==
  ASSUME BuddyInv, SlabInv, NEW o \in objects, FreeObject(o)
  PROVE  SlabInv'
<1> DEFINE s == o.slab
           c == o.cache
           l == Memory(s)
           m == CacheFree(l, c, o.slot)
           cut == CacheDestroy(m, c)
           gone == Forget(cut, c)
           pb == objects \ {o}
<1>1. /\ Ready /\ Sane /\ objects' = pb /\ dying' = dying
      /\ \/ Store(s, m) /\ UNCHANGED buddyVars
         \/ /\ ~ m.broken /\ m.heads[c].count = 0
            /\ Store(s, gone) /\ Free(BlockOf(c))
  BY DEF FreeObject, SlabFree
<1>2. Calm /\ shared' = shared
  BY <1>1 DEF Sane, Calm, Free, buddyVars
<1>3. /\ slabs \in Slabbed /\ objects \in SUBSET Object /\ IsFiniteSet(objects)
      /\ dying \in Slab \union {None}
      /\ Lists(slabs, heads) /\ Books(heads, objects, dying)
  BY <1>2 DEF SlabInv, SlabTypeOK, Slabbed, Object
<1>4. s \in Slab /\ slabs[s] # None
  BY <1>1, <1>3 DEF Object, Ready
<1>5. l \in Mem /\ l.id = s /\ l.slab = slabs[s] /\ l.heads = heads /\ l.broken = broken
  BY <1>4, MemoryIs
<1> HIDE DEF l
<1>6. /\ c \in Page /\ o.slot \in Slot /\ l.heads[c] # None /\ l.heads[c].slab = s
      /\ l.heads[c].count > 0 /\ Books(m.heads, pb, dying)
  BY <1>3, <1>5, PutBooks
<1>7. pb \in SUBSET Object /\ IsFiniteSet(pb)
  BY <1>3, FS_RemoveElement
<1> HIDE DEF c, s, pb
<1>8. /\ m \in Mem /\ m.id = s /\ m.slab = l.slab
      /\ \A d \in Page : m.heads[d] = None <=> l.heads[d] = None
      /\ \A d \in Page : l.heads[d] # None => SameBut(l.heads[d], m.heads[d])
  BY <1>5, <1>6, CacheFreeIs
<1> HIDE DEF m
<1>9. Lists([slabs EXCEPT ![s] = m.slab], m.heads)
  <2>1. Lists(slabs, l.heads) /\ slabs[l.id] = l.slab /\ m.id = l.id
        /\ m.slab.first = l.slab.first /\ m.slab.last = l.slab.last
    BY <1>3, <1>5, <1>8
  <2>2. Lists([slabs EXCEPT ![l.id] = m.slab], m.heads)
    BY <1>3, <1>5, <1>8, <2>1, ListsKept
  <2> QED
    BY <1>5, <2>2
<1>10. CASE Store(s, m) /\ UNCHANGED buddyVars
  <2>1. \A d \in Page : m.heads[d] # None => \E b \in live' : b.page = d /\ b.asked = CachePages
    BY <1>5, <1>8, <1>10 DEF SlabInv, buddyVars
  <2> QED
    BY <1>1, <1>3, <1>4, <1>6, <1>7, <1>8, <1>9, <1>10, <2>1, Kept
<1>11. CASE /\ ~ m.broken /\ m.heads[c].count = 0
            /\ Store(s, gone) /\ Free(BlockOf(c))
  <2>1. m.heads[c] # None /\ m.heads[c].slab = s
    BY <1>6, <1>8 DEF SameBut
  <2>2. Out(pb, c) = {}
    <3>1. s # dying
      BY <1>3 DEF Books, At, s
    <3>2. Ledger(m.heads[c], Out(pb, c))
      BY <1>6, <2>1, <3>1 DEF Books
    <3>3. Cardinality(Out(pb, c)) = 0
      BY <1>11, <3>2 DEF Ledger
    <3>4. IsFiniteSet(Out(pb, c))
      BY <1>7, FS_Subset DEF Out
    <3> QED
      BY <3>3, <3>4, FS_EmptySet
  <2>3. Books(cut.heads, pb, dying)
    BY <1>6, <1>7, <1>8, <2>1, <2>2, DropBooks
  <2>4. /\ cut \in Mem /\ cut.id = s
        /\ cut.slab.first = IF m.heads[c].prev = None THEN m.heads[c].next ELSE m.slab.first
        /\ cut.slab.last = IF m.heads[c].next = None THEN m.heads[c].prev ELSE m.slab.last
        /\ cut.heads[c] = None
        /\ \A d \in Page : d # c => (cut.heads[d] = None <=> m.heads[d] = None)
        /\ \A d \in Page : d # c /\ m.heads[d] # None => SameBut(m.heads[d], cut.heads[d])
    BY <1>6, <1>8, <2>1, CacheDestroyIs
  <2> HIDE DEF cut
  <2>5. /\ gone \in Mem /\ gone.id = s /\ gone.heads = cut.heads
        /\ gone.slab.first = cut.slab.first /\ gone.slab.last = cut.slab.last
    BY <2>4 DEF Forget, Mem, SlabHeader, Link
  <2> HIDE DEF gone
  <2>6. Lists([slabs EXCEPT ![s] = gone.slab], gone.heads)
    <3> DEFINE sl == [slabs EXCEPT ![s] = m.slab]
    <3>1. sl \in Slabbed /\ sl[m.id] = m.slab /\ Lists(sl, m.heads)
          /\ [sl EXCEPT ![m.id] = gone.slab] = [slabs EXCEPT ![s] = gone.slab]
      BY <1>3, <1>4, <1>8, <1>9 DEF Mem, Slabbed
    <3> HIDE DEF sl
    <3>2. gone.id = m.id /\ m.heads[c].slab = m.id
      BY <1>8, <2>1, <2>5
    <3>3. /\ gone.slab.first = IF m.heads[c].prev = None THEN m.heads[c].next ELSE m.slab.first
          /\ gone.slab.last = IF m.heads[c].next = None THEN m.heads[c].prev ELSE m.slab.last
          /\ gone.heads[c] = None
          /\ \A d \in Page : d # c => (gone.heads[d] = None <=> m.heads[d] = None)
          /\ \A d \in Page : d # c /\ m.heads[d] # None => SameBut(m.heads[d], gone.heads[d])
      BY <2>4, <2>5
    <3>4. Lists([sl EXCEPT ![m.id] = gone.slab], gone.heads)
      BY <1>6, <1>8, <2>1, <2>5, <3>1, <3>2, <3>3, ListsCut
    <3> QED
      BY <3>1, <3>4
  <2>7. ASSUME NEW d \in Page, gone.heads[d] # None
        PROVE  \E b \in live' : b.page = d /\ b.asked = CachePages
    <3>1. d # c /\ heads[d] # None
      BY <1>5, <1>8, <2>4, <2>5, <2>7
    <3> QED
      BY <1>5, <1>6, <1>11, <3>1, BlockBack
  <2>8. Books(gone.heads, objects', dying') /\ objects' \in SUBSET Object /\ IsFiniteSet(objects')
        /\ dying' \in Slab \union {None}
    BY <1>1, <1>3, <1>7, <2>3, <2>5
  <2> QED
    BY <1>4, <1>11, <2>5, <2>6, <2>7, <2>8, Kept
<1> QED
  BY <1>1, <1>10, <1>11

(* penguin_free of pages: no cache lies in the block of a client.          *)
LEMMA FreePagesStep ==
  ASSUME SlabInv, NEW b \in Own, FreePages(b)
  PROVE  SlabInv'
<1>1. /\ live' = live \ {b} /\ shared' = shared /\ heads[b.page] = None
      /\ UNCHANGED slabVars
  BY DEF FreePages, Free, Own
<1>2. SlabTypeOK' /\ IsFiniteSet(objects')
  BY <1>1 DEF SlabInv, SlabTypeOK, slabVars
<1>3. ASSUME NEW c \in Page, heads'[c] # None
      PROVE  \E x \in live' : x.page = c /\ x.asked = CachePages
  <2>1. heads[c] # None
    BY <1>1, <1>3 DEF slabVars
  <2>2. PICK x \in live : x.page = c /\ x.asked = CachePages
    BY <2>1 DEF SlabInv
  <2>3. x # b
    BY <1>1, <2>1, <2>2
  <2> QED
    BY <1>1, <2>2, <2>3
<1>4. Calm' => Lists(slabs', heads') /\ Books(heads', objects', dying')
  BY <1>1 DEF SlabInv, slabVars, Calm
<1> QED
  BY <1>2, <1>3, <1>4 DEF SlabInv

(* slab_destroy.                                                           *)
LEMMA BeginDestroyStep ==
  ASSUME SlabInv, NEW s \in Slab, BeginDestroy(s)
  PROVE  SlabInv'
<1> DEFINE pb == {o \in objects : o.slab # s}
<1>1. /\ Sane /\ dying' = s /\ objects' = pb /\ slabs' = slabs /\ heads' = heads
      /\ broken' = broken /\ live' = live /\ shared' = shared
      /\ disordered' \in BOOLEAN /\ dying = None
  BY DEF BeginDestroy, buddyVars, SlabInv, SlabTypeOK, Sane
<1>2. IsFiniteSet(objects')
  BY <1>1, FS_Subset DEF SlabInv
<1>3. SlabTypeOK'
  BY <1>1 DEF SlabInv, SlabTypeOK
<1>4. Calm => Books(heads, pb, s)
  <2>1. SUFFICES ASSUME Calm PROVE Books(heads, pb, s)
    OBVIOUS
  <2>2. Books(heads, objects, None)
    BY <1>1, <2>1 DEF SlabInv
  <2>3. \A o \in pb : At(o, heads[o.cache], s)
    BY <2>2 DEF Books, At
  <2>4. \A o, p \in pb : o.cache = p.cache /\ o.slot = p.slot => o = p
    BY <2>2 DEF Books
  <2>5. ASSUME NEW c \in Page, heads[c] # None, heads[c].slab # s
        PROVE  Ledger(heads[c], Out(pb, c))
    <3>1. heads[c].slab \in Slab
      BY <2>5 DEF SlabInv, SlabTypeOK, Header
    <3>2. heads[c].slab # None
      BY <3>1, SlabAssumption
    <3>3. \A o \in objects : o.cache = c => o.slab = heads[c].slab
      BY <2>2 DEF Books, At
    <3>4. Out(pb, c) = Out(objects, c)
      BY <2>5, <3>3 DEF Out
    <3>5. Ledger(heads[c], Out(objects, c))
      BY <2>2, <2>5, <3>2 DEF Books
    <3> QED
      BY <3>4, <3>5
  <2> HIDE DEF pb
  <2> QED
    BY <2>3, <2>4, <2>5 DEF Books
<1>5. Calm' => Lists(slabs', heads') /\ Books(heads', objects', dying')
  BY <1>1, <1>4 DEF SlabInv, Calm
<1>6. \A c \in Page : heads'[c] # None => \E b \in live' : b.page = c /\ b.asked = CachePages
  BY <1>1 DEF SlabInv
<1> QED
  BY <1>2, <1>3, <1>5, <1>6 DEF SlabInv

LEMMA DestroyFirstStep ==
  ASSUME SlabInv, DestroyFirst
  PROVE  SlabInv'
<1> DEFINE s == dying
           c == slabs[s].first
           m == Memory(s)
           r == CacheDestroy(m, c)
<1>1. s # None /\ slabs[s] # None /\ ~ broken /\ objects' = objects
  BY DEF DestroyFirst
<1>2. /\ slabs \in Slabbed /\ objects \in SUBSET Object /\ IsFiniteSet(objects)
      /\ dying \in Slab \union {None} /\ SlabTypeOK
      /\ Calm => Lists(slabs, heads) /\ Books(heads, objects, s)
  BY DEF SlabInv, SlabTypeOK, Slabbed, Object
<1>3. s \in Slab
  BY <1>1, <1>2
<1>4. m \in Mem /\ m.id = s /\ m.slab = slabs[s] /\ m.heads = heads /\ m.broken = broken
  BY <1>1, <1>3, MemoryIs
<1>5. c \in Link
  BY <1>4 DEF Mem, SlabHeader
<1>6. CASE /\ c = None /\ slabs' = [slabs EXCEPT ![s] = None] /\ dying' = None
           /\ UNCHANGED <<buddyVars, heads, broken, disordered>>
  <2>1. /\ live' = live /\ shared' = shared /\ heads' = heads /\ broken' = broken
        /\ disordered' = disordered
    BY <1>6 DEF buddyVars
  <2>2. SlabTypeOK'
    BY <1>1, <1>2, <1>6, <2>1 DEF SlabTypeOK
  <2>3. \A d \in Page : heads'[d] # None => \E b \in live' : b.page = d /\ b.asked = CachePages
    BY <2>1 DEF SlabInv
  <2>4. ASSUME Calm' PROVE Lists(slabs', heads) /\ Books(heads, objects, None)
    <3>1. Lists(slabs, heads) /\ Books(heads, objects, s)
      BY <1>2, <2>1, <2>4 DEF Calm
    <3>2. \A d \in Page : heads[d] # None => heads[d].slab # s
      BY <1>6, <3>1 DEF Lists
    <3>3. \A d \in Page : heads[d] # None => slabs'[heads[d].slab] = slabs[heads[d].slab]
      <4>1. \A d \in Page : heads[d] # None => heads[d].slab \in Slab
        BY <1>2 DEF SlabTypeOK, Header
      <4> QED
        BY <1>2, <1>6, <3>2, <4>1 DEF Slabbed
    <3>4. Lists(slabs', heads)
      BY <3>1, <3>3 DEF Lists
    <3>5. \A o \in objects : At(o, heads[o.cache], None)
      <4>1. \A o \in objects : o.slab # None
        BY <1>2, SlabAssumption DEF Object
      <4> QED
        BY <3>1, <4>1 DEF Books, At
    <3>6. Books(heads, objects, None)
      BY <3>1, <3>2, <3>5 DEF Books
    <3> QED
      BY <3>4, <3>6
  <2> QED
    BY <1>1, <1>2, <1>6, <2>1, <2>2, <2>3, <2>4 DEF SlabInv
<1>7. CASE /\ c # None /\ ~ Holds(m, c) /\ broken' = TRUE
           /\ UNCHANGED <<buddyVars, slabs, heads, dying, disordered>>
  <2>1. live' = live /\ shared' = shared
    BY <1>7 DEF buddyVars
  <2>2. SlabTypeOK' /\ ~ Calm'
    BY <1>1, <1>2, <1>7 DEF SlabTypeOK, Calm
  <2> QED
    BY <1>1, <1>7, <2>1, <2>2 DEF SlabInv
<1>8. CASE /\ c # None /\ Holds(m, c) /\ Store(s, r) /\ Free(BlockOf(c)) /\ dying' = dying
  <2>1. c \in Page /\ m.heads[c] # None /\ m.heads[c].slab = m.id
    BY <1>4, <1>5, <1>8, HoldsIs
  <2> HIDE DEF m, c, s
  <2>2. /\ r \in Mem /\ r.id = m.id
        /\ r.slab.first = IF m.heads[c].prev = None THEN m.heads[c].next ELSE m.slab.first
        /\ r.slab.last = IF m.heads[c].next = None THEN m.heads[c].prev ELSE m.slab.last
        /\ r.heads[c] = None
        /\ \A d \in Page : d # c => (r.heads[d] = None <=> m.heads[d] = None)
        /\ \A d \in Page : d # c /\ m.heads[d] # None => SameBut(m.heads[d], r.heads[d])
    BY <1>4, <2>1, CacheDestroyIs
  <2>3. ASSUME NEW d \in Page, r.heads[d] # None
        PROVE  \E b \in live' : b.page = d /\ b.asked = CachePages
    <3>1. d # c /\ heads[d] # None
      BY <1>4, <2>2, <2>3
    <3> QED
      BY <1>4, <1>8, <2>1, <3>1, BlockBack
  <2>4. ASSUME Calm'
        PROVE  Lists([slabs EXCEPT ![s] = r.slab], r.heads) /\ Books(r.heads, objects, s)
    <3>1. Calm
      BY <1>1, <1>8, <2>4 DEF Calm, Free
    <3>2. Lists(slabs, m.heads) /\ Books(m.heads, objects, s) /\ slabs[m.id] = m.slab
      BY <1>2, <1>4, <3>1
    <3>3. Out(objects, c) = {}
      <4>1. \A o \in objects : m.heads[o.cache].slab = o.slab /\ o.slab # s
        BY <3>2 DEF Books, At
      <4> QED
        BY <1>4, <2>1, <4>1 DEF Out
    <3>4. Books(r.heads, objects, s)
      BY <1>2, <1>4, <2>1, <3>2, <3>3, DropBooks
    <3>5. Lists([slabs EXCEPT ![m.id] = r.slab], r.heads)
      <4> HIDE DEF r
      <4> QED
        BY <1>2, <1>4, <2>1, <2>2, <3>2, ListsCut
    <3> QED
      BY <1>4, <3>4, <3>5
  <2> HIDE DEF r
  <2>5. objects' \in SUBSET Object /\ IsFiniteSet(objects') /\ dying' \in Slab \union {None}
        /\ dying' = s
    BY <1>1, <1>2, <1>8 DEF s
  <2> QED
    BY <1>1, <1>3, <1>8, <2>2, <2>3, <2>4, <2>5, Kept
<1> QED
  BY <1>6, <1>7, <1>8 DEF DestroyFirst

-----------------------------------------------------------------------------
(* The whole.                                                              *)
IInv == BuddyInv /\ SlabInv

LEMMA InitIInv == Init => IInv
<1> SUFFICES ASSUME Init PROVE IInv
  OBVIOUS
<1>1. BuddyInv
  BY InitBuddyInv DEF Init
<1>2. SlabTypeOK /\ IsFiniteSet(objects)
  BY FS_EmptySet DEF Init, SlabTypeOK
<1>3. Lists(slabs, heads) /\ Books(heads, objects, dying)
  BY DEF Init, Lists, Books
<1>4. \A c \in Page : heads[c] = None
  BY DEF Init
<1> QED
  BY <1>1, <1>2, <1>3, <1>4 DEF IInv, SlabInv

(* What a step does to the buddy allocator: a call of it, or nothing.      *)
LEMMA BuddySteps ==
  ASSUME IInv, [Next]_vars
  PROVE  \/ UNCHANGED buddyVars
         \/ \E pages \in Sizes : Alloc(pages)
         \/ \E b \in live : Free(b)
<1>1. CASE UNCHANGED vars
  BY <1>1 DEF vars
<1>2. ASSUME NEW s \in Slab, InitSlab(s) PROVE \E pages \in Sizes : Alloc(pages)
  BY <1>2, CacheSize DEF InitSlab, SlabInit
<1>3. ASSUME NEW s \in Slab, BeginDestroy(s) PROVE UNCHANGED buddyVars
  BY <1>3 DEF BeginDestroy
<1>4. ASSUME NEW size \in Asked, Malloc(size)
      PROVE  UNCHANGED buddyVars \/ \E pages \in Sizes : Alloc(pages)
  <2>1. ToPagesCount(size + HeaderSize) \in Sizes
    BY PenguinAssumption
  <2> QED
    BY <1>4, <2>1, CacheSize DEF Malloc, SlabAlloc, Grow, Take
<1>5. ASSUME NEW o \in objects, FreeObject(o)
      PROVE  UNCHANGED buddyVars \/ \E b \in live : Free(b)
  <2>1. Calm /\ (UNCHANGED buddyVars \/ Free(BlockOf(o.cache)))
    BY <1>5 DEF FreeObject, SlabFree, Sane, Calm
  <2>2. o.cache \in Page /\ heads[o.cache] # None
    BY <2>1 DEF IInv, SlabInv, SlabTypeOK, Books, At
  <2>3. BlockOf(o.cache) \in live
    BY <2>2, BlockOfIs DEF IInv
  <2> QED
    BY <2>1, <2>3
<1>6. ASSUME NEW b \in Own, FreePages(b) PROVE \E x \in live : Free(x)
  BY <1>6 DEF FreePages, Own
<1>7. ASSUME DestroyFirst
      PROVE  UNCHANGED buddyVars \/ \E b \in live : Free(b)
  <2> DEFINE c == slabs[dying].first
  <2>1. \/ UNCHANGED buddyVars
        \/ c # None /\ Holds(Memory(dying), c) /\ Free(BlockOf(c))
    BY <1>7 DEF DestroyFirst
  <2>2. CASE c # None /\ Holds(Memory(dying), c) /\ Free(BlockOf(c))
    <3>1. dying \in Slab /\ slabs[dying] # None
      BY <1>7 DEF DestroyFirst, IInv, SlabInv, SlabTypeOK
    <3>2. Memory(dying) \in Mem /\ Memory(dying).slab = slabs[dying] /\ Memory(dying).heads = heads
      BY <3>1, MemoryIs DEF IInv
    <3>3. c \in Link
      BY <3>2 DEF Mem, SlabHeader
    <3> HIDE DEF c
    <3>4. c \in Page /\ heads[c] # None
      BY <2>2, <3>2, <3>3, HoldsIs
    <3>5. BlockOf(c) \in live
      BY <3>4, BlockOfIs DEF IInv
    <3> QED
      BY <2>2, <3>5
  <2> QED
    BY <2>1, <2>2
<1>8. CASE Wrong
  BY <1>8 DEF Wrong, vars
<1> QED
  BY <1>1, <1>2, <1>3, <1>4, <1>5, <1>6, <1>7, <1>8 DEF Next

LEMMA SlabSteps ==
  ASSUME IInv, [Next]_vars
  PROVE  SlabInv'
<1> USE DEF IInv
<1>1. CASE UNCHANGED vars
  BY <1>1 DEF vars, slabVars, buddyVars, SlabInv, SlabTypeOK, Calm
<1>2. CASE \E s \in Slab : InitSlab(s)
  BY <1>2, InitSlabStep
<1>3. CASE \E s \in Slab : BeginDestroy(s)
  BY <1>3, BeginDestroyStep
<1>4. CASE \E size \in Asked : Malloc(size)
  BY <1>4, MallocStep
<1>5. CASE \E o \in objects : FreeObject(o)
  BY <1>5, FreeObjectStep
<1>6. CASE \E b \in Own : FreePages(b)
  BY <1>6, FreePagesStep
<1>7. CASE DestroyFirst
  BY <1>7, DestroyFirstStep
<1>8. CASE Wrong
  BY <1>1, <1>8 DEF Wrong
<1> QED
  BY <1>1, <1>2, <1>3, <1>4, <1>5, <1>6, <1>7, <1>8 DEF Next

LEMMA BuddySame ==
  ASSUME UNCHANGED buddyVars
  PROVE  (BuddyInv => BuddyInv') /\ (Tiled => Tiled')
<1>1. bitmap' = bitmap /\ freelist' = freelist /\ live' = live
      /\ rightFreed' = rightFreed /\ shared' = shared
  BY DEF buddyVars
<1>2. BuddyInv => BuddyInv'
  BY <1>1 DEF BuddyInv, BuddyTypeOK
<1>3. Tiled => Tiled'
  <2>0. Handed' = Handed /\ FreeBlocks' = FreeBlocks
    BY <1>1 DEF Handed, FreeBlocks
  <2>1. Blocks' = Blocks
    BY <2>0 DEF Blocks
  <2>2. Tiles => Tiles'
    BY <2>1 DEF Tiles
  <2>3. NoneTwice => NoneTwice'
    BY <1>1, <2>0 DEF NoneTwice
  <2>4. Bits => Bits'
    BY <1>1, <2>1 DEF Bits, Get
  <2> QED
    BY <1>1, <2>2, <2>3, <2>4 DEF Tiled
<1> QED
  BY <1>2, <1>3

LEMMA StepIInv == IInv /\ [Next]_vars => IInv'
<1> SUFFICES ASSUME IInv, [Next]_vars PROVE IInv'
  OBVIOUS
<1>1. SlabInv'
  BY SlabSteps
<1>2. BuddyInv'
  BY BuddySteps, BuddySame, AllocStep, FreeStep DEF IInv
<1> QED
  BY <1>1, <1>2 DEF IInv

LEMMA IInvHolds == Spec => []IInv
BY InitIInv, StepIInv, PTL DEF Spec

(* Every variable of the allocator has its type, whatever is asked for and *)
(* freed: no list, bit or count leaves its range (buddy_alloc, buddy_free, *)
(* slab_alloc, slab_free, slab_destroy).                                   *)
THEOREM TypeCorrect == Spec => []TypeOK
<1>1. IInv => TypeOK
  BY DEF IInv, BuddyInv, SlabInv, TypeOK
<1> QED
  BY <1>1, IInvHolds, PTL

(* As long as nothing has gone wrong, and whatever has become of the order *)
(* of the caches, an object lies in a block that its slab still holds, has *)
(* room for its header, is nobody else's and is counted by its cache       *)
(* (slab_alloc, slab_free, slab_cache_alloc, slab_cache_free).             *)
THEOREM ObjectsHold == Spec => []ObjectsSound
<1>1. IInv => ObjectsSound
  <2>1. SUFFICES ASSUME IInv, Sane PROVE ObjectsSound
    BY DEF ObjectsSound
  <2>2. /\ Books(heads, objects, None) /\ SlabTypeOK
        /\ \A c \in Page : heads[c] # None => \E b \in live : b.page = c /\ b.asked = CachePages
    BY <2>1 DEF IInv, SlabInv, Sane, Calm
  <2>3. ASSUME NEW o \in objects
        PROVE  /\ heads[o.cache] # None
               /\ heads[o.cache].slab = o.slab
               /\ \E b \in live : b.page = o.cache /\ b.asked = CachePages
               /\ o.size + HeaderSize <= SlabSizeByIndex(o.slab)
    <3>1. o.cache \in Page /\ At(o, heads[o.cache], None)
      BY <2>2 DEF SlabTypeOK, Books
    <3> QED
      BY <2>2, <3>1 DEF At
  <2>4. ASSUME NEW c \in Page, heads[c] # None
        PROVE  LET h == heads[c] IN
               /\ h.count = Cardinality({o \in objects : o.cache = c})
               /\ HeldSlots(c) \cap ToSet(h.recycled) = {}
               /\ HeldSlots(c) \union ToSet(h.recycled) = 1..h.fresh
               /\ Len(h.recycled) + h.count = h.fresh
    <3>1. heads[c].slab # None
      BY <2>2, <2>4, SlabAssumption DEF SlabTypeOK, Header
    <3>2. Ledger(heads[c], Out(objects, c))
      BY <2>2, <2>4, <3>1 DEF Books
    <3> QED
      BY <3>2 DEF Ledger, Out, HeldSlots
  <2> QED
    BY <2>3, <2>4 DEF ObjectsSound
<1> QED
  BY <1>1, IInvHolds, PTL

(* Whoever asked for a power of two of pages got a block of that size, or  *)
(* the whole pool if it is smaller (best_fit_layer, buddy_alloc).          *)
THEOREM RoomHolds == Spec => []EnoughRoom
<1>1. IInv => EnoughRoom
  BY RoomEnough DEF IInv
<1> QED
  BY <1>1, IInvHolds, PTL

(* Where every block has a bit of its own, and as long as no right-hand    *)
(* half was freed, every page lies in exactly one block, handed out or     *)
(* free (buddy_alloc, buddy_free), whoever calls the allocator.            *)
THEOREM TilingHolds ==
  ASSUME BitsFit
  PROVE  Spec => []Tiling
<1>1. Init => Tiled
  BY InitTiled DEF Init
<1>2. IInv /\ Tiled /\ [Next]_vars => Tiled'
  BY BuddySteps, BuddySame, AllocTiled, FreeTiled DEF IInv
<1>3. IInv /\ Tiled => Tiling
  BY TilesTile DEF IInv
<1> QED
  BY <1>1, <1>2, <1>3, IInvHolds, PTL DEF Spec

(* Every block has a bit of its own when the pool is at most seven pages   *)
(* short of a power of two, as a power of two less the pages of the        *)
(* allocator itself is (buddy_init).                                       *)
THEOREM BitsForAll ==
  ASSUME NEW k \in Nat, BlocksCount <= Pow2[k], Pow2[k] <= BlocksCount + 7
  PROVE  BitsFit
<1>1. BlocksCount \in Nat /\ BlocksCount >= 15
  BY BuddyAssumption
<1>2. k >= 3 /\ Pow2[3] = 8 /\ Pow2[0] = 1 /\ Pow2[1] = 2 /\ Pow2[2] = 4
  <2>1. Pow2[0] = 1 /\ Pow2[0 + 1] = 2 * Pow2[0] /\ Pow2[1 + 1] = 2 * Pow2[1]
        /\ Pow2[2 + 1] = 2 * Pow2[2]
    BY PowLaw
  <2>2. Pow2[0] = 1 /\ Pow2[1] = 2 /\ Pow2[2] = 4 /\ Pow2[3] = 8
    BY <2>1
  <2>3. k \notin {0, 1, 2}
    BY <1>1, <2>2
  <2> QED
    BY <2>2, <2>3
<1>3. Layers <= k
  <2> DEFINE Q == {p \in 0..BlocksCount : Pow2[p] >= BlocksCount}
  <2>1. k <= BlocksCount \/ k > BlocksCount
    BY <1>1
  <2>2. CASE k <= BlocksCount
    <3>1. k \in Q /\ Q \in SUBSET Nat
      BY <1>1, <2>2
    <3>2. Min(Q) <= k
      BY <3>1, MinIs
    <3> QED
      BY <3>2 DEF Layers, Log2Upper
  <2>3. CASE k > BlocksCount
    <3>1. Layers \in 0..BlocksCount
      <4>1. BlocksCount \in Q /\ Q \in SUBSET Nat
        <5>1. BlocksCount < Pow2[BlocksCount] /\ Pow2[BlocksCount] \in Nat
          BY <1>1, PowBig, PowLaw
        <5> QED
          BY <1>1, <5>1
      <4>2. Min(Q) \in Q
        BY <4>1, MinIs
      <4> QED
        BY <4>2 DEF Layers, Log2Upper
    <3> QED
      BY <1>1, <2>3, <3>1
  <2> QED
    BY <2>1, <2>2, <2>3
<1>4. ASSUME NEW l \in Layer, NEW i \in Index(l)
      PROVE  Cell(l, i) \in (0..(BitmapSize - 1)) \X (0..7)
  <2>1. l \in Nat /\ l <= k - 1 /\ i \in Nat /\ i <= Pow2[l] - 1 /\ Pow2[l] \in Nat \ {0}
    <3>1. l \in Nat /\ l <= Layers - 1
      BY Sized DEF Layer
    <3>2. Pow2[l] \in Nat \ {0}
      BY <3>1, PowLaw
    <3> QED
      BY <1>3, <3>1, <3>2, Sized DEF Index
  <2>2. Pow2[k - 3] \in Nat \ {0} /\ Pow2[k] = 8 * Pow2[k - 3]
    <3>1. k - 3 \in Nat /\ (k - 3) + 3 = k
      BY <1>2
    <3>2. Pow2[k - 3] \in Nat \ {0} /\ Pow2[(k - 3) + 3] = Pow2[k - 3] * Pow2[3]
      BY <3>1, PowLaw, PowSum
    <3> QED
      BY <1>2, <3>1, <3>2
  <2>3. BitmapSize \in Nat /\ Pow2[k - 3] <= BitmapSize
    BY <1>1, <2>2 DEF BitmapSize
  <2>4. CASE l < 3
    <3>1. l \in {0, 1, 2}
      BY <2>1, <2>4
    <3>2. Pow2[l] <= 4
      BY <1>2, <3>1
    <3>3. Cell(l, i) = <<0, i + Pow2[l]>>
      BY <2>4 DEF Cell, MaskIndex, BitIndex
    <3>4. i + Pow2[l] \in 0..7 /\ 0 \in 0..(BitmapSize - 1)
      BY <2>1, <2>2, <2>3, <3>2
    <3> QED
      BY <3>3, <3>4
  <2>5. CASE ~ (l < 3)
    <3> DEFINE j == Pow2[l - 3]
    <3>1. l - 3 \in Nat /\ (l - 3) + 3 = l /\ k - 3 \in Nat /\ (l - 3) + 1 <= k - 3
      BY <2>1, <2>5
    <3>2. j \in Nat \ {0} /\ Pow2[l] = 8 * j
      <4>1. Pow2[(l - 3) + 3] = Pow2[l - 3] * Pow2[3]
        BY <3>1, PowSum
      <4>2. Pow2[l - 3] \in Nat \ {0}
        BY <3>1, PowLaw
      <4> QED
        BY <1>2, <3>1, <4>1, <4>2
    <3>3. 2 * j <= Pow2[k - 3]
      <4>1. l - 3 < k - 3 /\ l - 3 \in Nat /\ k - 3 \in Nat
        BY <3>1
      <4> QED
        BY <4>1, PowLess
    <3> HIDE DEF j
    <3>4. i \div 8 \in Nat /\ i \div 8 <= j - 1 /\ i % 8 \in 0..7
      BY <2>1, <3>2
    <3>5. Cell(l, i) = <<j + i \div 8, i % 8>>
      BY <2>5 DEF Cell, MaskIndex, BitIndex, j
    <3>6. j + i \div 8 \in 0..(BitmapSize - 1)
      BY <2>2, <2>3, <3>2, <3>3, <3>4
    <3> QED
      BY <3>4, <3>5, <3>6
  <2> QED
    BY <2>4, <2>5
<1> QED
  BY <1>4 DEF BitsFit, Cells

-----------------------------------------------------------------------------
(* The order of the lists.  Where no live block overlaps a free one, what  *)
(* is handed out is not in use.                                            *)
LEMMA NoneShared ==
  ASSUME BuddyInv, NEW pages \in Sizes, Alloc(pages), ~ Corrupt
  PROVE  ~ shared'
<1> DEFINE fit == BestFitLayer(pages)
           source == SourceLayer(fit)
           page == Given(pages)
<1>1. /\ fit \in Layer /\ source \in Layer /\ source \in 0..fit /\ page \in Page
      /\ page \in ToSet(freelist[source]) /\ Begins(source, page) /\ Begins(fit, page)
  BY GivenIs DEF Alloc
<1>2. shared' = \E b \in live : Held(b) \cap Pages(page, fit) # {}
  BY DEF Alloc
<1> HIDE DEF fit, source, page
<1>3. Pages(page, fit) \subseteq Pages(page, source)
  <2> SUFFICES ASSUME NEW q \in Pages(page, fit) PROVE q \in Pages(page, source)
    OBVIOUS
  <2>1. q \in Page
    BY <1>1, PagesInside
  <2>2. Over(q, <<page, fit>>)
    BY <1>1, <2>1, OverIs
  <2>3. Over(q, <<page, source>>)
    BY <1>1, <2>1, <2>2, Pieces
  <2> QED
    BY <1>1, <2>1, <2>3, OverIs
<1>4. <<page, source>> \in FreeBlocks
  BY <1>1, FreeIs
<1>5. \A b \in live : Held(b) \cap Pages(page, source) = {}
  BY <1>4 DEF Corrupt
<1> QED
  BY <1>2, <1>3, <1>5

(* A few links of the walk for a cache with room: from the first on that   *)
(* it stays at.                                                            *)
LEMMA Settles ==
  ASSUME NEW m \in Mem, NEW i \in 0..RootBlockSize, NEW x \in Link,
         NEW w \in [0..RootBlockSize -> Link],
         \A k \in 1..RootBlockSize : w[k] = StepOf(m)[w[k - 1]],
         w[i] = x, StepOf(m)[x] = x
  PROVE  w[RootBlockSize] = x
<1> DEFINE T == {k \in Nat : i + k <= RootBlockSize => w[i + k] = x}
<1>1. RootBlockSize \in Nat /\ i \in Nat /\ i <= RootBlockSize
  BY Sized
<1>2. 0 \in T
  BY <1>1
<1>3. ASSUME NEW k \in T PROVE k + 1 \in T
  <2>1. CASE i + (k + 1) <= RootBlockSize
    <3>1. i + (k + 1) \in 1..RootBlockSize /\ (i + (k + 1)) - 1 = i + k /\ i + k <= RootBlockSize
      BY <1>1, <2>1
    <3>2. w[i + k] = x
      BY <3>1
    <3>3. w[i + (k + 1)] = StepOf(m)[w[i + k]]
      BY <3>1
    <3> QED
      BY <3>2, <3>3
  <2> QED
    BY <2>1
<1>4. T \in SUBSET Nat /\ \A k \in T : i + k <= RootBlockSize => w[i + k] = x
  OBVIOUS
<1> HIDE DEF T
<1>5. \A k \in Nat : k \in T
  BY <1>2, <1>3, <1>4, Induct
<1>6. RootBlockSize - i \in Nat /\ i + (RootBlockSize - i) = RootBlockSize
  BY <1>1
<1> DEFINE j == RootBlockSize - i
<1>7. j \in T /\ i + j = RootBlockSize /\ i + j <= RootBlockSize
  BY <1>1, <1>5, <1>6
<1> HIDE DEF j
<1>8. w[i + j] = x
  BY <1>4, <1>7
<1> QED
  BY <1>7, <1>8

LEMMA TwoPages == RootBlockSize >= 2
<1> DEFINE P == {Pow2[p] : p \in {p \in 0..BlocksCount : Pow2[p] <= BlocksCount}}
<1>1. BlocksCount \in Nat /\ BlocksCount >= 15
  BY BuddyAssumption
<1>2. Pow2[0] = 1 /\ Pow2[0 + 1] = 2 * Pow2[0]
  BY PowLaw
<1>3. 2 \in P
  BY <1>1, <1>2
<1>4. P \in SUBSET Nat /\ \A n \in P : n <= BlocksCount
  BY <1>1, PowLaw
<1>5. RootBlockSize = Max(P)
  BY DEF RootBlockSize, MaxLowerPowerOf2
<1> HIDE DEF P
<1> QED
  BY <1>1, <1>3, <1>4, <1>5, MaxIs

-----------------------------------------------------------------------------
(* As long as no cache has moved, the caches of a slab are a list: the     *)
(* links of neighbours agree, only the root begins it, what comes after    *)
(* the last is no cache of the slab, and whoever follows the links from    *)
(* the first passes all.  Only the last is known to have room.             *)
Chain(he, s) == {c \in Page : he[c] # None /\ he[c].slab = s}

Passes(slab, he, X) == slab.first \in X /\ \A c \in X \ {slab.last} : he[c].next \in X

Linked(slab, he, s) ==
  /\ slab.first \in Chain(he, s) /\ slab.last \in Chain(he, s)
  /\ \A c \in Chain(he, s) : he[c].root <=> c = slab.first
  /\ he[slab.first].prev = None
  /\ \A c \in Chain(he, s) \ {slab.first} :
       he[c].prev \in Chain(he, s) \ {slab.last} /\ he[he[c].prev].next = c
  /\ \A c \in Chain(he, s) \ {slab.last} :
       he[c].next \in Chain(he, s) /\ he[he[c].next].prev = c
  /\ he[slab.last].next \notin Chain(he, s)
  /\ \A X \in SUBSET Chain(he, s) : Passes(slab, he, X) => X = Chain(he, s)

Rooms(slab, he) ==
  slab.free # None => /\ slab.free = slab.last
                      /\ ~ IsFull(he[slab.free]) /\ he[slab.free].next = None

(* A slab that is not there has no caches; one to be destroyed has none    *)
(* left, or one, as none has another behind it.                            *)
OrderedAt(slab, he, s, ends) ==
  \/ Chain(he, s) = {} /\ (slab = None \/ (ends /\ slab.first = None))
  \/ /\ slab # None /\ Linked(slab, he, s) /\ Rooms(slab, he)
     /\ ends => he[slab.first].next = None

Ordered(sl, he, dy) == \A s \in Slab : OrderedAt(sl[s], he, s, s = dy)

LEMMA LinkedSame ==
  ASSUME NEW slab, NEW he, NEW s, Linked(slab, he, s), NEW slab2, NEW he2,
         slab2.first = slab.first, slab2.last = slab.last,
         Chain(he2, s) = Chain(he, s),
         \A c \in Chain(he, s) : /\ he2[c].root = he[c].root
                                 /\ he2[c].prev = he[c].prev /\ he2[c].next = he[c].next
  PROVE  Linked(slab2, he2, s)
<1> DEFINE S == Chain(he, s)
<1>1. /\ slab.first \in S /\ slab.last \in S
      /\ \A c \in S : he[c].root <=> c = slab.first
      /\ he[slab.first].prev = None
      /\ \A c \in S \ {slab.first} : he[c].prev \in S \ {slab.last} /\ he[he[c].prev].next = c
      /\ \A c \in S \ {slab.last} : he[c].next \in S /\ he[he[c].next].prev = c
      /\ he[slab.last].next \notin S
      /\ \A X \in SUBSET S : Passes(slab, he, X) => X = S
  BY DEF Linked
<1>2. Chain(he2, s) = S
  OBVIOUS
<1>3. \A c \in S : /\ he2[c].root = he[c].root
                   /\ he2[c].prev = he[c].prev /\ he2[c].next = he[c].next
  OBVIOUS
<1> HIDE DEF S
<1>4. ASSUME NEW X \in SUBSET S, Passes(slab2, he2, X) PROVE X = S
  <2>1. Passes(slab, he, X)
    BY <1>3, <1>4 DEF Passes
  <2> QED
    BY <1>1, <2>1
<1>5. /\ slab2.first \in S /\ slab2.last \in S
      /\ \A c \in S : he2[c].root <=> c = slab2.first
      /\ he2[slab2.first].prev = None
      /\ he2[slab2.last].next \notin S
  BY <1>1, <1>3
<1>6. \A c \in S \ {slab2.first} : he2[c].prev \in S \ {slab2.last} /\ he2[he2[c].prev].next = c
  BY <1>1, <1>3
<1>7. \A c \in S \ {slab2.last} : he2[c].next \in S /\ he2[he2[c].next].prev = c
  BY <1>1, <1>3
<1> QED
  BY <1>2, <1>4, <1>5, <1>6, <1>7 DEF Linked

(* What is done to the caches of one slab is nothing to another.           *)
OnlyOf(he, he2, s) ==
  \A d \in Page : \/ he2[d] = he[d]
                  \/ /\ he[d] = None \/ he[d].slab = s
                     /\ he2[d] = None \/ he2[d].slab = s

LEMMA OtherSlab ==
  ASSUME NEW he, NEW he2, NEW s, NEW t, t # s, OnlyOf(he, he2, s),
         NEW slab, NEW ends, OrderedAt(slab, he, t, ends)
  PROVE  OrderedAt(slab, he2, t, ends)
<1>1. Chain(he2, t) = Chain(he, t) /\ \A c \in Chain(he, t) : he2[c] = he[c]
  BY DEF Chain, OnlyOf
<1>2. CASE Chain(he, t) = {} /\ (slab = None \/ (ends /\ slab.first = None))
  BY <1>1, <1>2 DEF OrderedAt
<1>3. CASE /\ slab # None /\ Linked(slab, he, t) /\ Rooms(slab, he)
           /\ ends => he[slab.first].next = None
  <2>1. Linked(slab, he2, t)
    BY <1>1, <1>3, LinkedSame
  <2>2. slab.first \in Chain(he, t) /\ slab.last \in Chain(he, t)
    BY <1>3 DEF Linked
  <2>3. Rooms(slab, he2)
    BY <1>1, <1>3, <2>2 DEF Rooms
  <2> QED
    BY <1>1, <1>3, <2>1, <2>2, <2>3 DEF OrderedAt
<1> QED
  BY <1>2, <1>3 DEF OrderedAt

(* Some link leads into any part of the list that has not its beginning.   *)
LEMMA LedTo ==
  ASSUME NEW slab, NEW he, NEW s, Linked(slab, he, s),
         NEW D \in SUBSET Chain(he, s), D # {}, slab.first \notin D
  PROVE  \E c \in Chain(he, s) \ D : /\ c # slab.last /\ he[c].next \in D
                                     /\ he[he[c].next].prev = c
<1> DEFINE S == Chain(he, s)
<1>1. /\ slab.first \in S
      /\ \A c \in S \ {slab.last} : he[c].next \in S /\ he[he[c].next].prev = c
      /\ \A X \in SUBSET S : Passes(slab, he, X) => X = S
  BY DEF Linked
<1>2. S \ D \in SUBSET S /\ S \ D # S
  OBVIOUS
<1>3. ~ Passes(slab, he, S \ D)
  BY <1>1, <1>2
<1>4. PICK c \in S \ D : c # slab.last /\ he[c].next \notin S \ D
  BY <1>1, <1>3 DEF Passes
<1> HIDE DEF S
<1> QED
  BY <1>1, <1>4 DEF S

LEMMA Neighbours ==
  ASSUME NEW slab, NEW he, NEW s, Linked(slab, he, s), None \notin Page,
         NEW c \in Chain(he, s), c # slab.first
  PROVE  /\ he[c].prev # c
         /\ c # slab.last => he[c].next # c /\ he[c].next # he[c].prev
<1> DEFINE S == Chain(he, s)
           p == he[c].prev
           n == he[c].next
<1>1. p \in S /\ p # slab.last /\ he[p].next = c
  BY DEF Linked
<1>2. c # slab.last => n \in S /\ he[n].prev = c
  BY DEF Linked
<1>3. p # c
  <2> DEFINE D == {c}
  <2>1. D \in SUBSET S /\ D # {} /\ slab.first \notin D /\ \A d \in D : d = c
    OBVIOUS
  <2> HIDE DEF D
  <2>2. PICK d \in S \ D : he[d].next \in D /\ he[he[d].next].prev = d
    BY <2>1, LedTo
  <2> QED
    BY <2>1, <2>2 DEF D
<1>4. ASSUME c # slab.last PROVE n # c
  BY <1>2, <1>3, <1>4
<1>5. ASSUME c # slab.last, n = p PROVE FALSE
  <2>1. he[p].prev = c
    BY <1>2, <1>5
  <2>2. p # slab.first
    <3>1. he[slab.first].prev = None /\ c \in Page
      BY DEF Linked, Chain
    <3> QED
      BY <2>1, <3>1
  <2> DEFINE D == {p, c}
  <2>3. /\ D \in SUBSET S /\ D # {} /\ slab.first \notin D
        /\ \A d \in D : d = p \/ d = c
    BY <1>1, <2>2
  <2> HIDE DEF D
  <2>4. PICK d \in S \ D : he[d].next \in D /\ he[he[d].next].prev = d
    BY <2>3, LedTo
  <2>5. d # p /\ d # c
    BY <2>4 DEF D
  <2> QED
    BY <2>1, <2>3, <2>4, <2>5
<1> QED
  BY <1>3, <1>4, <1>5

LEMMA StepsUp ==
  ASSUME NEW R \in Nat, NEW T, 0 \in T, \A k \in Nat : k < R /\ k \in T => k + 1 \in T
  PROVE  \A k \in 0..R : k \in T
<1> DEFINE U == {k \in Nat : k <= R => k \in T}
<1>1. 0 \in U
  OBVIOUS
<1>2. \A k \in U : k + 1 \in U
  OBVIOUS
<1>3. U \in SUBSET Nat /\ \A k \in U : k <= R => k \in T
  OBVIOUS
<1> HIDE DEF U
<1>4. \A k \in Nat : k \in U
  BY <1>1, <1>2, <1>3, Induct
<1> QED
  BY <1>3, <1>4

(* Whoever follows the links of a list for as many steps as there are      *)
(* pages has seen all of it: until the last is seen, every step sees a     *)
(* cache not seen before.                                                  *)
LEMMA SeesAll ==
  ASSUME NEW slab, NEW he, NEW s, Linked(slab, he, s),
         NEW w, w[0] = slab.first,
         \A k \in 1..RootBlockSize :
           w[k] = IF w[k - 1] = slab.last THEN w[k - 1] ELSE he[w[k - 1]].next
  PROVE  {w[k] : k \in 0..RootBlockSize} = Chain(he, s)
<1> DEFINE S == Chain(he, s)
           R == RootBlockSize
           Seen(k) == {w[j] : j \in 0..k}
<1>1. /\ slab.first \in S /\ slab.last \in S
      /\ \A c \in S \ {slab.last} : he[c].next \in S
      /\ \A X \in SUBSET S : Passes(slab, he, X) => X = S
  BY DEF Linked
<1>2. R \in Nat /\ Cardinality(Page) = R /\ S \subseteq Page
  BY Sized, PagesCount DEF Chain
<1>3. IsFiniteSet(Page)
  <2>1. 0 \in Int /\ R - 1 \in Int
    BY <1>2
  <2>2. IsFiniteSet(0..(R - 1))
    BY <2>1, FS_Interval
  <2> QED
    BY <2>2 DEF Page
<1>4. ASSUME NEW k \in Nat, k < R
      PROVE  w[k + 1] = IF w[k] = slab.last THEN w[k] ELSE he[w[k]].next
  <2>1. k + 1 \in 1..R /\ (k + 1) - 1 = k
    BY <1>2, <1>4
  <2> QED
    BY <2>1
<1> HIDE DEF S, R
<1>5. \A k \in 0..R : w[k] \in S
  <2> DEFINE T == {k \in Nat : w[k] \in S}
  <2>1. 0 \in T
    BY <1>1
  <2>2. \A k \in Nat : k < R /\ k \in T => k + 1 \in T
    BY <1>1, <1>4
  <2>3. \A k \in T : w[k] \in S
    OBVIOUS
  <2> HIDE DEF T
  <2>4. \A k \in 0..R : k \in T
    BY <1>2, <2>1, <2>2, StepsUp
  <2> QED
    BY <2>3, <2>4
<1>6. ASSUME NEW k \in Nat, k <= R,
             w[k] = slab.last \/ (k < R /\ w[k + 1] \in Seen(k))
      PROVE  Seen(k) = S
  <2>1. Seen(k) \in SUBSET S
    <3>1. \A j \in 0..k : j \in 0..R
      BY <1>2, <1>6
    <3> QED
      BY <1>5, <3>1
  <2>2. slab.first \in Seen(k)
    <3>1. 0 \in 0..k
      BY <1>6
    <3> QED
      BY <3>1
  <2>3. ASSUME NEW j \in 0..k, w[j] # slab.last PROVE he[w[j]].next \in Seen(k)
    <3>1. CASE j = k
      BY <1>4, <1>6, <2>3, <3>1
    <3>2. CASE j # k
      <4>1. j + 1 \in 0..k /\ j \in Nat /\ j < R
        BY <1>2, <1>6, <3>2
      <4>2. w[j + 1] = he[w[j]].next
        BY <1>4, <2>3, <4>1
      <4> QED
        BY <4>1, <4>2
    <3> QED
      BY <3>1, <3>2
  <2>4. Passes(slab, he, Seen(k))
    BY <2>2, <2>3 DEF Passes
  <2> HIDE DEF Seen
  <2> QED
    BY <1>1, <2>1, <2>4
<1>7. \A k \in 0..R : /\ IsFiniteSet(Seen(k)) /\ Cardinality(Seen(k)) \in Nat
                      /\ slab.last \in Seen(k) \/ Cardinality(Seen(k)) >= k + 1
  <2> DEFINE Good(k) == /\ IsFiniteSet(Seen(k)) /\ Cardinality(Seen(k)) \in Nat
                        /\ slab.last \in Seen(k) \/ Cardinality(Seen(k)) >= k + 1
             T == {k \in Nat : Good(k)}
  <2>1. 0 \in T
    <3>1. Seen(0) = {w[0]}
      OBVIOUS
    <3> HIDE DEF Seen
    <3>2. IsFiniteSet(Seen(0)) /\ Cardinality(Seen(0)) = 1
      BY <3>1, FS_Singleton
    <3> QED
      BY <3>2
  <2>2. ASSUME NEW k \in Nat, k < R, k \in T PROVE k + 1 \in T
    <3>1. Seen(k + 1) = Seen(k) \union {w[k + 1]}
      OBVIOUS
    <3>2. w[k] \in Seen(k)
      OBVIOUS
    <3>3. k <= R /\ Good(k)
      BY <1>2, <2>2
    <3>4. ASSUME slab.last \notin Seen(k) PROVE w[k + 1] \notin Seen(k)
      BY <1>1, <1>6, <2>2, <3>3, <3>4
    <3> HIDE DEF Seen
    <3>5. IsFiniteSet(Seen(k + 1)) /\ Cardinality(Seen(k + 1)) \in Nat
      BY <3>1, <3>3, FS_AddElement, FS_CardinalityType
    <3>6. CASE slab.last \in Seen(k)
      BY <3>1, <3>5, <3>6
    <3>7. CASE slab.last \notin Seen(k)
      <4>1. Cardinality(Seen(k + 1)) = Cardinality(Seen(k)) + 1
        BY <3>1, <3>3, <3>4, <3>7, FS_AddElement
      <4> QED
        BY <3>3, <3>5, <3>7, <4>1
    <3> QED
      BY <3>6, <3>7
  <2>3. \A k \in T : Good(k)
    OBVIOUS
  <2> HIDE DEF T, Good, Seen
  <2>4. \A k \in 0..R : k \in T
    BY <1>2, <2>1, <2>2, StepsUp
  <2> QED
    BY <2>3, <2>4 DEF Good
<1>8. slab.last \in Seen(R)
  <2>1. Seen(R) \subseteq Page
    BY <1>2, <1>5
  <2>2. R \in 0..R
    BY <1>2
  <2> HIDE DEF Seen
  <2>3. Cardinality(Seen(R)) <= R
    BY <1>2, <1>3, <2>1, FS_Subset
  <2>4. Cardinality(Seen(R)) \in Nat /\ (slab.last \in Seen(R) \/ Cardinality(Seen(R)) >= R + 1)
    BY <1>7, <2>2
  <2> QED
    BY <1>2, <2>3, <2>4
<1>9. PICK i \in 0..R : w[i] = slab.last
  BY <1>8
<1>10. w[R] = slab.last
  <2> DEFINE T == {k \in Nat : k >= i => w[k] = slab.last}
  <2>1. 0 \in T
    BY <1>9
  <2>2. ASSUME NEW k \in Nat, k < R, k \in T PROVE k + 1 \in T
    <3>1. CASE k + 1 = i
      BY <1>9, <3>1
    <3>2. CASE k + 1 < i
      BY <3>2
    <3>3. CASE k + 1 > i
      <4>1. w[k] = slab.last
        BY <2>2, <3>3
      <4>2. w[k + 1] = slab.last
        BY <1>4, <2>2, <4>1
      <4> QED
        BY <4>2
    <3> QED
      BY <3>1, <3>2, <3>3
  <2>3. \A k \in T : k >= i => w[k] = slab.last
    OBVIOUS
  <2> HIDE DEF T
  <2>4. \A k \in 0..R : k \in T
    BY <1>2, <2>1, <2>2, StepsUp
  <2> QED
    BY <1>2, <2>3, <2>4
<1> QED
  BY <1>2, <1>6, <1>10 DEF R, S

LEMMA ListedIs ==
  ASSUME NEW s \in Slab, None \notin Page, Linked(slabs[s], heads, s)
  PROVE  Listed(s) = Chain(heads, s)
<1> DEFINE N == 0..Cardinality(Page)
           S == Chain(heads, s)
           first == slabs[s].first
           last == slabs[s].last
           F == [c \in S |-> IF c = last THEN c ELSE heads[c].next]
           Next1(x) == IF x \in {last, None} THEN x
                       ELSE IF heads[x] = None THEN None
                       ELSE heads[x].next
           Walk(walk) == walk = [k \in N |-> IF k = 0 THEN first
                                             ELSE IF walk[k - 1] \in {last, None} THEN walk[k - 1]
                                             ELSE IF heads[walk[k - 1]] = None THEN None
                                             ELSE heads[walk[k - 1]].next]
           w == CHOOSE walk : Walk(walk)
<1>1. Cardinality(Page) = RootBlockSize /\ RootBlockSize \in Nat \ {0}
  BY PagesCount, Sized
<1>2. /\ first \in S /\ last \in S
      /\ \A c \in S \ {last} : heads[c].next \in S
      /\ \A c \in S : c \in Page /\ heads[c] # None /\ c # None
  BY DEF Linked, Chain
<1>3. Listed(s) = {w[k] : k \in DOMAIN w}
  BY DEF Listed
<1> HIDE DEF S, first, last
<1>4. \A c \in S : F[c] \in S /\ F[c] = Next1(c)
  BY <1>2
<1>5. PICK f : Recurs(f, N, first, F)
  <2>1. N \in SUBSET Nat /\ \A n \in N : n = 0 \/ n - 1 \in N
    BY <1>1
  <2> QED
    BY <2>1, Recursion
<1> HIDE DEF F
<1>6. f = [k \in N |-> IF k = 0 THEN first ELSE F[f[k - 1]]]
  BY <1>5 DEF Recurs
<1>7. \A k \in N : f[k] \in S
  <2> DEFINE T == {k \in Nat : f[k] \in S}
  <2>1. 0 \in T
    BY <1>1, <1>2, <1>6
  <2>2. ASSUME NEW k \in Nat, k < RootBlockSize, k \in T PROVE k + 1 \in T
    <3>1. k + 1 \in N /\ (k + 1) - 1 = k /\ k + 1 # 0
      BY <1>1, <2>2
    <3>2. f[k + 1] = F[f[k]]
      BY <1>6, <3>1
    <3> QED
      BY <1>4, <2>2, <3>2
  <2>3. \A k \in T : f[k] \in S
    OBVIOUS
  <2> HIDE DEF T
  <2>4. \A k \in 0..RootBlockSize : k \in T
    BY <1>1, <2>1, <2>2, StepsUp
  <2> QED
    BY <1>1, <2>3, <2>4
<1>8. Walk(f)
  <2>1. \A k \in N : k # 0 => f[k - 1] \in S
    <3>1. \A k \in N : k # 0 => k - 1 \in N
      BY <1>1
    <3> QED
      BY <1>7, <3>1
  <2>2. \A k \in N : f[k] = IF k = 0 THEN first
                            ELSE IF f[k - 1] \in {last, None} THEN f[k - 1]
                            ELSE IF heads[f[k - 1]] = None THEN None
                            ELSE heads[f[k - 1]].next
    BY <1>4, <1>6, <2>1, ZenonT(60)
  <2>3. f = [k \in N |-> f[k]]
    BY <1>6
  <2> QED
    BY <2>2, <2>3
<1>9. Walk(w)
  BY <1>8
<1> HIDE DEF w
<1>10. DOMAIN w = N
  BY <1>9
<1>11. w[0] = first
  BY <1>1, <1>9
<1>12. \A k \in N : k # 0 => w[k] = Next1(w[k - 1])
  BY <1>9
<1>13. \A k \in 0..RootBlockSize : w[k] \in S
  <2> DEFINE T == {k \in Nat : w[k] \in S}
  <2>1. 0 \in T
    BY <1>2, <1>11
  <2>2. ASSUME NEW k \in Nat, k < RootBlockSize, k \in T PROVE k + 1 \in T
    <3>1. k + 1 \in N /\ (k + 1) - 1 = k /\ k + 1 # 0
      BY <1>1, <2>2
    <3>2. w[k + 1] = Next1(w[k])
      BY <1>12, <3>1
    <3> QED
      BY <1>4, <2>2, <3>2
  <2>3. \A k \in T : w[k] \in S
    OBVIOUS
  <2> HIDE DEF T
  <2>4. \A k \in 0..RootBlockSize : k \in T
    BY <1>1, <2>1, <2>2, StepsUp
  <2> QED
    BY <2>3, <2>4
<1>14. \A k \in 1..RootBlockSize :
         w[k] = IF w[k - 1] = last THEN w[k - 1] ELSE heads[w[k - 1]].next
  <2>1. \A k \in 1..RootBlockSize : k \in N /\ k # 0 /\ k - 1 \in 0..RootBlockSize
    BY <1>1
  <2> QED
    BY <1>2, <1>12, <1>13, <2>1
<1>15. {w[k] : k \in 0..RootBlockSize} = S
  <2>1. Linked(slabs[s], heads, s) /\ w[0] = slabs[s].first
    BY <1>11 DEF first
  <2>2. \A k \in 1..RootBlockSize :
          w[k] = IF w[k - 1] = slabs[s].last THEN w[k - 1] ELSE heads[w[k - 1]].next
    BY <1>14 DEF last
  <2> QED
    BY <2>1, <2>2, SeesAll DEF S
<1> QED
  BY <1>1, <1>3, <1>10, <1>15 DEF S

LEMMA NonePage == None \notin Page
BY SlabAssumption

LEMMA ChainIs ==
  ASSUME NEW m \in Mem, NEW c
  PROVE  /\ c \in Chain(m.heads, m.id) <=> c \in Page /\ Holds(m, c)
         /\ c \in Chain(m.heads, m.id) =>
              /\ c \in Page /\ c # None /\ m.heads[c] # None /\ m.heads[c] \in Header
              /\ m.heads[c].slab = m.id /\ m.heads[c].prev \in Link /\ m.heads[c].next \in Link
<1>1. c \in Chain(m.heads, m.id) <=> c \in Page /\ Holds(m, c)
  BY NonePage DEF Chain, Holds
<1>2. ASSUME c \in Page, m.heads[c] # None
      PROVE  m.heads[c] \in Header /\ m.heads[c].prev \in Link /\ m.heads[c].next \in Link
  <2>1. m.heads[c] \in Header
    BY <1>2, HeadIs
  <2> QED
    BY <2>1 DEF Header
<1> QED
  BY <1>1, <1>2, NonePage DEF Chain

(* A new cache is the list, or comes behind its last.                      *)
LEMMA Started ==
  ASSUME NEW m \in Mem, NEW c \in Page, m.heads[c] = None, ~ m.broken,
         m.slab.first = None, m.slab.free = None, Chain(m.heads, m.id) = {}
  PROVE  LET n == CacheInit(m, c) IN
         /\ ~ n.broken /\ n.disordered = m.disordered /\ n.slab.free = c
         /\ Linked(n.slab, n.heads, m.id) /\ Rooms(n.slab, n.heads)
         /\ OnlyOf(m.heads, n.heads, m.id)
<1> DEFINE n == CacheInit(m, c)
<1>1. Begun(m, n, c)
  BY CacheInitIs
<1> HIDE DEF n
<1>2. /\ n \in Mem /\ n.disordered = m.disordered /\ ~ n.broken
      /\ n.slab.first = c /\ n.slab.last = c /\ n.slab.free = c
      /\ n.heads[c] # None /\ n.heads[c].slab = m.id /\ n.heads[c].root
      /\ n.heads[c].prev = None /\ n.heads[c].next = None
      /\ n.heads[c].count = 0 /\ n.heads[c].recycled = <<>> /\ n.heads[c].fresh = 0
      /\ \A d \in Page : d # c => n.heads[d] = m.heads[d]
  BY <1>1 DEF Begun
<1>3. Chain(n.heads, m.id) = {c}
  BY <1>2 DEF Chain
<1>4. Linked(n.slab, n.heads, m.id)
  <2>1. \A X \in SUBSET {c} : c \in X => X = {c}
    OBVIOUS
  <2>2. None \notin {c}
    BY NonePage
  <2>3. \A X \in SUBSET {c} : Passes(n.slab, n.heads, X) => X = {c}
    BY <1>2, <2>1 DEF Passes
  <2> QED
    BY <1>2, <1>3, <2>2, <2>3 DEF Linked
<1>5. ~ IsFull(n.heads[c])
  BY <1>2, HeadIs, LedgerNew
<1>6. Rooms(n.slab, n.heads)
  BY <1>2, <1>5 DEF Rooms
<1>7. OnlyOf(m.heads, n.heads, m.id)
  BY <1>2 DEF OnlyOf
<1> QED
  BY <1>2, <1>4, <1>6, <1>7 DEF n

LEMMA Appended ==
  ASSUME NEW m \in Mem, NEW c \in Page, m.heads[c] = None, ~ m.broken, m.slab.free = None,
         Linked(m.slab, m.heads, m.id)
  PROVE  LET n == CacheInit(m, c) IN
         /\ ~ n.broken /\ n.disordered = m.disordered /\ n.slab.free = c
         /\ Linked(n.slab, n.heads, m.id) /\ Rooms(n.slab, n.heads)
         /\ OnlyOf(m.heads, n.heads, m.id)
<1> DEFINE n == CacheInit(m, c)
           S == Chain(m.heads, m.id)
           first == m.slab.first
           last == m.slab.last
<1>0. /\ first \in S /\ last \in S
      /\ \A d \in S : m.heads[d].root <=> d = first
      /\ m.heads[first].prev = None
      /\ \A d \in S \ {first} : m.heads[d].prev \in S \ {last} /\ m.heads[m.heads[d].prev].next = d
      /\ \A d \in S \ {last} : m.heads[d].next \in S /\ m.heads[m.heads[d].next].prev = d
      /\ m.heads[last].next \notin S
      /\ \A X \in SUBSET S : Passes(m.slab, m.heads, X) => X = S
  BY DEF Linked
<1>1. Begun(m, n, c)
  BY CacheInitIs
<1> HIDE DEF n
<1>2. /\ first # None /\ Holds(m, last) /\ last # c /\ c \notin S /\ c # first
      /\ m.heads[last] \in Header
  BY <1>0, ChainIs, NonePage DEF Chain
<1>3. /\ n \in Mem /\ n.disordered = m.disordered /\ ~ n.broken
      /\ n.slab.first = first /\ n.slab.last = c /\ n.slab.free = c
      /\ n.heads[c] # None /\ n.heads[c].slab = m.id /\ ~ n.heads[c].root
      /\ n.heads[c].count = 0 /\ n.heads[c].recycled = <<>> /\ n.heads[c].fresh = 0
      /\ \A d \in Page : d # c => (n.heads[d] = None <=> m.heads[d] = None)
      /\ \A d \in Page : d # c /\ d # last => n.heads[d] = m.heads[d]
      /\ n.heads[c].prev = last /\ n.heads[c].next = None
      /\ n.heads[last] = [m.heads[last] EXCEPT !.next = c]
  BY <1>1, <1>2 DEF Begun
<1>4. /\ n.heads[last].next = c /\ n.heads[last].prev = m.heads[last].prev
      /\ n.heads[last].root = m.heads[last].root /\ n.heads[last].slab = m.heads[last].slab
  BY <1>2, <1>3 DEF Header
<1>5. \A d \in S : /\ d \in Page /\ d # c /\ n.heads[d].root = m.heads[d].root
                   /\ n.heads[d].prev = m.heads[d].prev
                   /\ d # last => n.heads[d].next = m.heads[d].next
  BY <1>2, <1>3, <1>4 DEF Chain
<1>6. Chain(n.heads, m.id) = S \union {c}
  <2>1. ASSUME NEW d \in Page, d # c
        PROVE  (n.heads[d] # None /\ n.heads[d].slab = m.id)
                 <=> (m.heads[d] # None /\ m.heads[d].slab = m.id)
    BY <1>3, <1>4, <2>1
  <2>2. n.heads[c] # None /\ n.heads[c].slab = m.id
    BY <1>3
  <2> QED
    BY <2>1, <2>2 DEF Chain
<1>7. None \notin S \union {c}
  BY NonePage DEF Chain
<1> DEFINE P == S \union {c}
<1> HIDE DEF S, first, last
<1>8. /\ first \in P /\ c \in P
      /\ \A d \in P : n.heads[d].root <=> d = first
      /\ n.heads[first].prev = None /\ n.heads[c].next \notin P
  BY <1>0, <1>2, <1>3, <1>5, <1>7
<1>9. \A d \in P \ {first} : n.heads[d].prev \in P \ {c} /\ n.heads[n.heads[d].prev].next = d
  <2>1. n.heads[c].prev \in P \ {c} /\ n.heads[n.heads[c].prev].next = c
    BY <1>0, <1>2, <1>3, <1>4
  <2>2. ASSUME NEW d \in S, d # first
        PROVE  n.heads[d].prev \in P \ {c} /\ n.heads[n.heads[d].prev].next = d
    BY <1>0, <1>2, <1>5, <2>2
  <2> QED
    BY <2>1, <2>2
<1>10. \A d \in P \ {c} : n.heads[d].next \in P /\ n.heads[n.heads[d].next].prev = d
  <2>1. n.heads[last].next \in P /\ n.heads[n.heads[last].next].prev = last
    BY <1>3, <1>4
  <2>2. ASSUME NEW d \in S, d # last
        PROVE  n.heads[d].next \in P /\ n.heads[n.heads[d].next].prev = d
    BY <1>0, <1>2, <1>5, <2>2
  <2> QED
    BY <2>1, <2>2
<1>11. ASSUME NEW X \in SUBSET P, Passes(n.slab, n.heads, X) PROVE X = P
  <2>1. first \in X /\ \A d \in X \ {c} : n.heads[d].next \in X
    BY <1>3, <1>11 DEF Passes
  <2>2. first \in X \ {c} /\ \A d \in (X \ {c}) \ {last} : m.heads[d].next \in X \ {c}
    <3>1. first # c
      BY <1>2
    <3>2. ASSUME NEW d \in X \ {c}, d # last PROVE m.heads[d].next \in X \ {c}
      <4>1. d \in S /\ n.heads[d].next \in X /\ n.heads[d].next = m.heads[d].next
        BY <1>5, <2>1, <3>2
      <4>2. m.heads[d].next \in S
        BY <1>0, <3>2, <4>1
      <4> QED
        BY <1>2, <4>1, <4>2
    <3> QED
      BY <2>1, <3>1, <3>2
  <2>3. Passes(m.slab, m.heads, X \ {c})
    BY <2>2 DEF Passes, first, last
  <2>4. X \ {c} = S
    <3>1. X \ {c} \in SUBSET S
      OBVIOUS
    <3> QED
      BY <1>0, <2>3, <3>1
  <2>5. last \in X /\ last # c
    BY <1>0, <1>2, <2>4
  <2>6. c \in X
    BY <1>4, <2>1, <2>5
  <2> QED
    BY <2>4, <2>6
<1>12. Linked(n.slab, n.heads, m.id)
  BY <1>3, <1>6, <1>8, <1>9, <1>10, <1>11 DEF Linked
<1>13. ~ IsFull(n.heads[c])
  BY <1>3, HeadIs, LedgerNew
<1>14. Rooms(n.slab, n.heads)
  BY <1>3, <1>13 DEF Rooms
<1>15. OnlyOf(m.heads, n.heads, m.id)
  <2>1. m.heads[last].slab = m.id /\ n.heads[last].slab = m.id
    BY <1>0, <1>4 DEF Chain, S
  <2> QED
    BY <1>3, <2>1 DEF OnlyOf
<1> QED
  BY <1>3, <1>12, <1>14, <1>15 DEF n

(* Where the links lead after a cache has moved.                           *)
LEMMA MovedUp ==
  ASSUME NEW m \in Mem, NEW c \in Page, m.heads[c] # None, Holds(m, m.heads[c].prev),
         m.heads[c].prev # c
  PROVE  LET n == MoveUp(m, c)
             p == m.heads[c].prev
         IN n.heads[c].next = p /\ n.heads[p].next = m.heads[c].next
<1> DEFINE p == m.heads[c].prev
           x == m.heads[c].next
           n == MoveUp(m, c)
<1>1. m.heads[c] \in Header /\ p \in Page /\ m.heads[p] \in Header /\ p # c
  BY HeadIs, HoldsIs DEF Header
<1>2. n = [m EXCEPT !.heads[p].prev = c, !.heads[p].next = x,
                    !.heads[c].next = p, !.heads[c].prev = c,
                    !.disordered = TRUE]
  BY DEF MoveUp
<1> HIDE DEF n, p, x
<1>3. n.heads[c].next = p /\ n.heads[p].next = x
  BY <1>1, <1>2 DEF Mem, Header
<1> QED
  BY <1>3 DEF n, p, x

LEMMA MovedDown ==
  ASSUME NEW m \in Mem, NEW c \in Page, m.heads[c] # None, Holds(m, m.heads[c].next),
         m.heads[c].next # c
  PROVE  LET n == MoveDown(m, c) IN
         n.heads[c].prev = m.heads[c].next /\ n.heads[c].next = c
<1> DEFINE p == m.heads[c].next
           x == m.heads[c].prev
           n == MoveDown(m, c)
<1>1. m.heads[c] \in Header /\ p \in Page /\ m.heads[p] \in Header /\ p # c
  BY HeadIs, HoldsIs DEF Header
<1>2. n = [m EXCEPT !.heads[p].next = c, !.heads[p].prev = x,
                    !.heads[c].prev = p, !.heads[c].next = c,
                    !.disordered = TRUE]
  BY DEF MoveDown
<1> HIDE DEF n, p, x
<1>3. n.heads[c].prev = p /\ n.heads[c].next = c
  BY <1>1, <1>2 DEF Mem, Header
<1> QED
  BY <1>3 DEF n, p, x

(* The search for a cache with room ends where at most one cache follows.  *)
LEMMA Found ==
  ASSUME NEW m \in Mem, ~ m.broken, NEW c \in Page, Holds(m, c), m.slab.free = c,
         NEW x, x = m.heads[c].next, x = None \/ (Holds(m, x) /\ m.heads[x].next = None)
  PROVE  LET r == FirstFree(m) IN
         /\ ~ r.broken
         /\ r.slab.free \in {None, c, x}
         /\ r.slab.free # None => ~ IsFull(r.heads[r.slab.free])
<1> DEFINE F == StepOf(m)
<1>1. PICK w \in [0..RootBlockSize -> Link] :
        /\ w[0] = m.slab.free
        /\ \A k \in 1..RootBlockSize : w[k] = F[w[k - 1]]
        /\ FirstFree(m) =
             LET end == w[RootBlockSize] IN
             IF end = None THEN [m EXCEPT !.slab.free = None]
             ELSE Using(m, {end}, [m EXCEPT !.slab.free = end, !.broken = IsFull(m.heads[end])])
  BY Walks
<1>2. RootBlockSize \in Nat /\ RootBlockSize >= 2
  BY Sized, TwoPages
<1>3. c \in Link /\ x \in Link /\ None \in Link
  <2>1. m.heads[c] \in Header
    BY HoldsIs DEF Link
  <2> QED
    BY <2>1 DEF Header, Link
<1>4. \A d \in Link : F[d] = IF d = None THEN None
                             ELSE IF ~ Holds(m, d) \/ ~ IsFull(m.heads[d]) THEN d
                             ELSE m.heads[d].next
  BY DEF StepOf
<1>5. w[1] = F[c] /\ w[2] = F[F[c]]
  <2>1. 1 \in 1..RootBlockSize /\ 2 \in 1..RootBlockSize /\ 1 - 1 = 0 /\ 2 - 1 = 1
    BY <1>2
  <2> QED
    BY <1>1, <2>1
<1>6. Holds(m, None) = FALSE
  BY DEF Holds
<1> DEFINE b == w[2]
<1>7. /\ b \in {None, c, x} /\ b \in Link /\ F[b] = b
      /\ b # None => Holds(m, b) /\ ~ IsFull(m.heads[b])
  <2>1. c # None
    BY <1>6
  <2>2. CASE ~ IsFull(m.heads[c])
    BY <1>3, <1>4, <1>5, <2>1, <2>2
  <2>3. CASE IsFull(m.heads[c])
    <3>1. F[c] = x
      BY <1>3, <1>4, <2>1, <2>3
    <3>2. CASE x = None
      BY <1>3, <1>4, <1>5, <3>1, <3>2
    <3>3. CASE x # None /\ ~ IsFull(m.heads[x])
      BY <1>3, <1>4, <1>5, <3>1, <3>3
    <3>4. CASE x # None /\ IsFull(m.heads[x])
      <4>1. F[x] = None
        BY <1>3, <1>4, <3>4
      <4> QED
        BY <1>3, <1>4, <1>5, <3>1, <4>1
    <3> QED
      BY <3>2, <3>3, <3>4
  <2> QED
    BY <2>2, <2>3
<1> HIDE DEF F
<1>8. w[RootBlockSize] = b
  <2>1. 2 \in 0..RootBlockSize
    BY <1>2
  <2>2. \A k \in 1..RootBlockSize : w[k] = StepOf(m)[w[k - 1]]
    BY <1>1 DEF F
  <2>3. StepOf(m)[b] = b
    BY <1>7 DEF F
  <2> HIDE DEF b
  <2>4. w[2] = b
    BY DEF b
  <2> QED
    BY <1>7, <2>1, <2>2, <2>3, <2>4, Settles
<1> HIDE DEF b
<1>9. FirstFree(m) = IF b = None THEN [m EXCEPT !.slab.free = None]
                     ELSE Using(m, {b}, [m EXCEPT !.slab.free = b, !.broken = IsFull(m.heads[b])])
  BY <1>1, <1>8
<1>10. FirstFree(m).heads = m.heads
  BY FirstFreeIs
<1>11. CASE b = None
  <2>1. FirstFree(m) = [m EXCEPT !.slab.free = None]
    BY <1>9, <1>11
  <2>2. FirstFree(m).broken = m.broken /\ FirstFree(m).slab.free = None
    BY <2>1 DEF Mem, SlabHeader
  <2> QED
    BY <2>2
<1>12. CASE b # None
  <2>1. FirstFree(m) = [m EXCEPT !.slab.free = b, !.broken = IsFull(m.heads[b])]
    BY <1>7, <1>9, <1>12 DEF Using
  <2>2. FirstFree(m).broken = IsFull(m.heads[b]) /\ FirstFree(m).slab.free = b
    BY <2>1 DEF Mem, SlabHeader
  <2> QED
    BY <1>7, <1>10, <1>12, <2>2
<1> QED
  BY <1>11, <1>12

(* An object from the last cache, which has room: no header that is gone   *)
(* is used, and the list is as it was unless the cache moves.              *)
LEMMA TakeOrdered ==
  ASSUME NEW m \in Mem, ~ m.broken, ~ m.disordered,
         Linked(m.slab, m.heads, m.id), Rooms(m.slab, m.heads),
         NEW c \in Page, m.slab.free = c, m.heads[c].count < CacheObjects,
         m.heads[c].recycled = <<>> => m.heads[c].fresh < CacheObjects
  PROVE  LET r == CacheAlloc(m, c) IN
         /\ ~ r.broken
         /\ ~ r.disordered => /\ Linked(r.slab, r.heads, m.id) /\ Rooms(r.slab, r.heads)
                              /\ OnlyOf(m.heads, r.heads, m.id)
<1> DEFINE t == Taken(m, c)
           n == Sorted(m, c)
           p == m.heads[c].prev
           f == FirstFree(n)
           r == CacheAlloc(m, c)
           S == Chain(m.heads, m.id)
<1>1. /\ c = m.slab.last /\ m.heads[c].next = None /\ c \in S
      /\ p # None => p \in S /\ p # c
  <2>1. c # None /\ c = m.slab.last /\ m.heads[c].next = None
    BY NonePage DEF Rooms
  <2>2. c \in S /\ (c = m.slab.first => p = None) /\ (c # m.slab.first => p \in S /\ p # m.slab.last)
    BY <2>1 DEF Linked
  <2> QED
    BY <2>1, <2>2
<1>2. /\ m.heads[c] # None /\ m.heads[c] \in Header /\ Holds(m, c)
      /\ p # None => p \in Page /\ Holds(m, p) /\ m.heads[p] # None
  BY <1>1, ChainIs
<1>3. /\ n \in Mem /\ Relinked(t, n) /\ n.slab = m.slab /\ ~ n.broken
      /\ ~ n.disordered => n.heads = t.heads
      /\ n.disordered => n = MoveUp(t, c) /\ p # None
      /\ t \in Mem /\ t.id = m.id
      /\ \A d \in Page : d # c => t.heads[d] = m.heads[d]
      /\ t.heads[c] \in Header /\ t.heads[c] = [m.heads[c] EXCEPT !.count = @ + 1]
  <2>1. /\ n \in Mem /\ Relinked(t, n) /\ n.slab = m.slab
        /\ n.broken <=> m.broken \/ (p # None /\ ~ Holds(m, p))
        /\ ~ n.disordered => n.heads = t.heads
        /\ ~ m.disordered /\ n.disordered => Holds(m, p) /\ n = MoveUp(t, c)
        /\ t \in Mem /\ t.id = m.id
        /\ \A d \in Page : d # c => t.heads[d] = m.heads[d]
        /\ t.heads[c] \in Header /\ t.heads[c] = [m.heads[c] EXCEPT !.count = @ + 1]
    BY <1>2, SortedIs
  <2>2. Holds(m, p) => p # None
    BY DEF Holds
  <2> QED
    BY <1>2, <2>1, <2>2
<1>4. /\ t.heads[c] # None /\ t.heads[c].slab = m.id /\ t.heads[c].root = m.heads[c].root
      /\ t.heads[c].prev = p /\ t.heads[c].next = None
  BY <1>1, <1>2, <1>3, NoneIsNoHeader DEF Chain, Header
<1>5. n.id = m.id /\ Holds(n, c) /\ (p # None => Holds(n, p))
  <2>1. ASSUME NEW d \in Page, d # None, t.heads[d] # None, t.heads[d].slab = m.id
        PROVE  Holds(n, d)
    BY <1>3, <2>1 DEF Relinked, SameBut, Holds
  <2>2. n.id = m.id
    BY <1>3 DEF Relinked
  <2>3. Holds(n, c)
    BY <1>4, <2>1, NonePage
  <2>4. p # None => t.heads[p] # None /\ t.heads[p].slab = m.id
    BY <1>1, <1>2, <1>3 DEF Holds
  <2> QED
    BY <1>2, <2>1, <2>2, <2>3, <2>4
<1> HIDE DEF n, t
<1>6. /\ ~ f.broken /\ f.heads = n.heads
      /\ f.slab.free # None => ~ IsFull(f.heads[f.slab.free])
      /\ ~ n.disordered => f.slab.free \in {None, c}
  <2>1. f.heads = n.heads
    BY <1>3, FirstFreeIs
  <2>2. n.slab.free = c
    BY <1>3
  <2>3. CASE ~ n.disordered
    <3>1. n.heads[c].next = None
      BY <1>3, <1>4, <2>3
    <3>2. /\ ~ f.broken /\ f.slab.free \in {None, c, None}
          /\ f.slab.free # None => ~ IsFull(f.heads[f.slab.free])
      BY <1>3, <1>5, <2>2, <3>1, Found
    <3> QED
      BY <2>1, <3>2
  <2>4. CASE n.disordered
    <3>1. n = MoveUp(t, c) /\ p # None /\ p # c /\ Holds(t, p) /\ t.heads[c].prev = p
      BY <1>1, <1>2, <1>3, <1>4, <2>4 DEF Holds
    <3>2. t \in Mem /\ t.heads[c] # None /\ Holds(t, t.heads[c].prev) /\ t.heads[c].prev # c
      BY <1>3, <1>4, <3>1
    <3>3. /\ MoveUp(t, c).heads[c].next = t.heads[c].prev
          /\ MoveUp(t, c).heads[t.heads[c].prev].next = t.heads[c].next
      BY <3>2, MovedUp
    <3>4. n.heads[c].next = p /\ n.heads[p].next = None
      BY <1>4, <3>1, <3>3
    <3>5. /\ ~ f.broken
          /\ f.slab.free # None => ~ IsFull(f.heads[f.slab.free])
      BY <1>3, <1>5, <2>2, <3>1, <3>4, Found
    <3> QED
      BY <2>1, <2>4, <3>5
  <2> QED
    BY <2>3, <2>4
<1>7. /\ f \in Mem /\ f.id = n.id /\ f.disordered = n.disordered
      /\ f.slab.first = m.slab.first /\ f.slab.last = m.slab.last
  BY <1>3, FirstFreeIs
<1>8. /\ f.heads[c] # None /\ f.heads[c].recycled = m.heads[c].recycled
      /\ f.heads[c].fresh = m.heads[c].fresh
  <2>1. t.heads[c].recycled = m.heads[c].recycled /\ t.heads[c].fresh = m.heads[c].fresh
    BY <1>2, <1>3 DEF Header
  <2> QED
    BY <1>3, <1>4, <1>6, <2>1, ZenonT(60) DEF Relinked
<1>9. r = Popped(f, c)
  BY <1>3, CacheAllocAs DEF n, r
<1> HIDE DEF f, r
<1>10. /\ r \in Mem /\ r.id = f.id /\ r.slab = f.slab /\ r.broken = f.broken
       /\ r.disordered = f.disordered
       /\ \A d \in Page : d # c => r.heads[d] = f.heads[d]
       /\ r.heads[c] \in Header
       /\ r.heads[c] = IF f.heads[c].recycled = <<>>
                       THEN [f.heads[c] EXCEPT !.fresh = @ + 1]
                       ELSE [f.heads[c] EXCEPT !.recycled = Tail(@)]
  <2>1. f \in Mem /\ f.heads[c] # None /\ (f.heads[c].recycled = <<>> => f.heads[c].fresh < CacheObjects)
    BY <1>7, <1>8
  <2> QED
    BY <1>9, <2>1, PopIs, ZenonT(60) DEF Popped
<1>11. ASSUME ~ r.disordered
       PROVE  /\ Linked(r.slab, r.heads, m.id) /\ Rooms(r.slab, r.heads)
              /\ OnlyOf(m.heads, r.heads, m.id)
  <2>1. n.heads = t.heads /\ f.heads[c] = t.heads[c] /\ f.heads[c] \in Header
    BY <1>3, <1>6, <1>7, <1>10, <1>11
  <2>2. /\ r.heads[c].slab = m.id /\ r.heads[c].root = m.heads[c].root
        /\ r.heads[c].prev = p /\ r.heads[c].next = None
        /\ r.heads[c].count = f.heads[c].count
    <3>1. CASE f.heads[c].recycled = <<>>
      BY <1>4, <1>10, <2>1, <3>1 DEF Header
    <3>2. CASE f.heads[c].recycled # <<>>
      BY <1>4, <1>10, <2>1, <3>2 DEF Header
    <3> QED
      BY <3>1, <3>2
  <2>3. \A d \in Page : d # c => r.heads[d] = m.heads[d]
    BY <1>3, <1>6, <1>10, <2>1
  <2>4. r.heads[c] # None
    BY <1>10, NoneIsNoHeader
  <2>5. Chain(r.heads, m.id) = S
    BY <1>2, <2>2, <2>3, <2>4 DEF Chain, Holds
  <2>6. \A d \in S : /\ r.heads[d].root = m.heads[d].root
                     /\ r.heads[d].prev = m.heads[d].prev /\ r.heads[d].next = m.heads[d].next
    BY <1>1, <2>2, <2>3 DEF Chain
  <2>7. r.slab.first = m.slab.first /\ r.slab.last = m.slab.last
    BY <1>7, <1>10
  <2>8. Linked(r.slab, r.heads, m.id)
    BY <2>5, <2>6, <2>7, LinkedSame
  <2>9. ~ IsFull(f.heads[c]) => ~ IsFull(r.heads[c])
    BY <1>4, <2>1, <2>2 DEF IsFull, MaxObjects
  <2>10. Rooms(r.slab, r.heads)
    BY <1>1, <1>6, <1>7, <1>10, <1>11, <2>2, <2>7, <2>9 DEF Rooms
  <2>11. OnlyOf(m.heads, r.heads, m.id)
    BY <1>2, <2>2, <2>3 DEF OnlyOf, Holds
  <2> QED
    BY <2>8, <2>10, <2>11
<1> QED
  BY <1>6, <1>10, <1>11 DEF r

(* An object goes back to its cache.  Either the header behind it is not   *)
(* there, or the cache moves in between two headers that are, or the list  *)
(* stays as it was.                                                        *)
LEMMA FreeOrdered ==
  ASSUME NEW m \in Mem, ~ m.broken, ~ m.disordered, Linked(m.slab, m.heads, m.id),
         NEW c \in Chain(m.heads, m.id), NEW slot \in Slot,
         m.heads[c].count > 0, m.heads[c].count <= MaxObjects(m.heads[c]),
         Rooms(m.slab, m.heads)
  PROVE  LET r == CacheFree(m, c, slot)
             n == m.heads[c].next
         IN /\ r.broken => n # None /\ ~ Holds(m, n)
            /\ ~ r.broken /\ r.disordered => Holds(r, r.heads[c].prev) /\ Holds(r, r.heads[c].next)
            /\ ~ r.broken /\ ~ r.disordered =>
                 /\ Linked(r.slab, r.heads, m.id) /\ Rooms(r.slab, r.heads)
                 /\ OnlyOf(m.heads, r.heads, m.id)
                 /\ r.heads[c].next # None => Holds(r, r.heads[c].next)
<1> DEFINE t == Put(m, c, slot)
           n == m.heads[c].next
           moved == IF t.heads[n].count > t.heads[c].count THEN MoveDown(t, c) ELSE t
           lost == [t EXCEPT !.broken = TRUE]
           r == CacheFree(m, c, slot)
           S == Chain(m.heads, m.id)
<1>1. /\ c \in Page /\ c # None /\ m.heads[c] # None /\ m.heads[c] \in Header
      /\ m.heads[c].slab = m.id /\ n \in Link
  BY ChainIs
<1>2. /\ t \in Mem /\ t.id = m.id /\ t.slab = m.slab /\ ~ t.broken /\ ~ t.disordered
      /\ \A d \in Page : d # c => t.heads[d] = m.heads[d]
      /\ t.heads[c] \in Header /\ t.heads[c].slab = m.heads[c].slab
      /\ t.heads[c].root = m.heads[c].root /\ t.heads[c].prev = m.heads[c].prev
      /\ t.heads[c].next = n /\ t.heads[c].count = m.heads[c].count - 1
  <2>1. /\ t \in Mem /\ t.id = m.id /\ t.slab = m.slab /\ t.broken = m.broken
        /\ t.disordered = m.disordered
        /\ \A d \in Page : d # c => t.heads[d] = m.heads[d]
    BY <1>1, PutIs, ZenonT(60)
  <2>2. /\ t.heads[c] \in Header /\ t.heads[c].slab = m.heads[c].slab
        /\ t.heads[c].root = m.heads[c].root /\ t.heads[c].prev = m.heads[c].prev
        /\ t.heads[c].next = m.heads[c].next /\ t.heads[c].count = m.heads[c].count - 1
    BY <1>1, PutIs
  <2> QED
    BY <2>1, <2>2
<1>3. t.heads[c] # None
  BY <1>2, NoneIsNoHeader
<1>4. \A d \in Link : Holds(t, d) <=> Holds(m, d)
  BY <1>1, <1>2, <1>3 DEF Holds, Link
<1>5. r = IF n = None THEN t ELSE IF Holds(t, n) THEN moved ELSE lost
  BY <1>2 DEF CacheFree, Put, Using
<1>6. n # None /\ Holds(m, n) => n \in Page /\ n # c
  <2>1. ASSUME n # None, Holds(m, n) PROVE n \in S
    BY <1>1, <2>1, HoldsIs, ChainIs
  <2>2. ASSUME n \in S, n = c PROVE FALSE
    <3>1. c # m.slab.last /\ m.heads[n].prev = c
      BY <2>2 DEF Linked
    <3>2. c # m.slab.first
      BY <1>1, <2>2, <3>1 DEF Linked
    <3> QED
      BY <2>2, <3>1, <3>2, Neighbours, NonePage
  <2> QED
    BY <2>1, <2>2 DEF Chain
<1>7. /\ r \in Mem /\ r.id = m.id /\ r.slab = m.slab
      /\ \A d \in Page : /\ r.heads[d] = None <=> m.heads[d] = None
                         /\ m.heads[d] # None => r.heads[d].slab = m.heads[d].slab
  BY <1>1, CacheFreeIs, ZenonT(60) DEF SameBut
<1> HIDE DEF t, r
<1>8. \A d \in Link : Holds(r, d) <=> Holds(m, d)
  BY <1>7 DEF Holds, Link
<1>9. CASE n # None /\ ~ Holds(m, n)
  <2>1. r = lost
    BY <1>1, <1>4, <1>5, <1>9
  <2>2. lost.broken
    BY <1>2, BrokenIs
  <2> QED
    BY <1>9, <2>1, <2>2 DEF r
<1>10. CASE n # None /\ Holds(m, n) /\ r = MoveDown(t, c)
  <2>1. n \in Page /\ n # c /\ Holds(t, n) /\ t.heads[c].next = n
    BY <1>1, <1>2, <1>4, <1>6, <1>10
  <2>2. r.heads[c].prev = t.heads[c].next /\ r.heads[c].next = c
    <3>1. Holds(t, t.heads[c].next) /\ t.heads[c].next # c
      BY <2>1
    <3>2. MoveDown(t, c).heads[c].prev = t.heads[c].next /\ MoveDown(t, c).heads[c].next = c
      BY <1>1, <1>2, <1>3, <3>1, MovedDown
    <3> QED
      BY <1>10, <3>2
  <2>3. ~ r.broken /\ r.disordered
    <3>1. Holds(t, t.heads[c].next)
      BY <2>1
    <3>2. MoveDown(t, c).broken = t.broken /\ MoveDown(t, c).disordered
      BY <1>1, <1>2, <1>3, <3>1, MoveDownIs
    <3> QED
      BY <1>2, <1>10, <3>2
  <2>4. Holds(r, n) /\ Holds(r, c)
    <3>1. Holds(m, c) /\ c \in Link
      BY <1>1 DEF Holds, Link
    <3> QED
      BY <1>1, <1>8, <1>10, <3>1
  <2>5. Holds(r, r.heads[c].prev) /\ Holds(r, r.heads[c].next)
    BY <1>2, <2>2, <2>4
  <2> QED
    BY <2>3, <2>5 DEF r
<1>11. CASE (n = None \/ Holds(m, n)) /\ r = t
  <2>1. Chain(r.heads, m.id) = S
    BY <1>1, <1>2, <1>3, <1>11 DEF Chain
  <2>2. \A d \in S : /\ r.heads[d].root = m.heads[d].root
                     /\ r.heads[d].prev = m.heads[d].prev /\ r.heads[d].next = m.heads[d].next
    BY <1>2, <1>11 DEF Chain
  <2>3. Linked(r.slab, r.heads, m.id)
    BY <1>7, <2>1, <2>2, LinkedSame
  <2>4. ~ IsFull(r.heads[c])
    <3>1. MaxObjects(r.heads[c]) = MaxObjects(m.heads[c]) /\ MaxObjects(m.heads[c]) \in Nat
      BY <1>1, <1>2, <1>11, MaxObjectsIs DEF MaxObjects
    <3>2. m.heads[c].count \in Nat
      BY <1>1, SlabAssumption DEF Header
    <3> QED
      BY <1>2, <1>11, <3>1, <3>2 DEF IsFull
  <2>5. Rooms(r.slab, r.heads)
    <3>1. ASSUME m.slab.free # None
          PROVE  ~ IsFull(r.heads[m.slab.free]) /\ r.heads[m.slab.free].next = None
      <4>1. m.slab.free \in S /\ ~ IsFull(m.heads[m.slab.free]) /\ m.heads[m.slab.free].next = None
        BY <3>1 DEF Rooms, Linked
      <4> QED
        BY <1>2, <1>11, <2>2, <2>4, <4>1 DEF Chain
    <3> QED
      BY <1>7, <3>1 DEF Rooms
  <2>6. OnlyOf(m.heads, r.heads, m.id)
    BY <1>1, <1>2, <1>11 DEF OnlyOf
  <2>7. r.heads[c].next # None => Holds(r, r.heads[c].next)
    BY <1>1, <1>2, <1>8, <1>11
  <2> QED
    BY <1>2, <1>11, <2>3, <2>5, <2>6, <2>7 DEF r
<1>12. (n = None \/ Holds(m, n)) => r = t \/ (n # None /\ r = MoveDown(t, c))
  BY <1>1, <1>4, <1>5
<1> QED
  BY <1>9, <1>10, <1>11, <1>12

(* A cache between two others leaves the list, and they meet.              *)
LEMMA CutInner ==
  ASSUME NEW slab, NEW he, NEW s, Linked(slab, he, s),
         NEW c \in Chain(he, s), c # slab.first, c # slab.last,
         NEW p, p = he[c].prev, NEW n, n = he[c].next,
         NEW slab2, NEW he2, slab2.first = slab.first, slab2.last = slab.last,
         he2[c] = None, \A d \in Page : d \notin {c, p, n} => he2[d] = he[d],
         he2[p] # None, he2[p].slab = s, he2[p].root = he[p].root,
         he2[p].prev = he[p].prev, he2[p].next = n,
         he2[n] # None, he2[n].slab = s, he2[n].root = he[n].root,
         he2[n].prev = p, he2[n].next = he[n].next
  PROVE  Linked(slab2, he2, s)
<1> DEFINE S == Chain(he, s)
           P == S \ {c}
           first == slab.first
           last == slab.last
<1>1. /\ first \in S /\ last \in S
      /\ \A d \in S : he[d].root <=> d = first
      /\ he[first].prev = None
      /\ \A d \in S \ {first} : he[d].prev \in S \ {last} /\ he[he[d].prev].next = d
      /\ \A d \in S \ {last} : he[d].next \in S /\ he[he[d].next].prev = d
      /\ he[last].next \notin S
      /\ \A X \in SUBSET S : Passes(slab, he, X) => X = S
  BY DEF Linked
<1>2. p \in S /\ p # last /\ n \in S /\ p # c /\ n # c /\ n # p
      /\ he[p].next = c /\ he[n].prev = c /\ c \in S
  BY <1>1, Neighbours, NonePage
<1>3. \A d \in S : d \in Page /\ d # None
  BY NonePage DEF Chain
<1>4. Chain(he2, s) = P
  <2>1. ASSUME NEW d \in Page
        PROVE  (he2[d] # None /\ he2[d].slab = s) <=> (d # c /\ he[d] # None /\ he[d].slab = s)
    <3>1. \A e \in {p, n} : he[e] # None /\ he[e].slab = s
      BY <1>2 DEF Chain
    <3> QED
      BY <1>2, <3>1
  <2> QED
    BY <2>1 DEF Chain
<1> HIDE DEF S, first, last
<1>5. \A d \in P : /\ he2[d].root = he[d].root
                   /\ d # n => he2[d].prev = he[d].prev
                   /\ d # p => he2[d].next = he[d].next
  <2>1. ASSUME NEW d \in P, d # p, d # n PROVE he2[d] = he[d]
    BY <1>3, <2>1
  <2> QED
    BY <2>1
<1>6. n # first
  BY <1>1, <1>2, <1>3
<1>7. /\ first \in P /\ last \in P
      /\ \A d \in P : he2[d].root <=> d = first
      /\ he2[first].prev = None /\ he2[last].next \notin P
  <2>1. first \in P /\ last \in P
    BY <1>1 DEF first, last
  <2> QED
    BY <1>1, <1>2, <1>5, <1>6, <2>1
<1>8. ASSUME NEW d \in P, d # first
      PROVE  he2[d].prev \in P \ {last} /\ he2[he2[d].prev].next = d
  <2>1. CASE d = n
    BY <1>2, <2>1
  <2>2. CASE d # n
    <3>1. he2[d].prev = he[d].prev /\ he[d].prev \in S \ {last} /\ he[he[d].prev].next = d
      BY <1>1, <1>5, <1>8, <2>2
    <3>2. he[d].prev # c /\ he[d].prev # p
      BY <1>2, <2>2, <3>1
    <3> QED
      BY <1>5, <3>1, <3>2
  <2> QED
    BY <2>1, <2>2
<1>9. ASSUME NEW d \in P, d # last
      PROVE  he2[d].next \in P /\ he2[he2[d].next].prev = d
  <2>1. CASE d = p
    BY <1>2, <2>1
  <2>2. CASE d # p
    <3>1. he2[d].next = he[d].next /\ he[d].next \in S /\ he[he[d].next].prev = d
      BY <1>1, <1>5, <1>9, <2>2
    <3>2. he[d].next # c /\ he[d].next # n
      BY <1>2, <2>2, <3>1
    <3> QED
      BY <1>5, <3>1, <3>2
  <2> QED
    BY <2>1, <2>2
<1>10. ASSUME NEW X \in SUBSET P, Passes(slab2, he2, X) PROVE X = P
  <2>1. first \in X /\ \A d \in X \ {last} : he2[d].next \in X
    BY <1>10 DEF Passes, first, last
  <2>2. CASE p \in X
    <3> DEFINE Y == X \union {c}
    <3>1. n \in X
      BY <1>2, <2>1, <2>2
    <3>2. \A d \in Y \ {last} : he[d].next \in Y
      BY <1>2, <1>5, <2>1, <3>1
    <3>3. Y \in SUBSET S /\ Passes(slab, he, Y)
      BY <1>2, <2>1, <3>2 DEF Passes, first, last
    <3>4. Y = S
      BY <1>1, <3>3
    <3> QED
      BY <3>4
  <2>3. CASE p \notin X
    <3>1. \A d \in X \ {last} : he[d].next \in X
      BY <1>5, <2>1, <2>3
    <3>2. X \in SUBSET S /\ Passes(slab, he, X)
      BY <2>1, <3>1 DEF Passes, first, last
    <3>3. X = S
      BY <1>1, <3>2
    <3> QED
      BY <1>2, <3>3
  <2> QED
    BY <2>2, <2>3
<1>11. slab2.first = first /\ slab2.last = last
  BY DEF first, last
<1> HIDE DEF P
<1> QED
  BY <1>4, <1>7, <1>8, <1>9, <1>10, <1>11 DEF Linked

(* The last cache leaves the list, and the one before is the last.         *)
LEMMA CutLast ==
  ASSUME NEW slab, NEW he, NEW s, Linked(slab, he, s), slab.last # slab.first,
         NEW slab2, NEW he2, slab2.first = slab.first, slab2.last = he[slab.last].prev,
         he2[slab.last] = None, \A d \in Page : d # slab.last => he2[d] = he[d]
  PROVE  Linked(slab2, he2, s)
<1> DEFINE S == Chain(he, s)
           first == slab.first
           last == slab.last
           P == S \ {last}
           p == he[last].prev
<1>1. /\ first \in S /\ last \in S
      /\ \A d \in S : he[d].root <=> d = first
      /\ he[first].prev = None
      /\ \A d \in S \ {first} : he[d].prev \in S \ {last} /\ he[he[d].prev].next = d
      /\ \A d \in S \ {last} : he[d].next \in S /\ he[he[d].next].prev = d
      /\ \A X \in SUBSET S : Passes(slab, he, X) => X = S
  BY DEF Linked
<1>2. p \in S /\ p # last /\ he[p].next = last
  BY <1>1
<1>3. Chain(he2, s) = P
  BY DEF Chain
<1>4. \A d \in P : he2[d] = he[d]
  BY DEF Chain
<1>5. slab2.first = first /\ slab2.last = p
  OBVIOUS
<1>6. first # last
  OBVIOUS
<1> HIDE DEF S, first, last, p
<1>7. /\ first \in P /\ p \in P
      /\ \A d \in P : he2[d].root <=> d = first
      /\ he2[first].prev = None /\ he2[p].next \notin P
  BY <1>1, <1>2, <1>4, <1>6
<1>8. ASSUME NEW d \in P, d # first
      PROVE  he2[d].prev \in P \ {p} /\ he2[he2[d].prev].next = d
  BY <1>1, <1>2, <1>4, <1>8
<1>9. ASSUME NEW d \in P, d # p
      PROVE  he2[d].next \in P /\ he2[he2[d].next].prev = d
  <2>1. he[d].next \in S /\ he[he[d].next].prev = d
    BY <1>1, <1>9
  <2>2. he[d].next # last
    BY <1>9, <2>1 DEF p
  <2> QED
    BY <1>4, <2>1, <2>2
<1>10. ASSUME NEW X \in SUBSET P, Passes(slab2, he2, X) PROVE X = P
  <2>1. first \in X /\ \A d \in X \ {p} : he[d].next \in X
    BY <1>4, <1>5, <1>10 DEF Passes
  <2>2. CASE p \in X
    <3> DEFINE Y == X \union {last}
    <3>1. \A d \in Y \ {last} : he[d].next \in Y
      BY <1>2, <2>1
    <3>2. Y \in SUBSET S /\ Passes(slab, he, Y)
      BY <1>1, <2>1, <3>1 DEF Passes, first, last
    <3>3. Y = S
      BY <1>1, <3>2
    <3> QED
      BY <3>3
  <2>3. CASE p \notin X
    <3>1. X \in SUBSET S /\ Passes(slab, he, X)
      BY <2>1, <2>3 DEF Passes, first
    <3>2. X = S
      BY <1>1, <3>1
    <3> QED
      BY <1>2, <2>3, <3>2
  <2> QED
    BY <2>2, <2>3
<1> HIDE DEF P
<1> QED
  BY <1>3, <1>5, <1>7, <1>8, <1>9, <1>10 DEF Linked

LEMMA CutWhole ==
  ASSUME NEW m \in Mem, NEW c \in Page, m.heads[c] # None
  PROVE  LET r == CacheDestroy(m, c)
             h == m.heads[c]
         IN /\ r.disordered = m.disordered
            /\ ~ m.broken /\ (\/ h.prev = None \/ h.next = None
                              \/ Holds(m, h.prev) /\ Holds(m, h.next)) => ~ r.broken
<1> DEFINE h == m.heads[c]
           cut == [m EXCEPT !.slab = EndsWithout(@, h)]
           bridged == [cut EXCEPT !.heads[h.prev].next = h.next, !.heads[h.next].prev = h.prev]
           lost == [cut EXCEPT !.broken = TRUE]
           whole == \A d \in {h.prev, h.next} : Holds(cut, d)
           u == IF h.prev # None /\ h.next # None THEN IF whole THEN bridged ELSE lost ELSE cut
           r == CacheDestroy(m, c)
<1>1. r = [u EXCEPT !.heads[c] = None]
  BY DEF CacheDestroy, Using
<1>2. /\ cut.disordered = m.disordered /\ cut.broken = m.broken /\ cut.heads = m.heads
      /\ cut.id = m.id
      /\ DOMAIN cut = {"id", "slab", "heads", "disordered", "broken"}
  BY DEF Mem
<1>3. whole <=> Holds(m, h.prev) /\ Holds(m, h.next)
  BY <1>2 DEF Holds
<1> HIDE DEF cut, whole, h
<1>4. bridged.disordered = cut.disordered /\ bridged.broken = cut.broken
  BY <1>2
<1>5. lost.disordered = cut.disordered
  BY <1>2
<1>6. u.disordered = m.disordered
  BY <1>2, <1>4, <1>5
<1>7. (h.prev # None /\ h.next # None => whole) => u.broken = m.broken
  BY <1>2, <1>4
<1>8. u.disordered = r.disordered /\ u.broken = r.broken
  <2>1. DOMAIN u = {"id", "slab", "heads", "disordered", "broken"}
    BY <1>2
  <2> HIDE DEF u, r
  <2> QED
    BY <1>1, <2>1
<1> QED
  BY <1>3, <1>6, <1>7, <1>8 DEF h, r

(* An empty cache that is not the first is given back.                     *)
LEMMA CutOrdered ==
  ASSUME NEW m \in Mem, ~ m.broken, Linked(m.slab, m.heads, m.id), Rooms(m.slab, m.heads),
         NEW c \in Chain(m.heads, m.id), c # m.slab.first,
         m.heads[c].next = None \/ Holds(m, m.heads[c].next)
  PROVE  LET r == Forget(CacheDestroy(m, c), c) IN
         /\ Linked(r.slab, r.heads, m.id) /\ Rooms(r.slab, r.heads)
         /\ OnlyOf(m.heads, r.heads, m.id)
<1> DEFINE h == m.heads[c]
           p == h.prev
           n == h.next
           cut == [m EXCEPT !.slab = EndsWithout(@, h)]
           bridged == [cut EXCEPT !.heads[p].next = n, !.heads[n].prev = p]
           y == CacheDestroy(m, c)
           r == Forget(y, c)
           S == Chain(m.heads, m.id)
<1>1. /\ c \in Page /\ c # None /\ h \in Header /\ h.slab = m.id /\ h # None /\ Holds(m, c)
      /\ n \in Link
  BY ChainIs
<1>2. p \in S /\ p # m.slab.last /\ m.heads[p].next = c
  BY DEF Linked
<1>3. /\ p \in Page /\ p # None /\ m.heads[p] \in Header /\ m.heads[p] # None
      /\ m.heads[p].slab = m.id /\ Holds(m, p)
  BY <1>2, ChainIs
<1>4. m.slab \in SlabHeader /\ m.id \in Slab /\ m.heads \in [Page -> Header \union {None}]
  BY DEF Mem
<1>5. /\ cut.slab.first = m.slab.first /\ cut.slab.free = m.slab.free
      /\ cut.slab.last = IF n = None THEN p ELSE m.slab.last
      /\ cut.heads = m.heads /\ cut.id = m.id /\ cut \in Mem
  <2> DEFINE q == EndsWithout(m.slab, h)
  <2>1. /\ q.first = m.slab.first /\ q.free = m.slab.free
        /\ q.last = IF n = None THEN p ELSE m.slab.last
    BY <1>3, <1>4 DEF EndsWithout, SlabHeader
  <2>2. q \in SlabHeader
    BY <1>1, <1>3, <1>4 DEF EndsWithout, SlabHeader, Header
  <2> HIDE DEF q
  <2>3. cut = [m EXCEPT !.slab = q]
    BY DEF q
  <2>4. cut.slab = q /\ cut.heads = m.heads /\ cut.id = m.id /\ cut \in Mem
    BY <2>2, <2>3 DEF Mem
  <2> QED
    BY <2>1, <2>4
<1>6. y = [(IF n = None THEN cut ELSE bridged) EXCEPT !.heads[c] = None]
  <2> DEFINE u == IF p # None /\ n # None
                  THEN IF \A d \in {p, n} : Holds(cut, d)
                       THEN bridged ELSE [cut EXCEPT !.broken = TRUE]
                  ELSE cut
  <2>1. y = [u EXCEPT !.heads[c] = None]
    BY DEF CacheDestroy, Using
  <2>2. n # None => Holds(cut, p) /\ Holds(cut, n)
    BY <1>3, <1>5 DEF Holds
  <2>3. u = IF n = None THEN cut ELSE bridged
    BY <1>3, <2>2
  <2> HIDE DEF u, y
  <2> QED
    BY <2>1, <2>3
<1> HIDE DEF y, cut
<1>7. ASSUME y.heads \in [Page -> Header \union {None}], y.slab = cut.slab, y \in Mem
      PROVE  /\ r.heads = y.heads /\ r.slab.first = y.slab.first /\ r.slab.last = y.slab.last
             /\ r.slab.free = IF y.slab.free = c THEN None ELSE y.slab.free
  BY <1>7 DEF Forget, Mem, SlabHeader
<1>8. CASE n = None
  <2>1. c = m.slab.last
    BY <1>8, NonePage DEF Linked, Chain
  <2>2. y = [cut EXCEPT !.heads[c] = None]
    BY <1>6, <1>8
  <2>3. /\ y \in Mem /\ y.slab = cut.slab /\ y.heads[c] = None
        /\ \A d \in Page : d # c => y.heads[d] = m.heads[d]
    BY <1>1, <1>5, <2>2 DEF Mem
  <2>4. /\ r.heads = y.heads /\ r.slab.first = m.slab.first /\ r.slab.last = p
        /\ r.slab.free = IF m.slab.free = c THEN None ELSE m.slab.free
    <3>1. y.heads \in [Page -> Header \union {None}]
      BY <2>3 DEF Mem
    <3> QED
      BY <1>5, <1>7, <1>8, <2>3, <3>1
  <2> HIDE DEF r, p, h
  <2>5. Linked(r.slab, r.heads, m.id)
    <3>1. m.slab.last # m.slab.first /\ r.slab.last = m.heads[m.slab.last].prev
      BY <2>1, <2>4 DEF p, h
    <3> QED
      BY <2>1, <2>3, <2>4, <3>1, CutLast
  <2>6. r.slab.free = None
    BY <2>1, <2>4 DEF Rooms
  <2>7. OnlyOf(m.heads, r.heads, m.id)
    BY <1>1, <2>3, <2>4 DEF OnlyOf, h
  <2> QED
    BY <2>5, <2>6, <2>7 DEF Rooms, r, y
<1>9. CASE n # None
  <2>1. Holds(m, n) /\ n \in S
    BY <1>1, <1>9, ChainIs, HoldsIs
  <2>2. c # m.slab.last
    BY <2>1 DEF Linked
  <2>3. n # c /\ n # p /\ p # c /\ m.heads[n].prev = c
    <3>1. m.heads[n].prev = c
      BY <2>2 DEF Linked
    <3> QED
      BY <2>2, <3>1, Neighbours, NonePage
  <2>4. n \in Page /\ m.heads[n] \in Header /\ m.heads[n] # None /\ m.heads[n].slab = m.id
    BY <2>1, ChainIs
  <2>5. y = [bridged EXCEPT !.heads[c] = None]
    BY <1>6, <1>9
  <2> HIDE DEF h, p, n
  <2> DEFINE g == [m.heads EXCEPT ![p] = [m.heads[p] EXCEPT !.next = n],
                                  ![n] = [m.heads[n] EXCEPT !.prev = p]]
  <2>6. bridged = [cut EXCEPT !.heads = g]
    BY <1>3, <1>5, <2>3, <2>4 DEF Mem
  <2>7. /\ g[p] = [m.heads[p] EXCEPT !.next = n] /\ g[n] = [m.heads[n] EXCEPT !.prev = p]
        /\ \A d \in Page : d # p /\ d # n => g[d] = m.heads[d]
    BY <1>3, <1>4, <2>3, <2>4
  <2>8. g \in [Page -> Header \union {None}]
    <3>1. [m.heads[p] EXCEPT !.next = n] \in Header /\ [m.heads[n] EXCEPT !.prev = p] \in Header
      BY <1>1, <1>3, <2>4 DEF Header, Link
    <3> QED
      BY <1>3, <1>4, <2>4, <3>1
  <2> HIDE DEF g
  <2>9. /\ y \in Mem /\ y.slab = cut.slab /\ y.heads[c] = None
        /\ \A d \in Page : d # c => y.heads[d] = g[d]
    <3>1. bridged \in Mem /\ bridged.slab = cut.slab /\ bridged.heads = g
      BY <1>5, <2>6, <2>8, ZenonT(60) DEF Mem
    <3> HIDE DEF bridged
    <3> QED
      BY <1>1, <2>5, <3>1 DEF Mem
  <2>10. /\ r.heads = y.heads /\ r.slab.first = m.slab.first /\ r.slab.last = m.slab.last
         /\ r.slab.free = IF m.slab.free = c THEN None ELSE m.slab.free
    <3>1. y.heads \in [Page -> Header \union {None}]
      BY <2>9 DEF Mem
    <3> QED
      BY <1>5, <1>7, <1>9, <2>9, <3>1
  <2> HIDE DEF r
  <2>11. /\ r.heads[c] = None
         /\ \A d \in Page : d \notin {c, p, n} => r.heads[d] = m.heads[d]
    BY <2>7, <2>9, <2>10
  <2>12. /\ r.heads[p] # None /\ r.heads[p].slab = m.id /\ r.heads[p].root = m.heads[p].root
         /\ r.heads[p].prev = m.heads[p].prev /\ r.heads[p].next = n
    <3>1. r.heads[p] = [m.heads[p] EXCEPT !.next = n]
      BY <1>3, <2>3, <2>7, <2>9, <2>10
    <3>2. [m.heads[p] EXCEPT !.next = n] \in Header
      BY <1>1, <1>3 DEF Header
    <3> QED
      BY <1>3, <3>1, <3>2, NoneIsNoHeader DEF Header
  <2>13. /\ r.heads[n] # None /\ r.heads[n].slab = m.id /\ r.heads[n].root = m.heads[n].root
         /\ r.heads[n].prev = p /\ r.heads[n].next = m.heads[n].next
         /\ r.heads[n].count = m.heads[n].count
    <3>1. r.heads[n] = [m.heads[n] EXCEPT !.prev = p]
      BY <2>3, <2>4, <2>7, <2>9, <2>10
    <3>2. [m.heads[n] EXCEPT !.prev = p] \in Header
      BY <1>3, <2>4 DEF Header, Link
    <3> QED
      BY <2>4, <3>1, <3>2, NoneIsNoHeader DEF Header
  <2>14. Linked(r.slab, r.heads, m.id)
    <3>1. p = m.heads[c].prev /\ n = m.heads[c].next
      BY DEF p, n, h
    <3>2. r.slab.first = m.slab.first /\ r.slab.last = m.slab.last
      BY <2>10
    <3> QED
      BY <2>2, <2>11, <2>12, <2>13, <3>1, <3>2, CutInner
  <2>15. Rooms(r.slab, r.heads)
    <3>1. ASSUME r.slab.free # None
          PROVE  /\ r.slab.free = r.slab.last
                 /\ ~ IsFull(r.heads[r.slab.free]) /\ r.heads[r.slab.free].next = None
      <4>1. /\ r.slab.free = m.slab.free /\ m.slab.free = m.slab.last
            /\ ~ IsFull(m.heads[m.slab.free]) /\ m.heads[m.slab.free].next = None
        BY <2>10, <3>1 DEF Rooms
      <4>2. m.slab.last \in Page /\ m.slab.last # p /\ m.slab.last # c
        BY <1>2, <2>2 DEF Linked, Chain
      <4>3. CASE m.slab.last = n
        BY <2>4, <2>10, <2>13, <4>1, <4>3 DEF IsFull, MaxObjects
      <4>4. CASE m.slab.last # n
        BY <2>10, <2>11, <4>1, <4>2, <4>4
      <4> QED
        BY <4>3, <4>4
    <3> QED
      BY <3>1 DEF Rooms
  <2>16. OnlyOf(m.heads, r.heads, m.id)
    BY <1>1, <1>3, <2>4, <2>11, <2>12, <2>13 DEF OnlyOf, h
  <2> QED
    BY <2>14, <2>15, <2>16 DEF r, y
<1> QED
  BY <1>8, <1>9

-----------------------------------------------------------------------------
(* The order of the lists from one step to the next: whoever works on one  *)
(* slab leaves the others alone.                                           *)
LEMMA OrderedNext ==
  ASSUME NEW s \in Slab, NEW sl \in Slabbed, NEW he, NEW dy, Ordered(sl, he, dy),
         NEW he2, OnlyOf(he, he2, s), NEW dy2, NEW x, OrderedAt(x, he2, s, s = dy2),
         \A t \in Slab : t # s => (t = dy2 <=> t = dy)
  PROVE  Ordered([sl EXCEPT ![s] = x], he2, dy2)
<1> DEFINE sl2 == [sl EXCEPT ![s] = x]
<1>1. sl2[s] = x /\ \A t \in Slab : t # s => sl2[t] = sl[t]
  BY DEF Slabbed
<1> HIDE DEF sl2
<1>2. ASSUME NEW t \in Slab, t # s PROVE OrderedAt(sl2[t], he2, t, t = dy2)
  <2>1. OrderedAt(sl[t], he, t, t = dy)
    BY DEF Ordered
  <2>2. OrderedAt(sl[t], he2, t, t = dy)
    BY <1>2, <2>1, OtherSlab
  <2>3. (t = dy) = (t = dy2)
    BY <1>2
  <2> QED
    BY <1>1, <1>2, <2>2, <2>3
<1>3. Ordered(sl2, he2, dy2)
  BY <1>1, <1>2 DEF Ordered
<1> QED
  BY <1>3 DEF sl2

LEMMA OnlyOfTrans ==
  ASSUME NEW he, NEW he2, NEW he3, NEW s, OnlyOf(he, he2, s), OnlyOf(he2, he3, s)
  PROVE  OnlyOf(he, he3, s)
BY DEF OnlyOf

(* A list that has lost its order does not get it back.                    *)
LEMMA TakeDisordered ==
  ASSUME NEW m \in Mem, m.disordered, NEW c \in Page, m.heads[c] # None,
         m.heads[c].count < CacheObjects,
         m.heads[c].recycled = <<>> => m.heads[c].fresh < CacheObjects
  PROVE  CacheAlloc(m, c).disordered
<1> DEFINE t == Taken(m, c)
           n == Sorted(m, c)
           f == FirstFree(n)
<1>1. n \in Mem /\ Relinked(t, n) /\ n.disordered
  BY SortedIs
<1>2. t.heads[c] = [m.heads[c] EXCEPT !.count = @ + 1] /\ t.heads[c] \in Header
  BY SortedIs
<1>3. CacheAlloc(m, c) = IF n.broken THEN n ELSE Popped(f, c)
  BY CacheAllocAs
<1>4. m.heads[c] \in Header
  BY HeadIs
<1>5. t.heads[c].recycled = m.heads[c].recycled /\ t.heads[c].fresh = m.heads[c].fresh
  BY <1>2, <1>4 DEF Header
<1> HIDE DEF n, t
<1>6. f \in Mem /\ f.heads = n.heads /\ f.disordered = n.disordered
  BY <1>1, FirstFreeIs
<1> HIDE DEF f
<1>7. t.heads[c] # None
  BY <1>2, NoneIsNoHeader
<1>8. /\ f.heads[c] # None
      /\ f.heads[c].recycled = <<>> => f.heads[c].fresh < CacheObjects
  BY <1>1, <1>5, <1>6, <1>7 DEF Relinked
<1>9. Popped(f, c).disordered = f.disordered
  BY <1>6, <1>8, PopIs DEF Popped
<1> QED
  BY <1>1, <1>3, <1>6, <1>9

LEMMA FreeDisordered ==
  ASSUME NEW m \in Mem, m.disordered, NEW c \in Page, m.heads[c] # None, NEW slot \in Slot,
         m.heads[c].count > 0
  PROVE  CacheFree(m, c, slot).disordered
<1> DEFINE t == Put(m, c, slot)
           n == t.heads[c].next
           y == IF t.heads[n].count > t.heads[c].count THEN MoveDown(t, c) ELSE t
           lost == [t EXCEPT !.broken = TRUE]
           r == CacheFree(m, c, slot)
<1>1. /\ t \in Mem /\ t.disordered = m.disordered /\ t.heads[c] \in Header
      /\ t.heads[c].next = m.heads[c].next
  BY PutIs, ZenonT(60)
<1>2. r = IF n = None THEN t ELSE IF Holds(t, n) THEN y ELSE lost
  BY <1>1 DEF CacheFree, Using, Put
<1>3. lost.disordered = t.disordered
  BY <1>1 DEF Mem
<1> HIDE DEF t, r
<1>4. Holds(t, n) => MoveDown(t, c).disordered
  BY <1>1, MoveDownIs, NoneIsNoHeader
<1> QED
  BY <1>1, <1>2, <1>3, <1>4 DEF r

-----------------------------------------------------------------------------
(* No memory of two owners: nothing is handed out once a live block        *)
(* overlaps a free one.  And as long as no cache has changed its place,    *)
(* the lists are in order.                                                 *)
LinkInv ==
  /\ ~ shared
  /\ ~ disordered /\ ~ broken => Ordered(slabs, heads, dying)

(* What every step does: the order once lost stays lost; a header that is  *)
(* gone is used as UsesWhatItHolds says, and no other way; and otherwise   *)
(* the lists stay in order.                                                *)
Excused == broken' => broken \/ disordered \/ \E o \in objects \ objects' : BeforeGone(o)
Onward ==
  /\ disordered => disordered'
  /\ Excused
  /\ ~ disordered' /\ ~ broken' => Ordered(slabs', heads', dying')

(* A step on the slab s that leaves the order to be shown.                 *)
LEMMA OnwardIs ==
  ASSUME SlabInv, LinkInv, ~ broken, NEW s \in Slab, NEW n \in Mem, Store(s, n),
         dying' = dying,
         disordered => n.disordered, ~ disordered => Excused,
         ~ disordered /\ ~ n.disordered /\ ~ n.broken =>
           OnlyOf(heads, n.heads, s) /\ OrderedAt(n.slab, n.heads, s, s = dying)
  PROVE  Onward
<1>1. /\ slabs' = [slabs EXCEPT ![s] = n.slab] /\ heads' = n.heads
      /\ disordered' = n.disordered /\ broken' = n.broken
  BY DEF Store
<1>2. ASSUME ~ disordered', ~ broken' PROVE Ordered(slabs', heads', dying')
  <2>1. ~ disordered /\ ~ n.disordered /\ ~ n.broken
    BY <1>1, <1>2
  <2>2. Ordered(slabs, heads, dying)
    BY <2>1 DEF LinkInv
  <2>3. OnlyOf(heads, n.heads, s) /\ OrderedAt(n.slab, n.heads, s, s = dying)
    BY <2>1
  <2>4. slabs \in Slabbed
    BY DEF SlabInv, SlabTypeOK, Slabbed
  <2>5. Ordered([slabs EXCEPT ![s] = n.slab], n.heads, dying)
    BY <2>2, <2>3, <2>4, OrderedNext
  <2> QED
    BY <1>1, <2>5
<1>3. Excused
  BY DEF Excused
<1> QED
  BY <1>1, <1>2, <1>3 DEF Onward

(* The lists of a slab that is there and is not to be destroyed.           *)
LEMMA LinkedNow ==
  ASSUME SlabInv, LinkInv, ~ disordered, ~ broken, NEW s \in Slab, slabs[s] # None, s # dying
  PROVE  Linked(slabs[s], heads, s) /\ Rooms(slabs[s], heads)
<1>1. OrderedAt(slabs[s], heads, s, s = dying)
  BY DEF LinkInv, Ordered
<1> QED
  BY <1>1 DEF OrderedAt

LEMMA MemoryOrder ==
  ASSUME NEW s
  PROVE  Memory(s).disordered = disordered
BY DEF Memory

LEMMA InitSlabLinks ==
  ASSUME BuddyInv, SlabInv, LinkInv, ~ shared', NEW s \in Slab, InitSlab(s)
  PROVE  Onward
<1> DEFINE c == Given(CachePages)
           m == [Memory(s) EXCEPT !.slab = NoCaches]
           n == CacheInit(m, c)
<1>1. slabs[s] = None /\ Alloc(CachePages) /\ Store(s, n) /\ objects' = objects /\ dying' = dying
      /\ ~ broken /\ dying = None
  BY DEF InitSlab, SlabInit, Sane
<1>2. c \in Page /\ heads[c] = None
  BY <1>1, CacheSize, AllocIs, NewPage
<1>3. NoCaches \in SlabHeader /\ NoCaches.first = None /\ NoCaches.free = None
  BY DEF NoCaches, SlabHeader, Link
<1>4. m \in Mem /\ m.id = s /\ m.slab = NoCaches /\ m.heads = heads /\ m.broken = broken
      /\ m.disordered = disordered
  BY <1>3 DEF Memory, Mem, SlabInv, SlabTypeOK
<1> HIDE DEF m, c
<1>5. n \in Mem /\ n.disordered = m.disordered
  <2>1. Begun(m, n, c)
    BY <1>2, <1>4, CacheInitIs
  <2> HIDE DEF n
  <2> QED
    BY <2>1 DEF Begun
<1>6. ASSUME ~ disordered
      PROVE  /\ ~ n.broken /\ Linked(n.slab, n.heads, s) /\ Rooms(n.slab, n.heads)
             /\ OnlyOf(heads, n.heads, s)
  <2>1. OrderedAt(slabs[s], heads, s, s = dying)
    BY <1>1, <1>6 DEF LinkInv, Ordered
  <2>2. Chain(heads, s) = {}
    BY <1>1, <2>1 DEF OrderedAt
  <2> QED
    BY <1>1, <1>2, <1>3, <1>4, <2>2, Started
<1> HIDE DEF n
<1>7. ~ disordered => Excused
  BY <1>1, <1>6 DEF Store, Excused
<1>8. s # dying /\ n.slab # None
  BY <1>1, <1>5, SlabAssumption DEF Mem
<1>9. ~ disordered => OnlyOf(heads, n.heads, s) /\ OrderedAt(n.slab, n.heads, s, s = dying)
  BY <1>6, <1>8 DEF OrderedAt
<1> QED
  BY <1>1, <1>4, <1>5, <1>7, <1>9, OnwardIs

(* slab_alloc from a cache that has room.                                  *)
LEMMA TakeLinks ==
  ASSUME SlabInv, LinkInv, Sane, NEW s \in Slab, slabs[s] # None, Gives(s), NEW size,
         slabs[s].free # None, SlabAlloc(s, size)
  PROVE  Onward
<1> DEFINE m == Memory(s)
           c == slabs[s].free
           n == CacheAlloc(m, c)
           r == Using(m, {c}, n)
<1>1. Store(s, r) /\ dying' = dying /\ dying = None /\ ~ broken
  <2>1. Take(s)
    BY DEF SlabAlloc, Grow
  <2> QED
    BY <2>1 DEF SlabAlloc, Take, Sane
<1>2. m \in Mem /\ m.id = s /\ m.slab = slabs[s] /\ m.heads = heads /\ m.broken = broken
      /\ m.disordered = disordered
  BY MemoryIs, MemoryOrder
<1>3. c \in Link /\ s # dying
  BY <1>1, <1>2, SlabAssumption DEF Mem, SlabHeader
<1>4. Books(heads, objects, dying)
  BY DEF SlabInv, Sane, Calm
<1>5. Holds(m, c) => ~ IsFull(m.heads[c])
  BY <1>2 DEF Gives
<1> HIDE DEF m, c
<1>6. ASSUME Holds(m, c)
      PROVE  /\ c \in Page /\ m.heads[c] # None /\ m.heads[c].count < CacheObjects
             /\ m.heads[c].recycled = <<>> => m.heads[c].fresh < CacheObjects
             /\ n \in Mem
  <2>1. c \in Page /\ m.heads[c] \in Header /\ m.heads[c] # None /\ m.heads[c].slab = m.id
    BY <1>2, <1>3, <1>6, HoldsIs
  <2>2. Ledger(m.heads[c], Out(objects, c))
    BY <1>2, <1>3, <1>4, <2>1 DEF Books
  <2>3. /\ m.heads[c].count < CacheObjects
        /\ m.heads[c].recycled = <<>> => m.heads[c].fresh < CacheObjects
    BY <1>5, <1>6, <2>1, <2>2, LedgerRoom
  <2> QED
    BY <1>2, <2>1, <2>3, CacheAllocIs
<1>7. ASSUME disordered PROVE r.disordered
  <2>1. CASE Holds(m, c)
    BY <1>2, <1>6, <1>7, <2>1, TakeDisordered DEF Using
  <2>2. CASE ~ Holds(m, c)
    BY <1>2, <1>7, <2>2 DEF Using, Mem
  <2> QED
    BY <2>1, <2>2
<1>8. ASSUME ~ disordered
      PROVE  /\ ~ r.broken /\ r.slab # None
             /\ ~ r.disordered => /\ Linked(r.slab, r.heads, s) /\ Rooms(r.slab, r.heads)
                                  /\ OnlyOf(heads, r.heads, s)
  <2>1. Linked(m.slab, m.heads, m.id) /\ Rooms(m.slab, m.heads)
    BY <1>1, <1>2, <1>3, <1>8, LinkedNow
  <2>2. m.slab.free = c
    BY <1>2 DEF c
  <2>3. c \in Chain(m.heads, m.id)
    BY <2>1, <2>2 DEF Linked, Rooms, c
  <2>4. Holds(m, c)
    BY <1>2, <2>3, ChainIs
  <2>5. r = n /\ n.slab # None
    BY <1>6, <2>4, SlabAssumption DEF Using, Mem
  <2> QED
    BY <1>1, <1>2, <1>6, <1>8, <2>1, <2>2, <2>4, <2>5, TakeOrdered
<1>9. r \in Mem
  BY <1>2, <1>6, BrokenIs DEF Using, Relinked
<1> HIDE DEF r
<1>10. ~ disordered => Excused
  BY <1>1, <1>8 DEF Store, Excused
<1>11. ~ disordered /\ ~ r.disordered =>
         OnlyOf(heads, r.heads, s) /\ OrderedAt(r.slab, r.heads, s, s = dying)
  BY <1>3, <1>8 DEF OrderedAt
<1> QED
  BY <1>1, <1>7, <1>9, <1>10, <1>11, OnwardIs

(* slab_alloc from a new cache.                                            *)
LEMMA GrowLinks ==
  ASSUME BuddyInv, SlabInv, LinkInv, ~ shared', Sane, NEW s \in Slab, slabs[s] # None,
         NEW size, slabs[s].free = None, SlabAlloc(s, size)
  PROVE  Onward
<1> DEFINE l == Memory(s)
           c == Given(CachePages)
           m == CacheInit(l, c)
           n == CacheAlloc(m, m.slab.free)
           r == IF m.broken THEN m ELSE n
<1>1. Store(s, r) /\ Alloc(CachePages) /\ dying' = dying /\ dying = None /\ ~ broken
  <2>1. Grow(s)
    BY DEF Take, SlabAlloc
  <2> QED
    BY <2>1 DEF SlabAlloc, Grow, Sane
<1>2. l \in Mem /\ l.id = s /\ l.slab = slabs[s] /\ l.heads = heads /\ l.broken = broken
      /\ l.disordered = disordered
  BY MemoryIs, MemoryOrder
<1>3. c \in Page /\ heads[c] = None
  BY <1>1, CacheSize, AllocIs, NewPage
<1>4. s # dying
  BY <1>1, SlabAssumption
<1> HIDE DEF l, c
<1>5. /\ m \in Mem /\ m.id = s /\ m.disordered = l.disordered /\ m.slab.free = c
      /\ m.heads[c] # None /\ m.heads[c].slab = s
      /\ m.heads[c].count = 0 /\ m.heads[c].recycled = <<>> /\ m.heads[c].fresh = 0
  <2>1. l \in Mem /\ c \in Page /\ l.slab.free = None /\ l.id = s
    BY <1>2, <1>3
  <2>2. Begun(l, m, c)
    BY <2>1, CacheInitIs
  <2> HIDE DEF m
  <2> QED
    BY <2>1, <2>2 DEF Begun
<1>6. n = CacheAlloc(m, c)
  BY <1>5
<1>7. ~ disordered => /\ ~ m.broken /\ Linked(m.slab, m.heads, s) /\ Rooms(m.slab, m.heads)
                      /\ OnlyOf(heads, m.heads, s)
  <2>1. SUFFICES ASSUME ~ disordered
                 PROVE  /\ ~ m.broken /\ Linked(m.slab, m.heads, s) /\ Rooms(m.slab, m.heads)
                        /\ OnlyOf(heads, m.heads, s)
    OBVIOUS
  <2>2. Linked(l.slab, l.heads, l.id) /\ l.slab.free = None /\ l.heads[c] = None /\ ~ l.broken
    BY <1>1, <1>2, <1>3, <1>4, <2>1, LinkedNow
  <2> QED
    BY <1>2, <1>3, <2>2, Appended
<1> HIDE DEF m, n
<1>8. 0 < CacheObjects
  BY SlabAssumption DEF Slab
<1>9. n \in Mem
  BY <1>3, <1>5, <1>6, <1>8, CacheAllocIs
<1>10. ASSUME disordered PROVE r.disordered
  BY <1>2, <1>3, <1>5, <1>6, <1>8, <1>10, TakeDisordered
<1>11. ASSUME ~ disordered
       PROVE  /\ ~ r.broken
              /\ ~ r.disordered => /\ Linked(r.slab, r.heads, s) /\ Rooms(r.slab, r.heads)
                                   /\ OnlyOf(heads, r.heads, s)
  <2>1. r = n
    BY <1>7, <1>11
  <2>2. /\ ~ n.broken
        /\ ~ n.disordered => /\ Linked(n.slab, n.heads, s) /\ Rooms(n.slab, n.heads)
                             /\ OnlyOf(m.heads, n.heads, s)
    <3>1. ~ m.broken /\ ~ m.disordered /\ Linked(m.slab, m.heads, m.id)
          /\ Rooms(m.slab, m.heads)
      BY <1>2, <1>5, <1>7, <1>11
    <3> QED
      BY <1>3, <1>5, <1>6, <1>8, <3>1, TakeOrdered
  <2> QED
    BY <1>7, <1>11, <2>1, <2>2, OnlyOfTrans
<1>12. r \in Mem /\ r.slab # None
  BY <1>5, <1>9, SlabAssumption DEF Mem
<1> HIDE DEF r
<1>13. ~ disordered => Excused
  BY <1>1, <1>11 DEF Store, Excused
<1>14. ~ disordered /\ ~ r.disordered =>
         OnlyOf(heads, r.heads, s) /\ OrderedAt(r.slab, r.heads, s, s = dying)
  BY <1>4, <1>11, <1>12 DEF OrderedAt
<1> QED
  BY <1>1, <1>10, <1>12, <1>13, <1>14, OnwardIs

(* A step that leaves the slabs alone.                                     *)
LEMMA OnwardSame ==
  ASSUME LinkInv, UNCHANGED <<slabs, heads, dying, disordered, broken>>
  PROVE  Onward
<1>1. ~ disordered' /\ ~ broken' => Ordered(slabs', heads', dying')
  BY DEF LinkInv
<1> QED
  BY <1>1 DEF Onward, Excused

LEMMA MallocLinks ==
  ASSUME BuddyInv, SlabInv, LinkInv, ~ shared', NEW size \in Asked, Malloc(size)
  PROVE  Onward
<1> DEFINE need == size + HeaderSize
           index == BestFitSlabIndex(need)
<1>1. Ready /\ Sane
  BY DEF Malloc
<1>2. CASE index \in Slab /\ Gives(index) /\ SlabAlloc(index, size)
  <2>1. slabs[index] # None
    BY <1>1, <1>2 DEF Ready
  <2> HIDE DEF index
  <2> QED
    BY <1>1, <1>2, <2>1, GrowLinks, TakeLinks
<1>3. CASE UNCHANGED slabVars
  BY <1>3, OnwardSame DEF slabVars
<1> QED
  BY <1>2, <1>3 DEF Malloc

(* penguin_free of an object.                                              *)
LEMMA FreeObjectLinks ==
  ASSUME BuddyInv, SlabInv, LinkInv, NEW o \in objects, FreeObject(o)
  PROVE  Onward
<1> DEFINE s == o.slab
           c == o.cache
           l == Memory(s)
           m == CacheFree(l, c, o.slot)
           cut == CacheDestroy(m, c)
           gone == Forget(cut, c)
           pb == objects \ {o}
<1>1. /\ Ready /\ Sane /\ objects' = pb /\ dying' = dying /\ dying = None /\ ~ broken
      /\ \/ Store(s, m)
         \/ /\ ~ m.broken /\ ~ m.heads[c].root
            /\ Store(s, gone)
  BY DEF FreeObject, SlabFree, Sane
<1>2. Calm
  BY <1>1 DEF Sane, Calm
<1>3. /\ slabs \in Slabbed /\ objects \in SUBSET Object /\ IsFiniteSet(objects)
      /\ dying \in Slab \union {None}
      /\ Lists(slabs, heads) /\ Books(heads, objects, dying)
  BY <1>2 DEF SlabInv, SlabTypeOK, Slabbed, Object
<1>4. s \in Slab /\ slabs[s] # None /\ s # dying
  BY <1>1, <1>3, SlabAssumption DEF Object, Ready
<1>5. l \in Mem /\ l.id = s /\ l.slab = slabs[s] /\ l.heads = heads /\ l.broken = broken
      /\ l.disordered = disordered
  BY <1>4, MemoryIs, MemoryOrder
<1>6. BeforeGone(o) = (heads[c].next # None /\ ~ Holds(l, heads[c].next))
  BY DEF BeforeGone
<1> HIDE DEF l
<1>7. /\ c \in Page /\ o.slot \in Slot /\ l.heads[c] # None /\ l.heads[c].slab = s
      /\ l.heads[c].count > 0
  BY <1>3, <1>5, PutBooks
<1>8. l.heads[c].count <= MaxObjects(l.heads[c])
  BY <1>3, <1>4, <1>5, <1>7 DEF Books, Ledger
<1>9. o \in objects \ objects'
  BY <1>1
<1> HIDE DEF c, s, pb
<1>10. /\ m \in Mem /\ m.id = s /\ m.slab = l.slab
       /\ m.heads[c] # None /\ m.heads[c].slab = s
       /\ m.heads[c].root = l.heads[c].root
  BY <1>5, <1>7, CacheFreeIs, ZenonT(60) DEF SameBut
<1>11. disordered => m.disordered
  BY <1>5, <1>7, FreeDisordered
<1>12. ASSUME ~ disordered
       PROVE  /\ m.broken => BeforeGone(o)
              /\ ~ m.broken /\ m.disordered =>
                   Holds(m, m.heads[c].prev) /\ Holds(m, m.heads[c].next)
              /\ ~ m.broken /\ ~ m.disordered =>
                   /\ Linked(m.slab, m.heads, s) /\ Rooms(m.slab, m.heads)
                   /\ OnlyOf(heads, m.heads, s)
                   /\ m.heads[c].next # None => Holds(m, m.heads[c].next)
  <2>1. Linked(l.slab, l.heads, l.id) /\ Rooms(l.slab, l.heads)
    BY <1>1, <1>4, <1>5, <1>12, LinkedNow
  <2>2. c \in Chain(l.heads, l.id)
    BY <1>5, <1>7 DEF Chain
  <2>3. ~ l.broken /\ ~ l.disordered
    BY <1>1, <1>5, <1>12
  <2>4. l.heads[c].count > 0 /\ l.heads[c].count <= MaxObjects(l.heads[c])
    BY <1>7, <1>8
  <2>5. /\ m.broken => l.heads[c].next # None /\ ~ Holds(l, l.heads[c].next)
        /\ ~ m.broken /\ m.disordered =>
             Holds(m, m.heads[c].prev) /\ Holds(m, m.heads[c].next)
        /\ ~ m.broken /\ ~ m.disordered =>
             /\ Linked(m.slab, m.heads, l.id) /\ Rooms(m.slab, m.heads)
             /\ OnlyOf(l.heads, m.heads, l.id)
             /\ m.heads[c].next # None => Holds(m, m.heads[c].next)
    BY <1>5, <1>7, <2>1, <2>2, <2>3, <2>4, FreeOrdered
  <2> QED
    BY <1>5, <1>6, <2>5
<1> HIDE DEF m
<1>13. CASE Store(s, m)
  <2>1. ~ disordered => Excused
    BY <1>9, <1>12, <1>13 DEF Store, Excused
  <2>2. m.slab # None
    BY <1>4, <1>5, <1>10
  <2>3. ~ disordered /\ ~ m.disordered /\ ~ m.broken =>
          OnlyOf(heads, m.heads, s) /\ OrderedAt(m.slab, m.heads, s, s = dying)
    BY <1>4, <1>12, <2>2 DEF OrderedAt
  <2> QED
    BY <1>1, <1>4, <1>10, <1>11, <1>13, <2>1, <2>3, OnwardIs
<1>14. CASE ~ m.broken /\ ~ m.heads[c].root /\ Store(s, gone)
  <2>1. cut \in Mem /\ cut.disordered = m.disordered
    BY <1>7, <1>10, CacheDestroyIs, CutWhole
  <2>2. ASSUME ~ disordered, ~ m.disordered
        PROVE  /\ c \in Chain(m.heads, m.id) /\ c # m.slab.first
               /\ m.heads[c].prev = None \/ Holds(m, m.heads[c].prev)
               /\ m.heads[c].next = None \/ Holds(m, m.heads[c].next)
    <3>1. Linked(m.slab, m.heads, m.id) /\ c \in Chain(m.heads, m.id)
      BY <1>7, <1>10, <1>12, <1>14, <2>2 DEF Chain
    <3>2. c # m.slab.first
      BY <1>14, <3>1 DEF Linked
    <3>3. m.heads[c].prev \in Chain(m.heads, m.id)
      BY <3>1, <3>2 DEF Linked
    <3>4. Holds(m, m.heads[c].prev)
      BY <1>10, <3>3, ChainIs
    <3> QED
      BY <1>12, <1>14, <2>2, <3>1, <3>2, <3>4
  <2>3. ~ disordered => ~ cut.broken
    <3>1. ~ disordered => \/ m.heads[c].prev = None \/ m.heads[c].next = None
                          \/ Holds(m, m.heads[c].prev) /\ Holds(m, m.heads[c].next)
      BY <1>12, <1>14, <2>2
    <3> QED
      BY <1>7, <1>10, <1>14, <3>1, CutWhole
  <2>4. ASSUME ~ disordered, ~ m.disordered
        PROVE  /\ Linked(gone.slab, gone.heads, s) /\ Rooms(gone.slab, gone.heads)
               /\ OnlyOf(heads, gone.heads, s)
    <3>1. /\ Linked(m.slab, m.heads, m.id) /\ Rooms(m.slab, m.heads)
          /\ OnlyOf(heads, m.heads, s)
      BY <1>10, <1>12, <1>14, <2>4
    <3>2. /\ Linked(gone.slab, gone.heads, s) /\ Rooms(gone.slab, gone.heads)
          /\ OnlyOf(m.heads, gone.heads, s)
      BY <1>10, <1>14, <2>2, <2>4, <3>1, CutOrdered
    <3> QED
      BY <3>1, <3>2, OnlyOfTrans
  <2> HIDE DEF cut
  <2>5. gone \in Mem /\ gone.disordered = cut.disordered /\ gone.broken = cut.broken
    BY <2>1 DEF Forget, Mem, SlabHeader, Link
  <2> HIDE DEF gone
  <2>6. ~ disordered => Excused
    BY <1>14, <2>3, <2>5 DEF Store, Excused
  <2>7. gone.slab # None
    BY <2>5, SlabAssumption DEF Mem
  <2>8. ~ disordered /\ ~ gone.disordered =>
          OnlyOf(heads, gone.heads, s) /\ OrderedAt(gone.slab, gone.heads, s, s = dying)
    BY <1>4, <2>1, <2>4, <2>5, <2>7 DEF OrderedAt
  <2>9. disordered => gone.disordered
    BY <1>11, <2>1, <2>5
  <2> QED
    BY <1>1, <1>4, <1>14, <2>5, <2>6, <2>8, <2>9, OnwardIs
<1> QED
  BY <1>1, <1>13, <1>14

(* slab_destroy: where the order is kept, no cache has another behind it.  *)
LEMMA BeginDestroyLinks ==
  ASSUME SlabInv, LinkInv, NEW s \in Slab, BeginDestroy(s)
  PROVE  Onward
<1>1. /\ Sane /\ dying = None /\ dying' = s /\ slabs[s] # None
      /\ slabs' = slabs /\ heads' = heads /\ broken' = broken /\ ~ broken
      /\ disordered' = (disordered \/ heads[slabs[s].first].next # None)
  BY DEF BeginDestroy, Sane
<1>2. ASSUME ~ disordered' PROVE Ordered(slabs', heads', dying')
  <2>1. ~ disordered /\ heads[slabs[s].first].next = None
    BY <1>1, <1>2
  <2>2. slabs \in Slabbed /\ Ordered(slabs, heads, dying)
    BY <1>1, <2>1 DEF SlabInv, SlabTypeOK, Slabbed, LinkInv
  <2>3. Linked(slabs[s], heads, s) /\ Rooms(slabs[s], heads)
    <3>1. s # dying
      BY <1>1, SlabAssumption
    <3> QED
      BY <1>1, <2>1, <3>1, LinkedNow
  <2>4. OrderedAt(slabs[s], heads, s, s = s)
    BY <1>1, <2>1, <2>3 DEF OrderedAt
  <2>5. OnlyOf(heads, heads, s)
    BY DEF OnlyOf
  <2>6. \A t \in Slab : t # s => (t = s <=> t = dying)
    BY <1>1, SlabAssumption
  <2>7. Ordered([slabs EXCEPT ![s] = slabs[s]], heads, s)
    BY <2>2, <2>4, <2>5, <2>6, OrderedNext
  <2>8. [slabs EXCEPT ![s] = slabs[s]] = slabs
    BY <2>2 DEF Slabbed
  <2> QED
    BY <1>1, <2>7, <2>8
<1>3. disordered => disordered'
  BY <1>1
<1> QED
  BY <1>1, <1>2, <1>3 DEF Onward, Excused

LEMMA DestroyFirstLinks ==
  ASSUME SlabInv, LinkInv, DestroyFirst
  PROVE  Onward
<1> DEFINE s == dying
           c == slabs[s].first
           m == Memory(s)
           h == m.heads[c]
           r == CacheDestroy(m, c)
<1>1. s \in Slab /\ slabs[s] # None /\ ~ broken /\ objects' = objects
  BY DEF DestroyFirst, SlabInv, SlabTypeOK
<1>2. slabs \in Slabbed
  BY DEF SlabInv, SlabTypeOK, Slabbed
<1>3. m \in Mem /\ m.id = s /\ m.slab = slabs[s] /\ m.heads = heads /\ m.broken = broken
      /\ m.disordered = disordered
  BY <1>1, MemoryIs, MemoryOrder
<1>4. c \in Link
  BY <1>3 DEF Mem, SlabHeader
<1>5. ASSUME ~ disordered
      PROVE  /\ Ordered(slabs, heads, s)
             /\ \/ Chain(heads, s) = {} /\ c = None
                \/ c # None /\ Linked(slabs[s], heads, s) /\ heads[c].next = None
  <2>1. Ordered(slabs, heads, s)
    BY <1>1, <1>5 DEF LinkInv
  <2>2. OrderedAt(slabs[s], heads, s, TRUE)
    BY <1>1, <2>1 DEF Ordered
  <2>3. Linked(slabs[s], heads, s) => c # None
    BY NonePage DEF Linked, Chain
  <2> QED
    BY <1>1, <2>1, <2>2, <2>3 DEF OrderedAt
<1>6. ASSUME ~ disordered, c # None
      PROVE  /\ Chain(heads, s) = {c} /\ heads[c].prev = None /\ heads[c].next = None
  <2>1. Linked(slabs[s], heads, s) /\ heads[c].next = None
    BY <1>5, <1>6
  <2>2. c = slabs[s].last
    <3>1. None \notin Chain(heads, s)
      BY NonePage DEF Chain
    <3> QED
      BY <2>1, <3>1 DEF Linked
  <2>3. Passes(slabs[s], heads, {c}) /\ {c} \in SUBSET Chain(heads, s)
    BY <2>1, <2>2 DEF Linked, Passes
  <2> QED
    BY <2>1, <2>3 DEF Linked
<1>7. CASE /\ c = None /\ slabs' = [slabs EXCEPT ![s] = None] /\ dying' = None
           /\ UNCHANGED <<heads, broken, disordered>>
  <2>1. ASSUME ~ disordered PROVE Ordered(slabs', heads', dying')
    <3>1. OrderedAt(None, heads, s, s = None)
      BY <1>5, <1>7, <2>1 DEF OrderedAt
    <3>2. OnlyOf(heads, heads, s)
      BY DEF OnlyOf
    <3>3. \A t \in Slab : t # s => (t = None <=> t = s)
      BY SlabAssumption
    <3>4. Ordered([slabs EXCEPT ![s] = None], heads, None)
      BY <1>1, <1>2, <1>5, <2>1, <3>1, <3>2, <3>3, OrderedNext
    <3> QED
      BY <1>7, <3>4
  <2> QED
    BY <1>7, <2>1 DEF Onward, Excused
<1>8. CASE /\ c # None /\ ~ Holds(m, c) /\ broken' = TRUE /\ disordered' = disordered
  <2>1. ASSUME ~ disordered PROVE FALSE
    <3>1. c \in Chain(heads, s)
      BY <1>6, <1>8, <2>1
    <3> QED
      BY <1>3, <1>8, <3>1, ChainIs
  <2> QED
    BY <1>8, <2>1 DEF Onward, Excused
<1>9. CASE c # None /\ Holds(m, c) /\ Store(s, r) /\ dying' = dying
  <2>1. c \in Page /\ m.heads[c] # None
    BY <1>3, <1>4, <1>9, HoldsIs
  <2>2. r \in Mem /\ r.disordered = m.disordered
    BY <1>3, <2>1, CacheDestroyIs, CutWhole
  <2>3. ASSUME ~ disordered
        PROVE  /\ ~ r.broken
               /\ OnlyOf(heads, r.heads, s) /\ OrderedAt(r.slab, r.heads, s, s = dying)
    <3>1. Chain(heads, s) = {c} /\ h.prev = None /\ h.next = None
      BY <1>3, <1>6, <1>9, <2>3
    <3>2. ~ r.broken
      BY <1>1, <1>3, <2>1, <3>1, CutWhole
    <3>3. r = [[m EXCEPT !.slab = EndsWithout(@, h)] EXCEPT !.heads[c] = None]
      BY <3>1 DEF CacheDestroy
    <3>4. r.heads = [heads EXCEPT ![c] = None] /\ r.slab = EndsWithout(slabs[s], h)
      BY <1>3, <3>3 DEF Mem
    <3>5. \A d \in Page : r.heads[d] = IF d = c THEN None ELSE heads[d]
      BY <3>4 DEF SlabInv, SlabTypeOK
    <3>6. r.slab.first = None
      <4>1. slabs[s] \in SlabHeader
        BY <1>3 DEF Mem
      <4> QED
        BY <3>1, <3>4, <4>1 DEF EndsWithout, SlabHeader
    <3> HIDE DEF r
    <3>7. Chain(r.heads, s) = {}
      BY <3>1, <3>5 DEF Chain
    <3>8. OnlyOf(heads, r.heads, s)
      BY <1>3, <1>9, <3>5 DEF OnlyOf, Holds
    <3> QED
      BY <3>2, <3>6, <3>7, <3>8 DEF OrderedAt
  <2> HIDE DEF r
  <2>4. ~ disordered => Excused
    BY <1>9, <2>3 DEF Store, Excused
  <2>5. disordered => r.disordered
    BY <1>3, <2>2
  <2>6. ~ disordered /\ ~ r.disordered /\ ~ r.broken =>
          OnlyOf(heads, r.heads, s) /\ OrderedAt(r.slab, r.heads, s, s = dying)
    BY <2>3
  <2> HIDE DEF s
  <2> QED
    BY <1>1, <1>9, <2>2, <2>4, <2>5, <2>6, OnwardIs DEF s
<1> QED
  BY <1>7, <1>8, <1>9 DEF DestroyFirst

(* Memory is not handed out twice.                                         *)
LEMMA StaysUnshared ==
  ASSUME IInv, ~ shared, [Next]_vars
  PROVE  ~ shared'
<1>1. ASSUME NEW pages \in Sizes, Alloc(pages), Sane PROVE ~ shared'
  BY <1>1, NoneShared DEF IInv, Sane
<1>2. UNCHANGED buddyVars => ~ shared'
  BY DEF buddyVars
<1>3. \A b : Free(b) => ~ shared'
  BY DEF Free
<1>4. ASSUME NEW s \in Slab, InitSlab(s) PROVE ~ shared'
  BY <1>1, <1>4, CacheSize DEF InitSlab, SlabInit
<1>5. ASSUME NEW s \in Slab, BeginDestroy(s) PROVE ~ shared'
  BY <1>2, <1>5 DEF BeginDestroy
<1>6. ASSUME NEW size \in Asked, Malloc(size) PROVE ~ shared'
  <2>1. ToPagesCount(size + HeaderSize) \in Sizes
    BY PenguinAssumption
  <2> QED
    BY <1>1, <1>2, <1>6, <2>1, CacheSize DEF Malloc, SlabAlloc, Grow, Take
<1>7. ASSUME NEW o \in objects, FreeObject(o) PROVE ~ shared'
  BY <1>2, <1>3, <1>7 DEF FreeObject, SlabFree
<1>8. ASSUME NEW b \in Own, FreePages(b) PROVE ~ shared'
  BY <1>3, <1>8 DEF FreePages
<1>9. DestroyFirst => ~ shared'
  BY <1>2, <1>3 DEF DestroyFirst
<1>10. Wrong \/ UNCHANGED vars => ~ shared'
  BY <1>2 DEF Wrong, vars
<1> QED
  BY <1>4, <1>5, <1>6, <1>7, <1>8, <1>9, <1>10 DEF Next

LEMMA StepOnward ==
  ASSUME IInv, LinkInv, [Next]_vars
  PROVE  Onward
<1>1. BuddyInv /\ SlabInv /\ ~ shared'
  BY StaysUnshared DEF IInv, LinkInv
<1>2. CASE UNCHANGED vars
  BY <1>2, OnwardSame DEF vars, slabVars
<1>3. CASE \E s \in Slab : InitSlab(s)
  BY <1>1, <1>3, InitSlabLinks
<1>4. CASE \E s \in Slab : BeginDestroy(s)
  BY <1>1, <1>4, BeginDestroyLinks
<1>5. CASE \E size \in Asked : Malloc(size)
  BY <1>1, <1>5, MallocLinks
<1>6. CASE \E o \in objects : FreeObject(o)
  BY <1>1, <1>6, FreeObjectLinks
<1>7. CASE \E b \in Own : FreePages(b)
  BY <1>7, OnwardSame DEF FreePages, slabVars
<1>8. CASE DestroyFirst
  BY <1>1, <1>8, DestroyFirstLinks
<1>9. CASE Wrong
  BY <1>2, <1>9 DEF Wrong
<1> QED
  BY <1>2, <1>3, <1>4, <1>5, <1>6, <1>7, <1>8, <1>9 DEF Next

LEMMA InitLinkInv == Init => LinkInv
<1> SUFFICES ASSUME Init PROVE LinkInv
  OBVIOUS
<1>1. \A s \in Slab : slabs[s] = None /\ Chain(heads, s) = {}
  BY DEF Init, Chain
<1> QED
  BY <1>1 DEF Init, BuddyInit, LinkInv, Ordered, OrderedAt

LEMMA LinkInvHolds == Spec => []LinkInv
<1>1. IInv /\ LinkInv /\ [Next]_vars => LinkInv'
  BY StaysUnshared, StepOnward DEF Onward, LinkInv
<1> QED
  BY <1>1, IInvHolds, InitLinkInv, PTL DEF Spec

(* As long as no cache has changed its place, the caches of every slab are *)
(* one list whose links agree in both directions, from the root to the     *)
(* last, no cache of it is missing, and only the last is known to have     *)
(* room (slab_cache_init, slab_cache_destroy, slab_cache_alloc,            *)
(* slab_cache_free).                                                       *)
THEOREM ListsHold == Spec => []ListsSound
<1>1. IInv /\ LinkInv => ListsSound
  <2>1. SUFFICES ASSUME IInv, LinkInv, Sane, ~ disordered PROVE ListsSound
    BY DEF ListsSound
  <2>2. SlabInv /\ ~ broken /\ dying = None /\ Ordered(slabs, heads, dying)
    BY <2>1 DEF IInv, LinkInv, Sane
  <2>3. ASSUME NEW s \in Slab, slabs[s] # None
        PROVE  /\ Linked(slabs[s], heads, s) /\ Rooms(slabs[s], heads)
               /\ Listed(s) = Chain(heads, s)
    <3>1. s # dying
      BY <2>2, SlabAssumption
    <3> QED
      BY <2>1, <2>2, <2>3, <3>1, LinkedNow, ListedIs, NonePage
  <2>4. ASSUME NEW s \in Slab, slabs[s] # None
        PROVE  /\ heads[slabs[s].first].root /\ heads[slabs[s].first].prev = None
               /\ slabs[s].last \in Listed(s) /\ heads[slabs[s].last] # None
               /\ \A c \in Listed(s) \ {slabs[s].last} : heads[heads[c].next].prev = c
               /\ slabs[s].free \in {None, slabs[s].last}
               /\ slabs[s].free # None => ~ IsFull(heads[slabs[s].free])
    <3>1. /\ Linked(slabs[s], heads, s) /\ Rooms(slabs[s], heads)
          /\ Listed(s) = Chain(heads, s)
      BY <2>3, <2>4
    <3>2. slabs[s].last \in Listed(s) /\ heads[slabs[s].last] # None
      BY <3>1 DEF Linked, Chain
    <3>3. slabs[s].free \in {None, slabs[s].last}
          /\ (slabs[s].free # None => ~ IsFull(heads[slabs[s].free]))
      BY <3>1 DEF Rooms
    <3>4. heads[slabs[s].first].root /\ heads[slabs[s].first].prev = None
      BY <3>1 DEF Linked
    <3>5. \A c \in Listed(s) \ {slabs[s].last} : heads[heads[c].next].prev = c
      BY <3>1 DEF Linked
    <3> QED
      BY <3>2, <3>3, <3>4, <3>5
  <2>5. {c \in Page : heads[c] # None} = UNION {Listed(s) : s \in {s \in Slab : slabs[s] # None}}
    <3>1. ASSUME NEW c \in Page, heads[c] # None
          PROVE  \E s \in Slab : slabs[s] # None /\ c \in Listed(s)
      <4>1. heads[c].slab \in Slab /\ c \in Chain(heads, heads[c].slab)
        BY <2>2, <3>1 DEF SlabInv, SlabTypeOK, Header, Chain
      <4>2. slabs[heads[c].slab] # None
        <5>1. OrderedAt(slabs[heads[c].slab], heads, heads[c].slab, heads[c].slab = dying)
          BY <2>2, <4>1 DEF Ordered
        <5> QED
          BY <4>1, <5>1 DEF OrderedAt
      <4> QED
        BY <2>3, <4>1, <4>2
    <3>2. \A s \in Slab : slabs[s] # None => Listed(s) \subseteq {c \in Page : heads[c] # None}
      BY <2>3 DEF Chain
    <3> QED
      BY <3>1, <3>2
  <2> QED
    BY <2>4, <2>5 DEF ListsSound
<1> QED
  BY <1>1, IInvHolds, LinkInvHolds, PTL

(* As long as no cache has changed its place and no slab with a second     *)
(* cache is destroyed, a header that was given back is used in one way     *)
(* only: an object is freed whose cache lies before one that is gone       *)
(* (slab_free, slab_cache_move_down, slab_cache_destroy).                  *)
THEOREM OnlyHeld == Spec => UsesWhatItHolds
<1>1. IInv /\ LinkInv /\ [Next]_vars =>
        [broken' => \/ broken \/ disordered
                    \/ \E o \in objects \ objects' : BeforeGone(o)]_vars
  BY StepOnward DEF Onward, Excused
<1> QED
  BY <1>1, IInvHolds, LinkInvHolds, PTL DEF Spec, UsesWhatItHolds

(* Where the pool is tiled, what is free is not in use.                    *)
LEMMA TiledApart ==
  ASSUME BuddyInv, Tiled, ~ rightFreed
  PROVE  ~ Corrupt
<1> SUFFICES ASSUME NEW b \in live, NEW f \in FreeBlocks, NEW q,
                    q \in Held(b), q \in Pages(f[1], f[2])
             PROVE  FALSE
  BY DEF Corrupt
<1> DEFINE x == <<b.page, b.layer>>
<1>1. x \in Handed /\ x \in Blocks /\ f \in Blocks
  BY DEF Handed, Blocks
<1>2. b.page \in Page /\ b.layer \in Layer /\ Begins(b.layer, b.page)
  BY DEF BuddyInv, BuddyTypeOK
<1>3. f = <<f[1], f[2]>> /\ f[1] \in Page /\ f[2] \in Layer /\ Begins(f[2], f[1])
  BY <1>1, BlocksAre
<1>4. q \in Page
  BY <1>3, PagesInside
<1>5. Over(q, x)
  BY <1>2, <1>4, OverIs DEF Held
<1>6. Over(q, f)
  BY <1>3, <1>4, OverIs
<1> HIDE DEF x
<1>7. x = f
  BY <1>1, <1>4, <1>5, <1>6 DEF Tiled, Tiles
<1> QED
  BY <1>1, <1>7 DEF Tiled, NoneTwice

(* The allocator hands out memory that is in use only after a right-hand   *)
(* half was freed (buddy_free), whoever calls it and in whatever order.    *)
THEOREM SharedAfterRight ==
  ASSUME BitsFit
  PROVE  BuddySpec => [](~ rightFreed => HandsOutFreeMemory)
<1> DEFINE Inv == BuddyInv /\ Tiled /\ (~ rightFreed => ~ shared)
<1>1. BuddyInit => Inv
  BY InitBuddyInv, InitTiled DEF BuddyInit
<1>2. Inv /\ [BuddyNext]_buddyVars => Inv'
  <2> SUFFICES ASSUME Inv, [BuddyNext]_buddyVars PROVE Inv'
    OBVIOUS
  <2>1. CASE UNCHANGED buddyVars
    BY <2>1, BuddySame DEF buddyVars
  <2>2. ASSUME NEW pages \in Sizes, Alloc(pages) PROVE Inv'
    <3>1. rightFreed' = rightFreed
      BY <2>2 DEF Alloc
    <3>2. ~ rightFreed => ~ shared'
      BY <2>2, TiledApart, NoneShared
    <3> QED
      BY <2>2, <3>1, <3>2, AllocStep, AllocTiled
  <2>3. ASSUME NEW b \in live, Free(b) PROVE Inv'
    <3>1. shared' = shared /\ (~ rightFreed' => ~ rightFreed)
      BY <2>3 DEF Free
    <3> QED
      BY <2>3, <3>1, FreeStep, FreeTiled
  <2>4. CASE Stopped
    BY <2>1, <2>4 DEF Stopped
  <2> QED
    BY <2>1, <2>2, <2>3, <2>4 DEF BuddyNext
<1>3. Inv => (~ rightFreed => HandsOutFreeMemory)
  BY DEF HandsOutFreeMemory
<1> QED
  BY <1>1, <1>2, <1>3, PTL DEF BuddySpec
=============================================================================
