------------------------- MODULE ConversionsProofs -------------------------
(***************************************************************************)
(* Proofs about perlXPUtil, for every interface, every width of numbers    *)
(* and every length of arrays.                                             *)
(***************************************************************************)
EXTENDS Conversions, SequenceLemmas, WellFoundedInduction

-----------------------------------------------------------------------------
(* Least elements and induction, stated for sets.                          *)

\* The loops over methods and constants stop at the first that fits.
LEMMA LeastLemma ==
  ASSUME NEW S \in SUBSET Nat, S # {}
  PROVE  First(S) \in S /\ \A m \in S : First(S) <= m
<1> DEFINE less == OpToRel(<, Nat)
<1>1. \E n \in S : \A m \in S : <<m, n>> \notin less
  <2>1. IsWellFoundedOn(less, Nat)
    BY NatLessThanWellFounded
  <2>2. S \subseteq Nat
    OBVIOUS
  <2> HIDE DEF less
  <2> QED BY <2>1, <2>2, WFMin, Zenon
<1>2. \A m, n \in Nat : m < n => <<m, n>> \in less
  <2> TAKE m, n \in Nat
  <2>1. <<m, n>> \in Nat \X Nat /\ <<m, n>>[1] = m /\ <<m, n>>[2] = n
    OBVIOUS
  <2> QED BY <2>1 DEF OpToRel
<1> HIDE DEF less
<1>3. PICK n \in S : \A m \in S : <<m, n>> \notin less
  BY <1>1, Zenon
<1>4. \A m \in S : ~(m < n)
  <2>1. S \subseteq Nat /\ n \in Nat
    OBVIOUS
  <2> QED BY <1>2, <1>3, <2>1, Zenon
<1>5. \A m \in S : n <= m
  BY <1>4
<1> QED BY <1>5 DEF First

\* A set that has 0 and with every number the next has all numbers.
LEMMA SetInduction ==
  ASSUME NEW S, 0 \in S, \A n \in Nat : n \in S => n + 1 \in S
  PROVE  Nat \subseteq S
<1> DEFINE T == Nat \ S
<1>1. SUFFICES ASSUME T # {} PROVE FALSE
  OBVIOUS
<1>2. First(T) \in T /\ \A m \in T : First(T) <= m
  BY <1>1, LeastLemma
<1>3. First(T) \in Nat /\ First(T) # 0
  BY <1>2
<1>4. First(T) - 1 \in Nat /\ First(T) - 1 \notin T
  BY <1>2, <1>3
<1> QED BY <1>2, <1>3, <1>4

-----------------------------------------------------------------------------
(* Powers of two.                                                          *)

\* The first n powers of two.
Doubles(f, n) ==
  /\ f \in [0 .. n -> Nat] /\ f[0] = 1
  /\ \A k \in 1 .. n : f[k] = 2 * f[k - 1]

LEMMA DoublesAgree ==
  ASSUME NEW n \in Nat, NEW m \in Nat, n <= m, NEW f, NEW g, Doubles(f, n), Doubles(g, m)
  PROVE  \A k \in 0 .. n : f[k] = g[k]
<1> DEFINE S == {k \in Nat : k <= n => f[k] = g[k]}
<1>1. 0 \in S
  BY DEF Doubles
<1>2. ASSUME NEW k \in Nat, k \in S PROVE k + 1 \in S
  <2>1. SUFFICES ASSUME k + 1 <= n PROVE f[k + 1] = g[k + 1]
    OBVIOUS
  <2>2. f[k] = g[k]
    BY <1>2, <2>1
  <2>3. k + 1 \in 1 .. n /\ k + 1 \in 1 .. m /\ (k + 1) - 1 = k
    BY <2>1
  <2> QED BY <2>2, <2>3 DEF Doubles
<1> HIDE DEF S
<1>3. Nat \subseteq S
  BY <1>1, <1>2, SetInduction
<1> QED BY <1>3 DEF S

LEMMA DoublesExist == \A n \in Nat : \E f : Doubles(f, n)
<1> DEFINE S == {n \in Nat : \E f : Doubles(f, n)}
<1>1. 0 \in S
  <2> DEFINE f == [k \in 0 .. 0 |-> 1]
  <2>1. Doubles(f, 0)
    BY DEF Doubles
  <2> QED BY <2>1
<1>2. ASSUME NEW n \in Nat, n \in S PROVE n + 1 \in S
  <2>1. PICK f : Doubles(f, n)
    BY <1>2
  <2> DEFINE g == [k \in 0 .. (n + 1) |-> IF k = n + 1 THEN 2 * f[n] ELSE f[k]]
  <2>2. g \in [0 .. (n + 1) -> Nat] /\ g[0] = 1
    BY <2>1 DEF Doubles
  <2>3. ASSUME NEW k \in 1 .. (n + 1) PROVE g[k] = 2 * g[k - 1]
    BY <2>1 DEF Doubles
  <2>4. Doubles(g, n + 1)
    BY <2>2, <2>3 DEF Doubles
  <2> QED BY <2>4
<1> HIDE DEF S
<1>3. Nat \subseteq S
  BY <1>1, <1>2, SetInduction
<1> QED BY <1>3 DEF S

\* Pow2 is what its definition says.
LEMMA Pow2Equation ==
  Pow2 = [n \in Nat |-> IF n = 0 THEN 1 ELSE 2 * Pow2[n - 1]]
<1> DEFINE F(n) == CHOOSE f : Doubles(f, n)
           P == [n \in Nat |-> F(n)[n]]
<1>1. \A n \in Nat : Doubles(F(n), n)
  BY DoublesExist
<1> HIDE DEF F
<1>2. P[0] = 1
  BY <1>1 DEF Doubles
<1>3. ASSUME NEW n \in Nat, n # 0 PROVE P[n] = 2 * P[n - 1]
  <2>1. n - 1 \in Nat /\ n - 1 <= n /\ n \in 1 .. n /\ n - 1 \in 0 .. (n - 1)
    BY <1>3
  <2>2. Doubles(F(n), n) /\ Doubles(F(n - 1), n - 1)
    BY <1>1, <2>1
  <2>3. F(n - 1)[n - 1] = F(n)[n - 1]
    BY <2>1, <2>2, DoublesAgree
  <2>4. F(n)[n] = 2 * F(n)[n - 1]
    BY <2>1, <2>2 DEF Doubles
  <2> QED BY <2>1, <2>3, <2>4
<1>4. P = [n \in Nat |-> IF n = 0 THEN 1 ELSE 2 * P[n - 1]]
  <2>1. \A n \in Nat : P[n] = IF n = 0 THEN 1 ELSE 2 * P[n - 1]
    BY <1>2, <1>3
  <2>2. P = [n \in Nat |-> P[n]]
    OBVIOUS
  <2> HIDE DEF P
  <2> QED BY <2>1, <2>2
<1> HIDE DEF P
<1>5. \E g : g = [n \in Nat |-> IF n = 0 THEN 1 ELSE 2 * g[n - 1]]
  BY <1>4
<1> QED BY <1>5 DEF Pow2

LEMMA Pow2Step == Pow2[0] = 1 /\ \A n \in Nat : Pow2[n + 1] = 2 * Pow2[n]
<1>1. \A n \in Nat : Pow2[n] = IF n = 0 THEN 1 ELSE 2 * Pow2[n - 1]
  BY Pow2Equation
<1>2. ASSUME NEW n \in Nat PROVE Pow2[n + 1] = 2 * Pow2[n]
  <2>1. n + 1 \in Nat /\ n + 1 # 0 /\ (n + 1) - 1 = n
    OBVIOUS
  <2> QED BY <1>1, <2>1
<1> QED BY <1>1, <1>2

LEMMA Pow2Type == \A n \in Nat : Pow2[n] \in Nat \ {0}
<1> DEFINE S == {n \in Nat : Pow2[n] \in Nat \ {0}}
<1>1. 0 \in S
  BY Pow2Step
<1>2. ASSUME NEW n \in Nat, n \in S PROVE n + 1 \in S
  BY <1>2, Pow2Step
<1> HIDE DEF S
<1>3. Nat \subseteq S
  BY <1>1, <1>2, SetInduction
<1> QED BY <1>3 DEF S

\* Half of the numbers of a width have its highest bit.
LEMMA Pow2Half ==
  ASSUME NEW n \in Nat \ {0}
  PROVE  /\ Pow2[n - 1] \in Nat \ {0} /\ Pow2[n] \in Nat \ {0}
         /\ Pow2[n] = 2 * Pow2[n - 1]
<1>1. n - 1 \in Nat /\ (n - 1) + 1 = n
  OBVIOUS
<1> QED BY <1>1, Pow2Type, Pow2Step

\* A wider width has a multiple of the numbers of a narrower one.
LEMMA Pow2Divides ==
  ASSUME NEW m \in Nat, NEW n \in Nat, m <= n
  PROVE  \E q \in Nat \ {0} : Pow2[n] = q * Pow2[m]
<1> DEFINE S == {k \in Nat : Pow2[m + k] = Pow2[k] * Pow2[m]}
<1>0. Pow2[m] \in Nat
  BY Pow2Type
<1>1. 0 \in S
  BY <1>0, Pow2Step
<1>2. ASSUME NEW k \in Nat, k \in S PROVE k + 1 \in S
  <2>1. m + k \in Nat /\ m + (k + 1) = (m + k) + 1
    OBVIOUS
  <2>2. Pow2[m + (k + 1)] = 2 * Pow2[m + k] /\ Pow2[k + 1] = 2 * Pow2[k]
    BY <2>1, Pow2Step
  <2>3. Pow2[m + k] = Pow2[k] * Pow2[m]
    BY <1>2
  <2>4. Pow2[k] \in Nat
    BY Pow2Type
  <2>5. 2 * (Pow2[k] * Pow2[m]) = (2 * Pow2[k]) * Pow2[m]
    BY <1>0, <2>4
  <2> QED BY <2>2, <2>3, <2>5
<1> HIDE DEF S
<1>3. Nat \subseteq S
  BY <1>1, <1>2, SetInduction
<1>4. n - m \in Nat /\ m + (n - m) = n
  OBVIOUS
<1>5. Pow2[n] = Pow2[n - m] * Pow2[m]
  BY <1>3, <1>4 DEF S
<1> QED BY <1>4, <1>5, Pow2Type

-----------------------------------------------------------------------------
(* Remainders.                                                             *)

LEMMA RemainderLemma ==
  ASSUME NEW m \in Nat \ {0}, NEW a \in Int
  PROVE  /\ a % m \in 0 .. (m - 1)
         /\ a = m * (a \div m) + (a % m) /\ a \div m \in Int
<1>1. m \in Int /\ m > 0
  OBVIOUS
<1>2. a % m \in 0 .. (m - 1)
  BY <1>1, Z3
<1>3. a \div m \in Int
  BY <1>1, Z3
<1>4. a = m * (a \div m) + (a % m)
  BY <1>1, Z3
<1> QED BY <1>2, <1>3, <1>4

\* There is one remainder.
LEMMA RemainderUnique ==
  ASSUME NEW m \in Nat \ {0}, NEW q \in Int, NEW r \in 0 .. (m - 1)
  PROVE  (m * q + r) % m = r
<1> DEFINE a == m * q + r
           d == a \div m
<1>1. a \in Int
  OBVIOUS
<1>2. a % m \in 0 .. (m - 1) /\ a = m * d + (a % m) /\ d \in Int
  BY <1>1, RemainderLemma
<1>3. m * (q - d) = (a % m) - r
  BY <1>2
<1>4. q = d
  <2>1. CASE q > d
    <3>1. m * (q - d) >= m
      BY <1>2, <2>1
    <3> QED BY <1>2, <1>3, <3>1
  <2>2. CASE q < d
    <3>1. m * (q - d) <= -m
      BY <1>2, <2>2
    <3> QED BY <1>2, <1>3, <3>1
  <2> QED BY <1>2, <2>1, <2>2
<1> HIDE DEF d
<1> QED BY <1>2, <1>3, <1>4

-----------------------------------------------------------------------------
(* Numbers.                                                                *)

\* What a signed width can hold of a number: the number but for a multiple of what
\* the width can tell apart.
LEMMA SignedLemma ==
  ASSUME NEW b \in Nat \ {0}, NEW n \in Int
  PROVE  /\ Signed(n, b) \in (-(Pow2[b - 1])) .. (Pow2[b - 1] - 1)
         /\ \E q \in Int : n = Pow2[b] * q + Signed(n, b)
<1> DEFINE m == Pow2[b]
           h == Pow2[b - 1]
           u == n % m
           d == n \div m
<1>1. m \in Nat \ {0} /\ h \in Nat \ {0} /\ m = 2 * h
  BY Pow2Half
<1>2. u \in 0 .. (m - 1) /\ n = m * d + u /\ d \in Int
  BY <1>1, RemainderLemma
<1>3. Signed(n, b) = IF u < h THEN u ELSE u - m
  BY DEF Signed
<1> HIDE DEF m, h, u, d
<1>4. Signed(n, b) \in (-h) .. (h - 1)
  BY <1>1, <1>2, <1>3
<1>5. \E q \in Int : n = m * q + Signed(n, b)
  <2>1. CASE u < h
    BY <1>2, <1>3, <2>1
  <2>2. CASE ~(u < h)
    <3>1. n = m * (d + 1) + (u - m) /\ d + 1 \in Int
      BY <1>1, <1>2
    <3> QED BY <1>3, <2>2, <3>1
  <2> QED BY <2>1, <2>2
<1> QED BY <1>4, <1>5 DEF m, h

\* There is one such number.
LEMMA SignedUnique ==
  ASSUME NEW b \in Nat \ {0}, NEW q \in Int,
         NEW r \in (-(Pow2[b - 1])) .. (Pow2[b - 1] - 1)
  PROVE  Signed(Pow2[b] * q + r, b) = r
<1> DEFINE m == Pow2[b]
           h == Pow2[b - 1]
           u == (m * q + r) % m
<1>1. m \in Nat \ {0} /\ h \in Nat \ {0} /\ m = 2 * h
  BY Pow2Half
<1>2. Signed(m * q + r, b) = IF u < h THEN u ELSE u - m
  BY DEF Signed
<1>3. r \in (-h) .. (h - 1)
  OBVIOUS
<1> HIDE DEF m, h
<1>4. CASE r >= 0
  <2>1. r \in 0 .. (m - 1)
    BY <1>1, <1>3, <1>4
  <2>2. u = r
    BY <1>1, <2>1, RemainderUnique
  <2> QED BY <1>1, <1>2, <1>3, <2>2 DEF m
<1>5. CASE r < 0
  <2>1. m + r \in h .. (m - 1) /\ m + r \in 0 .. (m - 1) /\ q - 1 \in Int
    BY <1>1, <1>3, <1>5
  <2>2. m * q + r = m * (q - 1) + (m + r)
    BY <1>1, <1>3
  <2>3. (m * (q - 1) + (m + r)) % m = m + r
    BY <1>1, <2>1, RemainderUnique
  <2>4. u = m + r
    BY <2>2, <2>3
  <2>5. u - m = r /\ ~(u < h)
    BY <1>1, <1>3, <2>1, <2>4
  <2> HIDE DEF u
  <2> QED BY <1>2, <2>5 DEF m
<1> QED BY <1>3, <1>4, <1>5, <1>1

\* Numbers that fit stay as they are.
LEMMA SignedFits ==
  ASSUME NEW b \in Nat \ {0}, NEW r \in (-(Pow2[b - 1])) .. (Pow2[b - 1] - 1)
  PROVE  Signed(r, b) = r
<1>1. Pow2[b] \in Nat /\ Pow2[b - 1] \in Nat
  BY Pow2Half
<1>2. Pow2[b] * 0 + r = r /\ 0 \in Int
  BY <1>1
<1>3. Signed(Pow2[b] * 0 + r, b) = r
  BY <1>2, SignedUnique, Zenon
<1> QED BY <1>2, <1>3

LEMMA UnsignedFits ==
  ASSUME NEW b \in Nat, NEW r \in 0 .. (Pow2[b] - 1)
  PROVE  Unsigned(r, b) = r
<1>1. Pow2[b] \in Nat \ {0}
  BY Pow2Type
<1>2. Pow2[b] * 0 + r = r
  BY <1>1
<1> QED BY <1>1, <1>2, RemainderUnique DEF Unsigned

\* Signed numbers come back unless they do not fit an IV.
LEMMA SignedComeBack ==
  ASSUME NEW w \in Nat \ {0}, NEW b \in Nat \ {0},
         NEW n \in (-(Pow2[b - 1])) .. (Pow2[b - 1] - 1)
  PROVE  Signed(Signed(Signed(n, w), w), b) = n
           <=> n \in (-(Pow2[w - 1])) .. (Pow2[w - 1] - 1)
<1> DEFINE s == Signed(n, w)
<1>1. Pow2[b - 1] \in Nat /\ Pow2[w - 1] \in Nat
  BY Pow2Half
<1>2. s \in (-(Pow2[w - 1])) .. (Pow2[w - 1] - 1)
  BY <1>1, SignedLemma
<1> HIDE DEF s
<1>3. Signed(s, w) = s
  BY <1>2, SignedFits
<1>4. CASE n \in (-(Pow2[w - 1])) .. (Pow2[w - 1] - 1)
  <2>1. s = n
    BY <1>4, SignedFits DEF s
  <2> QED BY <1>3, <1>4, <2>1, SignedFits DEF s
<1>5. CASE n \notin (-(Pow2[w - 1])) .. (Pow2[w - 1] - 1)
  <2>1. Pow2[w - 1] <= Pow2[b - 1]
    BY <1>1, <1>5
  <2>2. s \in (-(Pow2[b - 1])) .. (Pow2[b - 1] - 1)
    BY <1>1, <1>2, <2>1
  <2>3. Signed(s, b) = s
    BY <2>2, SignedFits
  <2> QED BY <1>2, <1>3, <1>5, <2>3 DEF s
<1> QED BY <1>4, <1>5

\* A UV's bits read as an IV: what that leaves of an unsigned number.
LEMMA UnsignedAsSigned ==
  ASSUME NEW w \in Nat \ {0}, NEW n \in Nat
  PROVE  /\ Signed(Unsigned(n, w), w) \in (-(Pow2[w - 1])) .. (Pow2[w - 1] - 1)
         /\ \E q \in Int : n = Pow2[w] * q + Signed(Unsigned(n, w), w)
<1> DEFINE m == Pow2[w]
           u == n % m
           d == n \div m
<1>1. m \in Nat \ {0} /\ n \in Int
  BY Pow2Half
<1> HIDE DEF m
<1>2. u \in 0 .. (m - 1) /\ n = m * d + u /\ d \in Int
  BY <1>1, RemainderLemma
<1>3. Unsigned(n, w) = u
  BY DEF Unsigned, m
<1> HIDE DEF u, d
<1>4. u \in Int
  BY <1>2
<1>5. PICK q \in Int : u = m * q + Signed(u, w)
  BY <1>4, SignedLemma DEF m
<1>6. Signed(u, w) \in (-(Pow2[w - 1])) .. (Pow2[w - 1] - 1) /\ Signed(u, w) \in Int
  <2>1. Pow2[w - 1] \in Nat
    BY Pow2Half
  <2> QED BY <1>4, <2>1, SignedLemma
<1>7. n = m * (d + q) + Signed(u, w) /\ d + q \in Int
  BY <1>1, <1>2, <1>5, <1>6
<1> QED BY <1>3, <1>6, <1>7 DEF m

\* Unsigned numbers of at most the width of an IV come back.
LEMMA NarrowComeBack ==
  ASSUME NEW w \in Nat \ {0}, NEW b \in Nat \ {0}, b <= w, NEW n \in 0 .. (Pow2[b] - 1)
  PROVE  Unsigned(Signed(Unsigned(n, w), w), b) = n
<1> DEFINE s == Signed(Unsigned(n, w), w)
<1>1. Pow2[b] \in Nat \ {0} /\ Pow2[w - 1] \in Nat /\ n \in Nat
  BY Pow2Half
<1>2. PICK q \in Int : n = Pow2[w] * q + s
  BY <1>1, UnsignedAsSigned
<1>3. s \in Int
  BY <1>1, UnsignedAsSigned
<1> HIDE DEF s
<1>4. PICK c \in Nat : Pow2[w] = c * Pow2[b]
  BY Pow2Divides
<1>5. s = Pow2[b] * (-(c * q)) + n /\ -(c * q) \in Int
  <2>1. Pow2[w] * q = Pow2[b] * (c * q)
    BY <1>1, <1>4
  <2>2. c * q \in Int
    OBVIOUS
  <2>3. Pow2[b] * (-(c * q)) = -(Pow2[b] * (c * q)) /\ Pow2[b] * (c * q) \in Int
    BY <1>1, <2>2
  <2> QED BY <1>1, <1>2, <1>3, <2>1, <2>2, <2>3
<1>6. s % Pow2[b] = n
  BY <1>1, <1>5, RemainderUnique
<1> QED BY <1>6 DEF s, Unsigned

\* Of wider ones, those whose bits an IV repeats up to the width.
LEMMA WideComeBack ==
  ASSUME NEW w \in Nat \ {0}, NEW b \in Nat \ {0}, w < b, NEW n \in 0 .. (Pow2[b] - 1)
  PROVE  Unsigned(Signed(Unsigned(n, w), w), b) = n
           <=> n < Pow2[w - 1] \/ n >= Pow2[b] - Pow2[w - 1]
<1> DEFINE s == Signed(Unsigned(n, w), w)
           h == Pow2[w - 1]
           m == Pow2[w]
           z == Pow2[b]
<1>1. z \in Nat \ {0} /\ m \in Nat \ {0} /\ h \in Nat \ {0} /\ m = 2 * h /\ n \in Nat
  BY Pow2Half
<1>2. PICK c \in Nat \ {0} : z = c * m
  <2>1. w \in Nat /\ b \in Nat /\ w <= b
    OBVIOUS
  <2> QED BY <2>1, Pow2Divides
<1>3. m <= z
  BY <1>1, <1>2
<1>4. s \in (-h) .. (h - 1)
  BY <1>1, UnsignedAsSigned
<1>5. Unsigned(s, b) = s % z
  BY DEF Unsigned
<1>6. ASSUME n < h PROVE s = n
  <2>1. n \in 0 .. (m - 1) /\ n \in (-h) .. (h - 1)
    BY <1>1, <1>6
  <2> QED BY <2>1, UnsignedFits, SignedFits
<1>7. ASSUME n >= z - h PROVE s = n - z
  <2>1. n - z \in (-h) .. (h - 1) /\ n - z \in Int
    BY <1>1, <1>7
  <2>2. PICK q \in Int : n = m * q + s
    BY <1>1, UnsignedAsSigned
  <2> HIDE DEF s, m, h, z
  <2>3. s = m * (c - q) + (n - z) /\ c - q \in Int
    BY <1>1, <1>2, <1>4, <2>2
  <2>4. Signed(s, w) = s
    BY <1>4, SignedFits DEF h
  <2>5. Signed(m * (c - q) + (n - z), w) = n - z
    BY <2>1, <2>3, SignedUnique DEF m, h
  <2> QED BY <2>3, <2>4, <2>5
<1> HIDE DEF s, h, m, z
<1>8. CASE s >= 0
  <2>1. s \in 0 .. (z - 1)
    BY <1>1, <1>3, <1>4, <1>8
  <2>2. s % z = s
    BY <2>1, UnsignedFits DEF Unsigned, z
  <2>3. n < z
    BY <1>1 DEF z
  <2>4. Unsigned(s, b) = s
    BY <1>5, <2>2
  <2>5. s = n => n < h
    BY <1>1, <1>4
  <2>6. ~(n >= z - h)
    BY <1>1, <1>7, <1>8, <2>3
  <2> QED BY <1>6, <2>4, <2>5, <2>6 DEF s, h, z
<1>9. CASE s < 0
  <2>1. s + z \in 0 .. (z - 1) /\ s + z >= z - h
    BY <1>1, <1>3, <1>4, <1>9
  <2>2. z * (-1) + (s + z) = s
    BY <1>1, <1>4
  <2>3. s % z = s + z
    <3>1. (z * (-1) + (s + z)) % z = s + z
      BY <1>1, <2>1, RemainderUnique
    <3> QED BY <2>2, <3>1
  <2>4. Unsigned(s, b) = s + z
    BY <1>5, <2>3
  <2>5. s + z = n => n >= z - h
    BY <1>1, <2>1
  <2>6. n >= z - h => s + z = n
    BY <1>1, <1>7
  <2>7. ~(n < h)
    BY <1>1, <1>6, <1>9
  <2> QED BY <2>4, <2>5, <2>6, <2>7 DEF s, h, z
<1> QED BY <1>1, <1>4, <1>8, <1>9

\* A number and what comes back of it, whatever its type.
LEMMA ComeBack ==
  ASSUME NEW type \in NumberType, NEW n \in Values(type)
  PROVE  FromSV(ToSV(n, type), type) = n <=>
           IF type.signed THEN n \in (-(Pow2[IVBits - 1])) .. (Pow2[IVBits - 1] - 1)
           ELSE \/ type.bits <= IVBits
                \/ n < Pow2[IVBits - 1]
                \/ n >= Pow2[type.bits] - Pow2[IVBits - 1]
<1>1. type.bits \in Nat \ {0} /\ IVBits \in Nat \ {0} /\ type.signed \in BOOLEAN
  BY ConversionsAssumption DEF NumberType
<1>2. CASE type.signed
  <2>1. n \in (-(Pow2[type.bits - 1])) .. (Pow2[type.bits - 1] - 1)
    BY <1>2 DEF Values
  <2>2. FromSV(ToSV(n, type), type) = Signed(Signed(Signed(n, IVBits), IVBits), type.bits)
    BY <1>2 DEF FromSV, ToSV, Cut
  <2> QED BY <1>1, <1>2, <2>1, <2>2, SignedComeBack
<1>3. CASE ~type.signed
  <2>1. n \in 0 .. (Pow2[type.bits] - 1)
    BY <1>3 DEF Values
  <2>2. FromSV(ToSV(n, type), type) = Unsigned(Signed(Unsigned(n, IVBits), IVBits), type.bits)
    BY <1>3 DEF FromSV, ToSV, Cut
  <2>3. CASE type.bits <= IVBits
    BY <1>1, <1>3, <2>1, <2>2, <2>3, NarrowComeBack
  <2>4. CASE IVBits < type.bits
    <3>1. ~(type.bits <= IVBits)
      BY <1>1, <2>4
    <3> QED BY <1>1, <1>3, <2>1, <2>2, <2>4, <3>1, WideComeBack
  <2> QED BY <1>1, <2>3, <2>4
<1> QED BY <1>1, <1>2, <1>3

-----------------------------------------------------------------------------
(* The inductive invariant.                                                *)

\* As many elements as the length of an array can tell.
Told == Len(source) % Dimensions

\* What a lookup has found out so far.
LookupRight ==
  /\ pc # "named" => answer = Nothing
  /\ pc \in {"method", "constant"} =>
       iface \in Interface /\ iface.scriptable /\ asked \in [name : Name, inputs : 0..1]
  /\ pc = "constant" => Candidates = {}
  /\ NamesFindMembers

\* The native array, whose elements are known by their places, and the Perl array
\* made of it, whose elements are in order until Perl code changes something.
ElementsRight ==
  /\ Len(source) <= MaxLength
  /\ \A i \in 1 .. Len(source) : source[i] \in Elements(kind, i)
  /\ Len(sv) <= Stored
  /\ ~changed => \A i \in 1 .. Len(sv) : sv[i] = ElementToSV(source[i])
  /\ pc \in {"toNative", "read"} /\ ~changed => dimension = Len(source)
  /\ pc \in {"idle", "toPerl"} => ~changed

\* The references to an element before it is converted, and after.
Fresh(i) == IF kind \in Owned /\ source[i] # Null THEN TheirOwn ELSE NoScalar
Passed(i) ==
  IF kind \in Owned /\ source[i] # Null
  THEN CASE kind \in Strings -> Given([refs |-> 0, owners |-> 1])
         [] kind = "object"   -> Given([refs |-> 1, owners |-> 2])
         [] OTHER             -> TheirOwn
  ELSE NoScalar

MemoryRight ==
  /\ pc = "toPerl" => \A i \in 1 .. Len(source) :
       memory[i] = IF i <= Len(sv) THEN Passed(i) ELSE Fresh(i)
  /\ ElementsAccountedFor

\* The native array made of the Perl array.
ReturnRight ==
  /\ pc \notin {"toNative", "read", "lost", "refused"} => out = <<>> /\ copies = <<>>
  /\ pc = "idle" => sv = <<>>
  /\ pc \in {"toNative", "read"} => Len(out) <= dimension % Dimensions
  /\ pc = "read" => Len(out) = dimension % Dimensions
  /\ pc = "lost" => Len(sv) < dimension % Dimensions
  /\ \A i \in 1 .. Len(out) : out[i] = SVToElement(sv[i])
  /\ kind = "other" => out = <<>>
  /\ pc = "toNative" => \A i \in 1 .. Len(out) : copies[i] = Copy(sv[i])

IInv ==
  TypeOK /\ LookupRight /\ NumbersComeBack /\ ElementsRight /\ MemoryRight /\ ReturnRight

-----------------------------------------------------------------------------
(* Lookups.                                                                *)

\* What the interface compiler guarantees.
LEMMA InterfaceLemma ==
  ASSUME NEW i \in Interface
  PROVE  /\ i.methods \in Seq(Method) /\ i.constants \in Seq(Name)
         /\ DOMAIN i.methods \subseteq Nat /\ DOMAIN i.constants \subseteq Nat
         /\ \A a, b \in DOMAIN i.methods :
              a < b /\ i.methods[a].name = i.methods[b].name =>
                i.methods[a].is = "getter" /\ i.methods[b].is = "setter"
<1>1. PICK n \in 0 .. MaxMembers : i.methods \in [1 .. n -> Method]
  BY DEF Interface, SeqOf
<1>2. PICK m \in 0 .. MaxConsts : i.constants \in [1 .. m -> Name]
  BY DEF Interface, SeqOf
<1>3. n \in Nat /\ m \in Nat
  BY ConversionsAssumption
<1>4. i.methods \in Seq(Method) /\ i.constants \in Seq(Name)
  BY <1>1, <1>2, <1>3, SeqDef
<1>5. DOMAIN i.methods = 1 .. n /\ DOMAIN i.constants = 1 .. m
  BY <1>1, <1>2
<1>6. \A a, b \in DOMAIN i.methods :
        a < b /\ i.methods[a].name = i.methods[b].name =>
          i.methods[a].is = "getter" /\ i.methods[b].is = "setter"
  BY DEF Interface
<1> QED BY <1>3, <1>4, <1>5, <1>6

\* The methods that the property says a name and a number of arguments take.
Takes(m) ==
  /\ iface.methods[m].name = asked.name /\ ~iface.methods[m].hidden
  /\ CASE iface.methods[m].is = "getter" -> asked.inputs = 0
       [] iface.methods[m].is = "setter" -> asked.inputs = 1
       [] OTHER                          -> TRUE

Longer == {c \in DOMAIN iface.constants : <<asked.name, iface.constants[c]>> \in Begins}

LEMMA TakersAreCandidates ==
  ASSUME asked.inputs \in 0 .. 1
  PROVE  Candidates = {m \in DOMAIN iface.methods : Takes(m)}
<1>1. ASSUME NEW m \in DOMAIN iface.methods
      PROVE  Answers(iface.methods[m], asked.name, asked.inputs) <=> Takes(m)
  <2>1. CASE iface.methods[m].is = "getter"
    BY <2>1 DEF Answers, Takes
  <2>2. CASE iface.methods[m].is = "setter"
    BY <2>2 DEF Answers, Takes
  <2>3. CASE iface.methods[m].is \notin {"getter", "setter"}
    BY <2>3 DEF Answers, Takes
  <2> QED BY <2>1, <2>2, <2>3
<1> QED BY <1>1 DEF Candidates

\* There is at most one.
LEMMA OneCandidate ==
  ASSUME iface \in Interface, asked.inputs \in 0 .. 1, NEW m \in Candidates
  PROVE  First(Candidates) \in DOMAIN iface.methods /\ First(Candidates) = m
<1> DEFINE f == First(Candidates)
<1>1. Candidates \subseteq DOMAIN iface.methods /\ DOMAIN iface.methods \subseteq Nat
  BY InterfaceLemma DEF Candidates
<1>2. f \in Candidates /\ f <= m
  BY <1>1, LeastLemma
<1> HIDE DEF f
<1>3. Takes(f) /\ Takes(m) /\ f \in DOMAIN iface.methods /\ m \in DOMAIN iface.methods
  BY <1>2, TakersAreCandidates
<1>4. ASSUME f # m PROVE FALSE
  <2>1. f < m
    BY <1>1, <1>2, <1>3, <1>4
  <2>2. iface.methods[f].is = "getter" /\ iface.methods[m].is = "setter"
    BY <1>3, <2>1, InterfaceLemma DEF Takes
  <2> QED BY <1>3, <2>2 DEF Takes
<1> QED BY <1>3, <1>4 DEF f

\* Which constant is found.
LEMMA ConstantFound ==
  ASSUME iface \in Interface
  PROVE  CASE \E c \in DOMAIN iface.constants :
                iface.constants[c] = asked.name /\ \A d \in Longer : c < d ->
                Matching # {} /\ iface.constants[First(Matching)] = asked.name
           [] Longer = {} /\ asked.name \notin Range(iface.constants) -> Matching = {}
           [] OTHER -> Matching # {} /\ First(Matching) \in Longer
<1> DEFINE f == First(Matching)
           dom == DOMAIN iface.constants
           A == \E c \in dom : iface.constants[c] = asked.name /\ \A d \in Longer : c < d
           B == Longer = {} /\ asked.name \notin Range(iface.constants)
<1>1. dom \subseteq Nat
  BY InterfaceLemma
<1>2. Matching = Longer \cup {c \in dom : iface.constants[c] = asked.name}
  BY DEF Matching, Matches, Longer
<1>3. Matching \subseteq dom /\ Longer \subseteq Matching
  BY <1>2 DEF Matching
<1>4. ASSUME Matching # {} PROVE f \in Matching /\ \A c \in Matching : f <= c
  BY <1>1, <1>3, <1>4, LeastLemma
<1>5. Range(iface.constants) = {iface.constants[c] : c \in dom}
  BY DEF Range
<1> HIDE DEF f
<1>6. ASSUME A PROVE Matching # {} /\ iface.constants[f] = asked.name
  <2>1. PICK c \in dom : iface.constants[c] = asked.name /\ \A d \in Longer : c < d
    BY <1>6
  <2>2. c \in Matching
    BY <1>2, <2>1
  <2>3. f \in Matching /\ f <= c
    BY <1>4, <2>2
  <2>4. f \notin Longer
    BY <1>1, <1>3, <2>1, <2>3
  <2> QED BY <1>2, <2>2, <2>3, <2>4
<1>7. ASSUME B PROVE Matching = {}
  BY <1>2, <1>5, <1>7
<1>8. ASSUME ~A, ~B PROVE Matching # {} /\ f \in Longer
  <2>1. Matching # {}
    BY <1>2, <1>5, <1>8
  <2>2. f \in Matching /\ \A c \in Matching : f <= c
    BY <1>4, <2>1
  <2>3. ASSUME f \notin Longer PROVE FALSE
    <3>1. f \in dom /\ iface.constants[f] = asked.name
      BY <1>2, <2>2, <2>3
    <3>2. \A d \in Longer : f < d
      BY <1>1, <1>3, <2>2, <2>3
    <3> QED BY <1>8, <3>1, <3>2
  <2> QED BY <2>1, <2>3
<1>9. ASSUME A, B PROVE FALSE
  BY <1>5, <1>9
<1> HIDE DEF A, B
<1>10. CASE A
  BY <1>6, <1>9, <1>10 DEF A, B, f
<1>11. CASE B
  BY <1>7, <1>9, <1>11 DEF A, B, f
<1>12. CASE ~A /\ ~B
  BY <1>8, <1>12 DEF A, B, f
<1> QED BY <1>10, <1>11, <1>12

-----------------------------------------------------------------------------
(* One lemma per action.                                                   *)

\* Lookups and numbers leave the arrays alone.
LEMMA ArraysKept ==
  ASSUME IInv, UNCHANGED arrays, pc \in {"idle", "method", "constant"},
         pc' \in {"method", "constant", "named", "number"}
  PROVE  ElementsRight' /\ MemoryRight' /\ ReturnRight'
<1>1. out = <<>> /\ copies = <<>>
  BY DEF IInv, ReturnRight
<1>2. ElementsRight'
  BY DEF IInv, ElementsRight, arrays, Stored, ElementToSV, Elements
<1>3. MemoryRight'
  BY DEF MemoryRight, ElementsAccountedFor
<1>4. ReturnRight'
  <2>1. \A i \in 1 .. Len(out') : out'[i] = SVToElement(sv[i])'
    BY DEF IInv, ReturnRight, arrays, SVToElement, Fetched, Read
  <2> QED BY <1>1, <2>1 DEF ReturnRight, arrays
<1> QED BY <1>2, <1>3, <1>4

\* Numbers and arrays leave the lookups alone.
LEMMA LookupKept ==
  ASSUME IInv, UNCHANGED lookup, pc # "named", pc' \notin {"method", "constant", "named"}
  PROVE  LookupRight'
BY DEF IInv, LookupRight, NamesFindMembers, lookup

LEMMA GetInterfaceInfoOK ==
  ASSUME IInv, GetInterfaceInfo
  PROVE  IInv'
<1>1. UNCHANGED <<number, arrays>> /\ pc = "idle" /\ pc' \in {"method", "named"}
  BY DEF GetInterfaceInfo
<1>2. TypeOK'
  <2>1. answer = Nothing
    BY <1>1 DEF IInv, LookupRight
  <2>2. answer' \in {Nothing, [Nothing EXCEPT !.of = "refused"]}
    BY <2>1 DEF GetInterfaceInfo
  <2>3. /\ answer' \in [of : TypeOfLookup, at : Nat]
        /\ answer'.of \notin {"method", "constant"}
    BY <2>2 DEF Nothing, TypeOfLookup
  <2>4. iface' \in Interface /\ asked' \in [name : Name, inputs : 0 .. 1]
    BY DEF GetInterfaceInfo
  <2> QED BY <1>1, <2>3, <2>4 DEF IInv, TypeOK, arrays
<1>3. LookupRight'
  <2>1. pc' = "named" => ~iface'.scriptable
    BY DEF GetInterfaceInfo
  <2>2. pc' # "named" => answer' = Nothing /\ iface'.scriptable /\ pc' = "method"
    BY <1>1 DEF GetInterfaceInfo, IInv, LookupRight
  <2>3. iface' \in Interface /\ asked' \in [name : Name, inputs : 0 .. 1]
    BY DEF GetInterfaceInfo
  <2> QED BY <2>1, <2>2, <2>3 DEF LookupRight, NamesFindMembers
<1>4. NumbersComeBack'
  BY <1>1 DEF NumbersComeBack
<1> QED BY <1>1, <1>2, <1>3, <1>4, ArraysKept DEF IInv

LEMMA GetMethodInfoOK ==
  ASSUME IInv, GetMethodInfo
  PROVE  IInv'
<1>1. /\ UNCHANGED <<iface, asked, number, arrays>> /\ pc = "method"
      /\ pc' \in {"constant", "named"}
  BY DEF GetMethodInfo
<1>2. /\ iface \in Interface /\ iface.scriptable /\ asked.inputs \in 0 .. 1
      /\ asked \in [name : Name, inputs : 0 .. 1] /\ answer = Nothing
  BY <1>1 DEF IInv, LookupRight
<1>3. CASE Candidates = {}
  <2>1. pc' = "constant" /\ answer' = Nothing
    BY <1>2, <1>3 DEF GetMethodInfo
  <2>2. TypeOK'
    BY <1>1, <1>2, <2>1 DEF IInv, TypeOK, Nothing, arrays
  <2>3. Candidates' = {}
    BY <1>1, <1>3 DEF Candidates, Answers
  <2>4. LookupRight'
    BY <1>1, <1>2, <2>1, <2>3 DEF LookupRight, NamesFindMembers
  <2>5. NumbersComeBack'
    BY <1>1 DEF NumbersComeBack
  <2> QED BY <1>1, <2>2, <2>4, <2>5, ArraysKept DEF IInv
<1>4. CASE Candidates # {}
  <2>0. PICK m \in Candidates : TRUE
    BY <1>4
  <2>1. pc' = "named" /\ answer' = [of |-> "method", at |-> m] /\ m \in DOMAIN iface.methods
    BY <1>2, <1>4, OneCandidate DEF GetMethodInfo
  <2>2. TypeOK'
    <3>1. m \in Nat
      BY <1>2, <2>1, InterfaceLemma
    <3>2. answer' \in [of : TypeOfLookup, at : Nat] /\ answer'.of = "method" /\ answer'.at = m
      BY <2>1, <3>1 DEF TypeOfLookup
    <3> QED BY <1>1, <1>2, <2>1, <3>2 DEF IInv, TypeOK, arrays
  <2>3. NamesFindMembers'
    <3>1. Takes(m)
      BY <1>2, <2>0, TakersAreCandidates
    <3>2. ASSUME NEW k \in DOMAIN iface.methods, Takes(k) PROVE k = m
      <4>1. k \in Candidates
        BY <1>2, <3>2, TakersAreCandidates
      <4> QED BY <1>2, <2>0, <4>1, OneCandidate
    <3> QED BY <1>1, <2>1, <3>1, <3>2 DEF NamesFindMembers, Takes
  <2>4. LookupRight'
    BY <2>1, <2>3 DEF LookupRight
  <2>5. NumbersComeBack'
    BY <1>1 DEF NumbersComeBack
  <2> QED BY <1>1, <2>2, <2>4, <2>5, ArraysKept DEF IInv
<1> QED BY <1>3, <1>4

LEMMA lookupConstantOK ==
  ASSUME IInv, lookupConstant
  PROVE  IInv'
<1>1. /\ UNCHANGED <<iface, asked, number, arrays>> /\ pc = "constant" /\ pc' = "named"
      /\ answer' = IF Matching = {} THEN Nothing
                   ELSE [of |-> "constant", at |-> First(Matching)]
  BY DEF lookupConstant
<1>2. /\ iface \in Interface /\ iface.scriptable /\ asked.inputs \in 0 .. 1
      /\ Candidates = {}
  BY <1>1 DEF IInv, LookupRight
<1>3. \A m \in DOMAIN iface.methods : ~Takes(m)
  BY <1>2, TakersAreCandidates
<1>4. TypeOK'
  <2>1. CASE Matching = {}
    BY <1>1, <2>1 DEF IInv, TypeOK, arrays, Nothing, TypeOfLookup
  <2>2. CASE Matching # {}
    <3>1. Matching \subseteq DOMAIN iface.constants /\ DOMAIN iface.constants \subseteq Nat
      BY <1>2, InterfaceLemma DEF Matching
    <3>2. First(Matching) \in DOMAIN iface.constants /\ First(Matching) \in Nat
      BY <2>2, <3>1, LeastLemma
    <3>3. /\ answer' \in [of : TypeOfLookup, at : Nat]
          /\ answer'.of = "constant" /\ answer'.at \in DOMAIN iface.constants
      BY <1>1, <2>2, <3>2 DEF TypeOfLookup
    <3> QED BY <1>1, <1>2, <3>3 DEF IInv, TypeOK, arrays
  <2> QED BY <2>1, <2>2
<1>5. NamesFindMembers'
  <2> DEFINE A == \E c \in DOMAIN iface.constants :
                     iface.constants[c] = asked.name /\ \A d \in Longer : c < d
             B == Longer = {} /\ asked.name \notin Range(iface.constants)
  <2>1. Matching # {} => answer'.of = "constant" /\ answer'.at = First(Matching)
    BY <1>1
  <2>2. CASE A /\ B
    BY <2>2 DEF Range
  <2>3. CASE A /\ ~B
    <3>1. answer'.of = "constant" /\ iface.constants[answer'.at] = asked.name
      BY <1>2, <2>1, <2>3, ConstantFound
    <3> QED BY <1>1, <1>3, <2>3, <3>1 DEF NamesFindMembers, Takes, Longer
  <2>4. CASE ~A /\ B
    <3>1. answer' = Nothing
      BY <1>1, <1>2, <2>4, ConstantFound
    <3> QED BY <1>1, <1>3, <2>4, <3>1 DEF NamesFindMembers, Takes, Longer
  <2>5. CASE ~A /\ ~B
    <3>1. answer'.of = "constant" /\ answer'.at \in Longer
      BY <1>2, <2>1, <2>5, ConstantFound
    <3> QED BY <1>1, <1>3, <2>5, <3>1 DEF NamesFindMembers, Takes, Longer
  <2> QED BY <2>2, <2>3, <2>4, <2>5
<1>6. LookupRight'
  BY <1>1, <1>5 DEF LookupRight
<1>7. NumbersComeBack'
  BY <1>1 DEF NumbersComeBack
<1> QED BY <1>1, <1>4, <1>6, <1>7, ArraysKept DEF IInv

LEMMA NumberThroughPerlOK ==
  ASSUME IInv, NumberThroughPerl
  PROVE  IInv'
<1>1. UNCHANGED <<lookup, arrays>> /\ pc = "idle" /\ pc' = "number"
  BY DEF NumberThroughPerl
<1>2. PICK type \in NumberType : \E n \in Values(type) :
        number' = [type |-> type, value |-> n, back |-> FromSV(ToSV(n, type), type)]
  BY DEF NumberThroughPerl
<1>3. PICK n \in Values(type) :
        number' = [type |-> type, value |-> n, back |-> FromSV(ToSV(n, type), type)]
  BY <1>2
<1>4. TypeOK'
  BY <1>1, <1>3 DEF IInv, TypeOK, lookup, arrays
<1>5. NumbersComeBack'
  <2>1. number'.type = type /\ number'.value = n
        /\ number'.back = FromSV(ToSV(n, type), type)
    BY <1>3
  <2> QED BY ONLY <2>1, ComeBack DEF NumbersComeBack
<1>6. LookupRight'
  BY <1>1, LookupKept
<1> QED BY <1>1, <1>4, <1>5, <1>6, ArraysKept DEF IInv


-----------------------------------------------------------------------------
(* Arrays.                                                                 *)

\* What a PRUint16 tells of a length.
LEMMA TellLemma ==
  ASSUME NEW n \in Nat
  PROVE  /\ n % Dimensions \in Nat /\ n % Dimensions < Dimensions /\ n % Dimensions <= n
         /\ n % Dimensions = n <=> n < Dimensions
<1> DEFINE d == n \div Dimensions
           r == n % Dimensions
<1>1. Dimensions \in Nat \ {0} /\ n \in Int
  BY ConversionsAssumption
<1>2. r \in 0 .. (Dimensions - 1) /\ n = Dimensions * d + r /\ d \in Int
  BY <1>1, RemainderLemma
<1>3. Dimensions * 0 + n = n /\ 0 \in Int
  BY <1>1
<1>4. ASSUME n < Dimensions PROVE r = n
  <2>1. n \in 0 .. (Dimensions - 1)
    BY <1>1, <1>4
  <2>2. (Dimensions * 0 + n) % Dimensions = n
    BY <1>1, <1>3, <2>1, RemainderUnique, Zenon
  <2> QED BY <1>3, <2>2
<1> HIDE DEF r, d
<1>5. r <= n
  <2>1. CASE n < Dimensions
    BY <1>4, <2>1
  <2>2. CASE ~(n < Dimensions)
    BY <1>1, <1>2, <2>2
  <2> QED BY <2>1, <2>2
<1>6. r \in Nat /\ r < Dimensions /\ r <= n /\ (r = n <=> n < Dimensions)
  BY <1>1, <1>2, <1>4, <1>5
<1> QED BY <1>6 DEF r

\* The types of the variables that arrays use.
ArraysTyped ==
  /\ kind \in Kinds /\ given \in BOOLEAN /\ changed \in BOOLEAN
  /\ source \in Seq(Nat) /\ memory \in Seq(Scalar) /\ Len(memory) = Len(source)
  /\ sv \in Seq(Nat \cup {Undef, Blank}) /\ Len(sv) <= Len(source)
  /\ dimension \in 0 .. MaxLength
  /\ out \in Seq(Int) /\ Len(out) <= Len(sv)
  /\ copies \in Seq(Scalar) /\ Len(copies) = Len(out)

LEMMA ArraysAreTyped ==
  ASSUME IInv
  PROVE  /\ ArraysTyped
         /\ Len(source) \in Nat /\ Len(sv) \in Nat /\ Len(out) \in Nat
         /\ DOMAIN memory = 1 .. Len(source) /\ DOMAIN copies = 1 .. Len(out)
         /\ DOMAIN source = 1 .. Len(source) /\ DOMAIN sv = 1 .. Len(sv)
         /\ dimension \in Nat /\ Told \in Nat /\ Told <= Len(source)
         /\ Stored = (IF kind = "nameless" THEN 0 ELSE Told)
         /\ Stored \in Nat /\ Stored <= Told
<1>1. ArraysTyped
  BY DEF IInv, TypeOK, ArraysTyped
<1>2. Len(source) \in Nat /\ DOMAIN source = 1 .. Len(source)
  BY <1>1, LenProperties DEF ArraysTyped
<1>3. Len(sv) \in Nat /\ DOMAIN sv = 1 .. Len(sv)
  BY <1>1, LenProperties DEF ArraysTyped
<1>4. Len(out) \in Nat
  BY <1>1, LenProperties DEF ArraysTyped
<1>5. DOMAIN memory = 1 .. Len(source)
  BY <1>1, LenProperties DEF ArraysTyped
<1>6. DOMAIN copies = 1 .. Len(out)
  BY <1>1, LenProperties DEF ArraysTyped
<1>7. dimension \in Nat
  BY <1>1, ConversionsAssumption DEF ArraysTyped
<1>8. Told \in Nat /\ Told <= Len(source)
  BY <1>2, TellLemma DEF Told
<1>9. Stored = IF kind = "nameless" THEN 0 ELSE Told
  BY DEF Stored, Told
<1>10. Stored \in Nat /\ Stored <= Told
  BY <1>8, <1>9
<1> QED BY <1>1, <1>2, <1>3, <1>4, <1>5, <1>6, <1>7, <1>8, <1>9, <1>10

\* A step of an array has to keep only what the invariant says of arrays.
LEMMA ArrayStep ==
  ASSUME IInv, UNCHANGED <<lookup, number>>,
         pc \in {"idle", "toPerl", "perl", "toNative"},
         pc' \in {"toPerl", "perl", "toNative", "read", "refused", "lost"},
         ArraysTyped', ElementsRight', MemoryRight', ReturnRight'
  PROVE  IInv'
<1>1. TypeOK'
  BY DEF IInv, TypeOK, ArraysTyped, lookup
<1>2. LookupRight'
  BY LookupKept
<1>3. NumbersComeBack'
  BY DEF NumbersComeBack
<1> QED BY <1>1, <1>2, <1>3 DEF IInv

LEMMA NativeArrayOK ==
  ASSUME IInv, NativeArray
  PROVE  IInv'
<1>1. /\ pc = "idle" /\ pc' = "toPerl" /\ kind' \in Kinds /\ given' \in BOOLEAN
      /\ UNCHANGED <<lookup, number, changed, sv, dimension, out, copies>>
  BY DEF NativeArray
<1>0. PICK n \in 0 .. MaxLength : \E s \in [1 .. n -> 0 .. (2 * MaxLength)] :
        /\ \A i \in 1 .. n : s[i] \in Elements(kind', i)
        /\ source' = s
        /\ memory' = [i \in 1 .. n |-> IF kind' \in Owned /\ s[i] # Null THEN TheirOwn
                                       ELSE NoScalar]
  BY DEF NativeArray
<1>2. PICK s \in [1 .. n -> 0 .. (2 * MaxLength)] :
        /\ \A i \in 1 .. n : s[i] \in Elements(kind', i)
        /\ source' = s
        /\ memory' = [i \in 1 .. n |-> IF kind' \in Owned /\ s[i] # Null THEN TheirOwn
                                       ELSE NoScalar]
  BY <1>0
<1>3. n \in Nat
  BY ConversionsAssumption
<1>4. source' \in Seq(Nat) /\ Len(source') = n
  <2>1. source' \in [1 .. n -> Nat]
    BY <1>2, ConversionsAssumption
  <2> QED BY <1>3, <2>1, SeqDef
<1>5. memory' \in Seq(Scalar) /\ Len(memory') = n
  <2>1. TheirOwn \in Scalar /\ NoScalar \in Scalar
    BY DEF TheirOwn, NewScalar, Own, NoScalar, Scalar
  <2>2. memory' \in [1 .. n -> Scalar]
    BY <1>2, <2>1
  <2> QED BY <1>3, <2>2, SeqDef
<1>6. out = <<>> /\ copies = <<>> /\ sv = <<>> /\ ~changed
  BY <1>1 DEF IInv, ReturnRight, ElementsRight
<1>7. ArraysTyped'
  BY <1>1, <1>3, <1>4, <1>5, <1>6 DEF IInv, TypeOK, ArraysTyped
<1>8. ElementsRight'
  <2>1. \A i \in 1 .. Len(source') : source'[i] \in Elements(kind', i)
    BY <1>2, <1>4
  <2>2. Len(source') % Dimensions \in Nat
    BY <1>3, <1>4, TellLemma
  <2>3. Len(sv') = 0 /\ Stored' \in Nat
    BY <1>1, <1>6, <2>2 DEF Stored
  <2>4. Len(source') <= MaxLength
    BY <1>3, <1>4, ConversionsAssumption
  <2>5. \A i \in 1 .. Len(source') : (source[i] \in Elements(kind, i))'
    BY <2>1 DEF Elements
  <2>6. \A i \in 1 .. Len(sv') : FALSE
    BY <2>3
  <2> QED BY <1>1, <1>6, <2>3, <2>4, <2>5, <2>6 DEF ElementsRight
<1>9. MemoryRight'
  <2>1. ASSUME NEW i \in 1 .. n PROVE memory'[i] = Fresh(i)'
    BY <1>2, <2>1 DEF Fresh
  <2> QED BY <1>1, <1>3, <1>4, <1>6, <2>1 DEF MemoryRight, ElementsAccountedFor
<1>10. ReturnRight'
  BY <1>1, <1>6 DEF ReturnRight
<1> QED BY <1>1, <1>7, <1>8, <1>9, <1>10, ArrayStep

\* A conversion that fails, or never ends, leaves everything as it is.
LEMMA GivenUp ==
  ASSUME IInv, UNCHANGED <<lookup, number, arrays>>,
         \/ pc \in {"toPerl", "toNative"} /\ pc' = "refused"
         \/ pc = "toNative" /\ pc' = "lost" /\ Len(sv) < dimension % Dimensions
  PROVE  IInv'
<1>1. ArraysTyped'
  BY ArraysAreTyped DEF ArraysTyped, arrays
<1>2. ElementsRight'
  BY DEF IInv, ElementsRight, arrays, Stored, ElementToSV, Elements
<1>3. MemoryRight'
  BY DEF MemoryRight, ElementsAccountedFor
<1>4. ReturnRight'
  <2>1. \A i \in 1 .. Len(out') : out'[i] = SVToElement(sv[i])'
    BY DEF IInv, ReturnRight, arrays, SVToElement, Fetched, Read
  <2>2. kind' = "other" => out' = <<>>
    BY DEF IInv, ReturnRight, arrays
  <2> QED BY <2>1, <2>2 DEF ReturnRight, arrays
<1> QED BY <1>1, <1>2, <1>3, <1>4, ArrayStep

LEMMA ArrayFailsOK ==
  ASSUME IInv, convertArrayToSVFails \/ convertSVToArrayFails \/ TooShort
  PROVE  IInv'
<1>1. CASE convertArrayToSVFails
  BY <1>1, GivenUp DEF convertArrayToSVFails
<1>2. CASE convertSVToArrayFails
  BY <1>2, GivenUp DEF convertSVToArrayFails
<1>3. CASE TooShort
  BY <1>3, GivenUp DEF TooShort
<1> QED BY <1>1, <1>2, <1>3


\* The value made of an element.
LEMMA ElementToSVType ==
  ASSUME NEW v \in Nat
  PROVE  ElementToSV(v) \in Nat \cup {Undef, Blank}
BY DEF ElementToSV

\* What becomes of the reference to it.
LEMMA TakenLemma ==
  ASSUME kind \in Kinds \ {"nameless"}, NEW i, memory[i] = Fresh(i),
         kind \notin Owned => source[i] # Null
  PROVE  Taken(i) = Passed(i) /\ Passed(i) \in Scalar
<1>1. TheirOwn = [refs |-> 1, owners |-> 1]
  BY DEF TheirOwn, Own, NewScalar
<1>2. /\ Dec(TheirOwn) = [refs |-> 0, owners |-> 1]
      /\ Dec(Own(Inc(TheirOwn))) = [refs |-> 1, owners |-> 2]
  <2>1. /\ Dec([refs |-> 1, owners |-> 1]) = [refs |-> 0, owners |-> 1]
        /\ Dec([refs |-> 2, owners |-> 2]) = [refs |-> 1, owners |-> 2]
    BY DEF Dec
  <2>2. /\ Inc([refs |-> 1, owners |-> 1]) = [refs |-> 2, owners |-> 1]
        /\ Own([refs |-> 2, owners |-> 1]) = [refs |-> 2, owners |-> 2]
    BY DEF Inc, Own
  <2> QED BY <1>1, <2>1, <2>2, Zenon
<1>3. \A s \in Scalar : Given(s) \in Scalar
  BY DEF Given, Disown, Scalar
<1>4. CASE source[i] = Null
  BY <1>4 DEF Taken, Fresh, Passed, NoScalar, Scalar
<1>5. CASE source[i] # Null /\ kind \in Strings
  BY <1>2, <1>3, <1>5 DEF Taken, Fresh, Passed, Owned, Scalar
<1>6. CASE source[i] # Null /\ kind = "object"
  BY <1>2, <1>3, <1>6 DEF Taken, Fresh, Passed, Owned, Strings, Scalar
<1>7. CASE kind \notin Owned
  BY <1>7 DEF Taken, Fresh, Passed, Owned, NoScalar, Scalar
<1> QED BY <1>4, <1>5, <1>6, <1>7 DEF Owned

LEMMA convertArrayToSVOK ==
  ASSUME IInv, convertArrayToSV
  PROVE  IInv'
<1> DEFINE i == Len(sv) + 1
<1>1. /\ pc = "toPerl" /\ pc' = "toPerl" /\ Len(sv) < Stored
      /\ sv' = Append(sv, ElementToSV(source[i]))
      /\ memory' = [memory EXCEPT ![i] = Taken(i)]
      /\ UNCHANGED <<lookup, number, kind, given, source, changed, dimension, out, copies>>
  BY DEF convertArrayToSV
<1>2. /\ ArraysTyped /\ Len(source) \in Nat /\ Len(sv) \in Nat
      /\ Stored = (IF kind = "nameless" THEN 0 ELSE Told)
      /\ Stored \in Nat /\ Stored <= Told /\ Told \in Nat /\ Told <= Len(source)
  BY ArraysAreTyped
<1>3. i \in 1 .. Len(source) /\ i \in 1 .. Stored /\ kind # "nameless"
  BY <1>1, <1>2
<1>4. source[i] \in Nat
  BY <1>2, <1>3, ElementOfSeq DEF ArraysTyped
<1>5. ElementToSV(source[i]) \in Nat \cup {Undef, Blank}
  BY <1>4, ElementToSVType
<1>6. /\ sv' \in Seq(Nat \cup {Undef, Blank}) /\ Len(sv') = i
      /\ sv'[i] = ElementToSV(source[i])
      /\ \A k \in 1 .. Len(sv) : sv'[k] = sv[k]
  BY <1>1, <1>2, <1>5, AppendProperties DEF ArraysTyped
<1>7. memory[i] = Fresh(i) /\ (kind \notin Owned => source[i] # Null)
  <2>1. memory[i] = Fresh(i)
    BY <1>1, <1>2, <1>3 DEF IInv, MemoryRight
  <2>2. source[i] \in Elements(kind, i)
    BY <1>3 DEF IInv, ElementsRight
  <2>3. kind \notin Owned => source[i] \in {i, Large(i)}
    BY <2>2 DEF Elements
  <2>4. i # Null /\ Large(i) # Null
    BY <1>2, ConversionsAssumption DEF Large, Null
  <2> QED BY <2>1, <2>3, <2>4
<1>8. Taken(i) = Passed(i) /\ Passed(i) \in Scalar
  BY <1>2, <1>3, <1>7, TakenLemma DEF ArraysTyped
<1> HIDE DEF i
<1>9. /\ memory' \in Seq(Scalar) /\ Len(memory') = Len(source)
      /\ \A k \in 1 .. Len(source) : memory'[k] = IF k = i THEN Passed(i) ELSE memory[k]
  BY <1>1, <1>2, <1>3, <1>8, ExceptSeq DEF ArraysTyped
<1>10. out = <<>> /\ copies = <<>> /\ ~changed
  BY <1>1 DEF IInv, ReturnRight, ElementsRight
<1>11. ArraysTyped'
  BY <1>1, <1>2, <1>3, <1>6, <1>9, <1>10 DEF ArraysTyped
<1>12. ElementsRight'
  <2>1. Stored' = Stored
    BY <1>1 DEF Stored
  <2>2. \A k \in 1 .. Len(sv') : k \in 1 .. Len(sv) \/ k = i
    BY <1>2, <1>6 DEF i
  <2>3. \A k \in 1 .. Len(source) : (source[k] \in Elements(kind, k))'
    BY <1>1 DEF IInv, ElementsRight, Elements
  <2>4. \A k \in 1 .. Len(sv') : sv'[k] = ElementToSV(source[k])
    BY <1>6, <1>10, <2>2 DEF IInv, ElementsRight
  <2>5. \A k \in 1 .. Len(sv') : sv'[k] = ElementToSV(source[k])'
    BY <1>1, <2>4 DEF ElementToSV
  <2>6. Len(sv') <= Stored'
    BY <1>3, <1>6, <2>1
  <2> QED BY <1>1, <1>10, <2>3, <2>5, <2>6 DEF IInv, ElementsRight
<1>13. MemoryRight'
  <2>1. ASSUME NEW k \in 1 .. Len(source)
        PROVE  memory'[k] = (IF k <= Len(sv') THEN Passed(k) ELSE Fresh(k))
    <3>1. memory[k] = IF k <= Len(sv) THEN Passed(k) ELSE Fresh(k)
      BY <1>1 DEF IInv, MemoryRight
    <3> QED BY <1>2, <1>6, <1>9, <3>1 DEF i
  <2>2. \A k \in 1 .. Len(source) : Passed(k)' = Passed(k) /\ Fresh(k)' = Fresh(k)
    BY <1>1 DEF Passed, Fresh, Given
  <2> QED BY <1>1, <2>1, <2>2 DEF MemoryRight, ElementsAccountedFor
<1>14. ReturnRight'
  BY <1>1, <1>10 DEF ReturnRight
<1> QED BY <1>1, <1>11, <1>12, <1>13, <1>14, ArrayStep

\* What the property says of the reference to an element, once the array is there.
Accounted(i) ==
  memory[i] # NoScalar =>
    /\ OverReleased(memory[i]) <=> ~given /\ kind # "nameless" /\ i <= Told
    /\ Leaked(memory[i])       <=> given /\ (kind = "nameless" \/ ~(i <= Told))

LEMMA ArrayConvertedOK ==
  ASSUME IInv, ArrayConverted
  PROVE  IInv'
<1>1. /\ pc = "toPerl" /\ pc' = "perl" /\ Len(sv) = Stored
      /\ memory' = [i \in DOMAIN memory |->
           IF given /\ source[i] # Null /\ kind \in Owned /\ i > Len(sv)
           THEN Disown(memory[i]) ELSE memory[i]]
      /\ UNCHANGED <<lookup, number, kind, given, source, changed, sv, dimension, out, copies>>
  BY DEF ArrayConverted
<1>2. /\ ArraysTyped /\ Len(source) \in Nat /\ Len(sv) \in Nat
      /\ DOMAIN memory = 1 .. Len(source) /\ Told \in Nat
      /\ Stored = (IF kind = "nameless" THEN 0 ELSE Told)
  BY ArraysAreTyped
<1>3. ASSUME NEW i \in 1 .. Len(source)
      PROVE  memory'[i] \in Scalar /\ Accounted(i)'
  <2>1. /\ memory[i] = IF i <= Stored THEN Passed(i) ELSE Fresh(i)
        /\ i \in Nat /\ i > 0
    BY <1>1 DEF IInv, MemoryRight
  <2>2. memory'[i] =
          IF given /\ source[i] # Null /\ kind \in Owned /\ i > Stored
          THEN Disown(memory[i]) ELSE memory[i]
    BY <1>1, <1>2
  <2>3. Told' = Told /\ given' = given /\ kind' = kind /\ given \in BOOLEAN
    BY <1>1, <1>2 DEF Told, ArraysTyped
  <2>4. /\ TheirOwn = [refs |-> 1, owners |-> 1]
        /\ Disown([refs |-> 1, owners |-> 1]) = [refs |-> 1, owners |-> 0]
    BY DEF TheirOwn, Own, NewScalar, Disown
  <2>5. CASE kind \notin Owned \/ source[i] = Null
    <3>1. memory'[i] = NoScalar
      BY <2>1, <2>2, <2>5 DEF Passed, Fresh
    <3> QED BY <3>1 DEF Accounted, NoScalar, Scalar
  <2>6. CASE kind = "nameless" /\ source[i] # Null
    <3>1. i > Stored /\ ~(i <= Stored)
      BY <1>2, <2>1, <2>6
    <3>2. memory'[i] = IF given THEN [refs |-> 1, owners |-> 0] ELSE [refs |-> 1, owners |-> 1]
      BY <2>1, <2>2, <2>4, <2>6, <3>1 DEF Fresh, Owned
    <3> QED BY <2>3, <2>6, <3>2 DEF Accounted, OverReleased, Leaked, Scalar
  <2>7. CASE kind \in Owned \ {"nameless"} /\ source[i] # Null /\ ~(i <= Told)
    <3>1. i > Stored /\ ~(i <= Stored)
      BY <1>2, <2>1, <2>7
    <3>2. memory'[i] = IF given THEN [refs |-> 1, owners |-> 0] ELSE [refs |-> 1, owners |-> 1]
      BY <2>1, <2>2, <2>4, <2>7, <3>1 DEF Fresh, Owned
    <3> QED BY <2>3, <2>7, <3>2 DEF Accounted, OverReleased, Leaked, Scalar
  <2>8. CASE kind \in Strings /\ source[i] # Null /\ i <= Told
    <3>1. i <= Stored /\ ~(i > Stored) /\ kind # "nameless" /\ kind \in Owned
      BY <1>2, <2>1, <2>8 DEF Strings, Owned
    <3>2. memory'[i] = IF given THEN [refs |-> 0, owners |-> 0] ELSE [refs |-> 0, owners |-> 1]
      BY <2>1, <2>2, <2>8, <3>1 DEF Passed, Strings, Given, Disown
    <3> QED BY <2>3, <2>8, <3>1, <3>2 DEF Accounted, OverReleased, Leaked, Scalar
  <2>9. CASE kind = "object" /\ source[i] # Null /\ i <= Told
    <3>1. i <= Stored /\ ~(i > Stored)
      BY <1>2, <2>1, <2>9
    <3>2. memory'[i] = IF given THEN [refs |-> 1, owners |-> 1] ELSE [refs |-> 1, owners |-> 2]
      BY <2>1, <2>2, <2>9, <3>1 DEF Passed, Owned, Strings, Given, Disown
    <3> QED BY <2>3, <2>9, <3>2 DEF Accounted, OverReleased, Leaked, Scalar
  <2> QED BY <2>5, <2>6, <2>7, <2>8, <2>9 DEF Owned
<1>4. memory' \in Seq(Scalar) /\ Len(memory') = Len(source)
  <2>1. memory' \in [1 .. Len(source) -> Scalar]
    BY <1>1, <1>2, <1>3
  <2> QED BY <1>2, <2>1, SeqDef
<1>5. ArraysTyped'
  BY <1>1, <1>2, <1>4 DEF ArraysTyped
<1>6. ElementsRight'
  BY <1>1 DEF IInv, ElementsRight, Stored, ElementToSV, Elements
<1>7. MemoryRight'
  <2>1. DOMAIN memory' = 1 .. Len(source)
    BY <1>1, <1>2
  <2> QED BY <1>1, <1>3, <2>1 DEF MemoryRight, ElementsAccountedFor, Accounted, Told
<1>8. ReturnRight'
  BY <1>1 DEF IInv, ReturnRight
<1> QED BY <1>1, <1>5, <1>6, <1>7, <1>8, ArrayStep


\* While Perl code has the array and on its way back, the references to the native
\* elements stay as they are.
LEMMA AccountedKept ==
  ASSUME IInv, UNCHANGED <<kind, given, source, memory>>, pc \in {"perl", "toNative"},
         pc' \in {"perl", "toNative", "read"}
  PROVE  \A i \in DOMAIN memory' : Accounted(i)'
<1>1. \A i \in DOMAIN memory : Accounted(i)
  BY DEF IInv, MemoryRight, ElementsAccountedFor, Accounted, Told
<1> QED BY <1>1 DEF Accounted, Told

LEMMA PerlCodeOK ==
  ASSUME IInv, PerlCode
  PROVE  IInv'
<1>1. /\ pc = "perl" /\ pc' = "perl" /\ sv # <<>> /\ changed' = TRUE
      /\ UNCHANGED <<lookup, number, kind, given, source, memory, dimension, out, copies>>
      /\ sv' = Front(sv) \/ \E i \in DOMAIN sv : sv' = [sv EXCEPT ![i] = Undef]
  BY DEF PerlCode
<1>2. /\ ArraysTyped /\ Len(source) \in Nat /\ Len(sv) \in Nat
      /\ DOMAIN sv = 1 .. Len(sv) /\ Stored \in Nat
  BY ArraysAreTyped
<1>3. out = <<>> /\ copies = <<>>
  BY <1>1 DEF IInv, ReturnRight
<1>4. /\ sv' \in Seq(Nat \cup {Undef, Blank}) /\ Len(sv') \in Nat /\ Len(sv') <= Len(sv)
      /\ \A k \in 1 .. Len(sv') : sv'[k] \in {sv[k], Undef}
  <2>1. CASE sv' = Front(sv)
    <3>1. /\ Front(sv) \in Seq(Nat \cup {Undef, Blank}) /\ Len(Front(sv)) = Len(sv) - 1
          /\ \A k \in 1 .. (Len(sv) - 1) : Front(sv)[k] = sv[k]
      BY <1>1, <1>2, FrontLemma DEF ArraysTyped
    <3>2. Len(sv) - 1 \in Nat
      BY <1>1, <1>2, EmptySeq DEF ArraysTyped
    <3> HIDE DEF Front
    <3> QED BY <1>2, <2>1, <3>1, <3>2
  <2>2. ASSUME NEW i \in DOMAIN sv, sv' = [sv EXCEPT ![i] = Undef]
        PROVE  /\ sv' \in Seq(Nat \cup {Undef, Blank}) /\ Len(sv') = Len(sv)
               /\ \A k \in 1 .. Len(sv') : sv'[k] \in {sv[k], Undef}
    <3>1. i \in 1 .. Len(sv) /\ Undef \in Nat \cup {Undef, Blank}
      BY <1>2
    <3>2. /\ sv' \in Seq(Nat \cup {Undef, Blank}) /\ Len(sv') = Len(sv)
          /\ \A k \in 1 .. Len(sv) : sv'[k] = IF k = i THEN Undef ELSE sv[k]
      BY <1>2, <2>2, <3>1, ExceptSeq DEF ArraysTyped
    <3> QED BY <3>2
  <2> QED BY <1>1, <1>2, <2>1, <2>2
<1>5. ArraysTyped'
  <2>1. Len(sv') <= Len(source) /\ Len(out') <= Len(sv')
    BY <1>1, <1>2, <1>3, <1>4 DEF ArraysTyped
  <2> QED BY <1>1, <1>2, <1>4, <2>1 DEF ArraysTyped
<1>6. ElementsRight'
  <2>1. Stored' = Stored /\ Len(sv') <= Stored
    BY <1>1, <1>2, <1>4 DEF IInv, ElementsRight, Stored
  <2>2. \A k \in 1 .. Len(source) : (source[k] \in Elements(kind, k))'
    BY <1>1 DEF IInv, ElementsRight, Elements
  <2> QED BY <1>1, <2>1, <2>2 DEF IInv, ElementsRight
<1>7. MemoryRight'
  BY <1>1, AccountedKept DEF MemoryRight, ElementsAccountedFor, Accounted, Told
<1>8. ReturnRight'
  BY <1>1, <1>3 DEF ReturnRight
<1> QED BY <1>1, <1>5, <1>6, <1>7, <1>8, ArrayStep

LEMMA PassOnOK ==
  ASSUME IInv, PassOn
  PROVE  IInv'
<1>1. /\ pc = "perl" /\ pc' = "toNative" /\ dimension' \in 0 .. MaxLength
      /\ changed' = (changed \/ dimension' # Len(source))
      /\ UNCHANGED <<lookup, number, kind, given, source, memory, sv, out, copies>>
  BY DEF PassOn
<1>2. ArraysTyped
  BY ArraysAreTyped
<1>3. out = <<>> /\ copies = <<>>
  BY <1>1 DEF IInv, ReturnRight
<1>4. changed' \in BOOLEAN /\ (~changed' => ~changed /\ dimension' = Len(source))
  BY <1>1
<1>5. ArraysTyped'
  BY <1>1, <1>2, <1>4 DEF ArraysTyped
<1>6. ElementsRight'
  BY <1>1, <1>4 DEF IInv, ElementsRight, Stored, ElementToSV, Elements
<1>7. MemoryRight'
  BY <1>1, AccountedKept DEF MemoryRight, ElementsAccountedFor, Accounted, Told
<1>8. ReturnRight'
  <2>1. dimension' \in Nat
    BY <1>1, ConversionsAssumption
  <2>2. dimension' % Dimensions \in Nat
    BY <2>1, TellLemma
  <2> QED BY <1>1, <1>3, <2>2 DEF ReturnRight
<1> QED BY <1>1, <1>5, <1>6, <1>7, <1>8, ArrayStep

\* What is written to a slot, and whether the slot has a reference to give up.
LEMMA SVToElementType ==
  ASSUME kind \in Kinds \ {"other", "nameless"}, NEW v \in Nat \cup {Undef, Blank}
  PROVE  SVToElement(v) \in Int /\ Copy(v) \in {TheirOwn, NoScalar}
<1>1. Copy(v) \in {TheirOwn, NoScalar}
  BY DEF Copy
<1>2. v \in Int
  BY DEF Undef, Blank
<1>3. CASE kind \in {"plain", "wide", "wstring"}
  <2>1. SVToElement(v) = Read(v)
    BY <1>3 DEF SVToElement
  <2> QED BY <1>1, <1>2, <2>1 DEF Read, Blank, Trimmed
<1>4. CASE kind = "id"
  BY <1>1, <1>4 DEF SVToElement, Unset, Raw
<1>5. CASE kind = "object"
  BY <1>1, <1>2, <1>5 DEF SVToElement, Fetched, Unset
<1>6. CASE kind = "dom"
  BY <1>1, <1>6 DEF SVToElement, Unset
<1>7. CASE kind = "cstring"
  BY <1>1, <1>7 DEF SVToElement, Unended
<1> QED BY <1>1, <1>3, <1>4, <1>5, <1>6, <1>7 DEF Kinds

LEMMA convertSVToArrayOK ==
  ASSUME IInv, convertSVToArray
  PROVE  IInv'
<1> DEFINE i == Len(out) + 1
<1>1. /\ pc = "toNative" /\ pc' = "toNative" /\ kind # "other"
      /\ Len(out) < dimension % Dimensions /\ Len(out) < Len(sv)
      /\ out' = Append(out, SVToElement(sv[i]))
      /\ copies' = Append(copies, Copy(sv[i]))
      /\ UNCHANGED <<lookup, number, kind, given, source, memory, changed, sv, dimension>>
  BY DEF convertSVToArray
<1>2. /\ ArraysTyped /\ Len(sv) \in Nat /\ Len(out) \in Nat /\ dimension \in Nat
      /\ kind # "nameless"
  BY <1>1, ArraysAreTyped DEF IInv, ElementsRight
<1>3. i \in 1 .. Len(sv) /\ dimension % Dimensions \in Nat
  BY <1>1, <1>2, TellLemma
<1>4. sv[i] \in Nat \cup {Undef, Blank}
  BY <1>2, <1>3, ElementOfSeq DEF ArraysTyped
<1>5. SVToElement(sv[i]) \in Int /\ Copy(sv[i]) \in {TheirOwn, NoScalar}
  BY <1>1, <1>2, <1>4, SVToElementType DEF ArraysTyped
<1>6. Copy(sv[i]) \in Scalar
  BY <1>5 DEF TheirOwn, NewScalar, Own, NoScalar, Scalar
<1>7. /\ out' \in Seq(Int) /\ Len(out') = i /\ out'[i] = SVToElement(sv[i])
      /\ \A k \in 1 .. Len(out) : out'[k] = out[k]
  BY <1>1, <1>2, <1>5, AppendProperties DEF ArraysTyped
<1>8. /\ copies' \in Seq(Scalar) /\ Len(copies') = i /\ copies'[i] = Copy(sv[i])
      /\ \A k \in 1 .. Len(out) : copies'[k] = copies[k]
  BY <1>1, <1>2, <1>6, AppendProperties DEF ArraysTyped
<1>9. \A k \in 1 .. i : k \in 1 .. Len(out) \/ k = i
  BY <1>2
<1>10. i <= Len(sv) /\ i <= dimension % Dimensions
  BY <1>1, <1>2, <1>3
<1> HIDE DEF i
<1>11. ArraysTyped'
  BY <1>1, <1>2, <1>7, <1>8, <1>10 DEF ArraysTyped
<1>12. ElementsRight'
  BY <1>1 DEF IInv, ElementsRight, Stored, ElementToSV, Elements
<1>13. MemoryRight'
  BY <1>1, AccountedKept DEF MemoryRight, ElementsAccountedFor, Accounted, Told
<1>14. ReturnRight'
  <2>1. \A k \in 1 .. Len(out') : out'[k] = SVToElement(sv[k])
    BY <1>7, <1>9 DEF IInv, ReturnRight
  <2>2. \A k \in 1 .. Len(out') : copies'[k] = Copy(sv[k])
    BY <1>1, <1>7, <1>8, <1>9 DEF IInv, ReturnRight
  <2>3. \A k \in 1 .. Len(out') : out'[k] = SVToElement(sv[k])'
    BY <1>1, <2>1 DEF SVToElement, Fetched, Read
  <2>4. \A k \in 1 .. Len(out') : copies'[k] = Copy(sv[k])'
    BY <1>1, <2>2 DEF Copy
  <2> QED BY <1>1, <1>7, <1>10, <2>3, <2>4 DEF ReturnRight
<1> QED BY <1>1, <1>11, <1>12, <1>13, <1>14, ArrayStep

LEMMA ArrayReturnedOK ==
  ASSUME IInv, ArrayReturned
  PROVE  IInv'
<1>1. /\ pc = "toNative" /\ pc' = "read" /\ Len(out) = dimension % Dimensions
      /\ copies' = [i \in DOMAIN copies |->
           IF given /\ copies[i] # NoScalar THEN Disown(copies[i]) ELSE copies[i]]
      /\ UNCHANGED <<lookup, number, kind, given, source, memory, changed, sv, dimension, out>>
  BY DEF ArrayReturned
<1>2. /\ ArraysTyped /\ Len(sv) \in Nat /\ Len(out) \in Nat
      /\ DOMAIN copies = 1 .. Len(out) /\ DOMAIN sv = 1 .. Len(sv)
  BY ArraysAreTyped
<1>3. ASSUME NEW i \in 1 .. Len(out)
      PROVE  /\ copies'[i] \in Scalar
             /\ copies'[i] # NoScalar => (Leaked(copies'[i]) <=> given)
  <2>1. copies[i] = Copy(sv[i])
    BY <1>1 DEF IInv, ReturnRight
  <2>2. copies[i] \in {TheirOwn, NoScalar}
    BY <2>1 DEF Copy
  <2>3. copies'[i] = IF given /\ copies[i] # NoScalar THEN Disown(copies[i]) ELSE copies[i]
    BY <1>1, <1>2
  <2>4. given \in BOOLEAN
    BY <1>2 DEF ArraysTyped
  <2>5. TheirOwn = [refs |-> 1, owners |-> 1] /\ NoScalar = [refs |-> 0, owners |-> 0]
    BY DEF TheirOwn, NewScalar, Own, NoScalar
  <2>6. Disown([refs |-> 1, owners |-> 1]) = [refs |-> 1, owners |-> 0]
    BY DEF Disown
  <2>7. CASE copies[i] = NoScalar
    BY <2>3, <2>5, <2>7 DEF Scalar
  <2>8. CASE copies[i] = TheirOwn /\ given
    <3>1. copies'[i] = [refs |-> 1, owners |-> 0]
      BY <2>3, <2>5, <2>6, <2>8
    <3> QED BY <2>8, <3>1 DEF Leaked, Scalar
  <2>9. CASE copies[i] = TheirOwn /\ ~given
    <3>1. copies'[i] = [refs |-> 1, owners |-> 1]
      BY <2>3, <2>5, <2>9
    <3> QED BY <2>9, <3>1 DEF Leaked, Scalar
  <2> QED BY <2>2, <2>4, <2>7, <2>8, <2>9
<1>4. copies' \in Seq(Scalar) /\ Len(copies') = Len(out)
  <2>1. copies' \in [1 .. Len(out) -> Scalar]
    BY <1>1, <1>2, <1>3
  <2> QED BY <1>2, <2>1, SeqDef
<1>5. ArraysTyped'
  BY <1>1, <1>2, <1>4 DEF ArraysTyped
<1>6. ElementsRight'
  BY <1>1 DEF IInv, ElementsRight, Stored, ElementToSV, Elements
<1>7. MemoryRight'
  <2>1. DOMAIN copies' = 1 .. Len(out)
    BY <1>1, <1>2
  <2>2. \A i \in DOMAIN memory' : Accounted(i)'
    BY <1>1, AccountedKept
  <2> QED BY <1>1, <1>3, <2>1, <2>2 DEF MemoryRight, ElementsAccountedFor, Accounted, Told
<1>8. ReturnRight'
  <2>1. \A k \in 1 .. Len(out') : out'[k] = SVToElement(sv[k])'
    BY <1>1 DEF IInv, ReturnRight, SVToElement, Fetched
  <2> QED BY <1>1, <1>2, <2>1 DEF IInv, ReturnRight
<1> QED BY <1>1, <1>5, <1>6, <1>7, <1>8, ArrayStep

-----------------------------------------------------------------------------
(* Theorems.                                                               *)

LEMMA InitOK == Init => IInv
<1> SUFFICES ASSUME Init PROVE IInv
  OBVIOUS
<1>1. /\ \A S : <<>> \in Seq(S)
      /\ Len(<<>>) = 0
  BY EmptySeq
<1>2. TypeOK
  <2>1. /\ answer \in [of : TypeOfLookup, at : Nat]
        /\ answer.of # "method" /\ answer.of # "constant"
    BY DEF Init, Nothing, TypeOfLookup
  <2>2. dimension \in 0 .. MaxLength
    BY ConversionsAssumption DEF Init
  <2>3. /\ pc = "idle" /\ iface = NoInterface /\ asked = NotAsked /\ number = NoNumber
        /\ kind \in Kinds /\ given \in BOOLEAN /\ changed \in BOOLEAN
    BY DEF Init, Kinds
  <2>4. /\ source = <<>> /\ memory = <<>> /\ sv = <<>> /\ out = <<>> /\ copies = <<>>
    BY DEF Init
  <2>5. /\ source \in Seq(Nat) /\ memory \in Seq(Scalar) /\ sv \in Seq(Nat \cup {Undef, Blank})
        /\ out \in Seq(Int) /\ copies \in Seq(Scalar)
    BY <1>1, <2>4
  <2>6. /\ Len(memory) = Len(source) /\ Len(sv) <= Len(source)
        /\ Len(out) <= Len(sv) /\ Len(copies) = Len(out)
    BY <1>1, <2>4
  <2> QED BY <2>1, <2>2, <2>3, <2>5, <2>6 DEF TypeOK
<1>3. Stored \in Nat
  BY <1>1, TellLemma DEF Init, Stored
<1>4. LookupRight
  BY DEF Init, LookupRight, NamesFindMembers
<1>5. ElementsRight
  BY <1>1, <1>3, ConversionsAssumption DEF Init, ElementsRight
<1>6. MemoryRight
  BY DEF Init, MemoryRight, ElementsAccountedFor
<1>7. ReturnRight
  BY <1>1 DEF Init, ReturnRight
<1>8. NumbersComeBack
  BY DEF Init, NumbersComeBack
<1> QED BY <1>2, <1>4, <1>5, <1>6, <1>7, <1>8 DEF IInv

LEMMA NextOK == IInv /\ [Next]_vars => IInv'
<1> SUFFICES ASSUME IInv, [Next]_vars PROVE IInv'
  OBVIOUS
<1>1. CASE GetInterfaceInfo \/ GetMethodInfo \/ lookupConstant
  BY <1>1, GetInterfaceInfoOK, GetMethodInfoOK, lookupConstantOK
<1>2. CASE NumberThroughPerl
  BY <1>2, NumberThroughPerlOK
<1>3. CASE NativeArray \/ convertArrayToSV \/ ArrayConverted
  BY <1>3, NativeArrayOK, convertArrayToSVOK, ArrayConvertedOK
<1>4. CASE PerlCode \/ PassOn
  BY <1>4, PerlCodeOK, PassOnOK
<1>5. CASE convertSVToArray \/ ArrayReturned
  BY <1>5, convertSVToArrayOK, ArrayReturnedOK
<1>6. CASE convertArrayToSVFails \/ convertSVToArrayFails \/ TooShort
  BY <1>6, ArrayFailsOK
<1>7. CASE UNCHANGED vars
  <2>1. /\ UNCHANGED <<pc, iface, asked, answer, number>>
        /\ UNCHANGED <<kind, given, source, memory, changed, sv, dimension, out, copies>>
    BY <1>7 DEF vars, lookup, arrays
  <2>2. TypeOK'
    BY <2>1 DEF IInv, TypeOK
  <2>3. LookupRight'
    BY <2>1 DEF IInv, LookupRight, NamesFindMembers, Candidates, Answers
  <2>4. NumbersComeBack'
    BY <2>1 DEF IInv, NumbersComeBack
  <2>5. ElementsRight'
    BY <2>1 DEF IInv, ElementsRight, Stored, ElementToSV, Elements
  <2>6. MemoryRight'
    <3>1. ElementsAccountedFor'
      BY <2>1 DEF IInv, MemoryRight, ElementsAccountedFor
    <3>2. pc = "toPerl" => \A i \in 1 .. Len(source) :
            memory'[i] = IF i <= Len(sv) THEN Passed(i)' ELSE Fresh(i)'
      BY <2>1 DEF IInv, MemoryRight, Passed, Fresh, Given
    <3> QED BY <2>1, <3>1, <3>2 DEF MemoryRight
  <2>7. ReturnRight'
    BY <2>1 DEF IInv, ReturnRight, SVToElement, Fetched, Copy
  <2> QED BY <2>2, <2>3, <2>4, <2>5, <2>6, <2>7 DEF IInv
<1> QED BY <1>1, <1>2, <1>3, <1>4, <1>5, <1>6, <1>7 DEF Next

LEMMA Invariance == Spec => []IInv
<1> QED BY InitOK, NextOK, PTL DEF Spec

\* Every variable keeps its type, and the loops over arrays stay within them.
THEOREM TypeCorrect == Spec => []TypeOK
<1>1. IInv => TypeOK
  BY DEF IInv
<1> QED BY <1>1, Invariance, PTL

\* GetMethodInfo and lookupConstant find the member that is named, whatever the
\* interface declares and however its names begin with each other.
THEOREM MembersAreFound == Spec => []NamesFindMembers
<1>1. IInv => NamesFindMembers
  BY DEF IInv, LookupRight
<1> QED BY <1>1, Invariance, PTL

\* For every width of Perl's integers and of XPCOM's, exactly the numbers that the
\* property names come back.
THEOREM NumbersReturn == Spec => []NumbersComeBack
<1>1. IInv => NumbersComeBack
  BY DEF IInv
<1> QED BY <1>1, Invariance, PTL

\* The reference to each element of an array is given up as the property says, for
\* arrays of any length.
THEOREM ElementsGivenUp == Spec => []ElementsAccountedFor
<1>1. IInv => ElementsAccountedFor
  BY DEF IInv, MemoryRight
<1> QED BY <1>1, Invariance, PTL

\* What native code finds where the array it reads should be.
LEMMA ElementRead ==
  ASSUME IInv, NEW i \in 1 .. Len(out)
  PROVE  /\ sv[i] \in Nat \cup {Undef, Blank} /\ kind \in Kinds \ {"other", "nameless"}
         /\ out[i] \in {Unset, Raw, Unended} <=>
              kind \in {"cstring", "id", "dom"} \/ (kind = "object" /\ sv[i] = Undef)
<1>1. /\ sv \in Seq(Nat \cup {Undef, Blank}) /\ Len(out) \in Nat /\ Len(sv) \in Nat
      /\ Len(out) <= Len(sv)
  BY LenProperties DEF IInv, TypeOK
<1>2. i \in 1 .. Len(sv)
  BY <1>1
<1>3. sv[i] \in Nat \cup {Undef, Blank}
  BY <1>1, <1>2, ElementOfSeq
<1>4. kind \in Kinds \ {"other", "nameless"}
  <2>1. kind = "other" => Len(out) = 0
    BY EmptySeq DEF IInv, ReturnRight
  <2>2. kind = "nameless" => Len(sv) <= 0
    BY ArraysAreTyped DEF IInv, ElementsRight
  <2> QED BY <1>1, <1>2, <2>1, <2>2 DEF IInv, TypeOK
<1>5. out[i] = SVToElement(sv[i])
  BY DEF IInv, ReturnRight
<1>6. CASE kind \in {"plain", "wide", "wstring"}
  <2>1. out[i] = Read(sv[i])
    BY <1>5, <1>6 DEF SVToElement
  <2>2. out[i] \notin {Unset, Raw, Unended}
    BY <1>3, <2>1 DEF Read, Blank, Undef, Unset, Raw, Trimmed, Unended
  <2> QED BY <1>3, <1>4, <1>6, <2>2
<1>7. CASE kind = "cstring"
  BY <1>3, <1>4, <1>5, <1>7 DEF SVToElement
<1>8. CASE kind = "id"
  BY <1>3, <1>4, <1>5, <1>8 DEF SVToElement, Unset, Raw
<1>9. CASE kind = "object"
  <2>1. out[i] = IF sv[i] = Undef THEN Unset ELSE sv[i]
    BY <1>5, <1>9 DEF SVToElement, Fetched
  <2>2. out[i] \in {Unset, Raw, Unended} <=> sv[i] = Undef
    BY <1>3, <2>1 DEF Undef, Blank, Unset, Raw, Unended
  <2> QED BY <1>3, <1>4, <1>9, <2>2
<1>10. CASE kind = "dom"
  BY <1>3, <1>4, <1>5, <1>10 DEF SVToElement, Unset
<1> QED BY <1>3, <1>4, <1>6, <1>7, <1>8, <1>9, <1>10 DEF Kinds

\* For arrays of any length and every element type, native code can read what Perl
\* passed exactly in the cases the property names.
THEOREM ReadsDecided == Spec => []ReadsAreSafe
<1>1. ASSUME IInv PROVE ReadsAreSafe
  <2>1. /\ Len(out) \in Nat /\ Len(sv) \in Nat /\ Len(out) <= Len(sv) /\ dimension \in Nat
        /\ Dimensions \in Nat
    BY <1>1, LenProperties, ConversionsAssumption DEF IInv, TypeOK
  <2>2. /\ dimension % Dimensions \in Nat /\ dimension % Dimensions <= dimension
        /\ dimension % Dimensions = dimension <=> dimension < Dimensions
    BY <2>1, TellLemma
  <2>3. CASE pc = "lost"
    <3>1. ~(dimension <= Len(sv))
      BY <1>1, <2>1, <2>2, <2>3 DEF IInv, ReturnRight
    <3> QED BY <2>3, <3>1 DEF ReadsAreSafe
  <2>4. CASE pc = "read"
    <3>1. Len(out) = dimension % Dimensions
      BY <1>1, <2>4 DEF IInv, ReturnRight
    <3>2. dimension <= Len(out) <=> dimension < Dimensions
      BY <2>1, <2>2, <3>1
    <3>3. CASE ~(dimension < Dimensions)
      BY <2>4, <3>2, <3>3 DEF ReadsAreSafe
    <3>4. CASE dimension < Dimensions
      <4>1. dimension = Len(out) /\ dimension <= Len(sv)
        BY <2>1, <2>2, <3>1, <3>4
      <4>2. \A i \in 1 .. dimension :
              /\ kind \in Kinds \ {"other", "nameless"}
              /\ out[i] \in {Unset, Raw, Unended} <=>
                   kind \in {"cstring", "id", "dom"} \/ (kind = "object" /\ sv[i] = Undef)
        BY <1>1, <4>1, ElementRead
      <4>3. (\A i \in 1 .. dimension : out[i] \notin {Unset, Raw, Unended}) <=>
              \/ dimension = 0 \/ kind \in {"plain", "wide", "wstring"}
              \/ kind = "object" /\ \A i \in 1 .. dimension : sv[i] # Undef
        <5>1. CASE dimension = 0
          BY <5>1
        <5>2. CASE dimension # 0
          <6>1. 1 \in 1 .. dimension
            BY <2>1, <5>2
          <6>2. CASE kind \in {"plain", "wide", "wstring"}
            BY <4>2, <6>2
          <6>3. CASE kind = "object"
            BY <4>2, <5>2, <6>3
          <6>4. CASE kind \in {"cstring", "id", "dom"}
            BY <4>2, <5>2, <6>1, <6>4
          <6> QED BY <4>2, <6>1, <6>2, <6>3, <6>4 DEF Kinds
        <5> QED BY <5>1, <5>2
      <4> QED BY <2>4, <3>2, <3>4, <4>1, <4>3 DEF ReadsAreSafe
    <3> QED BY <3>3, <3>4
  <2> QED BY <2>3, <2>4 DEF ReadsAreSafe
<1> QED BY <1>1, Invariance, PTL

\* The elements that come back as they were.
Returns(i) ==
  \/ kind \in {"plain", "object"}
  \/ kind = "wide" /\ source[i] # Large(i)
  \/ kind = "wstring" /\ source[i] # Null

\* What an element has become that Perl code passed on as it was.
LEMMA ElementBack ==
  ASSUME IInv, pc = "read", ~changed, NEW i \in 1 .. Len(out)
  PROVE  kind \in Kinds \ {"other", "nameless"} /\ (out[i] = source[i] <=> Returns(i))
<1>1. /\ source \in Seq(Nat) /\ Len(source) \in Nat /\ Len(sv) \in Nat /\ Len(out) \in Nat
      /\ Len(out) <= Len(sv) /\ Len(sv) <= Len(source) /\ Len(source) <= MaxLength
  BY LenProperties DEF IInv, TypeOK, ElementsRight
<1>2. i \in 1 .. Len(sv) /\ i \in 1 .. Len(source) /\ i <= MaxLength /\ i \in Nat
      /\ MaxLength \in Nat /\ i # 0
  BY <1>1, ConversionsAssumption
<1>3. source[i] \in Nat
  BY <1>1, <1>2, ElementOfSeq
<1>4. kind \in Kinds \ {"other", "nameless"}
  BY ElementRead
<1>5. /\ sv[i] = ElementToSV(source[i]) /\ out[i] = SVToElement(sv[i])
      /\ source[i] \in Elements(kind, i)
  BY <1>2 DEF IInv, ElementsRight, ReturnRight
<1>6. Read(i) = i
  BY <1>2 DEF Read, Undef
<1>7. CASE kind = "plain"
  <2>1. source[i] = i /\ out[i] = Read(source[i])
    BY <1>5, <1>7 DEF Elements, Owned, Strings, ElementToSV, SVToElement
  <2> QED BY <1>4, <1>6, <1>7, <2>1 DEF Returns
<1>8. CASE kind = "wide"
  <2>1. source[i] \in {i, Large(i)} /\ out[i] = Read(source[i])
    BY <1>5, <1>8 DEF Elements, Owned, Strings, ElementToSV, SVToElement
  <2>2. Read(Large(i)) # Large(i) /\ Large(i) # i
    BY <1>2 DEF Read, Large, Undef, Trimmed
  <2> QED BY <1>4, <1>6, <1>8, <2>1, <2>2 DEF Returns
<1>9. CASE kind = "wstring"
  <2>1. source[i] \in {i, Null}
    BY <1>5, <1>9 DEF Elements
  <2>2. source[i] = Null => out[i] = Read(Blank)
    BY <1>5, <1>9 DEF ElementToSV, SVToElement
  <2>3. source[i] # Null => out[i] = Read(source[i])
    BY <1>5, <1>9 DEF ElementToSV, SVToElement
  <2>4. Read(Blank) # Null
    BY <1>2 DEF Read, Blank, Undef, Null, Trimmed
  <2> QED BY <1>4, <1>6, <1>9, <2>1, <2>2, <2>3, <2>4 DEF Returns
<1>10. CASE kind = "object"
  <2>1. sv[i] = source[i]
    BY <1>5, <1>10 DEF ElementToSV
  <2>2. out[i] = IF sv[i] = Undef THEN Unset ELSE sv[i]
    BY <1>5, <1>10 DEF SVToElement, Fetched
  <2>3. out[i] = source[i]
    BY <1>3, <2>1, <2>2 DEF Undef
  <2> QED BY <1>4, <1>10, <2>3 DEF Returns
<1>11. CASE kind \in {"cstring", "id", "dom"}
  <2>1. out[i] \in {Unended, Unset, Raw}
    BY <1>5, <1>11 DEF SVToElement
  <2>2. out[i] # source[i]
    BY <1>3, <2>1 DEF Unended, Unset, Raw
  <2> QED BY <1>4, <1>11, <2>2 DEF Returns
<1> QED BY <1>4, <1>7, <1>8, <1>9, <1>10, <1>11 DEF Kinds

\* For arrays of any length and every element type, exactly those that the property
\* names come back as they were.
THEOREM ArraysReturn == Spec => []ArraysComeBack
<1>1. ASSUME IInv PROVE ArraysComeBack
  <2> SUFFICES ASSUME pc = "read", ~changed
               PROVE  out = source <=>
                        /\ Len(source) < Dimensions
                        /\ \/ source = <<>> \/ kind \in {"plain", "object"}
                           \/ kind = "wide" /\ \A i \in DOMAIN source : source[i] # Large(i)
                           \/ kind = "wstring" /\ Null \notin Range(source)
    BY DEF ArraysComeBack
  <2>1. /\ source \in Seq(Nat) /\ out \in Seq(Int) /\ Len(source) \in Nat /\ Len(out) \in Nat
        /\ DOMAIN source = 1 .. Len(source)
    BY <1>1, LenProperties DEF IInv, TypeOK
  <2>2. Len(out) = Len(source) % Dimensions
    BY <1>1 DEF IInv, ElementsRight, ReturnRight
  <2>3. Len(out) = Len(source) <=> Len(source) < Dimensions
    BY <2>1, <2>2, TellLemma
  <2>4. CASE ~(Len(source) < Dimensions)
    BY <2>3, <2>4
  <2>5. CASE Len(source) < Dimensions
    <3>1. Len(out) = Len(source)
      BY <2>3, <2>5
    <3>2. out = source <=> \A i \in 1 .. Len(source) : out[i] = source[i]
      <4>1. source \in Seq(Int)
        BY <2>1, SeqMonotonic
      <4> QED BY <2>1, <3>1, <4>1, SeqEqual
    <3>3. \A i \in 1 .. Len(source) : out[i] = source[i] <=> Returns(i)
      BY <1>1, <3>1, ElementBack
    <3>4. source = <<>> <=> Len(source) = 0
      BY <2>1, EmptySeq
    <3>5. Null \notin Range(source) <=> \A i \in 1 .. Len(source) : source[i] # Null
      BY <2>1 DEF Range
    <3>6. CASE Len(source) = 0
      BY <2>5, <3>2, <3>4, <3>6
    <3>7. CASE Len(source) # 0
      <4>1. 1 \in 1 .. Len(source)
        BY <2>1, <3>7
      <4>2. (\A i \in 1 .. Len(source) : Returns(i)) <=>
              \/ kind \in {"plain", "object"}
              \/ kind = "wide" /\ \A i \in DOMAIN source : source[i] # Large(i)
              \/ kind = "wstring" /\ Null \notin Range(source)
        BY <2>1, <3>5, <4>1 DEF Returns
      <4> QED BY <2>5, <3>2, <3>3, <3>4, <3>7, <4>2
    <3> QED BY <3>6, <3>7
  <2> QED BY <2>4, <2>5
<1> QED BY <1>1, Invariance, PTL

=============================================================================
