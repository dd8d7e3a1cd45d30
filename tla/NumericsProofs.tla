--------------------------- MODULE NumericsProofs ---------------------------
(***************************************************************************)
(* For all widths and operands: what the integer instructions, the casts   *)
(* and the conversions of floats compute is what they stand for.           *)
(*                                                                         *)
(* An answer is the value of the instruction under way, so each theorem is *)
(* one about the operators of Numerics; those follow from where the bits   *)
(* of a number are in its quotients by powers of two.                      *)
(***************************************************************************)
EXTENDS Numerics, FiniteSetTheorems, WellFoundedInduction, TLAPS

-----------------------------------------------------------------------------
(* Powers of two.                                                          *)

(* A power of two is positive: it is the number of subsets of a set.       *)
LEMMA PowerPositive ==
  ASSUME NEW n \in Nat
  PROVE  2^n \in Nat \ {0}
<1> DEFINE s == 1 .. n
<1>1. IsFiniteSet(s) /\ Cardinality(s) = n
  BY FS_Interval
<1>2. SUBSET s # {}
  OBVIOUS
<1> DEFINE t == SUBSET s
<1> HIDE DEF s
<1>3. IsFiniteSet(t) /\ Cardinality(t) = 2^n
  BY <1>1, FS_SUBSET, Zenon
<1> HIDE DEF t
<1>4. Cardinality(t) \in Nat /\ (Cardinality(t) = 0 <=> t = {})
  BY <1>3, FS_EmptySet, FS_CardinalityType, Zenon
<1> QED
  BY <1>2, <1>3, <1>4 DEF t

(* Induction, for a set of numbers.                                        *)
LEMMA AllNumbers ==
  ASSUME NEW T, 0 \in T, \A n \in Nat : n \in T => n + 1 \in T
  PROVE  Nat \subseteq T
<1> SUFFICES ASSUME Nat \ T # {} PROVE FALSE
  OBVIOUS
<1>1. PICK e \in Nat \ T : \A f \in Nat \ T : ~(<<f, e>> \in OpToRel(<, Nat))
  BY WFMin, NatLessThanWellFounded
<1>2. \A f \in Nat \ T : ~(f < e)
  BY <1>1 DEF OpToRel
<1>3. e # 0 /\ e - 1 \in Nat
  OBVIOUS
<1>4. e - 1 \in T
  BY <1>2, <1>3
<1>5. (e - 1) + 1 \in T
  BY <1>3, <1>4
<1> QED
  BY <1>5

(* A set with one more element has twice as many subsets: those without it *)
(* and those with it.                                                      *)
LEMMA PowerDoubles ==
  ASSUME NEW n \in Nat
  PROVE  2^(n + 1) = 2 * 2^n
<1> DEFINE s == 1 .. n
           e == n + 1
           a == SUBSET s
           f == [x \in a |-> x \cup {e}]
           b == {f[x] : x \in a}
<1>1. IsFiniteSet(s) /\ Cardinality(s) = n
  BY FS_Interval
<1>2. e \notin s /\ 1 .. (n + 1) = s \cup {e}
  OBVIOUS
<1>3. IsFiniteSet(1 .. (n + 1)) /\ Cardinality(1 .. (n + 1)) = n + 1
  BY FS_Interval
<1> HIDE DEF s, e
<1>4. IsFiniteSet(a) /\ Cardinality(a) = 2^n
  BY <1>1, FS_SUBSET, Zenon
<1>5. IsFiniteSet(SUBSET (s \cup {e})) /\ Cardinality(SUBSET (s \cup {e})) = 2^(n + 1)
  BY <1>2, <1>3, FS_SUBSET, Zenon
<1>6. \A x \in a : f[x] = x \cup {e} /\ x \subseteq s
  OBVIOUS
<1>7. f \in Bijection(a, b)
  <2>1. f \in [a -> b]
    OBVIOUS
  <2>2. ASSUME NEW x \in a, NEW y \in a, f[x] = f[y] PROVE x = y
    <3>1. f[x] = x \cup {e} /\ f[y] = y \cup {e} /\ x \subseteq s /\ y \subseteq s
      BY <1>6
    <3>2. x \cup {e} = y \cup {e}
      BY <2>2, <3>1
    <3> QED
      BY <1>2, <3>1, <3>2
  <2>3. \A z \in b : \E x \in a : f[x] = z
    OBVIOUS
  <2> HIDE DEF f, b, a
  <2> QED
    BY <2>1, <2>2, <2>3 DEF Bijection, Injection, Surjection, IsInjective
<1>8. IsFiniteSet(b) /\ Cardinality(b) = Cardinality(a)
  BY <1>4, <1>7, FS_Bijection, Zenon DEF ExistsBijection
<1>9. SUBSET (s \cup {e}) = a \cup b
  <2>1. ASSUME NEW z \in SUBSET (s \cup {e}) PROVE z \in a \cup b
    <3>1. CASE e \in z
      <4>1. z \ {e} \in a /\ z = (z \ {e}) \cup {e}
        BY <3>1
      <4>2. f[z \ {e}] = z
        BY <4>1
      <4> QED
        BY <4>1, <4>2
    <3>2. CASE e \notin z
      BY <3>2
    <3> QED
      BY <3>1, <3>2
  <2>2. ASSUME NEW z \in a \cup b PROVE z \in SUBSET (s \cup {e})
    <3>1. CASE z \in a
      BY <3>1
    <3>2. CASE z \in b
      <4>1. PICK x \in a : z = f[x]
        BY <3>2
      <4>2. z = x \cup {e} /\ x \subseteq s
        BY <1>6, <4>1
      <4> QED
        BY <4>2
    <3> QED
      BY <3>1, <3>2
  <2> HIDE DEF a, b
  <2> QED
    BY <2>1, <2>2
<1>10. a \cap b = {}
  <2>1. \A x \in b : e \in x
    BY <1>6
  <2>2. \A x \in a : e \notin x
    BY <1>2
  <2> HIDE DEF a, b
  <2> QED
    BY <2>1, <2>2
<1> HIDE DEF a, b
<1>11. Cardinality(a \cup b) = Cardinality(a) + Cardinality(b) - Cardinality(a \cap b)
  BY <1>4, <1>8, FS_Union, Zenon
<1>12. Cardinality(a \cap b) = 0
  BY <1>10, FS_EmptySet, Zenon
<1> DEFINE p == 2^n
           q == 2^(n + 1)
<1>13. q = p + p - 0
  BY <1>4, <1>5, <1>8, <1>9, <1>11, <1>12, Zenon
<1>14. p \in Nat
  BY PowerPositive
<1> HIDE DEF p, q
<1>15. q = 2 * p
  BY <1>13, <1>14
<1> QED
  BY <1>15 DEF p, q

LEMMA PowerSum ==
  ASSUME NEW m \in Nat, NEW n \in Nat
  PROVE  2^(m + n) = 2^m * 2^n
<1> DEFINE T == {k \in Nat : 2^(m + k) = 2^m * 2^k}
<1>1. 0 \in T
  <2>1. m + 0 = m /\ 2^0 = 1
    OBVIOUS
  <2> DEFINE p == 2^m
  <2>2. p \in Nat
    BY PowerPositive
  <2> HIDE DEF p
  <2>3. p = p * 1
    BY <2>2
  <2>4. 2^(m + 0) = 2^m * 2^0
    BY <2>1, <2>3, Zenon DEF p
  <2> QED
    BY <2>4
<1>2. ASSUME NEW k \in Nat, k \in T PROVE k + 1 \in T
  <2> DEFINE p == 2^m
             q == 2^k
  <2>1. p \in Nat /\ q \in Nat
    BY PowerPositive
  <2>2. 2^(m + k) = p * q
    BY <1>2
  <2>3. 2^((m + k) + 1) = 2 * 2^(m + k) /\ 2^(k + 1) = 2 * q
    <3>1. m + k \in Nat
      OBVIOUS
    <3> QED
      BY <3>1, PowerDoubles, Zenon
  <2>4. (m + k) + 1 = m + (k + 1)
    OBVIOUS
  <2> HIDE DEF p, q
  <2>5. 2 * (p * q) = p * (2 * q)
    BY <2>1
  <2>6. 2^(m + (k + 1)) = 2^m * 2^(k + 1)
    BY <2>2, <2>3, <2>4, <2>5, Zenon DEF p
  <2> QED
    BY <2>6
<1>3. Nat \subseteq T
  BY <1>1, <1>2, AllNumbers, Zenon
<1> QED
  BY <1>3

LEMMA PowerGrows ==
  ASSUME NEW m \in Nat, NEW n \in Nat, m <= n
  PROVE  2^m <= 2^n
<1> DEFINE p == 2^m
           q == 2^(n - m)
<1>1. p \in Nat \ {0} /\ q \in Nat \ {0}
  BY PowerPositive
<1>2. n - m \in Nat /\ m + (n - m) = n
  OBVIOUS
<1>3. 2^n = p * q
  BY <1>2, PowerSum, Zenon
<1> HIDE DEF p, q
<1>4. p <= p * q
  BY <1>1
<1> QED
  BY <1>3, <1>4, Zenon DEF p

(* Powers of two outgrow the numbers, so a number has a width.             *)
LEMMA PowerAbove ==
  ASSUME NEW n \in Nat
  PROVE  n < 2^n
<1> DEFINE T == {k \in Nat : k < 2^k}
<1>1. 0 \in T
  OBVIOUS
<1>2. ASSUME NEW k \in Nat, k \in T PROVE k + 1 \in T
  <2> DEFINE p == 2^k
             q == 2^(k + 1)
  <2>1. q = 2 * p /\ p \in Nat
    BY PowerDoubles, PowerPositive
  <2>2. k < p
    BY <1>2
  <2> HIDE DEF p, q
  <2>3. k + 1 < q
    BY <2>1, <2>2
  <2> QED
    BY <2>3 DEF q
<1>3. Nat \subseteq T
  BY <1>1, <1>2, AllNumbers, Zenon
<1> QED
  BY <1>3

-----------------------------------------------------------------------------
(* Quotients and remainders.                                               *)

(* A number of the form k * m + r with r below m has the quotient k and    *)
(* the remainder r, and no others.                                         *)
LEMMA QuotientIs ==
  ASSUME NEW a \in Int, NEW m \in Nat \ {0}, NEW k \in Int,
         NEW r \in Int, a = k * m + r, 0 <= r, r < m
  PROVE  a \div m = k /\ a % m = r
<1> DEFINE d == a \div m
           p == a % m
<1>1. d \in Int /\ p \in Int /\ 0 <= p /\ p < m /\ a = m * d + p
  OBVIOUS
<1> HIDE DEF d, p
<1>2. (d - k) * m = r - p
  BY <1>1
<1>3. d = k
  <2>1. CASE d >= k + 1
    <3>1. (d - k) * m >= m
      BY <1>1, <2>1
    <3> QED
      BY <1>1, <1>2, <3>1
  <2>2. CASE d <= k - 1
    <3>1. (k - d) * m >= m
      BY <1>1, <2>2
    <3>2. (d - k) * m = 0 - (k - d) * m
      BY <1>1
    <3> QED
      BY <1>1, <1>2, <3>1, <3>2
  <2> QED
    BY <1>1, <2>1, <2>2
<1>4. p = r
  BY <1>1, <1>3
<1> QED
  BY <1>3, <1>4 DEF p, d

LEMMA QuotientType ==
  ASSUME NEW a \in Int, NEW m \in Nat \ {0}
  PROVE  /\ a \div m \in Int /\ a % m \in Nat /\ a % m < m
         /\ a = (a \div m) * m + (a % m)
OBVIOUS

LEMMA MultipleAdded ==
  ASSUME NEW a \in Int, NEW j \in Int, NEW m \in Nat \ {0}
  PROVE  (a + j * m) \div m = a \div m + j /\ (a + j * m) % m = a % m
<1> DEFINE d == a \div m
           r == a % m
           b == a + j * m
<1>1. d \in Int /\ r \in Int /\ 0 <= r /\ r < m /\ a = d * m + r
  OBVIOUS
<1> HIDE DEF d, r
<1>2. b \in Int /\ d + j \in Int /\ b = (d + j) * m + r
  BY <1>1
<1> HIDE DEF b
<1>3. b \div m = d + j /\ b % m = r
  BY <1>1, <1>2, QuotientIs
<1> QED
  BY <1>3 DEF b, d, r

(* Dividing twice is dividing by the product.                              *)
LEMMA QuotientOfQuotient ==
  ASSUME NEW a \in Int, NEW m \in Nat \ {0}, NEW n \in Nat \ {0}
  PROVE  (a \div m) \div n = a \div (m * n)
<1> DEFINE d == a \div m
           r == a % m
<1>1. d \in Int /\ r \in Int /\ 0 <= r /\ r < m /\ a = d * m + r
  OBVIOUS
<1> HIDE DEF d, r
<1> DEFINE e == d \div n
           s == d % n
<1>2. e \in Int /\ s \in Int /\ 0 <= s /\ s < n /\ d = e * n + s
  BY <1>1
<1> HIDE DEF e, s
<1> DEFINE p == m * n
           t == s * m + r
<1>3. p \in Nat \ {0} /\ t \in Int
  BY <1>1, <1>2
<1>4. 0 <= t
  BY <1>1, <1>2
<1>5. t < p
  <2>1. (n - 1 - s) * m >= 0
    BY <1>2
  <2>2. (n - 1 - s) * m = m * n - m - s * m
    BY <1>2
  <2> QED
    BY <1>1, <1>2, <2>1, <2>2
<1>6. a = e * p + t
  BY <1>1, <1>2
<1> HIDE DEF p, t
<1>7. a \div p = e
  BY <1>2, <1>3, <1>4, <1>5, <1>6, QuotientIs
<1> QED
  BY <1>7 DEF d, e, p

(* A remainder by a multiple of n leaves the one by n.                     *)
LEMMA RemainderOfRemainder ==
  ASSUME NEW a \in Int, NEW m \in Nat \ {0}, NEW n \in Nat \ {0}, m % n = 0
  PROVE  (a % m) % n = a % n
<1> DEFINE d == a \div m
           r == a % m
           j == m \div n
<1>1. d \in Int /\ r \in Int /\ a = r + d * m
  OBVIOUS
<1>2. j \in Int /\ m = j * n
  OBVIOUS
<1> HIDE DEF d, r, j
<1> DEFINE i == d * j
<1>3. i \in Int /\ a = r + i * n
  BY <1>1, <1>2
<1> HIDE DEF i
<1>4. (r + i * n) % n = r % n
  BY <1>1, <1>3, MultipleAdded
<1>5. a % n = r % n
  BY <1>3, <1>4, Zenon
<1> QED
  BY <1>5 DEF r

-----------------------------------------------------------------------------
(* Bits.                                                                   *)

(* The bit of an integer at a place, however wide the integer is.          *)
Bit(x, k) == (x \div 2^k) % 2

LEMMA BitType ==
  ASSUME NEW x \in Int, NEW k \in Nat
  PROVE  Bit(x, k) \in {0, 1} /\ x \div 2^k \in Int
<1> DEFINE m == 2^k
<1>1. m \in Nat \ {0}
  BY PowerPositive
<1> HIDE DEF m
<1>2. x \div m \in Int
  BY <1>1
<1> DEFINE d == x \div m
<1>3. d % 2 \in {0, 1}
  <2> HIDE DEF d
  <2>1. d \in Int
    BY <1>2 DEF d
  <2> QED
    BY <2>1
<1> QED
  BY <1>2, <1>3 DEF Bit, m

(* Multiples of 2^w have no bits below w.                                  *)
LEMMA BitBelow ==
  ASSUME NEW x \in Int, NEW j \in Int, NEW w \in Nat, NEW k \in Nat, k < w
  PROVE  Bit(x + j * 2^w, k) = Bit(x, k)
<1> DEFINE p == 2^k
           q == 2^(w - k - 1)
           d == x \div p
           i == j * q
<1>1. p \in Nat \ {0} /\ q \in Nat \ {0}
  BY PowerPositive
<1>2. 2^w = 2 * (p * q)
  <2>1. w - k - 1 \in Nat /\ k + (w - k - 1) \in Nat /\ (k + (w - k - 1)) + 1 = w
    OBVIOUS
  <2>2. 2^(k + (w - k - 1)) = p * q
    BY <2>1, PowerSum, Zenon
  <2> QED
    BY <2>1, <2>2, PowerDoubles, Zenon
<1> HIDE DEF p, q
<1>3. d \in Int
  BY <1>1
<1>4. i \in Int
  BY <1>1
<1>5. j * (2 * (p * q)) = (i * 2) * p
  BY <1>1
<1> HIDE DEF d, i
<1>6. (x + (i * 2) * p) \div p = d + i * 2
  <2>1. i * 2 \in Int
    BY <1>4
  <2> DEFINE h == i * 2
  <2> HIDE DEF h
  <2>2. (x + h * p) \div p = x \div p + h
    BY <1>1, <2>1, MultipleAdded DEF h
  <2> QED
    BY <2>2, Zenon DEF h, d
<1>7. (d + i * 2) % 2 = d % 2
  BY <1>3, <1>4
<1>8. (x + j * 2^w) \div p = d + i * 2
  BY <1>2, <1>5, <1>6, Zenon
<1> QED
  BY <1>7, <1>8, Zenon DEF Bit, d, p

(* A number that differs from another by a multiple of 2^w.                *)
Same(w, x, y) == \E j \in Int : x = y + j * 2^w

LEMMA SameBits ==
  ASSUME NEW x \in Int, NEW y \in Int, NEW w \in Nat, NEW k \in Nat, k < w, Same(w, x, y)
  PROVE  Bit(x, k) = Bit(y, k)
<1>1. PICK j \in Int : x = y + j * 2^w
  BY DEF Same
<1>2. Bit(y + j * 2^w, k) = Bit(y, k)
  BY BitBelow
<1> QED
  BY <1>1, <1>2, Zenon

(* AsUnsigned takes a number to one without a sign that has the same bits. *)
LEMMA UnsignedType ==
  ASSUME NEW w \in Nat, NEW x \in Int
  PROVE  /\ AsUnsigned(w, x) \in Nat /\ AsUnsigned(w, x) < 2^w
         /\ Same(w, AsUnsigned(w, x), x)
<1> DEFINE m == 2^w
           d == x \div m
           r == x % m
<1>1. m \in Nat \ {0}
  BY PowerPositive
<1> HIDE DEF m
<1>2. d \in Int /\ r \in Nat /\ r < m /\ x = d * m + r
  BY <1>1, QuotientType
<1> HIDE DEF d, r
<1>3. r = x + (0 - d) * m /\ 0 - d \in Int
  BY <1>1, <1>2
<1>4. Same(w, r, x)
  BY <1>3 DEF Same, m
<1> QED
  BY <1>2, <1>4 DEF AsUnsigned, r, m

(* AsSigned takes a number into the range of the type, with the same bits. *)
LEMMA SignedType ==
  ASSUME NEW w \in Nat \ {0}, NEW x \in Int
  PROVE  /\ AsSigned(w, x) \in Lowest(w) .. Highest(w)
         /\ Same(w, AsSigned(w, x), x)
         /\ Same(w, AsSigned(w, x), AsUnsigned(w, x))
<1> DEFINE m == 2^w
           h == 2^(w - 1)
           u == AsUnsigned(w, x)
           v == AsSigned(w, x)
<1>1. m = 2 * h /\ h \in Nat \ {0}
  <2>1. w - 1 \in Nat /\ (w - 1) + 1 = w
    OBVIOUS
  <2> QED
    BY <2>1, PowerDoubles, PowerPositive, Zenon
<1>2. u \in Nat /\ u < m /\ Same(w, u, x)
  BY UnsignedType
<1>3. PICK j \in Int : u = x + j * m
  BY <1>2 DEF Same
<1>4. v = IF u < h THEN u ELSE u - m
  BY DEF AsSigned, AsUnsigned
<1> HIDE DEF m, h, u, v
<1>5. v \in Int /\ -h <= v /\ v <= h - 1
  BY <1>1, <1>2, <1>4
<1>6. v \in Lowest(w) .. Highest(w)
  BY <1>1, <1>5 DEF Lowest, Highest, h
<1>7. v = u + 0 * m \/ v = u + (-1) * m
  BY <1>1, <1>2, <1>4
<1>8. Same(w, v, u)
  BY <1>7 DEF Same, m
<1>9. v = x + j * m \/ v = x + (j - 1) * m
  BY <1>1, <1>2, <1>3, <1>4
<1>10. Same(w, v, x)
  <2>1. j \in Int /\ j - 1 \in Int
    BY <1>3
  <2> QED
    BY <1>9, <2>1, Zenon DEF Same, m
<1> QED
  BY <1>6, <1>8, <1>10 DEF u, v

(* Within the width, numbers that are the same are equal.                  *)
LEMMA SameUnsigned ==
  ASSUME NEW w \in Nat, NEW x \in Int, NEW y \in Int, Same(w, x, y)
  PROVE  AsUnsigned(w, x) = AsUnsigned(w, y)
<1>1. PICK j \in Int : x = y + j * 2^w
  BY DEF Same
<1> DEFINE m == 2^w
<1>2. m \in Nat \ {0}
  BY PowerPositive
<1> HIDE DEF m
<1>3. (y + j * m) % m = y % m
  BY <1>2, MultipleAdded
<1> QED
  BY <1>1, <1>3, Zenon DEF AsUnsigned, m

LEMMA UnsignedIs ==
  ASSUME NEW w \in Nat, NEW u \in Nat, u < 2^w
  PROVE  AsUnsigned(w, u) = u
<1> DEFINE m == 2^w
<1>1. m \in Nat \ {0} /\ u < m
  BY PowerPositive
<1> HIDE DEF m
<1>2. u % m = u
  BY <1>1
<1> QED
  BY <1>2, Zenon DEF AsUnsigned, m

(* The bits of a number below the width do not depend on the width.        *)
LEMMA BitAtIs ==
  ASSUME NEW w \in Nat, NEW x \in Int, NEW k \in 0 .. w - 1
  PROVE  BitAt(w, x, k) = Bit(x, k)
<1> DEFINE u == AsUnsigned(w, x)
<1>1. u \in Nat /\ Same(w, u, x)
  BY UnsignedType
<1> HIDE DEF u
<1>2. Bit(u, k) = Bit(x, k)
  BY <1>1, SameBits
<1> QED
  BY <1>2, Zenon DEF BitAt, Bit, u

(* AsSigned moves no bit below the width.                                  *)
LEMMA BitAtSigned ==
  ASSUME NEW w \in Nat, NEW x \in Int, NEW k \in 0 .. w - 1
  PROVE  BitAt(w, AsSigned(w, x), k) = Bit(x, k)
<1> DEFINE v == AsSigned(w, x)
<1>1. w \in Nat \ {0} /\ k \in Nat /\ k < w
  OBVIOUS
<1>2. v \in Int /\ Same(w, v, x)
  <2>1. v \in Lowest(w) .. Highest(w) /\ Same(w, v, x)
    BY <1>1, SignedType
  <2> QED
    BY <2>1
<1> HIDE DEF v
<1>3. BitAt(w, v, k) = Bit(v, k)
  BY <1>2, BitAtIs
<1>4. Bit(v, k) = Bit(x, k)
  BY <1>1, <1>2, SameBits
<1> QED
  BY <1>3, <1>4, Zenon DEF v

(* From the width on every bit is the sign, or 0 if there is none.         *)
LEMMA BitAbove ==
  ASSUME NEW w \in Nat, NEW k \in Nat, w <= k, NEW x \in Int, x < 2^w, -(2^w) <= x
  PROVE  Bit(x, k) = IF x < 0 THEN 1 ELSE 0
<1> DEFINE p == 2^w
           m == 2^k
<1>1. p \in Nat \ {0} /\ m \in Nat \ {0} /\ p <= m /\ x < p /\ -p <= x
  BY PowerPositive, PowerGrows
<1> HIDE DEF p, m
<1>2. CASE x < 0
  <2>1. x = (-1) * m + (x + m) /\ 0 <= x + m /\ x + m < m /\ -1 \in Int /\ x + m \in Int
    BY <1>1, <1>2
  <2> DEFINE r == x + m
             i == -1
  <2>2. i \in Int /\ r \in Int /\ x = i * m + r /\ 0 <= r /\ r < m
    BY <2>1
  <2> HIDE DEF r, i
  <2>3. x \div m = i
    BY <1>1, <2>2, QuotientIs
  <2>4. i % 2 = 1
    <3>1. \A z \in Int : z + 1 = 0 => z % 2 = 1
      OBVIOUS
    <3>2. i + 1 = 0
      BY DEF i
    <3> QED
      BY <2>2, <3>1, <3>2
  <2>5. Bit(x, k) = 1
    BY <2>3, <2>4, Zenon DEF Bit, m
  <2> QED
    BY <1>2, <2>5
<1>3. CASE ~(x < 0)
  <2>1. x = 0 * m + x /\ 0 <= x /\ x < m
    BY <1>1, <1>3
  <2>2. x \div m = 0
    BY <1>1, <2>1, QuotientIs
  <2>3. 0 % 2 = 0
    OBVIOUS
  <2>4. Bit(x, k) = 0
    BY <2>2, <2>3, Zenon DEF Bit, m
  <2> QED
    BY <1>3, <2>4
<1> QED
  BY <1>2, <1>3

LEMMA RangeGrows ==
  ASSUME NEW m \in Nat \ {0}, NEW n \in Nat, m <= n
  PROVE  Lowest(m) .. Highest(m) \subseteq Lowest(n) .. Highest(n)
<1> DEFINE p == 2^(m - 1)
           q == 2^(n - 1)
<1>1. p \in Nat /\ q \in Nat /\ p <= q
  <2>1. m - 1 \in Nat /\ n - 1 \in Nat /\ m - 1 <= n - 1
    OBVIOUS
  <2> QED
    BY <2>1, PowerPositive, PowerGrows
<1>2. Lowest(m) = -p /\ Highest(m) = p - 1 /\ Lowest(n) = -q /\ Highest(n) = q - 1
  BY DEF Lowest, Highest
<1> HIDE DEF p, q
<1> QED
  BY <1>1, <1>2

(* The sign of a number is its highest bit and all those above.            *)
LEMMA BitOfSign ==
  ASSUME NEW w \in Nat \ {0}, NEW x \in Lowest(w) .. Highest(w), NEW k \in Nat, w - 1 <= k
  PROVE  x \in Int /\ Bit(x, k) = Bit(x, w - 1)
<1> DEFINE n == w - 1
           p == 2^n
<1>1. n \in Nat /\ p \in Nat
  BY PowerPositive
<1>2. x \in Int /\ x < p /\ -p <= x
  BY <1>1 DEF Lowest, Highest
<1> HIDE DEF n
<1>3. Bit(x, k) = IF x < 0 THEN 1 ELSE 0
  BY <1>1, <1>2, BitAbove DEF n
<1>4. Bit(x, n) = IF x < 0 THEN 1 ELSE 0
  BY <1>1, <1>2, BitAbove
<1> QED
  BY <1>2, <1>3, <1>4 DEF n

-----------------------------------------------------------------------------
(* Casts.                                                                  *)

(* A cast through a signed type of some bits keeps those, and the ones     *)
(* above become copies of the highest.                                     *)
LEMMA CastSigned ==
  ASSUME NEW bits \in Nat \ {0}, NEW from \in Nat, NEW to \in Nat, bits <= from, bits <= to,
         NEW a \in Int
  PROVE  /\ AsSigned(bits, a) \in Lowest(to) .. Highest(to)
         /\ \A k \in 0 .. to - 1 :
              BitAt(to, AsSigned(bits, a), k) =
                IF k < bits THEN BitAt(from, a, k) ELSE BitAt(from, a, bits - 1)
<1> DEFINE v == AsSigned(bits, a)
<1>1. v \in Lowest(bits) .. Highest(bits) /\ Same(bits, v, a)
  BY SignedType
<1> HIDE DEF v
<1>2. v \in Lowest(to) .. Highest(to)
  BY <1>1, RangeGrows
<1>3. ASSUME NEW k \in 0 .. to - 1
      PROVE  BitAt(to, v, k) = IF k < bits THEN BitAt(from, a, k) ELSE BitAt(from, a, bits - 1)
  <2>1. v \in Int
    BY <1>1
  <2>2. BitAt(to, v, k) = Bit(v, k)
    BY <2>1, BitAtIs
  <2>3. CASE k < bits
    <3>1. k \in Nat /\ k \in 0 .. from - 1
      BY <2>3
    <3>2. Bit(v, k) = Bit(a, k)
      BY <1>1, <2>1, <2>3, <3>1, SameBits
    <3>3. BitAt(from, a, k) = Bit(a, k)
      BY <3>1, BitAtIs
    <3> QED
      BY <2>2, <2>3, <3>2, <3>3
  <2>4. CASE ~(k < bits)
    <3> DEFINE h == bits - 1
    <3>1. k \in Nat /\ h \in Nat /\ h < bits /\ h <= k /\ h \in 0 .. from - 1
      BY <2>4
    <3>2. Bit(v, k) = Bit(v, h)
      BY <1>1, <3>1, BitOfSign
    <3> HIDE DEF h
    <3>3. Bit(v, h) = Bit(a, h)
      BY <1>1, <2>1, <3>1, SameBits
    <3>4. BitAt(from, a, h) = Bit(a, h)
      BY <3>1, BitAtIs
    <3> QED
      BY <2>2, <2>4, <3>2, <3>3, <3>4 DEF h
  <2> QED
    BY <2>3, <2>4
<1> QED
  BY <1>2, <1>3 DEF v

(* A cast through a type without a sign keeps its bits and clears those    *)
(* above.                                                                  *)
LEMMA CastUnsigned ==
  ASSUME NEW bits \in Nat \ {0}, NEW from \in Nat, NEW to \in Nat, bits <= from, bits < to,
         NEW a \in Int
  PROVE  /\ AsUnsigned(bits, a) \in Lowest(to) .. Highest(to)
         /\ \A k \in 0 .. to - 1 :
              BitAt(to, AsUnsigned(bits, a), k) = IF k < bits THEN BitAt(from, a, k) ELSE 0
<1> DEFINE v == AsUnsigned(bits, a)
           p == 2^bits
           q == 2^(to - 1)
<1>1. v \in Nat /\ v < p /\ Same(bits, v, a)
  BY UnsignedType
<1>2. p \in Nat /\ q \in Nat /\ p <= q
  <2>1. to - 1 \in Nat /\ bits <= to - 1
    OBVIOUS
  <2> QED
    BY <2>1, PowerPositive, PowerGrows
<1> HIDE DEF v, p, q
<1>3. v \in Lowest(to) .. Highest(to)
  BY <1>1, <1>2 DEF Lowest, Highest, q
<1>4. ASSUME NEW k \in 0 .. to - 1
      PROVE  BitAt(to, v, k) = IF k < bits THEN BitAt(from, a, k) ELSE 0
  <2>1. BitAt(to, v, k) = Bit(v, k)
    BY <1>1, BitAtIs
  <2>2. CASE k < bits
    <3>1. k \in Nat /\ k \in 0 .. from - 1
      BY <2>2
    <3>2. Bit(v, k) = Bit(a, k)
      BY <1>1, <2>2, <3>1, SameBits
    <3>3. BitAt(from, a, k) = Bit(a, k)
      BY <3>1, BitAtIs
    <3> QED
      BY <2>1, <2>2, <3>2, <3>3
  <2>3. CASE ~(k < bits)
    <3>1. k \in Nat /\ bits <= k /\ v < 2^bits /\ -(2^bits) <= v
      BY <1>1, <1>2, <2>3 DEF p
    <3>2. Bit(v, k) = 0
      BY <1>1, <3>1, BitAbove
    <3> QED
      BY <2>1, <2>3, <3>2
  <2> QED
    BY <2>2, <2>3
<1> QED
  BY <1>3, <1>4 DEF v

LEMMA WidthTypes ==
  /\ BitsI32 \in Nat \ {0, 1} /\ BitsI64 \in Nat \ {0, 1} /\ BitsI32 < BitsI64
  /\ BitsF32 \in Nat \ {0, 1} /\ BitsF64 \in Nat \ {0, 1}
  /\ BitsI8 \in Nat \ {0} /\ BitsI16 \in Nat \ {0} /\ BitsI8 <= BitsI32 /\ BitsI16 <= BitsI32
<1>1. /\ BitsI32 \in Nat \ {0, 1} /\ BitsI64 \in Nat \ {0, 1} /\ BitsI32 < BitsI64
      /\ BitsF32 \in Nat \ {0, 1} /\ BitsF64 \in Nat \ {0, 1} /\ BitsI32 % 4 = 0
  BY NumericAssumption
<1> DEFINE w == BitsI32
<1>2. w \in Nat \ {0, 1} /\ w % 4 = 0
  BY <1>1
<1> HIDE DEF w
<1>3. w \div 4 \in Nat \ {0} /\ w \div 2 \in Nat \ {0} /\ w \div 4 <= w /\ w \div 2 <= w
  BY <1>2
<1> QED
  BY <1>1, <1>3 DEF BitsI8, BitsI16, w

(* A cast goes through no more bits than either side has.                  *)
LEMMA CastTypes ==
  ASSUME NEW c \in Casts
  PROVE  /\ c.bits \in Nat \ {0} /\ c.from \in IntWidths /\ c.from \in Nat /\ c.to \in Nat
         /\ c.bits <= c.from /\ c.bits <= c.to /\ (~c.signed => c.bits < c.to)
<1>1. CASE \E w \in IntWidths, bits \in {BitsI8, BitsI16} : c = Cast(w, bits, TRUE, w)
  <2>1. PICK w \in IntWidths, bits \in {BitsI8, BitsI16} : c = Cast(w, bits, TRUE, w)
    BY <1>1
  <2>2. c.from = w /\ c.bits = bits /\ c.to = w /\ c.signed
    BY <2>1 DEF Cast
  <2>3. w \in Nat /\ bits \in Nat \ {0} /\ bits <= w
    BY WidthTypes DEF IntWidths
  <2> QED
    BY <2>2, <2>3
<1>2. CASE c = Cast(BitsI64, BitsI32, TRUE, BitsI64)
  BY <1>2, WidthTypes DEF Cast, IntWidths
<1>3. CASE c = Cast(BitsI64, BitsI32, TRUE, BitsI32)
  BY <1>3, WidthTypes DEF Cast, IntWidths
<1>4. CASE c = Cast(BitsI32, BitsI32, TRUE, BitsI64)
  BY <1>4, WidthTypes DEF Cast, IntWidths
<1>5. CASE c = Cast(BitsI32, BitsI32, FALSE, BitsI64)
  BY <1>5, WidthTypes DEF Cast, IntWidths
<1>6. \/ \E w \in IntWidths, bits \in {BitsI8, BitsI16} : c = Cast(w, bits, TRUE, w)
      \/ c = Cast(BitsI64, BitsI32, TRUE, BitsI64)
      \/ c = Cast(BitsI64, BitsI32, TRUE, BitsI32)
      \/ c = Cast(BitsI32, BitsI32, TRUE, BitsI64)
      \/ c = Cast(BitsI32, BitsI32, FALSE, BitsI64)
  <2> DEFINE F(w, bits) == Cast(w, bits, TRUE, w)
             X == {F(w, bits) : w \in IntWidths, bits \in {BitsI8, BitsI16}}
             f1 == Cast(BitsI64, BitsI32, TRUE, BitsI64)
             f2 == Cast(BitsI64, BitsI32, TRUE, BitsI32)
             f3 == Cast(BitsI32, BitsI32, TRUE, BitsI64)
             f4 == Cast(BitsI32, BitsI32, FALSE, BitsI64)
  <2>1. Casts = X \cup {f1, f2, f3, f4}
    BY DEF Casts
  <2> HIDE DEF F, f1, f2, f3, f4
  <2>2. c \in X => \E w \in IntWidths, bits \in {BitsI8, BitsI16} : c = F(w, bits)
    OBVIOUS
  <2> HIDE DEF X
  <2>3. c \in X \/ c = f1 \/ c = f2 \/ c = f3 \/ c = f4
    BY <2>1
  <2> QED
    BY <2>2, <2>3, Zenon DEF F, f1, f2, f3, f4
<1> QED
  BY <1>1, <1>2, <1>3, <1>4, <1>5, <1>6, Zenon

LEMMA ConvertExact ==
  ASSUME NEW c \in Casts, NEW a \in Int
  PROVE  /\ Convert(c, a).value \in Lowest(c.to) .. Highest(c.to)
         /\ \A k \in 0 .. c.to - 1 :
              BitAt(c.to, Convert(c, a).value, k) =
                IF k < c.bits THEN BitAt(c.from, a, k)
                ELSE IF c.signed THEN BitAt(c.from, a, c.bits - 1) ELSE 0
<1> DEFINE bits == c.bits
           from == c.from
           to == c.to
           s == c.signed
<1>1. Convert(c, a).value = IF s THEN AsSigned(bits, a) ELSE AsUnsigned(bits, a)
  BY DEF Convert, Gives
<1>2. /\ bits \in Nat \ {0} /\ from \in Nat /\ to \in Nat
      /\ bits <= from /\ bits <= to /\ (~s => bits < to)
  BY CastTypes
<1> DEFINE v == Convert(c, a).value
<1> HIDE DEF bits, from, to, s, v
<1>3. CASE s
  <2>1. v = AsSigned(bits, a)
    BY <1>1, <1>3 DEF v
  <2>2. /\ v \in Lowest(to) .. Highest(to)
        /\ \A k \in 0 .. to - 1 :
             BitAt(to, v, k) = IF k < bits THEN BitAt(from, a, k) ELSE BitAt(from, a, bits - 1)
    BY <1>2, <2>1, CastSigned
  <2> QED
    BY <1>3, <2>2, Zenon DEF bits, from, to, s, v
<1>4. CASE ~s
  <2>1. v = AsUnsigned(bits, a)
    BY <1>1, <1>4 DEF v
  <2>2. /\ v \in Lowest(to) .. Highest(to)
        /\ \A k \in 0 .. to - 1 :
             BitAt(to, v, k) = IF k < bits THEN BitAt(from, a, k) ELSE 0
    BY <1>2, <1>4, <2>1, CastUnsigned
  <2> QED
    BY <1>4, <2>2, Zenon DEF bits, from, to, s, v
<1> QED
  BY <1>3, <1>4

-----------------------------------------------------------------------------
(* Integers as floats.                                                     *)

(* The number m is q units of 2^k and r more, where 2^k is the unit of a   *)
(* float of p bits that is as large as m.                                  *)
HasUnit(p, m, k, q, r) ==
  /\ m \in Nat /\ k \in Nat /\ q \in Nat /\ r \in Nat
  /\ m = q * 2^k + r /\ r < 2^k
  /\ m < 2^(p + k) /\ (k = 0 \/ 2^(p + (k - 1)) <= m)

(* One more unit, if r is more than half of one.                           *)
Nearest(k, q, r) ==
  IF 2 * r > 2^k \/ (2 * r = 2^k /\ q % 2 = 1) THEN 2^k * (q + 1) ELSE 2^k * q

(* The unit of a float is found by the search that Rounded makes.          *)
LEMMA UnitIs ==
  ASSUME NEW p \in Nat \ {0}, NEW m, NEW k, NEW q, NEW r, HasUnit(p, m, k, q, r)
  PROVE  k = CHOOSE e \in 0 .. m : m < 2^(p + e) /\ \A d \in 0 .. e - 1 : m >= 2^(p + d)
<1>1. m \in Nat /\ k \in Nat /\ m < 2^(p + k) /\ (k = 0 \/ 2^(p + (k - 1)) <= m)
  BY DEF HasUnit
<1> DEFINE P(e) == m < 2^(p + e) /\ \A d \in 0 .. e - 1 : m >= 2^(p + d)
<1>2. k \in 0 .. m
  <2>1. CASE k = 0
    BY <1>1, <2>1
  <2>2. CASE k # 0
    <3> DEFINE a == 2^k
               b == 2^(p + (k - 1))
    <3>1. k <= p + (k - 1) /\ p + (k - 1) \in Nat
      BY <1>1, <2>2
    <3>2. a <= b /\ k < a /\ a \in Nat /\ b \in Nat
      BY <1>1, <3>1, PowerGrows, PowerAbove, PowerPositive
    <3>3. b <= m
      BY <1>1, <2>2
    <3> HIDE DEF a, b
    <3> QED
      BY <1>1, <3>2, <3>3
  <2> QED
    BY <2>1, <2>2
<1>3. P(k)
  <2>1. ASSUME NEW d \in 0 .. k - 1 PROVE m >= 2^(p + d)
    <3> DEFINE a == 2^(p + d)
               b == 2^(p + (k - 1))
    <3>1. p + d <= p + (k - 1) /\ p + (k - 1) \in Nat /\ p + d \in Nat /\ k # 0
      BY <1>1
    <3>2. a <= b /\ a \in Nat /\ b \in Nat
      BY <3>1, PowerGrows, PowerPositive
    <3>3. b <= m
      BY <1>1, <3>1
    <3> HIDE DEF a, b
    <3>4. m >= a
      BY <1>1, <3>2, <3>3
    <3> QED
      BY <3>4 DEF a
  <2> QED
    BY <1>1, <2>1
<1>4. ASSUME NEW e \in 0 .. m, P(e) PROVE e = k
  <2>1. ~(e > k)
    <3>1. SUFFICES ASSUME e > k PROVE FALSE
      OBVIOUS
    <3>2. k \in 0 .. e - 1
      BY <1>1, <3>1
    <3> DEFINE b == 2^(p + k)
    <3>3. m >= b /\ m < b
      BY <1>1, <1>4, <3>2
    <3>4. b \in Nat
      <4>1. p + k \in Nat
        BY <1>1
      <4> QED
        BY <4>1, PowerPositive
    <3> HIDE DEF b
    <3> QED
      BY <1>1, <3>3, <3>4
  <2>2. ~(e < k)
    <3>1. SUFFICES ASSUME e < k PROVE FALSE
      OBVIOUS
    <3>2. p + e <= p + (k - 1) /\ p + e \in Nat /\ p + (k - 1) \in Nat /\ k # 0
      BY <1>1, <3>1
    <3> DEFINE a == 2^(p + e)
               b == 2^(p + (k - 1))
    <3>3. a <= b /\ a \in Nat /\ b \in Nat
      BY <3>2, PowerGrows, PowerPositive
    <3>4. m < a /\ b <= m
      BY <1>1, <1>4, <3>2
    <3> HIDE DEF a, b
    <3> QED
      BY <1>1, <3>3, <3>4
  <2> QED
    BY <1>1, <2>1, <2>2
<1> DEFINE c == CHOOSE e \in 0 .. m : P(e)
<1> HIDE DEF P
<1>5. c \in 0 .. m /\ P(c)
  BY <1>2, <1>3
<1> HIDE DEF c
<1>6. c = k
  BY <1>4, <1>5
<1> QED
  BY <1>6, Zenon DEF c, P

(* So Rounded is the number of units that is nearest.                      *)
LEMMA RoundedIs ==
  ASSUME NEW p \in Nat \ {0}, NEW n \in Int, NEW k, NEW q, NEW r,
         HasUnit(p, Absolute(n), k, q, r)
  PROVE  Rounded(p, n) = IF n < 0 THEN -Nearest(k, q, r) ELSE Nearest(k, q, r)
<1> DEFINE m == Absolute(n)
           u == 2^k
           c == CHOOSE e \in 0 .. m : m < 2^(p + e) /\ \A d \in 0 .. e - 1 : m >= 2^(p + d)
           up == \/ 2 * (m % u) > u
                 \/ 2 * (m % u) = u /\ (m \div u) % 2 = 1
           v == u * (m \div u + (IF up THEN 1 ELSE 0))
<1>1. c = k
  BY UnitIs
<1>2. Rounded(p, n) = IF n < 0 THEN -v ELSE v
  <2> DEFINE ci == 2^c
             upi == \/ 2 * (m % ci) > ci
                    \/ 2 * (m % ci) = ci /\ (m \div ci) % 2 = 1
             vi == ci * (m \div ci + (IF upi THEN 1 ELSE 0))
  <2>1. Rounded(p, n) = IF n < 0 THEN -vi ELSE vi
    BY DEF Rounded
  <2> HIDE DEF c, m
  <2>2. ci = u
    BY <1>1, Zenon
  <2> HIDE DEF ci, u
  <2>3. vi = v
    BY <2>2
  <2> HIDE DEF vi, v
  <2> QED
    BY <2>1, <2>3, Zenon
<1>3. /\ m \in Nat /\ k \in Nat /\ q \in Nat /\ r \in Nat /\ m = q * u + r /\ r < u
  BY DEF HasUnit
<1>4. u \in Nat \ {0}
  BY <1>3, PowerPositive
<1>5. m \div u = q /\ m % u = r
  <2> HIDE DEF u, m
  <2>1. m \in Int /\ q \in Int /\ r \in Int /\ 0 <= r /\ r < u /\ m = q * u + r
    BY <1>3, <1>4
  <2> QED
    BY <1>4, <2>1, QuotientIs
<1>6. v = Nearest(k, q, r)
  <2> DEFINE a == m \div u
             b == m % u
  <2>1. a = q /\ b = r
    BY <1>5
  <2>2. v = u * (a + (IF 2 * b > u \/ (2 * b = u /\ a % 2 = 1) THEN 1 ELSE 0))
    OBVIOUS
  <2>3. Nearest(k, q, r) =
          IF 2 * r > u \/ (2 * r = u /\ q % 2 = 1) THEN u * (q + 1) ELSE u * q
    BY DEF Nearest
  <2>4. q + 0 = q
    BY <1>3
  <2> HIDE DEF u, a, b, v
  <2> QED
    BY <2>1, <2>2, <2>3, <2>4, Zenon
<1> QED
  BY <1>2, <1>6, Zenon

LEMMA PowerStrict ==
  ASSUME NEW m \in Nat, NEW n \in Nat, m < n
  PROVE  2^m < 2^n
<1> DEFINE p == 2^m
           q == 2^n
           h == 2^(m + 1)
<1>1. p \in Nat \ {0} /\ q \in Nat /\ h = 2 * p /\ h <= q
  <2>1. m + 1 \in Nat /\ m + 1 <= n
    OBVIOUS
  <2> QED
    BY <2>1, PowerPositive, PowerDoubles, PowerGrows
<1> HIDE DEF p, q, h
<1>2. p < q
  BY <1>1
<1> QED
  BY <1>2 DEF p, q

(* A power of two is a float, of whatever sign.                            *)
LEMMA RoundedPower ==
  ASSUME NEW p \in Nat \ {0}, NEW n \in Nat
  PROVE  Rounded(p, 2^n) = 2^n /\ Rounded(p, -(2^n)) = -(2^n)
<1> DEFINE m == 2^n
<1>1. m \in Nat \ {0}
  BY PowerPositive
<1>2. \E k, q \in Nat : HasUnit(p, m, k, q, 0) /\ 2^k * q = m
  <2>1. CASE n < p
    <3>1. p \in Nat /\ p + 0 = p /\ 2^0 = 1
      OBVIOUS
    <3>2. m < 2^(p + 0)
      BY <2>1, <3>1, PowerStrict
    <3> HIDE DEF m
    <3>3. m = m * 1 + 0 /\ 1 * m = m /\ 0 < 1 /\ 0 \in Nat /\ m \in Nat
      BY <1>1
    <3>4. HasUnit(p, m, 0, m, 0) /\ 2^0 * m = m
      BY <3>1, <3>2, <3>3, Zenon DEF HasUnit
    <3> QED
      BY <3>3, <3>4, Zenon
  <2>2. CASE ~(n < p)
    <3> DEFINE k == n - p + 1
               u == 2^k
               q == 2^(p - 1)
    <3>1. k \in Nat /\ p - 1 \in Nat /\ k + (p - 1) = n /\ p + k = n + 1 /\ p + (k - 1) = n
      BY <2>2
    <3> HIDE DEF k
    <3>2. m = u * q /\ u \in Nat \ {0} /\ q \in Nat
      <4>1. 2^(k + (p - 1)) = 2^k * 2^(p - 1)
        BY <3>1, PowerSum, Zenon
      <4>2. u \in Nat \ {0} /\ q \in Nat
        BY <3>1, PowerPositive
      <4> QED
        BY <3>1, <4>1, <4>2, Zenon
    <3>3. 2^(p + k) = 2 * m
      BY <3>1, PowerDoubles, Zenon
    <3> HIDE DEF u, q, m
    <3>4. m = q * u + 0 /\ 0 < u /\ m < 2 * m /\ m <= m /\ 0 \in Nat
      BY <1>1, <3>2
    <3>5. 2^(p + (k - 1)) = m
      BY <3>1, Zenon DEF m
    <3>6. HasUnit(p, m, k, q, 0)
      BY <1>1, <3>1, <3>2, <3>3, <3>4, <3>5 DEF HasUnit, u
    <3> QED
      BY <3>1, <3>2, <3>6, Zenon DEF u
  <2> QED
    BY <2>1, <2>2
<1>3. PICK k \in Nat, q \in Nat : HasUnit(p, m, k, q, 0) /\ 2^k * q = m
  BY <1>2
<1>4. Nearest(k, q, 0) = m
  <2> DEFINE u == 2^k
  <2>1. u \in Nat \ {0}
    BY PowerPositive
  <2> HIDE DEF u
  <2>2. ~(2 * 0 > u) /\ 2 * 0 # u
    BY <2>1
  <2> QED
    BY <1>3, <2>2, Zenon DEF Nearest, u
<1> HIDE DEF m
<1>5. Absolute(m) = m /\ Absolute(-m) = m /\ m \in Int /\ -m \in Int /\ ~(m < 0) /\ -m < 0
  BY <1>1 DEF Absolute
<1>6. p \in Nat \ {0} /\ HasUnit(p, Absolute(m), k, q, 0) /\ HasUnit(p, Absolute(-m), k, q, 0)
  BY <1>3, <1>5, Zenon
<1> DEFINE z == 0
           i == -m
<1>7. i \in Int /\ i < 0 /\ HasUnit(p, Absolute(i), k, q, z) /\ HasUnit(p, Absolute(m), k, q, z)
  BY <1>5, <1>6
<1>8. Nearest(k, q, z) = m
  BY <1>4
<1> HIDE DEF z, i
<1>9. Rounded(p, m) = m
  BY <1>5, <1>7, <1>8, RoundedIs
<1>10. Rounded(p, i) = -m
  BY <1>7, <1>8, RoundedIs
<1> QED
  BY <1>9, <1>10 DEF m, i

LEMMA RoundedZero ==
  ASSUME NEW p \in Nat \ {0}
  PROVE  Rounded(p, 0) = 0
<1> DEFINE z == 0
           m == Absolute(z)
<1>1. z \in Int /\ ~(z < 0) /\ m = 0 /\ p \in Nat /\ p + 0 \in Nat /\ 2^0 = 1
  BY DEF Absolute
<1>2. 2^(p + 0) \in Nat \ {0}
  BY <1>1, PowerPositive
<1>3. 0 < 2^(p + 0) /\ 0 \in Nat /\ 0 = 0 * 1 + 0 /\ 0 < 1
  BY <1>2
<1>4. HasUnit(p, m, 0, 0, 0)
  BY <1>1, <1>3, Zenon DEF HasUnit
<1>5. Nearest(0, 0, 0) = 0
  BY DEF Nearest
<1> HIDE DEF z, m
<1>6. \A k : k = 0 => Rounded(p, z) = Nearest(k, k, k)
  <2>1. SUFFICES ASSUME NEW k, k = 0 PROVE Rounded(p, z) = Nearest(k, k, k)
    OBVIOUS
  <2>2. HasUnit(p, Absolute(z), k, k, k)
    BY <1>4, <2>1, Zenon DEF m
  <2> QED
    BY <1>1, <2>2, RoundedIs
<1> QED
  BY <1>5, <1>6, Zenon DEF z

(* The largest number below a power of two that has room for one more, and *)
(* the one after it, as floats.                                            *)
LEMMA RoundedLimit ==
  ASSUME NEW p \in Nat \ {0, 1}, NEW n \in Nat
  PROVE  Rounded(p, Rounded(p, 2^n - 1) + 1) = 2^n
<1> DEFINE m == 2^n
<1>1. m \in Nat \ {0}
  BY PowerPositive
<1>2. CASE n <= p
  <2>1. p \in Nat /\ p + 0 = p /\ 2^0 = 1
    OBVIOUS
  <2>2. 2^p \in Nat /\ m <= 2^(p + 0)
    BY <1>2, <2>1, PowerGrows, PowerPositive
  <2> DEFINE t == m - 1
             z == 0
  <2>3. /\ t \in Int /\ t \in Nat /\ ~(t < 0) /\ Absolute(t) = t /\ t < 2^(p + 0)
        /\ t = t * 1 + 0 /\ 1 * t = t /\ t + 1 = m
    <3> HIDE DEF m
    <3>1. t \in Nat /\ t = m - 1
      BY <1>1
    <3>2. 2^(p + 0) \in Nat
      BY <2>1, <2>2, Zenon
    <3> HIDE DEF t
    <3> QED
      BY <1>1, <2>2, <3>1, <3>2 DEF Absolute
  <2> HIDE DEF m, t
  <2>4. HasUnit(p, Absolute(t), z, t, z)
    <3>1. 0 \in Nat /\ 0 < 1
      OBVIOUS
    <3> QED
      BY <2>1, <2>3, <3>1, Zenon DEF HasUnit
  <2>5. Nearest(z, t, z) = t
    <3>1. ~(2 * 0 > 1) /\ 2 * 0 # 1
      OBVIOUS
    <3> QED
      BY <2>1, <2>3, <3>1, Zenon DEF Nearest
  <2> HIDE DEF z
  <2>6. Rounded(p, t) = t
    <3>1. p \in Nat \ {0}
      OBVIOUS
    <3> QED
      BY <2>3, <2>4, <2>5, <3>1, RoundedIs
  <2>7. Rounded(p, m) = m
    <3>1. p \in Nat \ {0}
      OBVIOUS
    <3> QED
      BY <3>1, RoundedPower DEF m
  <2> QED
    BY <2>3, <2>6, <2>7, Zenon DEF m, t
<1>3. CASE ~(n <= p)
  <2> DEFINE a == n - p
             u == 2^a
             q == 2^p
             s == q - 1
             r == u - 1
             t == m - 1
  <2>1. a \in Nat \ {0} /\ a + p = n /\ p + a = n /\ p + (a - 1) = n - 1 /\ n - 1 \in Nat
    BY <1>3
  <2>2. m = u * q /\ u \in Nat \ {0} /\ q \in Nat \ {0}
    BY <2>1, PowerSum, PowerPositive, Zenon
  <2>3. m = 2 * 2^(n - 1) /\ 2^(n - 1) \in Nat \ {0}
    <3>1. (n - 1) + 1 = n
      OBVIOUS
    <3> QED
      BY <2>1, <3>1, PowerDoubles, PowerPositive, Zenon
  <2>4. q % 2 = 0 /\ u % 2 = 0 /\ u >= 2 /\ q >= 2
    <3>1. ASSUME NEW e \in Nat \ {0} PROVE 2^e % 2 = 0 /\ 2^e >= 2
      <4> DEFINE b == 2^(e - 1)
      <4>1. e - 1 \in Nat /\ (e - 1) + 1 = e
        OBVIOUS
      <4>2. 2^e = 2 * b /\ b \in Nat \ {0}
        BY <4>1, PowerDoubles, PowerPositive, Zenon
      <4> HIDE DEF b
      <4>3. (2 * b) % 2 = 0 /\ 2 * b >= 2
        BY <4>2
      <4> QED
        BY <4>2, <4>3, Zenon
    <3> QED
      BY <2>1, <3>1
  <2>5. HasUnit(p, t, a, s, r)
    <3>1. t = s * u + r /\ r < u /\ t \in Nat /\ s \in Nat /\ r \in Nat /\ t < m
      <4> HIDE DEF m, u, q
      <4> QED
        BY <1>1, <2>2
    <3>2. 2^(p + (a - 1)) <= t
      <4> DEFINE b == 2^(n - 1)
      <4>1. m = 2 * b /\ b \in Nat \ {0}
        BY <2>3
      <4> HIDE DEF b, m
      <4>2. b <= t
        BY <4>1
      <4> QED
        BY <2>1, <4>2, Zenon DEF b
    <3>3. t < 2^(p + a)
      BY <2>1, <3>1, Zenon
    <3> HIDE DEF t, s, r, m
    <3> QED
      BY <2>1, <3>1, <3>2, <3>3 DEF HasUnit
  <2>6. Nearest(a, s, r) = m
    <3>1. 2 * r > u \/ (2 * r = u /\ s % 2 = 1)
      <4> HIDE DEF u, q
      <4> QED
        BY <2>2, <2>4
    <3>2. u * (s + 1) = m
      <4> HIDE DEF u, q, m
      <4> QED
        BY <2>2
    <3> QED
      BY <3>1, <3>2, Zenon DEF Nearest
  <2>7. Absolute(t) = t /\ t \in Int /\ ~(t < 0)
    <3> HIDE DEF m
    <3> QED
      BY <1>1 DEF Absolute
  <2>8. Rounded(p, t) = m
    <3>1. p \in Nat \ {0}
      OBVIOUS
    <3> HIDE DEF a, s, r, t, m
    <3>2. HasUnit(p, Absolute(t), a, s, r)
      BY <2>5, <2>7, Zenon
    <3> QED
      BY <2>6, <2>7, <3>1, <3>2, RoundedIs
  <2> DEFINE k == a + 1
             h == 2^(p - 1)
             v == 2^k
             i == 1
             w == m + 1
  <2>9. k \in Nat /\ k + (p - 1) = n /\ p + k = n + 1 /\ p + (k - 1) = n /\ p - 1 \in Nat
    BY <2>1
  <2>10. m = v * h /\ v = 2 * u /\ h \in Nat
    <3>1. k = a + 1 /\ a \in Nat
      BY <2>1
    <3> HIDE DEF k, a
    <3>2. 2^(a + 1) = 2 * 2^a
      BY <3>1, PowerDoubles, Zenon
    <3>3. 2^(k + (p - 1)) = 2^k * 2^(p - 1) /\ 2^(p - 1) \in Nat \ {0}
      BY <2>9, PowerSum, PowerPositive, Zenon
    <3>4. 2^(p - 1) \in Nat
      BY <3>3
    <3> QED
      BY <2>9, <3>1, <3>2, <3>3, <3>4, Zenon
  <2>11. HasUnit(p, w, k, h, i)
    <3>1. 2^(p + k) = 2 * m
      BY <2>9, PowerDoubles, Zenon
    <3>2. 2^(p + (k - 1)) = m
      BY <2>9, Zenon
    <3>3. w = h * v + i /\ i < v /\ i \in Nat /\ w \in Nat /\ w < 2 * m /\ m <= w
      <4>1. m >= 2
        <5> DEFINE b == 2^(n - 1)
        <5>1. m = 2 * b /\ b \in Nat \ {0}
          BY <2>3
        <5> HIDE DEF b, m
        <5> QED
          BY <5>1
      <4> HIDE DEF m, h, v, u
      <4> QED
        BY <1>1, <2>2, <2>4, <2>10, <4>1
    <3> HIDE DEF k, h, i, w, m
    <3> QED
      BY <2>9, <2>10, <3>1, <3>2, <3>3 DEF HasUnit, v
  <2>12. Nearest(k, h, i) = m
    <3>1. ~(2 * i > v) /\ 2 * i # v
      <4> HIDE DEF u, v
      <4> QED
        BY <2>2, <2>4, <2>10
    <3> HIDE DEF k, h, i
    <3> QED
      BY <2>10, <3>1, Zenon DEF Nearest, v
  <2>13. Absolute(w) = w /\ w \in Int /\ ~(w < 0)
    <3> HIDE DEF m
    <3> QED
      BY <1>1 DEF Absolute
  <2>14. Rounded(p, w) = m
    <3>1. p \in Nat \ {0}
      OBVIOUS
    <3> HIDE DEF k, h, i, w, m
    <3>2. HasUnit(p, Absolute(w), k, h, i)
      BY <2>11, <2>13, Zenon
    <3> QED
      BY <2>12, <2>13, <3>1, <3>2, RoundedIs
  <2> QED
    BY <2>8, <2>14, Zenon
<1> QED
  BY <1>2, <1>3

-----------------------------------------------------------------------------
(* Floats to integers.                                                     *)

(* A number has one that is it without its fraction.                       *)
LEMMA WholeIs ==
  ASSUME NEW x \in Int
  PROVE  \E t \in Int : /\ Whole(x) = 4 * t /\ Whole(x) \div 4 = t
                        /\ \A n \in Int : Truncates(x, n) <=> n = t
                        /\ (t > 0 => ~(x < 0)) /\ (t < 0 => x < 0)
<1>1. CASE x < 0
  <2> DEFINE t == -((-x) \div 4)
  <2>1. t \in Int /\ 4 * t >= x /\ x > 4 * t - 4
    BY <1>1
  <2>2. Whole(x) = 4 * t
    <3> DEFINE d == (-x) \div 4
    <3>1. d \in Int
      OBVIOUS
    <3>2. Whole(x) = -(4 * d)
      BY <1>1 DEF Whole
    <3> HIDE DEF d
    <3>3. Whole(x) = 4 * (-d)
      BY <3>1, <3>2
    <3> QED
      BY <3>3 DEF d
  <2> HIDE DEF t
  <2>3. (4 * t) \div 4 = t
    BY <2>1
  <2>4. \A n \in Int : Truncates(x, n) <=> n = t
    BY <1>1, <2>1 DEF Truncates
  <2> QED
    BY <1>1, <2>1, <2>2, <2>3, <2>4
<1>2. CASE ~(x < 0)
  <2> DEFINE t == x \div 4
  <2>1. t \in Int /\ 4 * t <= x /\ x < 4 * t + 4
    OBVIOUS
  <2>2. Whole(x) = 4 * t
    BY <1>2 DEF Whole
  <2> HIDE DEF t
  <2>3. (4 * t) \div 4 = t
    BY <2>1
  <2>4. \A n \in Int : Truncates(x, n) <=> n = t
    BY <1>2, <2>1 DEF Truncates
  <2> QED
    BY <1>2, <2>1, <2>2, <2>3, <2>4
<1> QED
  BY <1>1, <1>2

(* The limits that are computed in floats are those of the type.           *)
LEMMA LimitsExact ==
  ASSUME NEW p \in Nat \ {0, 1}, NEW w \in Nat \ {0}, NEW signed \in BOOLEAN
  PROVE  /\ TopOf(w, signed) \in Nat /\ BottomOf(w, signed) \in Int /\ BottomOf(w, signed) <= 0
         /\ Rounded(p, Rounded(p, TopOf(w, signed)) + 1) = TopOf(w, signed) + 1
         /\ Rounded(p, BottomOf(w, signed)) = BottomOf(w, signed)
<1>1. p \in Nat \ {0} /\ w - 1 \in Nat /\ w \in Nat
  OBVIOUS
<1>2. CASE signed
  <2> DEFINE m == 2^(w - 1)
  <2>1. m \in Nat \ {0}
    BY <1>1, PowerPositive
  <2>2. Rounded(p, Rounded(p, m - 1) + 1) = m /\ Rounded(p, -m) = -m
    BY <1>1, RoundedLimit, RoundedPower
  <2>3. TopOf(w, signed) = m - 1 /\ BottomOf(w, signed) = -m
    BY <1>2 DEF TopOf, BottomOf, Highest, Lowest
  <2> HIDE DEF m
  <2>4. m - 1 \in Nat /\ -m \in Int /\ -m <= 0 /\ (m - 1) + 1 = m
    BY <2>1
  <2> QED
    BY <2>2, <2>3, <2>4, Zenon
<1>3. CASE ~signed
  <2> DEFINE m == 2^w
  <2>1. m \in Nat \ {0}
    BY <1>1, PowerPositive
  <2>2. Rounded(p, Rounded(p, m - 1) + 1) = m /\ Rounded(p, 0) = 0
    BY <1>1, RoundedLimit, RoundedZero
  <2>3. TopOf(w, signed) = m - 1 /\ BottomOf(w, signed) = 0
    BY <1>3 DEF TopOf, BottomOf
  <2> HIDE DEF m
  <2>4. m - 1 \in Nat /\ 0 \in Int /\ 0 <= 0 /\ (m - 1) + 1 = m
    BY <2>1
  <2> QED
    BY <2>2, <2>3, <2>4, Zenon
<1> QED
  BY <1>2, <1>3

(* Both conversions of a float: the integer it truncates to if the type    *)
(* has one, and otherwise an error or the limit on its side.               *)
LEMMA TruncExact ==
  ASSUME NEW p \in Nat \ {0, 1}, NEW w \in Nat \ {0}, NEW signed \in BOOLEAN,
         NEW x \in Int \cup {NaN}
  PROVE  LET low   == BottomOf(w, signed)
             high  == TopOf(w, signed)
             exact == {n \in low .. high : Truncates(x, n)}
             limit == IF x < 0 THEN low ELSE high
         IN  /\ Trunc(p, w, signed, x) =
                  IF x = NaN THEN Raises("InvalidConversionToInteger")
                  ELSE IF exact = {} THEN Raises("IntegerOverflow")
                  ELSE Gives(AsSigned(w, CHOOSE n \in exact : TRUE))
             /\ TruncSat(p, w, signed, x) =
                  IF x = NaN THEN Gives(0)
                  ELSE IF exact = {} THEN Gives(AsSigned(w, limit))
                  ELSE Gives(AsSigned(w, CHOOSE n \in exact : TRUE))
<1> DEFINE low   == BottomOf(w, signed)
           high  == TopOf(w, signed)
           exact == {n \in low .. high : Truncates(x, n)}
           limit == IF x < 0 THEN low ELSE high
           c     == CHOOSE n \in exact : TRUE
           sat   == Saturated(w, signed, x)
           over  == TooHigh(p, w, signed, Whole(x)) \/ TooLow(p, w, signed, Whole(x))
<1> SUFFICES
      /\ Trunc(p, w, signed, x) =
           IF x = NaN THEN Raises("InvalidConversionToInteger")
           ELSE IF exact = {} THEN Raises("IntegerOverflow") ELSE Gives(AsSigned(w, c))
      /\ TruncSat(p, w, signed, x) =
           IF x = NaN THEN Gives(0)
           ELSE IF exact = {} THEN Gives(AsSigned(w, limit)) ELSE Gives(AsSigned(w, c))
  OBVIOUS
<1>1. Trunc(p, w, signed, x) =
        IF x = NaN THEN Raises("InvalidConversionToInteger")
        ELSE IF over THEN Raises("IntegerOverflow") ELSE Gives(AsSigned(w, sat))
  BY Zenon DEF Trunc
<1>2. TruncSat(p, w, signed, x) =
        IF x = NaN THEN Gives(0) ELSE Gives(AsSigned(w, sat))
  BY Zenon DEF TruncSat
<1>3. CASE x = NaN
  <2> HIDE DEF exact, limit, c, sat, over
  <2> QED
    BY <1>1, <1>2, <1>3, Zenon
<1>4. CASE x # NaN
  <2>1. x \in Int
    BY <1>4
  <2>2. PICK t \in Int : /\ Whole(x) = 4 * t /\ Whole(x) \div 4 = t
                         /\ \A n \in Int : Truncates(x, n) <=> n = t
                         /\ (t > 0 => ~(x < 0)) /\ (t < 0 => x < 0)
    BY <2>1, WholeIs
  <2>3. /\ high \in Nat /\ low \in Int /\ low <= 0
        /\ Rounded(p, Rounded(p, high) + 1) = high + 1 /\ Rounded(p, low) = low
    BY LimitsExact
  <2>4. over <=> t > high \/ t < low
    <3>1. TooHigh(p, w, signed, 4 * t) <=> 4 * t >= 4 * (high + 1)
      BY <2>3, Zenon DEF TooHigh
    <3>2. TooLow(p, w, signed, 4 * t) <=> 4 * t < 4 * low
      BY <2>3, Zenon DEF TooLow
    <3>3. over <=> 4 * t >= 4 * (high + 1) \/ 4 * t < 4 * low
      BY <2>2, <3>1, <3>2, Zenon
    <3> HIDE DEF over, high, low
    <3> QED
      BY <2>3, <3>3
  <2>5. sat = IF t > high THEN high ELSE IF t < low THEN low ELSE t
    <3>1. sat = CASE t > high -> high [] t < low -> low [] OTHER -> t
      BY <2>2 DEF Saturated
    <3> HIDE DEF sat, high, low
    <3> QED
      BY <2>3, <3>1
  <2>6. exact = IF t > high \/ t < low THEN {} ELSE {t}
    <3> HIDE DEF high, low
    <3>1. \A n \in low .. high : n \in Int
      BY <2>3
    <3>2. t \in low .. high <=> ~(t > high \/ t < low)
      BY <2>3
    <3> QED
      BY <2>2, <3>1, <3>2
  <2>7. CASE t > high \/ t < low
    <3>1. sat = limit
      <4> HIDE DEF sat, high, low
      <4> QED
        BY <2>1, <2>2, <2>3, <2>5, <2>7
    <3> HIDE DEF exact, limit, c, sat, over
    <3> QED
      BY <1>1, <1>2, <1>4, <2>4, <2>6, <2>7, <3>1, Zenon
  <2>8. CASE ~(t > high \/ t < low)
    <3>1. exact = {t} /\ sat = t /\ ~over
      <4> HIDE DEF sat, exact, over
      <4> QED
        BY <2>4, <2>5, <2>6, <2>8
    <3>2. c = t
      <4> HIDE DEF exact
      <4> QED
        BY <3>1
    <3>3. exact # {}
      BY <3>1
    <3> HIDE DEF exact, limit, c, sat, over
    <3> QED
      BY <1>1, <1>2, <1>4, <3>1, <3>2, <3>3, Zenon
  <2> QED
    BY <2>7, <2>8
<1> QED
  BY <1>3, <1>4

-----------------------------------------------------------------------------
(* Shifts.                                                                 *)

(* A shift to the left moves bits up and clears those below.               *)
LEMMA BitOfLeftShift ==
  ASSUME NEW x \in Int, NEW s \in Nat, NEW k \in Nat
  PROVE  Bit(x * 2^s, k) = IF k >= s THEN Bit(x, k - s) ELSE 0
<1> DEFINE p == 2^s
<1>1. p \in Nat \ {0}
  BY PowerPositive
<1>2. CASE k >= s
  <2> DEFINE q == 2^(k - s)
             y == x * p
  <2>1. k - s \in Nat /\ s + (k - s) = k
    BY <1>2
  <2>2. q \in Nat \ {0}
    BY <2>1, PowerPositive
  <2>3. 2^k = p * q
    BY <2>1, PowerSum, Zenon
  <2> HIDE DEF p, q
  <2>4. y \in Int
    BY <1>1
  <2>5. y \div p = x
    <3>1. y = x * p + 0 /\ 0 < p
      BY <1>1, <2>4
    <3> HIDE DEF y
    <3> QED
      BY <1>1, <2>4, <3>1, QuotientIs
  <2> HIDE DEF y
  <2>6. y \div (p * q) = x \div q
    BY <1>1, <2>2, <2>4, <2>5, QuotientOfQuotient
  <2>7. Bit(y, k) = Bit(x, k - s)
    BY <2>3, <2>6, Zenon DEF Bit, q
  <2> QED
    BY <1>2, <2>7 DEF y, p
<1>3. CASE ~(k >= s)
  <2> DEFINE z == 0
  <2>1. z \in Int /\ k < s
    BY <1>3
  <2> HIDE DEF z
  <2>2. Bit(z + x * p, k) = Bit(z, k)
    BY <2>1, BitBelow
  <2>3. Bit(z, k) = 0
    <3> DEFINE m == 2^k
    <3>1. m \in Nat \ {0}
      BY PowerPositive
    <3> HIDE DEF m
    <3>2. 0 \div m = 0 /\ 0 % 2 = 0
      BY <3>1
    <3> QED
      BY <3>2, Zenon DEF Bit, z, m
  <2>4. z + x * p = x * p
    <3> HIDE DEF p
    <3> QED
      BY <1>1 DEF z
  <2> QED
    BY <1>3, <2>2, <2>3, <2>4
<1> QED
  BY <1>2, <1>3

(* A quotient by a power of two has the bits from there on.                *)
LEMMA BitOfRightShift ==
  ASSUME NEW x \in Int, NEW s \in Nat, NEW k \in Nat
  PROVE  x \div 2^s \in Int /\ Bit(x \div 2^s, k) = Bit(x, k + s)
<1> DEFINE p == 2^s
           q == 2^k
<1>1. p \in Nat \ {0} /\ q \in Nat \ {0}
  BY PowerPositive
<1>2. 2^(k + s) = p * q
  <2>1. s + k = k + s
    OBVIOUS
  <2> QED
    BY <2>1, PowerSum, Zenon
<1> HIDE DEF p, q
<1>3. x \div p \in Int
  BY <1>1
<1>4. (x \div p) \div q = x \div (p * q)
  <2>1. x \in Int
    OBVIOUS
  <2> QED
    BY <1>1, <2>1, QuotientOfQuotient, Zenon
<1> QED
  BY <1>2, <1>3, <1>4, Zenon DEF Bit, p, q

LEMMA ProductGrows ==
  ASSUME NEW a \in Nat, NEW c \in Nat, NEW q \in Nat, a <= c
  PROVE  a * q <= c * q
<1>1. (c - a) * q >= 0
  OBVIOUS
<1>2. (c - a) * q = c * q - a * q
  OBVIOUS
<1> DEFINE x == a * q
           y == c * q
           z == (c - a) * q
<1>3. x \in Int /\ y \in Int /\ z \in Int /\ z >= 0 /\ z = y - x
  BY <1>1, <1>2
<1> HIDE DEF x, y, z
<1>4. x <= y
  BY <1>3
<1> QED
  BY <1>4 DEF x, y

(* What is shifted out on one side comes in on the other.                  *)
LEMMA BitOfRotation ==
  ASSUME NEW w \in Nat, NEW t \in 0 .. w, NEW u \in Nat, u < 2^w, NEW k \in 0 .. w - 1
  PROVE  /\ u * 2^t + u \div 2^(w - t) \in Int
         /\ Bit(u * 2^t + u \div 2^(w - t), k) =
              IF k >= t THEN Bit(u, k - t) ELSE Bit(u, k + (w - t))
<1> DEFINE p == 2^t
           g == 2^(w - t)
           h == u \div g
           y == u * p + h
<1>1. t \in Nat /\ w - t \in Nat /\ t + (w - t) = w /\ k \in Nat
  OBVIOUS
<1>2. p \in Nat \ {0} /\ g \in Nat \ {0}
  BY <1>1, PowerPositive
<1>3. 2^w = p * g
  BY <1>1, PowerSum, Zenon
<1> HIDE DEF p, g
<1>4. h \in Int /\ 0 <= h /\ h * g <= u
  BY <1>2
<1>5. u < p * g
  BY <1>3, Zenon
<1> HIDE DEF h
<1>6. h < p
  <2>1. SUFFICES ASSUME p <= h PROVE FALSE
    BY <1>2, <1>4
  <2> DEFINE a == p * g
             b == h * g
  <2>2. a <= b
    BY <1>2, <1>4, <2>1, ProductGrows
  <2>3. a \in Int /\ b \in Int /\ b <= u /\ u < a
    BY <1>2, <1>4, <1>5
  <2> HIDE DEF a, b
  <2> QED
    BY <2>2, <2>3
<1>7. y \in Int /\ u * p \in Int
  BY <1>2, <1>4
<1>8. CASE k >= t
  <2> DEFINE q == 2^(k - t)
  <2>1. k - t \in Nat /\ t + (k - t) = k
    BY <1>1, <1>8
  <2>2. q \in Nat \ {0}
    BY <2>1, PowerPositive
  <2>3. 2^k = p * q
    BY <1>1, <2>1, PowerSum, Zenon DEF p
  <2> HIDE DEF q
  <2>4. y \div p = u
    <3>1. y = u * p + h
      OBVIOUS
    <3> HIDE DEF y
    <3> QED
      BY <1>2, <1>4, <1>6, <1>7, <3>1, QuotientIs
  <2> HIDE DEF y
  <2>5. y \div (p * q) = u \div q
    BY <1>2, <1>7, <2>2, <2>4, QuotientOfQuotient
  <2>6. Bit(y, k) = Bit(u, k - t)
    BY <2>3, <2>5, Zenon DEF Bit, q
  <2> QED
    BY <1>7, <1>8, <2>6 DEF y, h, p, g
<1>9. CASE ~(k >= t)
  <2>1. Bit(h + u * p, k) = Bit(h, k)
    BY <1>1, <1>4, <1>9, BitBelow DEF p
  <2>2. Bit(h, k) = Bit(u, k + (w - t))
    <3>1. u \in Int
      OBVIOUS
    <3> QED
      BY <1>1, <3>1, BitOfRightShift DEF h, g
  <2>3. y = h + u * p
    BY <1>4, <1>7
  <2>4. Bit(y, k) = Bit(u, k + (w - t))
    BY <2>1, <2>2, <2>3, Zenon
  <2> HIDE DEF y
  <2> QED
    BY <1>7, <1>9, <2>4 DEF y, h, p, g
<1> QED
  BY <1>8, <1>9

(* A count cut to the bits of an i32 and then to the width is the count    *)
(* reduced by the width: both widths divide 2^BitsI32.                     *)
LEMMA ShiftIs ==
  ASSUME NEW w \in IntWidths, NEW b \in Int
  PROVE  Shift(w, b) = b % w /\ b % w \in 0 .. w - 1
<1>1. w \in Nat \ {0, 1} /\ 2^BitsI32 % w = 0
  BY NumericAssumption DEF IntWidths
<1> DEFINE m == 2^BitsI32
<1>2. m \in Nat \ {0}
  BY WidthTypes, PowerPositive
<1> HIDE DEF m
<1>3. m % w = 0
  BY <1>1 DEF m
<1>4. (b % m) % w = b % w
  BY <1>1, <1>2, <1>3, RemainderOfRemainder
<1>5. b % w \in 0 .. w - 1
  BY <1>1
<1> QED
  BY <1>4, <1>5, Zenon DEF Shift, AsUnsigned, m

(* Neither the sign nor the width changes the bits below the width.        *)
LEMMA UnsignedBit ==
  ASSUME NEW w \in Nat, NEW a \in Int, NEW k \in 0 .. w - 1
  PROVE  Bit(AsUnsigned(w, a), k) = Bit(a, k) /\ BitAt(w, a, k) = Bit(a, k)
<1> DEFINE u == AsUnsigned(w, a)
<1>1. u \in Nat /\ Same(w, u, a)
  BY UnsignedType
<1> HIDE DEF u
<1>2. Bit(u, k) = Bit(a, k)
  <2>1. k \in Nat /\ k < w /\ u \in Int
    BY <1>1
  <2> QED
    BY <1>1, <2>1, SameBits
<1>3. BitAt(w, a, k) = Bit(a, k)
  BY BitAtIs
<1> QED
  BY <1>2, <1>3 DEF u

(* i32.shl and i64.shl, of any count.                                      *)
LEMMA ShlExact ==
  ASSUME NEW w \in IntWidths, NEW a \in Int, NEW b \in Int, NEW k \in 0 .. w - 1
  PROVE  BitAt(w, Shl(w, a, b), k) = BitFrom("shl", w, a, k, b % w)
<1> DEFINE n == b % w
           x == a * 2^n
<1>1. Shift(w, b) = n /\ n \in 0 .. w - 1 /\ w \in Nat
  BY ShiftIs, WidthTypes DEF IntWidths
<1>2. Shl(w, a, b) = AsSigned(w, x)
  BY <1>1, Zenon DEF Shl
<1> HIDE DEF n
<1>3. 2^n \in Nat
  BY <1>1, PowerPositive
<1>4. x \in Int
  <2> DEFINE p == 2^n
  <2>1. p \in Nat
    BY <1>3
  <2> HIDE DEF p
  <2>2. a * p \in Int
    BY <2>1
  <2> QED
    BY <2>2 DEF p
<1>5. Bit(x, k) = IF k >= n THEN Bit(a, k - n) ELSE 0
  <2>1. n \in Nat /\ k \in Nat
    BY <1>1
  <2> QED
    BY <2>1, BitOfLeftShift, Zenon
<1>6. k >= n => BitAt(w, a, k - n) = Bit(a, k - n)
  <2>1. k >= n => k - n \in 0 .. w - 1
    BY <1>1
  <2> QED
    BY <1>1, <2>1, UnsignedBit
<1> HIDE DEF x
<1>7. BitAt(w, AsSigned(w, x), k) = Bit(x, k)
  BY <1>1, <1>4, BitAtSigned
<1>8. BitFrom("shl", w, a, k, n) = IF k >= n THEN BitAt(w, a, k - n) ELSE 0
  BY DEF BitFrom
<1>9. BitAt(w, AsSigned(w, x), k) = BitFrom("shl", w, a, k, n)
  BY <1>5, <1>6, <1>7, <1>8
<1> QED
  BY <1>2, <1>9, Zenon DEF n

(* shr_s: the bits above are copies of the sign.                           *)
LEMMA ShrSExact ==
  ASSUME NEW w \in IntWidths, NEW a \in Lowest(w) .. Highest(w), NEW b \in Int,
         NEW k \in 0 .. w - 1
  PROVE  /\ ShrS(w, a, b) \in Lowest(w) .. Highest(w)
         /\ BitAt(w, ShrS(w, a, b), k) = BitFrom("shr_s", w, a, k, b % w)
<1> DEFINE n == b % w
           p == 2^n
           x == a \div p
           h == 2^(w - 1)
<1>1. Shift(w, b) = n /\ n \in 0 .. w - 1 /\ w \in Nat \ {0}
  BY ShiftIs, WidthTypes DEF IntWidths
<1>2. ShrS(w, a, b) = x
  BY <1>1, Zenon DEF ShrS
<1> HIDE DEF n
<1>3. p \in Nat \ {0}
  BY <1>1, PowerPositive
<1>4. h \in Nat
  <2>1. w - 1 \in Nat
    BY <1>1
  <2> QED
    BY <2>1, PowerPositive
<1>5. a \in Int /\ -h <= a /\ a <= h - 1
  BY <1>4 DEF Lowest, Highest
<1>6. x \in Int /\ Bit(x, k) = Bit(a, k + n)
  BY <1>1, <1>5, BitOfRightShift
<1> HIDE DEF x
<1>7. BitAt(w, x, k) = Bit(x, k)
  BY <1>1, <1>6, BitAtIs
<1> DEFINE i == IF k + n < w THEN k + n ELSE w - 1
<1>8. i \in 0 .. w - 1 /\ k + n \in Nat
  BY <1>1
<1>9. Bit(a, k + n) = Bit(a, i)
  <2>1. CASE k + n < w
    BY <2>1
  <2>2. CASE ~(k + n < w)
    <3> DEFINE j == k + n
    <3>1. j \in Nat /\ w - 1 <= j
      BY <1>1, <2>2
    <3> HIDE DEF j
    <3>2. Bit(a, j) = Bit(a, w - 1)
      BY <1>1, <3>1, BitOfSign
    <3> QED
      BY <2>2, <3>2 DEF j
  <2> QED
    BY <2>1, <2>2
<1>10. BitFrom("shr_s", w, a, k, n) = BitAt(w, a, i)
  BY DEF BitFrom
<1> HIDE DEF i
<1>11. BitAt(w, a, i) = Bit(a, i)
  BY <1>1, <1>5, <1>8, UnsignedBit
<1>12. BitAt(w, x, k) = BitFrom("shr_s", w, a, k, n)
  BY <1>6, <1>7, <1>9, <1>10, <1>11, Zenon
<1>13. x \in Lowest(w) .. Highest(w)
  <2> DEFINE d == a \div p
  <2>1. d \in Int
    BY <1>3, <1>5
  <2>2. -h <= d /\ d <= h - 1
    <3>1. ~(d <= -h - 1)
      <4>1. SUFFICES ASSUME d <= -h - 1 PROVE FALSE
        OBVIOUS
      <4> DEFINE r == a % p
      <4>2. a = d * p + r /\ r \in Nat /\ r < p
        <5> HIDE DEF p
        <5> QED
          BY <1>3, <1>5
      <4> HIDE DEF d, r, h, p
      <4>3. -d \in Nat /\ h + 1 \in Nat /\ h + 1 <= -d
        BY <1>4, <2>1, <4>1
      <4>4. (h + 1) * p <= (-d) * p
        <5> DEFINE e == -d
                   f == h + 1
        <5>1. e \in Nat /\ f \in Nat /\ f <= e /\ p \in Nat
          BY <1>3, <4>3
        <5> HIDE DEF e, f
        <5>2. f * p <= e * p
          BY <5>1, ProductGrows
        <5> QED
          BY <5>2 DEF e, f
      <4>5. (h + 1) * p = h * p + p /\ (-d) * p = -(d * p)
        BY <1>3, <1>4, <2>1
      <4>6. h * p >= h
        BY <1>3, <1>4
      <4> DEFINE s == d * p
                 t == h * p
      <4>7. s \in Int /\ t \in Int /\ t + p <= -s /\ t >= h /\ a = s + r
        BY <1>3, <1>4, <2>1, <4>2, <4>4, <4>5, <4>6
      <4> HIDE DEF s, t
      <4> QED
        BY <1>3, <1>4, <1>5, <4>2, <4>7
    <3>2. ~(d >= h)
      <4>1. SUFFICES ASSUME d >= h PROVE FALSE
        OBVIOUS
      <4>2. d * p <= a
        <5> HIDE DEF p
        <5> QED
          BY <1>3, <1>5
      <4> HIDE DEF d, h, p
      <4>3. d * p >= d
        BY <1>3, <1>4, <2>1, <4>1
      <4> DEFINE s == d * p
      <4>4. s \in Int /\ s <= a /\ s >= d
        BY <1>3, <2>1, <4>2, <4>3
      <4> HIDE DEF s
      <4> QED
        BY <1>4, <1>5, <2>1, <4>1, <4>4
    <3> HIDE DEF d, h
    <3> QED
      BY <1>4, <2>1, <3>1, <3>2
  <2> HIDE DEF d
  <2>3. d \in Lowest(w) .. Highest(w)
    BY <1>4, <2>1, <2>2 DEF Lowest, Highest
  <2> QED
    BY <2>3, Zenon DEF d, x
<1> QED
  BY <1>2, <1>12, <1>13, Zenon DEF n

(* shr_u: the bits above are clear.                                        *)
LEMMA ShrUExact ==
  ASSUME NEW w \in IntWidths, NEW a \in Int, NEW b \in Int, NEW k \in 0 .. w - 1
  PROVE  BitAt(w, ShrU(w, a, b), k) = BitFrom("shr_u", w, a, k, b % w)
<1> DEFINE n == b % w
           u == AsUnsigned(w, a)
           x == u \div 2^n
<1>1. Shift(w, b) = n /\ n \in 0 .. w - 1 /\ w \in Nat
  BY ShiftIs, WidthTypes DEF IntWidths
<1>2. ShrU(w, a, b) = AsSigned(w, x)
  BY <1>1, Zenon DEF ShrU
<1>3. u \in Nat /\ u < 2^w
  BY <1>1, UnsignedType
<1> HIDE DEF n, u
<1>4. x \in Int /\ Bit(x, k) = Bit(u, k + n)
  BY <1>1, <1>3, BitOfRightShift
<1> HIDE DEF x
<1>5. BitAt(w, AsSigned(w, x), k) = Bit(x, k)
  BY <1>1, <1>4, BitAtSigned
<1> DEFINE i == k + n
<1>6. BitFrom("shr_u", w, a, k, n) = IF i < w THEN BitAt(w, a, i) ELSE 0
  BY DEF BitFrom
<1>7. i \in Nat
  BY <1>1
<1> HIDE DEF i
<1>8. Bit(u, i) = IF i < w THEN BitAt(w, a, i) ELSE 0
  <2>1. CASE i < w
    <3>1. i \in 0 .. w - 1
      BY <1>1, <1>7, <2>1
    <3>2. Bit(u, i) = BitAt(w, a, i)
      BY <1>1, <3>1, UnsignedBit DEF u
    <3> QED
      BY <2>1, <3>2
  <2>2. CASE ~(i < w)
    <3> DEFINE m == 2^w
    <3>1. m \in Nat
      BY <1>1, PowerPositive
    <3>2. w <= i /\ u < m /\ -m <= u /\ ~(u < 0)
      <4> HIDE DEF m
      <4>1. u < m
        BY <1>3 DEF m
      <4> QED
        BY <1>1, <1>3, <1>7, <2>2, <3>1, <4>1
    <3>3. Bit(u, i) = IF u < 0 THEN 1 ELSE 0
      BY <1>1, <1>3, <1>7, <3>2, BitAbove
    <3> QED
      BY <2>2, <3>2, <3>3
  <2> QED
    BY <2>1, <2>2
<1>9. BitAt(w, AsSigned(w, x), k) = BitFrom("shr_u", w, a, k, n)
  BY <1>4, <1>5, <1>6, <1>8 DEF i
<1> QED
  BY <1>2, <1>9, Zenon DEF n

(* The place a bit comes from, without a remainder.                        *)
LEMMA PlaceIs ==
  ASSUME NEW w \in Nat \ {0}, NEW i \in Int, -w <= i, i < 2 * w
  PROVE  i % w = IF i < 0 THEN i + w ELSE IF i < w THEN i ELSE i - w
<1> DEFINE z == 0
           e == 1
           d == -1
<1>1. CASE i < 0
  <2>1. i = d * w + (i + w) /\ d \in Int /\ i + w \in Int /\ 0 <= i + w /\ i + w < w
    BY <1>1
  <2> DEFINE r == i + w
  <2>2. i = d * w + r /\ d \in Int /\ r \in Int /\ 0 <= r /\ r < w
    BY <2>1
  <2> HIDE DEF d, r
  <2>3. i % w = r
    BY <2>2, QuotientIs
  <2> QED
    BY <1>1, <2>3 DEF r
<1>2. CASE 0 <= i /\ i < w
  BY <1>2
<1>3. CASE w <= i
  <2> DEFINE r == i - w
  <2>1. i = e * w + r /\ e \in Int /\ r \in Int /\ 0 <= r /\ r < w
    BY <1>3
  <2> HIDE DEF e, r
  <2>2. i % w = r
    BY <2>1, QuotientIs
  <2> QED
    BY <1>3, <2>2 DEF r
<1> QED
  BY <1>1, <1>2, <1>3

(* A rotation of t places is a sum of two shifts that share no bit.        *)
LEMMA RotationExact ==
  ASSUME NEW w \in Nat \ {0}, NEW a \in Int, NEW t \in 0 .. w, NEW k \in 0 .. w - 1
  PROVE  LET u == AsUnsigned(w, a)
             x == u * 2^t + u \div 2^(w - t)
         IN  /\ x \in Int
             /\ BitAt(w, AsSigned(w, x), k) = BitAt(w, a, IF k >= t THEN k - t ELSE k + (w - t))
<1> DEFINE u == AsUnsigned(w, a)
           x == u * 2^t + u \div 2^(w - t)
           i == IF k >= t THEN k - t ELSE k + (w - t)
<1>1. u \in Nat /\ u < 2^w
  BY UnsignedType
<1>2. i \in 0 .. w - 1 /\ w \in Nat
  OBVIOUS
<1>3. x \in Int /\ Bit(x, k) = IF k >= t THEN Bit(u, k - t) ELSE Bit(u, k + (w - t))
  <2> HIDE DEF u
  <2> QED
    BY <1>1, <1>2, BitOfRotation
<1>4. Bit(x, k) = Bit(u, i)
  <2> HIDE DEF x, u
  <2> QED
    BY <1>3
<1> HIDE DEF i
<1>5. Bit(u, i) = BitAt(w, a, i)
  BY <1>2, UnsignedBit
<1> HIDE DEF x, u
<1>6. BitAt(w, AsSigned(w, x), k) = Bit(x, k)
  BY <1>2, <1>3, BitAtSigned
<1>7. x \in Int /\ BitAt(w, AsSigned(w, x), k) = BitAt(w, a, i)
  BY <1>3, <1>4, <1>5, <1>6, Zenon
<1> QED
  BY <1>7 DEF i, x, u

(* rotl, of any count.                                                     *)
LEMMA RotlExact ==
  ASSUME NEW w \in IntWidths, NEW a \in Int, NEW b \in Int, NEW k \in 0 .. w - 1
  PROVE  /\ Rotl(w, a, b) \in Lowest(w) .. Highest(w)
         /\ BitAt(w, Rotl(w, a, b), k) = BitFrom("rotl", w, a, k, b % w)
<1> DEFINE n == b % w
           u == AsUnsigned(w, a)
           x == u * 2^n + u \div 2^(w - n)
<1>1. Shift(w, b) = n /\ n \in 0 .. w - 1 /\ w \in Nat \ {0}
  BY ShiftIs, WidthTypes DEF IntWidths
<1>2. Rotl(w, a, b) = AsSigned(w, x)
  BY <1>1, Zenon DEF Rotl
<1> HIDE DEF n
<1> DEFINE i == IF k >= n THEN k - n ELSE k + (w - n)
<1>3. x \in Int /\ BitAt(w, AsSigned(w, x), k) = BitAt(w, a, i)
  <2>1. n \in 0 .. w
    BY <1>1
  <2> QED
    BY <1>1, <2>1, RotationExact, Zenon
<1> HIDE DEF x
<1>4. i = (k - n) % w
  <2> DEFINE j == k - n
  <2>1. j \in Int /\ -w <= j /\ j < 2 * w
    BY <1>1
  <2>2. i = IF j < 0 THEN j + w ELSE IF j < w THEN j ELSE j - w
    BY <1>1
  <2> HIDE DEF j
  <2>3. j % w = IF j < 0 THEN j + w ELSE IF j < w THEN j ELSE j - w
    BY <1>1, <2>1, PlaceIs
  <2> QED
    BY <2>2, <2>3, Zenon DEF j
<1> HIDE DEF i
<1>5. BitFrom("rotl", w, a, k, n) = BitAt(w, a, (k - n) % w)
  BY DEF BitFrom
<1>6. AsSigned(w, x) \in Lowest(w) .. Highest(w)
  BY <1>1, <1>3, SignedType
<1> QED
  BY <1>2, <1>3, <1>4, <1>5, <1>6, Zenon DEF n

(* rotr, of any count.                                                     *)
LEMMA RotrExact ==
  ASSUME NEW w \in IntWidths, NEW a \in Int, NEW b \in Int, NEW k \in 0 .. w - 1
  PROVE  /\ Rotr(w, a, b) \in Lowest(w) .. Highest(w)
         /\ BitAt(w, Rotr(w, a, b), k) = BitFrom("rotr", w, a, k, b % w)
<1> DEFINE n == b % w
           u == AsUnsigned(w, a)
           x == u \div 2^n + u * 2^(w - n)
           t == w - n
           y == u * 2^t + u \div 2^(w - t)
<1>1. Shift(w, b) = n /\ n \in 0 .. w - 1 /\ w \in Nat \ {0}
  BY ShiftIs, WidthTypes DEF IntWidths
<1>2. Rotr(w, a, b) = AsSigned(w, x)
  BY <1>1, Zenon DEF Rotr
<1> HIDE DEF n
<1>3. t \in 0 .. w /\ t \in Nat /\ w - t = n /\ n \in Nat
  BY <1>1
<1>4. x = y
  <2> DEFINE p == 2^n
             q == 2^(w - n)
             c == u \div p
             d == u * q
  <2>1. p \in Nat \ {0} /\ q \in Nat \ {0} /\ u \in Nat
    BY <1>1, <1>3, PowerPositive, UnsignedType
  <2>2. x = c + d
    OBVIOUS
  <2>3. y = d + c
    BY <1>3, Zenon
  <2> HIDE DEF p, q, u, x, y
  <2>4. c \in Int /\ d \in Int
    BY <2>1
  <2> HIDE DEF c, d
  <2> QED
    BY <2>2, <2>3, <2>4
<1> HIDE DEF t
<1> DEFINE i == IF k >= t THEN k - t ELSE k + (w - t)
<1>5. y \in Int /\ BitAt(w, AsSigned(w, y), k) = BitAt(w, a, i)
  BY <1>1, <1>3, RotationExact, Zenon
<1> HIDE DEF x, y
<1>6. i = (k + n) % w
  <2> DEFINE j == k + n
  <2>1. j \in Int /\ -w <= j /\ j < 2 * w
    BY <1>1
  <2>2. i = IF j < 0 THEN j + w ELSE IF j < w THEN j ELSE j - w
    BY <1>1, <1>3 DEF t
  <2> HIDE DEF j
  <2>3. j % w = IF j < 0 THEN j + w ELSE IF j < w THEN j ELSE j - w
    BY <1>1, <2>1, PlaceIs
  <2> QED
    BY <2>2, <2>3, Zenon DEF j
<1> HIDE DEF i
<1>7. BitFrom("rotr", w, a, k, n) = BitAt(w, a, (k + n) % w)
  BY DEF BitFrom
<1>8. AsSigned(w, y) \in Lowest(w) .. Highest(w)
  BY <1>1, <1>5, SignedType
<1> QED
  BY <1>2, <1>4, <1>5, <1>6, <1>7, <1>8, Zenon DEF n

-----------------------------------------------------------------------------
(* Division.                                                               *)

(* Rust's quotient is rounded towards zero, and only division by 1 or -1   *)
(* does not halve it.                                                      *)
LEMMA QuotientExact ==
  ASSUME NEW a \in Int, NEW b \in Int \ {0}
  PROVE  /\ Quotient(a, b) \in Int /\ Leaves(a, b, a - Quotient(a, b) * b)
         /\ Absolute(a - Quotient(a, b) * b) < Absolute(b)
         /\ Absolute(Quotient(a, b)) <= Absolute(a)
         /\ b # 1 /\ b # -1 => 2 * Absolute(Quotient(a, b)) <= Absolute(a)
<1> DEFINE m == Absolute(a)
           n == Absolute(b)
           d == m \div n
           s == m % n
           q == Quotient(a, b)
           f == q * b
           e == d * n
           r == a - f
<1>1. /\ m \in Nat /\ n \in Nat \ {0}
      /\ m = (IF a < 0 THEN -a ELSE a) /\ n = (IF b < 0 THEN -b ELSE b)
  BY DEF Absolute
<1>2. q = IF (a < 0) = (b < 0) THEN d ELSE -d
  BY DEF Quotient
<1>3. d \in Nat /\ s \in Nat /\ s < n /\ m = e + s
  <2> HIDE DEF m, n
  <2>1. m \in Int /\ d \in Nat
    BY <1>1
  <2> QED
    BY <1>1, <2>1, QuotientType
<1> HIDE DEF m, n, d, s, q
<1>4. q \in Int
  BY <1>2, <1>3
<1>5. f = (IF a < 0 THEN -e ELSE e) /\ f \in Int /\ e \in Nat
  <2>1. e \in Nat /\ f \in Int
    BY <1>1, <1>3, <1>4
  <2>2. CASE a < 0 /\ b < 0
    <3>1. q = d /\ b = -n
      BY <1>1, <1>2, <2>2
    <3>2. d * (-n) = -(d * n)
      BY <1>1, <1>3
    <3>3. f = -e
      BY <3>1, <3>2, Zenon
    <3> HIDE DEF e, f
    <3> QED
      BY <2>1, <2>2, <3>3
  <2>3. CASE a < 0 /\ ~(b < 0)
    <3>1. q = -d /\ b = n
      BY <1>1, <1>2, <2>3
    <3>2. (-d) * n = -(d * n)
      BY <1>1, <1>3
    <3>3. f = -e
      BY <3>1, <3>2, Zenon
    <3> HIDE DEF e, f
    <3> QED
      BY <2>1, <2>3, <3>3
  <2>4. CASE ~(a < 0) /\ b < 0
    <3>1. q = -d /\ b = -n
      BY <1>1, <1>2, <2>4
    <3>2. (-d) * (-n) = d * n
      BY <1>1, <1>3
    <3>3. f = e
      BY <3>1, <3>2, Zenon
    <3> HIDE DEF e, f
    <3> QED
      BY <2>1, <2>4, <3>3
  <2>5. CASE ~(a < 0) /\ ~(b < 0)
    <3>1. q = d /\ b = n
      BY <1>1, <1>2, <2>5
    <3>2. f = e
      BY <3>1, Zenon
    <3> HIDE DEF e, f
    <3> QED
      BY <2>1, <2>5, <3>2
  <2> QED
    BY <2>1, <2>2, <2>3, <2>4, <2>5
<1>6. (a - r) % n = 0
  <2> DEFINE j == IF a < 0 THEN -d ELSE d
             z == 0
  <2>1. j \in Int /\ z \in Int
    BY <1>3
  <2>2. a - r = f
    BY <1>5
  <2>3. f = z + j * n
    <3>1. (-d) * n = -e
      BY <1>1, <1>3
    <3> HIDE DEF f, e
    <3>2. f = j * n
      BY <1>5, <3>1 DEF e
    <3>3. j * n \in Int
      BY <1>5, <3>2
    <3> QED
      BY <3>2, <3>3
  <2> HIDE DEF j, z, f, r
  <2>4. (z + j * n) % n = z % n
    BY <1>1, <2>1, MultipleAdded
  <2>5. z % n = 0
    BY <1>1 DEF z
  <2> QED
    BY <2>2, <2>3, <2>4, <2>5, Zenon
<1> HIDE DEF e, f
<1>7. r = (IF a < 0 THEN -s ELSE s) /\ Absolute(r) = s
  <2>1. r = IF a < 0 THEN -s ELSE s
    BY <1>1, <1>3, <1>5
  <2> HIDE DEF r
  <2> QED
    BY <1>3, <2>1 DEF Absolute
<1> HIDE DEF r
<1>8. Leaves(a, b, r)
  <2>1. r = 0 \/ (r < 0) = (a < 0)
    BY <1>3, <1>7
  <2>2. Absolute(r) < n
    BY <1>3, <1>7
  <2> QED
    BY <1>6, <2>1, <2>2 DEF Leaves, n
<1>9. Absolute(q) = d
  BY <1>2, <1>3 DEF Absolute
<1>10. d <= m
  <2>1. d <= d * n
    BY <1>1, <1>3
  <2> QED
    BY <1>1, <1>3, <1>5, <2>1 DEF e
<1>11. b # 1 /\ b # -1 => 2 * d <= m
  <2>1. SUFFICES ASSUME b # 1, b # -1 PROVE 2 * d <= m
    OBVIOUS
  <2>2. n >= 2
    BY <1>1, <2>1
  <2>3. (n - 2) * d >= 0 /\ (n - 2) * d = d * n - 2 * d
    BY <1>3, <2>2, <1>1
  <2> DEFINE g == (n - 2) * d
  <2>4. g \in Int /\ g >= 0 /\ g = e - 2 * d
    BY <1>1, <1>3, <2>3 DEF e
  <2> HIDE DEF g
  <2> QED
    BY <1>1, <1>3, <1>5, <2>4
<1> QED
  BY <1>3, <1>4, <1>7, <1>8, <1>9, <1>10, <1>11 DEF r, f, q, m, n

(* A number of w bits, with and without a sign.                            *)
LEMMA RangeIs ==
  ASSUME NEW w \in Nat \ {0, 1}, NEW x \in Lowest(w) .. Highest(w)
  PROVE  /\ 2^(w - 1) \in Nat /\ 2^(w - 1) >= 2 /\ 2^w = 2 * 2^(w - 1)
         /\ x \in Int /\ -(2^(w - 1)) <= x /\ x < 2^(w - 1)
         /\ AsUnsigned(w, x) = IF x < 0 THEN x + 2^w ELSE x
<1> DEFINE h == 2^(w - 1)
           g == 2^(w - 2)
           m == 2^w
<1>1. h = 2 * g /\ m = 2 * h /\ g \in Nat \ {0}
  <2>1. w - 1 \in Nat /\ w - 2 \in Nat /\ (w - 2) + 1 = w - 1 /\ (w - 1) + 1 = w
    OBVIOUS
  <2> QED
    BY <2>1, PowerDoubles, PowerPositive, Zenon
<1> HIDE DEF g
<1>2. h \in Nat /\ h >= 2
  BY <1>1
<1>3. x \in Int /\ -h <= x /\ x < h
  BY <1>2 DEF Lowest, Highest
<1> HIDE DEF h, m
<1>4. x % m = IF x < 0 THEN x + m ELSE x
  <2> DEFINE i == -1
             r == x + m
             z == 0
  <2>1. m \in Nat \ {0}
    BY <1>1, <1>2
  <2>2. CASE x < 0
    <3>1. i \in Int /\ r \in Int /\ x = i * m + r /\ 0 <= r /\ r < m
      BY <1>1, <1>2, <1>3, <2>2
    <3> HIDE DEF i, r
    <3>2. x % m = r
      BY <1>3, <2>1, <3>1, QuotientIs
    <3> QED
      BY <2>2, <3>2 DEF r
  <2>3. CASE ~(x < 0)
    <3>1. z \in Int /\ x = z * m + x /\ 0 <= x /\ x < m
      BY <1>1, <1>2, <1>3, <2>3
    <3> HIDE DEF z
    <3>2. x % m = x
      BY <1>3, <2>1, <3>1, QuotientIs
    <3> QED
      BY <2>3, <3>2
  <2> QED
    BY <2>2, <2>3
<1> QED
  BY <1>1, <1>2, <1>3, <1>4 DEF AsUnsigned, h, m

(* Without its sign a number fits where it came from.                      *)
LEMMA UnsignedOfSigned ==
  ASSUME NEW w \in Nat \ {0}, NEW u \in Nat, u < 2^w
  PROVE  AsUnsigned(w, AsSigned(w, u)) = u
<1> DEFINE v == AsSigned(w, u)
<1>1. v \in Lowest(w) .. Highest(w) /\ Same(w, v, u)
  <2>1. u \in Int
    OBVIOUS
  <2> QED
    BY <2>1, SignedType
<1> HIDE DEF v
<1>2. v \in Int
  BY <1>1
<1>3. AsUnsigned(w, v) = AsUnsigned(w, u)
  <2>1. u \in Int /\ w \in Nat
    OBVIOUS
  <2> QED
    BY <1>1, <1>2, <2>1, SameUnsigned
<1>4. AsUnsigned(w, u) = u
  BY UnsignedIs
<1> QED
  BY <1>3, <1>4 DEF v

(* div_s has no result for the lowest number by -1, and for all others the *)
(* quotient is within the type.                                            *)
LEMMA DivSExact ==
  ASSUME NEW w \in Nat \ {0, 1}, NEW a \in Lowest(w) .. Highest(w),
         NEW b \in Lowest(w) .. Highest(w), b # 0
  PROVE  /\ a = Lowest(w) /\ b = -1 => DivS(w, a, b) = Raises("IntegerOverflow")
         /\ ~(a = Lowest(w) /\ b = -1) =>
              \E q \in Lowest(w) .. Highest(w) :
                DivS(w, a, b) = Gives(q) /\ Leaves(a, b, a - q * b)
<1> DEFINE h == 2^(w - 1)
           q == Quotient(a, b)
<1>1. /\ h \in Nat /\ h >= 2 /\ a \in Int /\ b \in Int
      /\ -h <= a /\ a < h /\ -h <= b /\ b < h
  BY RangeIs
<1>2. /\ q \in Int /\ Leaves(a, b, a - q * b) /\ Absolute(q) <= Absolute(a)
      /\ b # 1 /\ b # -1 => 2 * Absolute(q) <= Absolute(a)
  BY <1>1, QuotientExact
<1>3. Lowest(w) = -h /\ Highest(w) = h - 1
  BY DEF Lowest, Highest
<1>4. b = 1 => q = a
  <2>1. SUFFICES ASSUME b = 1 PROVE q = a
    OBVIOUS
  <2> DEFINE m == Absolute(a)
  <2>2. Absolute(b) = 1 /\ ~(b < 0) /\ m \in Nat /\ m = IF a < 0 THEN -a ELSE a
    BY <1>1, <2>1 DEF Absolute
  <2> HIDE DEF m
  <2>3. m \div 1 = m
    BY <2>2
  <2>4. q = IF (a < 0) = (b < 0) THEN m ELSE -m
    BY <2>2, <2>3, Zenon DEF Quotient, m
  <2> QED
    BY <1>1, <2>2, <2>4
<1> HIDE DEF h, q
<1>5. ASSUME ~(a = Lowest(w) /\ b = -1) PROVE q \in Lowest(w) .. Highest(w)
  <2>1. CASE b = 1
    BY <1>4, <2>1
  <2>2. CASE b # 1 /\ b # -1
    BY <1>1, <1>2, <1>3, <2>2 DEF Absolute
  <2>3. CASE b = -1
    BY <1>1, <1>2, <1>3, <1>5, <2>3 DEF Absolute
  <2> QED
    BY <2>1, <2>2, <2>3
<1>6. DivS(w, a, b) = IF a = Lowest(w) /\ b = -1 THEN Raises("IntegerOverflow") ELSE Gives(q)
  BY DEF DivS, q
<1> QED
  BY <1>2, <1>5, <1>6, Zenon

(* rem_s always has a result, which is 0 for the lowest number by -1.      *)
LEMMA RemSExact ==
  ASSUME NEW w \in Nat \ {0, 1}, NEW a \in Lowest(w) .. Highest(w),
         NEW b \in Lowest(w) .. Highest(w), b # 0
  PROVE  \E r \in Lowest(w) .. Highest(w) : RemS(w, a, b) = Gives(r) /\ Leaves(a, b, r)
<1> DEFINE h == 2^(w - 1)
           f == Quotient(a, b) * b
           r == a - f
<1>1. /\ h \in Nat /\ h >= 2 /\ a \in Int /\ b \in Int
      /\ -h <= a /\ a < h /\ -h <= b /\ b < h
  BY RangeIs
<1>2. Leaves(a, b, r) /\ Absolute(r) < Absolute(b) /\ Quotient(a, b) \in Int
  BY <1>1, QuotientExact
<1>3. r \in Int /\ Remainder(a, b) = r
  <2> DEFINE q == Quotient(a, b)
  <2>1. q \in Int /\ Remainder(a, b) = a - b * q
    BY <1>2 DEF Remainder
  <2> HIDE DEF q
  <2>2. b * q = q * b /\ q * b \in Int
    BY <1>1, <2>1
  <2>3. Remainder(a, b) = r
    BY <2>1, <2>2, Zenon DEF q
  <2>4. f \in Int
    BY <2>2 DEF q
  <2> HIDE DEF f
  <2> QED
    BY <1>1, <2>3, <2>4
<1>4. Lowest(w) = -h /\ Highest(w) = h - 1
  BY DEF Lowest, Highest
<1> HIDE DEF h, r
<1>5. r \in Lowest(w) .. Highest(w)
  BY <1>1, <1>2, <1>3, <1>4 DEF Absolute
<1>6. RemS(w, a, b) = Gives(r)
  BY <1>3, Zenon DEF RemS
<1> QED
  BY <1>2, <1>5, <1>6, Zenon

(* The division of numbers without a sign.                                 *)
LEMMA UnsignedDivision ==
  ASSUME NEW w \in Nat \ {0, 1}, NEW a \in Lowest(w) .. Highest(w),
         NEW b \in Lowest(w) .. Highest(w)
  PROVE  /\ b = 0 <=> AsUnsigned(w, b) = 0
         /\ b # 0 =>
              /\ \E v \in Lowest(w) .. Highest(w) :
                   /\ DivU(w, a, b) = Gives(v)
                   /\ Leaves(AsUnsigned(w, a), AsUnsigned(w, b),
                             AsUnsigned(w, a) - AsUnsigned(w, v) * AsUnsigned(w, b))
              /\ \E v \in Lowest(w) .. Highest(w) :
                   /\ RemU(w, a, b) = Gives(v)
                   /\ Leaves(AsUnsigned(w, a), AsUnsigned(w, b), AsUnsigned(w, v))
<1> DEFINE h == 2^(w - 1)
           m == 2^w
           c == AsUnsigned(w, a)
           d == AsUnsigned(w, b)
<1>1. /\ h \in Nat /\ m = 2 * h /\ b \in Int /\ -h <= b /\ b < h
      /\ d = IF b < 0 THEN b + m ELSE b
  BY RangeIs
<1>2. c \in Nat /\ c < m /\ d \in Nat /\ d < m
  <2>1. a \in Int /\ b \in Int /\ w \in Nat
    BY RangeIs
  <2> QED
    BY <2>1, UnsignedType
<1> HIDE DEF h, c, d
<1>3. b = 0 <=> d = 0
  <2> HIDE DEF m
  <2> QED
    BY <1>1
<1>4. ASSUME b # 0
      PROVE  /\ \E v \in Lowest(w) .. Highest(w) :
                  DivU(w, a, b) = Gives(v) /\ Leaves(c, d, c - AsUnsigned(w, v) * d)
             /\ \E v \in Lowest(w) .. Highest(w) :
                  RemU(w, a, b) = Gives(v) /\ Leaves(c, d, AsUnsigned(w, v))
  <2> DEFINE q == c \div d
             r == c % d
             f == q * d
  <2>1. d \in Nat \ {0}
    BY <1>2, <1>3, <1>4
  <2>2. q \in Nat /\ r \in Nat /\ r < d /\ q <= c /\ c = f + r
    <3>1. c \in Int /\ q \in Nat
      BY <1>2, <2>1
    <3>2. r \in Nat /\ r < d /\ c = f + r
      BY <2>1, <3>1, QuotientType
    <3> HIDE DEF q, r
    <3>3. q <= f
      BY <2>1, <3>1
    <3>4. f \in Nat
      BY <2>1, <3>1
    <3> HIDE DEF f
    <3> QED
      BY <3>1, <3>2, <3>3, <3>4
  <2>3. Quotient(c, d) = q
    <3>1. Absolute(c) = c /\ Absolute(d) = d /\ ~(c < 0) /\ ~(d < 0)
      BY <1>2, <2>1 DEF Absolute
    <3>2. (c < 0) = (d < 0)
      BY <3>1
    <3> QED
      BY <3>1, <3>2, Zenon DEF Quotient
  <2>4. Leaves(c, d, c - f)
    <3>1. c \in Int /\ d \in Int \ {0}
      BY <1>2, <2>1
    <3>2. Leaves(c, d, c - Quotient(c, d) * d)
      BY <3>1, QuotientExact
    <3> QED
      BY <2>3, <3>2, Zenon
  <2>5. c - f = r
    <3>1. f \in Int
      BY <2>1, <2>2
    <3> HIDE DEF f, r
    <3> QED
      BY <2>2, <3>1
  <2> HIDE DEF m
  <2>6. q < m /\ r < m
    <3> HIDE DEF q, r
    <3>1. m \in Nat
      BY <1>1
    <3> QED
      BY <1>2, <2>1, <2>2, <3>1
  <2>7. DivU(w, a, b) = Gives(AsSigned(w, q)) /\ RemU(w, a, b) = Gives(AsSigned(w, r))
    BY <1>4, Zenon DEF DivU, RemU, c, d
  <2> HIDE DEF q, r
  <2>8. ASSUME NEW u \in Nat, u < m
        PROVE  AsSigned(w, u) \in Lowest(w) .. Highest(w) /\ AsUnsigned(w, AsSigned(w, u)) = u
    <3>1. w \in Nat \ {0} /\ u \in Int
      OBVIOUS
    <3>2. AsSigned(w, u) \in Lowest(w) .. Highest(w)
      BY <3>1, SignedType
    <3>3. AsUnsigned(w, AsSigned(w, u)) = u
      BY <2>8, <3>1, UnsignedOfSigned DEF m
    <3> QED
      BY <3>2, <3>3
  <2>9. /\ AsSigned(w, q) \in Lowest(w) .. Highest(w) /\ AsUnsigned(w, AsSigned(w, q)) = q
        /\ AsSigned(w, r) \in Lowest(w) .. Highest(w) /\ AsUnsigned(w, AsSigned(w, r)) = r
    BY <2>2, <2>6, <2>8
  <2>10. Leaves(c, d, c - AsUnsigned(w, AsSigned(w, q)) * d)
    BY <2>4, <2>9, Zenon
  <2>11. Leaves(c, d, AsUnsigned(w, AsSigned(w, r)))
    BY <2>4, <2>5, <2>9, Zenon
  <2> QED
    BY <2>7, <2>9, <2>10, <2>11, Zenon
<1> QED
  BY <1>3, <1>4, Zenon DEF c, d

-----------------------------------------------------------------------------
(* Comparisons.                                                            *)

(* A number with its sign bit turned over is that much less without it.    *)
LEMMA FlippedIs ==
  ASSUME NEW w \in Nat \ {0, 1}, NEW x \in Lowest(w) .. Highest(w)
  PROVE  Flipped(w, x) = AsUnsigned(w, x) - 2^(w - 1) /\ AsUnsigned(w, x) \in Nat
         /\ 2^(w - 1) \in Nat
<1> DEFINE h == 2^(w - 1)
           m == 2^w
           y == x + h
<1>1. /\ h \in Nat /\ h >= 2 /\ m = 2 * h /\ x \in Int /\ -h <= x /\ x < h
      /\ AsUnsigned(w, x) = IF x < 0 THEN x + m ELSE x
  BY RangeIs
<1>2. Flipped(w, x) = LET u == y % m IN IF u < h THEN u ELSE u - m
  BY DEF Flipped, AsSigned
<1> HIDE DEF h, m
<1>3. y % m = y
  <2> DEFINE z == 0
  <2>1. z \in Int /\ y \in Int /\ y = z * m + y /\ 0 <= y /\ y < m /\ m \in Nat \ {0}
    BY <1>1
  <2> HIDE DEF z, y
  <2> QED
    BY <2>1, QuotientIs
<1>4. Flipped(w, x) = IF y < h THEN y ELSE y - m
  <2> HIDE DEF y
  <2> QED
    BY <1>2, <1>3
<1>5. AsUnsigned(w, x) \in Nat
  BY <1>1
<1>6. Flipped(w, x) = AsUnsigned(w, x) - h
  BY <1>1, <1>4
<1> QED
  BY <1>1, <1>5, <1>6 DEF h

(* A comparison without a sign is the signed one with both sign bits       *)
(* turned over.                                                            *)
LEMMA CompareExact ==
  ASSUME NEW w \in Nat \ {0, 1}, NEW a \in Lowest(w) .. Highest(w),
         NEW b \in Lowest(w) .. Highest(w), NEW op \in DOMAIN SignedForm
  PROVE  Compare(op, AsUnsigned(w, a), AsUnsigned(w, b)) <=>
         Compare(SignedForm[op], Flipped(w, a), Flipped(w, b))
<1> DEFINE h == 2^(w - 1)
           c == AsUnsigned(w, a)
           d == AsUnsigned(w, b)
           f == Flipped(w, a)
           g == Flipped(w, b)
<1>1. f = c - h /\ g = d - h /\ c \in Nat /\ d \in Nat /\ h \in Nat
  BY FlippedIs
<1> HIDE DEF h, c, d, f, g
<1>2. (c < d <=> f < g) /\ (c > d <=> f > g) /\ (c <= d <=> f <= g) /\ (c >= d <=> f >= g)
  BY <1>1
<1>3. op \in {"lt_u", "gt_u", "le_u", "ge_u"}
  BY DEF SignedForm
<1>4. Compare(op, c, d) <=> Compare(SignedForm[op], f, g)
  <2>1. CASE op = "lt_u"
    <3>1. SignedForm[op] = "lt_s"
      BY <2>1 DEF SignedForm
    <3> QED
      BY <1>2, <2>1, <3>1 DEF Compare
  <2>2. CASE op = "gt_u"
    <3>1. SignedForm[op] = "gt_s"
      BY <2>2 DEF SignedForm
    <3> QED
      BY <1>2, <2>2, <3>1 DEF Compare
  <2>3. CASE op = "le_u"
    <3>1. SignedForm[op] = "le_s"
      BY <2>3 DEF SignedForm
    <3> QED
      BY <1>2, <2>3, <3>1 DEF Compare
  <2>4. CASE op = "ge_u"
    <3>1. SignedForm[op] = "ge_s"
      BY <2>4 DEF SignedForm
    <3> QED
      BY <1>2, <2>4, <3>1 DEF Compare
  <2> QED
    BY <1>3, <2>1, <2>2, <2>3, <2>4
<1> QED
  BY <1>4 DEF c, d, f, g

-----------------------------------------------------------------------------
(* Every instruction.                                                      *)

(* IntegerOpsExact, of the answer r of one instruction.                    *)
OpExact(op, w, x, y, r) ==
  LET a == Value(w, op, x)
      b == Value(w, op, y)
      v == Value(w, op, r.value)
  IN  /\ r.value \in Lowest(w) .. Highest(w)
      /\ op \in Divisions =>
           CASE b = 0 -> r.how = "DivisionByZero"
             [] op = "div_s" /\ a = Lowest(w) /\ b = -1 -> r.how = "IntegerOverflow"
             [] OTHER -> /\ r.how = "value"
                         /\ IF op \in {"div_s", "div_u"}
                            THEN Leaves(a, b, a - v * b)
                            ELSE Leaves(a, b, v)
      /\ op \in Shifts =>
           \A k \in 0 .. w - 1 : BitAt(w, r.value, k) = BitFrom(op, w, x, k, y % w)
      /\ op \in DOMAIN SignedForm =>
           r = Truth(Compare(SignedForm[op], Flipped(w, a), Flipped(w, b)))

LEMMA SmallInRange ==
  ASSUME NEW w \in Nat \ {0, 1}
  PROVE  0 \in Lowest(w) .. Highest(w) /\ 1 \in Lowest(w) .. Highest(w)
<1> DEFINE h == 2^(w - 1)
           g == 2^(w - 2)
<1>1. h = 2 * g /\ g \in Nat \ {0}
  <2>1. w - 2 \in Nat /\ (w - 2) + 1 = w - 1
    OBVIOUS
  <2> QED
    BY <2>1, PowerDoubles, PowerPositive, Zenon
<1> HIDE DEF g
<1>2. h \in Nat /\ h >= 2
  BY <1>1
<1>3. Lowest(w) = -h /\ Highest(w) = h - 1
  BY DEF Lowest, Highest
<1> HIDE DEF h
<1> QED
  BY <1>2, <1>3

(* Division and remainder, signed and not.                                 *)
LEMMA DivisionsExact ==
  ASSUME NEW w \in Nat \ {0, 1}, NEW x \in Lowest(w) .. Highest(w),
         NEW y \in Lowest(w) .. Highest(w), NEW op \in Divisions
  PROVE  OpExact(op, w, x, y, Binary(op, w, x, y))
<1> DEFINE r == Binary(op, w, x, y)
           a == Value(w, op, x)
           b == Value(w, op, y)
           v == Value(w, op, r.value)
           D == CASE b = 0 -> r.how = "DivisionByZero"
                  [] op = "div_s" /\ a = Lowest(w) /\ b = -1 -> r.how = "IntegerOverflow"
                  [] OTHER -> /\ r.how = "value"
                              /\ IF op \in {"div_s", "div_u"}
                                 THEN Leaves(a, b, a - v * b)
                                 ELSE Leaves(a, b, v)
<1>1. op \notin Shifts /\ op \notin DOMAIN SignedForm
  BY DEF Divisions, Shifts, SignedForm
<1>2. 0 \in Lowest(w) .. Highest(w)
  BY SmallInRange
<1>3. r.value \in Lowest(w) .. Highest(w) /\ D
  <2>1. CASE op = "div_s"
    <3>1. r = DivS(w, x, y) /\ a = x /\ b = y /\ v = r.value
      BY <2>1 DEF Binary, Value
    <3> HIDE DEF r, a, b, v
    <3>2. CASE y = 0
      <4>1. r = Raises("DivisionByZero")
        BY <3>1, <3>2 DEF DivS
      <4>2. r.value = 0 /\ r.how = "DivisionByZero"
        BY <4>1 DEF Raises
      <4> QED
        BY <1>2, <3>1, <3>2, <4>2
    <3>3. CASE y # 0 /\ x = Lowest(w) /\ y = -1
      <4>1. r = Raises("IntegerOverflow")
        BY <3>1, <3>3, DivSExact
      <4>2. r.value = 0 /\ r.how = "IntegerOverflow"
        BY <4>1 DEF Raises
      <4> QED
        BY <1>2, <2>1, <3>1, <3>3, <4>2
    <3>4. CASE y # 0 /\ ~(x = Lowest(w) /\ y = -1)
      <4>1. PICK q \in Lowest(w) .. Highest(w) :
              DivS(w, x, y) = Gives(q) /\ Leaves(x, y, x - q * y)
        BY <3>4, DivSExact
      <4>2. r.value = q /\ r.how = "value"
        BY <3>1, <4>1 DEF Gives
      <4>3. Leaves(a, b, a - v * b)
        BY <3>1, <4>1, <4>2, Zenon
      <4> QED
        BY <2>1, <3>1, <3>4, <4>2, <4>3
    <3> QED
      BY <3>2, <3>3, <3>4
  <2>2. CASE op = "rem_s"
    <3>1. r = RemS(w, x, y) /\ a = x /\ b = y /\ v = r.value
      BY <2>2 DEF Binary, Value
    <3> HIDE DEF r, a, b, v
    <3>2. CASE y = 0
      <4>1. r = Raises("DivisionByZero")
        BY <3>1, <3>2 DEF RemS
      <4>2. r.value = 0 /\ r.how = "DivisionByZero"
        BY <4>1 DEF Raises
      <4> QED
        BY <1>2, <3>1, <3>2, <4>2
    <3>3. CASE y # 0
      <4>1. PICK q \in Lowest(w) .. Highest(w) : RemS(w, x, y) = Gives(q) /\ Leaves(x, y, q)
        BY <3>3, RemSExact
      <4>2. r.value = q /\ r.how = "value"
        BY <3>1, <4>1 DEF Gives
      <4>3. Leaves(a, b, v)
        BY <3>1, <4>1, <4>2, Zenon
      <4> QED
        BY <2>2, <3>1, <3>3, <4>2, <4>3
    <3> QED
      BY <3>2, <3>3
  <2>3. CASE op = "div_u"
    <3>1. /\ r = DivU(w, x, y) /\ a = AsUnsigned(w, x) /\ b = AsUnsigned(w, y)
          /\ v = AsUnsigned(w, r.value)
      BY <2>3 DEF Binary, Value
    <3>2. y = 0 <=> b = 0
      BY <3>1, UnsignedDivision
    <3> HIDE DEF r, a, b, v
    <3>3. CASE y = 0
      <4>1. r = Raises("DivisionByZero")
        BY <3>1, <3>3 DEF DivU
      <4>2. r.value = 0 /\ r.how = "DivisionByZero"
        BY <4>1 DEF Raises
      <4> QED
        BY <1>2, <3>2, <3>3, <4>2
    <3>4. CASE y # 0
      <4>1. PICK q \in Lowest(w) .. Highest(w) :
              /\ DivU(w, x, y) = Gives(q)
              /\ Leaves(AsUnsigned(w, x), AsUnsigned(w, y),
                        AsUnsigned(w, x) - AsUnsigned(w, q) * AsUnsigned(w, y))
        BY <3>4, UnsignedDivision
      <4>2. r.value = q /\ r.how = "value"
        BY <3>1, <4>1 DEF Gives
      <4>3. Leaves(a, b, a - v * b)
        BY <3>1, <4>1, <4>2, Zenon
      <4> QED
        BY <2>3, <3>2, <3>4, <4>2, <4>3
    <3> QED
      BY <3>3, <3>4
  <2>4. CASE op = "rem_u"
    <3>1. /\ r = RemU(w, x, y) /\ a = AsUnsigned(w, x) /\ b = AsUnsigned(w, y)
          /\ v = AsUnsigned(w, r.value)
      BY <2>4 DEF Binary, Value
    <3>2. y = 0 <=> b = 0
      BY <3>1, UnsignedDivision
    <3> HIDE DEF r, a, b, v
    <3>3. CASE y = 0
      <4>1. r = Raises("DivisionByZero")
        BY <3>1, <3>3 DEF RemU
      <4>2. r.value = 0 /\ r.how = "DivisionByZero"
        BY <4>1 DEF Raises
      <4> QED
        BY <1>2, <3>2, <3>3, <4>2
    <3>4. CASE y # 0
      <4>1. PICK q \in Lowest(w) .. Highest(w) :
              /\ RemU(w, x, y) = Gives(q)
              /\ Leaves(AsUnsigned(w, x), AsUnsigned(w, y), AsUnsigned(w, q))
        BY <3>4, UnsignedDivision
      <4>2. r.value = q /\ r.how = "value"
        BY <3>1, <4>1 DEF Gives
      <4>3. Leaves(a, b, v)
        BY <3>1, <4>1, <4>2, Zenon
      <4> QED
        BY <2>4, <3>2, <3>4, <4>2, <4>3
    <3> QED
      BY <3>3, <3>4
  <2> QED
    BY <2>1, <2>2, <2>3, <2>4 DEF Divisions
<1> HIDE DEF r
<1>4. OpExact(op, w, x, y, r)
  BY <1>1, <1>3 DEF OpExact
<1> QED
  BY <1>4 DEF r

(* Shifts and rotations.                                                   *)
LEMMA ShiftsExact ==
  ASSUME NEW w \in IntWidths, NEW x \in Lowest(w) .. Highest(w),
         NEW y \in Lowest(w) .. Highest(w), NEW op \in Shifts
  PROVE  OpExact(op, w, x, y, Binary(op, w, x, y))
<1> DEFINE r == Binary(op, w, x, y)
           m == 2^Shift(w, y)
           u == AsUnsigned(w, x)
<1>1. op \notin Divisions /\ op \notin DOMAIN SignedForm
  BY DEF Divisions, Shifts, SignedForm
<1>2. w \in Nat \ {0, 1} /\ w \in Nat \ {0} /\ 0 \in 0 .. w - 1
  BY WidthTypes DEF IntWidths
<1>3. x \in Int /\ y \in Int
  BY <1>2, RangeIs
<1>4. m \in Nat \ {0}
  <2>1. Shift(w, y) \in Nat
    BY <1>2, <1>3, ShiftIs
  <2> QED
    BY <2>1, PowerPositive
<1>5. u \in Nat
  BY <1>2, <1>3, UnsignedType
<1>6. r.value \in Lowest(w) .. Highest(w)
      /\ \A k \in 0 .. w - 1 : BitAt(w, r.value, k) = BitFrom(op, w, x, k, y % w)
  <2>1. CASE op = "shl"
    <3>1. r.value = Shl(w, x, y)
      BY <2>1 DEF Binary, Gives
    <3>2. x * m \in Int
      <4> HIDE DEF m
      <4> QED
        BY <1>3, <1>4
    <3>3. Shl(w, x, y) \in Lowest(w) .. Highest(w)
      BY <1>2, <3>2, SignedType DEF Shl
    <3>4. \A k \in 0 .. w - 1 : BitAt(w, Shl(w, x, y), k) = BitFrom("shl", w, x, k, y % w)
      BY <1>3, ShlExact
    <3> QED
      BY <2>1, <3>1, <3>3, <3>4, Zenon
  <2>2. CASE op = "shr_s"
    <3>1. r.value = ShrS(w, x, y)
      BY <2>2 DEF Binary, Gives
    <3>2. ShrS(w, x, y) \in Lowest(w) .. Highest(w)
      BY <1>2, <1>3, ShrSExact
    <3>3. \A k \in 0 .. w - 1 : BitAt(w, ShrS(w, x, y), k) = BitFrom("shr_s", w, x, k, y % w)
      BY <1>3, ShrSExact
    <3> QED
      BY <2>2, <3>1, <3>2, <3>3, Zenon
  <2>3. CASE op = "shr_u"
    <3>1. r.value = ShrU(w, x, y)
      BY <2>3 DEF Binary, Gives
    <3>2. u \div m \in Int
      <4> HIDE DEF m, u
      <4> QED
        BY <1>4, <1>5
    <3>3. ShrU(w, x, y) \in Lowest(w) .. Highest(w)
      BY <1>2, <3>2, SignedType DEF ShrU
    <3>4. \A k \in 0 .. w - 1 : BitAt(w, ShrU(w, x, y), k) = BitFrom("shr_u", w, x, k, y % w)
      BY <1>3, ShrUExact
    <3> QED
      BY <2>3, <3>1, <3>3, <3>4, Zenon
  <2>4. CASE op = "rotl"
    <3>1. r.value = Rotl(w, x, y)
      BY <2>4 DEF Binary, Gives
    <3>2. Rotl(w, x, y) \in Lowest(w) .. Highest(w)
      BY <1>2, <1>3, RotlExact
    <3>3. \A k \in 0 .. w - 1 : BitAt(w, Rotl(w, x, y), k) = BitFrom("rotl", w, x, k, y % w)
      BY <1>3, RotlExact
    <3> QED
      BY <2>4, <3>1, <3>2, <3>3, Zenon
  <2>5. CASE op = "rotr"
    <3>1. r.value = Rotr(w, x, y)
      BY <2>5 DEF Binary, Gives
    <3>2. Rotr(w, x, y) \in Lowest(w) .. Highest(w)
      BY <1>2, <1>3, RotrExact
    <3>3. \A k \in 0 .. w - 1 : BitAt(w, Rotr(w, x, y), k) = BitFrom("rotr", w, x, k, y % w)
      BY <1>3, RotrExact
    <3> QED
      BY <2>5, <3>1, <3>2, <3>3, Zenon
  <2> QED
    BY <2>1, <2>2, <2>3, <2>4, <2>5 DEF Shifts
<1> HIDE DEF r
<1>7. OpExact(op, w, x, y, r)
  BY <1>1, <1>6 DEF OpExact
<1> QED
  BY <1>7 DEF r

(* Addition and its like wrap into the range of the type.                  *)
LEMMA WrappingExact ==
  ASSUME NEW w \in Nat \ {0, 1}, NEW x \in Lowest(w) .. Highest(w),
         NEW y \in Lowest(w) .. Highest(w), NEW op \in Wrapping
  PROVE  OpExact(op, w, x, y, Binary(op, w, x, y))
<1> DEFINE r == Binary(op, w, x, y)
<1>1. op \notin Divisions /\ op \notin Shifts /\ op \notin DOMAIN SignedForm
  BY DEF Divisions, Shifts, SignedForm, Wrapping
<1>2. x \in Int /\ y \in Int /\ w \in Nat \ {0}
  BY RangeIs
<1>3. x + y \in Int /\ x - y \in Int /\ x * y \in Int
  BY <1>2
<1>4. \E z \in Int : r.value = AsSigned(w, z)
  BY <1>3 DEF Binary, Gives, Wrapping
<1>5. r.value \in Lowest(w) .. Highest(w)
  BY <1>2, <1>4, SignedType
<1> HIDE DEF r
<1>6. OpExact(op, w, x, y, r)
  BY <1>1, <1>5 DEF OpExact
<1> QED
  BY <1>6 DEF r

(* Comparisons of numbers without a sign.                                  *)
LEMMA ComparesExact ==
  ASSUME NEW w \in Nat \ {0, 1}, NEW x \in Lowest(w) .. Highest(w),
         NEW y \in Lowest(w) .. Highest(w), NEW op \in Compared
  PROVE  OpExact(op, w, x, y, Binary(op, w, x, y))
<1> DEFINE r == Binary(op, w, x, y)
<1>1. op \notin Divisions /\ op \notin Shifts
  BY DEF Divisions, Shifts, Compared
<1>2. r.value \in {0, 1}
  <2>1. CASE op \in {"lt_u", "gt_u", "le_u", "ge_u"}
    <3>1. r = Truth(Compare(op, AsUnsigned(w, x), AsUnsigned(w, y)))
      BY <2>1 DEF Binary
    <3> QED
      BY <3>1 DEF Truth, Gives
  <2>2. CASE op \in {"eq", "ne", "lt_s", "gt_s", "le_s", "ge_s"}
    <3>1. r = Truth(Compare(op, x, y))
      BY <2>2 DEF Binary
    <3> QED
      BY <3>1 DEF Truth, Gives
  <2> QED
    BY <2>1, <2>2 DEF Compared
<1>3. r.value \in Lowest(w) .. Highest(w)
  BY <1>2, SmallInRange
<1>4. ASSUME op \in DOMAIN SignedForm
      PROVE  r = Truth(Compare(SignedForm[op], Flipped(w, x), Flipped(w, y)))
             /\ Value(w, op, x) = x /\ Value(w, op, y) = y
  <2>1. op \in {"lt_u", "gt_u", "le_u", "ge_u"}
    BY <1>4 DEF SignedForm
  <2>2. r = Truth(Compare(op, AsUnsigned(w, x), AsUnsigned(w, y)))
    BY <2>1 DEF Binary
  <2>3. Compare(op, AsUnsigned(w, x), AsUnsigned(w, y)) <=>
        Compare(SignedForm[op], Flipped(w, x), Flipped(w, y))
    BY <1>4, CompareExact
  <2>4. Value(w, op, x) = x /\ Value(w, op, y) = y
    BY <2>1 DEF Value
  <2> HIDE DEF r
  <2> QED
    BY <2>2, <2>3, <2>4, Zenon DEF Truth
<1> HIDE DEF r
<1>5. OpExact(op, w, x, y, r)
  <2>1. CASE op \in DOMAIN SignedForm
    BY <1>1, <1>3, <1>4, <2>1, Zenon DEF OpExact
  <2>2. CASE op \notin DOMAIN SignedForm
    BY <1>1, <1>3, <2>2, Zenon DEF OpExact
  <2> QED
    BY <2>1, <2>2
<1> QED
  BY <1>5 DEF r

-----------------------------------------------------------------------------
(* The instruction under way and its answer.                               *)

(* What has been popped is an instruction, and what there is of an answer  *)
(* is its value.                                                           *)
NumInv ==
  /\ calc # NoCalc => calc \in Calculations
  /\ answer # Nothing => calc # NoCalc /\ answer = Evaluate(calc)

(* The answer is that of the instruction under way.                        *)
THEOREM AnswersBelong == NumSpec => []NumInv
<1>1. NumInit => NumInv
  BY Zenon DEF NumInit, NumInv
<1>2. NumInv /\ [NumNext]_numVars => NumInv'
  <2> SUFFICES ASSUME NumInv, [NumNext]_numVars PROVE NumInv'
    OBVIOUS
  <2>1. CASE PopNumbers
    <3>1. answer = Nothing
      BY <2>1, Zenon DEF NumInv, PopNumbers
    <3> QED
      BY <2>1, <3>1, Zenon DEF NumInv, PopNumbers
  <2>2. CASE Compute
    BY <2>2, Zenon DEF NumInv, Compute
  <2>3. CASE Deliver
    BY <2>3, Zenon DEF NumInv, Deliver
  <2>4. CASE UNCHANGED numVars
    BY <2>4, Zenon DEF NumInv, numVars
  <2> QED
    BY <2>1, <2>2, <2>3, <2>4, Zenon DEF NumNext
<1> QED
  BY <1>1, <1>2, PTL DEF NumSpec

(* An instruction has operands of its own kind.                            *)
LEMMA CalculationsAre ==
  ASSUME NEW r \in Calculations
  PROVE  /\ r.op \in Divisions \cup Shifts \cup Wrapping \cup Compared =>
              /\ r.w \in IntWidths /\ r.a \in NumOperands[r.w] /\ r.b \in NumOperands[r.w]
         /\ r.op \in {"trunc", "trunc_sat"} =>
              /\ r.p \in FloatTypes /\ r.w \in IntWidths /\ r.signed \in BOOLEAN
              /\ r.a \in Floats[r.p]
         /\ r.op = "cast" => r.cast \in Casts /\ r.a \in NumOperands[r.cast.from]
<1> DEFINE ops == Divisions \cup Shifts \cup Wrapping \cup Compared
           X(w) == [op : ops, w : {w}, a : NumOperands[w], b : NumOperands[w]]
           Y(p) == [op : {"trunc", "trunc_sat"}, p : {p}, w : IntWidths, signed : BOOLEAN,
                    a : Floats[p]]
           Z(c) == [op : {"cast"}, cast : {c}, a : NumOperands[c.from]]
<1>1. "trunc" \notin ops /\ "trunc_sat" \notin ops /\ "cast" \notin ops
  BY DEF Divisions, Shifts, Wrapping, Compared
<1> DEFINE A == UNION {X(w) : w \in IntWidths}
           B == UNION {Y(p) : p \in FloatTypes}
           C == UNION {Z(c) : c \in Casts}
<1>2. Calculations = A \cup B \cup C
  BY DEF Calculations
<1> HIDE DEF ops, A, B, C
<1>3. CASE \E w \in IntWidths : r \in X(w)
  <2>1. PICK w \in IntWidths : r \in X(w)
    BY <1>3
  <2>2. r.op \in ops /\ r.w = w /\ r.a \in NumOperands[w] /\ r.b \in NumOperands[w]
    BY <2>1
  <2> QED
    BY <1>1, <2>2 DEF ops
<1>4. CASE \E p \in FloatTypes : r \in Y(p)
  <2>1. PICK p \in FloatTypes : r \in Y(p)
    BY <1>4
  <2>2. /\ r.op \in {"trunc", "trunc_sat"} /\ r.p = p /\ r.w \in IntWidths
        /\ r.signed \in BOOLEAN /\ r.a \in Floats[p]
    BY <2>1
  <2>3. r.op \notin ops /\ r.op # "cast"
    BY <1>1, <2>2
  <2> QED
    BY <2>2, <2>3 DEF ops
<1>5. CASE \E c \in Casts : r \in Z(c)
  <2>1. PICK c \in Casts : r \in Z(c)
    BY <1>5
  <2>2. r.op = "cast" /\ r.cast = c /\ r.a \in NumOperands[c.from]
    BY <2>1
  <2>3. r.op \notin ops /\ r.op \notin {"trunc", "trunc_sat"}
    BY <1>1, <2>2
  <2> QED
    BY <2>2, <2>3 DEF ops
<1> HIDE DEF X, Y, Z
<1>6. \/ \E w \in IntWidths : r \in X(w)
      \/ \E p \in FloatTypes : r \in Y(p)
      \/ \E c \in Casts : r \in Z(c)
  <2>1. r \in A => \E w \in IntWidths : r \in X(w)
    BY DEF A
  <2>2. r \in B => \E p \in FloatTypes : r \in Y(p)
    BY DEF B
  <2>3. r \in C => \E c \in Casts : r \in Z(c)
    BY DEF C
  <2>4. r \in A \/ r \in B \/ r \in C
    BY <1>2
  <2> QED
    BY <2>1, <2>2, <2>3, <2>4, Zenon
<1> QED
  BY <1>3, <1>4, <1>5, <1>6, Zenon

(* What the integer instructions compute, for every width and operand:     *)
(* the quotient or remainder that is rounded towards zero, or the error    *)
(* when there is none; the bits of the operand moved by the count; and the *)
(* order of numbers without a sign.                                        *)
THEOREM IntegersAreExact == NumSpec => []IntegerOpsExact
<1>1. NumInv => IntegerOpsExact
  <2> SUFFICES ASSUME NumInv, answer # Nothing,
                      calc.op \in Divisions \cup Shifts \cup Wrapping \cup Compared
               PROVE  OpExact(calc.op, calc.w, calc.a, calc.b, answer)
    BY Zenon DEF IntegerOpsExact, OpExact
  <2> DEFINE op == calc.op
             w == calc.w
             x == calc.a
             y == calc.b
  <2>1. calc \in Calculations /\ answer = Evaluate(calc)
    BY Zenon DEF NumInv
  <2>2. w \in IntWidths /\ x \in NumOperands[w] /\ y \in NumOperands[w]
    BY <2>1, CalculationsAre
  <2>3. x \in Lowest(w) .. Highest(w) /\ y \in Lowest(w) .. Highest(w)
    BY <2>2, OperandAssumption
  <2>4. op # "trunc" /\ op # "trunc_sat" /\ op # "cast"
    BY DEF Divisions, Shifts, Wrapping, Compared
  <2>5. answer = Binary(op, w, x, y)
    BY <2>1, <2>4 DEF Evaluate
  <2>6. w \in Nat \ {0, 1}
    BY <2>2, WidthTypes DEF IntWidths
  <2>7. op \in Divisions \/ op \in Shifts \/ op \in Wrapping \/ op \in Compared
    OBVIOUS
  <2> HIDE DEF op, w, x, y
  <2>8. OpExact(op, w, x, y, Binary(op, w, x, y))
    <3>1. CASE op \in Divisions
      BY <2>3, <2>6, <3>1, DivisionsExact
    <3>2. CASE op \in Shifts
      BY <2>2, <2>3, <3>2, ShiftsExact
    <3>3. CASE op \in Wrapping
      BY <2>3, <2>6, <3>3, WrappingExact
    <3>4. CASE op \in Compared
      BY <2>3, <2>6, <3>4, ComparesExact
    <3> QED
      BY <2>7, <3>1, <3>2, <3>3, <3>4
  <2> QED
    BY <2>5, <2>8, Zenon DEF op, w, x, y
<1> QED
  BY <1>1, AnswersBelong, PTL

(* What the casts between integers compute, for all widths and operands:   *)
(* the bits cast through, and above them their highest or 0.               *)
THEOREM CastsAreExact == NumSpec => []CastsExact
<1>1. NumInv => CastsExact
  <2> SUFFICES ASSUME NumInv, answer # Nothing, calc.op = "cast"
               PROVE  LET c == calc.cast
                      IN  /\ answer.value \in Lowest(c.to) .. Highest(c.to)
                          /\ \A k \in 0 .. c.to - 1 :
                               BitAt(c.to, answer.value, k) =
                                 IF k < c.bits THEN BitAt(c.from, calc.a, k)
                                 ELSE IF c.signed THEN BitAt(c.from, calc.a, c.bits - 1) ELSE 0
    BY Zenon DEF CastsExact
  <2> DEFINE c == calc.cast
             a == calc.a
  <2>1. calc \in Calculations /\ answer = Evaluate(calc)
    BY Zenon DEF NumInv
  <2>2. c \in Casts /\ a \in NumOperands[c.from]
    BY <2>1, CalculationsAre
  <2>3. answer = Convert(c, a)
    BY <2>1 DEF Evaluate
  <2>4. a \in Int
    <3>1. c.from \in IntWidths /\ c.from \in Nat \ {0, 1}
      BY <2>2, CastTypes, WidthTypes DEF IntWidths
    <3>2. a \in Lowest(c.from) .. Highest(c.from)
      BY <2>2, <3>1, OperandAssumption
    <3> QED
      BY <3>1, <3>2, RangeIs
  <2> HIDE DEF c, a
  <2>5. /\ Convert(c, a).value \in Lowest(c.to) .. Highest(c.to)
        /\ \A k \in 0 .. c.to - 1 :
             BitAt(c.to, Convert(c, a).value, k) =
               IF k < c.bits THEN BitAt(c.from, a, k)
               ELSE IF c.signed THEN BitAt(c.from, a, c.bits - 1) ELSE 0
    BY <2>2, <2>4, ConvertExact
  <2> QED
    BY <2>3, <2>5, Zenon DEF c, a
<1> QED
  BY <1>1, AnswersBelong, PTL

(* What the conversions of floats to integers compute, for all widths: the *)
(* limits that trunc! computes in floats let through exactly the numbers   *)
(* that have an integer of the type, though a float cannot hold them all.  *)
THEOREM TruncationsAreExact == NumSpec => []TruncationsExact
<1>1. NumInv => TruncationsExact
  <2> SUFFICES ASSUME NumInv, answer # Nothing, calc.op \in {"trunc", "trunc_sat"}
               PROVE  TruncationsExact
    BY Zenon DEF TruncationsExact
  <2> DEFINE p == calc.p
             w == calc.w
             s == calc.signed
             x == calc.a
             low   == BottomOf(w, s)
             high  == TopOf(w, s)
             exact == {n \in low .. high : Truncates(x, n)}
             limit == IF x < 0 THEN low ELSE high
             c     == CHOOSE n \in exact : TRUE
  <2>1. calc \in Calculations /\ answer = Evaluate(calc)
    BY Zenon DEF NumInv
  <2>2. p \in FloatTypes /\ w \in IntWidths /\ s \in BOOLEAN /\ x \in Floats[p]
    BY <2>1, CalculationsAre
  <2>3. p \in Nat \ {0, 1} /\ w \in Nat \ {0}
    BY <2>2, WidthTypes DEF FloatTypes, IntWidths
  <2>4. x \in Int \cup {NaN}
    BY <2>2, OperandAssumption
  <2>5. /\ Trunc(p, w, s, x) =
             IF x = NaN THEN Raises("InvalidConversionToInteger")
             ELSE IF exact = {} THEN Raises("IntegerOverflow") ELSE Gives(AsSigned(w, c))
        /\ TruncSat(p, w, s, x) =
             IF x = NaN THEN Gives(0)
             ELSE IF exact = {} THEN Gives(AsSigned(w, limit)) ELSE Gives(AsSigned(w, c))
    <3> HIDE DEF p, w, s, x
    <3> QED
      BY <2>2, <2>3, <2>4, TruncExact
  <2>6. calc.op = "trunc" => answer = Trunc(p, w, s, x)
    BY <2>1 DEF Evaluate
  <2>7. calc.op = "trunc_sat" => answer = TruncSat(p, w, s, x)
    BY <2>1 DEF Evaluate
  <2>8. calc.op = "trunc_sat" => calc.op # "trunc"
    OBVIOUS
  <2>9. IF calc.op = "trunc"
        THEN answer = IF x = NaN THEN Raises("InvalidConversionToInteger")
                      ELSE IF exact = {} THEN Raises("IntegerOverflow")
                      ELSE Gives(AsSigned(w, c))
        ELSE answer = IF x = NaN THEN Gives(0)
                      ELSE IF exact = {} THEN Gives(AsSigned(w, limit))
                      ELSE Gives(AsSigned(w, c))
    <3> HIDE DEF c, exact, limit, p, w, s, x
    <3> QED
      BY <2>5, <2>6, <2>7, <2>8, Zenon
  <2> QED
    BY <2>9 DEF TruncationsExact
<1> QED
  BY <1>1, AnswersBelong, PTL

=============================================================================
