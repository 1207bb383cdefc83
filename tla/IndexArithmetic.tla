--------------------------- MODULE IndexArithmetic ---------------------------
(***************************************************************************)
(* Lemmas about quotients and remainders, for every divisor: how the flat  *)
(* buffers of the attention and GPU kernels are addressed by row and       *)
(* column, and how counters wrap around.                                   *)
(***************************************************************************)
EXTENDS Integers, TLAPS

(* Quotient and remainder: how a flat index is taken apart. *)
LEMMA DivMod ==
    ASSUME NEW n \in Int, NEW d \in Nat \ {0}
    PROVE  /\ n \div d \in Int
           /\ n % d \in 0..(d - 1)
           /\ n = d * (n \div d) + (n % d)
<1>1. n \div d \in Int
  OBVIOUS
<1>2. n % d \in 0..(d - 1)
  OBVIOUS
<1>3. n = d * (n \div d) + (n % d)
  OBVIOUS
<1> QED BY <1>1, <1>2, <1>3

LEMMA Monotonic ==
    ASSUME NEW d \in Nat, NEW x \in Int, NEW y \in Int, x <= y
    PROVE  d * x <= d * y /\ x * d <= y * d
<1>1. d * (y - x) >= 0
  OBVIOUS
<1>2. d * (y - x) = d * y - d * x /\ d * x = x * d /\ d * y = y * d
  OBVIOUS
<1>3. d * x \in Int /\ d * y \in Int
  OBVIOUS
<1> QED BY <1>1, <1>2, <1>3

(* There is only one way to take it apart. *)
LEMMA UniqueQuotient ==
    ASSUME NEW d \in Nat \ {0}, NEW a \in Int, NEW q \in Int,
           NEW b \in 0..(d - 1), NEW r \in 0..(d - 1), d * a + b = d * q + r
    PROVE  a = q /\ b = r
<1>1. ASSUME NEW x \in Int, NEW y \in Int, NEW u \in 0..(d - 1),
             NEW v \in 0..(d - 1), d * x + u = d * y + v
      PROVE  x <= y
  <2>1. SUFFICES ASSUME y + 1 <= x PROVE FALSE
    BY <1>1
  <2>2. d * (y + 1) <= d * x
    BY <1>1, <2>1, Monotonic
  <2>3. d * (y + 1) = d * y + d /\ d * x \in Int /\ d * y \in Int
    BY <1>1
  <2> QED BY <1>1, <2>2, <2>3
<1>2. a <= q
  BY <1>1
<1>3. d * q + r = d * a + b
  OBVIOUS
<1>4. q <= a
  BY <1>1, <1>3
<1>5. a = q
  BY <1>2, <1>4
<1> QED BY <1>5

(* An index put together is taken apart into what it was made of. *)
LEMMA Quotient ==
    ASSUME NEW d \in Nat \ {0}, NEW q \in Int, NEW r \in 0..(d - 1)
    PROVE  (q * d + r) \div d = q /\ (q * d + r) % d = r
<1> DEFINE n == d * q + r
<1>1. n \in Int /\ n = q * d + r
  OBVIOUS
<1>2. /\ n \div d \in Int /\ n % d \in 0..(d - 1)
      /\ d * (n \div d) + (n % d) = d * q + r
  BY <1>1, DivMod
<1>3. n \div d = q /\ n % d = r
  BY <1>2, UniqueQuotient
<1> QED BY <1>1, <1>3

(* Of a multiple. *)
LEMMA WholeQuotient ==
    ASSUME NEW d \in Nat \ {0}, NEW q \in Int
    PROVE  (q * d) \div d = q
<1>1. (q * d + 0) \div d = q
  <2>1. 0 \in 0..(d - 1)
    OBVIOUS
  <2> QED BY <2>1, Quotient, Zenon
<1>2. q * d + 0 = q * d
  OBVIOUS
<1> QED BY <1>1, <1>2

(* A number over another: the parts of a packed one. *)
LEMMA Packed ==
    ASSUME NEW d \in Nat \ {0}, NEW q \in Int, NEW r \in 0..(d - 1)
    PROVE  (r + d * q) \div d = q /\ (r + d * q) % d = r
<1>1. r + d * q = q * d + r
  OBVIOUS
<1> QED BY <1>1, Quotient

(* Row and column of an index into a buffer of `rows` rows of d elements. *)
LEMMA RowAndColumn ==
    ASSUME NEW d \in Nat, NEW rows \in Nat, NEW n \in 0..(rows * d - 1)
    PROVE  /\ n \div d \in 0..(rows - 1)
           /\ n % d \in 0..(d - 1)
           /\ n = (n \div d) * d + (n % d)
<1>1. d # 0 /\ n \in Int /\ n >= 0 /\ n < rows * d
  OBVIOUS
<1> DEFINE q == n \div d
           r == n % d
<1>2. q \in Int /\ r \in 0..(d - 1) /\ n = d * q + r /\ d * q = q * d
  BY <1>1, DivMod
<1> HIDE DEF q, r
<1>3. q >= 0
  <2>1. SUFFICES ASSUME q <= 0 - 1 PROVE FALSE
    BY <1>2
  <2>2. d * q <= d * (0 - 1) /\ d * (0 - 1) = 0 - d
    BY <1>2, <2>1, Monotonic
  <2> QED BY <1>1, <1>2, <2>2
<1>4. q < rows
  <2>1. SUFFICES ASSUME rows <= q PROVE FALSE
    BY <1>2
  <2>2. d * rows <= d * q /\ d * rows = rows * d
    BY <1>2, <2>1, Monotonic
  <2> QED BY <1>1, <1>2, <2>2
<1>5. q \in 0..(rows - 1) /\ n = q * d + r
  BY <1>2, <1>3, <1>4
<1> QED BY <1>2, <1>5 DEF q, r

(* The element in row q and column r of such a buffer, counted from 1. *)
LEMMA IndexOf ==
    ASSUME NEW d \in Nat \ {0}, NEW rows \in Nat, NEW q \in 0..(rows - 1),
           NEW r \in 0..(d - 1), NEW n, n = q * d + r + 1
    PROVE  /\ n \in 1..(rows * d)
           /\ (n - 1) \div d = q
           /\ (n - 1) % d = r
<1>1. q * d \in Nat /\ (q + 1) * d = q * d + d
  OBVIOUS
<1>2. (q + 1) * d <= rows * d /\ rows * d \in Nat
  BY Monotonic
<1>3. n - 1 = q * d + r
  BY <1>1
<1>4. (q * d + r) \div d = q /\ (q * d + r) % d = r
  BY Quotient
<1> QED BY <1>1, <1>2, <1>3, <1>4
-----------------------------------------------------------------------------
(* Arithmetic of wrapping counters: a number in range is its own rest, and *)
(* what a read finds and takes is what had been added.                     *)
LEMMA SmallRest ==
    ASSUME NEW d \in Nat \ {0}, NEW x \in 0..(d - 1)
    PROVE  x % d = x
<1>1. 0 * d + x = x
  OBVIOUS
<1>2. (0 * d + x) % d = x
  BY Quotient
<1> QED BY <1>1, <1>2

LEMMA TakenIsAdded ==
    ASSUME NEW d \in Nat \ {0}, NEW x \in 0..(d - 1), NEW p \in Nat
    PROVE  (((x + p) % d) + d - x) % d = p % d
<1> DEFINE k == (x + p) \div d
           y == (x + p) % d
           q == p \div d
           r == p % d
<1>1. x + p \in Int
  OBVIOUS
<1>2. k \in Int /\ y \in 0..(d - 1) /\ x + p = d * k + y
  BY <1>1, DivMod
<1>3. q \in Int /\ r \in 0..(d - 1) /\ p = d * q + r
  BY DivMod
<1> HIDE DEF k, y, q, r
<1>4. y + d - x = (q + 1 - k) * d + r
  <2>1. (q + 1 - k) * d = d * q + d - d * k
    BY <1>2, <1>3
  <2>2. d * q \in Int /\ d * k \in Int
    BY <1>2, <1>3
  <2> QED BY <1>2, <1>3, <2>1, <2>2
<1>5. q + 1 - k \in Int
  BY <1>2, <1>3
<1>6. ((q + 1 - k) * d + r) % d = r
  BY <1>3, <1>5, Quotient
<1> QED BY <1>4, <1>6 DEF y, r
=============================================================================
