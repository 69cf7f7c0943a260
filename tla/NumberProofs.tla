----------------------------- MODULE NumberProofs -----------------------------
(***************************************************************************)
(* Lemmas about numbers: least and greatest elements and induction over a  *)
(* set, for the scans of lists and of the descriptors (BufferCache) and of *)
(* the job table (JobControl); the operator %, for the rings whose indices *)
(* wrap, the pipe's (Pipe) and the console's (Console).                    *)
(***************************************************************************)
EXTENDS Integers, WellFoundedInduction, TLAPS

\* A set of natural numbers that is not empty has a least element, and a greatest
\* one when it is bounded.
LEMMA LeastNatural ==
  ASSUME NEW S \in SUBSET Nat, S # {}
  PROVE  \E d \in S : \A e \in S : d <= e
  <1> DEFINE R == OpToRel(<, Nat)
  <1>1. \A x, y \in Nat : <<x, y>> \in R <=> x < y
    BY DEF OpToRel
  <1>2. IsWellFoundedOn(R, Nat)
    BY NatLessThanWellFounded, Zenon
  <1> HIDE DEF R
  <1>3. PICK x \in S : \A y \in S : <<y, x>> \notin R
    BY <1>2, WFMin
  <1>4. \A y \in S : x \in Nat /\ y \in Nat /\ ~(y < x)
    BY <1>1, <1>3
  <1>5. \A y \in S : x <= y
    BY <1>4
  <1> QED BY <1>5

LEMMA GreatestNatural ==
  ASSUME NEW n \in Nat, NEW S \in SUBSET (0 .. n), S # {}
  PROVE  \E d \in S : \A e \in S : e <= d
  <1> DEFINE T == {m \in Nat : \E i \in S : m = n - i}
  <1>1. T # {}
    <2>1. PICK i \in S : TRUE
      OBVIOUS
    <2>2. n - i \in Nat
      BY <2>1
    <2> QED BY <2>1, <2>2
  <1> HIDE DEF T
  <1>2. PICK m \in T : \A k \in T : m <= k
    <2>1. T \in SUBSET Nat
      BY DEF T
    <2> QED BY <1>1, <2>1, LeastNatural
  <1>3. PICK i \in S : m = n - i
    BY <1>2 DEF T
  <1>4. ASSUME NEW j \in S PROVE j <= i
    <2>1. n - j \in Nat /\ i \in 0 .. n /\ j \in 0 .. n
      OBVIOUS
    <2>2. n - j \in T
      BY <2>1 DEF T
    <2>3. n - i <= n - j
      BY <1>2, <1>3, <2>2
    <2> QED BY <2>1, <2>3
  <1> QED BY <1>4

\* A set that holds 0 and the successor of each number in it holds them all.
LEMMA SetInduction ==
  ASSUME NEW S, 0 \in S, \A n \in Nat : n \in S => n + 1 \in S
  PROVE  \A n \in Nat : n \in S
  <1> SUFFICES ASSUME Nat \ S # {} PROVE FALSE
    OBVIOUS
  <1>1. PICK d \in Nat \ S : \A e \in Nat \ S : d <= e
    BY LeastNatural
  <1>2. d # 0 /\ d - 1 \in Nat /\ d = (d - 1) + 1
    BY <1>1
  <1>3. d - 1 \notin S
    BY <1>1, <1>2
  <1>4. d <= d - 1
    BY <1>1, <1>2, <1>3
  <1> QED BY <1>1, <1>4

\* Division with remainder.
LEMMA Division ==
  ASSUME NEW x \in Int, NEW W \in Nat \ {0}
  PROVE  x \div W \in Int /\ x % W \in 0 .. W - 1 /\ x = W * (x \div W) + (x % W)
  OBVIOUS

\* A remainder is determined by any quotient.
LEMMA Remainder ==
  ASSUME NEW q \in Int, NEW r \in Int, NEW W \in Nat \ {0}, 0 <= r, r < W
  PROVE  (W * q + r) % W = r
  OBVIOUS

\* Within one wrap of the range.
LEMMA ModNear ==
  ASSUME NEW x \in Int, NEW W \in Nat \ {0}
  PROVE  /\ x \in 0 .. W - 1 => x % W = x
         /\ x >= W /\ x < W + W => x % W = x - W
         /\ x < 0 /\ x >= -W => x % W = x + W
  OBVIOUS

\* Multiples of the modulus do not count.
LEMMA ModShift ==
  ASSUME NEW x \in Int, NEW q \in Int, NEW W \in Nat \ {0} PROVE (x + W * q) % W = x % W
  <1> DEFINE d == x \div W
             r == x % W
  <1>1. x = W * d + r /\ d \in Int /\ r \in Int /\ 0 <= r /\ r < W
    BY Division
  <1> HIDE DEF d, r
  <1> DEFINE e == d + q
  <1>2. x + W * q = W * e + r /\ e \in Int
    BY <1>1
  <1> HIDE DEF e
  <1>3. (W * e + r) % W = r
    BY <1>1, <1>2, Remainder
  <1> QED BY <1>2, <1>3 DEF r

LEMMA ModTurn == ASSUME NEW x \in Int, NEW W \in Nat \ {0} PROVE (x + W) % W = x % W
  <1>1. PICK q \in Int : q = 1
    OBVIOUS
  <1>2. (x + W * q) % W = x % W
    BY ModShift
  <1>3. x + W * q = x + W
    BY <1>1
  <1> QED BY <1>2, <1>3

\* The distance of two remainders.
LEMMA ModOffset ==
  ASSUME NEW a \in Int, NEW m \in Int, NEW W \in Nat \ {0}
  PROVE  (((a + m) % W) - a) % W = m % W
  <1> DEFINE d == (a + m) \div W
  <1>1. a + m = W * d + ((a + m) % W) /\ d \in Int /\ (a + m) % W \in Int
    BY Division
  <1>2. ((a + m) % W) - a = m + W * (-d)
    BY <1>1
  <1>3. -d \in Int
    BY <1>1
  <1> HIDE DEF d
  <1>4. (m + W * (-d)) % W = m % W
    BY <1>3, ModShift
  <1> QED BY <1>2, <1>4

\* Positions less than W apart are different cells.
LEMMA ModDistinct ==
  ASSUME NEW a \in Int, NEW W \in Nat \ {0}, NEW m \in 1 .. W - 1
  PROVE  (a + m) % W # a % W
  <1>1. m \in Int /\ m \in 0 .. W - 1 /\ 0 \in Int /\ 0 \in 0 .. W - 1 /\ m # 0
    OBVIOUS
  <1>2. m % W = m /\ 0 % W = 0
    BY <1>1, ModNear
  <1>3. (((a + m) % W) - a) % W = m % W
    BY <1>1, ModOffset
  <1>4. (((a + 0) % W) - a) % W = 0 % W
    BY <1>1, ModOffset
  <1>5. a + 0 = a
    OBVIOUS
  <1> QED BY <1>1, <1>2, <1>3, <1>4, <1>5
\* A remainder by a multiple of P has the same remainder by P.
LEMMA ModMultiple ==
  ASSUME NEW a \in Int, NEW W \in Nat \ {0}, NEW P \in Nat \ {0}, W % P = 0
  PROVE  (a % W) % P = a % P
  <1> DEFINE k == W \div P
             d == a \div W
  <1>1. W = P * k + (W % P) /\ k \in Int
    BY Division
  <1>2. a = W * d + (a % W) /\ d \in Int /\ a % W \in Int
    BY Division
  <1>3. W = P * k
    BY <1>1
  <1> HIDE DEF k, d
  <1>4. W * d = P * (k * d) /\ k * d \in Int
    BY <1>1, <1>2, <1>3
  <1>5. a = (a % W) + P * (k * d)
    BY <1>2, <1>4
  <1>6. ((a % W) + P * (k * d)) % P = (a % W) % P
    BY <1>2, <1>4, ModShift
  <1> QED BY <1>5, <1>6

\* Adding to a remainder.
LEMMA ModAdd ==
  ASSUME NEW a \in Int, NEW b \in Int, NEW W \in Nat \ {0}
  PROVE  ((a % W) + b) % W = (a + b) % W
  <1>0. PICK d, m : d = a \div W /\ m = a % W
    OBVIOUS
  <1>1. d \in Int /\ m \in Int /\ a = W * d + m
    BY <1>0, Division
  <1>2. a + b = (m + b) + W * d /\ m + b \in Int
    BY <1>1
  <1>3. ((m + b) + W * d) % W = (m + b) % W
    BY <1>1, <1>2, ModShift
  <1> QED BY <1>0, <1>2, <1>3
=============================================================================
