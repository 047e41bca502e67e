---------------------------- MODULE IntegerLemmas ----------------------------
(***************************************************************************)
(* What the proofs about clocks, schedules and counters need of the        *)
(* natural numbers: least and greatest elements and remainders.            *)
(***************************************************************************)
EXTENDS Integers, FiniteSetsExt, WellFoundedInduction, TLAPS

------------------------------------------------------------------------------
(* Least and greatest elements, and Min and Max of FiniteSetsExt. *)

\* A set of natural numbers that is not empty has a least element.
LEMMA LeastElement ==
  ASSUME NEW T, T \subseteq Nat, T # {}
  PROVE  \E m \in T : \A k \in T : m <= k
<1>1. PICK m \in T : \A k \in T : ~ (<<k, m>> \in OpToRel(<, Nat))
  BY NatLessThanWellFounded, WFMin
<1>2. \A k \in T : ~ (k < m)
  BY <1>1 DEF OpToRel
<1>. QED
  BY <1>2

\* A set of natural numbers that is bounded and not empty has a greatest element.
LEMMA GreatestElement ==
  ASSUME NEW n \in Nat, NEW T, T \subseteq 0..n, T # {}
  PROVE  \E m \in T : \A k \in T : k <= m
<1> DEFINE U == {n - k : k \in T}
<1>1. U \subseteq Nat /\ U # {}
  <2>1. \A k \in 0..n : n - k \in Nat
    OBVIOUS
  <2>2. U \subseteq Nat
    BY <2>1
  <2>3. U # {}
    OBVIOUS
  <2>. QED
    BY <2>2, <2>3
<1>2. PICK d \in U : \A e \in U : d <= e
  BY <1>1, LeastElement
<1>3. PICK m \in T : d = n - m
  OBVIOUS
<1>4. ASSUME NEW k \in T
      PROVE  k <= m
  <2>1. n - m <= n - k
    BY <1>2, <1>3
  <2>2. k \in 0..n /\ m \in 0..n
    OBVIOUS
  <2>. QED
    BY <2>1, <2>2
<1>. QED
  BY <1>4

\* Min is the least element.
LEMMA MinIsLeast ==
  ASSUME NEW T, T \subseteq Nat, T # {}
  PROVE  Min(T) \in T /\ \A k \in T : Min(T) <= k
<1>1. PICK m \in T : \A k \in T : m <= k
  BY LeastElement
<1>. QED
  BY <1>1 DEF Min

\* Max is the greatest element.
LEMMA MaxIsGreatest ==
  ASSUME NEW n \in Nat, NEW T, T \subseteq 0..n, T # {}
  PROVE  Max(T) \in T /\ \A k \in T : k <= Max(T)
<1>1. PICK m \in T : \A k \in T : k <= m
  BY GreatestElement
<1>2. \A k \in T : k \in 0..n
  OBVIOUS
<1>. QED
  BY <1>1, <1>2 DEF Max

------------------------------------------------------------------------------
(* Remainders. *)

\* Division with remainder.
LEMMA ModDiv ==
  ASSUME NEW P \in Nat \ {0}, NEW n \in Nat
  PROVE  \E k \in Nat, s \in 0..(P - 1) : n = P * k + s /\ n % P = s
<1>1. n % P \in 0..(P - 1)
  OBVIOUS
<1>2. PICK s \in 0..(P - 1) : s = n % P
  BY <1>1
<1>3. PICK k \in Nat : n - (n % P) = P * k
  OBVIOUS
<1>4. n - s = P * k
  BY <1>2, <1>3
<1>5. n = P * k + s
  BY <1>4
<1>. QED
  BY <1>2, <1>5

\* A positive multiple of a positive number is no less than it.
LEMMA TimesAtLeast ==
  ASSUME NEW P \in Nat \ {0}, NEW d \in Int, d >= 1
  PROVE P * d >= P
OBVIOUS

\* The remainder is determined by the number.
LEMMA ModUnique ==
  ASSUME NEW P \in Nat \ {0}, NEW q \in Nat, NEW r \in 0..(P-1)
  PROVE (P * q + r) % P = r
<1> DEFINE n == P * q + r
<1>0. n \in Nat
  OBVIOUS
<1>1. PICK k \in Nat, s \in 0..(P-1) : n = P * k + s /\ n % P = s
  BY <1>0, ModDiv
<1>2. P * (q - k) = s - r
  BY <1>1
<1>3. ~(q - k >= 1)
  BY <1>2, TimesAtLeast
<1>4. ~(k - q >= 1)
  <2>1. P * (k - q) = r - s
    BY <1>1
  <2>. QED
    BY <2>1, TimesAtLeast
<1>5. q = k
  BY <1>3, <1>4
<1>. QED
  BY <1>1, <1>5

\* A multiple of the divisor does not change the remainder.
LEMMA ModPlus ==
  ASSUME NEW P \in Nat \ {0}, NEW q \in Nat, NEW n \in Nat
  PROVE (P * q + n) % P = n % P
<1>1. PICK k \in Nat, s \in 0..(P-1) : n = P * k + s /\ n % P = s
  BY ModDiv
<1>2. P * q + n = P * (q + k) + s
  BY <1>1
<1>. QED
  BY <1>1, <1>2, ModUnique

\* The remainder of the next number is the next remainder, or zero.
LEMMA ModNext ==
  ASSUME NEW P \in Nat \ {0}, NEW n \in Nat
  PROVE (n + 1) % P = 0 \/ (n + 1) % P = (n % P) + 1
<1>1. PICK k \in Nat, s \in 0..(P-1) : n = P * k + s /\ n % P = s
  BY ModDiv
<1>2. CASE s = P - 1
  <2>1. n + 1 = P * (k + 1) + 0
    BY <1>1, <1>2
  <2>. QED
    BY <2>1, ModUnique
<1>3. CASE s < P - 1
  <2>1. n + 1 = P * k + (s + 1)
    BY <1>1
  <2>2. (P * k + (s + 1)) % P = s + 1
    BY <1>3, ModUnique
  <2>. QED
    BY <1>1, <2>1, <2>2
<1>. QED
  BY <1>2, <1>3

\* Each remainder occurs among as many numbers in a row as the divisor.
LEMMA ModOccurs ==
  ASSUME NEW P \in Nat \ {0}, NEW t \in Nat, NEW r \in 0..(P - 1)
  PROVE  \E u \in (t + 1)..(t + P) : u % P = r
<1>1. PICK k \in Nat, s \in 0..(P - 1) : t = P * k + s
  BY ZenonT(60), ModDiv
<1>2. CASE s < r
  <2>1. P * k + r \in (t + 1)..(t + P)
    BY <1>1, <1>2
  <2>. QED
    BY <2>1, ModUnique
<1>3. CASE r <= s
  <2>1. P * (k + 1) = P * k + P
    OBVIOUS
  <2>2. P * (k + 1) + r \in (t + 1)..(t + P)
    BY <1>1, <1>3, <2>1
  <2>3. (P * (k + 1) + r) % P = r
    BY ModUnique
  <2>. QED
    BY <2>2, <2>3
<1>. QED
  BY <1>2, <1>3

\* Two numbers less than the divisor apart have different remainders.
LEMMA ModApart ==
  ASSUME NEW P \in Nat \ {0}, NEW u \in Nat, NEW v \in Nat,
         u < v, v < u + P
  PROVE  u % P # v % P
<1> SUFFICES ASSUME u % P = v % P
             PROVE  FALSE
  OBVIOUS
<1>1. PICK k \in Nat, s \in 0..(P - 1) : u = P * k + s /\ u % P = s
  BY ModDiv
<1>2. PICK l \in Nat, r \in 0..(P - 1) : v = P * l + r /\ v % P = r
  BY ModDiv
<1>3. P * (l - k) = v - u
  BY <1>1, <1>2
<1>4. ~(l - k >= 1)
  BY <1>3, TimesAtLeast
<1>5. P * (l - k) <= 0
  BY <1>4
<1>. QED
  BY <1>3, <1>5

------------------------------------------------------------------------------
(* Quotients. *)

\* The quotient of a natural number is one, and grows with it.
LEMMA DivMonotone ==
  ASSUME NEW P \in Nat \ {0}, NEW m \in Nat, NEW n \in Nat, m <= n
  PROVE  m \div P \in Nat /\ n \div P \in Nat /\ m \div P <= n \div P
<1>1. PICK k \in Int, s \in 0..(P - 1) : m = P * k + s /\ k = m \div P
  OBVIOUS
<1>2. PICK l \in Int, r \in 0..(P - 1) : n = P * l + r /\ l = n \div P
  OBVIOUS
<1>3. ~(k - l >= 1)
  <2>1. P * (k - l) = m - n + (r - s)
    BY <1>1, <1>2
  <2>. QED
    BY <2>1, TimesAtLeast
<1>4. ~(0 - k >= 1) /\ ~(0 - l >= 1)
  <2>1. P * (0 - k) = s - m /\ P * (0 - l) = r - n
    BY <1>1, <1>2
  <2>. QED
    BY <2>1, TimesAtLeast
<1>. QED
  BY <1>1, <1>2, <1>3, <1>4

==============================================================================
