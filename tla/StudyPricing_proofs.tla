------------------------ MODULE StudyPricing_proofs ------------------------
(***************************************************************************)
(* How far rounding takes a price from the exact one.                       *)
(***************************************************************************)
EXTENDS StudyPricing, TLAPS

\* Multiplying both sides of a bound.
LEMMA ScaleBound ==
  ASSUME NEW k \in Nat, NEW x \in Int, NEW b \in Int, -b <= x, x <= b
  PROVE  -(k * b) <= k * x /\ k * x <= k * b
<1>1. \A m \in Nat, n \in Nat : m * n >= 0
  OBVIOUS
<1>2. b - x \in Nat /\ b + x \in Nat
  OBVIOUS
<1>3. k * (b - x) >= 0 /\ k * (b + x) >= 0
  BY <1>1, <1>2
<1>4. k * (b - x) = k * b - k * x /\ k * (b + x) = k * b + k * x
  OBVIOUS
<1>5. k * b \in Int /\ k * x \in Int
  OBVIOUS
<1> QED
  BY <1>3, <1>4, <1>5

\* quantize is off by half a cent at most.
LEMMA QuantizeNear ==
  ASSUME NEW n \in Int, NEW d \in Nat \ {0}
  PROVE  /\ Quantize(n, d) \in Int
         /\ -d <= 2 * (d * Quantize(n, d) - n) /\ 2 * (d * Quantize(n, d) - n) <= d
<1> DEFINE q == n \div d
           r == n % d
<1>1. q \in Int /\ r \in Int /\ 0 <= r /\ r < d /\ n = d * q + r
  OBVIOUS
<1>2. Quantize(n, d) = IF 2 * r < d \/ (2 * r = d /\ q % 2 = 0) THEN q ELSE q + 1
  BY DEF Quantize
<1> HIDE DEF q, r
<1>3. d * q \in Int /\ d * (q + 1) = d * q + d
  BY <1>1
<1>4. CASE 2 * r < d \/ (2 * r = d /\ q % 2 = 0)
  BY <1>1, <1>2, <1>3, <1>4
<1>5. CASE ~(2 * r < d \/ (2 * r = d /\ q % 2 = 0))
  <2>1. 2 * r >= d
    BY <1>1, <1>5
  <2> QED
    BY <1>1, <1>2, <1>3, <1>5, <2>1
<1> QED
  BY <1>4, <1>5

\* The discounted price is off by half a cent at most.
LEMMA DiscountedNear ==
  ASSUME NEW base \in Int, NEW discount \in Percent
  PROVE  LET error == 2 * (Whole * Discounted(base, discount) - base * (Whole - discount))
         IN /\ Discounted(base, discount) \in Int
            /\ -Whole <= error /\ error <= Whole
<1>1. Whole \in Nat \ {0} /\ discount \in Int
  BY WholeAssumption DEF Percent
<1>2. base * Whole - base * discount \in Int
  BY <1>1
<1>3. base * (Whole - discount) = base * Whole - base * discount
  BY <1>1
<1> QED
  BY <1>1, <1>2, <1>3, QuantizeNear DEF Discounted

\* The breakdown of a booking is an integer number of cents, and it is as near to the
\* exact price as rounding once, or twice with a surcharge, allows.
LEMMA BreakdownNear ==
  ASSUME NEW c, NEW category, NEW access, c.base[category] \in Int,
         c.discount[category] \in Percent, c.surcharge \in Percent
  PROVE  LET q == Breakdown(c, category, access)
             error == 2 * (Whole * Whole * q.final - ExactScaled(q))
         IN /\ q.final \in Int
            /\ -(Whole * RoundingScaled(q)) <= error /\ error <= Whole * RoundingScaled(q)
<1> DEFINE base == c.base[category]
           keep == Whole - c.discount[category]
           percent == c.surcharge
           first == Discounted(base, c.discount[category])
           more == Quantize(first * percent, Whole)
           q == Breakdown(c, category, access)
<1>0. /\ Whole \in Nat \ {0} /\ base \in Int /\ percent \in Nat /\ keep \in Int
      /\ q.access = access /\ q.percent = percent /\ q.base = base
      /\ Whole - q.discount = keep
      /\ q.final = first + (IF access = "anytime" THEN more ELSE 0)
  BY WholeAssumption DEF Percent, Breakdown, Surcharge
<1>1. /\ first \in Int
      /\ -Whole <= 2 * (Whole * first - base * keep)
      /\ 2 * (Whole * first - base * keep) <= Whole
  BY DiscountedNear
<1>2. first * percent \in Int
  BY <1>0, <1>1
<1>3. /\ more \in Int
      /\ -Whole <= 2 * (Whole * more - first * percent)
      /\ 2 * (Whole * more - first * percent) <= Whole
  BY <1>0, <1>2, QuantizeNear
<1> DEFINE x == 2 * (Whole * first - base * keep)
           y == 2 * (Whole * more - first * percent)
<1>4. CASE access = "anytime"
  <2> DEFINE k == Whole + percent
  <2>1. /\ RoundingScaled(q) = 2 * Whole + percent
        /\ ExactScaled(q) = base * keep * k
        /\ q.final = first + more
    BY <1>0, <1>4 DEF RoundingScaled, ExactScaled
  <2> HIDE DEF base, keep, percent, first, more, q
  <2>2. k \in Nat /\ x \in Int /\ y \in Int
    BY <1>0, <1>1, <1>2, <1>3
  <2>3. -(k * Whole) <= k * x /\ k * x <= k * Whole
    BY <1>0, <1>1, <2>2, ScaleBound
  <2>4. -(Whole * Whole) <= Whole * y /\ Whole * y <= Whole * Whole
    BY <1>0, <1>3, <2>2, ScaleBound
  <2>5. 2 * (Whole * Whole * (first + more) - base * keep * k) = k * x + Whole * y
    BY <1>0, <1>1, <1>3
  <2>6. k * Whole + Whole * Whole = Whole * (2 * Whole + percent)
    BY <1>0
  <2>7. k * x \in Int /\ Whole * y \in Int /\ k * Whole \in Int /\ Whole * Whole \in Int
    BY <1>0, <2>2
  <2> HIDE DEF k, x, y
  <2>8. q.final \in Int
    BY <1>1, <1>3, <2>1
  <2> QED
    BY <2>1, <2>3, <2>4, <2>5, <2>6, <2>7, <2>8 DEF q
<1>5. CASE access # "anytime"
  <2>1. /\ RoundingScaled(q) = Whole
        /\ ExactScaled(q) = base * keep * Whole
        /\ q.final = first
    BY <1>0, <1>1, <1>5 DEF RoundingScaled, ExactScaled
  <2> HIDE DEF base, keep, percent, first, more, q
  <2>2. x \in Int
    BY <1>0, <1>1
  <2>3. -(Whole * Whole) <= Whole * x /\ Whole * x <= Whole * Whole
    BY <1>0, <1>1, <2>2, ScaleBound
  <2>4. 2 * (Whole * Whole * first - base * keep * Whole) = Whole * x
    BY <1>0, <1>1
  <2>5. q.final \in Int
    BY <1>1, <2>1
  <2> HIDE DEF x
  <2> QED
    BY <2>1, <2>3, <2>4, <2>5 DEF q
<1> QED
  BY <1>4, <1>5

=============================================================================
