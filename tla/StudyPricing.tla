---------------------------- MODULE StudyPricing ----------------------------
(***************************************************************************)
(* domain/study_pricing.py: the price of a booking, in cents.  Percentages  *)
(* are in the unit of their columns, of which Whole make 100 %.             *)
(***************************************************************************)
EXTENDS Integers

CONSTANT Whole    \* 10000: the columns are numeric(6, 2)

ASSUME WholeAssumption == Whole \in Nat \ {0}

Percent == 0 .. Whole    \* UpdatePricingRequest: ge=0, le=100

\* Mutant of Quantize: what is beyond the cent is dropped.
QuantizeDown(n, d) == n \div d

\* Decimal.quantize(Decimal("0.01")) of n/d cents: to the nearest cent, and to the
\* even one of two that are equally near.
Quantize(n, d) ==
  LET q == n \div d
      r == n % d
  IN IF 2 * r < d \/ (2 * r = d /\ q % 2 = 0) THEN q ELSE q + 1

Discounted(base, discount) == Quantize(base * Whole - base * discount, Whole)

Surcharge(access, discounted, percent) ==
  IF access = "anytime" THEN Quantize(discounted * percent, Whole) ELSE 0

\* compute_stored_breakdown for a category and an access type under c.
Breakdown(c, category, access) ==
  LET discounted == Discounted(c.base[category], c.discount[category])
      surcharge == Surcharge(access, discounted, c.surcharge)
  IN [category |-> category, access |-> access, base |-> c.base[category],
      discount |-> c.discount[category], discounted |-> discounted,
      percent |-> c.surcharge, surcharge |-> surcharge,
      final |-> discounted + surcharge]

-----------------------------------------------------------------------------
(* The reference: the price without rounding, as a fraction.               *)

\* Whole * Whole times the exact price of a stored breakdown.
ExactScaled(q) ==
  q.base * (Whole - q.discount) *
    (IF q.access = "anytime" THEN Whole + q.percent ELSE Whole)

\* Half a cent for each of the two roundings, the first of which the surcharge
\* enlarges: at most a cent and a half.
RoundingScaled(q) == IF q.access = "anytime" THEN 2 * Whole + q.percent ELSE Whole
=============================================================================
