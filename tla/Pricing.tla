-------------------------------- MODULE Pricing -------------------------------
(***************************************************************************)
(* The price estimates of one phone variant and the opportunities among    *)
(* its listings: platform/services.py and, with the same arithmetic,       *)
(* ai/valuation.py and ai/opportunities.py.                                *)
(*                                                                         *)
(* A sample is the number of comparables with each price.  Arithmetic is   *)
(* exact: percentiles are kept in quarters of the currency, the deviation  *)
(* of one from the median in sixteenths.                                   *)
(***************************************************************************)
EXTENDS Naturals, FiniteSets, FiniteSetsExt

CONSTANTS
  Prices,
  MinSample,   \* 3, to make an estimate
  MinFiltered, \* 8, to look for outliers
  Liquidity,   \* liquidity_weight in hundredths, by the size of the sample: 100 beyond
  Fee          \* fee_pct

ASSUME PricingAssumption ==
  /\ Prices \subseteq Nat \ {0} /\ IsFiniteSet(Prices)
  /\ MinSample \in Nat \ {0} /\ MinFiltered \in Nat
  /\ 2 * MinSample <= MinFiltered + 1
  /\ \A n \in DOMAIN Liquidity : Liquidity[n] \in 0 .. 100
  /\ Fee \in 0 .. 40

Abs(a, b) == IF a < b THEN b - a ELSE a - b

\* How many of the comparables have a price in S.
Count(sample, S) == MapThenSumSet(LAMBDA p : sample[p], S)
Size(sample) == Count(sample, Prices)

\* The k-th smallest of the comparables' measures, e.g. their prices.
Kth(sample, measure, k) ==
  CHOOSE v \in {measure[p] : p \in {q \in Prices : sample[q] > 0}} :
    /\ Count(sample, {p \in Prices : measure[p] < v}) < k
    /\ k <= Count(sample, {p \in Prices : measure[p] <= v})

\* percentile(values, q / 4), times four.
Quartile(sample, measure, q) ==
  LET place == (Size(sample) - 1) * q
      below == Kth(sample, measure, place \div 4 + 1)
      above == Kth(sample, measure, Min({place \div 4 + 2, Size(sample)}))
  IN  4 * below + (above - below) * (place % 4)

Price == [p \in Prices |-> p]
Low(sample) == Quartile(sample, Price, 1)
Mid(sample) == Quartile(sample, Price, 2)
High(sample) == Quartile(sample, Price, 3)
Deviation(sample) == [p \in Prices |-> Abs(4 * p, Mid(sample))]

\* Within three times 1.4826 of the median deviation or, where that is zero,
\* of the interquartile range by 1.349; all remain where that is zero, too.
NearBy(sample, deviation, mad) ==
  {p \in Prices :
     IF mad > 0 THEN 40000 * deviation[p] <= 44478 * mad
     ELSE High(sample) = Low(sample) \/ 1349 * deviation[p] <= 3000 * (High(sample) - Low(sample))}

Without(sample, outliers) == [p \in Prices |-> IF p \in outliers THEN 0 ELSE sample[p]]

\* Mutant: any sample is filtered.
FilteredAnySize(sample) ==
  LET deviation == Deviation(sample)
  IN  IF Size(sample) = 0 THEN sample
      ELSE Without(sample, Prices \ NearBy(sample, deviation, Quartile(sample, deviation, 2)))

\* One round of _remove_outliers.
Filtered(sample) ==
  LET deviation == Deviation(sample)
  IN  IF Size(sample) < MinFiltered THEN sample
      ELSE Without(sample, Prices \ NearBy(sample, deviation, Quartile(sample, deviation, 2)))

Kept(sample) == Filtered(Filtered(Filtered(sample)))

\* dispersion = (high - low) / median, compared in percent
Disperse(low, mid, high, percent) == 100 * (high - low) > percent * mid

Confidence(n, low, mid, high) ==
  IF n >= 20 /\ ~Disperse(low, mid, high, 35) THEN "high"
  ELSE IF \/ n >= 8 /\ ~Disperse(low, mid, high, 60)
          \/ n >= 5 /\ ~Disperse(low, mid, high, 80) THEN "medium"
  ELSE "low"

\* MarketAnalyticsService.valuation
NoValuation(kept) == [status |-> "insufficient_data", count |-> Size(kept)]
ValuationOf(kept) ==
  LET low == Low(kept)  mid == Mid(kept)  high == High(kept)
  IN  [status |-> "ok", count |-> Size(kept), low |-> low, mid |-> mid, high |-> high,
       confidence |-> Confidence(Size(kept), low, mid, high)]
Valuation(sample) ==
  CHOOSE v \in {IF Size(kept) < MinSample THEN NoValuation(kept) ELSE ValuationOf(kept) :
                  kept \in {Kept(sample)}} : TRUE

-----------------------------------------------------------------------------
\* In twentieths: 1.0, 0.75 and 0.45.
ConfidenceWeight(level) == CASE level = "high" -> 20 [] level = "medium" -> 15 [] level = "low" -> 9

LiquidityWeight(n) == IF n \in DOMAIN Liquidity THEN Liquidity[n] ELSE 100

\* Mutant: what is far too cheap is not set aside.
NotTooCheap(v, p) == FALSE

\* The risks: a price below half of the low one, and no profit after the fee.
TooCheap(v, p) == 8 * p < v.low
NoProfit(v, p) == (100 - Fee) * v.mid <= 400 * p

\* The score in tenths; the discount in percent times 1.8, weighed, at most 100.
Score(v, p) ==
  IF TooCheap(v, p) \/ NoProfit(v, p) \/ 4 * p >= v.mid THEN 0
  ELSE Min({1000, ((v.mid - 4 * p) * 18 * ConfidenceWeight(v.confidence) * LiquidityWeight(v.count))
                    \div (20 * v.mid)})

Opportunities(v) ==
  IF v.status = "ok" THEN {p \in Prices : Score(v, p) > 0} ELSE {}

Priority(v, p) == IF Score(v, p) >= 600 THEN "high" ELSE IF Score(v, p) >= 350 THEN "medium" ELSE "watch"
=============================================================================
