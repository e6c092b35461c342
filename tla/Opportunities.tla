----------------------------- MODULE Opportunities -----------------------------
(***************************************************************************)
(* find_opportunities (ai/opportunities.py and ai/valuation.py) beside the *)
(* collections of Legacy.  It takes the comparables of a date on one       *)
(* connection and the listings it judges by them on another, later: what   *)
(* is collected in between is among the second and not among the first.    *)
(***************************************************************************)
EXTENDS Legacy

CONSTANTS
  Lookback \* in days

ASSUME OpportunitiesAssumption == Lookback \in Nat

VARIABLES
  estimate  \* the date and the comparables of the estimate that was made

allVars == <<vars, estimate>>

OpportunitiesInit == Init /\ estimate = None

Same(i, k) == listing[i].source = listing[k].source /\ listing[i].item = listing[k].item

\* _historical_comparables: of each item the last row in which it was on offer.
Offered(d) ==
  {i \in DOMAIN listing : /\ listing[i].active /\ listing[i].priced
                          /\ DateOf(listing[i].run) <= d /\ d <= DateOf(listing[i].run) + Lookback}
Comparables(d) == {i \in Offered(d) : \A k \in Offered(d) : Same(i, k) => k <= i}

\* estimate_valuation: with a sample, on a connection of its own.
Estimate(d) ==
  /\ estimate = None
  /\ Comparables(d) # {}
  /\ estimate' = [date |-> d, rows |-> Comparables(d)]
  /\ UNCHANGED vars

\* What the second connection finds: of that date, shown, on offer and priced.
Candidates(d) ==
  {i \in DOMAIN listing : /\ DateOf(listing[i].run) = d
                          /\ listing[i].run \in Shown(d, listing[i].source)
                          /\ listing[i].active /\ listing[i].priced}

OpportunitiesNext ==
  \/ Next /\ UNCHANGED estimate
  \/ \E d \in Dates : Estimate(d)

OpportunitiesSpec == OpportunitiesInit /\ [][OpportunitiesNext]_allVars

-----------------------------------------------------------------------------
\* Whenever the second connection looks, what it offers is the row of the day
\* the estimate took for the item, or one that was stored later: nobody is
\* offered a price that the estimate already knew to be outdated, although the
\* estimate goes by the order of the listings and the offer by the order in
\* which the runs began to collect their sources.
OpportunityIsCurrent ==
  estimate # None =>
    \A i \in Candidates(estimate.date), k \in estimate.rows :
      Same(i, k) /\ DateOf(listing[k].run) = estimate.date => k <= i
=============================================================================
