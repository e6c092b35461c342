------------------------------- MODULE Appraisal ------------------------------
(***************************************************************************)
(* The way of one source's listings from its pages to a price estimate:    *)
(* the collector asks for one phone variant after the other                *)
(* (collectors/base.py), what it saw is normalized (collection.py) and     *)
(* stored (platform/ingest.py), and the listings of a variant become the   *)
(* comparables of its valuation (module Pricing).                          *)
(***************************************************************************)
EXTENDS Pricing, Sequences

CONSTANTS
  Ids,
  Variants,      \* PHONE_VARIANTS, in their order
  Subject,       \* the variant that is appraised
  Pages,         \* what the page of a variant may show: sequences of cards
  Limit,         \* of the used phones taken from one page
  OtherSamples,  \* the comparables other sources may have
  MaxCollections \* bound

Card == [id: Ids, variant: {Variants[n] : n \in DOMAIN Variants}, price: Prices \cup {0},
         used: BOOLEAN, status: {"active", "sold"}]

ASSUME AppraisalAssumption ==
  /\ IsFiniteSet(Ids)
  /\ Variants \in Seq(DOMAIN Pages) /\ Variants # <<>>
  /\ \A v \in DOMAIN Pages : \A cards \in Pages[v] : cards \in Seq(Card)
  /\ OtherSamples \subseteq [Prices -> Nat]
  /\ Limit \in Nat /\ MaxCollections \in Nat

VARIABLES
  results,  \* of the variants the collector is done with: variant_results
  failures, \* consecutive_failures
  terminal, \* whether there is a terminal_error
  stored,   \* rows of listings of the source, by id
  status,   \* of the last run of the source
  collections

vars == <<results, failures, terminal, stored, status, collections>>

\* SourceAccessError; a timeout of the page or one that names a network error;
\* any other exception that names one, or does not.
Refusals == {"blocked", "login_required", "failed"}
Errors == Refusals \cup {"timeout", "timeout_network", "network", "unparsed"}
Statuses == {"none", "ok", "partial", "failed"}

VariantCollection == [how: Errors \cup {"answered", "skipped"}, cards: Seq(Card)]

AppraisalTypeOK ==
  /\ results \in Seq(VariantCollection)
  /\ Len(results) <= Len(Variants)
  /\ failures \in 0 .. 2 /\ terminal \in BOOLEAN
  /\ DOMAIN stored \subseteq Ids /\ \A id \in DOMAIN stored : stored[id] \in Card
  /\ status \in Statuses /\ collections \in 0 .. MaxCollections

Init ==
  /\ results = <<>> /\ failures = 0 /\ terminal = FALSE
  /\ stored = [id \in {} |-> 0] /\ status = "none" /\ collections = 0

-----------------------------------------------------------------------------
Pending == Len(results) < Len(Variants) /\ collections < MaxCollections
Variant == Variants[Len(results) + 1]
Add(how, cards) == results' = Append(results, [how |-> how, cards |-> cards])

\* Mutant: a refusal that is not final counts as an answer of the site.
NextFailuresOfAny(how) ==
  CASE how \in {"timeout", "timeout_network", "network"} -> failures + 1
    [] OTHER -> 0

\* consecutive_failures after an outcome.
NextFailures(how) ==
  CASE how \in {"timeout", "timeout_network", "network"} -> failures + 1
    [] how \in {"answered", "unparsed"} -> 0
    [] how \in Refusals -> failures

\* BaseCollector.collect: the page of the next variant is opened ...
Ask(how, cards) ==
  /\ Pending /\ ~terminal
  /\ Add(how, cards)
  /\ failures' = NextFailures(how)
  /\ terminal' = \/ how \in {"blocked", "login_required", "timeout_network"}
                 \/ how \in {"timeout", "network"} /\ failures' >= 2
  /\ UNCHANGED <<stored, status, collections>>

\* ... unless an earlier one ended it: then the variant has that error.
Skip ==
  /\ Pending /\ terminal
  /\ Add("skipped", <<>>)
  /\ UNCHANGED <<failures, terminal, stored, status, collections>>

-----------------------------------------------------------------------------
\* normalize_listing: has a price and is of the variant that was asked for.
Readable(card, variant) == card.price > 0 /\ card.variant = variant

\* normalize_output: of each page the first used phones, each phone once.
Records[n \in 0 .. Len(results)] ==
  IF n = 0 THEN {}
  ELSE LET cards == results[n].cards
           used == {k \in DOMAIN cards : /\ Readable(cards[k], Variants[n]) /\ cards[k].used
                                         /\ \A r \in Records[n - 1] : r.id # cards[k].id}
       IN  Records[n - 1] \cup {cards[k] : k \in {i \in used : Cardinality({m \in used : m <= i}) <= Limit}}

Answered == {n \in DOMAIN results : results[n].how = "answered"}

\* _source_status
SourceStatus(records) ==
  IF Answered = {} THEN "failed"
  ELSE IF Answered # DOMAIN results \/ records = {} THEN "partial" ELSE "ok"

\* collect_source, once all variants have a result: the rows of the listings
\* take what was seen last.
Store ==
  /\ Len(results) = Len(Variants)
  /\ \E records \in {Records[Len(results)]} :
       /\ stored' = [id \in DOMAIN stored \cup {r.id : r \in records} |->
                       IF \E r \in records : r.id = id THEN CHOOSE r \in records : r.id = id
                       ELSE stored[id]]
       /\ status' = SourceStatus(records)
  /\ results' = <<>> /\ failures' = 0 /\ terminal' = FALSE
  /\ collections' = collections + 1

Next ==
  \/ Pending /\ \E cards \in Pages[Variant] : Ask("answered", cards)
  \/ \E how \in Errors : Ask(how, <<>>)
  \/ Skip
  \/ Store

Spec == Init /\ [][Next]_vars

-----------------------------------------------------------------------------
\* comparable_prices: the source's phones of the variant that are on offer,
\* with those of other sources.
Comparable(card) == card.variant = Subject /\ card.used /\ card.status = "active" /\ card.price > 0
Sample(others) ==
  [p \in Prices |-> others[p] + Cardinality({id \in DOMAIN stored : Comparable(stored[id]) /\ stored[id].price = p})]

\* Between two collections the estimates of a variant, whatever the others have.
Appraised == IF results = <<>> THEN {Sample(others) : others \in OtherSamples} ELSE {}

-----------------------------------------------------------------------------
\* The outcomes after which a site is left alone: it refused or asked for a
\* login, a timeout named the network, or it was out of reach twice without an
\* answer in between.
Unreachable(n) == results[n].how \in {"timeout", "timeout_network", "network"}
GivesUpAt(n) ==
  \/ results[n].how \in {"blocked", "login_required", "timeout_network"}
  \/ /\ Unreachable(n)
     /\ \E k \in 1 .. n - 1 : /\ Unreachable(k)
                              /\ \A i \in k + 1 .. n - 1 : results[i].how \notin {"answered", "unparsed"}

\* A page is opened unless the site is to be left alone: a source that refuses
\* gets no further request in the collection, and one that still answers is
\* not given up.
Polite ==
  \A n \in DOMAIN results : results[n].how = "skipped" <=> \E k \in 1 .. n - 1 : GivesUpAt(k)

\* Three comparables make a valuation: the removal of outliers never uses them
\* up, of eight or more it leaves four.  The estimate lies within their prices.
ValuedFromThree ==
  \A sample \in Appraised :
    Size(sample) >= MinSample =>
      \E v \in {Valuation(sample)} :
        /\ v.status = "ok"
        /\ Size(sample) >= MinFiltered => 2 * v.count >= MinFiltered
        /\ \E p, q \in {x \in Prices : sample[x] > 0} :
             4 * p <= v.low /\ v.low <= v.mid /\ v.mid <= v.high /\ v.high <= 4 * q

\* A phone of high priority is a third cheaper than the fair price at least,
\* but no less than half of the low one; and it can be sold with a profit.
HighIsAThirdOff ==
  \A sample \in Appraised : \A v \in {Valuation(sample)} :
    \A p \in {x \in Opportunities(v) : sample[x] > 0} :
      Priority(v, p) = "high" =>
        /\ 12 * p <= 2 * v.mid
        /\ v.low <= 8 * p
        /\ 400 * p < (100 - Fee) * v.mid
=============================================================================
