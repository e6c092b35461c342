------------------------------- MODULE Clusters -------------------------------
(***************************************************************************)
(* The clusters rebuild_clusters (platform/repository.py) makes of the     *)
(* active listings of one phone variant.                                   *)
(***************************************************************************)
EXTENDS Naturals, FiniteSets, FiniteSetsExt

CONSTANTS
  Listings,   \* ids, in the order of their insertion
  SourceOf,   \* the source of a listing
  DistrictOf, \* its district, or "unknown"
  Alike       \* pairs of listings with similar titles (_title_tokens, ratio)

ASSUME ClustersAssumption ==
  /\ Listings \subseteq Nat /\ IsFiniteSet(Listings)
  /\ SourceOf \in [Listings -> STRING] /\ DistrictOf \in [Listings -> STRING]
  /\ Alike \subseteq Listings \X Listings

Similar(l, first) == <<l, first>> \in Alike

\* A listing joins a group of its district within 3 % of the price of its first,
\* cheapest one.
Fits(l, first, price) ==
  /\ DistrictOf[l] = DistrictOf[first]
  /\ 100 * (price[l] - price[first]) <= 3 * price[first]
  /\ Similar(l, first)

\* The order of listings of one price is that of an unordered SELECT.
ByPrice(S, price) ==
  {s \in [1 .. Cardinality(S) -> S] :
     \A i, k \in DOMAIN s : i < k => s[i] # s[k] /\ price[s[i]] <= price[s[k]]}

\* For each place of the order the place of the first of its group: of the
\* groups that fit, the one formed last, or a group of its own.
Firsts(s, price) ==
  CHOOSE f \in [DOMAIN s -> DOMAIN s] :
    \A n \in DOMAIN s :
      LET fitting == {i \in 1 .. n - 1 : f[i] = i /\ Fits(s[n], s[i], price)}
      IN  f[n] = IF fitting = {} THEN n ELSE Max(fitting)

\* Groups of one source alone are no clusters.
Shared(g) == Cardinality({SourceOf[l] : l \in g}) >= 2

\* The sets of clusters that can be made of the listings S.
Groupings(S, price) ==
  {LET first == Firsts(s, price)
   IN  {g \in {{s[n] : n \in {k \in DOMAIN s : first[k] = i}} : i \in DOMAIN s} : Shared(g)} :
   s \in ByPrice(S, price)}
=============================================================================
