----------------------------- MODULE LegacyProofs -----------------------------
(***************************************************************************)
(* What Legacy and Opportunities keep, for any processes, sources, items   *)
(* and options, and any number of collections and faults.                  *)
(***************************************************************************)
EXTENDS Opportunities, FiniteSetTheorems, SequenceTheorems, WellFoundedInduction, TLAPS

-----------------------------------------------------------------------------
(***************************************************************************)
(* Numbers and sequences.                                                  *)
(***************************************************************************)
LEMMA LeastNumber ==
  ASSUME NEW T \in SUBSET Nat, T # {}
  PROVE  \E m \in T : \A n \in T : m <= n
<1>1. PICK m \in T : \A n \in T : <<n, m>> \notin OpToRel(<, Nat)
  BY NatLessThanWellFounded, WFMin
<1>2. \A n \in T : ~ (n < m)
  BY <1>1 DEF OpToRel
<1>. QED  BY <1>2

LEMMA FunctionSequence ==
  ASSUME NEW S, NEW n \in Nat, NEW f \in [1 .. n -> S]
  PROVE  f \in Seq(S) /\ Len(f) = n /\ DOMAIN f = 1 .. n
OBVIOUS

\* A sequence of n places in order has each of them.
LEMMA InOrderAll ==
  ASSUME NEW N \in SUBSET Nat, IsFiniteSet(N), NEW t \in InOrder(N)
  PROVE  /\ Cardinality(N) \in Nat
         /\ t \in [1 .. Cardinality(N) -> N]
         /\ \A i, k \in 1 .. Cardinality(N) : i # k => t[i] # t[k]
         /\ \A n \in N : \E i \in 1 .. Cardinality(N) : t[i] = n
<1>. DEFINE c == Cardinality(N)
<1>1. c \in Nat
  BY FS_CardinalityType
<1>2. /\ t \in [1 .. c -> N]
      /\ \A i, k \in 1 .. c : i < k => t[i] < t[k]
  BY DEF InOrder
<1>3. \A i, k \in 1 .. c : i # k => t[i] # t[k]
  <2>. SUFFICES ASSUME NEW i \in 1 .. c, NEW k \in 1 .. c, i < k PROVE t[i] # t[k]
    BY <1>1
  <2>1. t[i] \in Nat /\ t[k] \in Nat /\ t[i] < t[k]
    BY <1>2
  <2>. QED  BY <2>1
<1>4. t \in Injection(1 .. c, N)
  BY <1>2, <1>3 DEF Injection, IsInjective
<1>5. Cardinality(1 .. c) = c
  BY <1>1, FS_Interval
<1>6. t \in Surjection(1 .. c, N)
  BY <1>4, <1>5, FS_Injection
<1>. QED  BY <1>1, <1>2, <1>3, <1>6 DEF Surjection

-----------------------------------------------------------------------------
(***************************************************************************)
(* What is written of source rows: those of the run r for the sources S    *)
(* get a status, and S one each where they have none.                      *)
(***************************************************************************)
NewRows == DOMAIN source' \ DOMAIN source

Marked(r, S, status) ==
  /\ source' \in Seq(SourceRow) /\ Len(source) <= Len(source')
  /\ \A i \in DOMAIN source :
       /\ source'[i].run = source[i].run /\ source'[i].source = source[i].source
       /\ source'[i].status = IF source[i].run = r /\ source[i].source \in S THEN status
                              ELSE source[i].status
  /\ \A i \in NewRows : /\ source'[i].run = r /\ source'[i].source \in S /\ source'[i].status = status
                        /\ RowOf(source, r, source'[i].source) = {}
  /\ \A i, k \in NewRows : source'[i].source = source'[k].source => i = k
  /\ \A s \in S : \E i \in DOMAIN source' : source'[i].run = r /\ source'[i].source = s

LEMMA SourceRows ==
  ASSUME LegacyTypeOK
  PROVE  /\ Len(source) \in Nat /\ DOMAIN source = 1 .. Len(source)
         /\ \A i \in DOMAIN source : /\ source[i] \in SourceRow
                                     /\ source[i].run \in 1 .. MaxRuns /\ source[i].run \in Nat
                                     /\ source[i].source \in Sources
                                     /\ source[i].status \in Outcomes \cup {"running"}
                                     /\ source[i] = SourceRowOf(source[i].run, source[i].source, source[i].status)
<1>1. Len(source) \in Nat /\ DOMAIN source = 1 .. Len(source) /\ source \in [1 .. Len(source) -> SourceRow]
  BY LenProperties DEF LegacyTypeOK
<1>. SUFFICES ASSUME NEW i \in DOMAIN source
              PROVE  /\ source[i] \in SourceRow
                     /\ source[i].run \in 1 .. MaxRuns /\ source[i].run \in Nat
                     /\ source[i].source \in Sources
                     /\ source[i].status \in Outcomes \cup {"running"}
                     /\ source[i] = SourceRowOf(source[i].run, source[i].source, source[i].status)
  BY <1>1
<1>2. source[i] \in SourceRow
  BY <1>1
<1>. QED  BY <1>2 DEF SourceRow, SourceRowOf

LEMMA WithStatusMarks ==
  ASSUME LegacyTypeOK, NEW r \in 1 .. MaxRuns, NEW s \in Sources,
         NEW status \in Outcomes \cup {"running"}, source' = WithStatus(source, r, s, status)
  PROVE  Marked(r, {s}, status)
<1>. DEFINE new == SourceRowOf(r, s, status)
<1>1. /\ new \in SourceRow /\ new.run = r /\ new.source = s /\ new.status = status
  BY DEF SourceRow, SourceRowOf
<1>2. source \in Seq(SourceRow) /\ Len(source) \in Nat /\ DOMAIN source = 1 .. Len(source)
  BY SourceRows DEF LegacyTypeOK
<1>. HIDE DEF new
<1>3. CASE RowOf(source, r, s) = {}
  <2>1. source' = Append(source, new)
    BY <1>3 DEF WithStatus, new
  <2>2. /\ source' \in Seq(SourceRow) /\ Len(source') = Len(source) + 1
        /\ \A i \in 1 .. Len(source) : source'[i] = source[i]
        /\ source'[Len(source) + 1] = new
    BY <1>1, <1>2, <2>1, AppendProperties
  <2>3. DOMAIN source' = 1 .. Len(source) + 1
    BY <2>2, LenProperties
  <2>4. NewRows = {Len(source) + 1}
    BY <1>2, <2>3 DEF NewRows
  <2>5. \A i \in DOMAIN source : ~ (source[i].run = r /\ source[i].source = s)
    BY <1>3 DEF RowOf
  <2>. QED  BY <1>1, <1>2, <1>3, <2>2, <2>3, <2>4, <2>5 DEF Marked
<1>4. CASE RowOf(source, r, s) # {}
  <2>1. source' = [i \in 1 .. Len(source) |-> IF i \in RowOf(source, r, s) THEN new ELSE source[i]]
    BY <1>2, <1>4 DEF WithStatus, new
  <2>2. source' \in [1 .. Len(source) -> SourceRow]
    BY <1>1, <1>2, <2>1, SourceRows
  <2>3. source' \in Seq(SourceRow) /\ Len(source') = Len(source) /\ DOMAIN source' = 1 .. Len(source)
    BY <1>2, <2>2, FunctionSequence
  <2>4. NewRows = {}
    BY <1>2, <2>3 DEF NewRows
  <2>5. \A i \in DOMAIN source :
          /\ source'[i].run = source[i].run /\ source'[i].source = source[i].source
          /\ source'[i].status = IF source[i].run = r /\ source[i].source \in {s} THEN status
                                 ELSE source[i].status
    BY <1>1, <1>2, <2>1 DEF RowOf
  <2>6. \E i \in DOMAIN source' : source'[i].run = r /\ source'[i].source = s
    BY <1>2, <1>4, <2>3, <2>5 DEF RowOf
  <2>. QED  BY <1>2, <2>3, <2>4, <2>5, <2>6 DEF Marked
<1>. QED  BY <1>3, <1>4

-----------------------------------------------------------------------------
LEMMA ProcessType ==
  ASSUME LegacyTypeOK, NEW p \in Processes, proc[p] # None
  PROVE  /\ proc[p] \in Process /\ p \in Alive
         /\ proc[p].run \in 1 .. MaxRuns
         /\ proc[p].keys \in Seq(Sources) /\ proc[p].results \in Seq(Outcomes)
         /\ Len(proc[p].keys) \in Nat /\ DOMAIN proc[p].keys = 1 .. Len(proc[p].keys)
         /\ \A n \in DOMAIN proc[p].keys : proc[p].keys[n] \in Sources
         /\ Len(proc[p].results) \in Nat /\ DOMAIN proc[p].results = 1 .. Len(proc[p].results)
         /\ \A n \in DOMAIN proc[p].results : proc[p].results[n] \in Outcomes
<1>1. proc[p] \in Process /\ p \in Alive
  BY DEF LegacyTypeOK, Alive
<1>2. /\ proc[p].run \in 1 .. MaxRuns
      /\ proc[p].keys \in Seq(Sources) /\ proc[p].results \in Seq(Outcomes)
  BY <1>1 DEF Process
<1>3. /\ Len(proc[p].keys) \in Nat /\ proc[p].keys \in [1 .. Len(proc[p].keys) -> Sources]
      /\ Len(proc[p].results) \in Nat /\ proc[p].results \in [1 .. Len(proc[p].results) -> Outcomes]
  BY <1>2, LenProperties
<1>. QED  BY <1>1, <1>2, <1>3

Unstarted(p) == {proc[p].keys[n] : n \in Left(p)}

LEMMA LeftPlaces ==
  ASSUME LegacyTypeOK, NEW p \in Processes, proc[p] # None
  PROVE  /\ Left(p) \subseteq (Len(proc[p].results) + 1) .. Len(proc[p].keys)
         /\ Left(p) \subseteq DOMAIN proc[p].keys
         /\ IsFiniteSet(Left(p)) /\ Cardinality(Left(p)) \in Nat
         /\ Unstarted(p) \subseteq Sources
<1>. DEFINE k == Len(proc[p].keys)
            d == Len(proc[p].results)
<1>1. k \in Nat /\ d \in Nat /\ DOMAIN proc[p].keys = 1 .. k
  BY ProcessType
<1>2. Left(p) \subseteq 1 .. k
  BY <1>1 DEF Left
<1>3. Left(p) \subseteq d + 1 .. k
  <2>. SUFFICES ASSUME NEW n \in Left(p) PROVE ~ (n <= d)
    BY <1>1, <1>2
  <2>1. \A i \in 1 .. d : proc[p].keys[i] # proc[p].keys[n]
    BY DEF Left
  <2>. QED  BY <1>1, <1>2, <2>1
<1>4. IsFiniteSet(Left(p)) /\ Cardinality(Left(p)) \in Nat
  <2>1. IsFiniteSet(1 .. k)
    BY <1>1, FS_Interval
  <2>. QED  BY <1>2, <2>1, FS_Subset, FS_CardinalityType
<1>. QED  BY <1>1, <1>2, <1>3, <1>4, ProcessType DEF Unstarted

LEMMA UnstartedMarks ==
  ASSUME LegacyTypeOK, NEW p \in Processes, proc[p] # None, RecordUnstarted(p)
  PROVE  Marked(proc[p].run, Unstarted(p), "failed")
<1>. DEFINE keys == proc[p].keys
            r == proc[p].run
            new == {n \in Left(p) : /\ RowOf(source, r, keys[n]) = {}
                                    /\ \A i \in 1 .. n - 1 : keys[i] # keys[n]}
<1>1. PICK t \in InOrder(new) :
        source' = UpdatedAsFailed(p) \o [n \in DOMAIN t |-> SourceRowOf(r, keys[t[n]], "failed")]
  BY DEF RecordUnstarted
<1>2. /\ r \in 1 .. MaxRuns /\ \A n \in Left(p) : keys[n] \in Sources
      /\ Left(p) \in SUBSET Nat /\ IsFiniteSet(Left(p)) /\ \A n \in Left(p) : n \in DOMAIN keys
      /\ DOMAIN keys \subseteq Nat \ {0}
  BY ProcessType, LeftPlaces
<1>3. new \in SUBSET Nat /\ IsFiniteSet(new) /\ new \subseteq Left(p)
  BY <1>2, FS_Subset
<1>4. \A n \in new : RowOf(source, r, keys[n]) = {} /\ keys[n] \in Unstarted(p)
  BY DEF Unstarted
<1>5. \A n, m \in new : keys[n] = keys[m] => n = m
  <2>. SUFFICES ASSUME NEW n \in new, NEW m \in new, keys[n] = keys[m], n < m PROVE FALSE
    BY <1>3
  <2>1. n \in 1 .. m - 1
    BY <1>2, <1>3
  <2>. QED  BY <2>1
<1>6. \A s \in Unstarted(p) : RowOf(source, r, s) = {} => \E n \in new : keys[n] = s
  <2>. SUFFICES ASSUME NEW s \in Unstarted(p), RowOf(source, r, s) = {}
                PROVE  \E n \in new : keys[n] = s
    OBVIOUS
  <2>. DEFINE T == {n \in DOMAIN keys : keys[n] = s}
  <2>1. PICK n \in Left(p) : keys[n] = s
    BY DEF Unstarted
  <2>2. T \in SUBSET Nat /\ T # {}
    BY <1>2, <2>1
  <2>3. PICK m \in T : \A i \in T : m <= i
    BY <2>2, LeastNumber
  <2>4. m \in Left(p)
    BY <2>1, <2>3 DEF Left
  <2>5. \A i \in 1 .. m - 1 : keys[i] # keys[m]
    <3>. SUFFICES ASSUME NEW i \in 1 .. m - 1, keys[i] = keys[m] PROVE FALSE
      OBVIOUS
    <3>1. DOMAIN keys = 1 .. Len(keys) /\ Len(keys) \in Nat
      BY ProcessType
    <3>2. i \in T
      BY <2>3, <3>1
    <3>. QED  BY <2>2, <2>3, <3>2
  <2>. QED  BY <2>3, <2>4, <2>5
<1>. HIDE DEF new
<1>. DEFINE c == Cardinality(new)
            a == UpdatedAsFailed(p)
            b == [n \in 1 .. c |-> SourceRowOf(r, keys[t[n]], "failed")]
<1>7. /\ c \in Nat /\ t \in [1 .. c -> new]
      /\ \A i, k \in 1 .. c : i # k => t[i] # t[k]
      /\ \A n \in new : \E i \in 1 .. c : t[i] = n
  BY <1>3, InOrderAll
<1>8. source' = a \o b
  <2>1. DOMAIN t = 1 .. c
    BY <1>7
  <2>. QED  BY <1>1, <2>1
<1>9. /\ b \in Seq(SourceRow) /\ Len(b) = c
      /\ \A i \in 1 .. c : /\ b[i].run = r /\ b[i].source = keys[t[i]] /\ b[i].status = "failed"
  <2>1. \A i \in 1 .. c : SourceRowOf(r, keys[t[i]], "failed") \in SourceRow
    BY <1>2, <1>3, <1>7 DEF SourceRowOf, SourceRow, Outcomes
  <2>2. b \in [1 .. c -> SourceRow]
    BY <2>1
  <2>3. b \in Seq(SourceRow) /\ Len(b) = c
    BY <1>7, <2>2, FunctionSequence
  <2>. QED  BY <2>3 DEF SourceRowOf
<1>10. /\ a \in Seq(SourceRow) /\ Len(a) = Len(source)
       /\ \A i \in 1 .. Len(source) :
            /\ a[i].run = source[i].run /\ a[i].source = source[i].source
            /\ a[i].status = IF source[i].run = r /\ source[i].source \in Unstarted(p) THEN "failed"
                             ELSE source[i].status
  <2>1. a = [i \in 1 .. Len(source) |->
               IF source[i].run = r /\ source[i].source \in Unstarted(p)
               THEN [source[i] EXCEPT !.status = "failed"] ELSE source[i]]
    BY SourceRows DEF UpdatedAsFailed, Unstarted
  <2>2. ASSUME NEW i \in 1 .. Len(source)
        PROVE  LET failed == [source[i] EXCEPT !.status = "failed"]
               IN  /\ failed \in SourceRow /\ failed.run = source[i].run
                   /\ failed.source = source[i].source /\ failed.status = "failed"
    <3>1. source[i] \in SourceRow
      BY SourceRows
    <3>. QED  BY <3>1 DEF SourceRow, Outcomes
  <2>3. a \in [1 .. Len(source) -> SourceRow]
    BY <2>1, <2>2, SourceRows
  <2>4. a \in Seq(SourceRow) /\ Len(a) = Len(source)
    BY <2>3, SourceRows, FunctionSequence
  <2>. QED  BY <2>1, <2>2, <2>4
<1>. HIDE DEF a, b, c
<1>. DEFINE l == Len(source)
<1>11. /\ l \in Nat /\ DOMAIN source = 1 .. l
       /\ source' \in Seq(SourceRow) /\ Len(source') = l + c /\ DOMAIN source' = 1 .. l + c
       /\ \A i \in 1 .. l : source'[i] = a[i]
       /\ \A i \in 1 .. c : source'[l + i] = b[i]
  <2>1. l \in Nat /\ DOMAIN source = 1 .. l
    BY SourceRows
  <2>2. /\ source' \in Seq(SourceRow) /\ Len(source') = l + c
        /\ \A i \in 1 .. l + c : source'[i] = IF i <= l THEN a[i] ELSE b[i - l]
    <3>1. a \in Seq(SourceRow) /\ Len(a) = l /\ b \in Seq(SourceRow) /\ Len(b) = c
      BY <1>9, <1>10
    <3>2. /\ a \o b \in Seq(SourceRow) /\ Len(a \o b) = Len(a) + Len(b)
          /\ \A i \in 1 .. Len(a) + Len(b) : (a \o b)[i] = IF i <= Len(a) THEN a[i] ELSE b[i - Len(a)]
      BY <3>1, ConcatProperties
    <3>. QED  BY <1>8, <3>1, <3>2
  <2>3. DOMAIN source' = 1 .. l + c
    BY <2>2, LenProperties
  <2>4. \A i \in 1 .. l : source'[i] = a[i]
    BY <1>7, <2>1, <2>2
  <2>5. \A i \in 1 .. c : source'[l + i] = b[i]
    BY <1>7, <2>1, <2>2
  <2>. QED  BY <2>1, <2>2, <2>3, <2>4, <2>5
<1>. HIDE DEF l, keys, r
<1>12. ASSUME NEW i \in NewRows
       PROVE  \E k \in 1 .. c : i = l + k /\ source'[i] = b[k]
  <2>1. i \in 1 .. l + c /\ i \notin 1 .. l
    BY <1>11 DEF NewRows
  <2>2. i - l \in 1 .. c /\ i = l + (i - l)
    BY <1>7, <1>11, <2>1
  <2>3. source'[l + (i - l)] = b[i - l]
    BY <1>11, <2>2
  <2>. QED  BY <2>2, <2>3
<1>13. \A i \in NewRows : /\ source'[i].run = r /\ source'[i].source \in Unstarted(p)
                          /\ source'[i].status = "failed"
                          /\ RowOf(source, r, source'[i].source) = {}
  <2>. SUFFICES ASSUME NEW i \in NewRows
                PROVE  /\ source'[i].run = r /\ source'[i].source \in Unstarted(p)
                       /\ source'[i].status = "failed"
                       /\ RowOf(source, r, source'[i].source) = {}
    OBVIOUS
  <2>1. PICK k \in 1 .. c : source'[i] = b[k]
    BY <1>12
  <2>2. t[k] \in new
    BY <1>7
  <2>. QED  BY <1>4, <1>9, <2>1, <2>2
<1>14. \A i, k \in NewRows : source'[i].source = source'[k].source => i = k
  <2>. SUFFICES ASSUME NEW i \in NewRows, NEW k \in NewRows, source'[i].source = source'[k].source
                PROVE  i = k
    OBVIOUS
  <2>1. PICK n \in 1 .. c : i = l + n /\ source'[i] = b[n]
    BY <1>12
  <2>2. PICK m \in 1 .. c : k = l + m /\ source'[k] = b[m]
    BY <1>12
  <2>3. keys[t[n]] = keys[t[m]] /\ t[n] \in new /\ t[m] \in new
    BY <1>7, <1>9, <2>1, <2>2
  <2>4. n = m
    BY <1>5, <1>7, <2>3
  <2>. QED  BY <2>1, <2>2, <2>4
<1>15. \A s \in Unstarted(p) : \E i \in DOMAIN source' : source'[i].run = r /\ source'[i].source = s
  <2>. SUFFICES ASSUME NEW s \in Unstarted(p)
                PROVE  \E i \in DOMAIN source' : source'[i].run = r /\ source'[i].source = s
    OBVIOUS
  <2>1. CASE RowOf(source, r, s) = {}
    <3>1. PICK n \in new : keys[n] = s
      BY <1>6, <2>1
    <3>2. PICK i \in 1 .. c : t[i] = n
      BY <1>7
    <3>3. l + i \in DOMAIN source'
      BY <1>7, <1>11
    <3>. QED  BY <1>9, <1>11, <3>1, <3>2, <3>3
  <2>2. CASE RowOf(source, r, s) # {}
    <3>1. PICK i \in DOMAIN source : source[i].run = r /\ source[i].source = s
      BY <2>2 DEF RowOf
    <3>2. i \in DOMAIN source'
      BY <1>7, <1>11
    <3>. QED  BY <1>10, <1>11, <3>1, <3>2
  <2>. QED  BY <2>1, <2>2
<1>16. \A i \in DOMAIN source :
         /\ source'[i].run = source[i].run /\ source'[i].source = source[i].source
         /\ source'[i].status = IF source[i].run = r /\ source[i].source \in Unstarted(p) THEN "failed"
                               ELSE source[i].status
  BY <1>10, <1>11 DEF l
<1>17. source' \in Seq(SourceRow) /\ Len(source) <= Len(source')
  BY <1>7, <1>11 DEF l
<1>18. Marked(r, Unstarted(p), "failed")
  BY <1>13, <1>14, <1>15, <1>16, <1>17 DEF Marked
<1>. QED  BY <1>18 DEF r

-----------------------------------------------------------------------------
(***************************************************************************)
(* What the steps make of the processes.                                   *)
(***************************************************************************)
Moves(p, phase, results) ==
  /\ proc' \in [Processes -> Process \cup {None}]
  /\ p \in Alive /\ Alive' = Alive
  /\ \A q \in Processes : q # p => proc'[q] = proc[q]
  /\ \A q \in Processes : q \in Alive => proc'[q].run = proc[q].run /\ proc'[q].keys = proc[q].keys
  /\ proc'[p].phase = phase /\ proc'[p].results = results
  /\ InProgress' = InProgress

LEMMA MovesTo ==
  ASSUME LegacyTypeOK, NEW p \in Processes, proc[p] # None, NEW new \in Process,
         new.run = proc[p].run, new.keys = proc[p].keys, proc' = [proc EXCEPT ![p] = new]
  PROVE  Moves(p, new.phase, new.results)
<1>1. proc' \in [Processes -> Process \cup {None}] /\ p \in Alive
  BY DEF LegacyTypeOK, Alive
<1>2. proc'[p] = new /\ \A q \in Processes : q # p => proc'[q] = proc[q]
  BY DEF LegacyTypeOK
<1>3. Alive' = Alive
  BY <1>2, NoneAssumption DEF Alive
<1>4. \A q \in Processes : q \in Alive => proc'[q].run = proc[q].run /\ proc'[q].keys = proc[q].keys
  BY <1>2
<1>5. InProgress' = InProgress
  BY <1>3, <1>4 DEF InProgress, Alive
<1>. QED  BY <1>1, <1>2, <1>3, <1>4, <1>5 DEF Moves

LEMMA RatesMove ==
  ASSUME LegacyTypeOK, NEW p \in Processes, NEW fetched \in BOOLEAN, Rates(p, fetched)
  PROVE  /\ At(p, "started") /\ Moves(p, "opening", proc[p].results)
         /\ fx' \in BOOLEAN /\ faults' \in 0 .. MaxFaults
         /\ UNCHANGED <<run, source, listing, browser, completed, began, lost>>
<1>1. proc[p] \in Process /\ proc[p] # None /\ At(p, "started")
  BY ProcessType DEF Rates, At
<1>2. fx' \in BOOLEAN
  BY DEF Rates, LegacyTypeOK
<1>. DEFINE new == [proc[p] EXCEPT !.phase = "opening", !.rates = fx']
<1>3. /\ new \in Process /\ new.run = proc[p].run /\ new.keys = proc[p].keys
      /\ new.phase = "opening" /\ new.results = proc[p].results
  BY <1>1, <1>2 DEF Process
<1>4. proc' = [proc EXCEPT ![p] = new]
  BY Zenon DEF Rates
<1>. HIDE DEF new
<1>5. Moves(p, "opening", proc[p].results)
  BY <1>1, <1>3, <1>4, MovesTo
<1>6. faults' \in 0 .. MaxFaults
  BY LegacyAssumption DEF Rates, Fault, LegacyTypeOK
<1>. QED  BY <1>1, <1>2, <1>5, <1>6 DEF Rates, historyVars

\* The phase of a process changes, and nothing else of it.
LEMMA PhaseMoves ==
  ASSUME LegacyTypeOK, NEW p \in Processes, proc[p] # None,
         NEW phase \in {"started", "opening", "between", "collecting", "finishing"},
         proc' = [proc EXCEPT ![p].phase = phase]
  PROVE  Moves(p, phase, proc[p].results)
<1>1. proc[p] \in Process
  BY ProcessType
<1>. DEFINE new == [proc[p] EXCEPT !.phase = phase]
<1>2. /\ new \in Process /\ new.run = proc[p].run /\ new.keys = proc[p].keys
      /\ new.phase = phase /\ new.results = proc[p].results
  BY <1>1 DEF Process
<1>3. proc' = [proc EXCEPT ![p] = new]
  OBVIOUS
<1>. HIDE DEF new
<1>. QED  BY <1>2, <1>3, MovesTo

LEMMA ResultsMove ==
  ASSUME LegacyTypeOK, NEW p \in Processes, proc[p] # None,
         NEW phase \in {"started", "opening", "between", "collecting", "finishing"},
         NEW results \in Seq(Outcomes),
         proc' = [proc EXCEPT ![p].phase = phase, ![p].results = results]
  PROVE  Moves(p, phase, results)
<1>1. proc[p] \in Process
  BY ProcessType
<1>. DEFINE new == [proc[p] EXCEPT !.phase = phase, !.results = results]
<1>2. /\ new \in Process /\ new.run = proc[p].run /\ new.keys = proc[p].keys
      /\ new.phase = phase /\ new.results = results
  BY <1>1 DEF Process
<1>3. proc' = [proc EXCEPT ![p] = new]
  BY Zenon
<1>. HIDE DEF new
<1>. QED  BY <1>2, <1>3, MovesTo

LEMMA OpenMoves ==
  ASSUME LegacyTypeOK, NEW p \in Processes, Open(p)
  PROVE  /\ At(p, "opening") /\ Moves(p, "between", proc[p].results)
         /\ browser = None /\ browser' = p
         /\ UNCHANGED <<run, source, listing, fx, completed, began, lost, faults>>
BY PhaseMoves DEF Open, At, historyVars, ProfileFree

LEMMA StartSourceMoves ==
  ASSUME LegacyTypeOK, NEW p \in Processes, StartSource(p)
  PROVE  /\ At(p, "between") /\ Moves(p, "collecting", proc[p].results)
         /\ Len(proc[p].results) < Len(proc[p].keys) /\ Key(p) \in Sources
         /\ Key(p) = proc[p].keys[Len(proc[p].results) + 1]
         /\ Marked(proc[p].run, {Key(p)}, "running")
         /\ UNCHANGED <<run, listing, fx, browser, completed, began, lost, faults>>
<1>1. /\ At(p, "between") /\ Moves(p, "collecting", proc[p].results)
      /\ UNCHANGED <<run, listing, fx, browser, completed, began, lost, faults>>
  BY PhaseMoves DEF StartSource, At, historyVars
<1>2. Len(proc[p].results) < Len(proc[p].keys) /\ Key(p) \in Sources /\ proc[p].run \in 1 .. MaxRuns
  BY ProcessType DEF StartSource, Key, At
<1>3. Marked(proc[p].run, {Key(p)}, "running")
  BY <1>2, WithStatusMarks DEF StartSource
<1>. QED  BY <1>1, <1>2, <1>3 DEF Key

LEMMA ResultMoves ==
  ASSUME LegacyTypeOK, NEW p \in Processes, NEW status \in Outcomes,
         At(p, "collecting"), Result(p, status), Len(proc[p].results) < Len(proc[p].keys)
  PROVE  /\ Moves(p, "between", Append(proc[p].results, status))
         /\ Key(p) \in Sources
         /\ Marked(proc[p].run, {Key(p)}, status)
         /\ UNCHANGED <<run, fx, browser, completed, began, lost, faults>>
<1>1. proc[p] # None /\ Key(p) \in Sources /\ proc[p].run \in 1 .. MaxRuns
  BY ProcessType DEF At, Key
<1>2. Append(proc[p].results, status) \in Seq(Outcomes)
  BY <1>1, ProcessType, AppendProperties
<1>3. proc' = [proc EXCEPT ![p].phase = "between", ![p].results = Append(proc[p].results, status)]
  BY Zenon DEF Result
<1>4. Moves(p, "between", Append(proc[p].results, status))
  BY <1>1, <1>2, <1>3, ResultsMove
<1>5. Marked(proc[p].run, {Key(p)}, status)
  BY <1>1, WithStatusMarks DEF Result
<1>. QED  BY <1>1, <1>4, <1>5 DEF Result, historyVars

LEMMA UnstartedMoves ==
  ASSUME LegacyTypeOK, NEW p \in Processes, proc[p] # None, RecordUnstarted(p)
  PROVE  \E results \in Seq(Outcomes) :
           /\ Moves(p, "finishing", results)
           /\ Len(results) = Len(proc[p].results) + Cardinality(Left(p))
           /\ \A n \in DOMAIN results :
                results[n] = IF n <= Len(proc[p].results) THEN proc[p].results[n] ELSE "failed"
<1>. DEFINE c == Cardinality(Left(p))
            d == [n \in 1 .. c |-> "failed"]
            results == proc[p].results \o d
<1>1. c \in Nat /\ proc[p].results \in Seq(Outcomes) /\ Len(proc[p].results) \in Nat
  BY LeftPlaces, ProcessType
<1>2. d \in Seq(Outcomes) /\ Len(d) = c /\ \A n \in 1 .. c : d[n] = "failed"
  <2>1. d \in [1 .. c -> Outcomes]
    BY DEF Outcomes
  <2>. QED  BY <1>1, <2>1, FunctionSequence
<1>3. proc' = [proc EXCEPT ![p].phase = "finishing", ![p].results = results]
  BY Zenon DEF RecordUnstarted
<1>. HIDE DEF d, c
<1>4. /\ results \in Seq(Outcomes) /\ Len(results) = Len(proc[p].results) + c
      /\ \A n \in 1 .. Len(proc[p].results) + c :
           results[n] = IF n <= Len(proc[p].results) THEN proc[p].results[n]
                        ELSE d[n - Len(proc[p].results)]
  BY <1>1, <1>2, ConcatProperties
<1>5. DOMAIN results = 1 .. Len(proc[p].results) + c
  BY <1>4, LenProperties
<1>. HIDE DEF results
<1>6. \A n \in DOMAIN results :
        results[n] = IF n <= Len(proc[p].results) THEN proc[p].results[n] ELSE "failed"
  BY <1>1, <1>2, <1>4, <1>5
<1>7. Moves(p, "finishing", results)
  BY <1>3, <1>4, ResultsMove
<1>. QED  BY <1>4, <1>6, <1>7 DEF c

LEMMA CloseMoves ==
  ASSUME LegacyTypeOK, NEW p \in Processes, Close(p)
  PROVE  /\ At(p, "between") /\ Moves(p, "finishing", proc[p].results)
         /\ Len(proc[p].results) = Len(proc[p].keys) /\ browser' = None
         /\ UNCHANGED <<run, source, listing, fx, completed, began, lost, faults>>
BY PhaseMoves DEF Close, At, historyVars

\* A process that ends, by itself or not.
LEMMA Gone ==
  ASSUME LegacyTypeOK, NEW p \in Processes, proc' = [proc EXCEPT ![p] = None]
  PROVE  /\ proc' \in [Processes -> Process \cup {None}]
         /\ Alive' = Alive \ {p}
         /\ \A q \in Alive' : proc'[q] = proc[q] /\ q \in Alive /\ q # p
BY DEF LegacyTypeOK, Alive

\* The rows of the new run, and of those before it.
LEMMA Starts ==
  ASSUME LegacyTypeOK, NEW p \in Processes, NEW o \in Options[p], Start(p, o)
  PROVE  /\ proc[p] = None /\ proc' \in [Processes -> Process \cup {None}]
         /\ Alive' = Alive \cup {p} /\ p \notin Alive
         /\ \A q \in Alive : proc'[q] = proc[q] /\ q # p
         /\ proc'[p].phase = "started" /\ proc'[p].run = Len(run) + 1
         /\ proc'[p].keys = o.keys /\ proc'[p].results = <<>>
         /\ o.keys \in Seq(Sources) /\ o.keys # <<>>
<1>1. o.date \in Dates /\ o.keys \in Seq(Sources) /\ o.keys # <<>>
  BY LegacyAssumption
<1>. DEFINE new == [phase |-> "started", run |-> Len(run) + 1, keys |-> o.keys,
                    results |-> <<>>, rates |-> FALSE]
<1>2. Len(run) + 1 \in 1 .. MaxRuns
  BY LegacyAssumption, LenProperties DEF LegacyTypeOK, Start
<1>3. <<>> \in Seq(Outcomes)
  BY EmptySeq
<1>4. /\ new \in Process /\ new.phase = "started" /\ new.run = Len(run) + 1
      /\ new.keys = o.keys /\ new.results = <<>>
  BY <1>1, <1>2, <1>3 DEF Process
<1>5. proc[p] = None /\ proc' = [proc EXCEPT ![p] = new]
  BY DEF Start
<1>. HIDE DEF new
<1>6. proc' \in [Processes -> Process \cup {None}] /\ proc'[p] = new
      /\ \A q \in Processes : q # p => proc'[q] = proc[q]
  BY <1>4, <1>5 DEF LegacyTypeOK
<1>7. p \notin Alive /\ Alive' = Alive \cup {p} /\ \A q \in Alive : proc'[q] = proc[q] /\ q # p
  BY <1>4, <1>5, <1>6, NoneAssumption DEF Alive
<1>. QED  BY <1>1, <1>4, <1>5, <1>6, <1>7

LEMMA StartsRun ==
  ASSUME LegacyTypeOK, NEW p \in Processes, NEW o \in Options[p], Start(p, o)
  PROVE  /\ Len(run) \in Nat /\ Len(run) + 1 \in 1 .. MaxRuns
         /\ run' \in Seq(RunRow) /\ Len(run') = Len(run) + 1
         /\ DOMAIN run = 1 .. Len(run) /\ DOMAIN run' = 1 .. Len(run) + 1
         /\ \A r \in DOMAIN run : run'[r] = Failed(run[r]) /\ run'[r].status \in Outcomes
                                  /\ (run[r].status \in Outcomes => run'[r].status = run[r].status)
                                  /\ run'[r].date = run[r].date
         /\ began' \in Seq([keys: Seq(Sources), alongside: SUBSET (1 .. MaxRuns)])
         /\ Len(began') = Len(run) + 1
         /\ \A r \in DOMAIN run : began'[r] = began[r]
         /\ began'[Len(run) + 1].keys = o.keys /\ began'[Len(run) + 1].alongside = InProgress
<1>. DEFINE l == Len(run)
            rows == RecoveredRuns(run)
            row == [date |-> o.date, status |-> "running"]
            begun == [keys |-> o.keys, alongside |-> InProgress]
            Begun == [keys: Seq(Sources), alongside: SUBSET (1 .. MaxRuns)]
<1>1. l \in Nat /\ l + 1 \in 1 .. MaxRuns /\ run \in [1 .. l -> RunRow] /\ DOMAIN run = 1 .. l
  BY LegacyAssumption, LenProperties DEF LegacyTypeOK, Start
<1>2. \A r \in 1 .. l : /\ Failed(run[r]) \in RunRow /\ Failed(run[r]).status \in Outcomes
                        /\ (run[r].status \in Outcomes => Failed(run[r]).status = run[r].status)
                        /\ Failed(run[r]).date = run[r].date
  <2>. SUFFICES ASSUME NEW r \in 1 .. l
                PROVE  /\ Failed(run[r]) \in RunRow /\ Failed(run[r]).status \in Outcomes
                       /\ (run[r].status \in Outcomes => Failed(run[r]).status = run[r].status)
                       /\ Failed(run[r]).date = run[r].date
    OBVIOUS
  <2>1. run[r] \in RunRow
    BY <1>1
  <2>. QED  BY <2>1 DEF Failed, RunRow, Outcomes
<1>3. rows \in Seq(RunRow) /\ Len(rows) = l /\ \A r \in 1 .. l : rows[r] = Failed(run[r])
  <2>1. rows = [r \in 1 .. l |-> Failed(run[r])]
    BY <1>1 DEF RecoveredRuns
  <2>2. rows \in [1 .. l -> RunRow]
    BY <1>2, <2>1
  <2>. QED  BY <1>1, <2>1, <2>2, FunctionSequence
<1>4. row \in RunRow
  BY LegacyAssumption DEF RunRow
<1>. HIDE DEF rows, row
<1>5. run' = Append(rows, row)
  BY DEF Start, rows, row
<1>6. /\ run' \in Seq(RunRow) /\ Len(run') = l + 1
      /\ \A r \in 1 .. l : run'[r] = Failed(run[r])
  BY <1>3, <1>4, <1>5, AppendProperties
<1>7. DOMAIN run' = 1 .. l + 1
  BY <1>6, LenProperties
<1>8. begun \in Begun
  <2>1. InProgress \subseteq 1 .. MaxRuns
    BY ProcessType DEF InProgress, Alive
  <2>. QED  BY <2>1, LegacyAssumption
<1>9. began \in Seq(Begun) /\ Len(began) = l /\ began' = Append(began, begun)
  BY DEF LegacyTypeOK, Start
<1>10. begun.keys = o.keys /\ begun.alongside = InProgress
  OBVIOUS
<1>. HIDE DEF begun, Begun
<1>11. /\ began' \in Seq(Begun) /\ Len(began') = l + 1
       /\ \A r \in 1 .. l : began'[r] = began[r]
       /\ began'[l + 1] = begun
  BY <1>8, <1>9, AppendProperties
<1>. QED  BY <1>1, <1>2, <1>6, <1>7, <1>10, <1>11 DEF Begun

LEMMA StartsSources ==
  ASSUME LegacyTypeOK, NEW p \in Processes, NEW o \in Options[p], Start(p, o)
  PROVE  /\ source' \in Seq(SourceRow) /\ Len(source') = Len(source) /\ DOMAIN source' = DOMAIN source
         /\ \A i \in DOMAIN source :
              /\ source'[i].run = source[i].run /\ source'[i].source = source[i].source
              /\ source'[i].status \in Outcomes
              /\ (source[i].status \in Outcomes => source'[i].status = source[i].status)
<1>. DEFINE l == Len(source)
<1>1. source' = [i \in 1 .. l |-> Failed(source[i])]
  BY SourceRows DEF Start
<1>2. \A i \in 1 .. l :
        /\ Failed(source[i]) \in SourceRow
        /\ Failed(source[i]).run = source[i].run /\ Failed(source[i]).source = source[i].source
        /\ Failed(source[i]).status \in Outcomes
        /\ (source[i].status \in Outcomes => Failed(source[i]).status = source[i].status)
  <2>. SUFFICES ASSUME NEW i \in 1 .. l
                PROVE  /\ Failed(source[i]) \in SourceRow
                       /\ Failed(source[i]).run = source[i].run /\ Failed(source[i]).source = source[i].source
                       /\ Failed(source[i]).status \in Outcomes
                       /\ (source[i].status \in Outcomes => Failed(source[i]).status = source[i].status)
    OBVIOUS
  <2>1. source[i] \in SourceRow
    BY SourceRows
  <2>. QED  BY <2>1 DEF Failed, SourceRow, Outcomes
<1>3. source' \in [1 .. l -> SourceRow]
  BY <1>1, <1>2
<1>4. l \in Nat /\ DOMAIN source = 1 .. l
  BY SourceRows
<1>5. source' \in Seq(SourceRow) /\ Len(source') = l /\ DOMAIN source' = 1 .. l
  BY <1>3, <1>4, FunctionSequence
<1>. QED  BY <1>1, <1>2, <1>4, <1>5

LEMMA Finishes ==
  ASSUME LegacyTypeOK, NEW p \in Processes, Finish(p), proc[p].run \in DOMAIN run
  PROVE  /\ At(p, "finishing") /\ proc' = [proc EXCEPT ![p] = None]
         /\ RunStatus(proc[p].results) \in Outcomes
         /\ run' \in Seq(RunRow) /\ Len(run') = Len(run) /\ DOMAIN run' = DOMAIN run
         /\ \A r \in DOMAIN run :
              /\ run'[r].date = run[r].date
              /\ r # proc[p].run => run'[r] = run[r]
              /\ r = proc[p].run => run'[r].status = RunStatus(proc[p].results)
         /\ completed' = completed \cup {proc[p].run}
         /\ UNCHANGED <<source, listing, fx, browser, began, lost, faults>>
<1>1. RunStatus(proc[p].results) \in Outcomes
  BY DEF RunStatus, Outcomes
<1>. DEFINE R == proc[p].run
            status == RunStatus(proc[p].results)
            row == [run[R] EXCEPT !.status = status]
<1>2. run \in Seq(RunRow) /\ Len(run) \in Nat /\ DOMAIN run = 1 .. Len(run) /\ run[R] \in RunRow
  BY LenProperties, ElementOfSeq DEF LegacyTypeOK
<1>3. row \in RunRow /\ row.date = run[R].date /\ row.status = status
  BY <1>1, <1>2 DEF RunRow, Outcomes
<1>4. run' = [run EXCEPT ![R] = row]
  BY DEF Finish
<1>5. UNCHANGED <<source, listing, fx, browser, began, lost, faults>> /\ At(p, "finishing")
      /\ proc' = [proc EXCEPT ![p] = None] /\ completed' = completed \cup {proc[p].run}
  BY DEF Finish
<1>. HIDE DEF row, status, R
<1>6. R \in 1 .. Len(run)
  BY <1>2 DEF R
<1>7. /\ run' \in Seq(RunRow) /\ Len(run') = Len(run)
      /\ \A r \in 1 .. Len(run) : run'[r] = IF r = R THEN row ELSE run[r]
  BY <1>2, <1>3, <1>4, <1>6, ExceptSeq
<1>8. DOMAIN run' = 1 .. Len(run)
  BY <1>7, LenProperties
<1>. QED  BY <1>1, <1>2, <1>3, <1>5, <1>7, <1>8 DEF R, status

\* The listings a source had: those of the run are written over, each item that
\* has no row in it gets one.
NewListings == DOMAIN listing' \ DOMAIN listing

Inserts(r, s) ==
  /\ listing' \in Seq(ListingRow) /\ Len(listing) <= Len(listing')
  /\ \A i \in DOMAIN listing : /\ listing'[i].run = listing[i].run
                               /\ listing'[i].source = listing[i].source
                               /\ listing'[i].item = listing[i].item
  /\ \A i \in NewListings :
       /\ listing'[i].run = r /\ listing'[i].source = s
       /\ \A k \in DOMAIN listing :
            ~ (listing[k].run = r /\ listing[k].source = s /\ listing[k].item = listing'[i].item)
  /\ \A i, k \in NewListings : listing'[i].item = listing'[k].item => i = k

LEMMA ListingRows ==
  ASSUME LegacyTypeOK
  PROVE  /\ listing \in Seq(ListingRow)
         /\ Len(listing) \in Nat /\ DOMAIN listing = 1 .. Len(listing)
         /\ listing \in [1 .. Len(listing) -> ListingRow]
         /\ \A i \in DOMAIN listing :
              /\ listing[i] \in ListingRow
              /\ listing[i].run \in 1 .. MaxRuns /\ listing[i].run \in Nat
              /\ listing[i].source \in Sources /\ listing[i].item \in Items
<1>1. /\ Len(listing) \in Nat /\ DOMAIN listing = 1 .. Len(listing)
      /\ listing \in [1 .. Len(listing) -> ListingRow] /\ listing \in Seq(ListingRow)
  BY LenProperties DEF LegacyTypeOK
<1>2. \A i \in DOMAIN listing : listing[i] \in ListingRow
  BY <1>1
<1>. QED  BY <1>1, <1>2 DEF ListingRow

LEMMA Collects ==
  ASSUME LegacyTypeOK, NEW p \in Processes, NEW out \in Output, Collect(p, out),
         Len(proc[p].results) < Len(proc[p].keys)
  PROVE  Inserts(proc[p].run, Key(p))
<1>. DEFINE all == out.offered \cup out.sold
            new == {item \in all : Known(p, item) = {}}
            old == [i \in DOMAIN listing |->
                      IF \E item \in all : i \in Known(p, item) THEN ListingOf(p, listing[i].item, out)
                      ELSE listing[i]]
            r == proc[p].run
            l == Len(listing)
            c == Cardinality(new)
<1>1. /\ r \in 1 .. MaxRuns /\ Key(p) \in Sources /\ proc[p].rates \in BOOLEAN
  <2>1. proc[p] # None /\ proc[p] \in Process
    BY ProcessType DEF Collect, At
  <2>. QED  BY <2>1, ProcessType DEF Key, Process
<1>2. new \subseteq Items /\ IsFiniteSet(new) /\ c \in Nat
  <2>1. new \subseteq Items
    BY DEF Output, Seen
  <2>. QED  BY <2>1, FS_Subset, FS_CardinalityType, LegacyAssumption
<1>3. \A item \in Items :
        /\ ListingOf(p, item, out) \in ListingRow
        /\ ListingOf(p, item, out).run = r /\ ListingOf(p, item, out).source = Key(p)
        /\ ListingOf(p, item, out).item = item
  BY <1>1 DEF ListingOf, ListingRow
<1>4. l \in Nat /\ DOMAIN listing = 1 .. l
      /\ \A i \in 1 .. l : listing[i] \in ListingRow /\ listing[i].item \in Items
  BY ListingRows
<1>5. PICK s \in [1 .. c -> new] :
        /\ \A i, k \in DOMAIN s : i # k => s[i] # s[k]
        /\ listing' = old \o [n \in DOMAIN s |-> ListingOf(p, s[n], out)]
  <2>1. listing' \in Inserted(p, out)
    BY DEF Collect
  <2>. QED  BY <2>1 DEF Inserted
<1>6. /\ old \in Seq(ListingRow) /\ Len(old) = l
      /\ \A i \in 1 .. l : /\ old[i].run = listing[i].run /\ old[i].source = listing[i].source
                           /\ old[i].item = listing[i].item
  <2>1. ASSUME NEW i \in 1 .. l
        PROVE  /\ old[i] \in ListingRow
               /\ old[i].run = listing[i].run /\ old[i].source = listing[i].source
               /\ old[i].item = listing[i].item
    <3>1. CASE \E item \in all : i \in Known(p, item)
      <4>1. listing[i].run = r /\ listing[i].source = Key(p)
        BY <3>1 DEF Known
      <4>2. old[i] = ListingOf(p, listing[i].item, out)
        BY <1>4, <3>1
      <4>. HIDE DEF old
      <4>. QED  BY <1>3, <1>4, <4>1, <4>2
    <3>2. CASE ~ \E item \in all : i \in Known(p, item)
      <4>1. old[i] = listing[i]
        BY <1>4, <3>2
      <4>. HIDE DEF old
      <4>. QED  BY <1>4, <4>1
    <3>. QED  BY <3>1, <3>2
  <2>2. DOMAIN old = 1 .. l
    BY <1>4
  <2>3. old = [i \in 1 .. l |-> old[i]]
    BY <1>4
  <2>. HIDE DEF old
  <2>4. old \in [1 .. l -> ListingRow]
    BY <2>1, <2>3
  <2>. QED  BY <1>4, <2>1, <2>4, FunctionSequence
<1>. DEFINE b == [n \in 1 .. c |-> ListingOf(p, s[n], out)]
<1>7. /\ b \in Seq(ListingRow) /\ Len(b) = c
      /\ \A n \in 1 .. c : b[n].run = r /\ b[n].source = Key(p) /\ b[n].item = s[n]
  <2>1. \A n \in 1 .. c : s[n] \in Items
    BY <1>2
  <2>2. b \in [1 .. c -> ListingRow]
    BY <1>3, <2>1
  <2>3. \A n \in 1 .. c : b[n] = ListingOf(p, s[n], out)
    OBVIOUS
  <2>. HIDE DEF b, c, new, r
  <2>4. b \in Seq(ListingRow) /\ Len(b) = c
    BY <1>2, <2>2, FunctionSequence
  <2>. QED  BY <1>3, <2>1, <2>3, <2>4
<1>8. listing' = old \o b
  <2>1. DOMAIN s = 1 .. c
    BY <1>5
  <2>2. [n \in DOMAIN s |-> ListingOf(p, s[n], out)] = b
    BY <2>1
  <2>. HIDE DEF old, b, c, new
  <2>. QED  BY <1>5, <2>2
<1>9. \A n \in 1 .. c : Known(p, s[n]) = {}
  BY <1>5
<1>. HIDE DEF old, b, c, new, l
<1>10. /\ old \o b \in Seq(ListingRow) /\ Len(old \o b) = l + c
       /\ \A i \in 1 .. l + c : (old \o b)[i] = IF i <= l THEN old[i] ELSE b[i - l]
  <2>1. old \in Seq(ListingRow) /\ Len(old) = l /\ b \in Seq(ListingRow) /\ Len(b) = c
    BY <1>6, <1>7
  <2>2. /\ old \o b \in Seq(ListingRow) /\ Len(old \o b) = Len(old) + Len(b)
        /\ \A i \in 1 .. Len(old) + Len(b) : (old \o b)[i] = IF i <= Len(old) THEN old[i] ELSE b[i - Len(old)]
    BY <2>1, ConcatProperties
  <2>. QED  BY <2>1, <2>2
<1>11. /\ listing' \in Seq(ListingRow) /\ Len(listing') = l + c /\ DOMAIN listing' = 1 .. l + c
       /\ \A i \in 1 .. l : listing'[i] = old[i]
       /\ \A n \in 1 .. c : listing'[l + n] = b[n]
  <2>1. listing' \in Seq(ListingRow) /\ Len(listing') = l + c
    BY <1>8, <1>10
  <2>2. DOMAIN listing' = 1 .. l + c
    BY <2>1, LenProperties
  <2>3. \A i \in 1 .. l : listing'[i] = old[i]
    BY <1>2, <1>4, <1>8, <1>10
  <2>4. \A n \in 1 .. c : listing'[l + n] = b[n]
    BY <1>2, <1>4, <1>8, <1>10
  <2>. QED  BY <2>1, <2>2, <2>3, <2>4
<1>12. ASSUME NEW i \in NewListings
       PROVE  \E n \in 1 .. c : i = l + n /\ listing'[i] = b[n]
  <2>1. i \in 1 .. l + c /\ i \notin 1 .. l
    BY <1>4, <1>11 DEF NewListings
  <2>2. i - l \in 1 .. c /\ i = l + (i - l)
    BY <1>2, <1>4, <2>1
  <2>3. listing'[l + (i - l)] = b[i - l]
    BY <1>11, <2>2
  <2>. QED  BY <2>2, <2>3
<1>13. \A i \in NewListings :
         /\ listing'[i].run = r /\ listing'[i].source = Key(p)
         /\ \A k \in DOMAIN listing :
              ~ (listing[k].run = r /\ listing[k].source = Key(p) /\ listing[k].item = listing'[i].item)
  <2>. SUFFICES ASSUME NEW i \in NewListings
                PROVE  /\ listing'[i].run = r /\ listing'[i].source = Key(p)
                       /\ \A k \in DOMAIN listing :
                            ~ (listing[k].run = r /\ listing[k].source = Key(p) /\ listing[k].item = listing'[i].item)
    OBVIOUS
  <2>1. PICK n \in 1 .. c : listing'[i] = b[n]
    BY <1>12
  <2>2. Known(p, s[n]) = {}
    BY <1>9
  <2>3. \A k \in DOMAIN listing : ~ (listing[k].run = r /\ listing[k].source = Key(p) /\ listing[k].item = s[n])
    BY <2>2 DEF Known
  <2>. HIDE DEF r
  <2>. QED  BY <1>7, <2>1, <2>3
<1>14. \A i, k \in NewListings : listing'[i].item = listing'[k].item => i = k
  <2>. SUFFICES ASSUME NEW i \in NewListings, NEW k \in NewListings, listing'[i].item = listing'[k].item
                PROVE  i = k
    OBVIOUS
  <2>1. PICK n \in 1 .. c : i = l + n /\ listing'[i] = b[n]
    BY <1>12
  <2>2. PICK m \in 1 .. c : k = l + m /\ listing'[k] = b[m]
    BY <1>12
  <2>3. s[n] = s[m] /\ DOMAIN s = 1 .. c
    BY <1>5, <1>7, <2>1, <2>2
  <2>4. n = m
    BY <1>5, <2>3
  <2>. QED  BY <2>1, <2>2, <2>4
<1>15. \A i \in DOMAIN listing : /\ listing'[i].run = listing[i].run
                                 /\ listing'[i].source = listing[i].source
                                 /\ listing'[i].item = listing[i].item
  BY <1>4, <1>6, <1>11
<1>16. listing' \in Seq(ListingRow) /\ Len(listing) <= Len(listing')
  BY <1>2, <1>4, <1>11 DEF l
<1>. QED  BY <1>13, <1>14, <1>15, <1>16 DEF Inserts

-----------------------------------------------------------------------------
(***************************************************************************)
(* What every process in progress is sure of, whatever others do: its run  *)
(* is its own, the browser is its own while it collects, and a run has one *)
(* row for a source.  The theorems below rest on it.                       *)
(***************************************************************************)
Collecting(p) == proc[p].phase \in {"between", "collecting"}
Early(p) == proc[p].phase \in {"started", "opening"}

Sure(p) ==
  /\ proc[p].run \in DOMAIN run
  /\ proc[p].keys = began[proc[p].run].keys /\ proc[p].keys # <<>>
  /\ Early(p) => /\ proc[p].results = <<>>
                 /\ \A i \in DOMAIN source : source[i].run # proc[p].run
  /\ Collecting(p) => browser = p
  /\ proc[p].phase = "between" => Len(proc[p].results) <= Len(proc[p].keys)
  /\ proc[p].phase = "collecting" => Len(proc[p].results) < Len(proc[p].keys)

OwnRuns == \A p, q \in Alive : p # q => proc[p].run # proc[q].run

OneRow ==
  \A i, k \in DOMAIN source :
    source[i].run = source[k].run /\ source[i].source = source[k].source => i = k

BaseInv ==
  /\ LegacyTypeOK
  /\ \A p \in Alive : Sure(p)
  /\ OwnRuns
  /\ \A i \in DOMAIN source : source[i].run \in DOMAIN run
  /\ OneRow

LEMMA BaseInit == Init => BaseInv
<1>. SUFFICES ASSUME Init PROVE BaseInv
  OBVIOUS
<1>1. /\ <<>> \in Seq(RunRow) /\ <<>> \in Seq(SourceRow) /\ <<>> \in Seq(ListingRow)
      /\ <<>> \in Seq([keys: Seq(Sources), alongside: SUBSET (1 .. MaxRuns)])
  BY EmptySeq
<1>2. LegacyTypeOK
  <2>1. /\ run = <<>> /\ source = <<>> /\ listing = <<>> /\ began = <<>>
        /\ Len(run) = 0 /\ Len(began) = 0
    BY DEF Init
  <2>2. proc \in [Processes -> Process \cup {None}]
    BY DEF Init
  <2>3. Len(run) <= MaxRuns /\ faults \in 0 .. MaxFaults
    BY <2>1, LegacyAssumption DEF Init
  <2>4. /\ fx \in BOOLEAN /\ browser \in Processes \cup {Login, None}
        /\ completed \subseteq DOMAIN run /\ lost \subseteq DOMAIN run
    BY DEF Init
  <2>. QED  BY <1>1, <2>1, <2>2, <2>3, <2>4 DEF LegacyTypeOK
<1>3. Alive = {} /\ DOMAIN source = {}
  BY DEF Init, Alive
<1>. QED  BY <1>2, <1>3 DEF BaseInv, OwnRuns, OneRow

\* Rows written for a run in progress leave one row for each source.
LEMMA MarkedRows ==
  ASSUME BaseInv, NEW r \in DOMAIN run, NEW S, NEW status, Marked(r, S, status)
  PROVE  /\ \A i \in DOMAIN source : i \in DOMAIN source'
         /\ \A i \in DOMAIN source' : i \in DOMAIN source \/ i \in NewRows
         /\ \A i \in DOMAIN source' : source'[i].run \in DOMAIN run
         /\ \A i \in DOMAIN source' : source'[i].run # r => i \in DOMAIN source
         /\ OneRow'
<1>1. source' \in Seq(SourceRow) /\ Len(source) <= Len(source') /\ Len(source) \in Nat
      /\ DOMAIN source = 1 .. Len(source)
  BY SourceRows DEF Marked, BaseInv
<1>2. DOMAIN source' = 1 .. Len(source') /\ Len(source') \in Nat
  BY <1>1, LenProperties
<1>3. \A i \in DOMAIN source : i \in DOMAIN source'
  BY <1>1, <1>2
<1>4. \A i \in DOMAIN source' : i \in DOMAIN source \/ i \in NewRows
  BY DEF NewRows
<1>5. ASSUME NEW i \in DOMAIN source', NEW k \in DOMAIN source',
             source'[i].run = source'[k].run, source'[i].source = source'[k].source
      PROVE  i = k
  <2>1. CASE i \in DOMAIN source /\ k \in DOMAIN source
    BY <1>5, <2>1 DEF Marked, BaseInv, OneRow
  <2>2. CASE i \in NewRows /\ k \in NewRows
    BY <1>5, <2>2 DEF Marked
  <2>3. CASE i \in NewRows /\ k \in DOMAIN source
    BY <1>5, <2>3 DEF Marked, RowOf
  <2>4. CASE k \in NewRows /\ i \in DOMAIN source
    BY <1>5, <2>4 DEF Marked, RowOf
  <2>. QED  BY <1>4, <2>1, <2>2, <2>3, <2>4
<1>. QED  BY <1>3, <1>4, <1>5 DEF Marked, BaseInv, OneRow

\* A step of one process on its own run.
LEMMA MovesBase ==
  ASSUME BaseInv, LegacyTypeOK', NEW p \in Processes, NEW phase, NEW results,
         Moves(p, phase, results), UNCHANGED <<run, began>>,
         UNCHANGED source \/ \E S, status : Marked(proc[p].run, S, status),
         \A q \in Alive : q # p /\ browser = q => browser' = q,
         phase \in {"started", "opening"} => results = <<>> /\ Early(p) /\ UNCHANGED source,
         phase \in {"between", "collecting"} => browser' = p,
         phase = "between" => Len(results) <= Len(proc[p].keys),
         phase = "collecting" => Len(results) < Len(proc[p].keys)
  PROVE  BaseInv'
<1>1. /\ p \in Alive /\ Sure(p) /\ proc[p].run \in DOMAIN run /\ Alive' = Alive
      /\ proc'[p].run = proc[p].run /\ proc'[p].keys = proc[p].keys
      /\ proc'[p].phase = phase /\ proc'[p].results = results
      /\ \A q \in Alive : q # p => proc'[q] = proc[q]
      /\ \A q \in Alive : proc'[q].run = proc[q].run
  BY DEF Moves, BaseInv, Sure, Alive
<1>2. /\ OneRow' /\ \A i \in DOMAIN source' : source'[i].run \in DOMAIN run
      /\ \A i \in DOMAIN source' : source'[i].run # proc[p].run =>
           i \in DOMAIN source /\ source'[i].run = source[i].run
  <2>1. CASE UNCHANGED source
    BY <2>1 DEF BaseInv, OneRow
  <2>2. ASSUME NEW S, NEW status, Marked(proc[p].run, S, status)
        PROVE  /\ OneRow' /\ \A i \in DOMAIN source' : source'[i].run \in DOMAIN run
               /\ \A i \in DOMAIN source' : source'[i].run # proc[p].run =>
                    i \in DOMAIN source /\ source'[i].run = source[i].run
    <3>1. /\ OneRow' /\ \A i \in DOMAIN source' : source'[i].run \in DOMAIN run
          /\ \A i \in DOMAIN source' : source'[i].run # proc[p].run => i \in DOMAIN source
      BY <1>1, <2>2, MarkedRows
    <3>2. \A i \in DOMAIN source : source'[i].run = source[i].run
      BY <2>2 DEF Marked
    <3>. QED  BY <3>1, <3>2
  <2>. QED  BY <2>1, <2>2
<1>3. Sure(p)'
  BY <1>1 DEF Sure, Collecting, Early
<1>4. ASSUME NEW q \in Alive, q # p
      PROVE  Sure(q)'
  <2>1. Sure(q) /\ proc'[q] = proc[q] /\ proc[q].run # proc[p].run
    BY <1>1, <1>4 DEF BaseInv, OwnRuns
  <2>2. Early(q) => \A i \in DOMAIN source' : source'[i].run # proc[q].run
    BY <1>2, <2>1 DEF Sure
  <2>3. Collecting(q) => browser' = q
    BY <1>4, <2>1 DEF Sure
  <2>. QED  BY <2>1, <2>2, <2>3 DEF Sure, Collecting, Early
<1>5. OwnRuns'
  BY <1>1 DEF BaseInv, OwnRuns
<1>. QED  BY <1>1, <1>2, <1>3, <1>4, <1>5 DEF BaseInv

\* A process is gone.
LEMMA GoneBase ==
  ASSUME BaseInv, LegacyTypeOK', NEW p \in Processes, proc' = [proc EXCEPT ![p] = None],
         UNCHANGED <<source, began>>, DOMAIN run' = DOMAIN run,
         \A q \in Alive : q # p /\ browser = q => browser' = q
  PROVE  BaseInv'
<1>1. /\ Alive' = Alive \ {p}
      /\ \A q \in Alive' : proc'[q] = proc[q] /\ q \in Alive /\ q # p
  BY Gone DEF BaseInv
<1>2. \A q \in Alive' : Sure(q)'
  BY <1>1 DEF BaseInv, Sure, Collecting, Early
<1>3. OwnRuns'
  BY <1>1 DEF BaseInv, OwnRuns
<1>. QED  BY <1>2, <1>3 DEF BaseInv, OneRow

LEMMA StartsType ==
  ASSUME BaseInv, NEW p \in Processes, NEW o \in Options[p], Start(p, o)
  PROVE  LegacyTypeOK'
<1>1. LegacyTypeOK /\ UNCHANGED <<listing, fx, browser, completed, faults>> /\ lost' = {}
  BY DEF BaseInv, Start
<1>2. run' \in Seq(RunRow) /\ Len(run') <= MaxRuns /\ DOMAIN run \subseteq DOMAIN run'
      /\ began' \in Seq([keys: Seq(Sources), alongside: SUBSET (1 .. MaxRuns)])
      /\ Len(began') = Len(run')
  <2>1. /\ Len(run) \in Nat /\ Len(run) + 1 \in 1 .. MaxRuns
        /\ run' \in Seq(RunRow) /\ Len(run') = Len(run) + 1
        /\ DOMAIN run = 1 .. Len(run) /\ DOMAIN run' = 1 .. Len(run) + 1
        /\ began' \in Seq([keys: Seq(Sources), alongside: SUBSET (1 .. MaxRuns)])
        /\ Len(began') = Len(run) + 1
    BY <1>1, StartsRun
  <2>2. MaxRuns \in Nat
    BY LegacyAssumption
  <2>. QED  BY <2>1, <2>2
<1>3. source' \in Seq(SourceRow)
  BY <1>1, StartsSources
<1>4. proc' \in [Processes -> Process \cup {None}]
  BY <1>1, Starts
<1>. QED  BY <1>1, <1>2, <1>3, <1>4 DEF LegacyTypeOK

LEMMA StartsBase ==
  ASSUME BaseInv, NEW p \in Processes, NEW o \in Options[p], Start(p, o)
  PROVE  BaseInv'
<1>1. LegacyTypeOK /\ LegacyTypeOK' /\ UNCHANGED browser
  BY StartsType DEF BaseInv, Start
<1>2. /\ Alive' = Alive \cup {p} /\ p \notin Alive
      /\ \A q \in Alive : proc'[q] = proc[q] /\ q # p
      /\ proc'[p].phase = "started" /\ proc'[p].run = Len(run) + 1
      /\ proc'[p].keys = o.keys /\ proc'[p].results = <<>> /\ o.keys # <<>>
  BY <1>1, Starts
<1>3. /\ Len(run) \in Nat /\ DOMAIN run = 1 .. Len(run) /\ DOMAIN run' = 1 .. Len(run) + 1
      /\ \A r \in DOMAIN run : began'[r] = began[r]
      /\ began'[Len(run) + 1].keys = o.keys
      /\ Len(run) + 1 \notin DOMAIN run
  BY <1>1, StartsRun
<1>4. /\ DOMAIN source' = DOMAIN source
      /\ \A i \in DOMAIN source :
           source'[i].run = source[i].run /\ source'[i].source = source[i].source
  BY <1>1, StartsSources
<1>5. \A i \in DOMAIN source : source[i].run \in DOMAIN run
  BY DEF BaseInv
<1>6. Sure(p)'
  <2>1. \A i \in DOMAIN source' : source'[i].run # Len(run) + 1
    BY <1>3, <1>4, <1>5
  <2>2. proc'[p].run \in DOMAIN run' /\ proc'[p].keys = began'[proc'[p].run].keys
    BY <1>2, <1>3
  <2>. QED  BY <1>2, <2>1, <2>2 DEF Sure, Collecting, Early
<1>7. ASSUME NEW q \in Alive
      PROVE  Sure(q)'
  <2>1. Sure(q) /\ proc'[q] = proc[q]
    BY <1>2 DEF BaseInv
  <2>2. proc[q].run \in DOMAIN run' /\ began'[proc[q].run] = began[proc[q].run]
    BY <1>3, <2>1 DEF Sure
  <2>. QED  BY <1>1, <1>4, <2>1, <2>2 DEF Sure, Collecting, Early
<1>8. OwnRuns'
  <2>1. \A q \in Alive : proc[q].run \in DOMAIN run
    BY DEF BaseInv, Sure
  <2>. QED  BY <1>2, <1>3, <2>1 DEF BaseInv, OwnRuns
<1>9. OneRow' /\ \A i \in DOMAIN source' : source'[i].run \in DOMAIN run'
  BY <1>3, <1>4, <1>5 DEF BaseInv, OneRow
<1>. QED  BY <1>1, <1>2, <1>6, <1>7, <1>8, <1>9 DEF BaseInv

LEMMA RatesBase ==
  ASSUME BaseInv, NEW p \in Processes, NEW fetched \in BOOLEAN, Rates(p, fetched)
  PROVE  BaseInv'
<1>1. /\ LegacyTypeOK /\ At(p, "started") /\ Moves(p, "opening", proc[p].results)
      /\ fx' \in BOOLEAN /\ faults' \in 0 .. MaxFaults
      /\ UNCHANGED <<run, source, listing, browser, completed, began, lost>>
  BY RatesMove DEF BaseInv
<1>2. LegacyTypeOK'
  BY <1>1 DEF LegacyTypeOK, Moves
<1>3. proc[p].results = <<>> /\ Early(p)
  BY <1>1 DEF BaseInv, Sure, At, Early, Alive
<1>. QED  BY <1>1, <1>2, <1>3, MovesBase

LEMMA OpenBase ==
  ASSUME BaseInv, NEW p \in Processes, Open(p)
  PROVE  BaseInv'
<1>1. /\ LegacyTypeOK /\ At(p, "opening") /\ Moves(p, "between", proc[p].results)
      /\ browser = None /\ browser' = p
      /\ UNCHANGED <<run, source, listing, fx, completed, began, lost, faults>>
  BY OpenMoves DEF BaseInv
<1>2. LegacyTypeOK'
  BY <1>1 DEF LegacyTypeOK, Moves
<1>3. Len(proc[p].results) <= Len(proc[p].keys)
  <2>1. proc[p].results = <<>>
    BY <1>1 DEF BaseInv, Sure, At, Early, Alive
  <2>2. Len(proc[p].results) = 0 /\ Len(proc[p].keys) \in Nat
    BY <1>1, <2>1, ProcessType, EmptySeq DEF At
  <2>. QED  BY <2>2
<1>4. \A q \in Alive : browser # q
  BY <1>1, LegacyAssumption DEF Alive
<1>. QED  BY <1>1, <1>2, <1>3, <1>4, MovesBase

\* The sources that are left are recorded: before or after the browser was open.
LEMMA Unstarts ==
  ASSUME BaseInv, NEW p \in Processes, OpenFails(p) \/ Break(p)
  PROVE  /\ p \in Alive /\ proc[p] # None
         /\ \/ OpenFails(p) /\ At(p, "opening") /\ browser' = browser
            \/ Break(p) /\ Collecting(p) /\ browser = p /\ browser' = None
         /\ RecordUnstarted(p)
         /\ Marked(proc[p].run, Unstarted(p), "failed")
         /\ faults' \in 0 .. MaxFaults
         /\ UNCHANGED <<run, listing, fx, completed, began, lost>>
<1>1. p \in Alive /\ proc[p] # None /\ RecordUnstarted(p) /\ LegacyTypeOK
  BY DEF OpenFails, Break, At, Alive, BaseInv
<1>2. Marked(proc[p].run, Unstarted(p), "failed")
  BY <1>1, UnstartedMarks
<1>3. faults' \in 0 .. MaxFaults
  BY LegacyAssumption, <1>1 DEF OpenFails, Break, Fault, LegacyTypeOK
<1>4. CASE OpenFails(p)
  BY <1>1, <1>2, <1>3, <1>4 DEF OpenFails, historyVars
<1>5. CASE Break(p)
  <2>1. Collecting(p)
    BY <1>5 DEF Break, At, Collecting
  <2>2. browser = p
    BY <1>1, <2>1 DEF BaseInv, Sure
  <2>. QED  BY <1>1, <1>2, <1>3, <1>5, <2>1, <2>2 DEF Break, historyVars
<1>. QED  BY <1>4, <1>5

LEMMA UnstartsBase ==
  ASSUME BaseInv, NEW p \in Processes, OpenFails(p) \/ Break(p)
  PROVE  BaseInv'
<1>1. /\ proc[p] # None /\ RecordUnstarted(p) /\ LegacyTypeOK
      /\ Marked(proc[p].run, Unstarted(p), "failed")
      /\ \/ browser' = browser
         \/ browser = p /\ browser' = None
      /\ faults' \in 0 .. MaxFaults
      /\ UNCHANGED <<run, listing, fx, completed, began, lost>>
  BY Unstarts DEF BaseInv
<1>2. PICK results \in Seq(Outcomes) : Moves(p, "finishing", results)
  BY <1>1, UnstartedMoves
<1>3. LegacyTypeOK'
  BY <1>1, <1>2 DEF LegacyTypeOK, Moves, Marked
<1>. QED  BY <1>1, <1>2, <1>3, MovesBase

LEMMA StartSourceBase ==
  ASSUME BaseInv, NEW p \in Processes, StartSource(p)
  PROVE  BaseInv'
<1>1. /\ LegacyTypeOK /\ At(p, "between") /\ Moves(p, "collecting", proc[p].results)
      /\ Len(proc[p].results) < Len(proc[p].keys)
      /\ Marked(proc[p].run, {Key(p)}, "running")
      /\ UNCHANGED <<run, listing, fx, browser, completed, began, lost, faults>>
  BY StartSourceMoves DEF BaseInv
<1>2. LegacyTypeOK'
  BY <1>1 DEF LegacyTypeOK, Moves, Marked
<1>3. browser = p
  BY <1>1 DEF BaseInv, Sure, At, Collecting, Alive
<1>. QED  BY <1>1, <1>2, <1>3, MovesBase

\* A source ends: its result, and perhaps its listings.
LEMMA Ended ==
  ASSUME BaseInv, NEW p \in Processes, SourceFails(p) \/ \E out \in Output : Collect(p, out)
  PROVE  /\ p \in Alive /\ At(p, "collecting") /\ browser = p
         /\ Len(proc[p].results) < Len(proc[p].keys)
         /\ Key(p) = proc[p].keys[Len(proc[p].results) + 1] /\ Key(p) \in Sources
         /\ UNCHANGED listing \/ Inserts(proc[p].run, Key(p))
         /\ \E status \in Outcomes :
              /\ Moves(p, "between", Append(proc[p].results, status))
              /\ Marked(proc[p].run, {Key(p)}, status)
         /\ UNCHANGED <<run, fx, browser, completed, began, lost, faults>>
<1>1. p \in Alive /\ At(p, "collecting") /\ LegacyTypeOK
  BY DEF SourceFails, Collect, At, Alive, BaseInv
<1>2. Len(proc[p].results) < Len(proc[p].keys) /\ browser = p
  BY <1>1 DEF BaseInv, Sure, At, Collecting
<1>3. PICK status \in Outcomes : Result(p, status)
  BY DEF SourceFails, Collect, Output, Seen, Outcomes
<1>4. /\ Moves(p, "between", Append(proc[p].results, status))
      /\ Key(p) \in Sources
      /\ Marked(proc[p].run, {Key(p)}, status)
      /\ UNCHANGED <<run, fx, browser, completed, began, lost, faults>>
  BY <1>1, <1>2, <1>3, ResultMoves
<1>5. UNCHANGED listing \/ Inserts(proc[p].run, Key(p))
  BY <1>1, <1>2, Collects DEF SourceFails
<1>. QED  BY <1>1, <1>2, <1>4, <1>5 DEF Key

LEMMA EndedBase ==
  ASSUME BaseInv, NEW p \in Processes, SourceFails(p) \/ \E out \in Output : Collect(p, out)
  PROVE  BaseInv'
<1>1. /\ p \in Alive /\ At(p, "collecting") /\ browser = p /\ LegacyTypeOK
      /\ Len(proc[p].results) < Len(proc[p].keys)
      /\ UNCHANGED listing \/ Inserts(proc[p].run, Key(p))
      /\ UNCHANGED <<run, fx, browser, completed, began, lost, faults>>
  BY Ended DEF BaseInv
<1>2. PICK status \in Outcomes :
        /\ Moves(p, "between", Append(proc[p].results, status))
        /\ Marked(proc[p].run, {Key(p)}, status)
  BY Ended
<1>3. listing' \in Seq(ListingRow)
  BY <1>1 DEF Inserts, LegacyTypeOK
<1>4. LegacyTypeOK'
  BY <1>1, <1>2, <1>3 DEF LegacyTypeOK, Moves, Marked
<1>5. Len(Append(proc[p].results, status)) <= Len(proc[p].keys)
  <2>1. /\ Len(proc[p].results) \in Nat /\ Len(proc[p].keys) \in Nat
        /\ proc[p].results \in Seq(Outcomes)
    BY <1>1, ProcessType DEF At
  <2>2. Len(Append(proc[p].results, status)) = Len(proc[p].results) + 1
    BY <2>1, AppendProperties
  <2>. QED  BY <1>1, <2>1, <2>2
<1>. QED  BY <1>1, <1>2, <1>4, <1>5, MovesBase

LEMMA CloseBase ==
  ASSUME BaseInv, NEW p \in Processes, Close(p)
  PROVE  BaseInv'
<1>1. /\ LegacyTypeOK /\ At(p, "between") /\ Moves(p, "finishing", proc[p].results)
      /\ browser' = None
      /\ UNCHANGED <<run, source, listing, fx, completed, began, lost, faults>>
  BY CloseMoves DEF BaseInv
<1>2. LegacyTypeOK'
  BY <1>1 DEF LegacyTypeOK, Moves
<1>3. browser = p
  BY <1>1 DEF BaseInv, Sure, At, Collecting, Alive
<1>. QED  BY <1>1, <1>2, <1>3, MovesBase

LEMMA FinishBase ==
  ASSUME BaseInv, NEW p \in Processes, Finish(p)
  PROVE  BaseInv'
<1>1. LegacyTypeOK /\ proc[p].run \in DOMAIN run
  BY DEF BaseInv, Sure, Finish, At, Alive
<1>2. /\ proc' = [proc EXCEPT ![p] = None]
      /\ run' \in Seq(RunRow) /\ Len(run') = Len(run) /\ DOMAIN run' = DOMAIN run
      /\ completed' = completed \cup {proc[p].run}
      /\ UNCHANGED <<source, listing, fx, browser, began, lost, faults>>
  BY <1>1, Finishes
<1>3. proc' \in [Processes -> Process \cup {None}]
  BY <1>1, <1>2, Gone
<1>4. LegacyTypeOK'
  BY <1>1, <1>2, <1>3 DEF LegacyTypeOK
<1>. QED  BY <1>2, <1>4, GoneBase

LEMMA Dies ==
  ASSUME BaseInv, NEW p \in Processes, End(p)
  PROVE  /\ p \in Alive /\ proc' = [proc EXCEPT ![p] = None]
         /\ lost' = lost \cup {proc[p].run}
         /\ UNCHANGED <<run, source, listing, fx, completed, began>>
BY DEF End, Alive

LEMMA EndBase ==
  ASSUME BaseInv, NEW p \in Processes, End(p)
  PROVE  BaseInv'
<1>1. /\ p \in Alive /\ proc' = [proc EXCEPT ![p] = None]
      /\ lost' = lost \cup {proc[p].run}
      /\ UNCHANGED <<run, source, listing, fx, completed, began>>
  BY Dies
<1>2. LegacyTypeOK /\ proc[p].run \in DOMAIN run
  BY <1>1 DEF BaseInv, Sure
<1>3. proc' \in [Processes -> Process \cup {None}]
  BY <1>1, <1>2, Gone
<1>4. faults' \in 0 .. MaxFaults
  BY LegacyAssumption, <1>2 DEF End, Fault, LegacyTypeOK
<1>5. /\ browser' \in Processes \cup {Login, None}
      /\ \A q \in Alive : q # p /\ browser = q => browser' = q
  BY <1>2 DEF End, LegacyTypeOK
<1>6. LegacyTypeOK'
  BY <1>1, <1>2, <1>3, <1>4, <1>5 DEF LegacyTypeOK
<1>. QED  BY <1>1, <1>5, <1>6, GoneBase

\* Steps that change nothing but who has the browser open, nobody of the processes.
LEMMA LoginSteps ==
  ASSUME BaseInv, UseLogin
  PROVE  /\ UNCHANGED <<run, source, listing, fx, proc, completed, began, lost, faults>>
         /\ \A p \in Alive : ~Collecting(p)
<1>1. UNCHANGED <<run, source, listing, fx, proc, completed, began, lost, faults>>
  BY DEF UseLogin, historyVars
<1>2. browser = None \/ browser = Login
  BY DEF UseLogin, LoginOpens, LoginCloses
<1>3. \A p \in Alive : browser # p
  BY <1>2, LegacyAssumption DEF Alive
<1>. QED  BY <1>1, <1>3 DEF BaseInv, Sure

LEMMA LoginBase ==
  ASSUME BaseInv, UseLogin
  PROVE  BaseInv'
<1>1. /\ UNCHANGED <<run, source, listing, fx, proc, completed, began, lost, faults>>
      /\ \A p \in Alive : ~Collecting(p)
  BY LoginSteps
<1>2. LegacyTypeOK'
  BY <1>1 DEF BaseInv, LegacyTypeOK, UseLogin, LoginOpens, LoginCloses
<1>3. Alive' = Alive
  BY <1>1 DEF Alive
<1>4. \A p \in Alive : Sure(p)'
  BY <1>1 DEF BaseInv, Sure, Collecting, Early
<1>. QED  BY <1>1, <1>2, <1>3, <1>4 DEF BaseInv, OwnRuns, OneRow

LEMMA BaseStep == BaseInv /\ [Next]_vars => BaseInv'
<1>. SUFFICES ASSUME BaseInv, [Next]_vars PROVE BaseInv'
  OBVIOUS
<1>1. CASE UNCHANGED vars
  <2>1. LegacyTypeOK'
    BY <1>1 DEF BaseInv, LegacyTypeOK, vars
  <2>2. Alive' = Alive
    BY <1>1 DEF vars, Alive
  <2>3. \A p \in Alive : Sure(p)'
    BY <1>1 DEF BaseInv, Sure, Collecting, Early, vars
  <2>. QED  BY <1>1, <2>1, <2>2, <2>3 DEF vars, BaseInv, OwnRuns, OneRow
<1>2. CASE UseLogin
  BY <1>2, LoginBase
<1>3. ASSUME NEW p \in Processes, NEW o \in Options[p], Start(p, o)
      PROVE  BaseInv'
  BY <1>3, StartsBase
<1>4. ASSUME NEW p \in Processes, NEW fetched \in BOOLEAN, Rates(p, fetched)
      PROVE  BaseInv'
  BY <1>4, RatesBase
<1>5. ASSUME NEW p \in Processes, Open(p) \/ StartSource(p) \/ Close(p) \/ Finish(p) \/ End(p)
      PROVE  BaseInv'
  BY <1>5, OpenBase, StartSourceBase, CloseBase, FinishBase, EndBase
<1>6. ASSUME NEW p \in Processes, OpenFails(p) \/ Break(p)
      PROVE  BaseInv'
  BY <1>6, UnstartsBase
<1>7. ASSUME NEW p \in Processes, SourceFails(p) \/ \E out \in Output : Collect(p, out)
      PROVE  BaseInv'
  BY <1>7, EndedBase
<1>. QED  BY <1>1, <1>2, <1>3, <1>4, <1>5, <1>6, <1>7 DEF Next

\* Every variable keeps its type.
THEOREM LegacyTypeCorrect == Spec => []LegacyTypeOK
<1>1. BaseInv => LegacyTypeOK
  BY DEF BaseInv
<1>. QED  BY <1>1, BaseInit, BaseStep, PTL DEF Spec

\* However many processes collect at once: a run has one row for a source, and
\* no two processes write for the same run.
THEOREM OneRowPerSource == Spec => [](OneRow /\ OwnRuns)
<1>1. BaseInv => OneRow /\ OwnRuns
  BY DEF BaseInv
<1>. QED  BY <1>1, BaseInit, BaseStep, PTL DEF Spec

-----------------------------------------------------------------------------
(***************************************************************************)
(* What the file says is running.                                          *)
(***************************************************************************)
OnlyNewestRuns == \A r \in DOMAIN run : run[r].status = "running" => r = Len(run)

Witnessed(i) ==
  \/ source[i].run \in lost
  \/ Repeated(source[i].run)
  \/ \E p \in Alive : proc[p].run = source[i].run /\ At(p, "collecting") /\ Key(p) = source[i].source

SourcesRun == \A i \in DOMAIN source : source[i].status = "running" => Witnessed(i)

LEMMA RunningIsLiveParts == RunningIsLive <=> OnlyNewestRuns /\ SourcesRun
BY DEF RunningIsLive, OnlyNewestRuns, SourcesRun, Witnessed

\* A process writes the rows of its own run, and the others go on with theirs.
LEMMA SourcesRunKept ==
  ASSUME BaseInv, SourcesRun, NEW p \in Alive, NEW phase, NEW results,
         Moves(p, phase, results), UNCHANGED began, lost \subseteq lost',
         \/ UNCHANGED source /\ ~At(p, "collecting")
         \/ \E S, status :
              /\ Marked(proc[p].run, S, status)
              /\ status = "running" =>
                   phase = "collecting" /\ S = {proc[p].keys[Len(results) + 1]}
              /\ At(p, "collecting") => (status # "running" /\ Key(p) \in S) \/ Repeated(proc[p].run)
  PROVE  SourcesRun'
<1>1. /\ Alive' = Alive /\ p \in Processes
      /\ \A q \in Alive : proc'[q].run = proc[q].run /\ proc'[q].keys = proc[q].keys
      /\ \A q \in Alive : q # p => proc'[q] = proc[q]
      /\ proc'[p].phase = phase /\ proc'[p].results = results
  BY DEF Moves, Alive
<1>2. \A r \in DOMAIN run : Repeated(r)' <=> Repeated(r)
  BY DEF Repeated
<1>3. ASSUME NEW i \in DOMAIN source, i \in DOMAIN source', Witnessed(i),
             source'[i].run = source[i].run, source'[i].source = source[i].source,
             ~At(p, "collecting") \/ source[i].run # proc[p].run \/ source[i].source # Key(p)
      PROVE  Witnessed(i)'
  <2>1. CASE source[i].run \in lost \/ Repeated(source[i].run)
    BY <1>3, <2>1 DEF Witnessed, Repeated
  <2>2. CASE \E q \in Alive : /\ proc[q].run = source[i].run /\ At(q, "collecting")
                              /\ Key(q) = source[i].source
    <3>1. PICK q \in Alive : /\ proc[q].run = source[i].run /\ At(q, "collecting")
                             /\ Key(q) = source[i].source
      BY <2>2
    <3>2. q # p
      BY <1>3, <3>1
    <3>3. q \in Alive' /\ proc'[q] = proc[q]
      BY <1>1, <3>2
    <3>4. At(q, "collecting")' /\ Key(q)' = Key(q) /\ proc'[q].run = source'[i].run
      BY <1>3, <3>1, <3>3 DEF At, Key
    <3>. QED  BY <1>3, <3>1, <3>3, <3>4 DEF Witnessed
  <2>. QED  BY <1>3, <2>1, <2>2 DEF Witnessed
<1>4. CASE UNCHANGED source /\ ~At(p, "collecting")
  BY <1>3, <1>4 DEF SourcesRun
<1>5. ASSUME NEW S, NEW status, Marked(proc[p].run, S, status),
             status = "running" => phase = "collecting" /\ S = {proc[p].keys[Len(results) + 1]},
             At(p, "collecting") => (status # "running" /\ Key(p) \in S) \/ Repeated(proc[p].run)
      PROVE  SourcesRun'
  <2>. SUFFICES ASSUME NEW i \in DOMAIN source', source'[i].status = "running"
                PROVE  Witnessed(i)'
    BY DEF SourcesRun
  <2>1. CASE source'[i].run = proc[p].run /\ source'[i].source \in S
    <3>1. source'[i].status = status
      BY <1>5, <2>1 DEF Marked, NewRows
    <3>2. phase = "collecting" /\ source'[i].source = proc[p].keys[Len(results) + 1]
      BY <1>5, <2>1, <3>1
    <3>3. At(p, "collecting")' /\ Key(p)' = source'[i].source /\ p \in Alive'
      BY <1>1, <3>2 DEF At, Key, Alive
    <3>. QED  BY <1>1, <2>1, <3>3 DEF Witnessed
  <2>2. CASE ~ (source'[i].run = proc[p].run /\ source'[i].source \in S)
    <3>1. /\ i \in DOMAIN source
          /\ source'[i].run = source[i].run /\ source'[i].source = source[i].source
          /\ source[i].status = "running"
      BY <1>5, <2>2 DEF Marked, NewRows
    <3>2. Witnessed(i)
      BY <3>1 DEF SourcesRun
    <3>3. CASE Repeated(source[i].run)
      BY <3>1, <3>3 DEF Witnessed, Repeated
    <3>4. CASE ~Repeated(source[i].run)
      BY <1>3, <1>5, <2>2, <3>1, <3>2, <3>4
    <3>. QED  BY <3>3, <3>4
  <2>. QED  BY <2>1, <2>2
<1>. QED  BY <1>4, <1>5

\* What a process is collecting when it breaks off is among what is left,
\* unless it was asked for a source twice.
LEMMA KeyLeft ==
  ASSUME BaseInv, NEW p \in Alive, At(p, "collecting"), ~Repeated(proc[p].run)
  PROVE  Key(p) \in Unstarted(p)
<1>. DEFINE keys == proc[p].keys
            n == Len(proc[p].results) + 1
<1>1. p \in Processes /\ proc[p] # None /\ LegacyTypeOK /\ Sure(p)
  BY DEF Alive, BaseInv
<1>2. Len(proc[p].results) \in Nat /\ DOMAIN keys = 1 .. Len(keys) /\ Len(keys) \in Nat
  BY <1>1, ProcessType
<1>3. Len(proc[p].results) < Len(keys)
  BY <1>1 DEF Sure, At
<1>4. \A i, k \in DOMAIN keys : i # k => keys[i] # keys[k]
  BY <1>1 DEF Sure, Repeated
<1>5. n \in DOMAIN keys
  BY <1>2, <1>3
<1>6. \A i \in 1 .. Len(proc[p].results) : i \in DOMAIN keys /\ i # n
  BY <1>2, <1>3
<1>7. n \in Left(p)
  BY <1>4, <1>5, <1>6 DEF Left
<1>. QED  BY <1>7 DEF Unstarted, Key

LEMMA NewestRunsStep == BaseInv /\ OnlyNewestRuns /\ [Next]_vars => OnlyNewestRuns'
<1>. SUFFICES ASSUME BaseInv, OnlyNewestRuns, [Next]_vars PROVE OnlyNewestRuns'
  OBVIOUS
<1>1. ASSUME UNCHANGED run
      PROVE  OnlyNewestRuns'
  BY <1>1 DEF OnlyNewestRuns
<1>2. ASSUME NEW p \in Processes, NEW o \in Options[p], Start(p, o)
      PROVE  OnlyNewestRuns'
  <2>1. /\ DOMAIN run = 1 .. Len(run) /\ DOMAIN run' = 1 .. Len(run) + 1 /\ Len(run) \in Nat
        /\ Len(run') = Len(run) + 1
        /\ \A r \in DOMAIN run : run'[r].status \in Outcomes
    BY <1>2, StartsRun DEF BaseInv
  <2>2. \A r \in DOMAIN run' : r \in DOMAIN run \/ r = Len(run')
    BY <2>1
  <2>. QED  BY <2>1, <2>2 DEF OnlyNewestRuns, Outcomes
<1>3. ASSUME NEW p \in Processes, Finish(p)
      PROVE  OnlyNewestRuns'
  <2>1. LegacyTypeOK /\ proc[p].run \in DOMAIN run
    BY <1>3 DEF BaseInv, Sure, Finish, At, Alive
  <2>2. /\ RunStatus(proc[p].results) \in Outcomes
        /\ Len(run') = Len(run) /\ DOMAIN run' = DOMAIN run
        /\ \A r \in DOMAIN run :
             /\ r # proc[p].run => run'[r] = run[r]
             /\ r = proc[p].run => run'[r].status = RunStatus(proc[p].results)
    BY <1>3, <2>1, Finishes
  <2>. QED  BY <2>2 DEF OnlyNewestRuns, Outcomes
<1>4. \/ UNCHANGED run
      \/ \E p \in Processes : Finish(p) \/ \E o \in Options[p] : Start(p, o)
  BY DEF Next, vars, Rates, Open, OpenFails, StartSource, SourceFails, Collect, Result,
         Break, Close, End, UseLogin
<1>. QED  BY <1>1, <1>2, <1>3, <1>4

LEMMA SourcesRunStep == BaseInv /\ SourcesRun /\ [Next]_vars => SourcesRun'
<1>. SUFFICES ASSUME BaseInv, SourcesRun, [Next]_vars PROVE SourcesRun'
  OBVIOUS
<1>. USE DEF At
<1>1. LegacyTypeOK
  BY DEF BaseInv
<1>2. ASSUME UNCHANGED <<source, proc, began, lost>>
      PROVE  SourcesRun'
  BY <1>2 DEF SourcesRun, Witnessed, Repeated, Alive, Key
<1>3. ASSUME NEW p \in Processes, NEW o \in Options[p], Start(p, o)
      PROVE  SourcesRun'
  BY <1>1, <1>3, StartsSources DEF SourcesRun, Outcomes
<1>4. ASSUME NEW p \in Processes, NEW fetched \in BOOLEAN, Rates(p, fetched)
      PROVE  SourcesRun'
  <2>1. /\ p \in Alive /\ ~At(p, "collecting") /\ Moves(p, "opening", proc[p].results)
        /\ UNCHANGED <<source, began, lost>>
    BY <1>1, <1>4, RatesMove DEF Moves
  <2>. QED  BY <2>1, SourcesRunKept
<1>5. ASSUME NEW p \in Processes, Open(p)
      PROVE  SourcesRun'
  <2>1. /\ p \in Alive /\ ~At(p, "collecting") /\ Moves(p, "between", proc[p].results)
        /\ UNCHANGED <<source, began, lost>>
    BY <1>1, <1>5, OpenMoves DEF Moves
  <2>. QED  BY <2>1, SourcesRunKept
<1>6. ASSUME NEW p \in Processes, Close(p)
      PROVE  SourcesRun'
  <2>1. /\ p \in Alive /\ ~At(p, "collecting") /\ Moves(p, "finishing", proc[p].results)
        /\ UNCHANGED <<source, began, lost>>
    BY <1>1, <1>6, CloseMoves DEF Moves
  <2>. QED  BY <2>1, SourcesRunKept
<1>7. ASSUME NEW p \in Processes, StartSource(p)
      PROVE  SourcesRun'
  <2>1. /\ p \in Alive /\ ~At(p, "collecting") /\ Moves(p, "collecting", proc[p].results)
        /\ Marked(proc[p].run, {Key(p)}, "running") /\ {Key(p)} = {proc[p].keys[Len(proc[p].results) + 1]}
        /\ UNCHANGED <<began, lost>>
    BY <1>1, <1>7, StartSourceMoves DEF Moves
  <2>. QED  BY <2>1, SourcesRunKept
<1>8. ASSUME NEW p \in Processes, OpenFails(p) \/ Break(p)
      PROVE  SourcesRun'
  <2>1. /\ p \in Alive /\ proc[p] # None /\ RecordUnstarted(p)
        /\ Marked(proc[p].run, Unstarted(p), "failed")
        /\ UNCHANGED <<began, lost>>
    BY <1>8, Unstarts
  <2>2. PICK results \in Seq(Outcomes) : Moves(p, "finishing", results)
    BY <1>1, <2>1, UnstartedMoves
  <2>3. At(p, "collecting") => Key(p) \in Unstarted(p) \/ Repeated(proc[p].run)
    BY <2>1, KeyLeft
  <2>4. \E S, status :
          /\ Marked(proc[p].run, S, status)
          /\ status = "running" =>
               "finishing" = "collecting" /\ S = {proc[p].keys[Len(results) + 1]}
          /\ At(p, "collecting") => (status # "running" /\ Key(p) \in S) \/ Repeated(proc[p].run)
    <3>1. "failed" # "running"
      OBVIOUS
    <3>2. /\ Marked(proc[p].run, Unstarted(p), "failed")
          /\ "failed" = "running" =>
               "finishing" = "collecting" /\ Unstarted(p) = {proc[p].keys[Len(results) + 1]}
          /\ At(p, "collecting") =>
               ("failed" # "running" /\ Key(p) \in Unstarted(p)) \/ Repeated(proc[p].run)
      BY <2>1, <2>3, <3>1
    <3>. HIDE DEF At
    <3>. QED  BY <3>2, Zenon
  <2>. QED  BY <2>1, <2>2, <2>4, SourcesRunKept
<1>9. ASSUME NEW p \in Processes, SourceFails(p) \/ \E out \in Output : Collect(p, out)
      PROVE  SourcesRun'
  <2>1. p \in Alive /\ UNCHANGED <<began, lost>>
    BY <1>9, Ended
  <2>2. PICK status \in Outcomes :
          /\ Moves(p, "between", Append(proc[p].results, status))
          /\ Marked(proc[p].run, {Key(p)}, status)
    BY <1>9, Ended
  <2>3. status # "running"
    BY DEF Outcomes
  <2>. QED  BY <2>1, <2>2, <2>3, SourcesRunKept
<1>10. ASSUME NEW p \in Processes, Finish(p) \/ End(p)
       PROVE  SourcesRun'
  <2>1. /\ p \in Alive /\ proc' = [proc EXCEPT ![p] = None] /\ UNCHANGED <<source, began>>
        /\ lost \subseteq lost'
        /\ At(p, "collecting") => proc[p].run \in lost'
    BY <1>10 DEF Finish, End, Alive
  <2>2. \A q \in Alive : q # p => q \in Alive' /\ proc'[q] = proc[q]
    BY <1>1, <2>1, Gone
  <2>. QED  BY <2>1, <2>2 DEF SourcesRun, Witnessed, Repeated, Key
<1>11. \/ UNCHANGED <<source, proc, began, lost>>
       \/ \E p \in Processes :
            \/ \E o \in Options[p] : Start(p, o)
            \/ \E fetched \in BOOLEAN : Rates(p, fetched)
            \/ Open(p) \/ Close(p) \/ StartSource(p) \/ OpenFails(p) \/ Break(p)
            \/ SourceFails(p) \/ \E out \in Output : Collect(p, out)
            \/ Finish(p) \/ End(p)
  BY DEF Next, vars, UseLogin, historyVars
<1>. QED  BY <1>2, <1>3, <1>4, <1>5, <1>6, <1>7, <1>8, <1>9, <1>10, <1>11

\* What the file says is running is: only the newest run can be, and a source
\* row is being collected, unless its process ended after the newest run began
\* or its run was asked for a source twice.
THEOREM RunningRowsAreLive == Spec => []RunningIsLive
<1>1. Init => OnlyNewestRuns /\ SourcesRun
  BY DEF Init, OnlyNewestRuns, SourcesRun
<1>. QED  BY <1>1, RunningIsLiveParts, BaseInit, BaseStep, NewestRunsStep, SourcesRunStep,
             PTL DEF Spec

-----------------------------------------------------------------------------
(***************************************************************************)
(* What a run says of its sources when it is finished.  A process knows    *)
(* the results of its sources from its own memory; its rows say the same,  *)
(* row by row, whatever other processes close in between.                  *)
(***************************************************************************)
Reported(p) ==
  LET keys == proc[p].keys
      results == proc[p].results
  IN  /\ \A i \in DOMAIN source : source[i].run = proc[p].run =>
           \E n \in DOMAIN keys :
             /\ source[i].source = keys[n]
             /\ \/ n \in DOMAIN results /\ source[i].status = results[n]
                \/ proc[p].phase = "collecting" /\ n = Len(results) + 1
      /\ \A n \in DOMAIN results :
           /\ n \in DOMAIN keys
           /\ \E i \in DOMAIN source : source[i].run = proc[p].run /\ source[i].source = keys[n]
      /\ proc[p].phase = "finishing" => Len(results) = Len(keys)

RowStatuses(r) == {source[i].status : i \in {k \in DOMAIN source : source[k].run = r}}

Honest(r) ==
  /\ RowStatuses(r) # {} /\ RowStatuses(r) \subseteq Outcomes
  /\ run[r].status = "ok" => RowStatuses(r) = {"ok"}
  /\ run[r].status = "failed" => RowStatuses(r) = {"failed"}

Closed(r) == /\ run[r].status \in Outcomes /\ r \notin InProgress
             /\ ~Repeated(r) => Honest(r)

HonestInv ==
  /\ BaseInv
  /\ \A r \in completed : Closed(r)
  /\ \A p \in Alive : ~Repeated(proc[p].run) => Reported(p)

\* The sources at the places N get a status, and their results are that status.
Fills(p, N, status, phase, results) ==
  LET old == proc[p].results
  IN  /\ N \subseteq DOMAIN proc[p].keys
      /\ Marked(proc[p].run, {proc[p].keys[n] : n \in N}, status)
      /\ results \in Seq(Outcomes) /\ Moves(p, phase, results)
      /\ Len(old) <= Len(results)
      /\ \A n \in DOMAIN old : n \notin N /\ results[n] = old[n]
      /\ \A n \in DOMAIN results : n \in DOMAIN old \/ (n \in N /\ results[n] = status)
      /\ \A n \in N : n \in DOMAIN results \/ (phase = "collecting" /\ n = Len(results) + 1)
      /\ At(p, "collecting") => Len(old) + 1 \in N
      /\ phase = "finishing" => Len(results) = Len(proc[p].keys)

LEMMA ReportedKept ==
  ASSUME BaseInv, NEW p \in Alive, ~Repeated(proc[p].run), Reported(p),
         NEW N, NEW status, NEW phase, NEW results, Fills(p, N, status, phase, results)
  PROVE  Reported(p)'
<1>. DEFINE keys == proc[p].keys
            r == proc[p].run
            old == proc[p].results
            S == {keys[n] : n \in N}
<1>1. /\ p \in Processes /\ proc[p] # None /\ LegacyTypeOK /\ Sure(p) /\ r \in DOMAIN run
      /\ proc'[p].run = r /\ proc'[p].keys = keys
      /\ proc'[p].phase = phase /\ proc'[p].results = results
  BY DEF Alive, BaseInv, Sure, Moves, Fills
<1>2. \A i, k \in DOMAIN keys : i # k => keys[i] # keys[k]
  BY <1>1 DEF Sure, Repeated
<1>3. /\ Len(old) \in Nat /\ DOMAIN old = 1 .. Len(old)
      /\ Len(results) \in Nat /\ DOMAIN results = 1 .. Len(results)
  BY <1>1, ProcessType, LenProperties DEF Fills
<1>4. DOMAIN old \subseteq DOMAIN results
  BY <1>3 DEF Fills
<1>5. \A i \in DOMAIN source : i \in DOMAIN source'
  BY <1>1, MarkedRows DEF Fills
<1>6. ASSUME NEW i \in DOMAIN source', source'[i].run = r
      PROVE  \E n \in DOMAIN keys :
               /\ source'[i].source = keys[n]
               /\ \/ n \in DOMAIN results /\ source'[i].status = results[n]
                  \/ phase = "collecting" /\ n = Len(results) + 1
  <2>1. CASE source'[i].source \in S
    <3>1. PICK n \in N : source'[i].source = keys[n]
      BY <2>1
    <3>2. source'[i].status = status
      BY <1>6, <2>1 DEF Marked, NewRows, Fills
    <3>3. n \in DOMAIN results => results[n] = status
      BY <3>1 DEF Fills
    <3>. QED  BY <3>1, <3>2, <3>3 DEF Fills
  <2>2. CASE source'[i].source \notin S
    <3>1. /\ i \in DOMAIN source /\ source[i].run = r
          /\ source'[i].source = source[i].source /\ source'[i].status = source[i].status
      BY <1>6, <2>2 DEF Marked, NewRows, Fills
    <3>2. PICK n \in DOMAIN keys :
            /\ source[i].source = keys[n]
            /\ \/ n \in DOMAIN old /\ source[i].status = old[n]
               \/ proc[p].phase = "collecting" /\ n = Len(old) + 1
      BY <3>1 DEF Reported
    <3>3. n \notin N
      BY <2>2, <3>1, <3>2
    <3>4. n \in DOMAIN old /\ source[i].status = old[n]
      BY <1>1, <3>2, <3>3 DEF At, Fills
    <3>. QED  BY <1>4, <3>1, <3>2, <3>4 DEF Fills
  <2>. QED  BY <2>1, <2>2
<1>7. ASSUME NEW n \in DOMAIN results
      PROVE  /\ n \in DOMAIN keys
             /\ \E i \in DOMAIN source' : source'[i].run = r /\ source'[i].source = keys[n]
  <2>1. CASE n \in N
    BY <2>1 DEF Marked, Fills
  <2>2. CASE n \in DOMAIN old
    <3>1. n \in DOMAIN keys
      BY <2>2 DEF Reported
    <3>2. PICK i \in DOMAIN source : source[i].run = r /\ source[i].source = keys[n]
      BY <2>2 DEF Reported
    <3>3. source'[i].run = r /\ source'[i].source = keys[n]
      BY <3>2 DEF Marked, Fills
    <3>. QED  BY <1>5, <3>1, <3>3
  <2>. QED  BY <2>1, <2>2 DEF Fills
<1>. HIDE DEF keys, r, old
<1>8. proc'[p].run = r /\ proc'[p].keys = keys
  BY <1>1
<1>9. phase = "finishing" => Len(results) = Len(keys)
  BY DEF keys, Fills
<1>. QED  BY <1>1, <1>6, <1>7, <1>8, <1>9 DEF Reported

\* A change of phase, and of nothing in the rows.
LEMMA ReportedMoved ==
  ASSUME BaseInv, NEW p \in Alive, Reported(p), NEW phase,
         Moves(p, phase, proc[p].results), UNCHANGED source, ~At(p, "collecting"),
         phase = "finishing" => Len(proc[p].results) = Len(proc[p].keys)
  PROVE  Reported(p)'
<1>1. /\ proc'[p].run = proc[p].run /\ proc'[p].keys = proc[p].keys
      /\ proc'[p].phase = phase /\ proc'[p].results = proc[p].results
      /\ proc[p].phase # "collecting"
  BY DEF Moves, Alive, At
<1>. QED  BY <1>1 DEF Reported

\* All places that are left, of keys that differ.
LEMMA LeftAll ==
  ASSUME BaseInv, NEW p \in Alive, ~Repeated(proc[p].run), Reported(p)
  PROVE  /\ Len(proc[p].results) <= Len(proc[p].keys)
         /\ Left(p) = (Len(proc[p].results) + 1) .. Len(proc[p].keys)
         /\ Cardinality(Left(p)) = Len(proc[p].keys) - Len(proc[p].results)
<1>. DEFINE keys == proc[p].keys
            d == Len(proc[p].results)
            k == Len(keys)
<1>1. /\ p \in Processes /\ proc[p] # None /\ LegacyTypeOK /\ Sure(p)
  BY DEF Alive, BaseInv
<1>2. d \in Nat /\ k \in Nat /\ DOMAIN keys = 1 .. k /\ DOMAIN proc[p].results = 1 .. d
  BY <1>1, ProcessType
<1>3. \A i, n \in DOMAIN keys : i # n => keys[i] # keys[n]
  BY <1>1 DEF Sure, Repeated
<1>4. d <= k
  <2>1. \A n \in 1 .. d : n \in 1 .. k
    BY <1>2 DEF Reported
  <2>. QED  BY <1>2, <2>1
<1>5. Left(p) \subseteq d + 1 .. k
  BY <1>1, LeftPlaces
<1>6. ASSUME NEW n \in d + 1 .. k
      PROVE  n \in Left(p)
  <2>1. n \in DOMAIN keys
    BY <1>2
  <2>2. \A i \in 1 .. d : i \in DOMAIN keys /\ i # n
    BY <1>2, <1>4
  <2>3. \A i \in 1 .. d : keys[i] # keys[n]
    BY <1>3, <2>1, <2>2
  <2>. QED  BY <2>1, <2>3 DEF Left
<1>7. Left(p) = d + 1 .. k
  BY <1>5, <1>6
<1>8. Cardinality(d + 1 .. k) = k - d
  <2>. HIDE DEF d, k
  <2>1. d + 1 \in Int /\ k \in Int
    BY <1>2
  <2>2. Cardinality(d + 1 .. k) = IF d + 1 > k THEN 0 ELSE k - (d + 1) + 1
    BY <2>1, FS_Interval
  <2>. QED  BY <1>2, <1>4, <2>2
<1>. QED  BY <1>4, <1>7, <1>8

LEMMA StartSourceReports ==
  ASSUME BaseInv, NEW p \in Processes, StartSource(p), ~Repeated(proc[p].run), Reported(p)
  PROVE  Reported(p)'
<1>. DEFINE d == Len(proc[p].results)
            N == {d + 1}
<1>1. /\ LegacyTypeOK /\ At(p, "between") /\ Moves(p, "collecting", proc[p].results)
      /\ d < Len(proc[p].keys) /\ Key(p) = proc[p].keys[d + 1]
      /\ Marked(proc[p].run, {Key(p)}, "running")
  BY StartSourceMoves DEF BaseInv
<1>2. /\ p \in Alive /\ proc[p].results \in Seq(Outcomes) /\ d \in Nat
      /\ DOMAIN proc[p].results = 1 .. d
      /\ DOMAIN proc[p].keys = 1 .. Len(proc[p].keys) /\ Len(proc[p].keys) \in Nat
  BY <1>1, ProcessType DEF At
<1>3. N \in SUBSET DOMAIN proc[p].keys /\ {Key(p)} = {proc[p].keys[n] : n \in N}
  BY <1>1, <1>2
<1>4. d + 1 \notin DOMAIN proc[p].results /\ d <= d
  BY <1>2
<1>5. ~At(p, "collecting")
  BY <1>1 DEF At
<1>6. Fills(p, N, "running", "collecting", proc[p].results)
  BY <1>1, <1>2, <1>3, <1>4, <1>5 DEF Fills
<1>. QED  BY <1>2, <1>6, ReportedKept

LEMMA EndedReports ==
  ASSUME BaseInv, NEW p \in Processes, SourceFails(p) \/ \E out \in Output : Collect(p, out),
         ~Repeated(proc[p].run), Reported(p)
  PROVE  Reported(p)'
<1>. DEFINE d == Len(proc[p].results)
            N == {d + 1}
<1>1. /\ LegacyTypeOK /\ p \in Alive /\ At(p, "collecting")
      /\ d < Len(proc[p].keys) /\ Key(p) = proc[p].keys[d + 1]
  BY Ended DEF BaseInv
<1>2. PICK status \in Outcomes :
        /\ Moves(p, "between", Append(proc[p].results, status))
        /\ Marked(proc[p].run, {Key(p)}, status)
  BY Ended
<1>. DEFINE results == Append(proc[p].results, status)
<1>3. /\ proc[p].results \in Seq(Outcomes) /\ d \in Nat
      /\ DOMAIN proc[p].results = 1 .. d
      /\ DOMAIN proc[p].keys = 1 .. Len(proc[p].keys) /\ Len(proc[p].keys) \in Nat
  BY <1>1, ProcessType DEF At
<1>4. /\ results \in Seq(Outcomes) /\ Len(results) = d + 1
      /\ \A n \in 1 .. d : results[n] = proc[p].results[n]
      /\ results[d + 1] = status
  BY <1>3, AppendProperties
<1>5. DOMAIN results = 1 .. d + 1
  BY <1>4, LenProperties
<1>6. Moves(p, "between", results)
  BY <1>2
<1>. HIDE DEF results
<1>7. N \in SUBSET DOMAIN proc[p].keys /\ {Key(p)} = {proc[p].keys[n] : n \in N}
  BY <1>1, <1>3
<1>8. /\ d <= Len(results)
      /\ \A n \in DOMAIN proc[p].results : n \notin N /\ results[n] = proc[p].results[n]
      /\ \A n \in DOMAIN results : n \in DOMAIN proc[p].results \/ (n \in N /\ results[n] = status)
      /\ \A n \in N : n \in DOMAIN results
  BY <1>3, <1>4, <1>5
<1>9. Marked(proc[p].run, {proc[p].keys[n] : n \in N}, status)
  BY <1>2, <1>7
<1>10. d + 1 \in N
  OBVIOUS
<1>. HIDE DEF d, N
<1>11. Fills(p, N, status, "between", results)
  BY <1>4, <1>6, <1>7, <1>8, <1>9, <1>10 DEF Fills, d
<1>. QED  BY <1>1, <1>11, ReportedKept

LEMMA UnstartedReports ==
  ASSUME BaseInv, NEW p \in Processes, OpenFails(p) \/ Break(p),
         ~Repeated(proc[p].run), Reported(p)
  PROVE  Reported(p)'
<1>. DEFINE d == Len(proc[p].results)
            k == Len(proc[p].keys)
            N == Left(p)
<1>1. /\ LegacyTypeOK /\ p \in Alive /\ proc[p] # None /\ RecordUnstarted(p) /\ Sure(p)
      /\ Marked(proc[p].run, Unstarted(p), "failed")
  BY Unstarts DEF BaseInv
<1>2. PICK results \in Seq(Outcomes) :
        /\ Moves(p, "finishing", results)
        /\ Len(results) = d + Cardinality(Left(p))
        /\ \A n \in DOMAIN results : results[n] = IF n <= d THEN proc[p].results[n] ELSE "failed"
  BY <1>1, UnstartedMoves
<1>3. /\ d \in Nat /\ k \in Nat /\ DOMAIN proc[p].results = 1 .. d /\ DOMAIN proc[p].keys = 1 .. k
  BY <1>1, ProcessType
<1>4. d <= k /\ N = d + 1 .. k /\ Cardinality(Left(p)) = k - d
  BY <1>1, LeftAll
<1>. HIDE DEF d, k, N
<1>5. Len(results) = k
  BY <1>2, <1>3, <1>4
<1>6. DOMAIN results = 1 .. k
  BY <1>5, LenProperties
<1>7. /\ N \in SUBSET DOMAIN proc[p].keys
      /\ \A n \in DOMAIN proc[p].results : n \notin N /\ results[n] = proc[p].results[n]
      /\ \A n \in DOMAIN results : n \in DOMAIN proc[p].results \/ (n \in N /\ results[n] = "failed")
      /\ \A n \in N : n \in DOMAIN results
  <2>1. N \in SUBSET DOMAIN proc[p].keys /\ \A n \in N : n \in DOMAIN results
    BY <1>3, <1>4, <1>6
  <2>2. \A n \in 1 .. d : n \notin N /\ n \in 1 .. k /\ n <= d
    BY <1>3, <1>4
  <2>3. \A n \in 1 .. k : n \in 1 .. d \/ (n \in N /\ ~ (n <= d))
    BY <1>3, <1>4
  <2>. QED  BY <1>2, <1>3, <1>6, <2>1, <2>2, <2>3
<1>8. Marked(proc[p].run, {proc[p].keys[n] : n \in N}, "failed")
  BY <1>1 DEF Unstarted, N
<1>9. At(p, "collecting") => d + 1 \in N
  BY <1>1, <1>3, <1>4, SMTT(30) DEF Sure, At, d, k
<1>10. Fills(p, N, "failed", "finishing", results)
  BY <1>2, <1>3, <1>4, <1>5, <1>7, <1>8, <1>9 DEF Fills, d, k
<1>. QED  BY <1>1, <1>10, ReportedKept

\* A step of p on its own run: its rows, and perhaps listings.
Lists(p, s) ==
  /\ Collecting(p) /\ Inserts(proc[p].run, s)
  /\ \E i \in DOMAIN source' : source'[i].run = proc[p].run /\ source'[i].source = s

Works(p) ==
  /\ p \in Alive
  /\ \E phase, results : Moves(p, phase, results)
  /\ UNCHANGED source \/ \E S, status : Marked(proc[p].run, S, status)
  /\ UNCHANGED listing \/ \E s : Lists(p, s)
  /\ Collecting(p)' => Collecting(p) \/ (Early(p) /\ UNCHANGED source)
  /\ UNCHANGED <<run, completed, began, lost>>

\* Every step is a start, an end, or one of a process that keeps what it reports.
LEMMA StepKinds ==
  ASSUME BaseInv, [Next]_vars
  PROVE  \/ UNCHANGED <<run, source, listing, proc, completed, began, lost>>
         \/ \E p \in Processes : \E o \in Options[p] : Start(p, o)
         \/ \E p \in Processes : /\ Works(p)
                                 /\ ~Repeated(proc[p].run) /\ Reported(p) => Reported(p)'
         \/ \E p \in Processes : Finish(p) \/ End(p)
<1>1. LegacyTypeOK
  BY DEF BaseInv
<1>2. ASSUME NEW p \in Processes, NEW fetched \in BOOLEAN, Rates(p, fetched)
      PROVE  Works(p) /\ (Reported(p) => Reported(p)')
  <2>1. /\ At(p, "started") /\ Moves(p, "opening", proc[p].results)
        /\ UNCHANGED <<run, source, listing, completed, began, lost>>
    BY <1>1, <1>2, RatesMove
  <2>. QED  BY <2>1, ReportedMoved DEF Works, Moves, At, Collecting, Early
<1>3. ASSUME NEW p \in Processes, Open(p)
      PROVE  Works(p) /\ (Reported(p) => Reported(p)')
  <2>1. /\ At(p, "opening") /\ Moves(p, "between", proc[p].results)
        /\ UNCHANGED <<run, source, listing, completed, began, lost>>
    BY <1>1, <1>3, OpenMoves
  <2>. QED  BY <2>1, ReportedMoved DEF Works, Moves, At, Collecting, Early
<1>4. ASSUME NEW p \in Processes, Close(p)
      PROVE  Works(p) /\ (Reported(p) => Reported(p)')
  <2>1. /\ At(p, "between") /\ Moves(p, "finishing", proc[p].results)
        /\ Len(proc[p].results) = Len(proc[p].keys)
        /\ UNCHANGED <<run, source, listing, completed, began, lost>>
    BY <1>1, <1>4, CloseMoves
  <2>. QED  BY <2>1, ReportedMoved DEF Works, Moves, At, Collecting, Early
<1>5. ASSUME NEW p \in Processes, StartSource(p)
      PROVE  Works(p) /\ (~Repeated(proc[p].run) /\ Reported(p) => Reported(p)')
  <2>1. /\ Moves(p, "collecting", proc[p].results) /\ Marked(proc[p].run, {Key(p)}, "running")
        /\ UNCHANGED <<run, listing, completed, began, lost>>
    BY <1>1, <1>5, StartSourceMoves
  <2>2. p \in Alive
    BY <2>1 DEF Moves
  <2>3. Collecting(p)
    BY <1>5 DEF StartSource, At, Collecting
  <2>. QED  BY <1>5, <2>1, <2>2, <2>3, StartSourceReports DEF Works
<1>6. ASSUME NEW p \in Processes, OpenFails(p) \/ Break(p)
      PROVE  Works(p) /\ (~Repeated(proc[p].run) /\ Reported(p) => Reported(p)')
  <2>1. /\ p \in Alive /\ proc[p] # None /\ RecordUnstarted(p)
        /\ Marked(proc[p].run, Unstarted(p), "failed")
        /\ UNCHANGED <<run, listing, completed, began, lost>>
    BY <1>6, Unstarts
  <2>2. \E results \in Seq(Outcomes) : Moves(p, "finishing", results)
    BY <1>1, <2>1, UnstartedMoves
  <2>3. ~Collecting(p)'
    BY <2>2 DEF Moves, Collecting
  <2>4. Works(p)
    BY <2>1, <2>2, <2>3 DEF Works
  <2>. QED  BY <1>6, <2>4, UnstartedReports
<1>7. ASSUME NEW p \in Processes, SourceFails(p) \/ \E out \in Output : Collect(p, out)
      PROVE  Works(p) /\ (~Repeated(proc[p].run) /\ Reported(p) => Reported(p)')
  <2>1. /\ p \in Alive /\ UNCHANGED <<run, completed, began, lost>>
        /\ \E status \in Outcomes :
             /\ Moves(p, "between", Append(proc[p].results, status))
             /\ Marked(proc[p].run, {Key(p)}, status)
    BY <1>7, Ended
  <2>2. Collecting(p) /\ (UNCHANGED listing \/ Inserts(proc[p].run, Key(p)))
    BY <1>7, Ended DEF Collecting, At
  <2>3. UNCHANGED listing \/ \E s : Lists(p, s)
    BY <2>1, <2>2 DEF Lists, Marked
  <2>4. Works(p)
    BY <2>1, <2>2, <2>3 DEF Works
  <2>. QED  BY <1>7, <2>4, EndedReports
<1>8. CASE UseLogin
  BY <1>8 DEF UseLogin, historyVars
<1>9. CASE UNCHANGED vars
  BY <1>9 DEF vars
<1>. QED  BY <1>2, <1>3, <1>4, <1>5, <1>6, <1>7, <1>8, <1>9 DEF Next

\* The rows of other runs than the one a process writes for.
LEMMA OtherRows ==
  ASSUME BaseInv, NEW r \in DOMAIN run, NEW q, q # r,
         UNCHANGED source \/ \E S, status : Marked(r, S, status)
  PROVE  /\ \A i : i \in DOMAIN source' /\ source'[i].run = q <=> i \in DOMAIN source /\ source[i].run = q
         /\ \A i \in DOMAIN source : source[i].run = q =>
              source'[i].source = source[i].source /\ source'[i].status = source[i].status
<1>1. CASE UNCHANGED source
  BY <1>1
<1>2. ASSUME NEW S, NEW status, Marked(r, S, status)
      PROVE  /\ \A i : i \in DOMAIN source' /\ source'[i].run = q <=> i \in DOMAIN source /\ source[i].run = q
             /\ \A i \in DOMAIN source : source[i].run = q =>
                  source'[i].source = source[i].source /\ source'[i].status = source[i].status
  <2>1. /\ \A i \in DOMAIN source : i \in DOMAIN source'
        /\ \A i \in DOMAIN source' : source'[i].run # r => i \in DOMAIN source
    BY <1>2, MarkedRows
  <2>2. \A i \in DOMAIN source :
          /\ source'[i].run = source[i].run /\ source'[i].source = source[i].source
          /\ source[i].run # r => source'[i].status = source[i].status
    BY <1>2 DEF Marked
  <2>. QED  BY <2>1, <2>2
<1>. QED  BY <1>1, <1>2

LEMMA WorksHonest ==
  ASSUME HonestInv, NEW p \in Processes, Works(p),
         ~Repeated(proc[p].run) /\ Reported(p) => Reported(p)'
  PROVE  /\ \A r \in completed' : Closed(r)'
         /\ \A q \in Alive' : ~Repeated(proc[q].run)' => Reported(q)'
<1>1. /\ BaseInv /\ p \in Alive /\ proc[p].run \in DOMAIN run /\ proc[p].run \in InProgress
      /\ Alive' = Alive /\ InProgress' = InProgress /\ UNCHANGED <<run, completed, began>>
      /\ \A q \in Alive : q # p => proc'[q] = proc[q] /\ proc[q].run # proc[p].run
      /\ proc'[p].run = proc[p].run
      /\ UNCHANGED source \/ \E S, status : Marked(proc[p].run, S, status)
  BY DEF HonestInv, BaseInv, Sure, OwnRuns, Works, Moves, InProgress, Alive
<1>2. ASSUME NEW q, q # proc[p].run
      PROVE  /\ \A i : i \in DOMAIN source' /\ source'[i].run = q <=> i \in DOMAIN source /\ source[i].run = q
             /\ \A i \in DOMAIN source : source[i].run = q =>
                  source'[i].source = source[i].source /\ source'[i].status = source[i].status
  BY <1>1, <1>2, OtherRows
<1>3. ASSUME NEW r \in completed'
      PROVE  Closed(r)'
  <2>1. Closed(r) /\ r # proc[p].run
    BY <1>1, <1>3 DEF HonestInv, Closed
  <2>2. RowStatuses(r)' = RowStatuses(r)
    BY <1>2, <2>1 DEF RowStatuses
  <2>3. Repeated(r)' <=> Repeated(r)
    BY <1>1 DEF Repeated
  <2>4. UNCHANGED run[r].status /\ r \notin InProgress'
    BY <1>1, <2>1 DEF Closed
  <2>. QED  BY <2>1, <2>2, <2>3, <2>4 DEF Closed, Honest
<1>4. ASSUME NEW q \in Alive', ~Repeated(proc[q].run)'
      PROVE  Reported(q)'
  <2>1. q \in Alive /\ proc'[q].run = proc[q].run /\ ~Repeated(proc[q].run) /\ Reported(q)
    BY <1>1, <1>4, SMTT(30) DEF HonestInv, Repeated
  <2>2. CASE q = p
    BY <2>1, <2>2
  <2>3. CASE q # p
    <3>1. proc'[q] = proc[q] /\ proc[q].run # proc[p].run
      BY <1>1, <2>1, <2>3
    <3>2. /\ \A i : i \in DOMAIN source' /\ source'[i].run = proc[q].run
                      <=> i \in DOMAIN source /\ source[i].run = proc[q].run
          /\ \A i \in DOMAIN source : source[i].run = proc[q].run =>
               source'[i].source = source[i].source /\ source'[i].status = source[i].status
      BY <1>2, <3>1
    <3>. QED  BY <2>1, <3>1, <3>2 DEF Reported
  <2>. QED  BY <2>2, <2>3
<1>. QED  BY <1>3, <1>4

\* A start closes what is running, and leaves what has a status.
LEMMA StartsHonest ==
  ASSUME HonestInv, NEW p \in Processes, NEW o \in Options[p], Start(p, o)
  PROVE  /\ \A r \in completed' : Closed(r)'
         /\ \A q \in Alive' : ~Repeated(proc[q].run)' => Reported(q)'
<1>1. BaseInv /\ LegacyTypeOK /\ UNCHANGED completed /\ completed \subseteq DOMAIN run
  BY DEF HonestInv, BaseInv, Start, LegacyTypeOK
<1>2. /\ Alive' = Alive \cup {p} /\ p \notin Alive
      /\ \A q \in Alive : proc'[q] = proc[q]
      /\ proc'[p].phase = "started" /\ proc'[p].run = Len(run) + 1 /\ proc'[p].results = <<>>
  BY <1>1, Starts
<1>3. /\ Len(run) \in Nat /\ DOMAIN run = 1 .. Len(run)
      /\ \A r \in DOMAIN run : run[r].status \in Outcomes => run'[r].status = run[r].status
      /\ \A r \in DOMAIN run : began'[r] = began[r]
  BY <1>1, StartsRun
<1>4. /\ DOMAIN source' = DOMAIN source
      /\ \A i \in DOMAIN source :
           /\ source'[i].run = source[i].run /\ source'[i].source = source[i].source
           /\ (source[i].status \in Outcomes => source'[i].status = source[i].status)
           /\ source[i].run \in DOMAIN run
  BY <1>1, StartsSources DEF BaseInv
<1>5. ASSUME NEW r \in completed'
      PROVE  Closed(r)'
  <2>1. Closed(r) /\ r \in DOMAIN run
    BY <1>1, <1>5 DEF HonestInv
  <2>2. run'[r].status = run[r].status /\ (Repeated(r)' <=> Repeated(r))
    BY <1>3, <2>1 DEF Closed, Repeated
  <2>3. r \notin InProgress'
    <3>1. r # Len(run) + 1
      BY <1>3, <2>1
    <3>. QED  BY <1>2, <2>1, <3>1 DEF Closed, InProgress
  <2>4. ASSUME ~Repeated(r)
        PROVE  Honest(r)'
    <3>1. Honest(r) /\ RowStatuses(r) \subseteq Outcomes
      BY <2>1, <2>4 DEF Closed, Honest
    <3>2. \A i \in DOMAIN source : source[i].run = r => source'[i].status = source[i].status
      BY <1>4, <3>1 DEF RowStatuses
    <3>3. RowStatuses(r)' = RowStatuses(r)
      BY <1>4, <3>2 DEF RowStatuses
    <3>. QED  BY <2>2, <3>1, <3>3 DEF Honest
  <2>. QED  BY <2>1, <2>2, <2>3, <2>4 DEF Closed
<1>6. ASSUME NEW q \in Alive', ~Repeated(proc[q].run)'
      PROVE  Reported(q)'
  <2>1. CASE q = p
    <3>1. \A i \in DOMAIN source' : source'[i].run # proc'[p].run
      BY <1>2, <1>3, <1>4
    <3>2. DOMAIN proc'[p].results = {}
      BY <1>2
    <3>. QED  BY <1>2, <2>1, <3>1, <3>2 DEF Reported
  <2>2. CASE q # p
    <3>1. q \in Alive /\ proc'[q] = proc[q] /\ proc[q].run \in DOMAIN run
      BY <1>1, <1>2, <2>2 DEF BaseInv, Sure
    <3>2. Reported(q)
      BY <1>3, <1>6, <3>1 DEF HonestInv, Repeated
    <3>3. \A n \in DOMAIN proc[q].results : proc[q].results[n] \in Outcomes
      BY <1>1, <3>1, ProcessType DEF Alive
    <3>. QED  BY <1>4, <3>1, <3>2, <3>3 DEF Reported
  <2>. QED  BY <2>1, <2>2
<1>. QED  BY <1>5, <1>6

LEMMA ClosedKept ==
  ASSUME NEW r, Closed(r), run'[r] = run[r], UNCHANGED <<source, began>>, r \notin InProgress'
  PROVE  Closed(r)'
<1>1. RowStatuses(r)' = RowStatuses(r)
  BY DEF RowStatuses
<1>2. Repeated(r)' <=> Repeated(r)
  BY DEF Repeated
<1>. QED  BY <1>1, <1>2 DEF Closed, Honest

\* A process that is gone leaves the others to theirs.
LEMMA GoneHonest ==
  ASSUME HonestInv, NEW p \in Processes, proc' = [proc EXCEPT ![p] = None], UNCHANGED <<source, began>>
  PROVE  /\ InProgress' \subseteq InProgress
         /\ proc[p] # None => proc[p].run \notin InProgress'
         /\ \A q \in Alive' : ~Repeated(proc[q].run)' => Reported(q)'
<1>1. /\ Alive' = Alive \ {p}
      /\ \A q \in Alive' : proc'[q] = proc[q] /\ q \in Alive /\ q # p
  BY Gone DEF HonestInv, BaseInv
<1>2. InProgress' \subseteq InProgress
  BY <1>1 DEF InProgress
<1>3. proc[p] # None => proc[p].run \notin InProgress'
  BY <1>1 DEF InProgress, HonestInv, BaseInv, OwnRuns, Alive
<1>4. \A q \in Alive' : ~Repeated(proc[q].run)' => Reported(q)'
  BY <1>1 DEF HonestInv, Repeated, Reported
<1>. QED  BY <1>2, <1>3, <1>4

\* What a process has reported when it finishes is what the run's status says.
LEMMA FinishesHonestly ==
  ASSUME HonestInv, NEW p \in Processes, Finish(p), ~Repeated(proc[p].run)
  PROVE  /\ RowStatuses(proc[p].run) # {} /\ RowStatuses(proc[p].run) \subseteq Outcomes
         /\ RunStatus(proc[p].results) = "ok" => RowStatuses(proc[p].run) = {"ok"}
         /\ RunStatus(proc[p].results) = "failed" => RowStatuses(proc[p].run) = {"failed"}
<1>. DEFINE results == proc[p].results
            rows == RowStatuses(proc[p].run)
            all == {results[n] : n \in DOMAIN results}
<1>1. /\ p \in Alive /\ proc[p] # None /\ proc[p].phase = "finishing"
      /\ LegacyTypeOK /\ Sure(p) /\ Reported(p)
  BY DEF HonestInv, BaseInv, Finish, At, Alive
<1>2. /\ Len(proc[p].keys) \in Nat /\ proc[p].keys \in Seq(Sources)
      /\ DOMAIN results = 1 .. Len(results)
      /\ \A n \in DOMAIN results : results[n] \in Outcomes
  BY <1>1, ProcessType
<1>3. Len(results) = Len(proc[p].keys) /\ Len(proc[p].keys) # 0
  BY <1>1, <1>2, EmptySeq DEF Reported, Sure
<1>4. rows # {}
  <2>1. 1 \in DOMAIN results
    BY <1>2, <1>3
  <2>2. PICK i \in DOMAIN source : source[i].run = proc[p].run
    BY <1>1, <2>1 DEF Reported
  <2>. QED  BY <2>2 DEF RowStatuses
<1>5. rows \subseteq all
  <2>. SUFFICES ASSUME NEW i \in DOMAIN source, source[i].run = proc[p].run
                PROVE  \E n \in DOMAIN results : source[i].status = results[n]
    BY DEF RowStatuses
  <2>. QED  BY <1>1 DEF Reported
<1>6. all \subseteq Outcomes
  BY <1>2
<1>7. RunStatus(results) = IF all \subseteq {"failed"} THEN "failed" ELSE IF all = {"ok"} THEN "ok" ELSE "partial"
  BY DEF RunStatus
<1>. HIDE DEF rows, all, results
<1>8. /\ RunStatus(results) = "ok" => rows = {"ok"}
      /\ RunStatus(results) = "failed" => rows = {"failed"}
  BY <1>4, <1>5, <1>7
<1>. QED  BY <1>4, <1>5, <1>6, <1>8 DEF rows, results

LEMMA HonestInvStep == HonestInv /\ [Next]_vars => HonestInv'
<1>. SUFFICES ASSUME HonestInv, [Next]_vars PROVE HonestInv'
  OBVIOUS
<1>1. BaseInv /\ BaseInv'
  BY BaseStep DEF HonestInv
<1>2. ASSUME UNCHANGED <<run, source, proc, completed, began>>
      PROVE  HonestInv'
  <2>1. InProgress' = InProgress /\ Alive' = Alive
    BY <1>2 DEF InProgress, Alive
  <2>2. \A r \in completed' : Closed(r)'
    <3>. SUFFICES ASSUME NEW r \in completed PROVE Closed(r)'
      BY <1>2
    <3>1. Closed(r) /\ r \notin InProgress'
      BY <2>1 DEF HonestInv, Closed
    <3>. QED  BY <1>2, <3>1, ClosedKept
  <2>3. \A q \in Alive' : ~Repeated(proc[q].run)' => Reported(q)'
    BY <1>2, <2>1 DEF HonestInv, Repeated, Reported
  <2>. QED  BY <1>1, <2>2, <2>3 DEF HonestInv
<1>3. ASSUME NEW p \in Processes, End(p)
      PROVE  HonestInv'
  <2>1. /\ proc' = [proc EXCEPT ![p] = None]
        /\ UNCHANGED <<run, source, completed, began>>
    BY <1>1, <1>3, Dies
  <2>2. /\ InProgress' \subseteq InProgress
        /\ \A q \in Alive' : ~Repeated(proc[q].run)' => Reported(q)'
    BY <2>1, GoneHonest
  <2>3. \A r \in completed' : Closed(r)'
    <3>. SUFFICES ASSUME NEW r \in completed PROVE Closed(r)'
      BY <2>1
    <3>1. Closed(r) /\ r \notin InProgress'
      BY <2>2 DEF HonestInv, Closed
    <3>. QED  BY <2>1, <3>1, ClosedKept
  <2>. QED  BY <1>1, <2>2, <2>3 DEF HonestInv
<1>4. ASSUME NEW p \in Processes, Finish(p)
      PROVE  HonestInv'
  <2>. SUFFICES ASSUME NEW R, R = proc[p].run PROVE HonestInv'
    OBVIOUS
  <2>1. LegacyTypeOK /\ R \in DOMAIN run /\ proc[p] # None /\ R \in InProgress
    BY <1>1, <1>4 DEF BaseInv, Sure, Finish, At, Alive, InProgress
  <2>2. /\ proc' = [proc EXCEPT ![p] = None]
        /\ RunStatus(proc[p].results) \in Outcomes
        /\ \A r \in DOMAIN run :
             /\ r # R => run'[r] = run[r]
             /\ r = R => run'[r].status = RunStatus(proc[p].results)
        /\ completed' = completed \cup {R}
        /\ UNCHANGED <<source, began>>
    BY <1>4, <2>1, Finishes
  <2>3. /\ InProgress' \subseteq InProgress /\ R \notin InProgress'
        /\ \A q \in Alive' : ~Repeated(proc[q].run)' => Reported(q)'
    BY <2>1, <2>2, GoneHonest
  <2>4. ASSUME NEW r \in completed, r # R
        PROVE  Closed(r)'
    <3>1. Closed(r) /\ r \in DOMAIN run
      BY <2>1 DEF HonestInv, LegacyTypeOK
    <3>2. run'[r] = run[r]
      BY <2>2, <2>4, <3>1
    <3>3. r \notin InProgress'
      BY <2>3, <3>1 DEF Closed
    <3>. QED  BY <2>2, <3>1, <3>2, <3>3, ClosedKept
  <2>5. Closed(R)'
    <3>1. run'[R].status = RunStatus(proc[p].results)
      BY <2>1, <2>2
    <3>2. RowStatuses(R)' = RowStatuses(R) /\ (Repeated(R)' <=> Repeated(R))
      BY <2>2 DEF RowStatuses, Repeated
    <3>3. ~Repeated(R) => Honest(R)'
      BY <1>4, <3>1, <3>2, FinishesHonestly DEF Honest
    <3>. QED  BY <2>2, <2>3, <3>1, <3>2, <3>3 DEF Closed
  <2>6. \A r \in completed' : Closed(r)'
    BY <2>2, <2>4, <2>5
  <2>. QED  BY <1>1, <2>3, <2>6 DEF HonestInv
<1>5. ASSUME NEW p \in Processes, Works(p), ~Repeated(proc[p].run) /\ Reported(p) => Reported(p)'
      PROVE  HonestInv'
  BY <1>1, <1>5, WorksHonest DEF HonestInv
<1>6. ASSUME NEW p \in Processes, NEW o \in Options[p], Start(p, o)
      PROVE  HonestInv'
  BY <1>1, <1>6, StartsHonest DEF HonestInv
<1>. QED  BY <1>1, <1>2, <1>3, <1>4, <1>5, <1>6, StepKinds

\* The status a process gave its run is what its source rows say, although
\* other processes may have closed the run and its rows in between: for any
\* number of processes and sources, a run that is "ok" has no row that is not,
\* and one that "failed" has none that did not.
THEOREM StatusIsWhatRowsSay == Spec => []CompletedHonestly
<1>1. Init => HonestInv
  BY BaseInit DEF Init, HonestInv, Alive
<1>2. HonestInv => CompletedHonestly
  BY DEF HonestInv, Closed, Honest, RowStatuses, CompletedHonestly
<1>. QED  BY <1>1, <1>2, HonestInvStep, PTL DEF Spec

-----------------------------------------------------------------------------
(***************************************************************************)
(* Which run is shown.  A run that has rows newer than those of a later    *)
(* run was in progress when the later one began.                           *)
(***************************************************************************)

Overtakes ==
  \A i, k \in DOMAIN source :
    k < i /\ source[i].run < source[k].run => source[i].run \in began[source[k].run].alongside

BeganAlongside ==
  \A p \in Alive : \A r \in DOMAIN run : proc[p].run < r => proc[p].run \in began[r].alongside

ShownInv == BaseInv /\ Overtakes /\ BeganAlongside

LEMMA WorksShown ==
  ASSUME ShownInv, NEW p \in Processes, Works(p)
  PROVE  Overtakes' /\ BeganAlongside'
<1>1. /\ p \in Alive /\ Alive' = Alive /\ \A q \in Alive : proc'[q].run = proc[q].run
      /\ proc[p].run \in DOMAIN run /\ UNCHANGED <<run, began>>
  BY DEF Works, Moves, ShownInv, BaseInv, Sure, Alive
<1>2. BeganAlongside'
  BY <1>1 DEF ShownInv, BeganAlongside
<1>3. CASE UNCHANGED source
  BY <1>1, <1>2, <1>3 DEF ShownInv, Overtakes
<1>4. ASSUME NEW S, NEW status, Marked(proc[p].run, S, status)
      PROVE  Overtakes'
  <2>. SUFFICES ASSUME NEW i \in DOMAIN source', NEW k \in DOMAIN source',
                       k < i, source'[i].run < source'[k].run
                PROVE  source'[i].run \in began[source'[k].run].alongside
    BY <1>1 DEF Overtakes
  <2>1. BaseInv
    BY DEF ShownInv
  <2>2. /\ i \in DOMAIN source \/ i \in NewRows
        /\ k \in DOMAIN source \/ k \in NewRows
        /\ source'[k].run \in DOMAIN run
    BY <1>1, <1>4, <2>1, MarkedRows
  <2>3. CASE i \in DOMAIN source /\ k \in DOMAIN source
    BY <1>4, <2>3 DEF Marked, ShownInv, Overtakes
  <2>4. CASE i \in NewRows
    <3>1. source'[i].run = proc[p].run
      BY <1>4, <2>4 DEF Marked
    <3>. QED  BY <1>1, <2>2, <3>1 DEF ShownInv, BeganAlongside
  <2>5. CASE i \in DOMAIN source /\ k \in NewRows
    <3>1. DOMAIN source = 1 .. Len(source) /\ Len(source) \in Nat
      BY <2>1, SourceRows DEF BaseInv
    <3>2. DOMAIN source' = 1 .. Len(source') /\ Len(source') \in Nat
      BY <1>4, LenProperties DEF Marked
    <3>3. FALSE
      BY <2>5, <3>1, <3>2 DEF NewRows
    <3>. QED  BY <3>3
  <2>. QED  BY <2>2, <2>3, <2>4, <2>5
<1>. QED  BY <1>2, <1>3, <1>4 DEF Works

LEMMA StartsShown ==
  ASSUME ShownInv, NEW p \in Processes, NEW o \in Options[p], Start(p, o)
  PROVE  Overtakes' /\ BeganAlongside'
<1>1. BaseInv /\ LegacyTypeOK
  BY DEF ShownInv, BaseInv
<1>2. /\ Alive' = Alive \cup {p} /\ p \notin Alive
      /\ \A q \in Alive : proc'[q] = proc[q]
      /\ proc'[p].run = Len(run) + 1
  BY <1>1, Starts
<1>3. /\ Len(run) \in Nat /\ DOMAIN run = 1 .. Len(run) /\ DOMAIN run' = 1 .. Len(run) + 1
      /\ \A r \in DOMAIN run : began'[r] = began[r]
      /\ began'[Len(run) + 1].alongside = InProgress
  BY <1>1, StartsRun
<1>4. /\ DOMAIN source' = DOMAIN source
      /\ \A i \in DOMAIN source : source'[i].run = source[i].run /\ source[i].run \in DOMAIN run
  BY <1>1, StartsSources DEF BaseInv
<1>5. Overtakes'
  BY <1>3, <1>4 DEF ShownInv, Overtakes
<1>6. ASSUME NEW q \in Alive', NEW r \in DOMAIN run', proc'[q].run < r
      PROVE  proc'[q].run \in began'[r].alongside
  <2>1. q # p
    BY <1>2, <1>3, <1>6
  <2>2. q \in Alive /\ proc'[q] = proc[q] /\ proc[q].run \in InProgress
    BY <1>2, <2>1 DEF InProgress
  <2>3. CASE r = Len(run) + 1
    BY <1>3, <2>2, <2>3
  <2>4. CASE r # Len(run) + 1
    <3>1. r \in DOMAIN run
      BY <1>3, <2>4
    <3>. QED  BY <1>3, <1>6, <2>2, <3>1 DEF ShownInv, BeganAlongside
  <2>. QED  BY <2>3, <2>4
<1>. QED  BY <1>5, <1>6 DEF BeganAlongside

LEMMA ShownInvStep == ShownInv /\ [Next]_vars => ShownInv'
<1>. SUFFICES ASSUME ShownInv, [Next]_vars PROVE ShownInv'
  OBVIOUS
<1>1. BaseInv /\ BaseInv'
  BY BaseStep DEF ShownInv
<1>2. ASSUME UNCHANGED <<run, source, proc, began>>
      PROVE  Overtakes' /\ BeganAlongside'
  BY <1>2 DEF ShownInv, Overtakes, BeganAlongside, Alive
<1>3. ASSUME NEW p \in Processes, Finish(p) \/ End(p)
      PROVE  Overtakes' /\ BeganAlongside'
  <2>1. LegacyTypeOK /\ proc' = [proc EXCEPT ![p] = None] /\ UNCHANGED <<source, began>>
    BY <1>1, <1>3 DEF BaseInv, Finish, End
  <2>2. \A q \in Alive' : proc'[q] = proc[q] /\ q \in Alive
    BY <2>1, Gone
  <2>3. DOMAIN run' = DOMAIN run
    <3>1. CASE End(p)
      BY <3>1 DEF End
    <3>2. CASE Finish(p)
      <4>1. proc[p].run \in DOMAIN run
        BY <1>1, <3>2 DEF BaseInv, Sure, Finish, At, Alive
      <4>. QED  BY <2>1, <3>2, <4>1, Finishes
    <3>. QED  BY <1>3, <3>1, <3>2
  <2>. QED  BY <2>1, <2>2, <2>3 DEF ShownInv, Overtakes, BeganAlongside
<1>4. Overtakes' /\ BeganAlongside'
  BY <1>1, <1>2, <1>3, StepKinds, WorksShown, StartsShown
<1>. QED  BY <1>1, <1>4 DEF ShownInv

\* A run that has the newest row of a source, and one that has another.
LEMMA ShownFollows == ShownInv => LatestSnapshotShown
<1>. SUFFICES ASSUME ShownInv, NEW d \in Dates, NEW s \in Sources,
                     NEW R \in Shown(d, s), NEW i \in RowsFor(d, s)
              PROVE  source[i].run <= R \/ R \in began[source[i].run].alongside
  BY DEF LatestSnapshotShown
<1>1. PICK m \in RowsFor(d, s) : R = source[m].run /\ \A n \in RowsFor(d, s) : n <= m
  BY DEF Shown
<1>2. i \in DOMAIN source /\ m \in DOMAIN source /\ i <= m
  BY <1>1 DEF RowsFor
<1>3. /\ DOMAIN source \subseteq Nat
      /\ source[i].run \in Nat /\ source[m].run \in Nat
  <2>1. DOMAIN run = 1 .. Len(run) /\ Len(run) \in Nat
    BY LenProperties DEF ShownInv, BaseInv, LegacyTypeOK
  <2>2. source[i].run \in DOMAIN run /\ source[m].run \in DOMAIN run
    BY <1>2 DEF ShownInv, BaseInv
  <2>. QED  BY <2>1, <2>2, SourceRows DEF ShownInv, BaseInv
<1>4. CASE source[i].run <= R
  BY <1>4
<1>5. CASE ~ (source[i].run <= R)
  <2>1. source[m].run < source[i].run /\ i < m
    BY <1>1, <1>2, <1>3, <1>5
  <2>. QED  BY <1>1, <1>2, <2>1 DEF ShownInv, Overtakes
<1>. QED  BY <1>4, <1>5

\* A collection that is run again on the same day replaces the snapshot of a
\* source, for any number of processes: an earlier run is shown in place of a
\* later one that has the source, too, only by overlapping it.
THEOREM LatestRunShown == Spec => []LatestSnapshotShown
<1>1. Init => ShownInv
  BY BaseInit DEF Init, ShownInv, Overtakes, BeganAlongside, Alive
<1>. QED  BY <1>1, ShownInvStep, ShownFollows, PTL DEF Spec

-----------------------------------------------------------------------------
(***************************************************************************)
(* What is judged.  Listings are shown by their runs' rows in              *)
(* source, and compared by their own place in listing: the two orders      *)
(* agree, since a source gets its row before its listings and only who has *)
(* the browser writes listings.                                            *)
(***************************************************************************)
RowsBefore(rows, r, q, s) ==
  \A m, n \in DOMAIN rows :
    rows[m].run = r /\ rows[n].run = q /\ rows[m].source = s /\ rows[n].source = s => m < n

HasRow(rows, r, s) == \E n \in DOMAIN rows : rows[n].run = r /\ rows[n].source = s

ListingInv ==
  /\ BaseInv
  /\ \A i \in DOMAIN listing : HasRow(source, listing[i].run, listing[i].source)
  /\ \A i, k \in DOMAIN listing : listing[i].run = listing[k].run /\ Same(i, k) => i = k
  /\ \A i, k \in DOMAIN listing :
       i < k /\ listing[i].source = listing[k].source /\ listing[i].run # listing[k].run
         => RowsBefore(source, listing[i].run, listing[k].run, listing[i].source)
  /\ \A p \in Alive : Collecting(p) =>
       \A i \in DOMAIN listing : listing[i].run # proc[p].run =>
         RowsBefore(source, listing[i].run, proc[p].run, listing[i].source)

\* Rows are added at the end, and only where a run has none for a source.
Grows ==
  /\ \A i \in DOMAIN source : /\ i \in DOMAIN source'
                              /\ source'[i].run = source[i].run /\ source'[i].source = source[i].source
  /\ \A n \in NewRows : /\ RowOf(source, source'[n].run, source'[n].source) = {}
                        /\ \A i \in DOMAIN source : i < n

LEMMA WritesGrow ==
  ASSUME BaseInv, NEW r \in DOMAIN run,
         UNCHANGED source \/ \E S, status : Marked(r, S, status)
  PROVE  Grows
<1>1. CASE UNCHANGED source
  BY <1>1 DEF Grows, NewRows
<1>2. ASSUME NEW S, NEW status, Marked(r, S, status)
      PROVE  Grows
  <2>1. /\ DOMAIN source = 1 .. Len(source) /\ Len(source) \in Nat
        /\ DOMAIN source' = 1 .. Len(source') /\ Len(source') \in Nat
    BY <1>2, SourceRows, LenProperties DEF BaseInv, Marked
  <2>2. \A n \in NewRows : \A i \in DOMAIN source : i < n
    BY <2>1 DEF NewRows
  <2>3. \A i \in DOMAIN source : i \in DOMAIN source'
    BY <1>2, MarkedRows
  <2>. QED  BY <1>2, <2>2, <2>3 DEF Marked, Grows
<1>. QED  BY <1>1, <1>2

LEMMA OrderKept ==
  ASSUME Grows, NEW r, NEW q, NEW s, HasRow(source, r, s)
  PROVE  /\ HasRow(source', r, s)
         /\ RowsBefore(source, r, q, s) => RowsBefore(source', r, q, s)
<1>1. HasRow(source', r, s)
  BY DEF Grows, HasRow
<1>2. ASSUME RowsBefore(source, r, q, s), NEW m \in DOMAIN source', NEW n \in DOMAIN source',
             source'[m].run = r, source'[n].run = q, source'[m].source = s, source'[n].source = s
      PROVE  m < n
  <2>1. m \in DOMAIN source
    BY <1>2 DEF Grows, HasRow, NewRows, RowOf
  <2>2. CASE n \in DOMAIN source
    BY <1>2, <2>1, <2>2 DEF Grows, RowsBefore
  <2>3. CASE n \in NewRows
    BY <2>1, <2>3 DEF Grows
  <2>. QED  BY <2>2, <2>3 DEF NewRows
<1>. QED  BY <1>1, <1>2 DEF RowsBefore

\* A step that leaves the listings alone, and lets no process begin to collect.
LEMMA ListingKept ==
  ASSUME ListingInv, BaseInv', Grows, UNCHANGED listing,
         \A q \in Alive' : Collecting(q)' =>
           /\ proc'[q].run = proc[q].run /\ q \in Alive
           /\ Collecting(q) \/ (Early(q) /\ UNCHANGED source)
  PROVE  ListingInv'
<1>1. \A i \in DOMAIN listing : HasRow(source', listing[i].run, listing[i].source)
  BY OrderKept DEF ListingInv
<1>2. \A i, k \in DOMAIN listing :
        i < k /\ listing[i].source = listing[k].source /\ listing[i].run # listing[k].run
          => RowsBefore(source', listing[i].run, listing[k].run, listing[i].source)
  BY OrderKept DEF ListingInv
<1>3. ASSUME NEW q \in Alive', Collecting(q)', NEW i \in DOMAIN listing, listing[i].run # proc'[q].run
      PROVE  RowsBefore(source', listing[i].run, proc'[q].run, listing[i].source)
  <2>1. /\ proc'[q].run = proc[q].run /\ q \in Alive
        /\ Collecting(q) \/ (Early(q) /\ UNCHANGED source)
    BY <1>3
  <2>2. CASE Collecting(q)
    BY <1>3, <2>1, <2>2, OrderKept DEF ListingInv
  <2>3. CASE Early(q) /\ UNCHANGED source
    <3>1. \A n \in DOMAIN source : source[n].run # proc[q].run
      BY <2>1, <2>3 DEF ListingInv, BaseInv, Sure
    <3>. QED  BY <2>1, <2>3, <3>1 DEF RowsBefore
  <2>. QED  BY <2>1, <2>2, <2>3
<1>4. \A i, k \in DOMAIN listing' : listing'[i].run = listing'[k].run /\ Same(i, k)' => i = k
  BY DEF ListingInv, Same
<1>. QED  BY <1>1, <1>2, <1>3, <1>4 DEF ListingInv

\* Only who has the browser writes listings: their source has its row, and the
\* rows of the listings before them are older.
LEMMA ListingInserted ==
  ASSUME ListingInv, BaseInv', NEW p \in Alive, NEW s, Lists(p, s), Grows,
         \A q \in Alive' : q \in Alive /\ proc'[q].run = proc[q].run /\ (q # p => proc'[q] = proc[q])
  PROVE  ListingInv'
<1>. DEFINE r == proc[p].run
<1>1. /\ Collecting(p) /\ Inserts(r, s) /\ HasRow(source', r, s)
  BY DEF Lists, HasRow
<1>2. /\ DOMAIN listing = 1 .. Len(listing) /\ Len(listing) \in Nat
      /\ DOMAIN listing' = 1 .. Len(listing') /\ Len(listing') \in Nat
      /\ Len(listing) <= Len(listing')
  BY <1>1, ListingRows, LenProperties DEF Inserts, ListingInv, BaseInv
<1>3. \A i \in DOMAIN listing' : \/ i \in NewListings
                                 \/ /\ i \in DOMAIN listing
                                    /\ listing'[i].run = listing[i].run
                                    /\ listing'[i].source = listing[i].source
                                    /\ listing'[i].item = listing[i].item
  BY <1>1 DEF NewListings, Inserts
<1>4. \A i \in NewListings : listing'[i].run = r /\ listing'[i].source = s
  BY <1>1 DEF Inserts
<1>5. \A i \in DOMAIN listing' : HasRow(source', listing'[i].run, listing'[i].source)
  <2>1. \A i \in DOMAIN listing : HasRow(source', listing[i].run, listing[i].source)
    BY OrderKept DEF ListingInv
  <2>. QED  BY <1>1, <1>3, <1>4, <2>1
<1>6. ASSUME NEW i \in DOMAIN listing', NEW k \in DOMAIN listing',
             listing'[i].run = listing'[k].run, Same(i, k)'
      PROVE  i = k
  <2>1. CASE i \in NewListings /\ k \in NewListings
    BY <1>1, <1>6, <2>1 DEF Inserts, Same
  <2>2. CASE i \in DOMAIN listing /\ k \in DOMAIN listing
    BY <1>1, <1>6, <2>2 DEF Inserts, Same, ListingInv
  <2>3. CASE i \in NewListings /\ k \in DOMAIN listing
    BY <1>1, <1>6, <2>3 DEF Inserts, Same
  <2>4. CASE k \in NewListings /\ i \in DOMAIN listing
    BY <1>1, <1>6, <2>4 DEF Inserts, Same
  <2>. QED  BY <1>3, <2>1, <2>2, <2>3, <2>4
<1>7. ASSUME NEW i \in DOMAIN listing, listing[i].run # r
      PROVE  RowsBefore(source', listing[i].run, r, listing[i].source)
  BY <1>1, <1>7, OrderKept DEF ListingInv
<1>8. ASSUME NEW i \in DOMAIN listing', NEW k \in DOMAIN listing', i < k,
             listing'[i].source = listing'[k].source, listing'[i].run # listing'[k].run
      PROVE  RowsBefore(source', listing'[i].run, listing'[k].run, listing'[i].source)
  <2>1. i \in DOMAIN listing
    <3>. SUFFICES ASSUME i \in NewListings PROVE FALSE
      BY DEF NewListings
    <3>1. k \notin NewListings
      BY <1>4, <1>8
    <3>. QED  BY <1>2, <1>8, <3>1 DEF NewListings
  <2>2. CASE k \in DOMAIN listing
    <3>1. RowsBefore(source, listing[i].run, listing[k].run, listing[i].source)
      BY <1>1, <1>8, <2>1, <2>2 DEF ListingInv, Inserts
    <3>2. RowsBefore(source', listing[i].run, listing[k].run, listing[i].source)
      BY <2>1, <3>1, OrderKept DEF ListingInv
    <3>. QED  BY <1>1, <2>1, <2>2, <3>2 DEF Inserts
  <2>3. CASE k \in NewListings
    BY <1>1, <1>4, <1>7, <1>8, <2>1, <2>3 DEF Inserts
  <2>. QED  BY <1>3, <2>2, <2>3
<1>9. ASSUME NEW q \in Alive', Collecting(q)', NEW i \in DOMAIN listing', listing'[i].run # proc'[q].run
      PROVE  RowsBefore(source', listing'[i].run, proc'[q].run, listing'[i].source)
  <2>1. q = p
    <3>. SUFFICES ASSUME q # p PROVE FALSE
      OBVIOUS
    <3>1. q \in Alive /\ Collecting(q)
      BY <1>9 DEF Collecting
    <3>. QED  BY <1>1, <3>1 DEF ListingInv, BaseInv, Sure
  <2>2. proc'[q].run = r
    BY <2>1
  <2>3. i \in DOMAIN listing /\ listing'[i].run = listing[i].run /\ listing'[i].source = listing[i].source
    BY <1>3, <1>4, <1>9, <2>2
  <2>. QED  BY <1>7, <1>9, <2>2, <2>3
<1>. QED  BY <1>5, <1>6, <1>8, <1>9 DEF ListingInv

LEMMA ListingInvStep == ListingInv /\ [Next]_vars => ListingInv'
<1>. SUFFICES ASSUME ListingInv, [Next]_vars PROVE ListingInv'
  OBVIOUS
<1>1. BaseInv /\ BaseInv' /\ LegacyTypeOK
  BY BaseStep DEF ListingInv, BaseInv
<1>2. ASSUME UNCHANGED <<source, listing, proc>>
      PROVE  ListingInv'
  <2>1. Grows
    BY <1>2 DEF Grows, NewRows
  <2>2. Alive' = Alive /\ \A q \in Alive : Collecting(q)' <=> Collecting(q)
    BY <1>2 DEF Alive, Collecting
  <2>. QED  BY <1>1, <1>2, <2>1, <2>2, ListingKept
<1>3. ASSUME NEW p \in Processes, Finish(p) \/ End(p)
      PROVE  ListingInv'
  <2>1. proc' = [proc EXCEPT ![p] = None] /\ UNCHANGED <<source, listing>>
    BY <1>3 DEF Finish, End
  <2>2. \A q \in Alive' : proc'[q] = proc[q] /\ q \in Alive
    BY <1>1, <2>1, Gone
  <2>3. Grows
    BY <2>1 DEF Grows, NewRows
  <2>4. \A q \in Alive' : Collecting(q)' => Collecting(q)
    BY <2>2 DEF Collecting
  <2>. QED  BY <1>1, <2>1, <2>2, <2>3, <2>4, ListingKept
<1>4. ASSUME NEW p \in Processes, NEW o \in Options[p], Start(p, o)
      PROVE  ListingInv'
  <2>1. /\ Alive' = Alive \cup {p} /\ proc'[p].phase = "started"
        /\ \A q \in Alive : proc'[q] = proc[q]
    BY <1>1, <1>4, Starts
  <2>2. Grows
    BY <1>1, <1>4, StartsSources DEF Grows, NewRows
  <2>3. \A q \in Alive' : Collecting(q)' => q \in Alive /\ proc'[q] = proc[q] /\ Collecting(q)
    BY <2>1 DEF Collecting
  <2>4. UNCHANGED listing
    BY <1>4 DEF Start
  <2>. QED  BY <1>1, <2>2, <2>3, <2>4, ListingKept
<1>5. ASSUME NEW p \in Processes, Works(p)
      PROVE  ListingInv'
  <2>1. /\ p \in Alive /\ Alive' = Alive /\ proc[p].run \in DOMAIN run
        /\ \A q \in Alive : proc'[q].run = proc[q].run
        /\ \A q \in Alive : q # p => proc'[q] = proc[q]
    BY <1>1, <1>5 DEF Works, Moves, BaseInv, Sure, Alive
  <2>2. Grows
    BY <1>1, <1>5, <2>1, WritesGrow DEF Works
  <2>3. CASE UNCHANGED listing
    <3>1. ASSUME NEW q \in Alive, Collecting(q)'
          PROVE  Collecting(q) \/ (Early(q) /\ UNCHANGED source)
      <4>1. CASE q = p
        BY <1>5, <3>1, <4>1 DEF Works
      <4>2. CASE q # p
        BY <2>1, <3>1, <4>2 DEF Collecting
      <4>. QED  BY <4>1, <4>2
    <3>. QED  BY <1>1, <2>1, <2>2, <2>3, <3>1, ListingKept
  <2>4. ASSUME NEW s, Lists(p, s)
        PROVE  ListingInv'
    BY <1>1, <2>1, <2>2, <2>4, ListingInserted
  <2>. QED  BY <1>5, <2>3, <2>4 DEF Works
<1>. QED  BY <1>1, <1>2, <1>3, <1>4, <1>5, StepKinds

\* Of the observations of an item on one day the one that is shown was stored
\* last: its run has the newest row for the source.
LEMMA ShownIsNewest ==
  ASSUME ListingInv, NEW i \in DOMAIN listing, NEW k \in DOMAIN listing, NEW d,
         DateOf(listing[i].run) = d, DateOf(listing[k].run) = d, Same(i, k),
         listing[i].run \in Shown(d, listing[i].source)
  PROVE  k <= i
<1>. DEFINE s == listing[i].source
<1>1. DOMAIN listing \subseteq Nat /\ DOMAIN source \subseteq Nat
  BY ListingRows, SourceRows DEF ListingInv, BaseInv
<1>. SUFFICES ASSUME i < k
              PROVE  FALSE
  BY <1>1
<1>2. listing[i].run # listing[k].run
  BY <1>1 DEF ListingInv
<1>3. RowsBefore(source, listing[i].run, listing[k].run, s)
  BY <1>2 DEF ListingInv, Same
<1>4. PICK n \in DOMAIN source : source[n].run = listing[k].run /\ source[n].source = s
  BY DEF ListingInv, HasRow, Same
<1>5. n \in RowsFor(d, s)
  BY <1>4 DEF RowsFor
<1>6. PICK m \in RowsFor(d, s) : source[m].run = listing[i].run /\ \A x \in RowsFor(d, s) : x <= m
  BY DEF Shown
<1>7. m \in DOMAIN source /\ source[m].source = s
  BY <1>6 DEF RowsFor
<1>8. m < n /\ n <= m /\ m \in Nat /\ n \in Nat
  BY <1>1, <1>3, <1>4, <1>5, <1>6, <1>7 DEF RowsBefore
<1>. QED  BY <1>8

\* Listings stay: the rows an estimate took are there when the second
\* connection looks.
LEMMA ListingsStay ==
  ASSUME BaseInv, BaseInv', [Next]_vars
  PROVE  DOMAIN listing \subseteq DOMAIN listing'
<1>1. LegacyTypeOK /\ LegacyTypeOK'
  BY DEF BaseInv
<1>2. UNCHANGED listing \/ Len(listing) <= Len(listing')
  BY StepKinds DEF Works, Lists, Inserts, Start, Finish, End
<1>3. /\ Len(listing) \in Nat /\ DOMAIN listing = 1 .. Len(listing)
      /\ Len(listing') \in Nat /\ DOMAIN listing' = 1 .. Len(listing')
  BY <1>1, LenProperties DEF LegacyTypeOK
<1>. QED  BY <1>2, <1>3

EstimateInv ==
  /\ ListingInv
  /\ estimate # None => estimate.rows \subseteq DOMAIN listing

LEMMA EstimateInvStep == EstimateInv /\ [OpportunitiesNext]_allVars => EstimateInv'
<1>. SUFFICES ASSUME EstimateInv, [OpportunitiesNext]_allVars PROVE EstimateInv'
  OBVIOUS
<1>1. [Next]_vars
  BY DEF OpportunitiesNext, allVars, Estimate
<1>2. ListingInv' /\ DOMAIN listing \subseteq DOMAIN listing'
  BY <1>1, ListingInvStep, ListingsStay DEF EstimateInv, ListingInv
<1>3. CASE UNCHANGED estimate
  BY <1>2, <1>3 DEF EstimateInv
<1>4. ASSUME NEW d \in Dates, Estimate(d)
      PROVE  EstimateInv'
  <2>1. estimate'.rows = Comparables(d) /\ Comparables(d) \subseteq DOMAIN listing
    BY <1>4 DEF Estimate, Comparables, Offered
  <2>. QED  BY <1>2, <2>1 DEF EstimateInv
<1>. QED  BY <1>3, <1>4 DEF OpportunitiesNext, allVars

\* Whenever the second connection looks, with any processes collecting the same
\* day's sources: what it offers is the row of the day the estimate took for the
\* item, or one stored later, never an observation the estimate knew to be
\* outdated.
THEOREM OffersAreCurrent == OpportunitiesSpec => []OpportunityIsCurrent
<1>1. OpportunitiesInit => EstimateInv
  BY BaseInit DEF OpportunitiesInit, Init, EstimateInv, ListingInv, Alive
<1>2. EstimateInv => OpportunityIsCurrent
  <2>. SUFFICES ASSUME EstimateInv, estimate # None,
                       NEW i \in Candidates(estimate.date), NEW k \in estimate.rows,
                       Same(i, k), DateOf(listing[k].run) = estimate.date
                PROVE  k <= i
    BY DEF OpportunityIsCurrent
  <2>1. /\ i \in DOMAIN listing /\ DateOf(listing[i].run) = estimate.date
        /\ listing[i].run \in Shown(estimate.date, listing[i].source)
    BY DEF Candidates
  <2>2. ListingInv /\ k \in DOMAIN listing
    BY DEF EstimateInv
  <2>. QED  BY <2>1, <2>2, ShownIsNewest
<1>. QED  BY <1>1, <1>2, EstimateInvStep, PTL DEF OpportunitiesSpec
=============================================================================
