-------------------------------- MODULE Legacy --------------------------------
(***************************************************************************)
(* The command line's own collection (collection.py, db.py, browser.py,    *)
(* status.py, scheduler.py): processes that collect sources one after the  *)
(* other into one SQLite file, and which of their listings are then shown. *)
(*                                                                         *)
(* The scheduled task and a command in a terminal may collect at the same  *)
(* time, and a process may end at any point: it is interrupted, or the     *)
(* scheduler's time limit ends it.  SQLite commits one transaction after   *)
(* the other; the browser profile admits one process.                      *)
(***************************************************************************)
EXTENDS Naturals, Sequences, FiniteSets

CONSTANTS
  Processes, \* the scheduled task and terminals, each with one command at a time
  Sources, Items,
  Options,   \* [date, keys] each is asked to collect; --source may be repeated
  Dates,
  Login,     \* the login command, in the browser
  None,
  MaxRuns,   \* bound of the collections
  MaxFaults  \* bound of what goes wrong outside the sources

ASSUME LegacyAssumption ==
  /\ Dates \subseteq Nat /\ MaxRuns \in Nat /\ MaxFaults \in Nat
  /\ \A p \in Processes : \A o \in Options[p] :
       o.date \in Dates /\ o.keys \in Seq(Sources) /\ o.keys # <<>>
  /\ IsFiniteSet(Items)
  /\ Login \notin Processes /\ None \notin Processes \cup {Login}

VARIABLES
  run,        \* rows of collection_runs, by id
  source,     \* rows of source_runs, by id
  listing,    \* rows of listings of used phones, by id
  fx,         \* whether fx_rates has a row
  proc,       \* the processes
  browser,    \* who has the browser profile open
  completed,  \* history: runs whose process wrote their status
  began,      \* history: for each run its keys and the runs then in progress
  lost,       \* history: runs whose process ended since the last run began
  faults

vars == <<run, source, listing, fx, proc, browser, completed, began, lost, faults>>
historyVars == <<completed, began, lost>>

Outcomes == {"ok", "partial", "failed"}
RunRow == [date: Dates, status: Outcomes \cup {"running"}]
SourceRow == [run: 1 .. MaxRuns, source: Sources, status: Outcomes \cup {"running"}]
ListingRow == [run: 1 .. MaxRuns, source: Sources, item: Items, active: BOOLEAN, priced: BOOLEAN]
Process == [phase: {"started", "opening", "between", "collecting", "finishing"},
            run: 1 .. MaxRuns, keys: Seq(Sources), results: Seq(Outcomes), rates: BOOLEAN]

ASSUME NoneAssumption == None \notin Process

LegacyTypeOK ==
  /\ run \in Seq(RunRow) /\ Len(run) <= MaxRuns
  /\ source \in Seq(SourceRow)
  /\ listing \in Seq(ListingRow)
  /\ fx \in BOOLEAN
  /\ proc \in [Processes -> Process \cup {None}]
  /\ browser \in Processes \cup {Login, None}
  /\ completed \subseteq DOMAIN run /\ lost \subseteq DOMAIN run
  /\ began \in Seq([keys: Seq(Sources), alongside: SUBSET (1 .. MaxRuns)]) /\ Len(began) = Len(run)
  /\ faults \in 0 .. MaxFaults

Init ==
  /\ run = <<>> /\ source = <<>> /\ listing = <<>>
  /\ fx = FALSE
  /\ proc = [p \in Processes |-> None] /\ browser = None
  /\ completed = {} /\ began = <<>> /\ lost = {} /\ faults = 0

At(p, phase) == proc[p] # None /\ proc[p].phase = phase
Alive == {p \in Processes : proc[p] # None}
InProgress == {proc[p].run : p \in Alive}
Fault == faults < MaxFaults /\ faults' = faults + 1

-----------------------------------------------------------------------------
\* Mutant: it closes the source rows only.
RunsLeftAlone(rows) == rows

\* recover_interrupted_runs: what is still running, of whichever process, failed.
Failed(row) == IF row.status = "running" THEN [row EXCEPT !.status = "failed"] ELSE row
RecoveredRuns(rows) == [r \in DOMAIN rows |-> Failed(rows[r])]

\* collect: recover, and start a run; one commit.
Start(p, o) ==
  /\ proc[p] = None /\ Len(run) < MaxRuns
  /\ run' = Append(RecoveredRuns(run), [date |-> o.date, status |-> "running"])
  /\ source' = [i \in DOMAIN source |-> Failed(source[i])]
  /\ proc' = [proc EXCEPT ![p] = [phase |-> "started", run |-> Len(run) + 1, keys |-> o.keys,
                                  results |-> <<>>, rates |-> FALSE]]
  /\ began' = Append(began, [keys |-> o.keys, alongside |-> InProgress])
  /\ lost' = {}
  /\ UNCHANGED <<listing, fx, browser, completed, faults>>

\* fetch_or_cache_rates: today's rates, those of the cache, or none.
Rates(p, fetched) ==
  /\ At(p, "started")
  /\ IF fetched THEN UNCHANGED faults ELSE Fault
  /\ fx' = (fx \/ fetched)
  /\ proc' = [proc EXCEPT ![p].phase = "opening", ![p].rates = fx']
  /\ UNCHANGED <<run, source, listing, browser, historyVars>>

\* start_source_run and finish_source_run: the run has one row for a source.
RowOf(rows, r, s) == {i \in DOMAIN rows : rows[i].run = r /\ rows[i].source = s}
SourceRowOf(r, s, status) == [run |-> r, source |-> s, status |-> status]
WithStatus(rows, r, s, status) ==
  IF RowOf(rows, r, s) = {} THEN Append(rows, SourceRowOf(r, s, status))
  ELSE [i \in DOMAIN rows |-> IF i \in RowOf(rows, r, s) THEN SourceRowOf(r, s, status) ELSE rows[i]]

\* The places of the keys no result is for.
Left(p) ==
  LET keys == proc[p].keys
      done == 1 .. Len(proc[p].results)
  IN  {n \in DOMAIN keys : \A i \in done : keys[i] # keys[n]}

\* The finite set N of places in their order.
InOrder(N) == {t \in [1 .. Cardinality(N) -> N] : \A i, k \in DOMAIN t : i < k => t[i] < t[k]}

\* Mutant: only those that have no row yet get one.
UpdatedLeft(p) == source

UpdatedAsFailed(p) ==
  [i \in DOMAIN source |->
     IF source[i].run = proc[p].run /\ source[i].source \in {proc[p].keys[n] : n \in Left(p)}
     THEN [source[i] EXCEPT !.status = "failed"] ELSE source[i]]

\* _record_unstarted_sources: those without a result failed, in one commit.
RecordUnstarted(p) ==
  LET keys == proc[p].keys
      new == {n \in Left(p) : /\ RowOf(source, proc[p].run, keys[n]) = {}
                              /\ \A i \in 1 .. n - 1 : keys[i] # keys[n]}
  IN  /\ \E t \in InOrder(new) :
           source' = UpdatedAsFailed(p)
                       \o [n \in DOMAIN t |-> SourceRowOf(proc[p].run, keys[t[n]], "failed")]
      /\ proc' = [proc EXCEPT ![p].phase = "finishing",
                              ![p].results = @ \o [n \in 1 .. Cardinality(Left(p)) |-> "failed"]]

\* Mutant: a profile for each process.
OwnProfile(p) == TRUE

ProfileFree(p) == browser = None

\* persistent_browser, unless the profile is in use or Chrome cannot be started.
Open(p) ==
  /\ At(p, "opening") /\ ProfileFree(p)
  /\ browser' = p
  /\ proc' = [proc EXCEPT ![p].phase = "between"]
  /\ UNCHANGED <<run, source, listing, fx, historyVars, faults>>

OpenFails(p) ==
  /\ At(p, "opening")
  /\ IF ProfileFree(p) THEN Fault ELSE UNCHANGED faults
  /\ RecordUnstarted(p)
  /\ UNCHANGED <<run, listing, fx, browser, historyVars>>

Key(p) == proc[p].keys[Len(proc[p].results) + 1]

StartSource(p) ==
  /\ At(p, "between") /\ Len(proc[p].results) < Len(proc[p].keys)
  /\ source' = WithStatus(source, proc[p].run, Key(p), "running")
  /\ proc' = [proc EXCEPT ![p].phase = "collecting"]
  /\ UNCHANGED <<run, listing, fx, browser, historyVars, faults>>

\* What the pages of a source can show: the items on offer and those sold, and
\* the status of the source; with nothing accepted it is never "ok".
Seen == {[offered |-> o, sold |-> g, status |-> s] :
           o \in SUBSET Items, g \in SUBSET Items, s \in Outcomes}
Output == {x \in Seen : /\ x.offered \cap x.sold = {}
                        /\ x.status = "ok" => x.offered \cup x.sold # {}
                        /\ x.status = "failed" => x.offered \cup x.sold = {}}

\* insert_listings: a row of the run is updated in place.
Known(p, item) ==
  {i \in DOMAIN listing : /\ listing[i].run = proc[p].run /\ listing[i].source = Key(p)
                          /\ listing[i].item = item}
ListingOf(p, item, out) ==
  [run |-> proc[p].run, source |-> Key(p), item |-> item,
   active |-> item \in out.offered, priced |-> proc[p].rates]
Inserted(p, out) ==
  LET all == out.offered \cup out.sold
      new == {item \in all : Known(p, item) = {}}
      old == [i \in DOMAIN listing |->
                IF \E item \in all : i \in Known(p, item) THEN ListingOf(p, listing[i].item, out)
                ELSE listing[i]]
  IN  {old \o [n \in DOMAIN s |-> ListingOf(p, s[n], out)] :
         s \in {t \in [1 .. Cardinality(new) -> new] : \A i, k \in DOMAIN t : i # k => t[i] # t[k]}}

Result(p, status) ==
  /\ source' = WithStatus(source, proc[p].run, Key(p), status)
  /\ proc' = [proc EXCEPT ![p].phase = "between", ![p].results = Append(@, status)]
  /\ UNCHANGED <<run, fx, browser, historyVars, faults>>

\* The listings and the result of the source, in one commit ...
Collect(p, out) ==
  /\ At(p, "collecting")
  /\ listing' \in Inserted(p, out)
  /\ Result(p, out.status)

\* ... or the rollback, and the failure.
SourceFails(p) ==
  /\ At(p, "collecting")
  /\ Result(p, "failed") /\ UNCHANGED listing

\* An exception outside the adapter of a source: the browser is closed, too.
Break(p) ==
  /\ Fault
  /\ At(p, "between") \/ At(p, "collecting")
  /\ RecordUnstarted(p)
  /\ browser' = None
  /\ UNCHANGED <<run, listing, fx, historyVars>>

Close(p) ==
  /\ At(p, "between") /\ Len(proc[p].results) = Len(proc[p].keys)
  /\ browser' = None
  /\ proc' = [proc EXCEPT ![p].phase = "finishing"]
  /\ UNCHANGED <<run, source, listing, fx, historyVars, faults>>

RunStatus(results) ==
  LET all == {results[n] : n \in DOMAIN results}
  IN  IF all \subseteq {"failed"} THEN "failed" ELSE IF all = {"ok"} THEN "ok" ELSE "partial"

\* finish_run, whatever another process made of the run.
Finish(p) ==
  /\ At(p, "finishing")
  /\ run' = [run EXCEPT ![proc[p].run].status = RunStatus(proc[p].results)]
  /\ completed' = completed \cup {proc[p].run}
  /\ proc' = [proc EXCEPT ![p] = None]
  /\ UNCHANGED <<source, listing, fx, browser, began, lost, faults>>

\* The process ends, and Chrome with it.
End(p) ==
  /\ Fault
  /\ proc[p] # None
  /\ proc' = [proc EXCEPT ![p] = None]
  /\ browser' = IF browser = p THEN None ELSE browser
  /\ lost' = lost \cup {proc[p].run}
  /\ UNCHANGED <<run, source, listing, fx, completed, began>>

\* The login command opens the profile for somebody to log in, and closes it.
LoginOpens == browser = None /\ browser' = Login
LoginCloses == browser = Login /\ browser' = None
UseLogin ==
  /\ LoginOpens \/ LoginCloses
  /\ UNCHANGED <<run, source, listing, fx, proc, historyVars, faults>>

-----------------------------------------------------------------------------
Next ==
  \/ \E p \in Processes :
       \/ \E o \in Options[p] : Start(p, o)
       \/ \E fetched \in BOOLEAN : Rates(p, fetched)
       \/ Open(p) \/ OpenFails(p) \/ StartSource(p) \/ SourceFails(p)
       \/ \E out \in Output : Collect(p, out)
       \/ Break(p) \/ Close(p) \/ Finish(p) \/ End(p)
  \/ UseLogin

Spec == Init /\ [][Next]_vars

-----------------------------------------------------------------------------
DateOf(r) == run[r].date
RowsFor(d, s) == {i \in DOMAIN source : source[i].source = s /\ DateOf(source[i].run) = d}

\* Mutant: the oldest row for s.
ShownFirst(d, s) == {source[i].run : i \in {k \in RowsFor(d, s) : \A n \in RowsFor(d, s) : k <= n}}

\* listing_rows, one statement: the listings of a date and a source are those of
\* the run whose row for the source is the newest.
Shown(d, s) == {source[i].run : i \in {k \in RowsFor(d, s) : \A n \in RowsFor(d, s) : n <= k}}

-----------------------------------------------------------------------------
\* A run that was asked for a source more than once.
Repeated(r) == \E i, k \in DOMAIN began[r].keys : i # k /\ began[r].keys[i] = began[r].keys[k]

\* What the file says is running is: only the newest run can be, and a source
\* row is being collected, unless its process ended after the newest run began
\* or its run was asked for a source twice.
RunningIsLive ==
  /\ \A r \in DOMAIN run : run[r].status = "running" => r = Len(run)
  /\ \A i \in DOMAIN source : source[i].status = "running" =>
       \/ source[i].run \in lost
       \/ Repeated(source[i].run)
       \/ \E p \in Alive : proc[p].run = source[i].run /\ At(p, "collecting") /\ Key(p) = source[i].source

\* The status a process gave its run is what its source rows say, although
\* other processes may have closed the run and its rows in between.
CompletedHonestly ==
  \A r \in {c \in completed : ~Repeated(c)} :
    LET rows == {source[i].status : i \in {k \in DOMAIN source : source[k].run = r}}
    IN  /\ rows # {} /\ rows \subseteq Outcomes
        /\ run[r].status = "ok" => rows = {"ok"}
        /\ run[r].status = "failed" => rows = {"failed"}

\* A collection that is run again on the same day replaces the snapshot of a
\* source (tests/test_db.py, test_same_day_rerun_uses_latest_source_snapshot): an
\* earlier run is shown in place of a later one that has the source, too, only
\* if it was in progress when the later one began.
LatestSnapshotShown ==
  \A d \in Dates, s \in Sources :
    \A r \in Shown(d, s), i \in RowsFor(d, s) :
      source[i].run <= r \/ r \in began[source[i].run].alongside
=============================================================================
