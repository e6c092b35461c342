---------------------------- MODULE CollectionTask ----------------------------
(***************************************************************************)
(* The Celery task that collects one source (platform/tasks.py), from the  *)
(* message to its acknowledgement, with the life of the source run that    *)
(* collect_source records (platform/ingest.py).                            *)
(*                                                                         *)
(* A message is acknowledged late and delivered again when its worker is   *)
(* lost.  An attempt takes one of the browser slots, keys in Redis that    *)
(* expire, opens the browser profile of its host, ingests what it saw      *)
(* (module Ingest) and gives the slot back in two steps: read, delete.     *)
(* Whatever fails is tried again with the next retry number, a slot that   *)
(* was not to be had included; after the last the task is dead-lettered.   *)
(***************************************************************************)
EXTENDS Naturals, FiniteSets

CONSTANTS
  Tasks,        \* tasks sent, one for each source and day
  Workers,      \* worker processes, each with one task at a time
  HostOf,       \* the host of a worker: its processes share a browser profile
  Concurrency,  \* settings.browser_max_concurrency
  MaxRetries,   \* settings.collection_max_retries
  MaxFaults,    \* bound of crashes, second deliveries and database errors
  MaxBreaches   \* bound of the events that let a browser past the slots

ASSUME TaskAssumption ==
  /\ IsFiniteSet(Workers)
  /\ Workers \cap {"free", "orphan"} = {}
  /\ Concurrency \in Nat \ {0}
  /\ MaxRetries \in Nat
  /\ MaxFaults \in Nat
  /\ MaxBreaches \in Nat

VARIABLES
  enqueued,  \* tasks sent so far
  queue,     \* messages at the broker
  worker,    \* per worker: the attempt in progress
  slot,      \* the Redis keys of the browser slots
  ends,      \* how each task ended: succeeded, dead-lettered, dropped
  failed,    \* history: the retry numbers at which each task failed
  ghosts,    \* tasks with a source run left "running" by an attempt that is over
  faults,    \* what went wrong so far
  breaches

vars == <<enqueued, queue, worker, slot, ends, failed, ghosts, faults, breaches>>

Slots == 0 .. Concurrency - 1

Message == [task: Tasks, retries: 0 .. MaxRetries]

Phase == {"acquire", "start", "launch", "browse", "ingest", "finish",
          "erring", "release", "delete", "settle", "ack"}

\* The run is the row of source_runs the attempt inserted; it has a key of its own.
\* An attempt at a slot index of Concurrency has no slot: it holds the lock
\* of its process, or none was to be had.
Attempt ==
  [phase: Phase, message: Message, index: 0 .. Concurrency,
   run: {"none", "running", "ok", "failed"}]

Idle == [phase |-> "idle"]

TypeOK ==
  /\ enqueued \subseteq Tasks
  /\ queue \subseteq Message
  /\ worker \in [Workers -> Attempt \cup {Idle}]
  /\ slot \in [Slots -> Workers \cup {"free", "orphan"}]
  /\ ends \in [Tasks -> SUBSET {"succeeded", "dead", "dropped"}]
  /\ failed \in [Tasks -> SUBSET (0 .. MaxRetries)]
  /\ ghosts \subseteq Tasks
  /\ faults \in 0 .. MaxFaults
  /\ breaches \in 0 .. MaxBreaches

Init ==
  /\ enqueued = {}
  /\ queue = {}
  /\ worker = [w \in Workers |-> Idle]
  /\ slot = [i \in Slots |-> "free"]
  /\ ends = [t \in Tasks |-> {}]
  /\ failed = [t \in Tasks |-> {}]
  /\ ghosts = {}
  /\ faults = 0
  /\ breaches = 0

history == <<ends, failed>>
bounds  == <<faults, breaches>>

TaskOf(w) == worker[w].message.task

Goes(w, phase) == worker' = [worker EXCEPT ![w].phase = phase]

Ends(t, how) == ends' = [ends EXCEPT ![t] = @ \cup {how}]

\* An attempt is over: the run it leaves "running" nobody ends any more.
Leaves(w) ==
  /\ worker' = [worker EXCEPT ![w] = Idle]
  /\ ghosts' = IF worker[w].run = "running" THEN ghosts \cup {TaskOf(w)} ELSE ghosts

Fault ==
  /\ faults < MaxFaults
  /\ faults' = faults + 1
  /\ UNCHANGED breaches

Breach ==
  /\ breaches < MaxBreaches
  /\ breaches' = breaches + 1
  /\ UNCHANGED faults

-----------------------------------------------------------------------------
(***************************************************************************)
(* The broker.                                                             *)
(***************************************************************************)
Enqueue(t) ==
  /\ t \notin enqueued
  /\ enqueued' = enqueued \cup {t}
  /\ queue' = queue \cup {[task |-> t, retries |-> 0]}
  /\ UNCHANGED <<worker, slot, history, ghosts, bounds>>

Deliver(w, m) ==
  /\ worker[w] = Idle
  /\ queue' = queue \ {m}
  /\ worker' = [worker EXCEPT ![w] =
       [phase |-> "acquire", message |-> m, index |-> 0, run |-> "none"]]
  /\ UNCHANGED <<enqueued, slot, history, ghosts, bounds>>

\* The attempt outlasts the broker's visibility timeout.
DeliverAgain(w) ==
  /\ worker[w] # Idle
  /\ Fault
  /\ queue' = queue \cup {worker[w].message}
  /\ UNCHANGED <<enqueued, worker, slot, history, ghosts>>

Orphaned(w) == [i \in Slots |-> IF slot[i] = w THEN "orphan" ELSE slot[i]]

Crash(w) ==
  /\ worker[w] # Idle
  /\ Fault
  /\ queue' = queue \cup {worker[w].message}
  /\ Leaves(w)
  /\ slot' = Orphaned(w)
  /\ UNCHANGED <<enqueued, history>>

-----------------------------------------------------------------------------
(***************************************************************************)
(* browser_slot.                                                           *)
(***************************************************************************)
\* Mutant: sets the key without NX.
AnySlot(i) == TRUE

SlotFree(i) == slot[i] = "free"

Probe(w) ==
  LET i == worker[w].index IN
  /\ worker[w].phase = "acquire"
  /\ i \in Slots
  /\ IF SlotFree(i)
       THEN /\ slot' = [slot EXCEPT ![i] = w]
            /\ Goes(w, "start")
       ELSE /\ worker' = [worker EXCEPT ![w].index = i + 1]
            /\ UNCHANGED slot
  /\ UNCHANGED <<enqueued, queue, history, ghosts, bounds>>

Busy(w) ==
  /\ worker[w].phase = "acquire"
  /\ worker[w].index \notin Slots
  /\ Goes(w, "settle")
  /\ UNCHANGED <<enqueued, queue, slot, history, ghosts, bounds>>

\* Redis cannot be reached: the lock of the process is taken instead, which
\* is free, as the process has no other task.
FallBack(w) ==
  /\ worker[w].phase = "acquire"
  /\ Breach
  /\ worker' = [worker EXCEPT ![w].phase = "start", ![w].index = Concurrency]
  /\ UNCHANGED <<enqueued, queue, slot, history, ghosts>>

\* The key expires while the attempt it was given to goes on.
Lapse(i) ==
  /\ slot[i] \in Workers
  /\ Breach
  /\ slot' = [slot EXCEPT ![i] = "free"]
  /\ UNCHANGED <<enqueued, queue, worker, history, ghosts>>

\* The key of an attempt that is over, or could not give it back, expires.
ExpireOrphan(i) ==
  /\ slot[i] = "orphan"
  /\ slot' = [slot EXCEPT ![i] = "free"]
  /\ UNCHANGED <<enqueued, queue, worker, history, ghosts, bounds>>

HoldsSlot(w) == worker[w].index \in Slots /\ slot[worker[w].index] = w

\* Mutant: leaves the with block without its finally clause.
ReadSlotOnSuccess(w) ==
  /\ worker[w].phase = "release"
  /\ Goes(w, IF worker[w].run = "ok" THEN "delete" ELSE "settle")
  /\ UNCHANGED <<enqueued, queue, slot, history, ghosts, bounds>>

ReadSlot(w) ==
  /\ worker[w].phase = "release"
  /\ Goes(w, IF HoldsSlot(w) THEN "delete" ELSE "settle")
  /\ UNCHANGED <<enqueued, queue, slot, history, ghosts, bounds>>

\* Whoever holds the key by now is the one to lose it.
DeleteSlot(w) ==
  /\ worker[w].phase = "delete"
  /\ slot' = [slot EXCEPT ![worker[w].index] = "free"]
  /\ Goes(w, "settle")
  /\ UNCHANGED <<enqueued, queue, history, ghosts, bounds>>

\* Redis cannot be reached when the slot is to be given back.
KeepSlot(w) ==
  /\ worker[w].phase \in {"release", "delete"}
  /\ HoldsSlot(w)
  /\ Fault
  /\ slot' = Orphaned(w)
  /\ Goes(w, "settle")
  /\ UNCHANGED <<enqueued, queue, history, ghosts>>

-----------------------------------------------------------------------------
(***************************************************************************)
(* collect_source, with the slot held.                                     *)
(***************************************************************************)
StartRun(w) ==
  /\ worker[w].phase = "start"
  /\ worker' = [worker EXCEPT ![w].phase = "launch", ![w].run = "running"]
  /\ UNCHANGED <<enqueued, queue, slot, history, ghosts, bounds>>

\* The database cannot be reached: no run is recorded.
StartFails(w) ==
  /\ worker[w].phase = "start"
  /\ Fault
  /\ Goes(w, "release")
  /\ UNCHANGED <<enqueued, queue, slot, history, ghosts>>

Browsing == {w \in Workers : worker[w].phase = "browse"}

ProfileInUse(w) == \E v \in Browsing : HostOf[v] = HostOf[w]

Launch(w) ==
  /\ worker[w].phase = "launch"
  /\ ~ ProfileInUse(w)
  /\ Goes(w, "browse")
  /\ UNCHANGED <<enqueued, queue, slot, history, ghosts, bounds>>

\* The profile is in use, or Chrome cannot be started for another reason.
LaunchFails(w) ==
  /\ worker[w].phase = "launch"
  /\ Goes(w, "erring")
  /\ UNCHANGED <<enqueued, queue, slot, history, ghosts, bounds>>

\* The collector returns, the batch is committed, or one of them or the end
\* of the run raises; the batch stays if it was committed.
Advance(w) ==
  /\ \/ worker[w].phase = "browse" /\ Goes(w, "ingest")
     \/ worker[w].phase = "ingest" /\ Goes(w, "finish")
     \/ worker[w].phase \in {"browse", "ingest", "finish"} /\ Goes(w, "erring")
  /\ UNCHANGED <<enqueued, queue, slot, history, ghosts, bounds>>

\* "ok" stands for "partial" too; no query of a failed run succeeded.
FinishRun(w, status) ==
  /\ worker[w].phase = "finish"
  /\ worker' = [worker EXCEPT ![w].phase = "release", ![w].run = status]
  /\ UNCHANGED <<enqueued, queue, slot, history, ghosts, bounds>>

\* Mutant: does not record the failure.
FailRunUnrecorded(w) ==
  /\ worker[w].phase = "erring"
  /\ Goes(w, "release")
  /\ UNCHANGED <<enqueued, queue, slot, history, ghosts, bounds>>

FailRun(w) ==
  /\ worker[w].phase = "erring"
  /\ worker' = [worker EXCEPT ![w].phase = "release", ![w].run = "failed"]
  /\ UNCHANGED <<enqueued, queue, slot, history, ghosts, bounds>>

\* The failure cannot be recorded either, and the first error is lost.
FailRunFails(w) ==
  /\ worker[w].phase = "erring"
  /\ Fault
  /\ Goes(w, "release")
  /\ UNCHANGED <<enqueued, queue, slot, history, ghosts>>

-----------------------------------------------------------------------------
(***************************************************************************)
(* The end of an attempt: Retry, on_failure, acknowledgement.              *)
(***************************************************************************)
Succeed(w) ==
  /\ worker[w].phase = "settle"
  /\ worker[w].run = "ok"
  /\ Ends(TaskOf(w), "succeeded")
  /\ Goes(w, "ack")
  /\ UNCHANGED <<enqueued, queue, slot, failed, ghosts, bounds>>

Fails(w) ==
  LET m == worker[w].message IN
  /\ worker[w].phase = "settle"
  /\ worker[w].run # "ok"
  /\ failed' = [failed EXCEPT ![m.task] = @ \cup {m.retries}]
  /\ UNCHANGED <<enqueued, slot>>

\* Mutants: one retry less, a retry that is not counted.
MayRetryLess(retries) == retries + 1 < MaxRetries
RetryUncounted(m) == m

MayRetry(retries) == retries < MaxRetries

RetryOf(m) == [m EXCEPT !.retries = @ + 1]

\* Mutant: acknowledges instead of sending the retry.
RetryForgotten(w) ==
  /\ Fails(w)
  /\ MayRetry(worker[w].message.retries)
  /\ Goes(w, "ack")
  /\ UNCHANGED <<queue, ends, ghosts, bounds>>

Retry(w) ==
  /\ Fails(w)
  /\ MayRetry(worker[w].message.retries)
  /\ queue' = queue \cup {RetryOf(worker[w].message)}
  /\ Goes(w, "ack")
  /\ UNCHANGED <<ends, ghosts, bounds>>

\* The retry cannot be sent: Celery rejects the message for good.
RetryDropped(w) ==
  /\ Fails(w)
  /\ MayRetry(worker[w].message.retries)
  /\ Fault
  /\ Ends(TaskOf(w), "dropped")
  /\ Goes(w, "ack")
  /\ UNCHANGED <<queue, ghosts>>

DeadLetter(w) ==
  /\ Fails(w)
  /\ ~ MayRetry(worker[w].message.retries)
  /\ Ends(TaskOf(w), "dead")
  /\ Goes(w, "ack")
  /\ UNCHANGED <<queue, ghosts, bounds>>

\* The dead letter cannot be written: on_failure only logs it.
DeadLetterDropped(w) ==
  /\ Fails(w)
  /\ ~ MayRetry(worker[w].message.retries)
  /\ Fault
  /\ Ends(TaskOf(w), "dropped")
  /\ Goes(w, "ack")
  /\ UNCHANGED <<queue, ghosts>>

Acknowledge(w) ==
  /\ worker[w].phase = "ack"
  /\ Leaves(w)
  /\ UNCHANGED <<enqueued, queue, slot, history, bounds>>

-----------------------------------------------------------------------------
WorkerStep(w) ==
  \/ \E m \in queue : Deliver(w, m)
  \/ Probe(w) \/ Busy(w)
  \/ StartRun(w) \/ Launch(w) \/ LaunchFails(w)
  \/ Advance(w)
  \/ \E status \in {"ok", "failed"} : FinishRun(w, status)
  \/ FailRun(w)
  \/ ReadSlot(w) \/ DeleteSlot(w)
  \/ Succeed(w) \/ Retry(w) \/ DeadLetter(w)
  \/ Acknowledge(w)

WorkerFault(w) ==
  \/ DeliverAgain(w) \/ Crash(w)
  \/ FallBack(w) \/ KeepSlot(w)
  \/ StartFails(w) \/ FailRunFails(w)
  \/ RetryDropped(w) \/ DeadLetterDropped(w)

Expiry == \E i \in Slots : ExpireOrphan(i)

Next ==
  \/ \E t \in Tasks : Enqueue(t)
  \/ \E w \in Workers : WorkerStep(w) \/ WorkerFault(w)
  \/ \E i \in Slots : Lapse(i)
  \/ Expiry

Spec == Init /\ [][Next]_vars

\* Workers go on with their attempts (the browser's timeouts end every
\* wait) and take messages when idle; keys expire after two hours.
Fairness ==
  /\ \A w \in Workers : WF_vars(WorkerStep(w))
  /\ WF_vars(Expiry)

FairSpec == Spec /\ Fairness

-----------------------------------------------------------------------------
(***************************************************************************)
(* Properties.                                                             *)
(***************************************************************************)
\* There are never more browsers than slots, but for one with every key
\* that expired under its holder and every time Redis could not be reached.
\* A key can pass on through any number of releases that delete the key of
\* another attempt, but each takes the place of the one before (browser_slot).
BrowsersBounded == Cardinality(Browsing) <= Concurrency + breaches

\* A task that was sent is at the broker, with a worker, or has an end: no
\* way through the handlers loses it silently (collect_source_task).
NothingForgotten ==
  \A t \in enqueued :
    \/ \E m \in queue : m.task = t
    \/ \E w \in Workers : worker[w] # Idle /\ TaskOf(w) = t
    \/ ends[t] # {}

\* A task is given up only after it failed at the first attempt and at
\* every retry it has, in spite of second deliveries and lost workers.
DeadAfterAllRetries ==
  \A t \in Tasks : "dead" \in ends[t] => failed[t] = 0 .. MaxRetries

\* Only a lost worker or a database error leaves a source run "running"
\* after its attempt (collect_source).
RunsEnd == faults = 0 => ghosts = {}

\* Every task that was sent comes to an end: it succeeds, is dead-lettered,
\* or is dropped by a broker or a database that cannot be reached.
TasksEnd == \A t \in Tasks : t \in enqueued ~> ends[t] # {}

\* In the end every slot is free again, whichever workers were lost.
SlotsFreed == <>[](\A i \in Slots : slot[i] = "free")
=============================================================================
