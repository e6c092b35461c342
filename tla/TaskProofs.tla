------------------------------ MODULE TaskProofs ------------------------------
(***************************************************************************)
(* What CollectionTask keeps, for every set of tasks and workers, any      *)
(* number of slots and retries, and any number of faults.                  *)
(***************************************************************************)
EXTENDS CollectionTask, FiniteSetTheorems, TLAPS

-----------------------------------------------------------------------------
(***************************************************************************)
(* The record of a worker.                                                 *)
(***************************************************************************)
\* A worker is idle, or has an attempt: the phase tells which.
LEMMA AttemptOf ==
  ASSUME TypeOK, NEW w \in Workers
  PROVE  /\ worker[w] = Idle \/ worker[w] \in Attempt
         /\ worker[w] = Idle <=> worker[w].phase \notin Phase
<1>1. worker[w] = Idle \/ worker[w] \in Attempt
  BY DEF TypeOK
<1>2. worker[w] = Idle => worker[w].phase \notin Phase
  BY DEF Idle, Phase
<1>3. worker[w] \in Attempt => worker[w].phase \in Phase
  BY DEF Attempt
<1>. QED
  BY <1>1, <1>2, <1>3

\* Goes changes the phase of an attempt and nothing else of it.
LEMMA GoesTo ==
  ASSUME TypeOK, NEW w \in Workers, worker[w].phase \in Phase,
         NEW p \in Phase, Goes(w, p)
  PROVE  /\ worker' \in [Workers -> Attempt \cup {Idle}]
         /\ worker'[w] \in Attempt
         /\ worker'[w].phase = p
         /\ worker'[w].message = worker[w].message
         /\ worker'[w].index = worker[w].index
         /\ worker'[w].run = worker[w].run
         /\ \A v \in Workers : v # w => worker'[v] = worker[v]
<1>. DEFINE b == [worker[w] EXCEPT !.phase = p]
<1>1. worker[w] \in Attempt
  BY AttemptOf
<1>2. /\ b \in Attempt
      /\ b.phase = p
      /\ b.message = worker[w].message
      /\ b.index = worker[w].index
      /\ b.run = worker[w].run
  BY <1>1 DEF Attempt
<1>3. worker' = [worker EXCEPT ![w] = b]
  BY DEF Goes
<1>. HIDE DEF b
<1>. QED
  BY <1>2, <1>3 DEF TypeOK

\* A worker that leaves is idle, and the others are as they were.
LEMMA LeavesIdle ==
  ASSUME TypeOK, NEW w \in Workers, worker[w].phase \in Phase, Leaves(w)
  PROVE  /\ worker' \in [Workers -> Attempt \cup {Idle}]
         /\ worker'[w] = Idle
         /\ \A v \in Workers : v # w => worker'[v] = worker[v]
         /\ ghosts' \subseteq Tasks
         /\ worker[w].run # "running" => ghosts' = ghosts
<1>1. worker[w] \in Attempt
  BY AttemptOf
<1>2. TaskOf(w) \in Tasks
  BY <1>1 DEF Attempt, Message, TaskOf
<1>. QED
  BY <1>1, <1>2 DEF TypeOK, Leaves

LEMMA OrphanedType ==
  ASSUME TypeOK, NEW w \in Workers
  PROVE  Orphaned(w) \in [Slots -> Workers \cup {"free", "orphan"}]
BY DEF TypeOK, Orphaned

-----------------------------------------------------------------------------
LEMMA TypeInit == Init => TypeOK
BY TaskAssumption DEF Init, TypeOK, Idle

LEMMA TypeWorker ==
  ASSUME TypeOK, NEW w \in Workers, WorkerStep(w)
  PROVE  TypeOK'
<1>. DEFINE a == worker[w]
<1>0. a.phase \in Phase => /\ a \in Attempt
                           /\ a.message \in Message
                           /\ a.message.task \in Tasks
                           /\ a.message.retries \in 0 .. MaxRetries
                           /\ a.index \in 0 .. Concurrency
  BY AttemptOf DEF Attempt, Message
<1>1. ASSUME NEW m \in queue, Deliver(w, m)
      PROVE  TypeOK'
  <2>1. [phase |-> "acquire", message |-> m, index |-> 0, run |-> "none"] \in Attempt
    BY TaskAssumption DEF TypeOK, Attempt, Phase
  <2>. QED
    BY <1>1, <2>1 DEF Deliver, TypeOK, history, bounds
<1>2. CASE Probe(w)
  <2>1. a \in Attempt /\ a.index \in Slots
    BY <1>2, <1>0 DEF Probe, Phase
  <2>2. CASE SlotFree(a.index)
    <3>1. Goes(w, "start") /\ a.phase \in Phase
      BY <1>2, <2>2 DEF Probe, Phase
    <3>2. worker' \in [Workers -> Attempt \cup {Idle}]
      BY <3>1, GoesTo DEF Phase
    <3>. QED
      BY <1>2, <2>2, <3>2 DEF Probe, TypeOK, history, bounds
  <2>3. CASE ~ SlotFree(a.index)
    <3>1. [a EXCEPT !.index = @ + 1] \in Attempt
      BY <2>1, TaskAssumption DEF Attempt, Slots
    <3>. QED
      BY <1>2, <2>3, <3>1 DEF Probe, TypeOK, history, bounds
  <2>. QED
    BY <2>2, <2>3
<1>3. CASE \/ Busy(w) \/ Launch(w) \/ LaunchFails(w) \/ ReadSlot(w)
  <2>1. PICK p \in Phase : a.phase \in Phase /\ Goes(w, p)
    BY <1>3 DEF Busy, Launch, LaunchFails, ReadSlot, Phase
  <2>. QED
    BY <1>3, <2>1, GoesTo
       DEF TypeOK, Busy, Launch, LaunchFails, ReadSlot, history, bounds
<1>4. CASE Advance(w)
  <2>1. PICK p \in Phase : a.phase \in Phase /\ Goes(w, p)
    BY <1>4 DEF Advance, Phase
  <2>. QED
    BY <1>4, <2>1, GoesTo DEF TypeOK, Advance, history, bounds
<1>5. CASE StartRun(w) \/ FailRun(w) \/ \E status \in {"ok", "failed"} : FinishRun(w, status)
  <2>1. PICK p \in Phase, r \in {"running", "ok", "failed"} :
          worker' = [worker EXCEPT ![w].phase = p, ![w].run = r]
    BY <1>5 DEF StartRun, FailRun, FinishRun, Phase
  <2>2. a \in Attempt
    BY <1>5, <1>0 DEF StartRun, FailRun, FinishRun, Phase
  <2>3. [a EXCEPT !.phase = p, !.run = r] \in Attempt
    BY <2>1, <2>2 DEF Attempt
  <2>. QED
    BY <1>5, <2>1, <2>2, <2>3 DEF TypeOK, StartRun, FailRun, FinishRun, history, bounds
<1>6. CASE DeleteSlot(w)
  <2>1. Goes(w, "settle") /\ a.phase \in Phase
    BY <1>6 DEF DeleteSlot, Phase
  <2>. QED
    BY <1>6, <2>1, GoesTo DEF DeleteSlot, TypeOK, history, bounds, Phase
<1>7. CASE Succeed(w) \/ Retry(w) \/ DeadLetter(w)
  <2>1. Goes(w, "ack") /\ a.phase \in Phase
    BY <1>7 DEF Succeed, Retry, DeadLetter, Fails, Phase
  <2>2. worker' \in [Workers -> Attempt \cup {Idle}]
    BY <2>1, GoesTo DEF Phase
  <2>3. CASE Succeed(w)
    BY <2>1, <2>2, <2>3, <1>0 DEF Succeed, Ends, TypeOK, TaskOf, bounds
  <2>4. CASE Retry(w)
    <3>1. RetryOf(a.message) \in Message
      BY <2>1, <2>4, <1>0, TaskAssumption DEF Retry, MayRetry, RetryOf, Message
    <3>. QED
      BY <2>1, <2>2, <2>4, <3>1, <1>0 DEF Retry, Fails, TypeOK, bounds
  <2>5. CASE DeadLetter(w)
    BY <2>1, <2>2, <2>5, <1>0 DEF DeadLetter, Fails, Ends, TypeOK, TaskOf, bounds
  <2>. QED
    BY <1>7, <2>3, <2>4, <2>5
<1>8. CASE Acknowledge(w)
  BY <1>8, LeavesIdle DEF Acknowledge, TypeOK, Phase, history, bounds
<1>. QED
  BY <1>1, <1>2, <1>3, <1>4, <1>5, <1>6, <1>7, <1>8 DEF WorkerStep

LEMMA TypeFault ==
  ASSUME TypeOK, NEW w \in Workers, WorkerFault(w)
  PROVE  TypeOK'
<1>. DEFINE a == worker[w]
<1>0. a.phase \in Phase => /\ a \in Attempt
                           /\ a.message \in Message
                           /\ a.message.task \in Tasks
                           /\ a.message.retries \in 0 .. MaxRetries
  BY AttemptOf DEF Attempt, Message
<1>b. ASSUME Fault \/ Breach
      PROVE  faults' \in 0 .. MaxFaults /\ breaches' \in 0 .. MaxBreaches
  BY <1>b, TaskAssumption DEF TypeOK, Fault, Breach
<1>1. CASE DeliverAgain(w)
  BY <1>1, <1>0, <1>b, AttemptOf DEF DeliverAgain, TypeOK, history
<1>2. CASE Crash(w)
  <2>1. a.phase \in Phase
    BY <1>2, AttemptOf DEF Crash
  <2>. QED
    BY <1>2, <2>1, <1>0, <1>b, LeavesIdle, OrphanedType DEF Crash, TypeOK, history
<1>3. CASE FallBack(w)
  <2>1. a \in Attempt
    BY <1>3, <1>0 DEF FallBack, Phase
  <2>2. [a EXCEPT !.phase = "start", !.index = Concurrency] \in Attempt
    <3>1. Concurrency \in 0 .. Concurrency /\ "start" \in Phase
      BY TaskAssumption DEF Phase
    <3>. QED
      BY <2>1, <3>1 DEF Attempt
  <2>. QED
    BY <1>3, <2>1, <2>2, <1>0, <1>b DEF FallBack, TypeOK, history, Phase
<1>4. CASE KeepSlot(w)
  <2>1. Goes(w, "settle") /\ a.phase \in Phase
    BY <1>4 DEF KeepSlot, Phase
  <2>. QED
    BY <1>4, <2>1, <1>b, GoesTo, OrphanedType DEF KeepSlot, TypeOK, history, Phase
<1>5. CASE StartFails(w) \/ FailRunFails(w)
  <2>1. Goes(w, "release") /\ a.phase \in Phase
    BY <1>5 DEF StartFails, FailRunFails, Phase
  <2>. QED
    BY <1>5, <2>1, <1>b, GoesTo DEF StartFails, FailRunFails, TypeOK, history, Phase
<1>6. CASE RetryDropped(w) \/ DeadLetterDropped(w)
  <2>1. Goes(w, "ack") /\ a.phase \in Phase
    BY <1>6 DEF RetryDropped, DeadLetterDropped, Fails, Phase
  <2>2. worker' \in [Workers -> Attempt \cup {Idle}]
    BY <2>1, GoesTo DEF Phase
  <2>. QED
    BY <1>6, <2>1, <2>2, <1>0, <1>b
       DEF RetryDropped, DeadLetterDropped, Fails, Ends, TypeOK, TaskOf
<1>. QED
  BY <1>1, <1>2, <1>3, <1>4, <1>5, <1>6 DEF WorkerFault

LEMMA TypeStep ==
  ASSUME TypeOK, [Next]_vars
  PROVE  TypeOK'
<1>1. ASSUME NEW t \in Tasks, Enqueue(t)
      PROVE  TypeOK'
  <2>1. [task |-> t, retries |-> 0] \in Message
    BY TaskAssumption DEF Message
  <2>. QED
    BY <1>1, <2>1 DEF Enqueue, TypeOK, history, bounds
<1>2. ASSUME NEW i \in Slots, Lapse(i) \/ ExpireOrphan(i)
      PROVE  TypeOK'
  BY <1>2, TaskAssumption DEF Lapse, ExpireOrphan, Breach, TypeOK, history, bounds
<1>3. CASE UNCHANGED vars
  BY <1>3 DEF vars, TypeOK
<1>. QED
  BY <1>1, <1>2, <1>3, TypeWorker, TypeFault DEF Next, Expiry

\* Every reachable state of the broker, the workers and the slots is well typed.
THEOREM TypeCorrect == Spec => []TypeOK
<1>. QED
  BY TypeInit, TypeStep, PTL DEF Spec

-----------------------------------------------------------------------------
(***************************************************************************)
(* Messages and failures.  A message with retry number r can only exist    *)
(* once the task failed at every number below r; and as long as a task has *)
(* no end, it has a message at the broker or an attempt that is yet to be  *)
(* settled, whatever became of its other messages.                         *)
(***************************************************************************)
FailedBefore(m) == \A r \in 0 .. MaxRetries : r < m.retries => r \in failed[m.task]

RetriesFailed ==
  /\ \A m \in queue : FailedBefore(m)
  /\ \A w \in Workers : worker[w].phase \in Phase => FailedBefore(worker[w].message)

Unsettled == Phase \ {"ack"}

Carried(t) ==
  \/ \E m \in queue : m.task = t
  \/ \E w \in Workers : worker[w].phase \in Unsettled /\ TaskOf(w) = t
  \/ ends[t] # {}

Bookkeeping ==
  /\ RetriesFailed
  /\ \A t \in enqueued : Carried(t)
  /\ DeadAfterAllRetries

\* An attempt that goes on keeps its message and settles nothing.
GoesOn(w) ==
  /\ worker[w].phase \in Unsettled /\ worker'[w].phase \in Unsettled
  /\ worker'[w].message = worker[w].message
  /\ \A v \in Workers : v # w => worker'[v] = worker[v]
  /\ UNCHANGED <<enqueued, queue, ends, failed>>

LEMMA PhaseParts == Unsettled \subseteq Phase /\ "ack" \in Phase /\ "ack" \notin Unsettled
BY DEF Unsettled, Phase

LEMMA Going ==
  ASSUME TypeOK, NEW w \in Workers,
         \/ Probe(w) \/ Busy(w) \/ FallBack(w)
         \/ StartRun(w) \/ StartFails(w) \/ Launch(w) \/ LaunchFails(w)
         \/ Advance(w) \/ (\E status \in {"ok", "failed"} : FinishRun(w, status))
         \/ FailRun(w) \/ FailRunFails(w)
         \/ ReadSlot(w) \/ DeleteSlot(w) \/ KeepSlot(w)
  PROVE  GoesOn(w)
<1>1. ASSUME worker[w].phase \in Unsettled, NEW p \in Unsettled, Goes(w, p),
             UNCHANGED <<enqueued, queue, ends, failed>>
      PROVE  GoesOn(w)
  BY <1>1, GoesTo, PhaseParts DEF GoesOn
<1>2. CASE Probe(w)
  <2>1. CASE Goes(w, "start")
    BY <1>1, <1>2, <2>1 DEF Probe, history, Unsettled, Phase
  <2>2. CASE worker' = [worker EXCEPT ![w].index = worker[w].index + 1]
    <3>1. worker[w].phase \in Unsettled
      BY <1>2 DEF Probe, Unsettled, Phase
    <3>2. worker[w] \in Attempt
      BY <3>1, AttemptOf, PhaseParts
    <3>. QED
      BY <1>2, <2>2, <3>1, <3>2 DEF Probe, history, GoesOn, TypeOK, Attempt
  <2>. QED
    BY <1>2, <2>1, <2>2 DEF Probe
<1>3. CASE FallBack(w)
  <2>1. worker[w].phase \in Unsettled /\ "start" \in Unsettled
    BY <1>3 DEF FallBack, Unsettled, Phase
  <2>2. worker[w] \in Attempt
    BY <2>1, AttemptOf, PhaseParts
  <2>. QED
    BY <1>3, <2>1, <2>2 DEF FallBack, history, GoesOn, TypeOK, Attempt
<1>4. CASE StartRun(w) \/ FailRun(w) \/ \E status \in {"ok", "failed"} : FinishRun(w, status)
  <2>1. PICK p \in Unsettled, r \in {"running", "ok", "failed"} :
          worker' = [worker EXCEPT ![w].phase = p, ![w].run = r]
    BY <1>4 DEF StartRun, FailRun, FinishRun, Unsettled, Phase
  <2>2. worker[w].phase \in Unsettled
    BY <1>4 DEF StartRun, FailRun, FinishRun, Unsettled, Phase
  <2>3. worker[w] \in Attempt
    BY <2>2, AttemptOf, PhaseParts
  <2>. QED
    BY <1>4, <2>1, <2>2, <2>3
       DEF StartRun, FailRun, FinishRun, GoesOn, TypeOK, Attempt, history
<1>5. CASE Busy(w) \/ Launch(w) \/ LaunchFails(w) \/ ReadSlot(w) \/ DeleteSlot(w) \/ KeepSlot(w)
  BY <1>1, <1>5
     DEF Busy, Launch, LaunchFails, ReadSlot, DeleteSlot, KeepSlot, history, Unsettled, Phase
<1>6. CASE Advance(w) \/ StartFails(w) \/ FailRunFails(w)
  BY <1>1, <1>6 DEF Advance, StartFails, FailRunFails, history, Unsettled, Phase
<1>. QED
  BY <1>2, <1>3, <1>4, <1>5, <1>6

LEMMA BookkeepingGoesOn ==
  ASSUME TypeOK, Bookkeeping, NEW w \in Workers, GoesOn(w)
  PROVE  Bookkeeping'
<1>1. RetriesFailed'
  BY PhaseParts DEF Bookkeeping, RetriesFailed, GoesOn, FailedBefore
<1>2. (\A t \in enqueued : Carried(t))'
  <2>. SUFFICES ASSUME NEW t \in enqueued
                PROVE  Carried(t)'
    BY DEF GoesOn
  <2>1. ASSUME NEW v \in Workers, worker[v].phase \in Unsettled, TaskOf(v) = t
        PROVE  worker'[v].phase \in Unsettled /\ TaskOf(v)' = t
    BY <2>1 DEF GoesOn, TaskOf
  <2>. QED
    BY <2>1 DEF Bookkeeping, Carried, GoesOn
<1>3. DeadAfterAllRetries'
  BY DEF Bookkeeping, DeadAfterAllRetries, GoesOn
<1>. QED
  BY <1>1, <1>2, <1>3 DEF Bookkeeping

LEMMA BookkeepingBroker ==
  ASSUME TypeOK, Bookkeeping, NEW w \in Workers,
         \/ \E m \in queue : Deliver(w, m)
         \/ DeliverAgain(w) \/ Crash(w) \/ Acknowledge(w)
  PROVE  Bookkeeping'
<1>1. ASSUME NEW m \in queue, Deliver(w, m)
      PROVE  Bookkeeping'
  <2>. DEFINE b == [phase |-> "acquire", message |-> m, index |-> 0, run |-> "none"]
  <2>1. /\ worker[w] = Idle
        /\ worker'[w] = b
        /\ \A v \in Workers : v # w => worker'[v] = worker[v]
        /\ queue' = queue \ {m}
        /\ UNCHANGED <<enqueued, ends, failed>>
    BY <1>1 DEF Deliver, TypeOK, history
  <2>2. b.phase \in Unsettled /\ b.message = m
    BY DEF Unsettled, Phase
  <2>3. worker[w].phase \notin Phase
    BY <2>1, AttemptOf
  <2>. HIDE DEF b
  <2>4. RetriesFailed'
    BY <2>1, <2>2 DEF Bookkeeping, RetriesFailed, FailedBefore
  <2>5. ASSUME NEW t \in enqueued
        PROVE  Carried(t)'
    BY <2>1, <2>2, <2>3, PhaseParts DEF Bookkeeping, Carried, TaskOf
  <2>. QED
    BY <2>1, <2>4, <2>5 DEF Bookkeeping, DeadAfterAllRetries
<1>2. CASE DeliverAgain(w)
  <2>1. worker[w].phase \in Phase
    BY <1>2, AttemptOf DEF DeliverAgain
  <2>2. /\ queue' = queue \cup {worker[w].message}
        /\ UNCHANGED <<enqueued, worker, ends, failed>>
    BY <1>2 DEF DeliverAgain, history
  <2>3. RetriesFailed'
    BY <2>1, <2>2 DEF Bookkeeping, RetriesFailed, FailedBefore
  <2>4. ASSUME NEW t \in enqueued
        PROVE  Carried(t)'
    BY <2>2 DEF Bookkeeping, Carried, TaskOf
  <2>. QED
    BY <2>2, <2>3, <2>4 DEF Bookkeeping, DeadAfterAllRetries
<1>3. CASE Crash(w)
  <2>1. worker[w].phase \in Phase
    BY <1>3, AttemptOf DEF Crash
  <2>2. /\ worker'[w] = Idle
        /\ \A v \in Workers : v # w => worker'[v] = worker[v]
        /\ queue' = queue \cup {worker[w].message}
        /\ UNCHANGED <<enqueued, ends, failed>>
    BY <1>3, <2>1, LeavesIdle DEF Crash, history
  <2>3. Idle.phase \notin Phase
    BY DEF Idle, Phase
  <2>4. RetriesFailed'
    BY <2>1, <2>2, <2>3 DEF Bookkeeping, RetriesFailed, FailedBefore
  <2>5. ASSUME NEW t \in enqueued
        PROVE  Carried(t)'
    BY <2>2 DEF Bookkeeping, Carried, TaskOf
  <2>. QED
    BY <2>2, <2>4, <2>5 DEF Bookkeeping, DeadAfterAllRetries
<1>4. CASE Acknowledge(w)
  <2>1. worker[w].phase = "ack"
    BY <1>4 DEF Acknowledge
  <2>2. /\ worker'[w] = Idle
        /\ \A v \in Workers : v # w => worker'[v] = worker[v]
        /\ UNCHANGED <<enqueued, queue, ends, failed>>
    BY <1>4, <2>1, LeavesIdle, PhaseParts DEF Acknowledge, history
  <2>3. Idle.phase \notin Phase
    BY DEF Idle, Phase
  <2>4. RetriesFailed'
    BY <2>2, <2>3 DEF Bookkeeping, RetriesFailed, FailedBefore
  <2>5. ASSUME NEW t \in enqueued
        PROVE  Carried(t)'
    BY <2>1, <2>2, PhaseParts DEF Bookkeeping, Carried, TaskOf
  <2>. QED
    BY <2>2, <2>4, <2>5 DEF Bookkeeping, DeadAfterAllRetries
<1>. QED
  BY <1>1, <1>2, <1>3, <1>4

\* A settled attempt has recorded its failure, and its task has an end or
\* a retry at the broker; only the last failure makes it dead.
LEMMA BookkeepingSettles ==
  ASSUME TypeOK, Bookkeeping, NEW w \in Workers,
         \/ Succeed(w) \/ Retry(w) \/ RetryDropped(w)
         \/ DeadLetter(w) \/ DeadLetterDropped(w)
  PROVE  Bookkeeping'
<1>. DEFINE m == worker[w].message
<1>1. /\ worker[w] \in Attempt /\ worker[w].phase \in Phase
      /\ m \in Message /\ m.task \in Tasks /\ m.retries \in 0 .. MaxRetries
  <2>1. worker[w].phase \in Phase
    BY DEF Succeed, Retry, RetryDropped, DeadLetter, DeadLetterDropped, Fails, Phase
  <2>. QED
    BY <2>1, AttemptOf DEF Attempt, Message
<1>2. /\ worker'[w].phase = "ack" /\ worker'[w].message = m
      /\ \A v \in Workers : v # w => worker'[v] = worker[v]
  <2>1. Goes(w, "ack")
    BY DEF Succeed, Retry, RetryDropped, DeadLetter, DeadLetterDropped
  <2>. QED
    BY <1>1, <2>1, PhaseParts, GoesTo
<1>3. UNCHANGED enqueued
  BY DEF Succeed, Retry, RetryDropped, DeadLetter, DeadLetterDropped, Fails
<1>4. \/ Succeed(w) /\ UNCHANGED failed
      \/ failed' = [failed EXCEPT ![m.task] = @ \cup {m.retries}]
  BY DEF Succeed, Retry, RetryDropped, DeadLetter, DeadLetterDropped, Fails
<1>5. \A t \in Tasks : failed[t] \subseteq failed'[t]
  BY <1>4, <1>1 DEF TypeOK
<1>6. /\ \/ queue' = queue /\ ends'[m.task] # {}
         \/ Retry(w) /\ queue' = queue \cup {RetryOf(m)} /\ ends' = ends
      /\ \A t \in Tasks : t # m.task => ends'[t] = ends[t]
      /\ \A t \in Tasks : ends[t] # {} => ends'[t] # {}
  <2>1. CASE Retry(w)
    BY <2>1 DEF Retry
  <2>2. CASE ~ Retry(w)
    <3>1. PICK how \in {"succeeded", "dropped", "dead"} : Ends(m.task, how)
      BY <2>2 DEF Succeed, RetryDropped, DeadLetter, DeadLetterDropped, TaskOf
    <3>2. queue' = queue
      BY <2>2 DEF Succeed, RetryDropped, DeadLetter, DeadLetterDropped
    <3>3. /\ how \in ends'[m.task]
          /\ \A t \in Tasks : t # m.task => ends'[t] = ends[t]
          /\ ends[m.task] \subseteq ends'[m.task]
      BY <3>1, <1>1 DEF Ends, TypeOK
    <3>. QED
      BY <3>2, <3>3
  <2>. QED
    BY <2>1, <2>2
<1>7. RetryOf(m).task = m.task /\ RetryOf(m).retries = m.retries + 1
  BY <1>1 DEF RetryOf, Message
<1>. HIDE DEF m
<1>8. RetriesFailed'
  <2>1. ASSUME NEW n \in Message, FailedBefore(n)
        PROVE  FailedBefore(n)'
    BY <2>1, <1>5 DEF FailedBefore, Message
  <2>2. ASSUME Retry(w), NEW r \in 0 .. MaxRetries, r < m.retries + 1
        PROVE  r \in failed'[m.task]
    <3>2. failed' = [failed EXCEPT ![m.task] = @ \cup {m.retries}]
      BY <2>2 DEF Retry, Fails, m
    <3>3. r < m.retries => r \in failed[m.task]
      BY <1>1, PhaseParts DEF Bookkeeping, RetriesFailed, FailedBefore, m
    <3>4. r < m.retries \/ r = m.retries
      BY <2>2, <1>1, TaskAssumption
    <3>. QED
      BY <3>2, <3>3, <3>4, <1>1 DEF TypeOK
  <2>3. ASSUME NEW n \in queue'
        PROVE  FailedBefore(n)'
    <3>1. CASE n \in queue
      BY <3>1, <2>1 DEF Bookkeeping, RetriesFailed, TypeOK
    <3>2. CASE Retry(w) /\ n = RetryOf(m)
      BY <3>2, <2>2, <1>7 DEF FailedBefore
    <3>. QED
      BY <3>1, <3>2, <1>6
  <2>4. ASSUME NEW v \in Workers, worker'[v].phase \in Phase
        PROVE  FailedBefore(worker[v].message)'
    <3>1. worker[v].phase \in Phase /\ worker'[v].message = worker[v].message
      BY <2>4, <1>1, <1>2 DEF m
    <3>2. worker[v].message \in Message
      BY <3>1, AttemptOf DEF Attempt
    <3>3. FailedBefore(worker[v].message)
      BY <3>1 DEF Bookkeeping, RetriesFailed
    <3>. QED
      BY <3>1, <3>2, <3>3, <2>1 DEF FailedBefore
  <2>. QED
    BY <2>3, <2>4 DEF RetriesFailed
<1>9. ASSUME NEW t \in enqueued
      PROVE  Carried(t)'
  <2>1. t \in Tasks
    BY DEF TypeOK
  <2>2. CASE t = m.task
    BY <2>2, <1>6, <1>7 DEF Carried
  <2>3. CASE t # m.task
    BY <2>1, <2>3, <1>2, <1>6 DEF Bookkeeping, Carried, TaskOf, m
  <2>. QED
    BY <2>2, <2>3
<1>10. DeadAfterAllRetries'
  <2>. SUFFICES ASSUME NEW t \in Tasks, "dead" \in ends'[t]
                PROVE  failed'[t] = 0 .. MaxRetries
    BY DEF DeadAfterAllRetries
  <2>1. failed'[t] \subseteq 0 .. MaxRetries
    BY <1>1, <1>4 DEF TypeOK
  <2>2. CASE "dead" \in ends[t]
    BY <2>1, <2>2, <1>5 DEF Bookkeeping, DeadAfterAllRetries
  <2>3. CASE "dead" \notin ends[t]
    <3>1. DeadLetter(w) /\ t = m.task
      BY <2>3, <1>1, <1>6
         DEF Succeed, Retry, RetryDropped, DeadLetter, DeadLetterDropped, Ends, TaskOf, TypeOK, m
    <3>2. failed' = [failed EXCEPT ![m.task] = @ \cup {m.retries}]
      BY <3>1 DEF DeadLetter, Fails, m
    <3>3. m.retries = MaxRetries
      BY <3>1, <1>1, TaskAssumption DEF DeadLetter, MayRetry, m
    <3>4. ASSUME NEW r \in 0 .. MaxRetries, r # MaxRetries
          PROVE  r \in failed[t]
      <4>1. r < m.retries
        BY <3>3, <3>4, TaskAssumption
      <4>. QED
        BY <4>1, <3>1, <1>1 DEF Bookkeeping, RetriesFailed, FailedBefore, m
    <3>. QED
      BY <2>1, <3>1, <3>2, <3>3, <3>4, <1>1 DEF TypeOK
  <2>. QED
    BY <2>2, <2>3
<1>. QED
  BY <1>3, <1>8, <1>9, <1>10 DEF Bookkeeping

LEMMA BookkeepingStep ==
  ASSUME TypeOK, Bookkeeping, [Next]_vars
  PROVE  Bookkeeping'
<1>1. ASSUME NEW t \in Tasks, Enqueue(t)
      PROVE  Bookkeeping'
  <2>. DEFINE n == [task |-> t, retries |-> 0]
  <2>1. /\ enqueued' = enqueued \cup {t}
        /\ queue' = queue \cup {n}
        /\ UNCHANGED <<worker, ends, failed>>
    BY <1>1 DEF Enqueue, history
  <2>2. n.task = t /\ n.retries = 0
    OBVIOUS
  <2>. HIDE DEF n
  <2>3. FailedBefore(n)'
    BY <2>2, TaskAssumption DEF FailedBefore
  <2>4. RetriesFailed'
    BY <2>1, <2>3 DEF Bookkeeping, RetriesFailed, FailedBefore
  <2>5. ASSUME NEW u \in enqueued'
        PROVE  Carried(u)'
    BY <2>1, <2>2 DEF Bookkeeping, Carried, TaskOf
  <2>. QED
    BY <2>1, <2>4, <2>5 DEF Bookkeeping, DeadAfterAllRetries
<1>2. ASSUME UNCHANGED <<enqueued, queue, worker, ends, failed>>
      PROVE  Bookkeeping'
  BY <1>2 DEF Bookkeeping, RetriesFailed, FailedBefore, Carried, TaskOf, DeadAfterAllRetries
<1>3. ASSUME NEW w \in Workers, WorkerStep(w) \/ WorkerFault(w)
      PROVE  Bookkeeping'
  BY <1>3, Going, BookkeepingGoesOn, BookkeepingBroker, BookkeepingSettles
     DEF WorkerStep, WorkerFault
<1>4. ASSUME NEW i \in Slots, Lapse(i) \/ ExpireOrphan(i)
      PROVE  Bookkeeping'
  BY <1>2, <1>4 DEF Lapse, ExpireOrphan, history
<1>5. CASE UNCHANGED vars
  BY <1>2, <1>5 DEF vars
<1>. QED
  BY <1>1, <1>3, <1>4, <1>5 DEF Next, Expiry

LEMMA BookkeepingInit == Init => Bookkeeping
<1>1. Idle.phase \notin Phase
  BY DEF Idle, Phase
<1>. QED
  BY <1>1 DEF Init, Bookkeeping, RetriesFailed, DeadAfterAllRetries

LEMMA BookkeepingAlways == Spec => []Bookkeeping
<1>. QED
  BY BookkeepingInit, BookkeepingStep, TypeCorrect, PTL DEF Spec

\* No way through the handlers of collect_source_task loses a task: it is at
\* the broker, with a worker, or has an end.
THEOREM TasksKept == Spec => []NothingForgotten
<1>1. TypeOK /\ Bookkeeping => NothingForgotten
  BY AttemptOf, PhaseParts DEF Bookkeeping, Carried, NothingForgotten
<1>. QED
  BY <1>1, TypeCorrect, BookkeepingAlways, PTL

\* A task is dead-lettered only after it failed at the first attempt and at
\* every retry, in spite of second deliveries and lost workers.
THEOREM DeadLettersEarned == Spec => []DeadAfterAllRetries
<1>1. Bookkeeping => DeadAfterAllRetries
  BY DEF Bookkeeping
<1>. QED
  BY <1>1, BookkeepingAlways, PTL

-----------------------------------------------------------------------------
(***************************************************************************)
(* Source runs.  Until something breaks, an attempt has ended its run      *)
(* before it gives its slot back.                                          *)
(***************************************************************************)
Running == {"launch", "browse", "ingest", "finish", "erring"}

RunsOpen ==
  faults = 0 =>
    /\ ghosts = {}
    /\ \A w \in Workers : worker[w].phase \in Phase /\ worker[w].run = "running" =>
         worker[w].phase \in Running

LEMMA RunsWorker ==
  ASSUME TypeOK, RunsOpen, NEW w \in Workers, WorkerStep(w), faults' = 0
  PROVE  RunsOpen'
<1>0. /\ faults = 0
      /\ worker[w].phase \in Phase => worker[w] \in Attempt
  BY AttemptOf DEF WorkerStep, Deliver, Probe, Busy, StartRun, Launch, LaunchFails, Advance,
     FinishRun, FailRun, ReadSlot, DeleteSlot, Succeed, Retry, DeadLetter, Fails,
     Acknowledge, bounds
<1>1. ASSUME UNCHANGED ghosts, \A v \in Workers : v # w => worker'[v] = worker[v],
             worker'[w].phase \in Phase /\ worker'[w].run = "running" =>
               worker'[w].phase \in Running
      PROVE  RunsOpen'
  BY <1>0, <1>1 DEF RunsOpen
<1>2. ASSUME NEW p \in Phase, Goes(w, p), worker[w].phase \in Phase, UNCHANGED ghosts,
             worker[w].phase \in Running => p \in Running
      PROVE  RunsOpen'
  BY <1>0, <1>1, <1>2, GoesTo DEF RunsOpen
<1>3. ASSUME NEW m \in queue, Deliver(w, m)
      PROVE  RunsOpen'
  <2>1. worker'[w].run = "none" /\ \A v \in Workers : v # w => worker'[v] = worker[v]
    BY <1>3 DEF Deliver, TypeOK
  <2>. QED
    BY <1>1, <1>3, <2>1 DEF Deliver
<1>4. CASE Probe(w)
  <2>1. CASE Goes(w, "start")
    BY <1>2, <1>4, <2>1 DEF Probe, Phase, Running
  <2>2. CASE worker' = [worker EXCEPT ![w].index = worker[w].index + 1]
    <3>1. worker[w] \in Attempt
      BY <1>0, <1>4 DEF Probe, Phase
    <3>2. /\ worker'[w].phase = worker[w].phase /\ worker'[w].run = worker[w].run
          /\ \A v \in Workers : v # w => worker'[v] = worker[v]
      BY <2>2, <3>1 DEF TypeOK, Attempt
    <3>. QED
      BY <1>0, <1>1, <1>4, <3>2 DEF Probe, RunsOpen
  <2>. QED
    BY <1>4, <2>1, <2>2 DEF Probe
<1>5. CASE StartRun(w) \/ FailRun(w) \/ \E status \in {"ok", "failed"} : FinishRun(w, status)
  <2>1. PICK p \in Phase, r \in {"running", "ok", "failed"} :
          /\ worker' = [worker EXCEPT ![w].phase = p, ![w].run = r]
          /\ r = "running" => p \in Running
    BY <1>5 DEF StartRun, FailRun, FinishRun, Phase, Running
  <2>2. worker[w] \in Attempt
    BY <1>0, <1>5 DEF StartRun, FailRun, FinishRun, Phase
  <2>3. /\ worker'[w].phase = p /\ worker'[w].run = r
        /\ \A v \in Workers : v # w => worker'[v] = worker[v]
    BY <2>1, <2>2 DEF TypeOK, Attempt
  <2>. QED
    BY <1>1, <1>5, <2>1, <2>3 DEF StartRun, FailRun, FinishRun
<1>6. CASE Busy(w) \/ Launch(w) \/ LaunchFails(w) \/ Advance(w) \/ ReadSlot(w) \/ DeleteSlot(w)
  BY <1>2, <1>6 DEF Busy, Launch, LaunchFails, Advance, ReadSlot, DeleteSlot, Phase, Running
<1>7. CASE Succeed(w) \/ Retry(w) \/ DeadLetter(w)
  BY <1>2, <1>7 DEF Succeed, Retry, DeadLetter, Fails, Phase, Running
<1>8. CASE Acknowledge(w)
  <2>1. worker[w].phase \in Phase /\ worker[w].phase \notin Running
    BY <1>8 DEF Acknowledge, Phase, Running
  <2>2. worker[w].run # "running" /\ Leaves(w)
    BY <1>0, <1>8, <2>1 DEF RunsOpen, Acknowledge
  <2>3. Idle.phase \notin Phase
    BY DEF Idle, Phase
  <2>. QED
    BY <1>1, <2>1, <2>2, <2>3, LeavesIdle
<1>. QED
  BY <1>3, <1>4, <1>5, <1>6, <1>7, <1>8 DEF WorkerStep

LEMMA RunsStep ==
  ASSUME TypeOK, RunsOpen, [Next]_vars
  PROVE  RunsOpen'
<1>1. ASSUME NEW w \in Workers, WorkerStep(w)
      PROVE  RunsOpen'
  BY <1>1, RunsWorker DEF RunsOpen
<1>2. ASSUME NEW w \in Workers, FallBack(w)
      PROVE  RunsOpen'
  <2>1. worker[w] \in Attempt /\ worker[w].phase \in Phase /\ worker[w].phase \notin Running
    BY <1>2, AttemptOf DEF FallBack, Phase, Running
  <2>2. /\ worker'[w].run = worker[w].run
        /\ \A v \in Workers : v # w => worker'[v] = worker[v]
    BY <1>2, <2>1 DEF FallBack, TypeOK, Attempt
  <2>. QED
    BY <1>2, <2>1, <2>2 DEF FallBack, Breach, RunsOpen
<1>3. ASSUME NEW w \in Workers, WorkerFault(w), ~ FallBack(w)
      PROVE  RunsOpen'
  <2>1. faults' = faults + 1
    BY <1>3 DEF WorkerFault, DeliverAgain, Crash, KeepSlot, StartFails, FailRunFails,
                RetryDropped, DeadLetterDropped, Fault
  <2>2. faults' # 0
    BY <2>1, TaskAssumption DEF TypeOK
  <2>. QED
    BY <2>2 DEF RunsOpen
<1>4. ASSUME UNCHANGED <<worker, ghosts, faults>>
      PROVE  RunsOpen'
  BY <1>4 DEF RunsOpen
<1>5. ASSUME NEW t \in Tasks, Enqueue(t)
      PROVE  RunsOpen'
  BY <1>4, <1>5 DEF Enqueue, bounds
<1>6. ASSUME NEW i \in Slots, Lapse(i) \/ ExpireOrphan(i)
      PROVE  RunsOpen'
  BY <1>4, <1>6 DEF Lapse, ExpireOrphan, Breach, bounds
<1>7. CASE UNCHANGED vars
  BY <1>4, <1>7 DEF vars
<1>. QED
  BY <1>1, <1>2, <1>3, <1>5, <1>6, <1>7 DEF Next, Expiry

\* Only a lost worker or a database error leaves a source run "running"
\* after its attempt (collect_source).
THEOREM RunsEnded == Spec => []RunsEnd
<1>1. Init => RunsOpen
  BY DEF Init, RunsOpen, Idle, Phase
<1>2. RunsOpen => RunsEnd
  BY DEF RunsOpen, RunsEnd
<1>. QED
  BY <1>1, <1>2, RunsStep, TypeCorrect, PTL DEF Spec

-----------------------------------------------------------------------------
(***************************************************************************)
(* Browsers and slots.  An attempt past browser_slot's entry holds the key *)
(* of its slot, or it is keyless: its key expired, was deleted by another, *)
(* or was never taken.  Only a breach adds a keyless attempt; a release    *)
(* that deletes the key of another makes one and ends one.                 *)
(***************************************************************************)
Inside == {"start", "launch", "browse", "ingest", "finish", "erring", "release", "delete"}

KeysHeld ==
  \A i \in Slots : slot[i] \in Workers =>
    worker[slot[i]].phase \in Inside /\ worker[slot[i]].index = i

Keyless == {w \in Workers : worker[w].phase \in Inside /\ ~ HoldsSlot(w)}

SlotsCounted == KeysHeld /\ Cardinality(Keyless) <= breaches

LEMMA KeylessFinite == IsFiniteSet(Keyless) /\ Cardinality(Keyless) \in Nat
BY FS_Subset, FS_CardinalityType, TaskAssumption DEF Keyless

LEMMA InsideParts ==
  /\ Inside \subseteq Phase
  /\ "idle" \notin Inside /\ "acquire" \notin Inside /\ "settle" \notin Inside /\ "ack" \notin Inside
BY DEF Inside, Phase

LEMMA FewerKeyless ==
  ASSUME TypeOK, SlotsCounted, KeysHeld', UNCHANGED breaches, Keyless' \subseteq Keyless
  PROVE  SlotsCounted'
<1>1. Cardinality(Keyless') <= Cardinality(Keyless)
  BY KeylessFinite, FS_Subset
<1>2. Cardinality(Keyless') \in Nat
  BY KeylessFinite, FS_Subset, FS_CardinalityType
<1>. QED
  BY <1>1, <1>2, KeylessFinite, TaskAssumption DEF SlotsCounted, TypeOK

LEMMA OneMoreKeyless ==
  ASSUME TypeOK, SlotsCounted, KeysHeld', Breach, NEW w, Keyless' \subseteq Keyless \cup {w}
  PROVE  SlotsCounted'
<1>1. IsFiniteSet(Keyless \cup {w}) /\ Cardinality(Keyless \cup {w}) <= Cardinality(Keyless) + 1
  BY KeylessFinite, FS_AddElement
<1>2. IsFiniteSet(Keyless') /\ Cardinality(Keyless') <= Cardinality(Keyless \cup {w})
  BY <1>1, FS_Subset
<1>3. Cardinality(Keyless') \in Nat /\ Cardinality(Keyless \cup {w}) \in Nat
  BY <1>1, <1>2, FS_CardinalityType
<1>. QED
  BY <1>1, <1>2, <1>3, KeylessFinite, TaskAssumption DEF SlotsCounted, TypeOK, Breach

LEMMA OtherKeyless ==
  ASSUME TypeOK, SlotsCounted, KeysHeld', UNCHANGED breaches,
         NEW w \in Keyless, NEW v, Keyless' \subseteq (Keyless \ {w}) \cup {v}
  PROVE  SlotsCounted'
<1>. DEFINE J == Keyless \ {w}
            K == J \cup {v}
<1>1. IsFiniteSet(J) /\ Cardinality(J) = Cardinality(Keyless) - 1 /\ Cardinality(J) \in Nat
  <2>1. IsFiniteSet(J) /\ Cardinality(J) = Cardinality(Keyless) - 1
    BY KeylessFinite, FS_RemoveElement
  <2>. QED
    BY <2>1, FS_CardinalityType
<1>. HIDE DEF J
<1>2. IsFiniteSet(K) /\ Cardinality(K) <= Cardinality(J) + 1 /\ Cardinality(K) \in Nat
  <2>1. /\ IsFiniteSet(K)
        /\ Cardinality(K) = IF v \in J THEN Cardinality(J) ELSE Cardinality(J) + 1
    BY <1>1, FS_AddElement
  <2>. QED
    BY <1>1, <2>1
<1>3. Keyless' \subseteq K
  BY DEF J
<1>. HIDE DEF K
<1>4. Cardinality(Keyless') <= Cardinality(K) /\ Cardinality(Keyless') \in Nat
  BY <1>2, <1>3, FS_Subset, FS_CardinalityType
<1>. QED
  BY <1>1, <1>2, <1>4, KeylessFinite, TaskAssumption DEF SlotsCounted, TypeOK

\* A step of one attempt that leaves the slots alone, and stays inside with
\* its index, stays outside, or leaves without a key.
LEMMA SlotsQuiet ==
  ASSUME TypeOK, SlotsCounted, NEW w \in Workers, UNCHANGED <<slot, breaches>>,
         \A v \in Workers : v # w => worker'[v] = worker[v],
         \/ /\ worker[w].phase \in Inside
            /\ worker'[w].phase \in Inside
            /\ worker'[w].index = worker[w].index
         \/ /\ worker[w].phase \notin Inside \/ ~ HoldsSlot(w)
            /\ worker'[w].phase \notin Inside
  PROVE  SlotsCounted'
<1>1. KeysHeld'
  <2>. SUFFICES ASSUME NEW i \in Slots, slot[i] \in Workers
                PROVE  worker'[slot[i]].phase \in Inside /\ worker'[slot[i]].index = i
    BY DEF KeysHeld, Slots
  <2>1. worker[slot[i]].phase \in Inside /\ worker[slot[i]].index = i
    BY DEF SlotsCounted, KeysHeld
  <2>. QED
    BY <2>1 DEF HoldsSlot
<1>2. Keyless' \subseteq Keyless
  BY DEF Keyless, HoldsSlot, Slots
<1>. QED
  BY <1>1, <1>2, FewerKeyless

LEMMA SlotsGoes ==
  ASSUME TypeOK, SlotsCounted, NEW w \in Workers, worker[w].phase \in Phase,
         NEW p \in Phase, Goes(w, p), UNCHANGED <<slot, breaches>>,
         \/ worker[w].phase \in Inside /\ p \in Inside
         \/ p \notin Inside /\ (worker[w].phase \notin Inside \/ ~ HoldsSlot(w))
  PROVE  SlotsCounted'
BY SlotsQuiet, GoesTo

\* The steps that leave the slots alone.
LEMMA SlotsKept ==
  ASSUME TypeOK, SlotsCounted, NEW w \in Workers,
         \/ (\E m \in queue : Deliver(w, m)) \/ Busy(w)
         \/ StartRun(w) \/ StartFails(w) \/ Launch(w) \/ LaunchFails(w) \/ Advance(w)
         \/ (\E status \in {"ok", "failed"} : FinishRun(w, status))
         \/ FailRun(w) \/ FailRunFails(w) \/ ReadSlot(w)
         \/ Succeed(w) \/ Retry(w) \/ RetryDropped(w) \/ DeadLetter(w) \/ DeadLetterDropped(w)
         \/ Acknowledge(w)
  PROVE  SlotsCounted'
<1>1. ASSUME NEW m \in queue, Deliver(w, m)
      PROVE  SlotsCounted'
  <2>1. /\ worker[w].phase = "idle" /\ worker'[w].phase = "acquire"
        /\ \A v \in Workers : v # w => worker'[v] = worker[v]
        /\ UNCHANGED <<slot, breaches>>
    BY <1>1 DEF Deliver, TypeOK, Idle, bounds
  <2>. QED
    BY <2>1, SlotsQuiet, InsideParts
<1>2. CASE StartRun(w) \/ FailRun(w) \/ \E status \in {"ok", "failed"} : FinishRun(w, status)
  <2>1. PICK p \in Inside, r \in {"running", "ok", "failed"} :
          worker' = [worker EXCEPT ![w].phase = p, ![w].run = r]
    BY <1>2 DEF StartRun, FailRun, FinishRun, Inside
  <2>2. /\ worker[w].phase \in Inside
        /\ UNCHANGED <<slot, breaches>>
    BY <1>2 DEF StartRun, FailRun, FinishRun, Inside, bounds
  <2>3. worker[w] \in Attempt
    BY <2>2, AttemptOf, InsideParts
  <2>4. /\ worker'[w].phase = p /\ worker'[w].index = worker[w].index
        /\ \A v \in Workers : v # w => worker'[v] = worker[v]
    BY <2>1, <2>3 DEF TypeOK, Attempt
  <2>. QED
    BY <2>2, <2>4, SlotsQuiet
<1>3. CASE Busy(w) \/ StartFails(w) \/ Launch(w) \/ LaunchFails(w) \/ Advance(w) \/ FailRunFails(w)
  BY <1>3, SlotsGoes
     DEF Busy, StartFails, Launch, LaunchFails, Advance, FailRunFails, Fault, bounds, Inside, Phase
<1>4. CASE ReadSlot(w)
  BY <1>4, SlotsGoes DEF ReadSlot, bounds, Inside, Phase
<1>5. CASE Succeed(w) \/ Retry(w) \/ RetryDropped(w) \/ DeadLetter(w) \/ DeadLetterDropped(w)
  BY <1>5, SlotsGoes
     DEF Succeed, Retry, RetryDropped, DeadLetter, DeadLetterDropped, Fails, Fault, bounds, Inside, Phase
<1>6. CASE Acknowledge(w)
  <2>1. /\ worker[w].phase = "ack" /\ worker[w].phase \in Phase /\ Leaves(w)
        /\ UNCHANGED <<slot, breaches>>
    BY <1>6 DEF Acknowledge, bounds, Phase
  <2>2. Idle.phase = "idle"
    BY DEF Idle
  <2>. QED
    BY <2>1, <2>2, LeavesIdle, SlotsQuiet, InsideParts
<1>. QED
  BY <1>1, <1>2, <1>3, <1>4, <1>5, <1>6

\* A worker that is lost, or fails to give its slot back, orphans its key.
LEMMA SlotsOrphaned ==
  ASSUME TypeOK, SlotsCounted, NEW w \in Workers, slot' = Orphaned(w), UNCHANGED breaches,
         worker'[w].phase \notin Inside,
         \A v \in Workers : v # w => worker'[v] = worker[v]
  PROVE  SlotsCounted'
<1>1. KeysHeld'
  BY TaskAssumption DEF SlotsCounted, KeysHeld, Orphaned, Slots, TypeOK
<1>2. Keyless' \subseteq Keyless
  BY TaskAssumption DEF Keyless, HoldsSlot, Orphaned, Slots, TypeOK
<1>. QED
  BY <1>1, <1>2, FewerKeyless

LEMMA SlotsProbe ==
  ASSUME TypeOK, SlotsCounted, NEW w \in Workers, Probe(w)
  PROVE  SlotsCounted'
<1>. DEFINE i == worker[w].index
<1>1. /\ worker[w].phase = "acquire" /\ worker[w] \in Attempt /\ i \in Slots
      /\ worker[w].phase \in Phase /\ UNCHANGED breaches
  BY AttemptOf DEF Probe, Phase, bounds
<1>2. CASE SlotFree(i)
  <2>1. /\ slot' = [slot EXCEPT ![i] = w] /\ slot[i] = "free"
        /\ Goes(w, "start") /\ "start" \in Inside /\ "start" \in Phase
    BY <1>2 DEF Probe, SlotFree, Inside, Phase
  <2>2. /\ worker'[w].phase = "start" /\ worker'[w].index = i
        /\ \A v \in Workers : v # w => worker'[v] = worker[v]
    BY <1>1, <2>1, GoesTo
  <2>. HIDE DEF i
  <2>3. \A j \in Slots : slot'[j] = IF j = i THEN w ELSE slot[j]
    BY <2>1, <1>1 DEF TypeOK
  <2>4. KeysHeld'
    <3>. SUFFICES ASSUME NEW j \in Slots, slot'[j] \in Workers
                  PROVE  worker'[slot'[j]].phase \in Inside /\ worker'[slot'[j]].index = j
      BY DEF KeysHeld, Slots
    <3>1. CASE j = i
      BY <3>1, <2>1, <2>2, <2>3
    <3>2. CASE j # i
      <4>1. slot'[j] = slot[j]
        BY <3>2, <2>3
      <4>2. worker[slot[j]].phase \in Inside /\ worker[slot[j]].index = j
        BY <4>1 DEF SlotsCounted, KeysHeld
      <4>3. slot[j] # w
        BY <4>2, <1>1, InsideParts
      <4>. QED
        BY <4>1, <4>2, <4>3, <2>2
    <3>. QED
      BY <3>1, <3>2
  <2>5. "free" \notin Workers
    BY TaskAssumption
  <2>6. Keyless' \subseteq Keyless
    BY <1>1, <2>1, <2>2, <2>3, <2>5 DEF Keyless, HoldsSlot, Slots
  <2>. QED
    BY <1>1, <2>4, <2>6, FewerKeyless
<1>3. CASE ~ SlotFree(i)
  <2>1. /\ worker'[w].phase = "acquire" /\ UNCHANGED slot
        /\ \A v \in Workers : v # w => worker'[v] = worker[v]
    BY <1>1, <1>3 DEF Probe, TypeOK, Attempt
  <2>. QED
    BY <1>1, <2>1, SlotsQuiet, InsideParts
<1>. QED
  BY <1>2, <1>3

\* Whoever holds the key is the one to lose it: the attempt that deletes it,
\* or another, which takes the place of that one among the keyless.
LEMMA SlotsDelete ==
  ASSUME TypeOK, SlotsCounted, NEW w \in Workers, DeleteSlot(w)
  PROVE  SlotsCounted'
<1>. DEFINE i == worker[w].index
<1>1. /\ worker[w].phase = "delete" /\ worker[w].phase \in Phase /\ worker[w].phase \in Inside
      /\ Goes(w, "settle") /\ "settle" \in Phase
      /\ slot' = [slot EXCEPT ![i] = "free"] /\ UNCHANGED breaches
  BY DEF DeleteSlot, Phase, Inside, bounds
<1>2. /\ worker'[w].phase \notin Inside
      /\ \A v \in Workers : v # w => worker'[v] = worker[v]
  BY <1>1, GoesTo, InsideParts
<1>. HIDE DEF i
<1>3. \A j \in Slots : slot'[j] = IF j = i THEN "free" ELSE slot[j]
  BY <1>1 DEF TypeOK
<1>4. "free" \notin Workers
  BY TaskAssumption
<1>5. KeysHeld'
  <2>. SUFFICES ASSUME NEW j \in Slots, slot'[j] \in Workers
                PROVE  worker'[slot'[j]].phase \in Inside /\ worker'[slot'[j]].index = j
    BY DEF KeysHeld, Slots
  <2>1. slot'[j] = slot[j] /\ j # i
    BY <1>3, <1>4
  <2>2. worker[slot[j]].phase \in Inside /\ worker[slot[j]].index = j
    BY <2>1 DEF SlotsCounted, KeysHeld
  <2>3. slot[j] # w
    BY <2>1, <2>2 DEF i
  <2>. QED
    BY <2>1, <2>2, <2>3, <1>2
<1>6. ASSUME NEW v \in Keyless', v \notin Keyless
      PROVE  i \in Slots /\ v = slot[i] /\ v # w
  BY <1>2, <1>3, <1>6 DEF Keyless, HoldsSlot, Slots
<1>7. w \notin Keyless'
  BY <1>2 DEF Keyless
<1>8. CASE w \in Keyless
  BY <1>1, <1>5, <1>6, <1>7, <1>8, OtherKeyless
<1>9. CASE w \notin Keyless
  <2>1. i \in Slots /\ slot[i] = w
    BY <1>1, <1>9 DEF Keyless, HoldsSlot, i
  <2>2. Keyless' \subseteq Keyless
    BY <1>6, <2>1
  <2>. QED
    BY <1>1, <1>5, <2>2, FewerKeyless
<1>. QED
  BY <1>8, <1>9

\* The breaches: a key expires under its holder, or Redis cannot be reached.
LEMMA SlotsLapse ==
  ASSUME TypeOK, SlotsCounted, NEW i \in Slots, Lapse(i)
  PROVE  SlotsCounted'
<1>1. /\ \A j \in Slots : slot'[j] = IF j = i THEN "free" ELSE slot[j]
      /\ UNCHANGED worker /\ Breach
  BY DEF Lapse, TypeOK
<1>2. "free" \notin Workers
  BY TaskAssumption
<1>3. KeysHeld'
  BY <1>1, <1>2 DEF SlotsCounted, KeysHeld, Slots
<1>4. Keyless' \subseteq Keyless \cup {slot[i]}
  BY <1>1 DEF Keyless, HoldsSlot, Slots
<1>. QED
  BY <1>1, <1>3, <1>4, OneMoreKeyless

LEMMA SlotsFallBack ==
  ASSUME TypeOK, SlotsCounted, NEW w \in Workers, FallBack(w)
  PROVE  SlotsCounted'
<1>1. /\ worker[w].phase = "acquire" /\ worker[w] \in Attempt
      /\ UNCHANGED slot /\ Breach
  BY AttemptOf DEF FallBack, Phase
<1>2. \A v \in Workers : v # w => worker'[v] = worker[v]
  BY DEF FallBack, TypeOK
<1>3. KeysHeld'
  <2>. SUFFICES ASSUME NEW j \in Slots, slot[j] \in Workers
                PROVE  worker'[slot[j]].phase \in Inside /\ worker'[slot[j]].index = j
    BY <1>1 DEF KeysHeld, Slots
  <2>1. worker[slot[j]].phase \in Inside /\ worker[slot[j]].index = j
    BY DEF SlotsCounted, KeysHeld
  <2>. QED
    BY <1>1, <1>2, <2>1, InsideParts
<1>4. Keyless' \subseteq Keyless \cup {w}
  BY <1>1, <1>2 DEF Keyless, HoldsSlot, Slots
<1>. QED
  BY <1>1, <1>3, <1>4, OneMoreKeyless

LEMMA SlotsStep ==
  ASSUME TypeOK, SlotsCounted, [Next]_vars
  PROVE  SlotsCounted'
<1>1. ASSUME UNCHANGED <<worker, slot, breaches>>
      PROVE  SlotsCounted'
  BY <1>1 DEF SlotsCounted, KeysHeld, Keyless, HoldsSlot, Slots
<1>2. ASSUME NEW t \in Tasks, Enqueue(t)
      PROVE  SlotsCounted'
  BY <1>1, <1>2 DEF Enqueue, bounds
<1>3. ASSUME NEW w \in Workers, WorkerStep(w)
      PROVE  SlotsCounted'
  BY <1>3, SlotsKept, SlotsProbe, SlotsDelete DEF WorkerStep
<1>4. ASSUME NEW w \in Workers, DeliverAgain(w)
      PROVE  SlotsCounted'
  BY <1>1, <1>4 DEF DeliverAgain, Fault
<1>5. ASSUME NEW w \in Workers, Crash(w)
      PROVE  SlotsCounted'
  <2>1. worker[w].phase \in Phase
    BY <1>5, AttemptOf DEF Crash
  <2>2. Idle.phase \notin Inside
    BY InsideParts DEF Idle
  <2>. QED
    BY <1>5, <2>1, <2>2, LeavesIdle, SlotsOrphaned DEF Crash, Fault
<1>6. ASSUME NEW w \in Workers, KeepSlot(w)
      PROVE  SlotsCounted'
  <2>1. worker[w].phase \in Phase /\ "settle" \in Phase /\ Goes(w, "settle")
    BY <1>6 DEF KeepSlot, Phase
  <2>. QED
    BY <1>6, <2>1, GoesTo, InsideParts, SlotsOrphaned DEF KeepSlot, Fault
<1>7. ASSUME NEW w \in Workers, WorkerFault(w)
      PROVE  SlotsCounted'
  BY <1>4, <1>5, <1>6, <1>7, SlotsKept, SlotsFallBack DEF WorkerFault
<1>8. ASSUME NEW i \in Slots, ExpireOrphan(i)
      PROVE  SlotsCounted'
  <2>1. /\ slot[i] \notin Workers /\ "free" \notin Workers
        /\ \A j \in Slots : slot'[j] = IF j = i THEN "free" ELSE slot[j]
        /\ UNCHANGED <<worker, breaches>>
    BY <1>8, TaskAssumption DEF ExpireOrphan, TypeOK, bounds
  <2>2. KeysHeld'
    BY <2>1 DEF SlotsCounted, KeysHeld, Slots
  <2>3. Keyless' \subseteq Keyless
    BY <2>1 DEF Keyless, HoldsSlot, Slots
  <2>. QED
    BY <2>1, <2>2, <2>3, FewerKeyless
<1>9. CASE UNCHANGED vars
  BY <1>1, <1>9 DEF vars
<1>. QED
  BY <1>2, <1>3, <1>7, <1>8, <1>9, SlotsLapse DEF Next, Expiry

\* An attempt that browses holds a slot of its own or is keyless.
LEMMA BrowsersCounted ==
  ASSUME TypeOK, SlotsCounted
  PROVE  BrowsersBounded
<1>. DEFINE H == {w \in Workers : HoldsSlot(w)}
            f == [w \in H |-> worker[w].index]
<1>1. IsFiniteSet(Slots) /\ Cardinality(Slots) = Concurrency
  BY FS_Interval, TaskAssumption DEF Slots
<1>2. f \in Injection(H, Slots)
  BY DEF HoldsSlot, Injection, IsInjective
<1>3. IsFiniteSet(H) /\ Cardinality(H) <= Concurrency
  BY <1>1, <1>2, FS_Injection
<1>4. Browsing \subseteq H \cup Keyless
  BY DEF Browsing, Keyless, Inside
<1>. HIDE DEF H
<1>5. /\ IsFiniteSet(H \cup Keyless) /\ IsFiniteSet(H \cap Keyless)
      /\ Cardinality(H \cup Keyless) = Cardinality(H) + Cardinality(Keyless) - Cardinality(H \cap Keyless)
  BY <1>3, KeylessFinite, FS_Union, FS_Subset
<1>6. IsFiniteSet(Browsing) /\ Cardinality(Browsing) <= Cardinality(H \cup Keyless)
  BY <1>4, <1>5, FS_Subset
<1>7. /\ Cardinality(H) \in Nat /\ Cardinality(H \cap Keyless) \in Nat
      /\ Cardinality(H \cup Keyless) \in Nat /\ Cardinality(Browsing) \in Nat
  BY <1>3, <1>5, <1>6, FS_CardinalityType
<1>. QED
  BY <1>3, <1>5, <1>6, <1>7, KeylessFinite, TaskAssumption
     DEF SlotsCounted, BrowsersBounded, TypeOK

\* There are never more browsers than slots, but for one with every key that
\* expired under its holder and every time Redis could not be reached.
THEOREM BrowsersLimited == Spec => []BrowsersBounded
<1>1. Init => SlotsCounted
  <2>1. SUFFICES ASSUME Init
                 PROVE  SlotsCounted
    OBVIOUS
  <2>2. Keyless = {}
    BY <2>1 DEF Init, Keyless, Idle, Inside
  <2>. QED
    BY <2>1, <2>2, FS_EmptySet, TaskAssumption DEF Init, SlotsCounted, KeysHeld
<1>. QED
  BY <1>1, SlotsStep, BrowsersCounted, TypeCorrect, PTL DEF Spec

=============================================================================
