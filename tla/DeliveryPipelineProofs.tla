----------------------- MODULE DeliveryPipelineProofs -----------------------
(* Proofs about the delivery pipeline, for any number of deliveries, workers, *)
(* timers, calls and messages.                                                *)
EXTENDS DeliveryPipeline, FiniteSetTheorems, TLAPS

(* Who writes what: a step of the pipeline leaves the tables alone or is one   *)
(* of the actions named here.                                                  *)
StoreWrite ==
  \/ \E w \in Worker : Defer(w) \/ Record(w) \/ CloseDelivery(w)
  \/ \E j \in Job : TouchStale(j) \/ Release(j)
  \/ \E j \in Job, d \in Delivery : Retry(j, d) \/ CancelDelivery(j, d)
  \/ \E j \in Job, status \in {"dead", "failed", "canceled"}, ds \in SUBSET Delivery : BulkRetry(j, status, ds)
  \/ \E j \in Job, c \in Connection : Unpause(j, c)
  \/ \E c \in Connection : Pause(c) \/ Remove(c)
  \/ \E d \in Delivery : Expire(d)
  \/ Tick

(* Reads, commands to the queue and steps inside a process leave the tables.    *)
LEMMA WritesToTheStore == ASSUME Next PROVE UNCHANGED storeVars \/ StoreWrite
<1>1. CASE \E w \in Worker : WorkerStep(w)
  <2> PICK w \in Worker : WorkerStep(w) BY <1>1
  <2>1. CASE Defer(w) \/ Record(w) \/ CloseDelivery(w) BY <2>1 DEF StoreWrite
  <2>2. CASE Load(w) \/ Admit(w) \/ Refuse(w) \/ Succeed(w) \/ Fail(w) \/ ScheduleRetry(w) \/ Acknowledge(w)
    BY <2>2 DEF Load, Admit, Refuse, Succeed, Fail, ScheduleRetry, Acknowledge
  <2> QED BY <2>1, <2>2 DEF WorkerStep, Proceed
<1>2. CASE \E m \in MessageId : Receive(m)
  BY <1>2 DEF Receive, Consume, TakeOver
<1>3. CASE \E d \in Delivery : SendNew(d)
  BY <1>3 DEF SendNew, EnqueueNew
<1>4. CASE \E j \in Job : \/ \E d \in Delivery : SendOut(j, d)
                          \/ SchedulerStep(j) \/ SweeperStep(j) \/ ApiStart(j) \/ ApiContinue(j)
  <2> PICK j \in Job : \/ \E d \in Delivery : SendOut(j, d)
                       \/ SchedulerStep(j) \/ SweeperStep(j) \/ ApiStart(j) \/ ApiContinue(j)
    BY <1>4
  <2>1. CASE (\E d \in Delivery : SendOut(j, d)) \/ SchedulerStep(j)
    BY <2>1 DEF SendOut, EnqueueNext, SchedulerStep, ListDue, TakeDue
  <2>2. CASE SweeperStep(j) BY <2>2 DEF SweeperStep, FindStale, StoreWrite
  <2>3. CASE ApiStart(j) BY <2>3 DEF ApiStart, StoreWrite
  <2>4. CASE ApiContinue(j) BY <2>4 DEF ApiContinue, UnscheduleIds, FindHeld, StoreWrite
  <2> QED BY <2>1, <2>2, <2>3, <2>4
<1>5. CASE Environment BY <1>5 DEF Environment, StoreWrite
<1>6. CASE Tick BY <1>6 DEF StoreWrite
<1>7. CASE Mishap
  BY <1>7 DEF Mishap, Abandon, AbandonJob, LoseNext, LoseNew
<1> QED BY <1>1, <1>2, <1>3, <1>4, <1>5, <1>6, <1>7 DEF Next, Smooth

-----------------------------------------------------------------------------
(* What an UPDATE makes of a row is a row again.                               *)
LEMMA RowUpdates ==
  ASSUME NEW r \in Row, NEW s \in Status, NEW t \in Time
  PROVE  /\ SetStatus(r, s) \in Row
         /\ Closed(r, s) \in Row
         /\ Deferred(r, t) \in Row
         /\ Touched(r) \in Row
         /\ Released(r) \in Row
  BY TypesAssumption DEF Written, SetStatus, Closed, Deferred, Touched, Released, Row, Time, Status, OPEN

(* A time one tick later is still within the bounds of the clock.              *)
LEMMA SoonerTyping == \A t \in Time : Sooner(t) \in Time /\ (t \in Ticks => Sooner(t) \in Ticks)
  BY TypesAssumption DEF Time, Ticks, Sooner

(* Every write to the tables leaves rows, attempts and connections well typed.  *)
LEMMA StoreTyping == ASSUME PipelineInv, [Next]_vars PROVE StoreTypeOK'
<1> USE DEF StoreTypeOK
<1>0. /\ StoreTypeOK
      /\ worker \in [Worker -> WorkerState]
      /\ \A w \in Worker : worker[w].pc \notin {"idle", "ack"} => worker[w].delivery \in Delivery
      /\ \A w \in Worker : worker[w].pc = "record" => worker[w].trigger \in Trigger
  BY DEF PipelineInv, TypeOK, WorkerTypeOK
<1>1. CASE UNCHANGED storeVars BY <1>0, <1>1 DEF storeVars
<1>2. ASSUME NEW w \in Worker, Defer(w) PROVE StoreTypeOK'
  <2>1. worker[w].delivery \in Delivery /\ worker[w].wait \in Time
    BY <1>0, <1>2 DEF Defer, At, WorkerState
  <2>2. row[worker[w].delivery] \in Row /\ row[worker[w].delivery].status \in Status BY <1>0, <2>1 DEF Row
  <2>3. Deferred(row[worker[w].delivery], worker[w].wait) \in Row BY <2>1, <2>2, RowUpdates
  <2> QED BY <1>0, <1>2, <2>1, <2>3 DEF Defer
<1>3. ASSUME NEW w \in Worker, Record(w) PROVE StoreTypeOK'
  <2> DEFINE d == worker[w].delivery
  <2>1. d \in Delivery BY <1>0, <1>3 DEF Record, At
  <2>2. CASE UNCHANGED <<row, attempts>> BY <1>0, <1>3, <2>2 DEF Record
  <2>3. CASE RecordAttempt(d, worker[w].attempt, worker[w].trigger, worker[w].outcome, worker[w].wait)
    <3>1. worker[w].outcome \in {"succeeded", "failed", "dead"}
      BY <1>3 DEF Record, PipelineInv, WorkersWithinBudget
    <3>2. worker[w].attempt \in Nat /\ worker[w].wait \in Time /\ worker[w].trigger \in Trigger
      BY <1>0, <1>3 DEF Record, At, WorkerState
    <3>3. row' \in [Delivery -> Row]
      BY <1>0, <2>1, <2>3, <3>1, <3>2, TypesAssumption DEF RecordAttempt, Row, Status, OPEN
    <3>4. [attempt_no |-> worker[w].attempt + 1, trigger |-> worker[w].trigger] \in Attempt
      BY <3>2 DEF Attempt
    <3>5. attempts' \in [Delivery -> Seq(Attempt)]
      BY <1>0, <2>1, <2>3, <3>4 DEF RecordAttempt
    <3> QED BY <1>0, <1>3, <3>3, <3>5 DEF Record
  <2> QED BY <1>3, <2>2, <2>3 DEF Record
<1>4. ASSUME NEW w \in Worker, CloseDelivery(w) PROVE StoreTypeOK'
  <2>1. worker[w].outcome \in {"canceled", "held", "dead"}
    BY <1>4 DEF CloseDelivery, PipelineInv, WorkersWithinBudget
  <2>2. worker[w].delivery \in Delivery /\ worker[w].outcome \in Status
    BY <1>0, <1>4, <2>1 DEF CloseDelivery, At, Status
  <2>3. row[worker[w].delivery] \in Row BY <1>0, <2>2
  <2>4. Closed(row[worker[w].delivery], worker[w].outcome) \in Row
    BY <2>2, <2>3, RowUpdates, TypesAssumption DEF Time
  <2> QED BY <1>0, <1>4, <2>2, <2>4 DEF CloseDelivery
<1>5. ASSUME NEW j \in Job, TouchStale(j) \/ Release(j) PROVE StoreTypeOK'
  <2>1. CASE TouchStale(j) BY <1>0, <2>1, RowUpdates DEF TouchStale, Row
  <2>2. CASE Release(j)
    <3>1. \A r \in Row : Released(r) \in Row BY RowUpdates DEF Row
    <3> QED BY <1>0, <2>2, <3>1 DEF Release, ReleaseHeld
  <2> QED BY <1>5, <2>1, <2>2
<1>6. ASSUME NEW ds \in SUBSET Delivery, MarkRetry(ds), UNCHANGED <<attempts, connection>>
      PROVE StoreTypeOK'
  <2>1. \A r \in Row : SetStatus(r, "pending") \in Row
    BY RowUpdates, TypesAssumption DEF Status, OPEN, Time
  <2> QED BY <1>0, <1>6, <2>1 DEF MarkRetry
<1>7. ASSUME NEW j \in Job, NEW d \in Delivery, Retry(j, d) \/ CancelDelivery(j, d) PROVE StoreTypeOK'
  <2>1. CASE Retry(j, d) BY <1>6, <2>1 DEF Retry
  <2>2. CASE CancelDelivery(j, d)
    <3>1. \A r \in Row : SetStatus(r, "canceled") \in Row
      BY RowUpdates, TypesAssumption DEF Status, Time
    <3> QED BY <1>0, <2>2, <3>1 DEF CancelDelivery, Cancel
  <2> QED BY <1>7, <2>1, <2>2
<1>8. ASSUME NEW j \in Job, NEW status, NEW ds \in SUBSET Delivery, BulkRetry(j, status, ds) PROVE StoreTypeOK'
  BY <1>6, <1>8 DEF BulkRetry
<1>9. ASSUME NEW j \in Job, NEW c \in Connection, Unpause(j, c) PROVE StoreTypeOK'
  BY <1>0, <1>9 DEF Unpause
<1>10. ASSUME NEW c \in Connection, Pause(c) \/ Remove(c) PROVE StoreTypeOK'
  BY <1>0, <1>10 DEF Pause, Remove
<1>11. ASSUME NEW d \in Delivery, Expire(d) PROVE StoreTypeOK'
  BY <1>0, <1>11, TypesAssumption DEF Expire, Purge, Time, Row, Status
<1>12. CASE Tick
  <2>1. \A r \in Row : Older(r) \in Row
    BY SoonerTyping, TypesAssumption DEF Older, Row
  <2> QED BY <1>0, <1>12, <2>1 DEF Tick, StoreTick
<1> QED
  BY <1>1, <1>2, <1>3, <1>4, <1>5, <1>7, <1>8, <1>9, <1>10, <1>11, <1>12, WritesToTheStore DEF StoreWrite, vars

-----------------------------------------------------------------------------
(* The same for the queue, by the command sent to it.                          *)
QueueWrite ==
  \/ \E m \in MessageId, d \in Delivery, trigger \in Trigger \cup {NoTrigger} :
        Enqueue(m, d, trigger) /\ UNCHANGED scheduled
  \/ \E m \in MessageId : (Read(m) \/ Reclaim(m) \/ Ack(m)) /\ UNCHANGED scheduled
  \/ \E d \in Delivery, t \in Ticks : Schedule(d, t) /\ UNCHANGED stream
  \/ \E ds \in SUBSET Delivery : Unschedule(ds) /\ UNCHANGED stream
  \/ QueueTick

(* A step leaves the queue alone or sends it one of these commands.            *)
LEMMA WritesToTheQueue == ASSUME PipelineInv, Next PROVE UNCHANGED queueVars \/ QueueWrite
<1>0. /\ worker \in [Worker -> WorkerState]
      /\ \A w \in Worker : worker[w].pc \notin {"idle", "ack"} => worker[w].delivery \in Delivery
      /\ \A w \in Worker : worker[w].pc # "idle" => worker[w].message \in MessageId
      /\ \A w \in Worker : worker[w].pc = "schedule" => worker[w].wait \in Ticks
      /\ job \in [Job -> JobState]
      /\ \A j \in Job : job[j].pc = "enqueue" => job[j].op \in Op \ {"cancel"}
  BY DEF PipelineInv, TypeOK, WorkerTypeOK, JobTypeOK, WorkersWithinBudget
<1>1. CASE \E w \in Worker : WorkerStep(w)
  <2> PICK w \in Worker : WorkerStep(w) BY <1>1
  <2>1. CASE ScheduleRetry(w) BY <1>0, <2>1 DEF ScheduleRetry, At, QueueWrite
  <2>2. CASE Acknowledge(w) BY <1>0, <2>2 DEF Acknowledge, At, QueueWrite
  <2>3. CASE \/ Load(w) \/ Admit(w) \/ Refuse(w) \/ Defer(w) \/ Succeed(w) \/ Fail(w)
             \/ Record(w) \/ CloseDelivery(w)
    BY <2>3 DEF Load, Admit, Refuse, Defer, Succeed, Fail, Record, CloseDelivery
  <2> QED BY <2>1, <2>2, <2>3 DEF WorkerStep, Proceed
<1>2. CASE \E m \in MessageId : Receive(m)
  BY <1>2 DEF Receive, Consume, TakeOver, QueueWrite
<1>3. CASE \E d \in Delivery : SendNew(d)
  BY <1>3 DEF SendNew, EnqueueNew, QueueWrite, Trigger
<1>4. CASE \E j \in Job : \/ \E d \in Delivery : SendOut(j, d)
                          \/ SchedulerStep(j) \/ SweeperStep(j) \/ ApiStart(j) \/ ApiContinue(j)
  <2> PICK j \in Job : \/ \E d \in Delivery : SendOut(j, d)
                       \/ SchedulerStep(j) \/ SweeperStep(j) \/ ApiStart(j) \/ ApiContinue(j)
    BY <1>4
  <2>1. CASE \E d \in Delivery : SendOut(j, d)
    <3>1. JobAt(j, "enqueue") => TriggerOf(job[j].op) \in Trigger \cup {NoTrigger}
      <4>1. JobAt(j, "enqueue") => job[j].op \in {"automatic", "sweep", "manual", "bulk_retry", "unpause"}
        BY <1>0 DEF JobAt, Op
      <4> QED BY <4>1 DEF TriggerOf, Trigger
    <3> QED BY <2>1, <3>1 DEF SendOut, EnqueueNext, QueueWrite
  <2>2. CASE SchedulerStep(j)
    BY <2>2 DEF SchedulerStep, ListDue, TakeDue, QueueWrite
  <2>3. CASE SweeperStep(j) BY <2>3 DEF SweeperStep, FindStale, TouchStale
  <2>4. CASE ApiStart(j) BY <2>4 DEF ApiStart, Retry, BulkRetry, CancelDelivery, Unpause
  <2>5. CASE ApiContinue(j)
    <3>1. job[j].ids \in SUBSET Delivery BY <1>0 DEF JobState
    <3> QED BY <2>5, <3>1 DEF ApiContinue, UnscheduleIds, FindHeld, Release, QueueWrite
  <2> QED BY <2>1, <2>2, <2>3, <2>4, <2>5
<1>5. CASE Environment BY <1>5 DEF Environment, Pause, Remove, Expire
<1>6. CASE Tick BY <1>6 DEF Tick, QueueWrite
<1>7. CASE Mishap
  BY <1>7 DEF Mishap, Abandon, AbandonJob, LoseNext, LoseNew
<1> QED BY <1>1, <1>2, <1>3, <1>4, <1>5, <1>6, <1>7 DEF Next, Smooth

(* Every command leaves Stream and sorted set well typed.                      *)
LEMMA QueueTyping == ASSUME PipelineInv, [Next]_vars PROVE QueueTypeOK'
<1> USE QueueAssumption, TypesAssumption DEF QueueTypeOK
<1>0. QueueTypeOK BY DEF PipelineInv, TypeOK
<1>1. CASE UNCHANGED queueVars BY <1>0, <1>1 DEF queueVars
<1>2. ASSUME NEW m \in MessageId, NEW d \in Delivery, NEW trigger \in Trigger \cup {NoTrigger},
             Enqueue(m, d, trigger), UNCHANGED scheduled
      PROVE  QueueTypeOK'
  BY <1>0, <1>2 DEF Enqueue, Message
<1>3. ASSUME NEW m \in MessageId, Read(m) \/ Reclaim(m) \/ Ack(m), UNCHANGED scheduled PROVE QueueTypeOK'
  <2>1. CASE Read(m)
    <3>1. stream[m] \in Message BY <1>0, <2>1 DEF Read, Unread, InStream
    <3>2. [stream[m] EXCEPT !.times = 1] \in Message BY <3>1 DEF Message
    <3> QED BY <1>0, <1>3, <2>1, <3>2 DEF Read
  <2>2. CASE Reclaim(m)
    <3>1. stream[m] \in Message BY <1>0, <2>2 DEF Reclaim, Pending, InStream
    <3> DEFINE touched == [stream[m] EXCEPT !.idle = 0]
               counted == [touched EXCEPT !.times = IF @ > MaxDeliveries THEN @ ELSE @ + 1]
    <3>2. touched \in Message BY <3>1 DEF Message
    <3> HIDE DEF touched
    <3>3. counted \in Message BY <3>2 DEF Message
    <3>4. stream' = [stream EXCEPT ![m] = counted] BY <1>0, <2>2 DEF Reclaim, touched
    <3> QED BY <1>0, <1>3, <3>3, <3>4
  <2>3. CASE Ack(m) BY <1>0, <1>3, <2>3 DEF Ack
  <2> QED BY <1>3, <2>1, <2>2, <2>3
<1>4. ASSUME NEW d \in Delivery, NEW t \in Ticks, Schedule(d, t), UNCHANGED stream PROVE QueueTypeOK'
  BY <1>0, <1>4 DEF Schedule, Score, Ticks
<1>5. ASSUME NEW ds \in SUBSET Delivery, Unschedule(ds), UNCHANGED stream PROVE QueueTypeOK'
  BY <1>0, <1>5 DEF Unschedule, Score
<1>6. CASE QueueTick
  <2>1. \A r \in Message : r.idle < ReclaimIdle => [r EXCEPT !.idle = @ + 1] \in Message
    BY DEF Message
  <2>2. stream' \in [MessageId -> Message \cup {NoMessage}]
    BY <1>0, <1>6, <2>1 DEF QueueTick, Pending, InStream
  <2>3. scheduled' \in [Delivery -> Score] BY <1>0, <1>6 DEF QueueTick, Score
  <2> QED BY <2>2, <2>3
<1> QED BY <1>1, <1>2, <1>3, <1>4, <1>5, <1>6, WritesToTheQueue DEF QueueWrite, vars, queueVars

-----------------------------------------------------------------------------
(* A worker changes only by its own steps and by time.                         *)
WorkerWrite ==
  \/ \E w \in Worker : WorkerStep(w) \/ Abandon(w) \/ \E m \in MessageId : Consume(w, m) \/ TakeOver(w, m)
  \/ Tick

(* Timers, API calls and their mishaps do not touch a worker's memory.         *)
LEMMA WritesToTheWorkers == ASSUME Next PROVE UNCHANGED worker \/ WorkerWrite
<1>1. CASE \E j \in Job : \/ \E d \in Delivery : SendOut(j, d)
                          \/ SchedulerStep(j) \/ SweeperStep(j) \/ ApiStart(j) \/ ApiContinue(j)
  BY <1>1 DEF SendOut, SchedulerStep, SweeperStep, ApiStart, ApiContinue
<1>2. CASE Mishap BY <1>2 DEF Mishap, WorkerWrite
<1>3. CASE (\E w \in Worker : WorkerStep(w)) \/ (\E m \in MessageId : Receive(m)) \/ Tick
  BY <1>3 DEF Receive, WorkerWrite
<1>4. CASE (\E d \in Delivery : SendNew(d)) \/ Environment
  BY <1>4 DEF SendNew, Environment
<1> QED BY <1>1, <1>2, <1>3, <1>4 DEF Next, Smooth

(* What a worker's record has to satisfy, one worker at a time.                *)
WorkerOK(r) ==
  /\ r \in WorkerState
  /\ r.pc \notin {"idle", "ack"} => r.delivery \in Delivery
  /\ r.pc # "idle" => r.message \in MessageId
  /\ r.pc \in {"guard", "send", "record"} => r.trigger \in Trigger
  /\ r.pc = "record" => r.outcome \in {"succeeded", "failed", "dead"}
  /\ r.pc = "close" => r.outcome \in {"canceled", "held", "dead"}
  /\ r.pc = "record" /\ r.outcome = "failed" => r.attempt < RetryCount
  /\ r.pc = "record" /\ r.outcome = "failed" => r.wait \in Ticks
  /\ r.pc \in {"defer", "schedule"} => r.wait \in Ticks

(* The invariants about workers, said one worker at a time.                    *)
LEMMA WorkersOK ==
  WorkerTypeOK /\ WorkersWithinBudget <=> worker \in [Worker -> WorkerState] /\ \A w \in Worker : WorkerOK(worker[w])
BY DEF WorkerTypeOK, WorkersWithinBudget, WorkerOK, At

(* A worker whose process() has returned knows its message and nothing else.    *)
LEMMA DoneOK ==
  ASSUME worker \in [Worker -> WorkerState], NEW w \in Worker,
         WorkerOK(worker[w]), worker[w].pc # "idle", Done(w)
  PROVE  WorkerOK(worker'[w]) /\ worker' = [worker EXCEPT ![w] = worker'[w]]
<1> DEFINE r == [IdleWorker EXCEPT !.pc = "ack", !.message = worker[w].message]
<1>1. worker[w].message \in MessageId BY DEF WorkerOK
<1>2. IdleWorker \in WorkerState BY DEF IdleWorker, WorkerState, Pc, Time
<1>3. WorkerOK(r)
  <2>1. r \in WorkerState /\ r.pc = "ack" /\ r.message = worker[w].message
    BY <1>1, <1>2 DEF WorkerState, Pc
  <2> HIDE DEF r
  <2> QED BY <1>1, <2>1 DEF WorkerOK
<1>4. worker' = [worker EXCEPT ![w] = r] BY DEF Done
<1> HIDE DEF r
<1> QED BY <1>3, <1>4

(* A worker past loading knows its delivery, and one about to record a failure  *)
(* that is to be retried still had a retry when it read the attempt number.    *)
LEMMA WorkerTyping == ASSUME PipelineInv, [Next]_vars PROVE WorkerTypeOK' /\ WorkersWithinBudget'
<1> DEFINE Inv == worker \in [Worker -> WorkerState] /\ \A w \in Worker : WorkerOK(worker[w])
<1> SUFFICES Inv' BY DEF WorkerTypeOK, WorkersWithinBudget, WorkerOK, At
<1>0. /\ worker \in [Worker -> WorkerState]
      /\ \A w \in Worker : WorkerOK(worker[w])
  BY WorkersOK DEF PipelineInv, TypeOK
<1>a. row \in [Delivery -> Row] /\ stream \in [MessageId -> Message \cup {NoMessage}]
  BY DEF PipelineInv, TypeOK, StoreTypeOK, QueueTypeOK
<1>1. CASE UNCHANGED worker BY <1>0, <1>1 DEF WorkerOK
<1>2. ASSUME NEW w \in Worker, WorkerOK(worker'[w]), worker' = [worker EXCEPT ![w] = worker'[w]] PROVE Inv'
  BY <1>0, <1>2 DEF WorkerOK
<1>3. ASSUME NEW w \in Worker, WorkerStep(w) PROVE Inv'
  <2> DEFINE r == worker[w]
  <2>0. r \in WorkerState /\ WorkerOK(r) BY <1>0
  <2>1. ASSUME worker[w].pc # "idle", Done(w) PROVE Inv'
    BY <1>0, <1>2, <2>0, <2>1, DoneOK
  <2>2. CASE Load(w)
    <3>0. r.pc = "load" /\ r.delivery \in Delivery BY <2>0, <2>2 DEF Load, At, WorkerOK
    <3>1. CASE Done(w) BY <2>1, <3>0, <3>1
    <3>2. CASE Decide(w, "close", "canceled") \/ Decide(w, "close", "held")
      BY <1>0, <2>0, <3>0, <3>2 DEF Decide, WorkerOK, WorkerState, Pc, Status
    <3>3. CASE worker' = [worker EXCEPT
             ![w].pc = "guard",
             ![w].attempt = row[worker[w].delivery].attempt,
             ![w].trigger = IF @ # NoTrigger THEN @
                            ELSE IF row[worker[w].delivery].attempt = 0 THEN "initial" ELSE "automatic"]
      <4>1. row[r.delivery].attempt \in Nat BY <1>a, <3>0 DEF Row
      <4>2. worker'[w].trigger \in Trigger /\ worker'[w].pc = "guard" /\ worker'[w].delivery = r.delivery
        BY <1>0, <2>0, <3>3 DEF WorkerState, Trigger
      <4>3. worker' \in [Worker -> WorkerState]
        BY <1>0, <2>0, <3>3, <4>1 DEF WorkerState, Pc, Trigger
      <4> QED BY <1>0, <2>0, <3>0, <3>3, <4>2, <4>3 DEF WorkerOK, WorkerState
    <3> QED BY <2>2, <3>1, <3>2, <3>3 DEF Load
  <2>3. CASE Admit(w)
    BY <1>0, <2>0, <2>3 DEF Admit, At, Goto, WorkerOK, WorkerState, Pc
  <2>4. CASE Refuse(w)
    <3>1. PICK t \in DeferWaits : worker' = [worker EXCEPT ![w].pc = "defer", ![w].wait = t]
      BY <2>4 DEF Refuse
    <3>2. t \in Ticks /\ t \in Time /\ "defer" \in Pc BY WorkerAssumption DEF Time, Pc
    <3> DEFINE n == [r EXCEPT !.pc = "defer", !.wait = t]
    <3>3. n \in WorkerState /\ n.pc = "defer" /\ n.wait = t /\ n.delivery = r.delivery /\ n.message = r.message
      BY <2>0, <3>2 DEF WorkerState
    <3>4. worker' = [worker EXCEPT ![w] = n] BY <1>0, <3>1
    <3>5. r.delivery \in Delivery /\ r.message \in MessageId BY <2>0, <2>4 DEF WorkerOK, Refuse, At
    <3> HIDE DEF n, r
    <3>6. WorkerOK(n) BY <3>2, <3>3, <3>5 DEF WorkerOK
    <3> QED BY <1>0, <1>2, <3>4, <3>6
  <2>5. CASE Defer(w)
    BY <1>0, <2>0, <2>5 DEF Defer, At, Goto, WorkerOK, WorkerState, Pc
  <2>6. CASE Succeed(w)
    <3>1. worker' = [worker EXCEPT ![w].pc = "record", ![w].outcome = "succeeded"]
      BY <2>6 DEF Succeed, Decide
    <3>2. "record" \in Pc /\ "succeeded" \in Status BY DEF Pc, Status
    <3> DEFINE n == [r EXCEPT !.pc = "record", !.outcome = "succeeded"]
    <3>3. /\ n \in WorkerState /\ n.pc = "record" /\ n.outcome = "succeeded"
          /\ n.delivery = r.delivery /\ n.message = r.message /\ n.trigger = r.trigger
      BY <2>0, <3>2 DEF WorkerState
    <3>4. worker' = [worker EXCEPT ![w] = n] BY <1>0, <3>1
    <3>5. r.delivery \in Delivery /\ r.message \in MessageId /\ r.trigger \in Trigger
      BY <2>0, <2>6 DEF WorkerOK, Succeed, At
    <3> HIDE DEF n, r
    <3>6. WorkerOK(n) BY <3>3, <3>5 DEF WorkerOK
    <3> QED BY <1>0, <1>2, <3>4, <3>6
  <2>7. CASE Fail(w)
    <3>1. PICK t \in NextAttemptAt(r.attempt) :
            worker' = [worker EXCEPT ![w].pc = "record", ![w].wait = t,
                                     ![w].outcome = IF t = NoTime THEN "dead" ELSE "failed"]
      BY <2>7 DEF Fail
    <3>2. /\ t \in Time
          /\ t # NoTime => t \in Ticks /\ r.attempt < RetryCount
      BY <2>0, WorkerAssumption, TypesAssumption, StoreAssumption DEF NextAttemptAt, Time, WorkerState
    <3> DEFINE o == IF t = NoTime THEN "dead" ELSE "failed"
               n == [r EXCEPT !.pc = "record", !.wait = t, !.outcome = o]
    <3>3. o \in Status /\ "record" \in Pc BY DEF Status, OPEN, Pc
    <3>4. o \in {"dead", "failed"} /\ (o = "failed" => t \in Ticks /\ r.attempt < RetryCount) BY <3>2
    <3>5. worker' = [worker EXCEPT ![w] = n] BY <1>0, <3>1
    <3>6. r.delivery \in Delivery /\ r.message \in MessageId /\ r.trigger \in Trigger
      BY <2>0, <2>7 DEF WorkerOK, Fail, At
    <3> HIDE DEF o
    <3>7. /\ n \in WorkerState /\ n.pc = "record" /\ n.wait = t /\ n.outcome = o
          /\ n.delivery = r.delivery /\ n.message = r.message /\ n.trigger = r.trigger /\ n.attempt = r.attempt
      BY <2>0, <3>2, <3>3 DEF WorkerState
    <3> HIDE DEF n, r
    <3>8. WorkerOK(n) BY <3>4, <3>6, <3>7 DEF WorkerOK
    <3> QED BY <1>0, <1>2, <3>5, <3>8
  <2>8. CASE Record(w)
    <3>0. r.pc = "record" BY <2>8 DEF Record, At
    <3>1. CASE Done(w) BY <2>1, <3>0, <3>1
    <3>2. CASE r.outcome = "failed" /\ Goto(w, "schedule")
      BY <1>0, <2>0, <3>0, <3>2 DEF Goto, WorkerOK, WorkerState, Pc
    <3> QED BY <2>8, <3>1, <3>2 DEF Record
  <2>9. CASE ScheduleRetry(w) \/ CloseDelivery(w)
    BY <2>1, <2>9 DEF ScheduleRetry, CloseDelivery, At
  <2>10. CASE Acknowledge(w)
    BY <1>0, <2>10 DEF Acknowledge, IdleWorker, WorkerOK, WorkerState, Pc, Time
  <2> QED
    BY <1>3, <2>2, <2>3, <2>4, <2>5, <2>6, <2>7, <2>8, <2>9, <2>10 DEF WorkerStep, Proceed
<1>4. ASSUME NEW w \in Worker, Abandon(w) PROVE Inv'
  BY <1>0, <1>4 DEF Abandon, IdleWorker, WorkerOK, WorkerState, Pc, Time
<1>5. ASSUME NEW w \in Worker, NEW m \in MessageId, Consume(w, m) \/ TakeOver(w, m) PROVE Inv'
  <2>1. PICK times : Handle(w, m, times) /\ InStream(m)
    BY <1>5 DEF Consume, TakeOver, Read, Unread, Reclaim, Pending
  <2>2. stream[m].delivery \in Delivery /\ stream[m].trigger \in Trigger \cup {NoTrigger}
    BY <1>a, <2>1 DEF InStream, Message
  <2> DEFINE r == [IdleWorker EXCEPT !.message = m,
                       !.delivery = stream[m].delivery,
                       !.trigger = stream[m].trigger,
                       !.pc = IF Poisoned(times) THEN "close" ELSE "load",
                       !.outcome = IF Poisoned(times) THEN "dead" ELSE NoOutcome]
  <2>3. IdleWorker \in WorkerState BY DEF IdleWorker, WorkerState, Pc, Time
  <2>4. WorkerOK(r)
    <3>1. r \in WorkerState BY <2>2, <2>3 DEF WorkerState, Pc, Status
    <3>2. /\ r.message = m /\ r.delivery = stream[m].delivery
          /\ (r.pc = "close" /\ r.outcome = "dead") \/ r.pc = "load"
      BY <2>3 DEF WorkerState
    <3> HIDE DEF r
    <3> QED BY <2>2, <3>1, <3>2 DEF WorkerOK
  <2>5. worker' = [worker EXCEPT ![w] = r] BY <2>1 DEF Handle
  <2> HIDE DEF r
  <2> QED BY <1>0, <2>4, <2>5 DEF WorkerOK
<1>6. CASE Tick
  <2>1. ASSUME NEW w \in Worker PROVE worker'[w] \in WorkerState /\ WorkerOK(worker'[w])
    <3>1. worker'[w] = [worker[w] EXCEPT !.wait = Sooner(@)] BY <1>6 DEF Tick, WorkerTick
    <3>2. worker[w].wait \in Time /\ WorkerOK(worker[w]) /\ worker[w] \in WorkerState
      BY <1>0 DEF WorkerState
    <3> QED BY <3>1, <3>2, SoonerTyping DEF WorkerOK, WorkerState
  <2> QED BY <1>6, <2>1 DEF Tick, WorkerTick
<1> QED BY <1>1, <1>3, <1>4, <1>5, <1>6, WritesToTheWorkers DEF WorkerWrite, vars

-----------------------------------------------------------------------------
(* What a job's record has to satisfy, one job at a time.                      *)
JobOK(r) ==
  /\ r \in JobState
  /\ r.pc = "find" => r.connection \in Connection
  /\ r.pc = "unschedule" => r.op \in Op
  /\ r.pc = "enqueue" => r.op \in Op \ {"cancel"}

(* A job that goes on with some deliveries is well typed again.                *)
LEMMA ContinueOK ==
  ASSUME JobTypeOK, NEW j \in Job, NEW ids \in SUBSET Delivery, NEW op \in Op,
         NEW pc \in {"take", "touch", "unschedule", "release", "enqueue"},
         pc = "enqueue" => op # "cancel" \/ ids = {},
         Continue(j, pc, op, ids), unsent' \in SUBSET Delivery
  PROVE  JobTypeOK'
<1> DEFINE r == [IdleJob EXCEPT !.pc = pc, !.op = op, !.ids = ids]
<1>1. IdleJob \in JobState /\ IdleJob.pc = "idle" BY DEF IdleJob, JobState
<1>2. CASE ids = {}
  <2>1. job' = [job EXCEPT ![j] = IdleJob] BY <1>2 DEF Continue
  <2> QED BY <1>1, <2>1 DEF JobTypeOK
<1>3. CASE ids # {}
  <2>1. job' = [job EXCEPT ![j] = r] BY <1>3 DEF Continue
  <2>2. r \in JobState /\ r.pc = pc /\ r.op = op BY <1>1 DEF JobState
  <2> HIDE DEF r
  <2> QED BY <1>3, <2>1, <2>2 DEF JobTypeOK
<1> QED BY <1>2, <1>3

(* Timers and API calls keep their types from one command to the next.         *)
LEMMA JobTyping == ASSUME PipelineInv, [Next]_vars PROVE JobTypeOK'
<1>0. JobTypeOK BY DEF PipelineInv, TypeOK
<1>a. /\ job \in [Job -> JobState] /\ unsent \in SUBSET Delivery
      /\ \A j \in Job : job[j].ids \in SUBSET Delivery /\ job[j].due \in SUBSET Delivery
  BY <1>0 DEF JobTypeOK, JobState
<1>1. CASE UNCHANGED jobVars BY <1>0, <1>1 DEF JobTypeOK, jobVars
<1>2. ASSUME NEW j \in Job, NEW r, JobOK(r), job' = [job EXCEPT ![j] = r], UNCHANGED unsent PROVE JobTypeOK'
  BY <1>0, <1>2 DEF JobTypeOK, JobOK
<1>3. IdleJob \in JobState BY DEF IdleJob, JobState
<1>4. ASSUME NEW d \in Delivery, SendNew(d) \/ LoseNew(d) PROVE JobTypeOK'
  BY <1>0, <1>4 DEF SendNew, EnqueueNew, LoseNew, JobTypeOK
<1>5. ASSUME NEW j \in Job, NEW d \in Delivery, SendOut(j, d) \/ LoseNext(j, d) PROVE JobTypeOK'
  <2>1. /\ JobAt(j, "enqueue") /\ UNCHANGED unsent
        /\ Continue(j, "enqueue", job[j].op, job[j].ids \ {d})
    BY <1>5 DEF SendOut, EnqueueNext, LoseNext
  <2>2. job[j].op \in Op \ {"cancel"} BY <1>0, <2>1 DEF JobTypeOK, JobAt
  <2> QED BY <1>0, <1>a, <2>1, <2>2, ContinueOK
<1>6. ASSUME NEW j \in Job, AbandonJob(j) PROVE JobTypeOK'
  BY <1>2, <1>3, <1>6 DEF AbandonJob, JobOK, IdleJob
<1>7. ASSUME NEW j \in Job, ListDue(j) PROVE JobTypeOK'
  <2> DEFINE r == [IdleJob EXCEPT !.pc = "take", !.op = "automatic", !.due = {d \in Delivery : Due(d)}]
  <2>1. {d \in Delivery : Due(d)} \in SUBSET Delivery OBVIOUS
  <2>2. r \in JobState /\ r.pc = "take" BY <1>3, <2>1 DEF JobState, Op
  <2>3. job' = [job EXCEPT ![j] = r] /\ UNCHANGED unsent BY <1>7 DEF ListDue
  <2> HIDE DEF r
  <2> QED BY <1>2, <2>2, <2>3 DEF JobOK
<1>8. ASSUME NEW j \in Job, NEW d \in Delivery, TakeDue(j, d) PROVE JobTypeOK'
  <2> DEFINE taken == IF scheduled[d] = NoTime THEN job[j].ids ELSE job[j].ids \cup {d}
             r == [job[j] EXCEPT !.due = @ \ {d}, !.ids = taken]
  <2>1. taken \in SUBSET Delivery /\ job[j].due \ {d} \in SUBSET Delivery BY <1>a
  <2>2. CASE Continue(j, "enqueue", "automatic", taken)
    BY <1>0, <1>8, <1>a, <2>1, <2>2, ContinueOK DEF TakeDue, Op
  <2>3. CASE job' = [job EXCEPT ![j].due = @ \ {d}, ![j].ids = taken]
    <3> HIDE DEF taken
    <3>1. job' = [job EXCEPT ![j] = r] BY <1>a, <2>3
    <3>2. r \in JobState /\ r.pc = job[j].pc BY <1>a, <2>1 DEF JobState
    <3>3. job[j].pc = "take" BY <1>8 DEF TakeDue, JobAt
    <3> HIDE DEF r
    <3> QED BY <1>2, <1>8, <3>1, <3>2, <3>3 DEF JobOK, TakeDue
  <2> QED BY <1>8, <2>2, <2>3 DEF TakeDue
<1>9. ASSUME NEW j \in Job, SweeperStep(j) PROVE JobTypeOK'
  <2>1. {d \in Delivery : Stale(d)} \in SUBSET Delivery OBVIOUS
  <2>2. CASE FindStale(j) BY <1>0, <1>a, <2>1, <2>2, ContinueOK DEF FindStale, Op
  <2>3. CASE TouchStale(j) BY <1>0, <1>a, <2>3, ContinueOK DEF TouchStale, Op
  <2> QED BY <1>9, <2>2, <2>3 DEF SweeperStep
<1>10. ASSUME NEW j \in Job, ApiStart(j) PROVE JobTypeOK'
  <2>1. ASSUME NEW d \in Delivery, Retry(j, d) \/ CancelDelivery(j, d) PROVE JobTypeOK'
    BY <1>0, <1>a, <2>1, ContinueOK DEF Retry, CancelDelivery, Op
  <2>2. ASSUME NEW status, NEW ds \in SUBSET Delivery, BulkRetry(j, status, ds) PROVE JobTypeOK'
    BY <1>0, <1>a, <2>2, ContinueOK DEF BulkRetry, Op
  <2>3. ASSUME NEW c \in Connection, Unpause(j, c) PROVE JobTypeOK'
    <3> DEFINE r == [IdleJob EXCEPT !.pc = "find", !.op = "unpause", !.connection = c]
    <3>1. r \in JobState /\ r.pc = "find" /\ r.connection = c BY <1>3 DEF JobState, Op
    <3>2. job' = [job EXCEPT ![j] = r] /\ UNCHANGED unsent BY <2>3 DEF Unpause
    <3> HIDE DEF r
    <3> QED BY <1>2, <3>1, <3>2 DEF JobOK
  <2> QED BY <1>10, <2>1, <2>2, <2>3 DEF ApiStart
<1>11. ASSUME NEW j \in Job, ApiContinue(j) PROVE JobTypeOK'
  <2>1. CASE UnscheduleIds(j)
    <3>1. job[j].op \in Op BY <1>0, <2>1 DEF JobTypeOK, UnscheduleIds, JobAt
    <3> QED BY <1>0, <1>a, <2>1, <3>1, ContinueOK DEF UnscheduleIds
  <2>2. CASE FindHeld(j)
    <3>1. \A c \in Connection : HeldOf(c) \in SUBSET Delivery BY DEF HeldOf
    <3>2. job[j].connection \in Connection BY <1>0, <2>2 DEF FindHeld, JobAt, JobTypeOK
    <3> QED BY <1>0, <1>a, <2>2, <3>1, <3>2, ContinueOK DEF FindHeld, Op
  <2>3. CASE Release(j) BY <1>0, <1>a, <2>3, ContinueOK DEF Release, Op
  <2> QED BY <1>11, <2>1, <2>2, <2>3 DEF ApiContinue
<1>12. CASE \/ \E w \in Worker : WorkerStep(w) \/ (Abandon(w) /\ UNCHANGED jobVars)
            \/ \E m \in MessageId : Receive(m)
            \/ Environment \/ Tick
  BY <1>1, <1>12 DEF WorkerStep, Receive, Environment, Pause, Remove, Expire, Tick
<1>13. CASE Smooth BY <1>4, <1>5, <1>9, <1>10, <1>11, <1>7, <1>8, <1>12, <1>13 DEF Smooth, SchedulerStep
<1>14. CASE Mishap BY <1>4, <1>5, <1>6, <1>12, <1>14 DEF Mishap
<1>15. CASE UNCHANGED vars BY <1>1, <1>15 DEF vars, jobVars
<1> QED BY <1>13, <1>14, <1>15 DEF Next

-----------------------------------------------------------------------------
(* How an UPDATE moves status and attempt number: only recordAttempt counts.   *)
LEMMA RowFields ==
  ASSUME NEW r \in Row, NEW s, NEW t
  PROVE  /\ SetStatus(r, s).status = s /\ SetStatus(r, s).attempt = r.attempt
         /\ Closed(r, s).attempt = r.attempt
         /\ Closed(r, s).status = r.status \/ (r.status \in OPEN /\ Closed(r, s).status = s)
         /\ Deferred(r, t).attempt = r.attempt /\ Deferred(r, t).status = r.status
         /\ Touched(r).attempt = r.attempt /\ Touched(r).status = r.status
         /\ Released(r).attempt = r.attempt /\ Released(r).status = "pending"
         /\ Older(r).attempt = r.attempt /\ Older(r).status = r.status
<1>1. ASSUME NEW z, NEW u PROVE Written(r, z, u).status = z /\ Written(r, z, u).attempt = r.attempt
  BY DEF Written
<1>2. SetStatus(r, s).status = s /\ SetStatus(r, s).attempt = r.attempt
  BY <1>1 DEF SetStatus
<1>3. /\ Closed(r, s).attempt = r.attempt
      /\ Closed(r, s).status = r.status \/ (r.status \in OPEN /\ Closed(r, s).status = s)
  BY <1>2 DEF Closed
<1>4. Deferred(r, t).attempt = r.attempt /\ Deferred(r, t).status = r.status
  BY <1>1 DEF Deferred
<1>5. /\ Touched(r).attempt = r.attempt /\ Touched(r).status = r.status
      /\ Released(r).attempt = r.attempt /\ Released(r).status = "pending"
  BY <1>1 DEF Touched, Released
<1>6. Older(r).attempt = r.attempt /\ Older(r).status = r.status
  BY DEF Older
<1> QED BY <1>2, <1>3, <1>4, <1>5, <1>6

(* A row keeps within the budget when its attempt number stays what it was and *)
(* it was undecided before, or a user has granted it one more.                 *)
LEMMA RowKeeps ==
  ASSUME PipelineInv, NEW d \in Delivery,
         row'[d].attempt = row[d].attempt,
         asked'[d] \in Nat, asked'[d] >= asked[d],
         row'[d].status \in Undecided => row[d].status \in Undecided \/ asked'[d] = asked[d] + 1
  PROVE  /\ row'[d].status \in Undecided => row'[d].attempt <= RetryCount + asked'[d]
         /\ row'[d].attempt <= RetryCount + 1 + asked'[d]
<1>1. row[d].attempt \in Nat /\ asked[d] \in Nat
  BY DEF PipelineInv, TypeOK, StoreTypeOK, Row
<1> QED BY <1>1, StoreAssumption DEF PipelineInv, RowsWithinBudget, RetryBudget

(* No write to the store lets a delivery be attempted beyond the budget.        *)
LEMMA BudgetStep ==
  ASSUME PipelineInv, [Next]_vars
  PROVE  RowsWithinBudget' /\ RetryBudget'
<1> SUFFICES ASSUME NEW d \in Delivery
             PROVE  /\ row'[d].status \in Undecided => row'[d].attempt <= RetryCount + asked'[d]
                    /\ row'[d].attempt <= RetryCount + 1 + asked'[d]
  BY DEF RowsWithinBudget, RetryBudget
<1> DEFINE Kept == /\ row'[d].attempt = row[d].attempt
                   /\ asked'[d] \in Nat /\ asked'[d] >= asked[d]
                   /\ row'[d].status \in Undecided => row[d].status \in Undecided \/ asked'[d] = asked[d] + 1
<1>0. /\ row \in [Delivery -> Row] /\ asked \in [Delivery -> Nat]
      /\ row[d] \in Row /\ row[d].attempt \in Nat /\ asked[d] \in Nat
      /\ \A w \in Worker : worker[w].pc \notin {"idle", "ack"} => worker[w].delivery \in Delivery
  BY DEF PipelineInv, TypeOK, StoreTypeOK, WorkerTypeOK, Row
<1> SUFFICES ASSUME ~ Kept
             PROVE  /\ row'[d].status \in Undecided => row'[d].attempt <= RetryCount + asked'[d]
                    /\ row'[d].attempt <= RetryCount + 1 + asked'[d]
  BY RowKeeps
<1>1. CASE UNCHANGED <<row, asked>> BY <1>0, <1>1
<1>2. ASSUME NEW w \in Worker, Defer(w) \/ CloseDelivery(w) PROVE Kept
  <2>1. worker[w].delivery \in Delivery BY <1>0, <1>2 DEF Defer, CloseDelivery, At
  <2>2. CASE Defer(w) BY <1>0, <2>1, <2>2, RowFields DEF Defer
  <2>3. CASE CloseDelivery(w) BY <1>0, <2>1, <2>3, RowFields DEF CloseDelivery, OPEN, Undecided
  <2> QED BY <1>2, <2>2, <2>3
<1>3. ASSUME NEW w \in Worker, Record(w)
      PROVE  /\ row'[d].status \in Undecided => row'[d].attempt <= RetryCount + asked'[d]
             /\ row'[d].attempt <= RetryCount + 1 + asked'[d]
  <2> DEFINE before == worker[w].attempt
             s == worker[w].outcome
  <2>1. worker[w].delivery \in Delivery /\ asked' = asked BY <1>0, <1>3 DEF Record, At
  <2>2. CASE row'[d] = row[d] BY <1>0, <2>1, <2>2
  <2>3. CASE row'[d] # row[d]
    <3>1. /\ d = worker[w].delivery /\ CanRecord(d, before)
          /\ row'[d] = [status |-> s, attempt |-> before + 1, due |-> worker[w].wait, age |-> 0]
      BY <1>0, <1>3, <2>1, <2>3 DEF Record, RecordAttempt
    <3>2. before = row[d].attempt /\ before <= RetryCount + asked[d]
      BY <3>1 DEF CanRecord, OPEN, Undecided, PipelineInv, RowsWithinBudget
    <3>3. s \in {"succeeded", "failed", "dead"} /\ (s = "failed" => before < RetryCount)
      BY <1>3 DEF Record, PipelineInv, WorkersWithinBudget
    <3> QED BY <1>0, <2>1, <3>1, <3>2, <3>3, StoreAssumption DEF Undecided
  <2> QED BY <2>2, <2>3
<1>4. ASSUME NEW j \in Job, TouchStale(j) \/ Release(j) PROVE Kept
  <2>1. CASE TouchStale(j) BY <1>0, <2>1, RowFields DEF TouchStale
  <2>2. CASE Release(j) BY <1>0, <2>2, RowFields DEF Release, ReleaseHeld, Undecided
  <2> QED BY <1>4, <2>1, <2>2
<1>5. ASSUME NEW ds \in SUBSET Delivery, MarkRetry(ds) PROVE Kept
  BY <1>0, <1>5, RowFields DEF MarkRetry
<1>6. ASSUME NEW j \in Job, NEW e \in Delivery, CancelDelivery(j, e) PROVE Kept
  BY <1>0, <1>6, RowFields DEF CancelDelivery, Cancel, Undecided
<1>7. ASSUME NEW e \in Delivery, Expire(e) PROVE row'[d] = row[d] \/ row'[d].attempt = 0
  BY <1>0, <1>7 DEF Expire, Purge
<1>8. CASE Tick BY <1>0, <1>8, RowFields DEF Tick, StoreTick
<1>9. ASSUME NEW e \in Delivery, Expire(e)
      PROVE  /\ row'[d].status \in Undecided => row'[d].attempt <= RetryCount + asked'[d]
             /\ row'[d].attempt <= RetryCount + 1 + asked'[d]
  <2>1. asked' = asked BY <1>9 DEF Expire
  <2>2. row'[d].attempt = 0 BY <1>0, <1>7, <1>9, <2>1
  <2> QED BY <1>0, <2>1, <2>2, StoreAssumption
<1>10. CASE UNCHANGED storeVars BY <1>1, <1>10 DEF storeVars
<1>11. CASE StoreWrite
  <2>1. ASSUME NEW j \in Job, NEW c \in Connection, Unpause(j, c) PROVE UNCHANGED <<row, asked>>
    BY <2>1 DEF Unpause
  <2>2. ASSUME NEW c \in Connection, Pause(c) \/ Remove(c) PROVE UNCHANGED <<row, asked>>
    BY <2>2 DEF Pause, Remove
  <2>3. ASSUME NEW j \in Job, NEW e \in Delivery, Retry(j, e) PROVE Kept
    BY <1>5, <2>3 DEF Retry
  <2>4. ASSUME NEW j \in Job, NEW status, NEW ds \in SUBSET Delivery, BulkRetry(j, status, ds) PROVE Kept
    BY <1>5, <2>4 DEF BulkRetry
  <2> HIDE DEF Kept
  <2> QED BY <1>1, <1>2, <1>3, <1>4, <1>6, <1>8, <1>9, <1>11, <2>1, <2>2, <2>3, <2>4 DEF StoreWrite
<1> QED BY <1>10, <1>11, WritesToTheStore DEF vars, storeVars

(* No write to the store breaks the numbering of attempts: recordAttempt        *)
(* appends only while the number it read is the current one.                  *)
LEMMA NumberingStep == ASSUME PipelineInv, [Next]_vars PROVE AttemptsNumbered'
<1> SUFFICES ASSUME NEW d \in Delivery
             PROVE  /\ Len(attempts'[d]) = row'[d].attempt
                    /\ \A i \in 1 .. Len(attempts'[d]) : attempts'[d][i].attempt_no = i
  BY DEF AttemptsNumbered
<1>0. /\ row \in [Delivery -> Row] /\ attempts \in [Delivery -> Seq(Attempt)]
      /\ row[d] \in Row /\ row[d].attempt \in Nat /\ attempts[d] \in Seq(Attempt)
      /\ Len(attempts[d]) = row[d].attempt
      /\ \A i \in 1 .. Len(attempts[d]) : attempts[d][i].attempt_no = i
      /\ \A w \in Worker : worker[w].pc \notin {"idle", "ack"} => worker[w].delivery \in Delivery
  BY DEF PipelineInv, TypeOK, StoreTypeOK, WorkerTypeOK, Row, AttemptsNumbered
<1>a. /\ row \in [Delivery -> Row] /\ row[d] \in Row
      /\ \A w \in Worker : worker[w].pc \notin {"idle", "ack"} => worker[w].delivery \in Delivery
  BY <1>0
<1> DEFINE Kept == row'[d].attempt = row[d].attempt /\ attempts' = attempts
<1>1. CASE Kept BY <1>0, <1>1
<1>2. ASSUME NEW w \in Worker, Defer(w) \/ CloseDelivery(w) PROVE Kept
  <2>1. worker[w].delivery \in Delivery BY <1>0, <1>2 DEF Defer, CloseDelivery, At
  <2>2. CASE Defer(w) BY <1>a, <2>1, <2>2, RowFields DEF Defer
  <2>3. CASE CloseDelivery(w) BY <1>a, <2>1, <2>3, RowFields DEF CloseDelivery
  <2> QED BY <1>2, <2>2, <2>3
<1>3. ASSUME NEW w \in Worker, Record(w)
      PROVE  /\ Len(attempts'[d]) = row'[d].attempt
             /\ \A i \in 1 .. Len(attempts'[d]) : attempts'[d][i].attempt_no = i
  <2> DEFINE before == worker[w].attempt
             made == [attempt_no |-> before + 1, trigger |-> worker[w].trigger]
  <2>1. worker[w].delivery \in Delivery BY <1>0, <1>3 DEF Record, At
  <2>2. CASE row'[d] = row[d] /\ attempts'[d] = attempts[d] BY <1>0, <2>2
  <2>3. CASE ~ (row'[d] = row[d] /\ attempts'[d] = attempts[d])
    <3>0. /\ CanRecord(worker[w].delivery, before)
          /\ RecordAttempt(worker[w].delivery, before, worker[w].trigger, worker[w].outcome, worker[w].wait)
      BY <1>3, <2>3 DEF Record
    <3>1. /\ d = worker[w].delivery /\ CanRecord(d, before)
          /\ row'[d].attempt = before + 1
          /\ attempts'[d] = Append(attempts[d], made)
      <4>1. d = worker[w].delivery BY <1>0, <2>1, <2>3, <3>0 DEF RecordAttempt
      <4> QED BY <1>0, <3>0, <4>1 DEF RecordAttempt
    <3>2. before = row[d].attempt BY <3>1 DEF CanRecord
    <3>3. made.attempt_no = Len(attempts[d]) + 1 BY <1>0, <3>2
    <3> HIDE DEF made
    <3> QED BY <1>0, <3>1, <3>2, <3>3
  <2> QED BY <2>2, <2>3
<1>4. ASSUME NEW j \in Job, TouchStale(j) \/ Release(j) PROVE Kept
  <2>1. CASE TouchStale(j) BY <1>0, <2>1, RowFields DEF TouchStale
  <2>2. CASE Release(j) BY <1>0, <2>2, RowFields DEF Release, ReleaseHeld
  <2> QED BY <1>4, <2>1, <2>2
<1>5. ASSUME NEW ds \in SUBSET Delivery, MarkRetry(ds), UNCHANGED attempts PROVE Kept
  BY <1>0, <1>5, RowFields DEF MarkRetry
<1>6. ASSUME NEW j \in Job, NEW e \in Delivery, Retry(j, e) \/ CancelDelivery(j, e) PROVE Kept
  <2>1. CASE Retry(j, e) BY <1>5, <2>1 DEF Retry
  <2>2. CASE CancelDelivery(j, e) BY <1>a, <2>2, RowFields DEF CancelDelivery, Cancel
  <2> QED BY <1>6, <2>1, <2>2
<1>7. ASSUME NEW j \in Job, NEW status, NEW ds \in SUBSET Delivery, BulkRetry(j, status, ds) PROVE Kept
  BY <1>5, <1>7 DEF BulkRetry
<1>8. ASSUME NEW e \in Delivery, Expire(e)
      PROVE  /\ Len(attempts'[d]) = row'[d].attempt
             /\ \A i \in 1 .. Len(attempts'[d]) : attempts'[d][i].attempt_no = i
  BY <1>0, <1>8 DEF Expire, Purge
<1>9. CASE Tick BY <1>0, <1>9, RowFields DEF Tick, StoreTick
<1>10. CASE UNCHANGED storeVars BY <1>0, <1>10 DEF storeVars
<1>11. CASE StoreWrite
  <2>1. ASSUME NEW j \in Job, NEW c \in Connection, Unpause(j, c) PROVE Kept BY <2>1 DEF Unpause
  <2>2. ASSUME NEW c \in Connection, Pause(c) \/ Remove(c) PROVE Kept BY <2>2 DEF Pause, Remove
  <2> HIDE DEF Kept
  <2> QED BY <1>1, <1>2, <1>3, <1>4, <1>6, <1>7, <1>8, <1>9, <1>11, <2>1, <2>2 DEF StoreWrite
<1> QED BY <1>10, <1>11, WritesToTheStore DEF vars, storeVars

-----------------------------------------------------------------------------
(* The inductive invariant: it holds at the start ...                          *)
LEMMA InvInit == Init => PipelineInv
<1> SUFFICES ASSUME Init PROVE PipelineInv OBVIOUS
<1> USE TypesAssumption, StoreAssumption DEF Init
<1>1. StoreTypeOK BY DEF StoreInit, StoreTypeOK, Row, Status, OPEN, Time
<1>2. QueueTypeOK BY DEF QueueInit, QueueTypeOK, Score
<1>3. WorkerTypeOK /\ WorkersWithinBudget
  <2>1. WorkerOK(IdleWorker) BY DEF IdleWorker, WorkerOK, WorkerState, Pc, Time
  <2> QED BY <2>1, WorkersOK DEF WorkerInit, WorkerOK
<1>4. JobTypeOK
  <2>1. IdleJob \in JobState /\ IdleJob.pc = "idle" BY DEF IdleJob, JobState
  <2> QED BY <2>1 DEF JobInit, JobTypeOK
<1>5. AttemptsNumbered /\ RowsWithinBudget /\ RetryBudget
  BY DEF StoreInit, AttemptsNumbered, RowsWithinBudget, RetryBudget, Undecided
<1> QED BY <1>1, <1>2, <1>3, <1>4, <1>5 DEF PipelineInv, TypeOK

(* ... and every step keeps it.                                                *)
LEMMA InvStep == PipelineInv /\ [Next]_vars => PipelineInv'
  BY StoreTyping, QueueTyping, WorkerTyping, JobTyping, BudgetStep, NumberingStep DEF PipelineInv, TypeOK

(* The invariant holds throughout, for any number of processes, calls,         *)
(* deliveries and messages.                                                    *)
THEOREM Invariance == Spec => []PipelineInv
  BY InvInit, InvStep, PTL DEF Spec

(* Every variable always holds a value of its type: a worker that is past      *)
(* loading knows its delivery, and no time leaves the bounds of the clock.     *)
THEOREM TypeCorrect == Spec => []TypeOK
<1>1. PipelineInv => TypeOK BY DEF PipelineInv
<1> QED BY <1>1, Invariance, PTL

(* The attempts of a delivery are numbered without a gap or a repetition, for  *)
(* any number of workers sending it at the same time (recordAttempt's WHERE).  *)
THEOREM AttemptsAreNumbered == Spec => []AttemptsNumbered
<1>1. PipelineInv => AttemptsNumbered BY DEF PipelineInv
<1> QED BY <1>1, Invariance, PTL

(* No delivery is attempted more often than its connection's retries and its   *)
(* users' requests allow, however often its message is handed out.             *)
THEOREM RetriesStayInBudget == Spec => []RetryBudget
<1>1. PipelineInv => RetryBudget BY DEF PipelineInv
<1> QED BY <1>1, Invariance, PTL

-----------------------------------------------------------------------------
(* The schedulers.  A scheduler is at a list of what is due, or enqueues what   *)
(* it took; every other call and timer is some other job.                      *)
SchedulersSchedule == \A j \in Scheduler : job[j].pc \in {"idle", "take", "enqueue"}

(* What a step may do to the deliveries the schedulers hold: they give some     *)
(* away, or one of them takes one more, which was in the sorted set and no      *)
(* longer is.                                                                  *)
Keeps(j) == job'[j].ids \subseteq job[j].ids /\ job'[j].pc \in {"idle", "take", "enqueue"}
Others(j) == \A i \in Job \ {j} : job'[i] = job[i]
Takes(j, d) ==
  /\ scheduled[d] # NoTime /\ scheduled'[d] = NoTime
  /\ job'[j].ids = job[j].ids \cup {d} /\ job'[j].pc \in {"idle", "take", "enqueue"}

LEMMA ContinueIds ==
  ASSUME job \in [Job -> JobState], NEW j \in Job, NEW pc, NEW op, NEW ids, Continue(j, pc, op, ids)
  PROVE  Others(j) /\ job'[j].ids = ids /\ job'[j].pc \in {"idle", pc}
<1>1. CASE ids = {} BY <1>1 DEF Continue, IdleJob, Others
<1>2. CASE ids # {} BY <1>2 DEF Continue, IdleJob, Others
<1> QED BY <1>1, <1>2

LEMMA JobMoves ==
  ASSUME PipelineInv, SchedulersSchedule, Next
  PROVE  \/ \A j \in Scheduler : Keeps(j)
         \/ \E j \in Scheduler, d \in Delivery : Others(j) /\ Takes(j, d)
<1> DEFINE Goal == \/ \A j \in Scheduler : Keeps(j)
                   \/ \E j \in Scheduler, d \in Delivery : Others(j) /\ Takes(j, d)
<1> SUFFICES Goal OBVIOUS
<1>0. job \in [Job -> JobState] /\ Scheduler \subseteq Job BY DEF PipelineInv, TypeOK, JobTypeOK, Job
<1>1. CASE UNCHANGED job BY <1>1 DEF SchedulersSchedule, Keeps
<1>2. ASSUME NEW j \in Job, Others(j), j \in Scheduler => Keeps(j) PROVE Goal
  <2>1. ASSUME NEW i \in Scheduler PROVE Keeps(i)
    <3>1. CASE i = j BY <1>2, <3>1
    <3>2. CASE i # j BY <1>0, <1>2, <3>2 DEF Others, Keeps, SchedulersSchedule
    <3> QED BY <3>1, <3>2
  <2> QED BY <2>1
<1>3. ASSUME NEW j \in Job, j \notin Scheduler, NEW r, job' = [job EXCEPT ![j] = r] PROVE Goal
  <2>1. Others(j) BY <1>3 DEF Others, PipelineInv, TypeOK, JobTypeOK
  <2> QED BY <1>2, <1>3, <2>1
<1>4. ASSUME NEW j \in Job, NEW d \in Delivery, SendOut(j, d) \/ LoseNext(j, d) PROVE Goal
  <2>1. Continue(j, "enqueue", job[j].op, job[j].ids \ {d}) BY <1>4 DEF SendOut, EnqueueNext, LoseNext
  <2>2. Others(j) /\ job'[j].ids = job[j].ids \ {d} /\ job'[j].pc \in {"idle", "enqueue"}
    BY <1>0, <2>1, ContinueIds
  <2> QED BY <1>2, <2>2 DEF Keeps
<1>5. ASSUME NEW j \in Job, AbandonJob(j) PROVE Goal
  <2>1. Others(j) /\ job'[j] = IdleJob BY <1>0, <1>5 DEF AbandonJob, Others
  <2> QED BY <1>2, <2>1 DEF Keeps, IdleJob
<1>6. ASSUME NEW j \in Job, ListDue(j) PROVE Goal
  <2>1. Others(j) /\ job'[j].ids = {} /\ job'[j].pc = "take" BY <1>0, <1>6 DEF ListDue, Others, IdleJob
  <2> QED BY <1>2, <2>1 DEF Keeps
<1>7. ASSUME NEW j \in Job, NEW d \in Delivery, TakeDue(j, d) PROVE Goal
  <2> DEFINE taken == IF scheduled[d] = NoTime THEN job[j].ids ELSE job[j].ids \cup {d}
  <2>1. Others(j) /\ job'[j].ids = taken /\ job'[j].pc \in {"idle", "take", "enqueue"}
    <3>1. CASE Continue(j, "enqueue", "automatic", taken)
      <4> HIDE DEF taken
      <4> QED BY <1>0, <3>1, ContinueIds
    <3>2. CASE job' = [job EXCEPT ![j].due = @ \ {d}, ![j].ids = taken]
      <4> HIDE DEF taken
      <4>1. job[j] \in JobState /\ job[j].pc = "take" BY <1>0, <1>7 DEF TakeDue, JobAt
      <4>2. job'[j] = [job[j] EXCEPT !.due = @ \ {d}, !.ids = taken] BY <1>0, <3>2
      <4>3. job'[j].ids = taken /\ job'[j].pc = "take" BY <4>1, <4>2 DEF JobState
      <4>4. Others(j) BY <1>0, <3>2 DEF Others
      <4> QED BY <4>3, <4>4
    <3> QED BY <1>7, <3>1, <3>2 DEF TakeDue
  <2>2. CASE scheduled[d] = NoTime
    <3>1. Keeps(j) BY <2>1, <2>2 DEF Keeps
    <3> QED BY <1>2, <2>1, <3>1
  <2>3. CASE scheduled[d] # NoTime
    <3>1. scheduled'[d] = NoTime BY <1>7 DEF TakeDue, Unschedule
    <3>2. Takes(j, d) BY <2>1, <2>3, <3>1 DEF Takes
    <3>3. CASE j \in Scheduler BY <2>1, <3>2, <3>3
    <3>4. CASE j \notin Scheduler BY <1>2, <2>1, <3>4
    <3> QED BY <3>3, <3>4
  <2> QED BY <2>2, <2>3
<1>8. ASSUME NEW j \in Job, SweeperStep(j) \/ ApiStart(j) \/ ApiContinue(j) PROVE Goal
  <2>1. j \notin Scheduler
    <3>1. job[j].pc \in {"touch", "unschedule", "find", "release"} => j \notin Scheduler
      BY DEF SchedulersSchedule
    <3> QED BY <1>8, <3>1, PipelineAssumption
         DEF SweeperStep, FindStale, TouchStale, ApiStart, Retry, CancelDelivery, BulkRetry, Unpause,
             ApiContinue, UnscheduleIds, FindHeld, Release, JobAt
  <2>2. \E r : job' = [job EXCEPT ![j] = r]
    BY <1>8 DEF SweeperStep, FindStale, TouchStale, ApiStart, Retry, CancelDelivery, BulkRetry, Unpause,
                ApiContinue, UnscheduleIds, FindHeld, Release, Continue
  <2> QED BY <1>3, <2>1, <2>2
<1>9. CASE \/ \E w \in Worker : WorkerStep(w) \/ (Abandon(w) /\ UNCHANGED jobVars)
           \/ \E m \in MessageId : Receive(m)
           \/ \E d \in Delivery : SendNew(d) \/ LoseNew(d)
           \/ Environment \/ Tick
  <2>1. UNCHANGED job
    BY <1>9 DEF jobVars, WorkerStep, Receive, SendNew, EnqueueNew, LoseNew, Environment, Pause, Remove, Expire, Tick
  <2> QED BY <1>1, <2>1
<1>10. ASSUME NEW j \in Job, SchedulerStep(j) PROVE Goal BY <1>6, <1>7, <1>10 DEF SchedulerStep
<1> HIDE DEF Goal
<1>11. CASE Smooth
  <2>1. CASE \E j \in Job : \/ \E d \in Delivery : SendOut(j, d)
                            \/ SchedulerStep(j) \/ SweeperStep(j) \/ ApiStart(j) \/ ApiContinue(j)
    <3>1. PICK j \in Job : \/ \E d \in Delivery : SendOut(j, d)
                           \/ SchedulerStep(j) \/ SweeperStep(j) \/ ApiStart(j) \/ ApiContinue(j)
      BY <2>1
    <3> QED BY <1>4, <1>8, <1>10, <3>1
  <2> QED BY <1>9, <1>11, <2>1 DEF Smooth
<1>12. CASE Mishap BY <1>4, <1>5, <1>9, <1>12 DEF Mishap
<1> QED BY <1>11, <1>12 DEF Next

LEMMA SchedulersStay == PipelineInv /\ SchedulersSchedule /\ [Next]_vars => SchedulersSchedule'
<1> SUFFICES ASSUME PipelineInv, SchedulersSchedule, [Next]_vars PROVE SchedulersSchedule' OBVIOUS
<1>1. CASE UNCHANGED vars BY <1>1 DEF vars, jobVars, SchedulersSchedule
<1>2. CASE Next
  <2>1. CASE \A j \in Scheduler : Keeps(j) BY <2>1 DEF Keeps, SchedulersSchedule
  <2>2. CASE \E j \in Scheduler, d \in Delivery : Others(j) /\ Takes(j, d)
    BY <2>2 DEF Others, Takes, SchedulersSchedule, Job
  <2> QED BY <1>2, <2>1, <2>2, JobMoves
<1> QED BY <1>1, <1>2

(* Of a set of holders and the one a step makes of it.                         *)
LEMMA OneMoreHolder ==
  ASSUME NEW S, IsFiniteSet(S), NEW T, NEW x
  PROVE  /\ T \subseteq S => ~ (Cardinality(T) > Cardinality(S))
         /\ T = S \cup {x} /\ Cardinality(T) > Cardinality(S) => Cardinality(T) = Cardinality(S) + 1
<1>1. Cardinality(S) \in Nat BY FS_CardinalityType
<1>2. ASSUME T \subseteq S PROVE ~ (Cardinality(T) > Cardinality(S))
  <2>1. IsFiniteSet(T) /\ Cardinality(T) <= Cardinality(S) BY <1>2, FS_Subset
  <2>2. Cardinality(T) \in Nat BY <2>1, FS_CardinalityType
  <2> QED BY <1>1, <2>1, <2>2
<1>3. ASSUME T = S \cup {x}, Cardinality(T) > Cardinality(S) PROVE Cardinality(T) = Cardinality(S) + 1
  BY <1>1, <1>3, FS_AddElement
<1> QED BY <1>2, <1>3

LEMMA TakesOne ==
  ASSUME PipelineInv, SchedulersSchedule, [Next]_vars, NEW d \in Delivery
  PROVE  Holding(d)' > Holding(d) => /\ Holding(d)' = Holding(d) + 1
                                    /\ scheduled[d] # NoTime /\ scheduled'[d] = NoTime
<1> DEFINE S == {j \in Scheduler : d \in job[j].ids}
           T == {j \in Scheduler : d \in job'[j].ids}
<1>0. Holding(d) = Cardinality(S) /\ Holding(d)' = Cardinality(T) BY DEF Holding
<1>1. IsFiniteSet(S) BY PipelineAssumption, FS_Subset
<1>2. CASE T \subseteq S
  <2> HIDE DEF S, T
  <2>1. ~ (Cardinality(T) > Cardinality(S)) BY <1>1, <1>2, OneMoreHolder
  <2> QED BY <1>0, <2>1
<1>3. ASSUME NEW j \in Scheduler, T = S \cup {j}, scheduled[d] # NoTime, scheduled'[d] = NoTime
      PROVE  Holding(d)' > Holding(d) => /\ Holding(d)' = Holding(d) + 1
                                        /\ scheduled[d] # NoTime /\ scheduled'[d] = NoTime
  <2> HIDE DEF S, T
  <2>1. Cardinality(T) > Cardinality(S) => Cardinality(T) = Cardinality(S) + 1 BY <1>1, <1>3, OneMoreHolder
  <2> QED BY <1>0, <1>3, <2>1
<1>4. CASE UNCHANGED vars
  <2>1. T = S BY <1>4 DEF vars, jobVars
  <2> QED BY <1>2, <2>1
<1>5. CASE Next
  <2>1. CASE \A j \in Scheduler : Keeps(j)
    <3>1. T \subseteq S BY <2>1 DEF Keeps
    <3> QED BY <1>2, <3>1
  <2>2. ASSUME NEW j \in Scheduler, NEW e \in Delivery, Others(j), Takes(j, e)
        PROVE  T \subseteq S \/ (e = d /\ T = S \cup {j})
    <3>1. \A i \in Scheduler \ {j} : job'[i].ids = job[i].ids BY <2>2 DEF Others, Job
    <3>2. job'[j].ids = job[j].ids \cup {e} BY <2>2 DEF Takes
    <3> QED BY <3>1, <3>2
  <2>3. CASE \E j \in Scheduler, e \in Delivery : Others(j) /\ Takes(j, e)
    <3>1. PICK j \in Scheduler, e \in Delivery : Others(j) /\ Takes(j, e) BY <2>3
    <3>2. scheduled[e] # NoTime /\ scheduled'[e] = NoTime BY <3>1 DEF Takes
    <3>3. T \subseteq S \/ (e = d /\ T = S \cup {j}) BY <2>2, <3>1
    <3> HIDE DEF S, T
    <3> QED BY <1>2, <1>3, <3>2, <3>3
  <2> QED BY <1>5, <2>1, <2>3, JobMoves
<1> QED BY <1>4, <1>5

(* A due delivery is taken by the scheduler whose ZREM removed it, and by no    *)
(* other one that had it on its list, for any number of schedulers.            *)
THEOREM DueIsTakenOnce == Spec => TakenOnce
<1>1. Init => SchedulersSchedule
  <2>1. Scheduler \subseteq Job BY DEF Job
  <2> QED BY <2>1 DEF Init, JobInit, IdleJob, SchedulersSchedule
<1>2. Spec => []SchedulersSchedule BY <1>1, SchedulersStay, Invariance, PTL DEF Spec
<1>3. PipelineInv /\ SchedulersSchedule /\ [Next]_vars =>
        [\A d \in Delivery :
           Holding(d)' > Holding(d) => /\ Holding(d)' = Holding(d) + 1
                                      /\ scheduled[d] # NoTime /\ scheduled'[d] = NoTime]_vars
  BY TakesOne
<1> QED BY <1>2, <1>3, Invariance, PTL DEF Spec, TakenOnce

=============================================================================
