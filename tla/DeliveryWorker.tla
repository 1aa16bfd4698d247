--------------------------- MODULE DeliveryWorker ---------------------------
(* The consumer process: DeliveryRunner hands each message it reads or takes  *)
(* over to DeliveryWorker.process, and acknowledges it when that returns.     *)
(*                                                                            *)
(* A worker here is one call of handle(); a process runs up to ten at a time  *)
(* and there are several processes.  Every await is a point where others run, *)
(* so every await ends a step.  The guard of the destination (semaphore and   *)
(* circuit breaker) is reduced to its verdict, admit or refuse, and the       *)
(* destination to its answer.  Project suspension is not modelled: nothing in *)
(* the backend writes project.suspended_at yet.                               *)
EXTENDS DeliveryStore, DeliveryQueue

CONSTANTS
  Worker,      \* concurrent calls of handle()
  NoDelivery,
  RetryWaits,  \* ticks until the next attempt: backoff with jitter, Retry-After
  DeferWaits   \* ticks a refused delivery is put off

ASSUME WorkerAssumption ==
  /\ RetryWaits \subseteq Ticks
  /\ DeferWaits \subseteq Ticks

VARIABLE worker \* worker[w] is what the call knows and where it is

Pc == {"idle", "load", "guard", "defer", "send", "record", "schedule", "close", "ack"}
NoOutcome == "none"

WorkerState ==
  [pc : Pc, message : MessageId \cup {NoMessage}, delivery : Delivery \cup {NoDelivery},
   trigger : Trigger \cup {NoTrigger}, attempt : Nat, outcome : Status \cup {NoOutcome}, wait : Time]

IdleWorker ==
  [pc |-> "idle", message |-> NoMessage, delivery |-> NoDelivery,
   trigger |-> NoTrigger, attempt |-> 0, outcome |-> NoOutcome, wait |-> NoTime]

WorkerTypeOK ==
  /\ worker \in [Worker -> WorkerState]
  /\ \A w \in Worker : worker[w].pc \notin {"idle", "ack"} => worker[w].delivery \in Delivery
  /\ \A w \in Worker : worker[w].pc # "idle" => worker[w].message \in MessageId
  /\ \A w \in Worker : worker[w].pc \in {"guard", "send", "record"} => worker[w].trigger \in Trigger

WorkerInit == worker = [w \in Worker |-> IdleWorker]

At(w, pc) == worker[w].pc = pc
Goto(w, pc) == worker' = [worker EXCEPT ![w].pc = pc]
Decide(w, pc, s) == worker' = [worker EXCEPT ![w].pc = pc, ![w].outcome = s]

(* process() returns; only the message is still needed.                       *)
Done(w) ==
  worker' = [worker EXCEPT ![w] = [IdleWorker EXCEPT !.pc = "ack", !.message = worker[w].message]]

-----------------------------------------------------------------------------
(* handle(): a message handed out too often closes its delivery as dead       *)
(* ('worker_failed') instead of being processed.                              *)
Poisoned(times) == times > MaxDeliveries

Handle(w, m, times) ==
  worker' = [worker EXCEPT ![w] =
    [IdleWorker EXCEPT !.message = m,
                       !.delivery = stream[m].delivery,
                       !.trigger = stream[m].trigger,
                       !.pc = IF Poisoned(times) THEN "close" ELSE "load",
                       !.outcome = IF Poisoned(times) THEN "dead" ELSE NoOutcome]]

Consume(w, m) == At(w, "idle") /\ Read(m) /\ Handle(w, m, 1) /\ UNCHANGED <<storeVars, scheduled>>

TakeOver(w, m) ==
  /\ At(w, "idle")
  /\ Reclaim(m)
  /\ Handle(w, m, stream[m].times + 1)
  /\ UNCHANGED <<storeVars, scheduled>>

(* process(): one query reads the row with its destination and connection;    *)
(* everything decided later is decided on this snapshot.                      *)
Load(w) ==
  LET d == worker[w].delivery IN
  /\ At(w, "load")
  /\ \/ ~ IsOpen(d) /\ Done(w)
     \/ IsOpen(d) /\ ConnectionState(d) = "removed" /\ Decide(w, "close", "canceled")
     \/ IsOpen(d) /\ ConnectionState(d) = "paused" /\ Decide(w, "close", "held")
     \/ /\ IsOpen(d)
        /\ ConnectionState(d) = "active"
        /\ worker' = [worker EXCEPT
             ![w].pc = "guard",
             ![w].attempt = row[d].attempt,
             ![w].trigger = IF @ # NoTrigger THEN @
                            ELSE IF row[d].attempt = 0 THEN "initial" ELSE "automatic"]
  /\ UNCHANGED <<storeVars, queueVars>>

(* The destination lets the request through: from here it is on the wire.     *)
Admit(w) == At(w, "guard") /\ Goto(w, "send") /\ UNCHANGED <<storeVars, queueVars>>

(* The circuit is open, somebody else has the probe, or no slot is free.      *)
Refuse(w) ==
  /\ At(w, "guard")
  /\ \E t \in DeferWaits : worker' = [worker EXCEPT ![w].pc = "defer", ![w].wait = t]
  /\ UNCHANGED <<storeVars, queueVars>>

Defer(w) ==
  LET d == worker[w].delivery IN
  /\ At(w, "defer")
  /\ row' = [row EXCEPT ![d] = Deferred(@, worker[w].wait)]
  /\ Goto(w, "schedule")
  /\ UNCHANGED <<attempts, connection, asked, queueVars>>

(* When to try again after a failure, NoTime for never: the retries are used   *)
(* up, or the next one would fall outside the seven-day window.               *)
OneRetryMore(retriesDone) ==
  IF retriesDone > RetryCount THEN {NoTime} ELSE RetryWaits \cup {NoTime}

BeyondTheWindow(retriesDone) ==
  IF retriesDone >= RetryCount THEN {NoTime} ELSE {t + MaxWait : t \in RetryWaits}

NextAttemptAt(retriesDone) ==
  IF retriesDone >= RetryCount THEN {NoTime} ELSE RetryWaits \cup {NoTime}

(* The answer arrives: 2xx, or anything else including none at all.           *)
Succeed(w) == At(w, "send") /\ Decide(w, "record", "succeeded") /\ UNCHANGED <<storeVars, queueVars>>

Fail(w) ==
  /\ At(w, "send")
  /\ \E t \in NextAttemptAt(worker[w].attempt) :
        worker' = [worker EXCEPT ![w].pc = "record", ![w].wait = t,
                                 ![w].outcome = IF t = NoTime THEN "dead" ELSE "failed"]
  /\ UNCHANGED <<storeVars, queueVars>>

Record(w) ==
  LET d == worker[w].delivery
      s == worker[w].outcome IN
  /\ At(w, "record")
  /\ \/ /\ CanRecord(d, worker[w].attempt)
        /\ RecordAttempt(d, worker[w].attempt, worker[w].trigger, s, worker[w].wait)
        /\ IF s = "failed" THEN Goto(w, "schedule") ELSE Done(w)
     \/ /\ ~ CanRecord(d, worker[w].attempt)
        /\ Done(w)
        /\ UNCHANGED <<row, attempts>>
  /\ UNCHANGED <<connection, asked, queueVars>>

ScheduleRetry(w) ==
  /\ At(w, "schedule")
  /\ Schedule(worker[w].delivery, worker[w].wait)
  /\ Done(w)
  /\ UNCHANGED <<storeVars, stream>>

CloseDelivery(w) ==
  LET d == worker[w].delivery IN
  /\ At(w, "close")
  /\ row' = [row EXCEPT ![d] = Closed(@, worker[w].outcome)]
  /\ Done(w)
  /\ UNCHANGED <<attempts, connection, asked, queueVars>>

Acknowledge(w) ==
  /\ At(w, "ack")
  /\ Ack(worker[w].message)
  /\ worker' = [worker EXCEPT ![w] = IdleWorker]
  /\ UNCHANGED <<storeVars, scheduled>>

(* An await throws, or the process is killed: the message stays pending.      *)
Abandon(w) ==
  /\ ~ At(w, "idle")
  /\ worker' = [worker EXCEPT ![w] = IdleWorker]
  /\ UNCHANGED <<storeVars, queueVars>>

Proceed(w) ==
  \/ Load(w) \/ Admit(w) \/ Refuse(w) \/ Defer(w) \/ Succeed(w) \/ Fail(w)
  \/ Record(w) \/ ScheduleRetry(w) \/ CloseDelivery(w) \/ Acknowledge(w)

(* The time of the next attempt counts from the start of process(), so it     *)
(* draws nearer while the request is under way.                               *)
WorkerTick == worker' = [w \in Worker |-> [worker[w] EXCEPT !.wait = Sooner(@)]]

=============================================================================
