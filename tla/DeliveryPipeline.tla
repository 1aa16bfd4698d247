-------------------------- MODULE DeliveryPipeline --------------------------
(* The delivery pipeline: workers, timers and API calls around the tables and *)
(* the queue, in every order their awaits allow, with processes that die and  *)
(* commands that are lost.                                                    *)
EXTENDS DeliveryWorker, DeliveryJobs, FiniteSets

(* The timer of a scheduler does nothing else.                                *)
ASSUME PipelineAssumption == IsFiniteSet(Scheduler) /\ Scheduler \cap (Sweeper \cup Client) = {}

vars == <<storeVars, queueVars, worker, jobVars>>

TypeOK == StoreTypeOK /\ QueueTypeOK /\ WorkerTypeOK /\ JobTypeOK

Init == StoreInit /\ QueueInit /\ WorkerInit /\ JobInit

(* XADD never gives an id twice; here an id is used again once no call holds  *)
(* it any more.                                                               *)
Fresh(m) == ~ InStream(m) /\ \A w \in Worker : worker[w].message # m

WorkerStep(w) == Proceed(w) /\ UNCHANGED jobVars

Receive(m) == (\E w \in Worker : Consume(w, m) \/ TakeOver(w, m)) /\ UNCHANGED jobVars

SendNew(d) == (\E m \in MessageId : Fresh(m) /\ EnqueueNew(d, m)) /\ UNCHANGED worker

SendOut(j, d) == (\E m \in MessageId : Fresh(m) /\ EnqueueNext(j, d, m)) /\ UNCHANGED worker

SchedulerStep(j) == (ListDue(j) \/ \E d \in Delivery : TakeDue(j, d)) /\ UNCHANGED worker

SweeperStep(j) == (FindStale(j) \/ TouchStale(j)) /\ UNCHANGED worker

(* A call that has come in.                                                   *)
ApiStart(j) ==
  /\ \/ \E d \in Delivery : Retry(j, d) \/ CancelDelivery(j, d)
     \/ \E status \in {"dead", "failed", "canceled"}, ds \in SUBSET Delivery : BulkRetry(j, status, ds)
     \/ \E c \in Connection : Unpause(j, c)
  /\ UNCHANGED worker

(* The same call, further on.                                                 *)
ApiContinue(j) == (UnscheduleIds(j) \/ FindHeld(j) \/ Release(j)) /\ UNCHANGED worker

Environment ==
  /\ \/ \E c \in Connection : Pause(c) \/ Remove(c)
     \/ \E d \in Delivery : Expire(d)
  /\ UNCHANGED worker

Tick ==
  /\ StoreTick
  /\ QueueTick
  /\ WorkerTick
  /\ UNCHANGED <<attempts, connection, asked, jobVars>>

(* Nothing is lost and nobody dies.                                           *)
Smooth ==
  \/ \E w \in Worker : WorkerStep(w)
  \/ \E m \in MessageId : Receive(m)
  \/ \E d \in Delivery : SendNew(d)
  \/ \E j \in Job : \/ \E d \in Delivery : SendOut(j, d)
                    \/ SchedulerStep(j)
                    \/ SweeperStep(j)
                    \/ ApiStart(j)
                    \/ ApiContinue(j)
  \/ Environment
  \/ Tick

Mishap ==
  \/ \E w \in Worker : Abandon(w) /\ UNCHANGED jobVars
  \/ \E j \in Job : AbandonJob(j) /\ UNCHANGED worker
  \/ \E j \in Job, d \in Delivery : LoseNext(j, d) /\ UNCHANGED worker
  \/ \E d \in Delivery : LoseNew(d) /\ UNCHANGED worker

Next == Smooth \/ Mishap

Spec == Init /\ [][Next]_vars

(* What the scheduling of the code justifies.  Awaits resolve and timers fire; *)
(* a worker may be cut off every time it processes some message, and that is   *)
(* why MAX_DELIVERIES exists, but not every time it merely closes the delivery *)
(* of such a message; reads and timers run again until they get through.       *)
ClosePoisoned(w) == worker[w].outcome = "dead" /\ CloseDelivery(w) /\ UNCHANGED jobVars

Fairness ==
  /\ WF_vars(Tick)
  /\ \A w \in Worker : /\ WF_vars(WorkerStep(w))
                       /\ SF_vars(ClosePoisoned(w))
  /\ \A m \in MessageId : SF_vars(Receive(m))
  /\ \A j \in Scheduler : WF_vars(SchedulerStep(j))
  /\ \A j \in Sweeper : WF_vars(SweeperStep(j)) /\ SF_vars(TouchStale(j) /\ UNCHANGED worker)
  /\ \A j \in Client : WF_vars(ApiContinue(j))
  /\ \A j \in Job, d \in Delivery : SF_vars(SendOut(j, d))

FairSpec == Spec /\ Fairness

(* The same with nothing going wrong, for claims that fail even then.         *)
SmoothFairSpec == Init /\ [][Smooth]_vars /\ Fairness /\ \A d \in Delivery : WF_vars(SendNew(d))

-----------------------------------------------------------------------------
(* The rows of delivery_attempt are numbered 1, 2, 3 ... and the delivery row  *)
(* says how many there are, although several workers may be sending the same   *)
(* delivery at once: the attempt number read before sending decides whose      *)
(* result counts.                                                              *)
AttemptsNumbered ==
  \A d \in Delivery :
    /\ Len(attempts[d]) = row[d].attempt
    /\ \A i \in 1 .. Len(attempts[d]) : attempts[d][i].attempt_no = i

(* A delivery is attempted at most once and RetryCount times more, plus once   *)
(* for every time a user asked for it, whatever is sent twice on the way.      *)
RetryBudget == \A d \in Delivery : row[d].attempt <= RetryCount + 1 + asked[d]

(* Why: whoever is about to record a failure to be retried was within the       *)
(* budget when it read the attempt number, and whatever can still be sent has   *)
(* an attempt left.  With the types and the numbering this is inductive.       *)
Undecided == {"pending", "failed", "held"}

WorkersWithinBudget ==
  \A w \in Worker :
    /\ At(w, "record") => worker[w].outcome \in {"succeeded", "failed", "dead"}
    /\ At(w, "close") => worker[w].outcome \in {"canceled", "held", "dead"}
    /\ At(w, "record") /\ worker[w].outcome = "failed" => worker[w].attempt < RetryCount
    /\ At(w, "record") /\ worker[w].outcome = "failed" => worker[w].wait \in Ticks
    /\ worker[w].pc \in {"defer", "schedule"} => worker[w].wait \in Ticks

RowsWithinBudget ==
  \A d \in Delivery : row[d].status \in Undecided => row[d].attempt <= RetryCount + asked[d]

PipelineInv == TypeOK /\ WorkersWithinBudget /\ RowsWithinBudget /\ AttemptsNumbered /\ RetryBudget

(* What is over stays over: a result, a deferral, a release or a close that    *)
(* was decided on an older reading of the row cannot bring a delivery back     *)
(* that has succeeded, died, been canceled or been deleted.  Only a user's     *)
(* retry does.                                                                *)
ClosedStaysClosed ==
  [][\A d \in Delivery :
       row[d].status \in {"succeeded", "dead", "canceled", "gone"} /\ row'[d].status # row[d].status
         => row'[d].status = "gone" \/ asked'[d] = asked[d] + 1]_vars

(* However many schedulers run, and whatever they saw when they listed what     *)
(* was due: an entry of the sorted set is taken out by one of them.            *)
Holding(d) == Cardinality({j \in Scheduler : d \in job[j].ids})

TakenOnce ==
  [][\A d \in Delivery :
       Holding(d)' > Holding(d) => /\ Holding(d)' = Holding(d) + 1
                                  /\ scheduled[d] # NoTime /\ scheduled'[d] = NoTime]_vars

(* Nothing is forgotten: whatever is lost or dies on the way, a delivery stays *)
(* open for ever only if its destination turns it away for ever.  (A process    *)
(* may die each time it handles one message, and the connection may be paused,  *)
(* resumed or removed at any time.)                                            *)
Deferring(d) == \E w \in Worker : At(w, "defer") /\ worker[w].delivery = d

OpenOnlyWhileDeferred ==
  \A d \in Delivery :
    <>[]IsOpen(d) => []<>(Deferring(d) /\ ConnectionState(d) = "active")

(* The pipeline implements the lifecycle of a delivery.                        *)
Lifecycle == INSTANCE DeliveryLifecycle WITH
  status <- [d \in Delivery |-> row[d].status],
  tried <- [d \in Delivery |-> Len(attempts[d])],
  granted <- asked

ImplementsLifecycle == Lifecycle!LifeSpec

-----------------------------------------------------------------------------
(* What comments of the repository say of the pipeline.                        *)

(* schema.prisma of `held`: once the pause is over it goes back to pending.    *)
HeldIsReleased ==
  \A d \in Delivery :
    []((row[d].status = "held" /\ ConnectionState(d) = "active")
         => <>(row[d].status # "held" \/ ConnectionState(d) # "active"))

(* schema.prisma of delivery.connection: deleting the connection closes what    *)
(* was waiting as canceled.                                                    *)
RemovedIsCanceled ==
  \A d \in Delivery : ConnectionState(d) = "removed" ~> row[d].status \notin {"pending", "failed", "held"}

=============================================================================
