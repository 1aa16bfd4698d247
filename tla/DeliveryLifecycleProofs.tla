---------------------- MODULE DeliveryLifecycleProofs -----------------------
(* The pipeline implements the lifecycle of a delivery: every step of it is   *)
(* a step of DeliveryLifecycle or leaves what a user sees of the deliveries   *)
(* as it was.                                                                 *)
EXTENDS DeliveryPipelineProofs

(* What a user sees, as the refinement maps it.                               *)
Seen == <<[d \in Delivery |-> row[d].status], [d \in Delivery |-> Len(attempts[d])], asked>>

(* The typing the steps below rest on.                                        *)
LEMMA StoreShape ==
  ASSUME PipelineInv
  PROVE  /\ row \in [Delivery -> Row] /\ attempts \in [Delivery -> Seq(Attempt)]
         /\ asked \in [Delivery -> Nat]
         /\ \A d \in Delivery : Len(attempts[d]) = row[d].attempt /\ row[d].attempt \in Nat
         /\ \A w \in Worker : worker[w].pc \notin {"idle", "ack"} => worker[w].delivery \in Delivery
  BY DEF PipelineInv, TypeOK, StoreTypeOK, WorkerTypeOK, AttemptsNumbered, Row

(* recordAttempt is an attempt that counts, or nothing when the row has moved   *)
(* on since it was read.                                                      *)
LEMMA RecordIsTry ==
  ASSUME PipelineInv, NEW w \in Worker, Record(w)
  PROVE  UNCHANGED Seen \/ \E d \in Delivery, s \in {"succeeded", "failed", "dead", "held", "canceled"} : Lifecycle!Try(d, s)
<1> DEFINE d == worker[w].delivery
           before == worker[w].attempt
           s == worker[w].outcome
           made == [attempt_no |-> before + 1, trigger |-> worker[w].trigger]
<1>1. d \in Delivery /\ asked' = asked BY StoreShape DEF Record, At
<1>2. s \in {"succeeded", "failed", "dead"} /\ (s = "failed" => before < RetryCount)
  BY DEF Record, PipelineInv, WorkersWithinBudget
<1>3. CASE ~ CanRecord(d, before)
  <2>1. row' = row /\ attempts' = attempts BY <1>3 DEF Record
  <2> QED BY <1>1, <2>1 DEF Seen
<1>4. CASE CanRecord(d, before)
  <2>1. /\ row' = [row EXCEPT ![d] = [status |-> s, attempt |-> before + 1, due |-> worker[w].wait, age |-> 0]]
        /\ attempts' = [attempts EXCEPT ![d] = Append(@, made)]
    BY <1>4 DEF Record, RecordAttempt
  <2>2. before = row[d].attempt /\ row[d].status \in {"pending", "failed"}
    BY <1>4 DEF CanRecord, OPEN
  <2>3. Len(Append(attempts[d], made)) = Len(attempts[d]) + 1 BY <1>1, StoreShape
  <2> HIDE DEF made, d, s, before
  <2>4. [e \in Delivery |-> row'[e].status] = [[e \in Delivery |-> row[e].status] EXCEPT ![d] = s]
    BY <1>1, <2>1, StoreShape
  <2>5. [e \in Delivery |-> Len(attempts'[e])] = [[e \in Delivery |-> Len(attempts[e])] EXCEPT ![d] = @ + 1]
    BY <1>1, <2>1, <2>3, StoreShape
  <2>6. Lifecycle!Try(d, s)
    BY <1>1, <1>2, <2>2, <2>4, <2>5, StoreShape DEF Lifecycle!Try, Lifecycle!Unfinished
  <2>7. d \in Delivery /\ s \in {"succeeded", "failed", "dead", "held", "canceled"} BY <1>1, <1>2
  <2>8. \E e \in Delivery, o \in {"succeeded", "failed", "dead", "held", "canceled"} : Lifecycle!Try(e, o)
    BY <2>6, <2>7 DEF Lifecycle!Try
  <2> QED BY <2>8
<1> QED BY <1>3, <1>4

(* close() ends an open delivery without an attempt, and does nothing to one    *)
(* that has been finished meanwhile.                                          *)
LEMMA CloseIsClose ==
  ASSUME PipelineInv, NEW w \in Worker, CloseDelivery(w)
  PROVE  UNCHANGED Seen \/ \E d \in Delivery, s \in {"succeeded", "failed", "dead", "held", "canceled"} : Lifecycle!CloseUntried(d, s)
<1> DEFINE d == worker[w].delivery
           s == worker[w].outcome
<1>1. d \in Delivery /\ row[d] \in Row /\ asked' = asked /\ attempts' = attempts
      /\ row' = [row EXCEPT ![d] = Closed(row[d], s)]
  BY StoreShape DEF CloseDelivery, At
<1>2. s \in {"canceled", "held", "dead"}
  BY DEF CloseDelivery, PipelineInv, WorkersWithinBudget
<1> HIDE DEF d, s
<1>3. CASE Closed(row[d], s).status = row[d].status
  <2>1. [e \in Delivery |-> row'[e].status] = [e \in Delivery |-> row[e].status]
    BY <1>1, <1>3, StoreShape
  <2> QED BY <1>1, <2>1 DEF Seen
<1>4. CASE row[d].status \in OPEN /\ Closed(row[d], s).status = s
  <2>1. [e \in Delivery |-> row'[e].status] = [[e \in Delivery |-> row[e].status] EXCEPT ![d] = s]
    BY <1>1, <1>4, StoreShape
  <2>2. Lifecycle!CloseUntried(d, s)
    BY <1>1, <1>2, <1>4, <2>1 DEF Lifecycle!CloseUntried, Lifecycle!Unfinished, OPEN
  <2>3. d \in Delivery /\ s \in {"succeeded", "failed", "dead", "held", "canceled"} BY <1>1, <1>2
  <2>4. \E e \in Delivery, o \in {"succeeded", "failed", "dead", "held", "canceled"} : Lifecycle!CloseUntried(e, o)
    BY <2>2, <2>3 DEF Lifecycle!CloseUntried
  <2> QED BY <2>4
<1> QED BY <1>1, <1>3, <1>4, RowFields

(* A cancel closes an open delivery or a held one.                            *)
LEMMA CancelIsClose ==
  ASSUME PipelineInv, NEW j \in Job, NEW d \in Delivery, CancelDelivery(j, d)
  PROVE  Lifecycle!CloseUntried(d, "canceled") \/ Lifecycle!CancelHeld(d)
<1>1. row[d] \in Row /\ asked' = asked /\ attempts' = attempts
      /\ row' = [row EXCEPT ![d] = SetStatus(row[d], "canceled")]
      /\ row[d].status \in {"pending", "failed", "held"}
  BY StoreShape DEF CancelDelivery, Cancel, Cancelable
<1>2. SetStatus(row[d], "canceled").status = "canceled" BY <1>1, RowFields
<1>3. [e \in Delivery |-> row'[e].status] = [[e \in Delivery |-> row[e].status] EXCEPT ![d] = "canceled"]
  BY <1>1, <1>2, StoreShape
<1> QED BY <1>1, <1>3 DEF Lifecycle!CloseUntried, Lifecycle!CancelHeld, Lifecycle!Unfinished

(* The release of held deliveries puts back those that are held still.         *)
LEMMA ReleaseIsResume ==
  ASSUME PipelineInv, NEW j \in Job, Release(j)
  PROVE  \E ds \in SUBSET Delivery : Lifecycle!Resume(ds)
<1> DEFINE ds == {d \in Delivery : d \in job[j].ids /\ row[d].status = "held"}
<1>1. asked' = asked /\ attempts' = attempts
      /\ row' = [d \in Delivery |-> IF d \in job[j].ids /\ row[d].status = "held" THEN Released(row[d]) ELSE row[d]]
  BY DEF Release, ReleaseHeld
<1>2. \A d \in Delivery : Released(row[d]).status = "pending" BY StoreShape, RowFields
<1>3. [d \in Delivery |-> row'[d].status] = [d \in Delivery |-> IF d \in ds THEN "pending" ELSE row[d].status]
  BY <1>1, <1>2
<1>4. Lifecycle!Resume(ds) BY <1>1, <1>3 DEF Lifecycle!Resume
<1>5. ds \in SUBSET Delivery OBVIOUS
<1> HIDE DEF ds
<1> QED BY <1>4, <1>5 DEF Lifecycle!Resume

(* Whoever is marked for a retry was not pending and is so now, with one retry  *)
(* more granted.                                                              *)
LEMMA MarkIsAgain ==
  ASSUME PipelineInv, NEW ds \in SUBSET Delivery, MarkRetry(ds), UNCHANGED attempts,
         \A d \in ds : row[d].status \notin {"pending", "gone"}
  PROVE  Lifecycle!Again(ds)
<1>1. \A d \in Delivery : SetStatus(row[d], "pending").status = "pending"
  <2>1. \A d \in Delivery : row[d] \in Row BY StoreShape
  <2> QED BY <2>1, RowFields DEF Status, OPEN
<1>2. [d \in Delivery |-> row'[d].status] = [d \in Delivery |-> IF d \in ds THEN "pending" ELSE row[d].status]
  BY <1>1 DEF MarkRetry
<1> QED BY <1>2 DEF Lifecycle!Again, MarkRetry

(* Retention deletes a delivery together with its attempts.                    *)
LEMMA ExpireIsDelete ==
  ASSUME PipelineInv, NEW d \in Delivery, Expire(d)
  PROVE  Lifecycle!Delete(d)
  BY StoreShape DEF Lifecycle!Delete, Expire, Purge, Exists

(* Nobody sees a delivery deferred, touched or growing older.                 *)
LEMMA UnseenWrites ==
  ASSUME PipelineInv, attempts' = attempts, asked' = asked,
         \A d \in Delivery : row'[d].status = row[d].status
  PROVE  UNCHANGED Seen
<1>1. [d \in Delivery |-> row'[d].status] = [d \in Delivery |-> row[d].status] OBVIOUS
<1> QED BY <1>1 DEF Seen

(* Every step of the pipeline is a step of the lifecycle or one nobody sees:    *)
(* the writes to the row, one by one.                                         *)
LEMMA LifeStep == ASSUME PipelineInv, [Next]_vars PROVE Lifecycle!LifeNext \/ UNCHANGED Seen
<1>1. CASE UNCHANGED storeVars BY <1>1, UnseenWrites DEF storeVars
<1>2. CASE StoreWrite
  <2>1. ASSUME NEW w \in Worker, Defer(w) PROVE UNCHANGED Seen
    <3>1. worker[w].delivery \in Delivery BY <2>1, StoreShape DEF Defer, At
    <3> DEFINE new == Deferred(row[worker[w].delivery], worker[w].wait)
    <3>2. row[worker[w].delivery] \in Row /\ row \in [Delivery -> Row] BY <3>1, StoreShape
    <3>3. new.status = row[worker[w].delivery].status BY <3>2, RowFields
    <3>4. row' = [row EXCEPT ![worker[w].delivery] = new] /\ attempts' = attempts /\ asked' = asked
      BY <2>1 DEF Defer
    <3> HIDE DEF new
    <3>5. \A d \in Delivery : row'[d].status = row[d].status BY <3>2, <3>3, <3>4
    <3> QED BY <3>4, <3>5, UnseenWrites
  <2>2. ASSUME NEW w \in Worker, Record(w) \/ CloseDelivery(w) PROVE Lifecycle!LifeNext \/ UNCHANGED Seen
    BY <2>2, RecordIsTry, CloseIsClose DEF Lifecycle!LifeNext
  <2>3. ASSUME NEW j \in Job, TouchStale(j) PROVE UNCHANGED Seen
    BY <2>3, StoreShape, RowFields, UnseenWrites DEF TouchStale
  <2>4. ASSUME NEW j \in Job, Release(j) PROVE Lifecycle!LifeNext
    BY <2>4, ReleaseIsResume DEF Lifecycle!LifeNext
  <2>5. ASSUME NEW j \in Job, NEW d \in Delivery, Retry(j, d) PROVE Lifecycle!LifeNext
    <3>1. Lifecycle!Again({d}) BY <2>5, MarkIsAgain DEF Retry, Retryable
    <3> QED BY <3>1 DEF Lifecycle!LifeNext
  <2>6. ASSUME NEW j \in Job, NEW d \in Delivery, CancelDelivery(j, d) PROVE Lifecycle!LifeNext
    BY <2>6, CancelIsClose DEF Lifecycle!LifeNext
  <2>7. ASSUME NEW j \in Job, NEW status \in {"dead", "failed", "canceled"}, NEW ds \in SUBSET Delivery,
               BulkRetry(j, status, ds)
        PROVE  Lifecycle!LifeNext
    <3>1. Lifecycle!Again(ds) BY <2>7, MarkIsAgain DEF BulkRetry, BulkRetryable
    <3> QED BY <3>1 DEF Lifecycle!LifeNext
  <2>8. ASSUME NEW c \in Connection, Pause(c) \/ Remove(c) \/ \E j \in Job : Unpause(j, c) PROVE UNCHANGED Seen
    BY <2>8, UnseenWrites DEF Pause, Remove, Unpause
  <2>9. ASSUME NEW d \in Delivery, Expire(d) PROVE Lifecycle!LifeNext
    BY <2>9, ExpireIsDelete DEF Lifecycle!LifeNext
  <2>10. CASE Tick BY <2>10, StoreShape, RowFields, UnseenWrites DEF Tick, StoreTick
  <2> QED BY <1>2, <2>1, <2>2, <2>3, <2>4, <2>5, <2>6, <2>7, <2>8, <2>9, <2>10 DEF StoreWrite
<1> QED BY <1>1, <1>2, WritesToTheStore DEF vars, storeVars

(* A pipeline that has just been set up shows only deliveries yet to be tried.  *)
LEMMA LifeStart == Init => Lifecycle!LifeInit
  BY DEF Init, StoreInit, Lifecycle!LifeInit

(* Whatever workers, timers, API calls and mishaps do to it, a delivery lives   *)
(* the life DeliveryLifecycle describes: this is what the pipeline of the       *)
(* repository promises its users.                                             *)
THEOREM PipelineImplementsLifecycle == Spec => ImplementsLifecycle
<1>1. PipelineInv /\ [Next]_vars => [Lifecycle!LifeNext]_Lifecycle!lifeVars
  BY LifeStep DEF Lifecycle!lifeVars, Seen
<1> QED BY <1>1, LifeStart, Invariance, PTL DEF Spec, ImplementsLifecycle, Lifecycle!LifeSpec

(* A step of the lifecycle takes a delivery that is over to another status only *)
(* by deleting it or because a user asked for it.                             *)
LEMMA LifeKeepsClosed ==
  ASSUME PipelineInv, Lifecycle!LifeNext, NEW d \in Delivery,
         row[d].status \in {"succeeded", "dead", "canceled", "gone"}, row'[d].status # row[d].status
  PROVE  row'[d].status = "gone" \/ asked'[d] = asked[d] + 1
<1> DEFINE status == [e \in Delivery |-> row[e].status]
<1>1. status[d] = row[d].status /\ status'[d] = row'[d].status OBVIOUS
<1>2. asked \in [Delivery -> Nat] BY StoreShape
<1> HIDE DEF status
<1>3. ASSUME NEW e \in Delivery, NEW s, status' = [status EXCEPT ![e] = s],
             status[e] \notin {"succeeded", "dead", "canceled", "gone"} \/ s = "gone"
      PROVE  row'[d].status = "gone"
  <2>1. status = [x \in Delivery |-> status[x]] BY DEF status
  <2> QED BY <1>1, <1>3, <2>1
<1>4. ASSUME NEW e \in Delivery, NEW s \in {"succeeded", "failed", "dead", "held", "canceled"},
             Lifecycle!Try(e, s) \/ Lifecycle!CloseUntried(e, s)
      PROVE  row'[d].status = "gone"
  BY <1>3, <1>4 DEF Lifecycle!Try, Lifecycle!CloseUntried, Lifecycle!Unfinished, status
<1>5. ASSUME NEW e \in Delivery, Lifecycle!CancelHeld(e) \/ Lifecycle!Delete(e)
      PROVE  row'[d].status = "gone"
  BY <1>3, <1>5 DEF Lifecycle!CancelHeld, Lifecycle!Delete, status
<1>6. ASSUME NEW ds \in SUBSET Delivery, Lifecycle!Resume(ds) \/ Lifecycle!Again(ds)
      PROVE  asked'[d] = asked[d] + 1
  <2>1. d \in ds /\ Lifecycle!Again(ds)
    BY <1>6 DEF Lifecycle!Resume, Lifecycle!Again
  <2> QED BY <1>2, <2>1 DEF Lifecycle!Again
<1> QED BY <1>4, <1>5, <1>6 DEF Lifecycle!LifeNext

(* No result, deferral, release or close that was decided on an older reading   *)
(* of the row reopens or relabels a delivery that is over; only the users'      *)
(* retries (markRetry, markBulkRetry) do, and retention deletes it.            *)
THEOREM ClosedIsFinal == Spec => ClosedStaysClosed
<1> DEFINE Kept == \A d \in Delivery :
             row[d].status \in {"succeeded", "dead", "canceled", "gone"} /\ row'[d].status # row[d].status
               => row'[d].status = "gone" \/ asked'[d] = asked[d] + 1
<1>1. ASSUME PipelineInv, [Next]_vars PROVE Kept
  <2>1. CASE Lifecycle!LifeNext BY <1>1, <2>1, LifeKeepsClosed
  <2>2. CASE UNCHANGED Seen
    <3>1. [d \in Delivery |-> row'[d].status] = [d \in Delivery |-> row[d].status] BY <2>2 DEF Seen
    <3>2. ASSUME NEW d \in Delivery PROVE row'[d].status = row[d].status
      <4>1. row'[d].status = [e \in Delivery |-> row'[e].status][d] OBVIOUS
      <4> QED BY <3>1, <4>1
    <3> QED BY <3>2
  <2> QED BY <1>1, <2>1, <2>2, LifeStep
<1>2. PipelineInv /\ [Next]_vars => [Kept]_vars BY <1>1
<1> HIDE DEF Kept
<1>3. Spec => [][Kept]_vars BY <1>2, Invariance, PTL DEF Spec
<1> QED BY <1>3 DEF ClosedStaysClosed, Kept

=============================================================================
