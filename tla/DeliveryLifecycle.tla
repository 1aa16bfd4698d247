------------------------- MODULE DeliveryLifecycle --------------------------
(* What the pipeline promises about the life of a delivery, without queue,    *)
(* workers or clock: which status may follow which, and that every attempt    *)
(* that counts is made on an open delivery, is one more than the last, and    *)
(* leads to another only while retries are left.                              *)
EXTENDS Naturals

CONSTANTS Delivery, RetryCount

VARIABLES
  status, \* status[d] as the API shows it
  tried,  \* tried[d] is how many attempts are on record
  granted \* granted[d] is how often a user asked for d to be sent again

lifeVars == <<status, tried, granted>>

LifeInit ==
  /\ status = [d \in Delivery |-> "pending"]
  /\ tried = [d \in Delivery |-> 0]
  /\ granted = [d \in Delivery |-> 0]

Unfinished(d) == status[d] \in {"pending", "failed"}

Try(d, s) ==
  /\ Unfinished(d)
  /\ s \in {"succeeded", "failed", "dead"}
  /\ s = "failed" => tried[d] < RetryCount
  /\ status' = [status EXCEPT ![d] = s]
  /\ tried' = [tried EXCEPT ![d] = @ + 1]
  /\ UNCHANGED granted

(* Closed without an attempt: put on hold, canceled, or given up on because    *)
(* its message was handed out too often.                                      *)
CloseUntried(d, s) ==
  /\ Unfinished(d)
  /\ s \in {"held", "canceled", "dead"}
  /\ status' = [status EXCEPT ![d] = s]
  /\ UNCHANGED <<tried, granted>>

CancelHeld(d) ==
  /\ status[d] = "held"
  /\ status' = [status EXCEPT ![d] = "canceled"]
  /\ UNCHANGED <<tried, granted>>

(* The pause is over.                                                         *)
Resume(ds) ==
  /\ \A d \in ds : status[d] = "held"
  /\ status' = [d \in Delivery |-> IF d \in ds THEN "pending" ELSE status[d]]
  /\ UNCHANGED <<tried, granted>>

(* A user wants them sent again, however they ended.                          *)
Again(ds) ==
  /\ \A d \in ds : status[d] \notin {"pending", "gone"}
  /\ status' = [d \in Delivery |-> IF d \in ds THEN "pending" ELSE status[d]]
  /\ granted' = [d \in Delivery |-> IF d \in ds THEN granted[d] + 1 ELSE granted[d]]
  /\ UNCHANGED tried

Delete(d) ==
  /\ status[d] # "gone"
  /\ status' = [status EXCEPT ![d] = "gone"]
  /\ tried' = [tried EXCEPT ![d] = 0]
  /\ UNCHANGED granted

LifeNext ==
  \/ \E d \in Delivery, s \in {"succeeded", "failed", "dead", "held", "canceled"} :
        Try(d, s) \/ CloseUntried(d, s)
  \/ \E d \in Delivery : CancelHeld(d) \/ Delete(d)
  \/ \E ds \in SUBSET Delivery : Resume(ds) \/ Again(ds)

LifeSpec == LifeInit /\ [][LifeNext]_lifeVars

=============================================================================
