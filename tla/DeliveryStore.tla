--------------------------- MODULE DeliveryStore ---------------------------
(* The tables of Postgres a delivery lives in: the delivery row, its          *)
(* delivery_attempt rows, and the connection that says how it is retried and  *)
(* whether it is paused.  The operators on a row are the WHERE and the data   *)
(* of the two Prisma repositories; each is one statement or one transaction.  *)
(*                                                                            *)
(* `due` is next_attempt_at; `age` is how many ticks have gone by since       *)
(* updated_at, which Prisma rewrites on every UPDATE (@updatedAt).            *)
EXTENDS DeliveryTypes, Sequences

CONSTANTS
  Connection,   \* the connections the deliveries were made from
  ConnectionOf, \* [Delivery -> Connection], delivery.connection_id
  RetryCount    \* min(connection.retry_count, MAX_RETRIES)

ASSUME StoreAssumption ==
  /\ ConnectionOf \in [Delivery -> Connection]
  /\ RetryCount \in Nat

VARIABLES
  row,        \* row[d] is the delivery row of d
  attempts,   \* attempts[d] are its delivery_attempt rows, oldest first
  connection, \* connection[c]: is c active, paused (paused_at set) or removed
  asked       \* history: how often a user has put d back to pending

storeVars == <<row, attempts, connection, asked>>

OPEN == {"pending", "failed"}
Status == OPEN \cup {"held", "succeeded", "dead", "canceled", "gone"}

Row == [status : Status, attempt : Nat, due : Time, age : 0 .. StaleAge]
Attempt == [attempt_no : Nat, trigger : Trigger]

StoreTypeOK ==
  /\ row \in [Delivery -> Row]
  /\ attempts \in [Delivery -> Seq(Attempt)]
  /\ connection \in [Connection -> {"active", "paused", "removed"}]
  /\ asked \in [Delivery -> Nat]

StoreInit ==
  /\ row = [d \in Delivery |-> [status |-> "pending", attempt |-> 0, due |-> NoTime, age |-> 0]]
  /\ attempts = [d \in Delivery |-> <<>>]
  /\ connection = [c \in Connection |-> "active"]
  /\ asked = [d \in Delivery |-> 0]

(* "gone" is a row that has been deleted: the event expired, or the project     *)
(* went away, and the delete cascaded to the delivery and its attempts.       *)
Exists(d) == row[d].status # "gone"

IsOpen(d) == row[d].status \in OPEN
ConnectionState(d) == connection[ConnectionOf[d]]

-----------------------------------------------------------------------------
(* One UPDATE each, as a function from the row before to the row after.       *)

Written(r, s, t) == [status |-> s, attempt |-> r.attempt, due |-> t, age |-> 0]

SetStatus(r, s) == Written(r, s, NoTime)

ClosedWhatever(r, s) == SetStatus(r, s)

Closed(r, s) == IF r.status \in OPEN THEN SetStatus(r, s) ELSE r

Deferred(r, t) == IF r.status \in OPEN THEN Written(r, r.status, t) ELSE r

Touched(r) == Written(r, r.status, r.due)

Released(r) == Written(r, "pending", r.due)

(* Does the UPDATE of recordAttempt find its row?  The attempt number read     *)
(* before the request went out must still be the current one.                 *)
CanRecordOpen(d, before) == row[d].status \in OPEN
CanRecord(d, before) == row[d].attempt = before /\ row[d].status \in OPEN

(* recordAttempt: the outcome on the row and the delivery_attempt row, in one  *)
(* transaction.  `t` is next_attempt_at.                                      *)
RecordAttempt(d, before, trigger, s, t) ==
  /\ row' = [row EXCEPT ![d] = [status |-> s, attempt |-> before + 1, due |-> t, age |-> 0]]
  /\ attempts' = [attempts EXCEPT ![d] = Append(@, [attempt_no |-> before + 1, trigger |-> trigger])]

(* markRetry and markBulkRetry.                                               *)
Retryable(d) == row[d].status \notin {"pending", "gone"}
BulkRetryable(d, status) == row[d].status = status

MarkRetry(ds) ==
  /\ row' = [d \in Delivery |-> IF d \in ds THEN SetStatus(row[d], "pending") ELSE row[d]]
  /\ asked' = [d \in Delivery |-> IF d \in ds THEN asked[d] + 1 ELSE asked[d]]

Cancelable(d) == row[d].status \in {"pending", "failed", "held"}
Cancel(d) == row' = [row EXCEPT ![d] = SetStatus(@, "canceled")]

(* What the sweeper's query returns.  A failed row counts only if the time it  *)
(* was to be sent at is itself long past.                                     *)
StalePending(d) == row[d].age = StaleAge /\ row[d].status = "pending"

Stale(d) ==
  /\ row[d].age = StaleAge
  /\ \/ row[d].status = "pending"
     \/ row[d].status = "failed" /\ row[d].due = 0 - StaleAge

Purge(d) ==
  /\ row' = [row EXCEPT ![d] = [status |-> "gone", attempt |-> 0, due |-> NoTime, age |-> 0]]
  /\ attempts' = [attempts EXCEPT ![d] = <<>>]

HeldOf(c) == {d \in Delivery : ConnectionOf[d] = c /\ row[d].status = "held"}

ReleaseFound(ds) ==
  row' = [d \in Delivery |-> IF d \in ds THEN Released(row[d]) ELSE row[d]]

ReleaseHeld(ds) ==
  row' = [d \in Delivery |->
            IF d \in ds /\ row[d].status = "held" THEN Released(row[d]) ELSE row[d]]

-----------------------------------------------------------------------------
Older(r) ==
  [status |-> r.status, attempt |-> r.attempt, due |-> Sooner(r.due),
   age |-> IF r.age < StaleAge THEN r.age + 1 ELSE r.age]

StoreTick == row' = [d \in Delivery |-> Older(row[d])]

=============================================================================
