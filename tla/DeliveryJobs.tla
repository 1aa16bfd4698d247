---------------------------- MODULE DeliveryJobs ----------------------------
(* Everything besides the workers that puts deliveries into the queue or      *)
(* takes them out of it: ingress once an event is stored, the scheduler and   *)
(* the sweeper of the consumer processes, and the calls of the management API *)
(* (retry, bulk retry, cancel, pause, unpause, removal), with the retention   *)
(* job that deletes rows under all of them.                                   *)
(*                                                                            *)
(* They share one shape: a statement in Postgres picks deliveries, then the   *)
(* queue is told about them one command at a time.  Any of them can be cut    *)
(* off in between, and a command of a pipeline can fail without anyone being  *)
(* told (exec() of ioredis does not reject on the error of one command).      *)
EXTENDS DeliveryStore, DeliveryQueue

CONSTANTS
  Scheduler, Sweeper, \* one timer each per consumer process
  Client,             \* concurrent calls of the management API
  NoConnection,
  Expirable,          \* deliveries old enough to be deleted with their event
  MaxAsked            \* user retries of one delivery (bound)

ASSUME JobsAssumption == Expirable \subseteq Delivery /\ MaxAsked \in Nat

VARIABLES
  job,    \* job[j] is the call or timer run j has under way
  unsent  \* deliveries ingress has stored and not yet put into the queue

jobVars == <<job, unsent>>

Job == Scheduler \cup Sweeper \cup Client
Op == {"automatic", "sweep", "manual", "bulk_retry", "unpause", "cancel"}
NoOp == "none"

JobState ==
  [pc : {"idle", "take", "touch", "unschedule", "find", "release", "enqueue"},
   op : Op \cup {NoOp}, due : SUBSET Delivery, ids : SUBSET Delivery,
   connection : Connection \cup {NoConnection}]

IdleJob == [pc |-> "idle", op |-> NoOp, due |-> {}, ids |-> {}, connection |-> NoConnection]

JobTypeOK ==
  /\ job \in [Job -> JobState]
  /\ \A j \in Job : job[j].pc = "find" => job[j].connection \in Connection
  /\ \A j \in Job : job[j].pc = "unschedule" => job[j].op \in Op
  /\ \A j \in Job : job[j].pc = "enqueue" => job[j].op \in Op \ {"cancel"}
  /\ unsent \in SUBSET Delivery

JobInit ==
  /\ job = [j \in Job |-> IdleJob]
  /\ unsent = Delivery

JobAt(j, pc) == job[j].pc = pc

(* What the enqueued item says about why it is sent.                          *)
TriggerOf(op) == IF op = "sweep" THEN NoTrigger ELSE op

(* Goes on with `ids`, or is done when there are none.                        *)
Continue(j, pc, op, ids) ==
  job' = [job EXCEPT ![j] = IF ids = {} THEN IdleJob
                            ELSE [IdleJob EXCEPT !.pc = pc, !.op = op, !.ids = ids]]

-----------------------------------------------------------------------------
(* Ingress has committed the event and its deliveries; the caller is answered *)
(* 200 whether or not this succeeds.                                          *)
EnqueueNew(d, m) ==
  /\ d \in unsent
  /\ Enqueue(m, d, "initial")
  /\ unsent' = unsent \ {d}
  /\ UNCHANGED <<storeVars, scheduled, job>>

LoseNew(d) ==
  /\ d \in unsent
  /\ unsent' = unsent \ {d}
  /\ UNCHANGED <<storeVars, queueVars, job>>

(* enqueue(): the next XADD of the pipeline, and one that fails unnoticed.    *)
EnqueueNext(j, d, m) ==
  /\ JobAt(j, "enqueue")
  /\ d \in job[j].ids
  /\ Enqueue(m, d, TriggerOf(job[j].op))
  /\ Continue(j, "enqueue", job[j].op, job[j].ids \ {d})
  /\ UNCHANGED <<storeVars, scheduled, unsent>>

LoseNext(j, d) ==
  /\ JobAt(j, "enqueue")
  /\ d \in job[j].ids
  /\ Continue(j, "enqueue", job[j].op, job[j].ids \ {d})
  /\ UNCHANGED <<storeVars, queueVars, unsent>>

(* The process is killed, or the statement or command rejects.                *)
AbandonJob(j) ==
  /\ ~ JobAt(j, "idle")
  /\ job' = [job EXCEPT ![j] = IdleJob]
  /\ UNCHANGED <<storeVars, queueVars, unsent>>

-----------------------------------------------------------------------------
(* The scheduler.  takeDue lists what is due, then removes member by member;   *)
(* only the one whose ZREM finds the member takes it.  The score is not looked *)
(* at again.                                                                  *)
ListDue(j) ==
  /\ j \in Scheduler /\ JobAt(j, "idle")
  /\ \E d \in Delivery : Due(d)
  /\ job' = [job EXCEPT ![j] = [IdleJob EXCEPT !.pc = "take", !.op = "automatic",
                                               !.due = {d \in Delivery : Due(d)}]]
  /\ UNCHANGED <<storeVars, queueVars, unsent>>

TakeListed(j, d) ==
  /\ JobAt(j, "take")
  /\ d \in job[j].due
  /\ Unschedule({d})
  /\ IF job[j].due = {d}
     THEN Continue(j, "enqueue", "automatic", job[j].ids \cup {d})
     ELSE job' = [job EXCEPT ![j].due = @ \ {d}, ![j].ids = @ \cup {d}]
  /\ UNCHANGED <<storeVars, stream, unsent>>

TakeDue(j, d) ==
  LET taken == IF scheduled[d] = NoTime THEN job[j].ids ELSE job[j].ids \cup {d} IN
  /\ JobAt(j, "take")
  /\ d \in job[j].due
  /\ Unschedule({d})
  /\ IF job[j].due = {d}
     THEN Continue(j, "enqueue", "automatic", taken)
     ELSE job' = [job EXCEPT ![j].due = @ \ {d}, ![j].ids = taken]
  /\ UNCHANGED <<storeVars, stream, unsent>>

(* The sweeper.                                                               *)
FindStale(j) ==
  /\ j \in Sweeper /\ JobAt(j, "idle")
  /\ \E d \in Delivery : Stale(d)
  /\ Continue(j, "touch", "sweep", {d \in Delivery : Stale(d)})
  /\ UNCHANGED <<storeVars, queueVars, unsent>>

TouchStale(j) ==
  /\ JobAt(j, "touch")
  /\ row' = [d \in Delivery |-> IF d \in job[j].ids THEN Touched(row[d]) ELSE row[d]]
  /\ Continue(j, "enqueue", "sweep", job[j].ids)
  /\ UNCHANGED <<attempts, connection, asked, queueVars, unsent>>

-----------------------------------------------------------------------------
(* The management API.                                                        *)
Retry(j, d) ==
  /\ j \in Client /\ JobAt(j, "idle")
  /\ asked[d] < MaxAsked
  /\ Retryable(d)
  /\ MarkRetry({d})
  /\ Continue(j, "unschedule", "manual", {d})
  /\ UNCHANGED <<attempts, connection, queueVars, unsent>>

(* The rows are picked first and marked by a second statement that tests their *)
(* status again, so what is marked is some of the rows that have it then.     *)
BulkRetry(j, status, ds) ==
  /\ j \in Client /\ JobAt(j, "idle")
  /\ ds # {}
  /\ \A d \in ds : asked[d] < MaxAsked /\ BulkRetryable(d, status)
  /\ MarkRetry(ds)
  /\ Continue(j, "unschedule", "bulk_retry", ds)
  /\ UNCHANGED <<attempts, connection, queueVars, unsent>>

CancelDelivery(j, d) ==
  /\ j \in Client /\ JobAt(j, "idle")
  /\ Cancelable(d)
  /\ Cancel(d)
  /\ Continue(j, "unschedule", "cancel", {d})
  /\ UNCHANGED <<attempts, connection, asked, queueVars, unsent>>

UnscheduleIds(j) ==
  /\ JobAt(j, "unschedule")
  /\ Unschedule(job[j].ids)
  /\ Continue(j, "enqueue", job[j].op, IF job[j].op = "cancel" THEN {} ELSE job[j].ids)
  /\ UNCHANGED <<storeVars, stream, unsent>>

Pause(c) ==
  /\ connection[c] = "active"
  /\ connection' = [connection EXCEPT ![c] = "paused"]
  /\ UNCHANGED <<row, attempts, asked, queueVars, jobVars>>

(* unpause clears paused_at and then releases what was held, in three more    *)
(* steps.  It does not ask whether the connection was paused.                 *)
Unpause(j, c) ==
  /\ j \in Client /\ JobAt(j, "idle")
  /\ connection[c] # "removed"
  /\ connection' = [connection EXCEPT ![c] = "active"]
  /\ job' = [job EXCEPT ![j] = [IdleJob EXCEPT !.pc = "find", !.op = "unpause", !.connection = c]]
  /\ UNCHANGED <<row, attempts, asked, queueVars, unsent>>

(* connection_id is NULL once the connection is gone, so nothing is found.    *)
FindHeld(j) ==
  /\ JobAt(j, "find")
  /\ LET c == job[j].connection IN
     Continue(j, "release", "unpause", IF connection[c] = "removed" THEN {} ELSE HeldOf(c))
  /\ UNCHANGED <<storeVars, queueVars, unsent>>

(* The ids found are enqueued, held still or not.                             *)
Release(j) ==
  /\ JobAt(j, "release")
  /\ ReleaseHeld(job[j].ids)
  /\ Continue(j, "enqueue", "unpause", job[j].ids)
  /\ UNCHANGED <<attempts, connection, asked, queueVars, unsent>>

(* The connection, its source or its destination is deleted.                  *)
Remove(c) ==
  /\ connection[c] # "removed"
  /\ connection' = [connection EXCEPT ![c] = "removed"]
  /\ UNCHANGED <<row, attempts, asked, queueVars, jobVars>>

(* The event has expired and retention deletes it, or its project is deleted. *)
Expire(d) ==
  /\ d \in Expirable /\ Exists(d)
  /\ Purge(d)
  /\ UNCHANGED <<connection, asked, queueVars, jobVars>>

=============================================================================
