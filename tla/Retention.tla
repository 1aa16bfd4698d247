------------------------------ MODULE Retention ------------------------------
(* What each worker process does every hour: plan by plan it deletes the events *)
(* and then the rejections that are older than their plan keeps them, BATCH at  *)
(* a time.  Processes do not know of each other.  With an event its deliveries  *)
(* and attempts go; what that does to calls in flight is in DeliveryPipeline.   *)
EXTENDS Integers, FiniteSets, SequencesExt

CONSTANTS
  Process,
  Staying,        \* a process that is not shut down for good
  Row,            \* ids of event and of rejected_request
  Kind,           \* "event" or "rejection"
  Organization,
  OwnerOf,        \* the organization of its one project
  PLANS,
  RETENTION_DAYS,
  BATCH,
  Deleted,
  PlanChanges     \* bound: how often some plan changes

ASSUME RetentionAssumption ==
  /\ Staying \in Process
  /\ Row \subseteq Nat /\ Kind \in [Row -> {"event", "rejection"}] /\ OwnerOf \in [Row -> Organization]
  /\ RETENTION_DAYS \in [ToSet(PLANS) -> Nat] /\ BATCH \in Nat \ {0} /\ Deleted \notin Nat

VARIABLES
  days,    \* of each row, since it was received
  plan,    \* of each organization
  changed, \* how often a plan was changed
  batch    \* of each process: what it still has to drain, what it deletes

retention == <<days, plan, changed, batch>>

Idle == [pc |-> "idle", drains |-> <<>>, old |-> <<>>, ids |-> {}, plans |-> <<>>]
Drains == FlattenSeq([i \in DOMAIN PLANS |-> <<<<PLANS[i], "event">>, <<PLANS[i], "rejection">>>>])

(* Beyond this many days no plan keeps a row; the model counts no further.      *)
Longest == Max(Range(RETENTION_DAYS)) + 1

Stored(r) == days[r] # Deleted
BeforeCutoff(p) == {r \in Row : Stored(r) /\ days[r] > RETENTION_DAYS[p]}

(* The rows the statement is for: old when the run began, and of an             *)
(* organization that has the plan as the statement starts.                      *)
ExpiredOnAnyPlan(b) == {r \in Row : r \in b.old[b.drains[1][1]] /\ Stored(r) /\ Kind[r] = b.drains[1][2]}
Expired(b) == {r \in ExpiredOnAnyPlan(b) : plan[OwnerOf[r]] = b.drains[1][1]}

OldestOf(rows) == {r \in rows : Cardinality({q \in rows : q < r}) < BATCH}

RetentionInit ==
  /\ days \in [Row -> 0 .. Longest] /\ plan \in [Organization -> ToSet(PLANS)] /\ changed = 0
  /\ batch = [p \in Process |-> Idle]

(* A tick of the timer, unless the last run has not ended.                      *)
Begin(p) ==
  /\ batch[p].pc = "idle"
  /\ batch' = [batch EXCEPT ![p] = [Idle EXCEPT !.pc = "select", !.drains = Drains,
                                                !.old = [q \in ToSet(PLANS) |-> BeforeCutoff(q)]]]
  /\ UNCHANGED <<days, plan, changed>>

(* The statement sees the rows as of when it starts, and deletes those of them  *)
(* that nobody else has deleted when it gets to them.                           *)
Select(p) ==
  /\ batch[p].pc = "select"
  /\ batch' = [batch EXCEPT ![p].pc = "delete", ![p].ids = OldestOf(Expired(batch[p])), ![p].plans = plan]
  /\ UNCHANGED <<days, plan, changed>>

NextDrain(b, count) ==
  LET drains == IF count = BATCH THEN b.drains ELSE Tail(b.drains) IN
  IF drains = <<>> THEN Idle ELSE [b EXCEPT !.pc = "select", !.drains = drains, !.ids = {}, !.plans = <<>>]

Delete(p) ==
  LET found == {r \in batch[p].ids : Stored(r)} IN
  /\ batch[p].pc = "delete"
  /\ days' = [r \in Row |-> IF r \in found THEN Deleted ELSE days[r]]
  /\ batch' = [batch EXCEPT ![p] = NextDrain(@, Cardinality(found))]
  /\ UNCHANGED <<plan, changed>>

(* The statement fails and ends the run, or the process is killed.              *)
AfterFailureStuck(b) == [b EXCEPT !.pc = "stuck"]
AfterFailure(b) == Idle
Fail(p) ==
  /\ batch[p].pc = "delete"
  /\ batch' = [batch EXCEPT ![p] = AfterFailure(@)]
  /\ UNCHANGED <<days, plan, changed>>

Day ==
  /\ \E r \in Row : Stored(r) /\ days[r] < Longest
  /\ days' = [r \in Row |-> IF Stored(r) /\ days[r] < Longest THEN days[r] + 1 ELSE days[r]]
  /\ UNCHANGED <<plan, changed, batch>>

(* An organization changes its plan, or removes its project and all that is in  *)
(* it, whatever the processes are at.                                           *)
ChangePlan(o) ==
  /\ changed < PlanChanges
  /\ \E p \in ToSet(PLANS) \ {plan[o]} : plan' = [plan EXCEPT ![o] = p]
  /\ changed' = changed + 1
  /\ UNCHANGED <<days, batch>>

RemoveProject(o) ==
  /\ \E r \in Row : Stored(r) /\ OwnerOf[r] = o
  /\ days' = [r \in Row |-> IF OwnerOf[r] = o THEN Deleted ELSE days[r]]
  /\ UNCHANGED <<plan, changed, batch>>

RetentionNext ==
  \/ \E p \in Process : Begin(p) \/ Select(p) \/ Delete(p) \/ Fail(p)
  \/ Day
  \/ \E o \in Organization : ChangePlan(o) \/ RemoveProject(o)

RetentionSpec == RetentionInit /\ [][RetentionNext]_retention

-----------------------------------------------------------------------------
(* No row is deleted before the days of the plan have passed that its           *)
(* organization has when the statement starts, though the cutoffs are older     *)
(* than that and the other plans' batches went before.                          *)
KeptItsTime ==
  [][\A p \in Process, r \in Row :
       batch'[p] # batch[p] /\ Stored(r) /\ days'[r] = Deleted
         => days[r] > RETENTION_DAYS[batch[p].plans[OwnerOf[r]]]]_retention

(* Once nothing more comes in, all that has expired is deleted, though a batch  *)
(* may come back short because others deleted some of its rows, and a run may   *)
(* fail half way.                                                               *)
ExpiredGoes ==
  LET Due(r) == Stored(r) /\ days[r] > RETENTION_DAYS[plan[OwnerOf[r]]] IN
  []<>(\A r \in Row : ~ Due(r))
=============================================================================
