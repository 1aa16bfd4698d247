------------------------------ MODULE Ingress -------------------------------
(* Webhooks coming in through one source, and events being replayed to it:    *)
(* IngressService.receive and EventService.replay, called concurrently, with  *)
(* the tables and the counters they share.  Connections and the source come   *)
(* and go meanwhile, and retention deletes events.                            *)
(*                                                                            *)
(* Every await ends a step.  What a webhook says (method, size, signature,    *)
(* headers) is reduced to whether it is acceptable and to its idempotency     *)
(* key.  The organization is on the free plan, one month and one minute are   *)
(* looked at.  Project suspension is not modelled: nothing sets it yet.       *)
EXTENDS Integers

CONSTANTS
  Call,       \* concurrent requests
  Webhook,    \* idempotency keys of webhooks: idempotencyKey()
  Replay,     \* idempotency keys of replays: event and millisecond
  NoKey,
  Connection,
  NoEvent,
  Included,   \* INCLUDED_EVENTS.free
  PerMinute,  \* REJECTION_RECORDS_PER_MINUTE
  MaxUsed     \* bound of the two counters

ASSUME IngressAssumption ==
  /\ Included \in Nat /\ PerMinute \in Nat /\ MaxUsed \in Nat
  /\ Webhook \cap Replay = {} /\ NoKey \notin Webhook \cup Replay
  /\ \A ls \in SUBSET Connection : NoEvent # ls

VARIABLES
  link,     \* link[l]: connection l of the source is not yet made, made or deleted
  deleted,  \* the source is gone
  events,   \* events[k]: the connections the event with key k has a delivery for
  used,     \* the usage counter of the month
  noted,    \* the counter of the source's rejections this minute
  recorded, \* rows of rejected_request
  queued,   \* queued[k][l]: how often that delivery was put into the queue
  call,     \* call[c]: where the request is and what it has read
  made, answered \* history: events ever stored, webhooks answered 200

vars == <<link, deleted, events, used, noted, recorded, queued, call, made, answered>>
counters == <<used, noted, recorded>>
history == <<made, answered>>

Key == Webhook \cup Replay
NoRequest == [pc |-> "idle", key |-> NoKey, links |-> {}]

Init ==
  /\ link \in [Connection -> {"new", "made"}] /\ deleted = FALSE
  /\ events = [k \in Key |-> NoEvent]
  /\ used = 0 /\ noted = 0 /\ recorded = 0
  /\ queued = [k \in Key |-> [l \in Connection |-> 0]]
  /\ call = [c \in Call |-> NoRequest]
  /\ made = 0 /\ answered = {}

At(c, pc) == call[c].pc = pc
Goto(c, pc) == call' = [call EXCEPT ![c].pc = pc]
Return(c) == call' = [call EXCEPT ![c] = NoRequest]
Stored(k) == events[k] # NoEvent
Links == {l \in Connection : link[l] = "made"}

-----------------------------------------------------------------------------
(* receive(): one query reads the source with its connections.  No source is   *)
(* a 404 that leaves no trace; no connection, a body too large or a bad        *)
(* signature is a rejection.                                                   *)
Receive(c, k) ==
  /\ At(c, "idle") /\ k \in Webhook
  /\ ~ deleted
  /\ \/ /\ Links # {}
        /\ call' = [call EXCEPT ![c] = [pc |-> "count", key |-> k, links |-> Links]]
     \/ call' = [call EXCEPT ![c] = [pc |-> "reject", key |-> k, links |-> {}]]
  /\ UNCHANGED <<link, deleted, events, counters, queued, history>>

(* replay(): findForReplay reads the event and the source's connections.       *)
StartReplay(c, k, r) ==
  /\ At(c, "idle") /\ r \in Replay
  /\ Stored(k)
  /\ ~ deleted /\ Links # {}
  /\ call' = [call EXCEPT ![c] = [pc |-> "count", key |-> r, links |-> Links]]
  /\ UNCHANGED <<link, deleted, events, counters, queued, history>>

(* incrementUsage and the free plan's limit.                                   *)
CountWebhooks(k) == IF k \in Webhook THEN used + 1 ELSE used
Counted(k) == used + 1

ExceedsBefore(n) == n - 1 > Included
Exceeds(n) == n > Included

Count(c) ==
  LET n == Counted(call[c].key) IN
  /\ At(c, "count")
  /\ used < MaxUsed
  /\ used' = n
  /\ \/ Exceeds(n) /\ call[c].key \in Webhook /\ Goto(c, "reject")
     \/ Exceeds(n) /\ call[c].key \in Replay /\ Return(c)
     \/ ~ Exceeds(n) /\ Goto(c, "store")
  /\ UNCHANGED <<link, deleted, events, noted, recorded, queued, history>>

(* storeEvent and storeReplay: the event and its deliveries in one             *)
(* transaction.  The unique index finds the key taken; a foreign key finds the *)
(* source, or a connection read before, deleted, and nothing is stored.        *)
Insert(k, ls) ==
  /\ events' = [events EXCEPT ![k] = ls]
  /\ queued' = [queued EXCEPT ![k] = [l \in Connection |-> 0]]
  /\ made' = made + 1

InsertInPieces(c) ==
  /\ Insert(call[c].key, call[c].links \cap Links)
  /\ IF call[c].links \subseteq Links THEN Goto(c, "enqueue") ELSE Return(c)

InsertAll(c) ==
  \/ /\ call[c].links \subseteq Links
     /\ Insert(call[c].key, call[c].links)
     /\ Goto(c, "enqueue")
  \/ /\ ~ call[c].links \subseteq Links
     /\ Return(c)
     /\ UNCHANGED <<events, queued, made>>

Store(c) ==
  LET k == call[c].key IN
  /\ At(c, "store")
  /\ \/ deleted /\ Return(c) /\ UNCHANGED <<events, queued, made>>
     \/ ~ deleted /\ ~ Stored(k) /\ InsertAll(c)
     \/ /\ ~ deleted /\ Stored(k)
        /\ IF k \in Webhook THEN Goto(c, "lookup") ELSE Return(c)
        /\ UNCHANGED <<events, queued, made>>
  /\ UNCHANGED <<link, deleted, counters, answered>>

(* The duplicate is answered with the id of the event that is there; if the     *)
(* source was deleted in between it is not found by its key and the call       *)
(* throws.                                                                     *)
LookupAndEnqueue(c) ==
  /\ At(c, "lookup")
  /\ call' = [call EXCEPT ![c].pc = "enqueue", ![c].links = events[call[c].key]]
  /\ UNCHANGED <<link, deleted, events, counters, queued, history>>

Lookup(c) ==
  LET k == call[c].key IN
  /\ At(c, "lookup")
  /\ answered' = IF ~ deleted /\ Stored(k) THEN answered \cup {k} ELSE answered
  /\ Return(c)
  /\ UNCHANGED <<link, deleted, events, counters, queued, made>>

(* enqueue(): one XADD for each delivery; what fails is logged at best.  The    *)
(* answer is 200 all the same.                                                 *)
EnqueueOne(c, l) ==
  /\ At(c, "enqueue") /\ l \in call[c].links
  /\ queued' = [queued EXCEPT ![call[c].key][l] = @ + 1]
  /\ call' = [call EXCEPT ![c].links = @ \ {l}]
  /\ UNCHANGED <<link, deleted, events, counters, history>>

LoseOne(c, l) ==
  /\ At(c, "enqueue") /\ l \in call[c].links
  /\ call' = [call EXCEPT ![c].links = @ \ {l}]
  /\ UNCHANGED <<link, deleted, events, counters, queued, history>>

Answer(c) ==
  /\ At(c, "enqueue") /\ call[c].links = {}
  /\ answered' = answered \cup ({call[c].key} \cap Webhook)
  /\ Return(c)
  /\ UNCHANGED <<link, deleted, events, counters, queued, made>>

(* reject(): the counter of the minute decides whether a row is written.       *)
Reject(c) ==
  /\ At(c, "reject")
  /\ noted < MaxUsed
  /\ noted' = noted + 1
  /\ IF noted' <= PerMinute THEN Goto(c, "record") ELSE Return(c)
  /\ UNCHANGED <<link, deleted, events, used, recorded, queued, history>>

RecordRejection(c) ==
  /\ At(c, "record")
  /\ recorded' = IF deleted THEN recorded ELSE recorded + 1
  /\ Return(c)
  /\ UNCHANGED <<link, deleted, events, used, noted, queued, history>>

(* The process is killed, or an await rejects: nobody is answered 200.         *)
Crash(c) ==
  /\ ~ At(c, "idle")
  /\ Return(c)
  /\ UNCHANGED <<link, deleted, events, counters, queued, history>>

-----------------------------------------------------------------------------
(* Meanwhile, through the management API: a connection is made or deleted, the  *)
(* source is deleted with its connections (its events stay, without a source). *)
SetLink(l, before, after) == link[l] = before /\ link' = [link EXCEPT ![l] = after]

AddConnection(l) ==
  /\ ~ deleted /\ SetLink(l, "new", "made")
  /\ UNCHANGED <<deleted, events, counters, queued, call, history>>

RemoveConnection(l) ==
  /\ SetLink(l, "made", "deleted")
  /\ UNCHANGED <<deleted, events, counters, queued, call, history>>

DeleteSource ==
  /\ ~ deleted /\ deleted' = TRUE
  /\ link' = [l \in Connection |-> "deleted"]
  /\ UNCHANGED <<events, counters, queued, call, history>>

(* Retention, days after the event came in, which is later than the call that   *)
(* stored it takes to enqueue it; copies and replays of it may be under way.   *)
Expire(k) ==
  /\ Stored(k) /\ \A c \in Call : At(c, "enqueue") => call[c].key # k
  /\ events' = [events EXCEPT ![k] = NoEvent]
  /\ answered' = answered \ {k}
  /\ UNCHANGED <<link, deleted, counters, queued, call, made>>

Step(c) ==
  \/ \E k \in Key : Receive(c, k) \/ \E r \in Replay : StartReplay(c, k, r)
  \/ Count(c) \/ Store(c) \/ Lookup(c) \/ Answer(c) \/ Reject(c) \/ RecordRejection(c)
  \/ \E l \in Connection : EnqueueOne(c, l) \/ LoseOne(c, l)

Environment ==
  \/ \E l \in Connection : AddConnection(l) \/ RemoveConnection(l)
  \/ DeleteSource
  \/ \E k \in Key : Expire(k)

Next == (\E c \in Call : Step(c) \/ Crash(c)) \/ Environment

Spec == Init /\ [][Next]_vars

-----------------------------------------------------------------------------
(* However many requests come at once: a free organization never gets more     *)
(* events stored in a month than its plan includes, and every one of them,     *)
(* webhook or replay, is on the usage counter the bill is made from.           *)
StoredWithinPlan == made <= Included
StoredIsCounted == made <= used

(* A webhook that was answered 200 is stored with a delivery to send, whichever *)
(* of its copies was answered, and whatever happened to the others.            *)
AnsweredIsStored == \A k \in answered : events[k] \notin {NoEvent, {}}

(* Copies of a webhook that arrive at the same time, and those that come after  *)
(* an answer got lost, put each delivery into the queue at most once.          *)
QueuedOnce == \A k \in Key, l \in Connection : queued[k][l] <= 1

(* usage.service.ts of `used`: replays are in it, rejections are not; so on the *)
(* free plan it never gets past what the plan includes.                        *)
UsageExcludesRejected == used <= Included

=============================================================================
