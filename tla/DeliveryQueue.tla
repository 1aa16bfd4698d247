--------------------------- MODULE DeliveryQueue ---------------------------
(* The delivery queue in Valkey: a Stream read through one consumer group,    *)
(* and the sorted set delivery:scheduled of deliveries to be sent later.      *)
(*                                                                            *)
(* A message stays in the Stream from XADD to the XACK+XDEL of ack; `times`   *)
(* is 0 while nobody has read it and then how often the group has handed it   *)
(* out, so the pending entries list is the messages with times > 0.  Entries  *)
(* are a set rather than a list: a batch of ten is handled concurrently, by   *)
(* several processes, so the order of the Stream orders nothing downstream.   *)
EXTENDS DeliveryTypes

CONSTANTS
  MessageId,     \* entry ids; finitely many are in use at a time (bound)
  NoMessage,     \* an id that is not in the Stream
  ReclaimIdle,   \* RECLAIM_IDLE_MS, in ticks
  MaxDeliveries  \* MAX_DELIVERIES of the runner

ASSUME QueueAssumption ==
  /\ ReclaimIdle \in Nat \ {0}
  /\ MaxDeliveries \in Nat \ {0}

VARIABLES
  stream,    \* stream[m] is the message with id m
  scheduled  \* scheduled[d] is the score of d in delivery:scheduled

(* A score that has passed is due, however long ago: it stops at 0.           *)
Score == (0 .. MaxWait) \cup {NoTime}

queueVars == <<stream, scheduled>>

(* `times` stops at MaxDeliveries + 1: beyond it every value is handled alike. *)
Message == [delivery : Delivery, trigger : Trigger \cup {NoTrigger},
            times : 0 .. MaxDeliveries + 1, idle : 0 .. ReclaimIdle]

ASSUME NoMessageAssumption == NoMessage \notin Message

QueueTypeOK ==
  /\ stream \in [MessageId -> Message \cup {NoMessage}]
  /\ scheduled \in [Delivery -> Score]

QueueInit ==
  /\ stream = [m \in MessageId |-> NoMessage]
  /\ scheduled = [d \in Delivery |-> NoTime]

InStream(m) == stream[m] # NoMessage
Unread(m) == InStream(m) /\ stream[m].times = 0
Pending(m) == InStream(m) /\ stream[m].times > 0

-----------------------------------------------------------------------------
(* enqueue: one XADD of its pipeline.                                         *)
Enqueue(m, d, trigger) ==
  /\ ~ InStream(m)
  /\ stream' = [stream EXCEPT ![m] = [delivery |-> d, trigger |-> trigger, times |-> 0, idle |-> 0]]

(* read: XREADGROUP hands out an entry nobody has read.                       *)
Read(m) ==
  /\ Unread(m)
  /\ stream' = [stream EXCEPT ![m].times = 1]

(* reclaim: XPENDING finds it idle for long enough and XCLAIM takes it.  The   *)
(* two are one step: XCLAIM tests the idle time again, so an entry another     *)
(* worker claimed or acknowledged in between is not handed out.               *)
Reclaim(m) ==
  /\ Pending(m)
  /\ stream[m].idle = ReclaimIdle
  /\ stream' = [stream EXCEPT ![m].idle = 0,
                              ![m].times = IF @ > MaxDeliveries THEN @ ELSE @ + 1]

(* ack: XACK and XDEL in a MULTI.  Nothing asks which consumer owns the entry. *)
Ack(m) == stream' = [stream EXCEPT ![m] = NoMessage]

(* schedule: ZADD overwrites the score of a member already there.             *)
Schedule(d, t) == scheduled' = [scheduled EXCEPT ![d] = IF t < 0 THEN 0 ELSE t]

(* unschedule: ZREM of every id; the ones not there are no error.             *)
Unschedule(ds) ==
  scheduled' = [d \in Delivery |-> IF d \in ds THEN NoTime ELSE scheduled[d]]

Due(d) == scheduled[d] = 0

QueueTick ==
  /\ stream' = [m \in MessageId |->
                  IF Pending(m) /\ stream[m].idle < ReclaimIdle
                  THEN [stream[m] EXCEPT !.idle = @ + 1] ELSE stream[m]]
  /\ scheduled' = [d \in Delivery |->
                     IF scheduled[d] \in {NoTime, 0} THEN scheduled[d] ELSE scheduled[d] - 1]

=============================================================================
