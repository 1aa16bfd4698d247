-------------------------- MODULE ReceivingProofs ---------------------------
(* Proofs about what a webhook meets: ingress, for any number of concurrent    *)
(* requests, webhooks, replays and connections and any plan; and the check of  *)
(* its signature, for any number of keys.                                      *)
EXTENDS Ingress, Signature, FiniteSetTheorems, TLAPS

CallPc == {"idle", "count", "store", "lookup", "enqueue", "reject", "record"}
Calls == [pc : CallPc, key : Key \cup {NoKey}, links : SUBSET Connection]

IngressTyped ==
  /\ link \in [Connection -> {"new", "made", "deleted"}]
  /\ events \in [Key -> (SUBSET Connection) \cup {NoEvent}]
  /\ used \in Nat /\ made \in Nat
  /\ queued \in [Key -> [Connection -> Nat]]
  /\ call \in [Call -> Calls]
  /\ answered \in SUBSET Key

(* A request at work has a key, and connections until its deliveries are       *)
(* queued.                                                                     *)
CallsKnowTheirEvent ==
  \A c \in Call : /\ call[c].pc # "idle" => call[c].key \in Key
                  /\ call[c].pc \in {"count", "store"} => call[c].links # {}

(* Requests between the count and the insert have their place: they and the     *)
(* events already stored are within the plan, and counted.                     *)
Storing == {c \in Call : At(c, "store")}
PlacesAreCounted ==
  /\ IsFiniteSet(Storing)
  /\ made + Cardinality(Storing) <= used
  /\ made + Cardinality(Storing) <= Included

(* One request at most puts an event's deliveries into the queue, those that    *)
(* are left were not queued, and the event stays as long.                      *)
OneEnqueues ==
  /\ \A k \in Key : events[k] # {}
  /\ \A c \in Call : At(c, "enqueue") =>
       /\ Stored(call[c].key)
       /\ \A l \in call[c].links : queued[call[c].key][l] = 0
  /\ \A c, d \in Call : At(c, "enqueue") /\ At(d, "enqueue") /\ call[c].key = call[d].key => c = d

IngressInv ==
  /\ IngressTyped /\ CallsKnowTheirEvent /\ PlacesAreCounted /\ OneEnqueues
  /\ AnsweredIsStored /\ QueuedOnce

-----------------------------------------------------------------------------
(* What a request becomes is a request again.                                  *)
LEMMA CallUpdates ==
  ASSUME NEW c \in Call, call \in [Call -> Calls]
  PROVE  /\ \A pc \in CallPc : Goto(c, pc) => call' \in [Call -> Calls]
         /\ Return(c) => call' \in [Call -> Calls]
<1>1. call[c] \in Calls OBVIOUS
<1>2. NoRequest \in Calls BY DEF NoRequest, Calls, CallPc
<1>3. \A pc \in CallPc : [call[c] EXCEPT !.pc = pc] \in Calls BY <1>1 DEF Calls
<1> QED BY <1>2, <1>3 DEF Goto, Return

(* A step of the requests keeps their fields and the tables well typed.         *)
LEMMA IngressTyping == ASSUME IngressTyped, CallsKnowTheirEvent, [Next]_vars PROVE IngressTyped'
<1> USE DEF IngressTyped
<1>a. Webhook \subseteq Key BY DEF Key
<1>1. ASSUME NEW c \in Call, Step(c) \/ Crash(c) PROVE IngressTyped'
  <2>1. ASSUME NEW k \in Key, Receive(c, k) PROVE IngressTyped'
    <3>1. /\ [pc |-> "count", key |-> k, links |-> Links] \in Calls
          /\ [pc |-> "reject", key |-> k, links |-> {}] \in Calls
      BY DEF Calls, CallPc, Links
    <3> QED BY <2>1, <3>1 DEF Receive, counters, history
  <2>2. ASSUME NEW k \in Key, NEW r \in Replay, StartReplay(c, k, r) PROVE IngressTyped'
    <3>1. [pc |-> "count", key |-> r, links |-> Links] \in Calls BY DEF Calls, CallPc, Links, Key
    <3> QED BY <2>2, <3>1 DEF StartReplay, counters, history
  <2>3. CASE Count(c)
    <3>1. used' \in Nat BY <2>3 DEF Count, Counted
    <3>2. call' \in [Call -> Calls] BY <2>3, CallUpdates DEF Count, CallPc
    <3> QED BY <2>3, <3>1, <3>2 DEF Count, history
  <2>4. CASE Store(c)
    <3>1. call[c].key \in Key /\ call[c].links \in SUBSET Connection
      BY <2>4 DEF Store, At, CallsKnowTheirEvent, Calls
    <3>2. call' \in [Call -> Calls] BY <2>4, CallUpdates DEF Store, InsertAll, CallPc
    <3>3. /\ events' \in [Key -> (SUBSET Connection) \cup {NoEvent}]
          /\ made' \in Nat
          /\ queued' \in [Key -> [Connection -> Nat]]
      BY <2>4, <3>1 DEF Store, InsertAll, Insert
    <3> QED BY <2>4, <3>2, <3>3 DEF Store, counters
  <2>5. CASE Lookup(c) \/ Answer(c)
    <3>1. call[c].key \in Key BY <2>5 DEF Lookup, Answer, At, CallsKnowTheirEvent
    <3>2. answered' \in SUBSET Key
      BY <2>5, <3>1 DEF Lookup, Answer
    <3> QED BY <2>5, <3>2, CallUpdates DEF Lookup, Answer, counters
  <2>6. CASE Reject(c) \/ RecordRejection(c) \/ Crash(c)
    BY <2>6, CallUpdates DEF Reject, RecordRejection, Crash, CallPc, history, counters
  <2>7. ASSUME NEW l \in Connection, EnqueueOne(c, l) \/ LoseOne(c, l) PROVE IngressTyped'
    <3>1. [call[c] EXCEPT !.links = @ \ {l}] \in Calls BY DEF Calls
    <3>2. call[c].key \in Key BY <2>7 DEF EnqueueOne, LoseOne, At, CallsKnowTheirEvent
    <3>3. queued[call[c].key] \in [Connection -> Nat] BY <3>2
    <3>4. [queued[call[c].key] EXCEPT ![l] = @ + 1] \in [Connection -> Nat] BY <3>3
    <3>5. queued' \in [Key -> [Connection -> Nat]] BY <2>7, <3>2, <3>4 DEF EnqueueOne, LoseOne
    <3> QED BY <2>7, <3>1, <3>5 DEF EnqueueOne, LoseOne, counters, history
  <2> QED BY <1>1, <2>1, <2>2, <2>3, <2>4, <2>5, <2>6, <2>7 DEF Step
<1>2. CASE Environment
  <2>1. ASSUME NEW l \in Connection, AddConnection(l) \/ RemoveConnection(l) PROVE IngressTyped'
    BY <2>1 DEF AddConnection, RemoveConnection, SetLink, counters, history
  <2>2. CASE DeleteSource BY <2>2 DEF DeleteSource, counters, history
  <2>3. ASSUME NEW k \in Key, Expire(k) PROVE IngressTyped'
    <3>1. events' \in [Key -> (SUBSET Connection) \cup {NoEvent}] BY <2>3 DEF Expire
    <3>2. answered' \in SUBSET Key BY <2>3 DEF Expire
    <3> QED BY <2>3, <3>1, <3>2 DEF Expire, counters
  <2> QED BY <1>2, <2>1, <2>2, <2>3 DEF Environment
<1>3. CASE UNCHANGED vars BY <1>3 DEF vars, Stored
<1> QED BY <1>1, <1>2, <1>3 DEF Next

-----------------------------------------------------------------------------
(* The requests at work keep a key and connections.                            *)
LEMMA CallsKeepTheirEvent ==
  ASSUME IngressTyped, CallsKnowTheirEvent, [Next]_vars PROVE CallsKnowTheirEvent'
<1> USE DEF CallsKnowTheirEvent
<1>a. call \in [Call -> Calls] BY DEF IngressTyped
<1>1. ASSUME NEW c \in Call, Step(c) \/ Crash(c) PROVE CallsKnowTheirEvent'
  <2>1. ASSUME NEW k \in Key, Receive(c, k) PROVE CallsKnowTheirEvent' BY <1>a, <2>1 DEF Receive, At
  <2>2. ASSUME NEW k \in Key, NEW r \in Replay, StartReplay(c, k, r) PROVE CallsKnowTheirEvent'
    BY <1>a, <2>2 DEF StartReplay, At, Key
  <2>3. CASE Count(c) BY <1>a, <2>3 DEF Count, Goto, Return, NoRequest, At, Calls
  <2>4. CASE Store(c) BY <1>a, <2>4 DEF Store, InsertAll, Goto, Return, NoRequest, At, Calls
  <2>5. CASE Lookup(c) \/ Answer(c) \/ Reject(c) \/ RecordRejection(c) \/ Crash(c)
    BY <1>a, <2>5 DEF Lookup, Answer, Reject, RecordRejection, Crash, Goto, Return, NoRequest, At, Calls
  <2>6. ASSUME NEW l \in Connection, EnqueueOne(c, l) \/ LoseOne(c, l) PROVE CallsKnowTheirEvent'
    BY <1>a, <2>6 DEF EnqueueOne, LoseOne, At, Calls
  <2> QED BY <1>1, <2>1, <2>2, <2>3, <2>4, <2>5, <2>6 DEF Step
<1>2. CASE Environment
  BY <1>2 DEF Environment, AddConnection, RemoveConnection, DeleteSource, Expire
<1>3. CASE UNCHANGED vars BY <1>3 DEF vars
<1> QED BY <1>1, <1>2, <1>3 DEF Next

(* The counter is incremented before a place is taken, and the place is         *)
(* refused when that makes it more than the plan: a request that stores gives   *)
(* up its place for one event.                                                 *)
LEMMA PlacesStayCounted ==
  ASSUME IngressTyped, PlacesAreCounted, [Next]_vars PROVE PlacesAreCounted'
<1> USE IngressAssumption
<1>0. /\ used \in Nat /\ made \in Nat /\ IsFiniteSet(Storing) /\ Cardinality(Storing) \in Nat
      /\ made + Cardinality(Storing) <= used /\ made + Cardinality(Storing) <= Included
      /\ call \in [Call -> Calls]
  BY FS_CardinalityType DEF IngressTyped, PlacesAreCounted
<1>1. ASSUME Storing' \subseteq Storing, used' = used, made' = made PROVE PlacesAreCounted'
  <2>1. /\ IsFiniteSet(Storing') /\ Cardinality(Storing') <= Cardinality(Storing)
        /\ Cardinality(Storing') \in Nat
    BY <1>0, <1>1, FS_Subset, FS_CardinalityType
  <2> QED BY <1>0, <1>1, <2>1 DEF PlacesAreCounted
<1>2. ASSUME NEW c \in Call, Step(c) \/ Crash(c) PROVE PlacesAreCounted'
  <2>1. CASE Count(c)
    <3>1. used' = used + 1 /\ made' = made BY <2>1 DEF Count, Counted, history
    <3>2. CASE used + 1 > Included
      <4>1. Storing' \subseteq Storing
        BY <1>0, <2>1, <3>2 DEF Count, Counted, Exceeds, Goto, Return, NoRequest, Storing, At, Calls
      <4>2. /\ IsFiniteSet(Storing') /\ Cardinality(Storing') <= Cardinality(Storing)
            /\ Cardinality(Storing') \in Nat
        BY <1>0, <4>1, FS_Subset, FS_CardinalityType
      <4> QED BY <1>0, <3>1, <4>2 DEF PlacesAreCounted
    <3>3. CASE used + 1 <= Included
      <4>1. Storing' = Storing \cup {c}
        BY <1>0, <2>1, <3>3 DEF Count, Counted, Exceeds, Goto, Storing, At, Calls
      <4>2. c \notin Storing BY <2>1 DEF Count, Storing, At
      <4>3. IsFiniteSet(Storing') /\ Cardinality(Storing') = Cardinality(Storing) + 1
        BY <1>0, <4>1, <4>2, FS_AddElement
      <4> QED BY <1>0, <3>1, <3>3, <4>3 DEF PlacesAreCounted
    <3> QED BY <1>0, <3>2, <3>3
  <2>2. CASE Store(c)
    <3>1. used' = used /\ made' \in {made, made + 1} /\ c \in Storing
      BY <2>2 DEF Store, InsertAll, Insert, counters, Storing
    <3>2. Storing' = Storing \ {c}
      BY <1>0, <2>2 DEF Store, InsertAll, Goto, Return, NoRequest, Storing, At, Calls
    <3>3. IsFiniteSet(Storing') /\ Cardinality(Storing') = Cardinality(Storing) - 1
      BY <1>0, <3>1, <3>2, FS_RemoveElement
    <3> QED BY <1>0, <3>1, <3>3 DEF PlacesAreCounted
  <2>3. CASE ~ Count(c) /\ ~ Store(c)
    <3> DEFINE Unmoved == used' = used /\ made' = made /\ Storing' \subseteq Storing
    <3>1. Unmoved
      <4>1. ASSUME NEW k \in Key, Receive(c, k) PROVE Unmoved
        BY <1>0, <4>1 DEF Receive, counters, history, Storing, At
      <4>2. ASSUME NEW k \in Key, NEW r \in Replay, StartReplay(c, k, r) PROVE Unmoved
        BY <1>0, <4>2 DEF StartReplay, counters, history, Storing, At
      <4>3. CASE Lookup(c) \/ Answer(c) \/ Reject(c) \/ RecordRejection(c) \/ Crash(c)
        BY <1>0, <4>3 DEF Lookup, Answer, Reject, RecordRejection, Crash, Goto, Return, NoRequest, counters, history, Storing, At, Calls
      <4>4. ASSUME NEW l \in Connection, EnqueueOne(c, l) \/ LoseOne(c, l) PROVE Unmoved
        BY <1>0, <4>4 DEF EnqueueOne, LoseOne, counters, history, Storing, At, Calls
      <4> QED BY <1>2, <2>3, <4>1, <4>2, <4>3, <4>4 DEF Step
    <3> QED BY <1>0, <1>1, <3>1
  <2> QED BY <2>1, <2>2, <2>3
<1>3. CASE Environment \/ UNCHANGED vars
  <2>1. used' = used /\ made' = made /\ call' = call
    BY <1>3 DEF Environment, AddConnection, RemoveConnection, DeleteSource, Expire, counters, history, vars
  <2>2. Storing' = Storing BY <2>1 DEF Storing, At
  <2> QED BY <1>0, <1>1, <2>1, <2>2
<1> QED BY <1>2, <1>3 DEF Next

-----------------------------------------------------------------------------
(* A step that leaves the events and the queue alone, answers nobody and sends  *)
(* no further request to enqueue changes nothing about who enqueues what.       *)
LEMMA QueueUntouched ==
  ASSUME OneEnqueues, AnsweredIsStored, QueuedOnce, UNCHANGED <<events, queued>>,
         \A k \in answered' : k \in answered \/ events[k] \notin {NoEvent, {}},
         \A c \in Call : At(c, "enqueue")' =>
            At(c, "enqueue") /\ call'[c].key = call[c].key /\ call'[c].links \subseteq call[c].links
  PROVE  OneEnqueues' /\ AnsweredIsStored' /\ QueuedOnce'
<1>1. OneEnqueues' BY DEF OneEnqueues, At, Stored
<1>2. AnsweredIsStored' BY DEF AnsweredIsStored
<1>3. QueuedOnce' BY DEF QueuedOnce
<1> QED BY <1>1, <1>2, <1>3

(* Whoever inserts an event is the one who enqueues it: before, it was not      *)
(* stored, so nobody else was enqueuing it.                                    *)
LEMMA StoreKeepsOne ==
  ASSUME IngressTyped, CallsKnowTheirEvent, OneEnqueues, AnsweredIsStored, QueuedOnce,
         NEW c \in Call, Store(c)
  PROVE  OneEnqueues' /\ AnsweredIsStored' /\ QueuedOnce'
<1> DEFINE k == call[c].key
<1>0. /\ call \in [Call -> Calls] /\ queued \in [Key -> [Connection -> Nat]]
      /\ events \in [Key -> (SUBSET Connection) \cup {NoEvent}]
  BY DEF IngressTyped
<1>1. k \in Key /\ call[c].links # {} /\ call[c].links \in SUBSET Connection
  BY <1>0 DEF Store, At, CallsKnowTheirEvent, Calls
<1>2. CASE UNCHANGED <<events, queued, made>> /\ (Goto(c, "lookup") \/ Return(c))
  <2>1. \A d \in Call : At(d, "enqueue")' => At(d, "enqueue") /\ call'[d] = call[d]
    BY <1>0, <1>2 DEF Goto, Return, NoRequest, At, Calls
  <2>2. answered' = answered BY DEF Store
  <2> QED BY <1>2, <2>1, <2>2, QueueUntouched
<1>3. CASE ~ Stored(k) /\ Insert(k, call[c].links) /\ Goto(c, "enqueue")
  <2>1. events' = [events EXCEPT ![k] = call[c].links] /\ queued' = [queued EXCEPT ![k] = [l \in Connection |-> 0]]
    BY <1>3 DEF Insert
  <2>2. /\ \A d \in Call : d # c => call'[d] = call[d]
        /\ call'[c].pc = "enqueue" /\ call'[c].key = k /\ call'[c].links = call[c].links
    BY <1>0, <1>3 DEF Goto, Calls
  <2>3. \A d \in Call : At(d, "enqueue") => call[d].key # k BY <1>3 DEF OneEnqueues
  <2>4. call[c].links # NoEvent BY <1>1, IngressAssumption
  <2>5. \A d \in Call : At(d, "enqueue") => call[d].key \in Key BY DEF At, CallsKnowTheirEvent
  <2>6. \A j \in Key : events'[j] # {} BY <1>0, <1>1, <2>1 DEF OneEnqueues
  <2>7. ASSUME NEW d \in Call, At(d, "enqueue")'
        PROVE  events'[call'[d].key] # NoEvent /\ \A l \in call'[d].links : queued'[call'[d].key][l] = 0
    <3>1. CASE d = c BY <1>0, <1>1, <2>1, <2>2, <2>4, <3>1
    <3>2. CASE d # c
      <4>1. At(d, "enqueue") /\ call'[d] = call[d] BY <2>2, <2>7, <3>2 DEF At
      <4>2. call[d].key \in Key /\ call[d].key # k BY <2>3, <2>5, <4>1
      <4>3. events'[call[d].key] = events[call[d].key] /\ queued'[call[d].key] = queued[call[d].key]
        BY <1>0, <2>1, <4>2
      <4> QED BY <4>1, <4>3 DEF OneEnqueues, Stored
    <3> QED BY <3>1, <3>2
  <2>8. \A d, e \in Call : At(d, "enqueue")' /\ At(e, "enqueue")' /\ call'[d].key = call'[e].key => d = e
    BY <2>2, <2>3 DEF OneEnqueues, At
  <2>9. OneEnqueues' BY <2>6, <2>7, <2>8 DEF OneEnqueues, Stored
  <2>10. AnsweredIsStored'
    BY <1>0, <1>1, <2>1, <2>4 DEF Store, AnsweredIsStored, IngressTyped
  <2>11. QueuedOnce' BY <1>0, <1>1, <2>1 DEF QueuedOnce
  <2> QED BY <2>9, <2>10, <2>11
<1> QED BY <1>2, <1>3 DEF Store, InsertAll

(* A delivery that is put into the queue is not any more among those left.      *)
LEMMA EnqueueKeepsOne ==
  ASSUME IngressTyped, CallsKnowTheirEvent, OneEnqueues, AnsweredIsStored, QueuedOnce,
         NEW c \in Call, NEW l \in Connection, EnqueueOne(c, l)
  PROVE  OneEnqueues' /\ AnsweredIsStored' /\ QueuedOnce'
<1> DEFINE k == call[c].key
<1>0. call \in [Call -> Calls] /\ queued \in [Key -> [Connection -> Nat]] BY DEF IngressTyped
<1>1. At(c, "enqueue") /\ l \in call[c].links /\ k \in Key BY DEF EnqueueOne, At, CallsKnowTheirEvent
<1>2. queued[k][l] = 0 BY <1>1 DEF OneEnqueues
<1>3. queued' = [queued EXCEPT ![k] = [queued[k] EXCEPT ![l] = 1]] BY <1>0, <1>1, <1>2 DEF EnqueueOne
<1>4. /\ events' = events /\ answered' = answered
      /\ \A d \in Call : d # c => call'[d] = call[d]
      /\ call'[c].pc = "enqueue" /\ call'[c].key = k /\ call'[c].links = call[c].links \ {l}
  BY <1>0, <1>1 DEF EnqueueOne, history, At, Calls
<1>5. \A d \in Call : At(d, "enqueue") => call[d].key \in Key BY DEF At, CallsKnowTheirEvent
<1>6. ASSUME NEW d \in Call, At(d, "enqueue")', NEW m \in call'[d].links
      PROVE  Stored(call[d].key) /\ call'[d].key = call[d].key /\ queued'[call'[d].key][m] = 0
  <2>1. CASE d = c
    <3>1. m \in call[c].links /\ m # l /\ m \in Connection BY <1>0, <1>4, <1>6, <2>1 DEF Calls
    <3>2. queued[k][m] = 0 BY <1>1, <3>1 DEF OneEnqueues
    <3>3. queued'[k][m] = queued[k][m] BY <1>0, <1>1, <1>3, <3>1
    <3> QED BY <1>1, <1>4, <2>1, <3>2, <3>3 DEF OneEnqueues
  <2>2. CASE d # c
    <3>1. At(d, "enqueue") /\ call'[d] = call[d] BY <1>4, <1>6, <2>2 DEF At
    <3>2. call[d].key # k /\ call[d].key \in Key BY <1>1, <1>5, <2>2, <3>1 DEF OneEnqueues
    <3>3. queued'[call[d].key] = queued[call[d].key] BY <1>0, <1>3, <3>2
    <3> QED BY <1>6, <3>1, <3>3 DEF OneEnqueues
  <2> QED BY <2>1, <2>2
<1>7. \A d \in Call : At(d, "enqueue")' => At(d, "enqueue") /\ call'[d].key = call[d].key
  BY <1>1, <1>4 DEF At
<1>8. OneEnqueues' BY <1>4, <1>6, <1>7 DEF OneEnqueues, Stored
<1>9. AnsweredIsStored' BY <1>4 DEF AnsweredIsStored
<1>10. ASSUME NEW j \in Key, NEW m \in Connection PROVE queued'[j][m] <= 1
  BY <1>0, <1>1, <1>3 DEF QueuedOnce
<1>11. QueuedOnce' BY <1>10 DEF QueuedOnce
<1> QED BY <1>8, <1>9, <1>11

(* An event goes when nobody enqueues it any more, and with it the             *)
(* promise made to its sender.                                                 *)
LEMMA ExpireKeepsOne ==
  ASSUME IngressTyped, OneEnqueues, AnsweredIsStored, QueuedOnce, NEW k \in Key, Expire(k)
  PROVE  OneEnqueues' /\ AnsweredIsStored' /\ QueuedOnce'
<1>0. /\ events \in [Key -> (SUBSET Connection) \cup {NoEvent}] /\ answered \in SUBSET Key
      /\ events' = [events EXCEPT ![k] = NoEvent] /\ answered' = answered \ {k}
      /\ queued' = queued /\ call' = call /\ \A c \in Call : At(c, "enqueue") => call[c].key # k
  BY DEF IngressTyped, Expire
<1>1. NoEvent # {} BY IngressAssumption
<1>2. \A c \in Call : At(c, "enqueue") => events'[call[c].key] = events[call[c].key] BY <1>0
<1>3. OneEnqueues' BY <1>0, <1>1, <1>2 DEF OneEnqueues, At, Stored
<1>4. AnsweredIsStored' BY <1>0 DEF AnsweredIsStored
<1>5. QueuedOnce' BY <1>0 DEF QueuedOnce
<1> QED BY <1>3, <1>4, <1>5

(* The invariant is inductive.                                                 *)
LEMMA IngressStep == ASSUME IngressInv, [Next]_vars PROVE IngressInv'
<1> USE DEF IngressInv
<1>a. call \in [Call -> Calls] BY DEF IngressTyped
<1>1. IngressTyped' /\ CallsKnowTheirEvent' /\ PlacesAreCounted'
  BY IngressTyping, CallsKeepTheirEvent, PlacesStayCounted
<1>2. ASSUME NEW c \in Call, Step(c) \/ Crash(c) PROVE OneEnqueues' /\ AnsweredIsStored' /\ QueuedOnce'
  <2>1. ASSUME NEW k \in Key, Receive(c, k) PROVE OneEnqueues' /\ AnsweredIsStored' /\ QueuedOnce'
    BY <1>a, <2>1, QueueUntouched DEF Receive, history, At
  <2>2. ASSUME NEW k \in Key, NEW r \in Replay, StartReplay(c, k, r)
        PROVE OneEnqueues' /\ AnsweredIsStored' /\ QueuedOnce'
    BY <1>a, <2>2, QueueUntouched DEF StartReplay, history, At
  <2>3. CASE Count(c)
    <3>1. \A d \in Call : At(d, "enqueue")' => At(d, "enqueue") /\ call'[d] = call[d]
      BY <1>a, <2>3 DEF Count, Goto, Return, NoRequest, At, Calls
    <3> QED BY <2>3, <3>1, QueueUntouched DEF Count, history
  <2>4. CASE Store(c) BY <2>4, StoreKeepsOne
  <2>5. CASE Lookup(c) \/ Answer(c)
    <3>1. \A d \in Call : At(d, "enqueue")' => At(d, "enqueue") /\ call'[d] = call[d]
      BY <1>a, <2>5 DEF Lookup, Answer, Return, NoRequest, At
    <3>2. call[c].key \in Key BY <2>5 DEF Lookup, Answer, At, CallsKnowTheirEvent
    <3>3. \A k \in answered' : k \in answered \/ events[k] \notin {NoEvent, {}}
      BY <2>5, <3>2 DEF Lookup, Answer, OneEnqueues, Stored
    <3> QED BY <2>5, <3>1, <3>3, QueueUntouched DEF Lookup, Answer
  <2>6. CASE Reject(c) \/ RecordRejection(c) \/ Crash(c)
    <3>1. \A d \in Call : At(d, "enqueue")' => At(d, "enqueue") /\ call'[d] = call[d]
      BY <1>a, <2>6 DEF Reject, RecordRejection, Crash, Goto, Return, NoRequest, At, Calls
    <3> QED BY <2>6, <3>1, QueueUntouched DEF Reject, RecordRejection, Crash, history
  <2>7. ASSUME NEW l \in Connection, EnqueueOne(c, l) PROVE OneEnqueues' /\ AnsweredIsStored' /\ QueuedOnce'
    BY <2>7, EnqueueKeepsOne
  <2>8. ASSUME NEW l \in Connection, LoseOne(c, l) PROVE OneEnqueues' /\ AnsweredIsStored' /\ QueuedOnce'
    <3>1. \A d \in Call : At(d, "enqueue")' =>
            At(d, "enqueue") /\ call'[d].key = call[d].key /\ call'[d].links \subseteq call[d].links
      BY <1>a, <2>8 DEF LoseOne, At, Calls
    <3> QED BY <2>8, <3>1, QueueUntouched DEF LoseOne, history
  <2> QED BY <1>2, <2>1, <2>2, <2>3, <2>4, <2>5, <2>6, <2>7, <2>8 DEF Step
<1>3. CASE Environment
  <2>1. ASSUME NEW k \in Key, Expire(k) PROVE OneEnqueues' /\ AnsweredIsStored' /\ QueuedOnce'
    BY <2>1, ExpireKeepsOne
  <2>2. ASSUME UNCHANGED <<events, queued, call, answered>> PROVE OneEnqueues' /\ AnsweredIsStored' /\ QueuedOnce'
    BY <2>2, QueueUntouched DEF At
  <2> QED BY <1>1, <1>3, <2>1, <2>2 DEF Environment, AddConnection, RemoveConnection, DeleteSource, history
<1>4. CASE UNCHANGED vars BY <1>1, <1>4, QueueUntouched DEF vars, At
<1> QED BY <1>1, <1>2, <1>3, <1>4 DEF Next

(* At first there is no request, and nothing is stored.                        *)
LEMMA IngressStart == ASSUME Init PROVE IngressInv
<1> USE IngressAssumption DEF Init
<1>1. NoRequest \in Calls BY DEF NoRequest, Calls, CallPc
<1>2. IngressTyped BY <1>1 DEF IngressTyped
<1>3. \A c \in Call : call[c].pc = "idle" BY DEF NoRequest
<1>4. CallsKnowTheirEvent BY <1>3 DEF CallsKnowTheirEvent
<1>5. Storing = {} BY <1>3 DEF Storing, At
<1>6. PlacesAreCounted BY <1>5, FS_EmptySet DEF PlacesAreCounted
<1>7. OneEnqueues /\ AnsweredIsStored /\ QueuedOnce BY <1>3 DEF OneEnqueues, AnsweredIsStored, QueuedOnce, At
<1> QED BY <1>2, <1>4, <1>6, <1>7 DEF IngressInv

-----------------------------------------------------------------------------
(* However many webhooks and replays come at once, a free organization gets no  *)
(* more events stored than its plan includes: IngressService.receive counts     *)
(* before it stores, in one atomic increment.                                  *)
THEOREM FreePlanIsKept == Spec => []StoredWithinPlan
<1>1. IngressInv => StoredWithinPlan
  BY FS_CardinalityType, IngressAssumption DEF IngressInv, IngressTyped, PlacesAreCounted, StoredWithinPlan
<1> QED BY <1>1, IngressStart, IngressStep, PTL DEF Spec

(* Every event that is stored is on the counter of the bill, also when the      *)
(* process dies between the two (incrementUsage comes first).                  *)
THEOREM EventsAreBilled == Spec => []StoredIsCounted
<1>1. IngressInv => StoredIsCounted
  BY FS_CardinalityType DEF IngressInv, IngressTyped, PlacesAreCounted, StoredIsCounted
<1> QED BY <1>1, IngressStart, IngressStep, PTL DEF Spec

(* What was answered 200 is stored with a delivery to send, unless retention     *)
(* has deleted it since, whichever of several copies was answered.              *)
THEOREM AcceptedIsStored == Spec => []AnsweredIsStored
<1>1. IngressInv => AnsweredIsStored BY DEF IngressInv
<1> QED BY <1>1, IngressStart, IngressStep, PTL DEF Spec

(* No delivery is put into the queue twice by ingress, however many copies of   *)
(* its webhook arrive together.                                                *)
THEOREM CopiesQueueOnce == Spec => []QueuedOnce
<1>1. IngressInv => QueuedOnce BY DEF IngressInv
<1> QED BY <1>1, IngressStart, IngressStep, PTL DEF Spec

-----------------------------------------------------------------------------
(* What comes before the first prefix is not one, so the search finds it there. *)
LEMMA PrefixIsFound ==
  ASSUME NEW E, NEW value \in Seq(E), NEW n \in 1 .. Len(value), value[n] = prefix,
         \A i \in 1 .. n - 1 : value[i] # prefix
  PROVE  FirstPrefix(value) = n
<1> DEFINE I == {i \in 1 .. Len(value) : value[i] = prefix}
<1>1. n \in I /\ \A i \in I : n <= i OBVIOUS
<1>2. Min(I) \in I /\ Min(I) <= n BY <1>1 DEF Min
<1>3. Min(I) = n BY <1>1, <1>2
<1> QED BY <1>1, <1>3 DEF FirstPrefix, SelectInSeq

(* The three parts of a header, one after the other.                           *)
LEMMA ThreeParts ==
  ASSUME NEW E, NEW s \in Seq(E), NEW t \in Seq(E), NEW u \in Seq(E)
  PROVE  /\ s \o t \o u \in Seq(E)
         /\ Len(s \o t \o u) = Len(s) + Len(t) + Len(u)
         /\ \A i \in 1 .. Len(s) : (s \o t \o u)[i] = s[i]
         /\ \A i \in 1 .. Len(t) : (s \o t \o u)[Len(s) + i] = t[i]
         /\ \A i \in 1 .. Len(u) : (s \o t \o u)[Len(s) + Len(t) + i] = u[i]
<1>1. s \o t \in Seq(E) /\ Len(s \o t) = Len(s) + Len(t) OBVIOUS
<1>2. \A i \in 1 .. Len(t) : (s \o t)[Len(s) + i] = t[i] OBVIOUS
<1> QED BY <1>1, <1>2

(* The parts a header is made of, once the webhook has its id.                  *)
HeaderPart == {prefix, separator, text} \cup {Mac(k, signedPayload("id")) : k \in SigningKey}

(* A signature can be told from the other parts, and from that of another key.  *)
LEMMA PartsDiffer ==
  /\ \A k, p : Mac(k, p) \notin {prefix, separator, text}
  /\ \A j, k, p : Mac(j, p) = Mac(k, p) => j = k
  /\ prefix # separator /\ prefix # text
<1>1. /\ prefix.is = "prefix" /\ separator.is = "separator" /\ text.is = "text"
      /\ \A k, p : Mac(k, p).is = "mac" /\ Mac(k, p).key = k
  BY DEF prefix, separator, text, Mac
<1> QED BY <1>1

(* One signature, with its prefix where the format has one.                     *)
LEMMA SignedParts ==
  ASSUME config \in Configs, NEW k \in SigningKey
  PROVE  LET h == Signed(k, "id") IN
         /\ h \in Seq(HeaderPart) /\ Len(h) >= 1
         /\ config.prefix => h[1] = prefix
         /\ \E i \in 1 .. Len(h) : h[i] = Mac(k, signedPayload("id"))
         /\ \A i \in 1 .. Len(h) : h[i] \in {prefix, Mac(k, signedPayload("id"))}
<1> DEFINE m == Mac(k, signedPayload("id"))
           h == Signed(k, "id")
<1>1. m \in HeaderPart /\ prefix \in HeaderPart BY DEF HeaderPart
<1> HIDE DEF m, h
<1>2. CASE config.prefix
  <2>1. h = <<prefix>> \o <<m>> BY <1>2 DEF Signed, m, h
  <2>2. <<prefix>> \in Seq(HeaderPart) /\ <<m>> \in Seq(HeaderPart) BY <1>1
  <2>3. h \in Seq(HeaderPart) /\ Len(h) = 2 /\ h[1] = prefix /\ h[2] = m
    <3>1. \A E : \A x, y \in E : LET w == <<x>> \o <<y>> IN w \in Seq(E) /\ Len(w) = 2 /\ w[1] = x /\ w[2] = y
      OBVIOUS
    <3> QED BY <1>1, <2>1, <3>1
  <2> QED BY <2>3 DEF h, m
<1>3. CASE ~ config.prefix
  <2>1. h = <<>> \o <<m>> BY <1>3 DEF Signed, m, h
  <2>2. <<m>> \in Seq(HeaderPart) BY <1>1
  <2>3. h = <<m>> BY <2>1, <2>2
  <2>4. h \in Seq(HeaderPart) /\ Len(h) = 1 /\ h[1] = m BY <2>2, <2>3
  <2> QED BY <1>3, <2>4 DEF h, m
<1> QED BY <1>2, <1>3

(* The signatures of all keys in use are in the header, and no others.          *)
OneOrTwo(ks) == ks \in Seq(SigningKey) /\ Len(ks) \in {1, 2}

HeaderSays(ks) ==
  LET h == HeaderOf(ks, "id") IN
  /\ h \in Seq(HeaderPart) /\ Len(h) >= 1
  /\ config.prefix => h[1] = prefix
  /\ \A k \in ToSet(ks) : \E i \in 1 .. Len(h) : h[i] = Mac(k, signedPayload("id"))
  /\ \A k \in SigningKey : \A i \in 1 .. Len(h) :
       h[i] = Mac(k, signedPayload("id")) => k \in ToSet(ks)

LEMMA HeaderParts ==
  ASSUME config \in Configs, NEW ks, OneOrTwo(ks)
  PROVE  HeaderSays(ks)
<1> DEFINE m(k) == Mac(k, signedPayload("id"))
           h == HeaderOf(ks, "id")
<1>0. ks \in Seq(SigningKey) /\ DOMAIN ks = 1 .. Len(ks) BY DEF OneOrTwo
<1>1. CASE Len(ks) = 1
  <2> DEFINE a == ks[1]
  <2>0. a \in SigningKey BY <1>0, <1>1
  <2>1. h = Signed(a, "id") /\ ToSet(ks) = {a} BY <1>0, <1>1 DEF HeaderOf, ToSet
  <2> HIDE DEF a
  <2> QED BY <2>0, <2>1, SignedParts, PartsDiffer DEF HeaderSays
<1>2. CASE Len(ks) = 2
  <2> DEFINE a == ks[1]
             b == ks[2]
             s == Signed(a, "id")
             t == <<separator>>
             u == Signed(b, "id")
  <2>0. a \in SigningKey /\ b \in SigningKey BY <1>0, <1>2
  <2>1. h = s \o t \o u /\ ToSet(ks) = {a, b} BY <1>0, <1>2 DEF HeaderOf, ToSet
  <2> HIDE DEF a, b
  <2>2. s \in Seq(HeaderPart) /\ t \in Seq(HeaderPart) /\ u \in Seq(HeaderPart)
    BY <2>0, SignedParts DEF HeaderPart
  <2>3. Len(s) >= 1 /\ Len(t) = 1 /\ Len(u) >= 1 /\ t[1] = separator BY <2>0, SignedParts
  <2>s. /\ config.prefix => s[1] = prefix
        /\ \E i \in 1 .. Len(s) : s[i] = m(a)
        /\ \A i \in 1 .. Len(s) : s[i] \in {prefix, m(a)}
    BY <2>0, SignedParts
  <2>u. /\ \E i \in 1 .. Len(u) : u[i] = m(b)
        /\ \A i \in 1 .. Len(u) : u[i] \in {prefix, m(b)}
    BY <2>0, SignedParts
  <2> HIDE DEF s, t, u, h, m
  <2>4. /\ h \in Seq(HeaderPart) /\ Len(h) = Len(s) + Len(t) + Len(u)
        /\ \A i \in 1 .. Len(s) : h[i] = s[i]
        /\ \A i \in 1 .. Len(t) : h[Len(s) + i] = t[i]
        /\ \A i \in 1 .. Len(u) : h[Len(s) + Len(t) + i] = u[i]
    BY <2>1, <2>2, ThreeParts
  <2>5. Len(s) \in Nat /\ Len(u) \in Nat BY <2>2
  <2>6. Len(h) >= 1 /\ (config.prefix => h[1] = prefix) BY <2>3, <2>4, <2>5, <2>s
  <2>7. (\E i \in 1 .. Len(h) : h[i] = m(a)) /\ (\E i \in 1 .. Len(h) : h[i] = m(b))
    <3>1. PICK i \in 1 .. Len(s) : s[i] = m(a) BY <2>s
    <3>2. i \in 1 .. Len(h) /\ h[i] = m(a) BY <2>3, <2>4, <2>5, <3>1
    <3>3. PICK j \in 1 .. Len(u) : u[j] = m(b) BY <2>u
    <3>4. Len(s) + Len(t) + j \in 1 .. Len(h) /\ h[Len(s) + Len(t) + j] = m(b)
      BY <2>3, <2>4, <2>5, <3>3
    <3> QED BY <3>2, <3>4
  <2>8. ASSUME NEW i \in 1 .. Len(h) PROVE h[i] \in {prefix, separator, m(a), m(b)}
    <3>1. CASE i <= Len(s) BY <2>4, <2>5, <2>s, <3>1
    <3>2. CASE i = Len(s) + 1 BY <2>3, <2>4, <2>5, <3>2
    <3>3. CASE i > Len(s) + 1
      <4>0. Len(h) = Len(s) + 1 + Len(u) /\ Len(t) = 1 /\ i \in Int BY <2>3, <2>4, <2>5
      <4>1. i - Len(s) - 1 \in 1 .. Len(u) /\ Len(s) + Len(t) + (i - Len(s) - 1) = i
        BY <2>5, <3>3, <4>0
      <4> QED BY <2>4, <2>u, <4>1
    <3> QED BY <2>5, <3>1, <3>2, <3>3
  <2>9. ASSUME NEW k \in SigningKey, NEW i \in 1 .. Len(h), h[i] = m(k) PROVE k \in {a, b}
    BY <2>8, <2>9, PartsDiffer DEF m
  <2> QED BY <2>1, <2>4, <2>6, <2>7, <2>9 DEF HeaderSays, h, m
<1> QED BY <1>1, <1>2 DEF OneOrTwo

(* Whatever stands before and after them: a signature is a candidate exactly if *)
(* its key is one of those in use.                                             *)
LEMMA EverySignatureCounts ==
  ASSUME config \in Configs, NEW ks, OneOrTwo(ks), NEW k \in SigningKey,
         NEW before \in {<<>>, <<text, separator>>}, NEW after \in {<<>>, <<separator, text>>}
  PROVE  Mac(k, signedPayload("id")) \in candidates(before \o HeaderOf(ks, "id") \o after) <=> k \in ToSet(ks)
<1> DEFINE m == Mac(k, signedPayload("id"))
           h == HeaderOf(ks, "id")
           value == before \o h \o after
           n == Len(before)
<1>0. \A s \in {<<>>, <<text, separator>>, <<separator, text>>} :
        s \in Seq(HeaderPart) /\ Len(s) \in Nat /\ \A i \in 1 .. Len(s) : s[i] \in {text, separator}
  <2>1. text \in HeaderPart /\ separator \in HeaderPart BY DEF HeaderPart
  <2>2. <<>> \in Seq(HeaderPart) /\ Len(<<>>) = 0 OBVIOUS
  <2>3. ASSUME NEW x \in {text, separator}, NEW y \in {text, separator}
        PROVE  /\ <<x, y>> \in Seq(HeaderPart) /\ Len(<<x, y>>) = 2
               /\ \A i \in 1 .. 2 : <<x, y>>[i] \in {text, separator}
    BY <2>1, <2>3
  <2> TAKE s \in {<<>>, <<text, separator>>, <<separator, text>>}
  <2>4. CASE s = <<>> BY <2>2, <2>4
  <2>5. CASE s # <<>> BY <2>3, <2>5
  <2> QED BY <2>4, <2>5
<1>1. /\ before \in Seq(HeaderPart) /\ after \in Seq(HeaderPart)
      /\ n \in Nat /\ Len(after) \in Nat
      /\ \A i \in 1 .. n : before[i] \in {text, separator}
      /\ \A i \in 1 .. Len(after) : after[i] \in {text, separator}
  BY <1>0
<1>2. HeaderSays(ks) BY HeaderParts
<1>3. h \in Seq(HeaderPart) /\ Len(h) \in Nat /\ Len(h) >= 1 BY <1>2 DEF HeaderSays
<1>4. \A i \in 1 .. Len(h) : h[i] = m => k \in ToSet(ks) BY <1>2 DEF HeaderSays
<1>5. k \in ToSet(ks) => \E i \in 1 .. Len(h) : h[i] = m BY <1>2 DEF HeaderSays
<1>6. config.prefix => h[1] = prefix BY <1>2 DEF HeaderSays
<1>7. m \notin {prefix, separator, text} /\ prefix \notin {text, separator} BY PartsDiffer
<1> HIDE DEF m, h
<1>8. /\ value \in Seq(HeaderPart) /\ Len(value) = n + Len(h) + Len(after)
      /\ \A i \in 1 .. n : value[i] = before[i]
      /\ \A i \in 1 .. Len(h) : value[n + i] = h[i]
      /\ \A i \in 1 .. Len(after) : value[n + Len(h) + i] = after[i]
  BY <1>1, <1>3, ThreeParts
<1> DEFINE from == IF config.prefix THEN FirstPrefix(value) ELSE 1
<1>9. from \in 1 .. n + 1
  <2>1. CASE config.prefix
    <3>1. n + 1 \in 1 .. Len(value) BY <1>1, <1>3, <1>8
    <3>2. value[n + 1] = prefix BY <1>1, <1>3, <1>6, <1>8, <2>1
    <3>3. \A i \in 1 .. n : value[i] # prefix BY <1>1, <1>7, <1>8
    <3>4. \A i \in 1 .. (n + 1) - 1 : value[i] # prefix BY <1>1, <3>3
    <3> HIDE DEF value
    <3>5. FirstPrefix(value) = n + 1 BY <1>8, <3>1, <3>2, <3>4, PrefixIsFound
    <3> QED BY <1>1, <2>1, <3>5
  <2>2. CASE ~ config.prefix BY <1>1, <2>2
  <2> QED BY <2>1, <2>2
<1>10. candidates(value) = {value[i] : i \in from .. Len(value)} \ {prefix, separator}
  BY <1>1, <1>9 DEF candidates
<1> HIDE DEF value, from, n
<1>11. ASSUME k \in ToSet(ks) PROVE m \in candidates(value)
  <2>1. PICK i \in 1 .. Len(h) : h[i] = m BY <1>5, <1>11
  <2>2. n + i \in from .. Len(value) /\ value[n + i] = m BY <1>1, <1>3, <1>8, <1>9, <2>1
  <2> QED BY <1>7, <1>10, <2>2
<1>12. ASSUME m \in candidates(value) PROVE k \in ToSet(ks)
  <2>1. PICK i \in from .. Len(value) : value[i] = m BY <1>10, <1>12
  <2>2. i \in 1 .. Len(value) BY <1>1, <1>8, <1>9
  <2>3. CASE i <= n BY <1>1, <1>7, <1>8, <2>1, <2>2, <2>3
  <2>4. CASE i > n /\ i <= n + Len(h)
    <3>1. i - n \in 1 .. Len(h) /\ n + (i - n) = i BY <1>1, <1>3, <2>2, <2>4
    <3> QED BY <1>4, <1>8, <2>1, <3>1
  <2>5. CASE i > n + Len(h)
    <3>0. Len(value) = n + Len(h) + Len(after) BY <1>8
    <3>1. i - n - Len(h) \in 1 .. Len(after) /\ n + Len(h) + (i - n - Len(h)) = i
      BY <1>1, <1>3, <2>2, <2>5, <3>0
    <3> QED BY <1>1, <1>7, <1>8, <2>1, <3>1
  <2> QED BY <1>1, <1>3, <2>2, <2>3, <2>4, <2>5
<1> QED BY <1>11, <1>12 DEF m, h, value

-----------------------------------------------------------------------------
(* A webhook under way carries a signature for each key it was signed with, as  *)
(* long as the header is there, and its own id if any.                         *)
UnderWay ==
  webhook # Missing =>
    /\ \E header, time, id, by : webhook = [header |-> header, time |-> time, id |-> id, by |-> by]
    /\ webhook.header # Missing =>
         \A k \in SigningKey :
            Mac(k, signedPayload("id")) \in candidates(webhook.header) <=> k \in webhook.by
    /\ webhook.id # Missing => webhook.id = "id"

SignatureInv ==
  config \in Configs /\ OneOrTwo(active) /\ stored \in SigningKey /\ UnderWay /\ RotationLosesNothing

(* The sender has one key or two, whatever it does with them.                   *)
LEMMA KeysInUse ==
  ASSUME OneOrTwo(active), NEW k \in SigningKey, IssueKey(k) \/ RetireKey(k) PROVE OneOrTwo(active')
<1>1. CASE IssueKey(k)
  <2>1. active \in Seq(SigningKey) /\ Len(active) = 1 BY <1>1 DEF IssueKey, OneOrTwo
  <2>2. Append(active, k) \in Seq(SigningKey) /\ Len(Append(active, k)) = 2 BY <2>1
  <2>3. <<k>> \in Seq(SigningKey) /\ Len(<<k>>) = 1 OBVIOUS
  <2>4. Cons(k, active) \in Seq(SigningKey) /\ Len(Cons(k, active)) = 2 BY <2>1, <2>3 DEF Cons
  <2> QED BY <1>1, <2>2, <2>4 DEF IssueKey, OneOrTwo
<1>2. CASE RetireKey(k)
  <2>1. ToSet(active) \subseteq SigningKey BY DEF OneOrTwo, ToSet
  <2> QED BY <1>2, <2>1 DEF RetireKey, OneOrTwo
<1> QED BY <1>1, <1>2

(* What verifySignature says of a webhook under way.                            *)
LEMMA VerdictIsRight ==
  ASSUME SignatureInv, webhook # Missing
  PROVE  verifySignature(webhook) = "ok" <=>
           /\ stored \in webhook.by
           /\ webhook.header # Missing
           /\ config.timestamp_header => webhook.time # Missing
           /\ config.covers => webhook.id # Missing
           /\ config.timestamp_header => ~ (age > Tolerance)
<1>1. config.covers => webhook.id = Missing \/ webhook.id = "id" BY DEF SignatureInv, UnderWay
<1>2. webhook.id # Missing \/ ~ config.covers => signedPayload(webhook.id) = signedPayload("id")
  BY DEF signedPayload, SignatureInv, UnderWay
<1>3. webhook.header # Missing =>
        (Mac(stored, signedPayload("id")) \in candidates(webhook.header) <=> stored \in webhook.by)
  BY DEF SignatureInv, UnderWay
<1> QED BY <1>1, <1>2, <1>3 DEF verifySignature

(* The invariant is inductive.                                                 *)
LEMMA SignatureStep == ASSUME SignatureInv, [SignatureNext]_signature PROVE SignatureInv'
<1> USE DEF SignatureInv
<1>1. ASSUME NEW k \in SigningKey, IssueKey(k) \/ RetireKey(k) \/ EnterKey(k) PROVE SignatureInv'
  <2>1. UNCHANGED <<config, webhook, verdict>> BY <1>1 DEF IssueKey, RetireKey, EnterKey
  <2>2. UnderWay' BY <2>1 DEF UnderWay, candidates, signedPayload
  <2>3. RotationLosesNothing' BY <2>1 DEF RotationLosesNothing
  <2>4. OneOrTwo(active)' BY <1>1, KeysInUse DEF OneOrTwo, EnterKey
  <2>5. stored' \in SigningKey BY <1>1 DEF IssueKey, RetireKey, EnterKey
  <2> QED BY <2>1, <2>2, <2>3, <2>4, <2>5
<1>2. CASE Send
  <2>1. PICK before \in {<<>>, <<text, separator>>}, after \in {<<>>, <<separator, text>>} :
          webhook' = [header |-> before \o HeaderOf(active, "id") \o after, time |-> "time", id |-> "id", by |-> ToSet(active)]
    BY <1>2 DEF Send
  <2>2. UNCHANGED <<config, active, stored>> /\ verdict' = Missing BY <1>2 DEF Send
  <2>3. \A k \in SigningKey :
          Mac(k, signedPayload("id")) \in candidates(webhook'.header) <=> k \in webhook'.by
    BY <2>1, EverySignatureCounts
  <2>4. UnderWay' BY <2>1, <2>2, <2>3 DEF UnderWay, candidates, signedPayload
  <2> QED BY <2>2, <2>4 DEF RotationLosesNothing, OneOrTwo
<1>3. CASE Grow
  BY <1>3 DEF Grow, UnderWay, candidates, signedPayload, RotationLosesNothing, OneOrTwo
<1>4. CASE LoseHeader
  <2>1. PICK name \in {"header", "time", "id"} : webhook' = [webhook EXCEPT ![name] = Missing]
    BY <1>4 DEF LoseHeader
  <2>2. UNCHANGED <<config, active, stored, verdict>> /\ webhook # Missing BY <1>4 DEF LoseHeader
  <2>3. PICK header, time, id, by : webhook = [header |-> header, time |-> time, id |-> id, by |-> by]
    BY <2>2 DEF UnderWay
  <2>4. /\ webhook' = [header |-> webhook'.header, time |-> webhook'.time, id |-> webhook'.id, by |-> by]
        /\ webhook'.header \in {webhook.header, Missing} /\ webhook'.id \in {webhook.id, Missing}
        /\ webhook'.by = webhook.by
    BY <2>1, <2>3
  <2>5. ASSUME webhook'.header # Missing, NEW k \in SigningKey
        PROVE  Mac(k, signedPayload("id"))' \in candidates(webhook.header)' <=> k \in webhook'.by
    <3>1. Mac(k, signedPayload("id")) \in candidates(webhook.header) <=> k \in webhook.by
      BY <2>2, <2>4, <2>5 DEF UnderWay
    <3>2. webhook'.header = webhook.header BY <2>4, <2>5
    <3>3. Mac(k, signedPayload("id"))' = Mac(k, signedPayload("id")) BY <2>2 DEF signedPayload
    <3>4. candidates(webhook.header)' = candidates(webhook.header) BY <2>2, <3>2 DEF candidates
    <3> QED BY <2>4, <3>1, <3>3, <3>4
  <2>6. UnderWay' BY <2>2, <2>4, <2>5 DEF UnderWay
  <2> QED BY <2>2, <2>6 DEF RotationLosesNothing, OneOrTwo
<1>5. CASE ReceiveSigned
  <2>1. UNCHANGED <<config, active, stored>> /\ webhook' = Missing /\ webhook # Missing
    BY <1>5 DEF ReceiveSigned
  <2>2. RotationLosesNothing' BY <1>5, <2>1, VerdictIsRight DEF ReceiveSigned, RotationLosesNothing
  <2> QED BY <2>1, <2>2 DEF UnderWay, OneOrTwo
<1>6. CASE UNCHANGED signature
  BY <1>6 DEF signature, UnderWay, candidates, signedPayload, RotationLosesNothing, OneOrTwo
<1> QED BY <1>1, <1>2, <1>3, <1>4, <1>5, <1>6 DEF SignatureNext

(* While a sender changes its keys, exactly the webhooks that come whole, in    *)
(* time and signed with the key of the source are accepted (verifySignature     *)
(* reads every signature in the header).                                       *)
THEOREM KeysRotateSafely == SignatureSpec => []RotationLosesNothing
<1>1. SignatureInit => SignatureInv
  BY DEF SignatureInit, SignatureInv, UnderWay, RotationLosesNothing, OneOrTwo
<1>2. SignatureInv => RotationLosesNothing BY DEF SignatureInv
<1> QED BY <1>1, <1>2, SignatureStep, PTL DEF SignatureSpec

=============================================================================
