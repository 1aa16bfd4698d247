------------------------------ MODULE MCSending ------------------------------
(* What a worker process does besides the queue, for TLC: the guard that lets a *)
(* request through, the client that sends it, the schedule of the next one, and *)
(* retention.  They share no state; each is a scene of its own.                 *)
EXTENDS DestinationGuard, DestinationClient, RetrySchedule, Retention

VARIABLE scene

sending == <<vars, client, schedule, retention, scene>>

MCRules ==
  {DefaultRule, [strategy |-> "linear", interval |-> 86400, count |-> 50], [strategy |-> "linear", interval |-> 21600, count |-> 3],
   [strategy |-> "exponential", interval |-> 86400, count |-> 50]}
MCEdits == {[count |-> 3], [strategy |-> "linear", interval |-> 86400]}
MCReplies == {{<<"absent">>}, {<<"unreadable">>, <<"seconds", 0>>, <<"date", 86400>>, <<"seconds", 518400>>}}

MCKind == <<"event", "event", "rejection">>
MCOwnerOf == <<"o1", "o2", "o1">>
MCPlans == <<"free", "team">>
MCReceived == <<1, 1, 1>>
MCDays == [free |-> 1, team |-> 2]

(* Scenes that are not on stay in one of their initial states.                  *)
GuardScene == scene = "guard"
OneClient == target = [by |-> "name", ips |-> {"public"}] /\ allowPrivate = FALSE
OneSchedule == rule = DefaultRule /\ replies = {<<"absent">>}
OneRetention == plan = [o \in Organization |-> "free"]

SendingInit ==
  /\ scene \in {"guard", "client", "schedule", "retention"}
  /\ Init
  /\ ClientInit /\ (scene # "client" => OneClient)
  /\ ScheduleInit /\ (scene # "schedule" => OneSchedule)
  /\ scene = "schedule" /\ rule = DefaultRule => replies = {<<"absent">>}
  /\ RetentionInit /\ days = MCReceived /\ OneRetention

SendingNext ==
  /\ \/ scene = "guard" /\ Next /\ UNCHANGED <<client, schedule, retention>>
     \/ scene = "client" /\ ClientNext /\ UNCHANGED <<vars, schedule, retention>>
     \/ scene = "schedule" /\ ScheduleNext /\ UNCHANGED <<vars, client, retention>>
     \/ scene = "retention" /\ RetentionNext /\ UNCHANGED <<vars, client, schedule>>
  /\ UNCHANGED scene

(* FairSpec, ClientFairness and that of the one process that stays: its timer   *)
(* fires, and no statement fails each time for ever; each in its scene.         *)
RetentionScene == scene = "retention" /\ UNCHANGED <<vars, client, schedule, scene>>
SendingSpec ==
  /\ SendingInit /\ [][SendingNext]_sending
  /\ WF_sending(GuardScene /\ Tick /\ UNCHANGED <<client, schedule, retention, scene>>)
  /\ \A w \in Worker : WF_sending(GuardScene /\ Step(w) /\ UNCHANGED <<client, schedule, retention, scene>>)
  /\ WF_sending(scene = "client" /\ (send \/ OnTimeout \/ Destroyed) /\ UNCHANGED <<vars, schedule, retention, scene>>)
  /\ WF_sending(RetentionScene /\ (Begin(Staying) \/ Select(Staying)))
  /\ \A i \in 1 .. Len(Drains) : SF_sending(RetentionScene /\ Len(batch[Staying].drains) = i /\ Delete(Staying))

GuardNeverShutOut == GuardScene => NeverShutOut
ClientSettles == scene = "client" => SendSettles
=============================================================================
