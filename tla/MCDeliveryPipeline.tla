------------------------- MODULE MCDeliveryPipeline -------------------------
(* DeliveryPipeline for TLC.                                                  *)
EXTENDS DeliveryPipeline, TLC

(* Every delivery comes from the same connection.                             *)
OneConnection == [d \in Delivery |-> CHOOSE c \in Connection : TRUE]

Symmetric == Permutations(Worker) \cup Permutations(MessageId) \cup Permutations(Client)
  \cup Permutations(Delivery) \cup Permutations(Scheduler)

(* Triggers steer nothing: the runs that are not about them tell states apart  *)
(* by everything else.                                                        *)
ButTriggers ==
  <<row, connection, asked, scheduled, jobVars,
    [d \in Delivery |-> [i \in DOMAIN attempts[d] |-> attempts[d][i].attempt_no]],
    [m \in MessageId |-> IF InStream(m) THEN [stream[m] EXCEPT !.trigger = NoTrigger] ELSE NoMessage],
    [w \in Worker |-> [worker[w] EXCEPT !.trigger = NoTrigger]]>>

=============================================================================
