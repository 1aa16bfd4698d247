--------------------------- MODULE DeliveryTypes ---------------------------
(* What the tables and the queue have in common: the deliveries, why an       *)
(* attempt is made, and the clock.                                            *)
(*                                                                            *)
(* Time is counted in ticks and kept as distance from now, so that it needs   *)
(* no horizon: a time still to come is a positive number of ticks, one that   *)
(* has passed is negative, down to -StaleAge, after which nothing in the code *)
(* reads the difference.                                                      *)
EXTENDS Integers

CONSTANTS
  Delivery,  \* the delivery rows ingress has stored
  StaleAge,  \* STALE_MS of the sweeper, in ticks
  MaxWait,   \* longest time a delivery is put off, in ticks (bound)
  NoTime     \* SQL NULL in next_attempt_at, no member in the sorted set

ASSUME TypesAssumption ==
  /\ StaleAge \in Nat \ {0}
  /\ MaxWait \in Nat
  /\ NoTime \notin Int

Trigger == {"initial", "automatic", "manual", "bulk_retry", "unpause"}
NoTrigger == "none"

Ticks == (0 - StaleAge) .. MaxWait
Time == Ticks \cup {NoTime}

(* The same time, seen one tick later.                                        *)
Sooner(t) == IF t = NoTime \/ t = 0 - StaleAge THEN t ELSE t - 1

=============================================================================
