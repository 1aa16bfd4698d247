----------------------------- MODULE MCIngress ------------------------------
(* What a webhook meets, for TLC: the check of its signature, and ingress,      *)
(* where the outcome of that check is a choice.  Each is a scene of its own.    *)
EXTENDS Ingress, Signature, TLC

VARIABLE scene

receiving == <<vars, signature, scene>>

ReceivingInit ==
  /\ scene \in {"ingress", "signature"}
  /\ Init /\ (scene = "signature" => link = [l \in Connection |-> "new"])
  /\ SignatureInit
  /\ scene = "ingress" =>
       config = [prefix |-> FALSE, timestamp_header |-> FALSE, covers |-> FALSE]
         /\ stored = CHOOSE k \in SigningKey : TRUE

ReceivingNext ==
  /\ \/ scene = "ingress" /\ Next /\ UNCHANGED signature
     \/ scene = "signature" /\ SignatureNext /\ UNCHANGED vars
  /\ UNCHANGED scene

ReceivingSpec == ReceivingInit /\ [][ReceivingNext]_receiving

Symmetric ==
  Permutations(Call) \cup Permutations(Webhook) \cup Permutations(Replay) \cup Permutations(Connection)

=============================================================================
