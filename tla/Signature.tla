----------------------------- MODULE Signature ------------------------------
(* The signature of a webhook: verifySignature, against a sender that changes  *)
(* its keys the way such senders do.  While two keys are in use it signs with  *)
(* both, and the customer enters the new one into the source, which keeps one. *)
(* A MAC tells its key and what was signed and nothing else; encodings of keys *)
(* and MACs are left out, what does not decode is a text.                      *)
EXTENDS Sequences, SequencesExt, Integers

CONSTANTS
  SigningKey,
  Tolerance,  \* tolerance_sec, in ticks
  Missing     \* no such header

VARIABLES
  config,   \* signature_config, as the sender's format asks for
  active,   \* the keys the sender signs with, in order
  retired,  \* keys it signs with no more
  stored,   \* the key in the source
  webhook,  \* the one under way, or Missing
  age,      \* ticks since it was signed
  verdict   \* what was said of the last one, and what of it was the case

signature == <<config, active, retired, stored, webhook, age, verdict>>

(* What a signature header is made of.                                         *)
prefix == [is |-> "prefix"]
separator == [is |-> "separator"]
text == [is |-> "text"]
Mac(k, payload) == [is |-> "mac", key |-> k, of |-> payload]

Configs == [prefix : BOOLEAN, timestamp_header : BOOLEAN, covers : BOOLEAN]

(* signedPayload: the body, perhaps with another header of the webhook, which    *)
(* then must be there.                                                          *)
signedPayload(id) == IF config.covers THEN <<"body", id>> ELSE <<"body">>

(* Only what follows a prefix counts, up to the next one; of that, every piece.  *)
FirstPrefix(value) == SelectInSeq(value, LAMBDA t : t = prefix)

CandidatesOfFirst(value) ==
  IF config.prefix THEN {value[i] : i \in {j \in 2 .. Len(value) : j = FirstPrefix(value) + 1}}
  ELSE ToSet(value)
candidates(value) ==
  LET from == IF config.prefix THEN FirstPrefix(value) ELSE 1 IN
  IF from = 0 THEN {} ELSE {value[i] : i \in from .. Len(value)} \ {prefix, separator}

verifySignature(w) ==
  IF w.header = Missing \/ (config.timestamp_header /\ w.time = Missing) THEN "signature_missing"
  ELSE IF config.timestamp_header /\ age > Tolerance THEN "timestamp_out_of_range"
  ELSE IF config.covers /\ w.id = Missing THEN "signature_missing"
  ELSE IF Mac(stored, signedPayload(w.id)) \in candidates(w.header) THEN "ok" ELSE "signature_mismatch"

-----------------------------------------------------------------------------
SignatureInit ==
  /\ config \in Configs
  /\ \E k \in SigningKey : active = <<k>> /\ stored = k
  /\ retired = {} /\ webhook = Missing /\ age = 0 /\ verdict = Missing

(* The sender signs with a new key as well, before or after the old one.       *)
IssueKey(k) ==
  /\ k \notin ToSet(active) \cup retired /\ Len(active) < 2
  /\ active' \in {Append(active, k), Cons(k, active)}
  /\ UNCHANGED <<config, retired, stored, webhook, age, verdict>>

RetireKey(k) ==
  /\ k \in ToSet(active) /\ Len(active) = 2
  /\ \E j \in ToSet(active) \ {k} : active' = <<j>>
  /\ retired' = retired \cup {k}
  /\ UNCHANGED <<config, stored, webhook, age, verdict>>

EnterKey(k) ==
  /\ k \in ToSet(active) /\ k # stored
  /\ stored' = k
  /\ UNCHANGED <<config, active, retired, webhook, age, verdict>>

(* One signature for each key, with or without other things around them: the    *)
(* time, a signature of another version.                                        *)
Signed(k, id) == (IF config.prefix THEN <<prefix>> ELSE <<>>) \o <<Mac(k, signedPayload(id))>>
HeaderOf(ks, id) ==
  IF Len(ks) = 1 THEN Signed(ks[1], id) ELSE Signed(ks[1], id) \o <<separator>> \o Signed(ks[2], id)

Send ==
  /\ webhook = Missing
  /\ \E before \in {<<>>, <<text, separator>>}, after \in {<<>>, <<separator, text>>} :
       webhook' = [header |-> before \o HeaderOf(active, "id") \o after, time |-> "time", id |-> "id", by |-> ToSet(active)]
  /\ age' = 0 /\ verdict' = Missing
  /\ UNCHANGED <<config, active, retired, stored>>

(* On the way it gets older, and may lose a header.                             *)
Grow ==
  /\ webhook # Missing /\ age <= Tolerance
  /\ age' = age + 1
  /\ UNCHANGED <<config, active, retired, stored, webhook, verdict>>

LoseHeader ==
  /\ webhook # Missing
  /\ \E name \in {"header", "time", "id"} : webhook' = [webhook EXCEPT ![name] = Missing]
  /\ UNCHANGED <<config, active, retired, stored, age, verdict>>

ReceiveSigned ==
  /\ webhook # Missing
  /\ verdict' = [result |-> verifySignature(webhook), signed |-> stored \in webhook.by,
                 late |-> age > Tolerance,
                 whole |-> /\ webhook.header # Missing
                           /\ config.timestamp_header => webhook.time # Missing
                           /\ config.covers => webhook.id # Missing]
  /\ webhook' = Missing
  /\ UNCHANGED <<config, active, retired, stored, age>>

SignatureNext ==
  \/ \E k \in SigningKey : IssueKey(k) \/ RetireKey(k) \/ EnterKey(k)
  \/ Send \/ Grow \/ LoseHeader \/ ReceiveSigned

SignatureSpec == SignatureInit /\ [][SignatureNext]_signature

-----------------------------------------------------------------------------
(* While keys change hands nothing is lost and nothing slips through: a webhook  *)
(* is accepted exactly if it arrives whole and, where times are looked at, in    *)
(* time, and one of its signatures, wherever it stands in the header, is by the  *)
(* key the source has when it arrives.                                          *)
RotationLosesNothing ==
  verdict # Missing =>
    (verdict.result = "ok" <=> verdict.signed /\ verdict.whole /\ (config.timestamp_header => ~ verdict.late))
=============================================================================
