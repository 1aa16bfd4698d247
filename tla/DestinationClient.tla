------------------------- MODULE DestinationClient -------------------------
(* One request to a destination: NodeDestinationClient.send.  Events of Node's  *)
(* http client, the lookup of the host and the timer race for the promise.      *)
(* Bodies are counted in parts, of which the first BodyLimit are recorded.      *)
EXTENDS Naturals

CONSTANTS
  BodyLimit, \* RESPONSE_BODY_LIMIT
  MaxBody    \* bound: parts of the longest body

ASSUME ClientAssumption == BodyLimit \in Nat \ {0} /\ MaxBody \in Nat

VARIABLES
  target,  \* what the address is: a name, with all its addresses, or an IP
  allowPrivate,
  wire,    \* "created", "lookup", "connected", "responding",
           \* "ended", "destroyed", "closed"
  body,    \* parts of the response that have arrived
  armed,   \* the timer is running
  result   \* what the promise was settled with, or Pending

client == <<target, allowPrivate, wire, body, armed, result>>

Pending == [is |-> "pending"]
Failure(code) == [is |-> "error", code |-> code]
Recorded(n) == IF n > BodyLimit THEN BodyLimit ELSE n

Addresses == {"public", "private"}
Targets ==
  [by : {"name"}, ips : SUBSET Addresses \ {{}}] \cup [by : {"ip"}, ips : {{a} : a \in Addresses}]
    \cup {[by |-> "nonsense", ips |-> {}]}

ClientInit ==
  /\ target \in Targets /\ allowPrivate \in BOOLEAN
  /\ wire = "created" /\ body = 0 /\ armed = FALSE /\ result = Pending

(* The first one to settle wins, and stops the timer.                           *)
settle(r) == IF result = Pending THEN result' = r /\ armed' = FALSE ELSE UNCHANGED <<result, armed>>

Blocked == ~ allowPrivate /\ "private" \in target.ips

(* The part of send that runs at once.  An address or a header Node cannot use  *)
(* makes it throw; an IP is looked at here, since nobody looks it up.           *)
send ==
  /\ wire = "created"
  /\ \/ target.by = "nonsense" /\ settle(Failure("ERR_INVALID_URL")) /\ wire' = "closed"
     \/ target.by = "ip" /\ Blocked /\ settle(Failure("BLOCKED_ADDRESS")) /\ wire' = "closed"
     \/ /\ target.by = "name" \/ (target.by = "ip" /\ ~ Blocked)
        /\ wire' = IF target.by = "name" THEN "lookup" ELSE "connected"
        /\ armed' = TRUE /\ UNCHANGED result
  /\ UNCHANGED <<target, allowPrivate, body>>

(* Any of the addresses of a name may be the one that is used.                  *)
EveryBlocked == ~ allowPrivate /\ target.ips = {"private"}
SomeBlocked == Blocked

guardedLookup ==
  /\ wire = "lookup"
  /\ IF SomeBlocked THEN settle(Failure("BLOCKED_ADDRESS")) /\ wire' = "closed"
     ELSE wire' = "connected" /\ UNCHANGED <<result, armed>>
  /\ UNCHANGED <<target, allowPrivate, body>>

RespondInTime ==
  wire = "connected" /\ wire' = "responding" /\ armed' = FALSE /\ UNCHANGED <<target, allowPrivate, body, result>>

Respond == wire = "connected" /\ wire' = "responding" /\ UNCHANGED <<target, allowPrivate, body, armed, result>>

Done(n) == settle([is |-> "answer", recorded |-> Recorded(n), ended |-> wire' = "ended"])

OnData ==
  /\ wire = "responding" /\ body < MaxBody
  /\ \E n \in body + 1 .. MaxBody :
       /\ body' = n
       /\ IF n >= BodyLimit THEN wire' = "closed" /\ Done(n) ELSE UNCHANGED <<wire, armed, result>>
  /\ UNCHANGED <<target, allowPrivate>>

OnEnd == wire = "responding" /\ wire' = "ended" /\ Done(body) /\ UNCHANGED <<target, allowPrivate, body>>

(* The connection breaks, at whatever point: of the request or of the response. *)
AnsweredSoFar == Done(body)
OnError == settle(Failure("ECONNRESET"))

Break ==
  /\ wire \in {"lookup", "connected", "responding"}
  /\ wire' = "closed"
  /\ OnError
  /\ UNCHANGED <<target, allowPrivate, body>>

(* The timer destroys the request, and with it a response that has begun; the   *)
(* error it gives, or the one of the connection, is emitted later.              *)
OnTimeout ==
  /\ armed
  /\ armed' = FALSE /\ wire' = "destroyed"
  /\ UNCHANGED <<target, allowPrivate, body, result>>

Destroyed ==
  /\ wire = "destroyed" /\ wire' = "closed"
  /\ settle(Failure("TIMEOUT")) \/ OnError
  /\ UNCHANGED <<target, allowPrivate, body>>

ClientNext == send \/ guardedLookup \/ Respond \/ OnData \/ OnEnd \/ Break \/ OnTimeout \/ Destroyed

(* The event loop runs: timers fire, and what is destroyed says so.             *)
ClientFairness == WF_client(send) /\ WF_client(OnTimeout) /\ WF_client(Destroyed)

ClientSpec == ClientInit /\ [][ClientNext]_client /\ ClientFairness

-----------------------------------------------------------------------------
(* A destination that resolves to an inner address, with whatever other ones,   *)
(* is never connected to.                                                       *)
NeverInside == wire \in {"connected", "responding", "ended"} => allowPrivate \/ "private" \notin target.ips

(* What is recorded as an answer is one: all of it, or all that is recorded of  *)
(* any; a response that broke off is a failed attempt.                          *)
AnswerIsWhole == result.is = "answer" => result.recorded <= BodyLimit /\ (result.ended \/ result.recorded = BodyLimit)

(* The worker gets a result, though the destination may answer nothing, or not  *)
(* to the end, and the name server may not either.                              *)
SendSettles == result = Pending ~> result # Pending

=============================================================================
