-------------------------- MODULE DestinationGuard --------------------------
(* What protects one destination, shared by all workers through Valkey: a     *)
(* semaphore of tokens that expire, and a circuit breaker whose state is read *)
(* off three keys (consecutive failures, open until, probe taken).            *)
(*                                                                            *)
(* Keys of different destinations never meet, so one destination is enough.   *)
(* Expiry times are kept as ticks left; 0 is expired.  A worker that holds    *)
(* something for a limited time has a deadline: the request has its timeout,  *)
(* and between two commands of which the second relies on the first at most   *)
(* Lag ticks pass.  That bound is an assumption about the host, the code      *)
(* leaves Grace (SLOT_GRACE_MS) for it.                                       *)
EXTENDS Integers, FiniteSets

CONSTANTS
  Worker,
  Token,       \* slot tokens (randomUUID); Limit + Cardinality(Worker) - 1 are enough (bound)
  NoToken,
  Limit,       \* destination.concurrency
  Timeout,     \* destination.timeout_ms
  Grace,       \* SLOT_GRACE_MS
  Lag,         \* longest pause between dependent commands
  Threshold,   \* CIRCUIT_FAILURE_THRESHOLD
  OpenFor,     \* CIRCUIT_OPEN_MS
  ProbeFor     \* PROBE_TTL_MS

ASSUME GuardAssumption ==
  /\ Limit \in Nat \ {0} /\ Threshold \in Nat \ {0}
  /\ Timeout \in Nat /\ Grace \in Nat /\ Lag \in Nat
  /\ OpenFor \in Nat /\ ProbeFor \in Nat
  /\ NoToken \notin Token
  /\ Lag < Grace

VARIABLES
  inflight, \* inflight[t]: ticks until slot t expires, -1 when not in the set
  failures, \* consecutive failures; counted up to Threshold + 1
  open,     \* ticks the circuit stays open
  probe,    \* ticks until the probe key expires
  worker    \* worker[w]: where the call is, what it has read and holds

vars == <<inflight, failures, open, probe, worker>>

(* How long a slot lives: the worker asks for timeout_ms + SLOT_GRACE_MS.      *)
HoldTimeout == Timeout
Hold == Timeout + Grace

Pc == {"idle", "readOpen", "takeProbe", "acquire", "start", "send", "release", "succeeded", "failed", "trip", "dead"}

WorkerState ==
  [pc : Pc, token : Token \cup {NoToken}, failures : 0 .. Threshold + 1,
   probing : BOOLEAN, ok : BOOLEAN, left : Nat, timed : BOOLEAN]

IdleWorker ==
  [pc |-> "idle", token |-> NoToken, failures |-> 0, probing |-> FALSE,
   ok |-> FALSE, left |-> 0, timed |-> FALSE]

(* Tokens are handed to one worker at a time, a circuit is open or a probe     *)
(* taken for no longer than it was asked for.                                 *)
TypeOK ==
  /\ inflight \in [Token -> -1 .. Hold]
  /\ failures \in 0 .. Threshold + 1
  /\ open \in 0 .. OpenFor
  /\ probe \in 0 .. ProbeFor
  /\ worker \in [Worker -> WorkerState]

Init ==
  /\ inflight = [t \in Token |-> -1]
  /\ failures = 0 /\ open = 0 /\ probe = 0
  /\ worker = [w \in Worker |-> IdleWorker]

At(w, pc) == worker[w].pc = pc

Held == {worker[w].token : w \in Worker}
Unused(t) == inflight[t] <= 0 /\ t \notin Held

(* Goes to pc and must have left it again within n ticks.                     *)
Within(w, pc, n) == [worker[w] EXCEPT !.pc = pc, !.left = n, !.timed = TRUE]
Anytime(w, pc) == [worker[w] EXCEPT !.pc = pc, !.left = 0, !.timed = FALSE]

CountUp(n) == IF n > Threshold THEN n ELSE n + 1

-----------------------------------------------------------------------------
(* circuit(): GET failures and PTTL open go out together and are two commands. *)
ReadFailures(w) ==
  /\ At(w, "idle")
  /\ worker' = [worker EXCEPT ![w] = [IdleWorker EXCEPT !.pc = "readOpen", !.failures = failures]]
  /\ UNCHANGED <<inflight, failures, open, probe>>

(* circuitState: open as long as the key lives, else half open from the        *)
(* threshold on.  Open: the worker defers the delivery and is done here.      *)
ReadOpen(w) ==
  /\ At(w, "readOpen")
  /\ worker' = [worker EXCEPT ![w] =
       IF open > 0 THEN IdleWorker
       ELSE IF worker[w].failures >= Threshold THEN Anytime(w, "takeProbe") ELSE Anytime(w, "acquire")]
  /\ UNCHANGED <<inflight, failures, open, probe>>

(* SET probe NX PX: one worker gets it, the others defer.  A key without an     *)
(* expiry would show as -1.                                                   *)
NoProbeTtl == -1
ProbeTtl == ProbeFor

TakeProbe(w) ==
  /\ At(w, "takeProbe")
  /\ IF probe = 0
     THEN /\ probe' = ProbeTtl
          /\ worker' = [worker EXCEPT ![w] = [Within(w, "acquire", Lag) EXCEPT !.probing = TRUE]]
     ELSE worker' = [worker EXCEPT ![w] = IdleWorker] /\ UNCHANGED probe
  /\ UNCHANGED <<inflight, failures, open>>

(* The ACQUIRE script: expired slots go, then one is taken if fewer than Limit *)
(* are left.  Refused, the worker defers, and keeps a probe it has taken.     *)
Live == {t \in Token : inflight[t] > 0}
HasRoom == Cardinality(Live) < Limit

Acquire(w) ==
  /\ At(w, "acquire")
  /\ IF HasRoom
     THEN \E t \in Token :
            /\ Unused(t)
            /\ inflight' = [u \in Token |-> IF u = t THEN Hold ELSE IF u \in Live THEN inflight[u] ELSE -1]
            /\ worker' = [worker EXCEPT ![w] = [Within(w, "start", Lag) EXCEPT !.token = t]]
     ELSE /\ inflight' = [u \in Token |-> IF u \in Live THEN inflight[u] ELSE -1]
          /\ worker' = [worker EXCEPT ![w] = IdleWorker]
  /\ UNCHANGED <<failures, open, probe>>

(* The request goes out; it is answered or times out within Timeout.          *)
Start(w) ==
  /\ At(w, "start")
  /\ worker' = [worker EXCEPT ![w] = Within(w, "send", Timeout)]
  /\ UNCHANGED <<inflight, failures, open, probe>>

Answer(w, ok) ==
  /\ At(w, "send")
  /\ worker' = [worker EXCEPT ![w] = [Anytime(w, "release") EXCEPT !.ok = ok]]
  /\ UNCHANGED <<inflight, failures, open, probe>>

Release(w) ==
  /\ At(w, "release")
  /\ inflight' = [inflight EXCEPT ![worker[w].token] = -1]
  /\ worker' = [worker EXCEPT ![w] =
       [Anytime(w, IF worker[w].ok THEN "succeeded" ELSE "failed") EXCEPT !.token = NoToken]]
  /\ UNCHANGED <<failures, open, probe>>

(* A success ends the run of failures and with it the half-open period: whoever *)
(* is on the wire as its probe (`probing`, a history) no longer counts as one. *)
RecordSuccess(w) ==
  /\ At(w, "succeeded")
  /\ failures' = 0 /\ probe' = 0
  /\ worker' = [v \in Worker |-> IF v = w THEN IdleWorker ELSE [worker[v] EXCEPT !.probing = FALSE]]
  /\ UNCHANGED <<inflight, open>>

(* recordFailure: INCR first, and then, in a second MULTI, DEL probe and SET   *)
(* open if the count it got has reached the threshold.                        *)
CountFailure(w) ==
  /\ At(w, "failed")
  /\ failures' = CountUp(failures)
  /\ worker' = [worker EXCEPT ![w] = [Within(w, "trip", Lag) EXCEPT !.failures = CountUp(failures)]]
  /\ UNCHANGED <<inflight, open, probe>>

Opens(n) == n >= Threshold

Trip(w) ==
  /\ At(w, "trip")
  /\ probe' = 0
  /\ open' = IF Opens(worker[w].failures) THEN OpenFor ELSE open
  /\ worker' = [worker EXCEPT ![w] = IdleWorker]
  /\ UNCHANGED <<inflight, failures>>

(* The process dies: what it holds in Valkey stays until it expires.          *)
Die(w) ==
  /\ worker[w].pc \notin {"idle", "dead"}
  /\ worker' = [worker EXCEPT ![w] = [IdleWorker EXCEPT !.pc = "dead"]]
  /\ UNCHANGED <<inflight, failures, open, probe>>

(* A process that starts consumes again.                                      *)
Restart(w) ==
  /\ At(w, "dead")
  /\ worker' = [worker EXCEPT ![w] = IdleWorker]
  /\ UNCHANGED <<inflight, failures, open, probe>>

(* FAILURES_TTL_SEC, a day, after the last failure the count is dropped, in the *)
(* middle of whatever calls go on: by then whoever counted that failure has    *)
(* opened the circuit or died, and the minute it was open for is over.         *)
Forget ==
  /\ failures > 0 /\ open = 0
  /\ \A w \in Worker : ~ At(w, "trip")
  /\ failures' = 0
  /\ UNCHANGED <<inflight, open, probe, worker>>

Tick ==
  /\ \A w \in Worker : worker[w].timed => worker[w].left > 0
  /\ inflight' = [t \in Token |-> IF inflight[t] > 0 THEN inflight[t] - 1 ELSE inflight[t]]
  /\ open' = IF open > 0 THEN open - 1 ELSE open
  /\ probe' = IF probe > 0 THEN probe - 1 ELSE probe
  /\ worker' = [w \in Worker |-> IF worker[w].timed THEN [worker[w] EXCEPT !.left = @ - 1] ELSE worker[w]]
  /\ UNCHANGED failures

Step(w) ==
  \/ ReadFailures(w) \/ ReadOpen(w) \/ TakeProbe(w) \/ Acquire(w) \/ Start(w)
  \/ Answer(w, TRUE) \/ Answer(w, FALSE) \/ Release(w)
  \/ RecordSuccess(w) \/ CountFailure(w) \/ Trip(w)

Next == (\E w \in Worker : Step(w) \/ Die(w) \/ Restart(w)) \/ Forget \/ Tick

Spec == Init /\ [][Next]_vars

(* Calls go on, time does, and there is always another delivery to be sent.    *)
FairSpec == Spec /\ WF_vars(Tick) /\ \A w \in Worker : WF_vars(Step(w))

-----------------------------------------------------------------------------
Sending(w) == At(w, "send")

(* Never more requests on the wire than the destination's concurrency, though  *)
(* slots expire on their own and workers die holding them.                     *)
SendsWithinLimit == Cardinality({w \in Worker : Sending(w)}) <= Limit

(* Why: behind every request there is a slot in the set that is still live and *)
(* that no other worker holds, and there are never more live slots than Limit. *)
(* A slot outlives its request by at least the grace that is left.             *)
SlotsCoverRequests ==
  /\ Cardinality(Live) <= Limit
  /\ \A w \in Worker : At(w, "start") => inflight[worker[w].token] > Timeout + worker[w].left
  /\ \A w \in Worker : Sending(w) => inflight[worker[w].token] > worker[w].left
  /\ \A v, w \in Worker : v # w /\ worker[v].token = worker[w].token => worker[v].token = NoToken

(* Once workers stop dying, requests get through again and again: neither a     *)
(* slot nor the probe of a worker that died, or was refused a slot after it    *)
(* had taken the probe, shuts the destination off for good.                    *)
NeverShutOut ==
  <>[](\A w \in Worker : ~ At(w, "dead")) => []<>(\E w \in Worker : Sending(w))

(* destination.guard.ts of CircuitCheck: of a half-open destination only the    *)
(* worker that got the probe sends, one at a time.                             *)
OneProbe ==
  Cardinality({w \in Worker : worker[w].probing /\ worker[w].pc \in {"acquire", "start", "send"}}) <= 1

=============================================================================
