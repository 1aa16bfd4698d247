----------------------- MODULE DestinationGuardProofs -----------------------
(* Proofs about the destination guard, for any set of workers and of slot      *)
(* tokens, any concurrency, and any times of which Lag is less than Grace.     *)
EXTENDS DestinationGuard, FiniteSetTheorems, TLAPS

(* The inductive invariant.  What SlotsCoverRequests says is kept by a step if *)
(* in addition a worker that holds a slot knows its token, runs against a      *)
(* deadline, and the live slots can be counted at all.                         *)
HoldersHaveTokens == \A w \in Worker : worker[w].pc \in {"start", "send", "release"} => worker[w].token \in Token
RequestsAreTimed == \A w \in Worker : worker[w].pc \in {"start", "send"} => worker[w].timed
GuardInv == TypeOK /\ HoldersHaveTokens /\ RequestsAreTimed /\ IsFiniteSet(Live) /\ SlotsCoverRequests

(* Wherever a worker goes on to, it stays a worker's state.                    *)
LEMMA WorkerUpdates ==
  ASSUME NEW w \in Worker, worker \in [Worker -> WorkerState], NEW pc \in Pc, NEW n \in Nat
  PROVE  /\ Within(w, pc, n) \in WorkerState
         /\ Anytime(w, pc) \in WorkerState
         /\ IdleWorker \in WorkerState
<1>1. worker[w] \in WorkerState OBVIOUS
<1>2. 0 \in 0 .. Threshold + 1 BY GuardAssumption
<1>3. Within(w, pc, n) \in WorkerState BY <1>1 DEF WorkerState, Within
<1>4. Anytime(w, pc) \in WorkerState BY <1>1 DEF WorkerState, Anytime
<1>5. IdleWorker \in WorkerState BY <1>2 DEF WorkerState, IdleWorker, Pc
<1> QED BY <1>3, <1>4, <1>5

(* Every step keeps the keys in Valkey and the workers well typed: no counter   *)
(* passes its bound and no deadline is overrun.                                *)
LEMMA GuardTyping == ASSUME TypeOK, HoldersHaveTokens, [Next]_vars PROVE TypeOK'
<1> USE GuardAssumption
<1>0. /\ inflight \in [Token -> -1 .. Hold]
      /\ failures \in 0 .. Threshold + 1
      /\ open \in 0 .. OpenFor
      /\ probe \in 0 .. ProbeFor
      /\ worker \in [Worker -> WorkerState]
  BY DEF TypeOK
<1>c. CountUp(failures) \in 0 .. Threshold + 1 BY <1>0 DEF CountUp
<1>1. ASSUME NEW w \in Worker, ReadFailures(w) \/ ReadOpen(w) \/ Start(w) \/ Answer(w, TRUE) \/ Answer(w, FALSE)
                              \/ Die(w) \/ Restart(w)
      PROVE TypeOK'
  <2>1. \A pc \in Pc, n \in Nat : Within(w, pc, n) \in WorkerState /\ Anytime(w, pc) \in WorkerState
    BY <1>0, WorkerUpdates
  <2>i. IdleWorker \in WorkerState BY <1>0, WorkerUpdates DEF Pc
  <2>2. UNCHANGED <<inflight, failures, open, probe>>
    BY <1>1 DEF ReadFailures, ReadOpen, Start, Answer, Die, Restart
  <2>3. worker' \in [Worker -> WorkerState]
    <3>1. CASE ReadFailures(w)
      <4>1. [IdleWorker EXCEPT !.pc = "readOpen", !.failures = failures] \in WorkerState
        BY <1>0, <2>i DEF WorkerState, Pc
      <4> QED BY <1>0, <3>1, <4>1 DEF ReadFailures
    <3>2. CASE ReadOpen(w) BY <1>0, <2>1, <2>i, <3>2 DEF ReadOpen, Pc
    <3>3. CASE Start(w) BY <1>0, <2>1, <3>3 DEF Start, Pc
    <3>4. ASSUME NEW ok \in BOOLEAN, Answer(w, ok) PROVE worker' \in [Worker -> WorkerState]
      <4>1. [Anytime(w, "release") EXCEPT !.ok = ok] \in WorkerState BY <2>1 DEF WorkerState, Pc
      <4> QED BY <1>0, <3>4, <4>1 DEF Answer
    <3>5. CASE Die(w)
      <4>1. [IdleWorker EXCEPT !.pc = "dead"] \in WorkerState BY <2>i DEF WorkerState, Pc
      <4> QED BY <1>0, <3>5, <4>1 DEF Die
    <3>6. CASE Restart(w) BY <1>0, <2>i, <3>6 DEF Restart
    <3> QED BY <1>1, <3>1, <3>2, <3>3, <3>4, <3>5, <3>6
  <2> QED BY <1>0, <2>2, <2>3 DEF TypeOK, Hold
<1>2. ASSUME NEW w \in Worker, TakeProbe(w) PROVE TypeOK'
  <2>0. Within(w, "acquire", Lag) \in WorkerState BY <1>0, WorkerUpdates DEF Pc
  <2>1. [Within(w, "acquire", Lag) EXCEPT !.probing = TRUE] \in WorkerState BY <2>0 DEF WorkerState
  <2>2. IdleWorker \in WorkerState BY <1>0, WorkerUpdates DEF Pc
  <2>3. probe' \in 0 .. ProbeFor BY <1>0, <1>2 DEF TakeProbe, ProbeTtl
  <2> QED BY <1>0, <1>2, <2>1, <2>2, <2>3 DEF TakeProbe, TypeOK, Hold
<1>3. ASSUME NEW w \in Worker, Acquire(w) PROVE TypeOK'
  <2>1. Hold \in -1 .. Hold /\ -1 \in -1 .. Hold BY DEF Hold
  <2>2. \A t \in Token : [Within(w, "start", Lag) EXCEPT !.token = t] \in WorkerState
    BY <1>0, WorkerUpdates DEF WorkerState, Pc
  <2>3. IdleWorker \in WorkerState BY <1>0, WorkerUpdates DEF Pc
  <2>4. inflight' \in [Token -> -1 .. Hold] /\ worker' \in [Worker -> WorkerState]
    BY <1>0, <1>3, <2>1, <2>2, <2>3 DEF Acquire
  <2> QED BY <1>0, <1>3, <2>4 DEF Acquire, TypeOK, Hold
<1>4. ASSUME NEW w \in Worker, Release(w) PROVE TypeOK'
  <2>0. \A pc \in Pc : Anytime(w, pc) \in WorkerState BY <1>0, WorkerUpdates
  <2>1. \A pc \in Pc : [Anytime(w, pc) EXCEPT !.token = NoToken] \in WorkerState
    BY <2>0 DEF WorkerState
  <2>2. -1 \in -1 .. Hold BY DEF Hold
  <2>3. inflight' \in [Token -> -1 .. Hold] /\ worker' \in [Worker -> WorkerState]
    BY <1>0, <1>4, <2>1, <2>2 DEF Release, Pc
  <2> QED BY <1>0, <1>4, <2>3 DEF Release, TypeOK, Hold
<1>5. ASSUME NEW w \in Worker, RecordSuccess(w) PROVE TypeOK'
  <2>1. IdleWorker \in WorkerState BY <1>0, WorkerUpdates DEF Pc
  <2>2. \A v \in Worker : [worker[v] EXCEPT !.probing = FALSE] \in WorkerState BY <1>0 DEF WorkerState
  <2>3. worker' \in [Worker -> WorkerState] BY <1>5, <2>1, <2>2 DEF RecordSuccess
  <2> QED BY <1>0, <1>5, <2>3 DEF RecordSuccess, TypeOK, Hold
<1>6. ASSUME NEW w \in Worker, CountFailure(w) PROVE TypeOK'
  <2>1. [Within(w, "trip", Lag) EXCEPT !.failures = CountUp(failures)] \in WorkerState
    BY <1>0, <1>c, WorkerUpdates DEF WorkerState, Pc
  <2>2. worker' \in [Worker -> WorkerState] BY <1>0, <1>6, <2>1 DEF CountFailure
  <2> QED BY <1>0, <1>c, <1>6, <2>2 DEF CountFailure, TypeOK, Hold
<1>7. ASSUME NEW w \in Worker, Trip(w) PROVE TypeOK'
  <2>1. IdleWorker \in WorkerState BY <1>0, WorkerUpdates DEF Pc
  <2>2. worker' \in [Worker -> WorkerState] BY <1>0, <1>7, <2>1 DEF Trip
  <2> QED BY <1>0, <1>7, <2>2 DEF Trip, TypeOK, Hold
<1>8. CASE Forget BY <1>0, <1>8 DEF Forget, TypeOK, Hold
<1>9. CASE Tick
  <2>1. \A w \in Worker : worker[w].timed => [worker[w] EXCEPT !.left = @ - 1] \in WorkerState
    BY <1>0, <1>9 DEF Tick, WorkerState
  <2>2. worker' \in [Worker -> WorkerState] BY <1>0, <1>9, <2>1 DEF Tick
  <2>3. inflight' \in [Token -> -1 .. Hold] BY <1>0, <1>9 DEF Tick, Hold
  <2> QED BY <1>0, <1>9, <2>2, <2>3 DEF Tick, TypeOK, Hold
<1>10. CASE UNCHANGED vars BY <1>0, <1>10 DEF vars, TypeOK, Hold
<1> QED BY <1>1, <1>2, <1>3, <1>4, <1>5, <1>6, <1>7, <1>8, <1>9, <1>10 DEF Next, Step

-----------------------------------------------------------------------------
(* Slots that go, by a release or by their expiry, leave no more than there    *)
(* were; one that comes into a set that has room leaves no more than Limit.     *)
LEMMA FewerSlots ==
  ASSUME IsFiniteSet(Live), Cardinality(Live) <= Limit, Live' \subseteq Live
  PROVE  IsFiniteSet(Live') /\ Cardinality(Live') <= Limit
<1>1. Cardinality(Live) \in Nat BY FS_CardinalityType
<1>2. IsFiniteSet(Live') /\ Cardinality(Live') <= Cardinality(Live) BY FS_Subset
<1>3. Cardinality(Live') \in Nat BY <1>2, FS_CardinalityType
<1> QED BY <1>1, <1>2, <1>3, GuardAssumption

LEMMA OneMoreSlot ==
  ASSUME IsFiniteSet(Live), HasRoom, NEW t \in Token, Live' = Live \cup {t}
  PROVE  IsFiniteSet(Live') /\ Cardinality(Live') <= Limit
<1>1. Cardinality(Live) \in Nat BY FS_CardinalityType
<1>2. IsFiniteSet(Live') /\ Cardinality(Live') <= Cardinality(Live) + 1 BY <1>1, FS_AddElement
<1>3. Cardinality(Live') \in Nat BY <1>2, FS_CardinalityType
<1> QED BY <1>1, <1>2, <1>3, GuardAssumption DEF HasRoom

(* A step that leaves the slots and every worker's token alone, and lets no     *)
(* worker start or send, keeps the invariant.                                  *)
LEMMA SlotsUntouched ==
  ASSUME GuardInv, TypeOK', UNCHANGED inflight,
         \A w \in Worker :
            \/ worker'[w].token = NoToken /\ worker'[w].pc \notin {"start", "send", "release"}
            \/ /\ worker'[w].token = worker[w].token
               /\ \/ worker'[w].pc \notin {"start", "send", "release"}
                  \/ /\ worker'[w].pc = worker[w].pc
                     /\ worker'[w].timed = worker[w].timed
                     /\ worker'[w].left = worker[w].left
                  \/ worker[w].pc = "start" /\ worker'[w].pc = "send" /\ worker'[w].timed
                     /\ worker'[w].left = Timeout
                  \/ worker[w].pc = "send" /\ worker'[w].pc = "release"
  PROVE  GuardInv'
<1>1. Live' = Live BY DEF Live
<1>2. IsFiniteSet(Live') /\ Cardinality(Live') <= Limit BY <1>1 DEF GuardInv, SlotsCoverRequests
<1>3. HoldersHaveTokens' BY DEF GuardInv, HoldersHaveTokens
<1>4. RequestsAreTimed' BY DEF GuardInv, RequestsAreTimed
<1>5. ASSUME NEW w \in Worker, worker'[w].pc = "start"
      PROVE inflight'[worker'[w].token] > Timeout + worker'[w].left
  BY <1>5 DEF GuardInv, SlotsCoverRequests, At
<1>6. ASSUME NEW w \in Worker, worker'[w].pc = "send"
      PROVE inflight'[worker'[w].token] > worker'[w].left
  <2>1. CASE worker[w].pc = "send" BY <1>6, <2>1 DEF GuardInv, SlotsCoverRequests, At, Sending
  <2>2. CASE worker[w].pc = "start"
    <3>1. worker'[w].token = worker[w].token /\ worker'[w].left = Timeout BY <1>6, <2>2
    <3>2. inflight[worker[w].token] > Timeout + worker[w].left
      BY <2>2 DEF GuardInv, SlotsCoverRequests, At
    <3>3. worker[w].left \in Nat BY DEF GuardInv, TypeOK, WorkerState
    <3>4. worker[w].token \in Token BY <2>2 DEF GuardInv, HoldersHaveTokens
    <3>5. inflight[worker[w].token] \in Int BY <3>4, GuardAssumption DEF GuardInv, TypeOK, Hold
    <3> QED BY <3>1, <3>2, <3>3, <3>5, GuardAssumption
  <2> QED BY <1>6, <2>1, <2>2
<1>7. \A v, w \in Worker : v # w /\ worker'[v].token = worker'[w].token => worker'[v].token = NoToken
  BY DEF GuardInv, SlotsCoverRequests
<1>8. SlotsCoverRequests' BY <1>2, <1>5, <1>6, <1>7 DEF SlotsCoverRequests, At, Sending
<1> QED BY <1>2, <1>3, <1>4, <1>8 DEF GuardInv

(* The slot a worker takes is nobody else's, and the slots behind the other    *)
(* requests are live, so the script leaves them.                               *)
LEMMA AcquireKeeps == ASSUME GuardInv, TypeOK', NEW w \in Worker, Acquire(w) PROVE GuardInv'
<1> USE GuardAssumption
<1>0. /\ inflight \in [Token -> -1 .. Hold] /\ worker \in [Worker -> WorkerState]
      /\ HoldersHaveTokens /\ RequestsAreTimed /\ SlotsCoverRequests /\ IsFiniteSet(Live)
  BY DEF GuardInv, TypeOK
<1>1. CASE ~ HasRoom
  <2>1. /\ inflight' = [u \in Token |-> IF u \in Live THEN inflight[u] ELSE -1]
        /\ worker' = [worker EXCEPT ![w] = IdleWorker]
    BY <1>1 DEF Acquire
  <2>2. Live' \subseteq Live /\ \A t \in Token : inflight[t] > 0 => inflight'[t] = inflight[t]
    BY <1>0, <2>1 DEF Live, Hold
  <2>3. IsFiniteSet(Live') /\ Cardinality(Live') <= Limit
    BY <1>0, <2>2, FewerSlots DEF SlotsCoverRequests
  <2>4. \A v \in Worker : \/ v # w /\ worker'[v] = worker[v]
                          \/ worker'[v].pc = "idle" /\ worker'[v].token = NoToken
    BY <1>0, <2>1 DEF IdleWorker
  <2>5. HoldersHaveTokens' /\ RequestsAreTimed'
    BY <1>0, <2>4 DEF HoldersHaveTokens, RequestsAreTimed
  <2>6. \A v \in Worker : worker[v].pc \in {"start", "send"} => inflight[worker[v].token] > 0
    BY <1>0 DEF SlotsCoverRequests, At, Sending, WorkerState, HoldersHaveTokens, Hold
  <2>7. SlotsCoverRequests'
    BY <1>0, <2>2, <2>3, <2>4, <2>6 DEF SlotsCoverRequests, At, Sending, HoldersHaveTokens
  <2> QED BY <2>3, <2>5, <2>7 DEF GuardInv
<1>2. CASE HasRoom
  <2>1. PICK t \in Token :
          /\ Unused(t)
          /\ inflight' = [u \in Token |-> IF u = t THEN Hold ELSE IF u \in Live THEN inflight[u] ELSE -1]
          /\ worker' = [worker EXCEPT ![w] = [Within(w, "start", Lag) EXCEPT !.token = t]]
    BY <1>2 DEF Acquire
  <2>2. Hold > Timeout + Lag /\ Hold \in Nat BY DEF Hold
  <2>3. Live' = Live \cup {t} BY <1>0, <2>1, <2>2 DEF Live
  <2>4. IsFiniteSet(Live') /\ Cardinality(Live') <= Limit BY <1>0, <1>2, <2>3, OneMoreSlot
  <2>5. /\ worker'[w].pc = "start" /\ worker'[w].token = t
        /\ worker'[w].timed /\ worker'[w].left = Lag
        /\ \A v \in Worker : v # w => worker'[v] = worker[v]
    BY <1>0, <2>1 DEF Within, WorkerState
  <2>6. HoldersHaveTokens' /\ RequestsAreTimed'
    BY <1>0, <2>5 DEF HoldersHaveTokens, RequestsAreTimed
  <2>7. \A v \in Worker : worker[v].token # t BY <2>1 DEF Unused, Held
  <2>8. \A v \in Worker : worker[v].pc \in {"start", "send"} => inflight[worker[v].token] > 0
    BY <1>0 DEF SlotsCoverRequests, At, Sending, WorkerState, HoldersHaveTokens, Hold
  <2>9. \A v \in Worker : worker[v].pc \in {"start", "send"} => inflight'[worker[v].token] = inflight[worker[v].token]
    BY <1>0, <2>1, <2>7, <2>8 DEF HoldersHaveTokens, Live
  <2>10. inflight'[worker'[w].token] > Timeout + worker'[w].left BY <2>1, <2>2, <2>5
  <2>11. \A u, v \in Worker : u # v /\ worker'[u].token = worker'[v].token => worker'[u].token = NoToken
    BY <1>0, <2>5, <2>7 DEF SlotsCoverRequests
  <2>12. \A v \in Worker : worker'[v].pc = "start" => inflight'[worker'[v].token] > Timeout + worker'[v].left
    BY <1>0, <2>5, <2>9, <2>10 DEF SlotsCoverRequests, At
  <2>13. \A v \in Worker : worker'[v].pc = "send" => inflight'[worker'[v].token] > worker'[v].left
    BY <1>0, <2>5, <2>9 DEF SlotsCoverRequests, At, Sending
  <2>14. SlotsCoverRequests' BY <2>4, <2>11, <2>12, <2>13 DEF SlotsCoverRequests, At, Sending
  <2> QED BY <2>4, <2>6, <2>14 DEF GuardInv
<1> QED BY <1>1, <1>2

(* A worker gives back its own slot and no other.                              *)
LEMMA ReleaseKeeps == ASSUME GuardInv, TypeOK', NEW w \in Worker, Release(w) PROVE GuardInv'
<1> USE GuardAssumption
<1>0. /\ inflight \in [Token -> -1 .. Hold] /\ worker \in [Worker -> WorkerState]
      /\ HoldersHaveTokens /\ RequestsAreTimed /\ SlotsCoverRequests /\ IsFiniteSet(Live)
  BY DEF GuardInv, TypeOK
<1>1. worker[w].token \in Token BY <1>0 DEF Release, At, HoldersHaveTokens
<1>2. inflight' = [inflight EXCEPT ![worker[w].token] = -1] BY DEF Release
<1>3. Live' \subseteq Live BY <1>0, <1>1, <1>2 DEF Live
<1>4. IsFiniteSet(Live') /\ Cardinality(Live') <= Limit
  BY <1>0, <1>3, FewerSlots DEF SlotsCoverRequests
<1>5. /\ worker'[w].pc \in {"succeeded", "failed"} /\ worker'[w].token = NoToken
      /\ \A v \in Worker : v # w => worker'[v] = worker[v]
  BY <1>0 DEF Release, Anytime, WorkerState
<1>6. HoldersHaveTokens' /\ RequestsAreTimed' BY <1>0, <1>5 DEF HoldersHaveTokens, RequestsAreTimed
<1>7. \A v \in Worker : v # w => worker[v].token # worker[w].token
  BY <1>0, <1>1 DEF SlotsCoverRequests
<1>8. \A v \in Worker : v # w /\ worker[v].token \in Token => inflight'[worker[v].token] = inflight[worker[v].token]
  BY <1>0, <1>2, <1>7
<1>9. SlotsCoverRequests'
  BY <1>0, <1>4, <1>5, <1>8 DEF SlotsCoverRequests, At, Sending, HoldersHaveTokens
<1> QED BY <1>4, <1>6, <1>9 DEF GuardInv

(* A slot and the deadline of its request run down together.                   *)
LEMMA TickKeeps == ASSUME GuardInv, TypeOK', Tick PROVE GuardInv'
<1> USE GuardAssumption
<1>0. /\ inflight \in [Token -> -1 .. Hold] /\ worker \in [Worker -> WorkerState]
      /\ HoldersHaveTokens /\ RequestsAreTimed /\ SlotsCoverRequests /\ IsFiniteSet(Live)
  BY DEF GuardInv, TypeOK
<1>1. inflight' = [t \in Token |-> IF inflight[t] > 0 THEN inflight[t] - 1 ELSE inflight[t]] BY DEF Tick
<1>2. Live' \subseteq Live BY <1>0, <1>1 DEF Live, Hold
<1>3. IsFiniteSet(Live') /\ Cardinality(Live') <= Limit
  BY <1>0, <1>2, FewerSlots DEF SlotsCoverRequests
<1>4. \A v \in Worker : worker'[v].pc = worker[v].pc /\ worker'[v].token = worker[v].token
  BY <1>0 DEF Tick, WorkerState
<1>t. \A v \in Worker : worker[v].pc \in {"start", "send"} =>
        worker[v].left > 0 /\ worker'[v].left = worker[v].left - 1 /\ worker'[v].timed
  BY <1>0 DEF Tick, WorkerState, RequestsAreTimed
<1>5. HoldersHaveTokens' /\ RequestsAreTimed'
  BY <1>0, <1>4, <1>t DEF HoldersHaveTokens, RequestsAreTimed
<1>6. ASSUME NEW v \in Worker, worker[v].pc = "start"
      PROVE inflight'[worker'[v].token] > Timeout + worker'[v].left
  <2>1. worker[v].token \in Token /\ worker[v].left \in Nat
    BY <1>0, <1>6 DEF HoldersHaveTokens, WorkerState
  <2>2. inflight[worker[v].token] > Timeout + worker[v].left BY <1>0, <1>6 DEF SlotsCoverRequests, At
  <2>3. inflight[worker[v].token] \in Int BY <1>0, <2>1 DEF Hold
  <2>4. inflight'[worker[v].token] = inflight[worker[v].token] - 1 BY <1>1, <2>1, <2>2, <2>3
  <2> QED BY <1>4, <1>6, <1>t, <2>1, <2>2, <2>3, <2>4
<1>7. ASSUME NEW v \in Worker, worker[v].pc = "send"
      PROVE inflight'[worker'[v].token] > worker'[v].left
  <2>1. worker[v].token \in Token /\ worker[v].left \in Nat
    BY <1>0, <1>7 DEF HoldersHaveTokens, WorkerState
  <2>2. inflight[worker[v].token] > worker[v].left BY <1>0, <1>7 DEF SlotsCoverRequests, At, Sending
  <2>3. inflight[worker[v].token] \in Int BY <1>0, <2>1 DEF Hold
  <2>4. inflight'[worker[v].token] = inflight[worker[v].token] - 1 BY <1>1, <2>1, <2>2, <2>3
  <2> QED BY <1>4, <1>7, <1>t, <2>1, <2>2, <2>3, <2>4
<1>8. SlotsCoverRequests' BY <1>0, <1>3, <1>4, <1>6, <1>7 DEF SlotsCoverRequests, At, Sending
<1> QED BY <1>3, <1>5, <1>8 DEF GuardInv

(* The invariant is inductive.                                                 *)
LEMMA GuardStep == ASSUME GuardInv, [Next]_vars PROVE GuardInv'
<1>0. TypeOK' BY GuardTyping DEF GuardInv
<1>a. worker \in [Worker -> WorkerState] BY DEF GuardInv, TypeOK
<1>1. ASSUME NEW w \in Worker, Step(w) \/ Die(w) \/ Restart(w) PROVE GuardInv'
  <2>1. CASE Acquire(w) BY <1>0, <2>1, AcquireKeeps
  <2>2. CASE Release(w) BY <1>0, <2>2, ReleaseKeeps
  <2>3. CASE ReadFailures(w) BY <1>0, <1>a, <2>3, SlotsUntouched DEF ReadFailures, IdleWorker
  <2>4. CASE ReadOpen(w)
    BY <1>0, <1>a, <2>4, SlotsUntouched DEF ReadOpen, IdleWorker, Anytime, WorkerState
  <2>5. CASE TakeProbe(w)
    <3>1. \A v \in Worker : \/ v # w /\ worker'[v] = worker[v]
                            \/ worker'[v].pc = "idle" /\ worker'[v].token = NoToken
                            \/ worker'[v].pc = "acquire" /\ worker'[v].token = worker[v].token
      <4>1. worker[w] \in WorkerState BY <1>a
      <4>2. /\ [Within(w, "acquire", Lag) EXCEPT !.probing = TRUE].pc = "acquire"
            /\ [Within(w, "acquire", Lag) EXCEPT !.probing = TRUE].token = worker[w].token
        BY <4>1 DEF Within, WorkerState
      <4>3. IdleWorker.pc = "idle" /\ IdleWorker.token = NoToken BY DEF IdleWorker
      <4> QED BY <1>a, <2>5, <4>2, <4>3 DEF TakeProbe
    <3> QED BY <1>0, <2>5, <3>1, SlotsUntouched DEF TakeProbe
  <2>6. CASE Start(w) BY <1>0, <1>a, <2>6, SlotsUntouched DEF Start, At, Within, WorkerState
  <2>7. ASSUME NEW ok \in BOOLEAN, Answer(w, ok) PROVE GuardInv'
    BY <1>0, <1>a, <2>7, SlotsUntouched DEF Answer, At, Anytime, WorkerState
  <2>8. CASE RecordSuccess(w)
    BY <1>0, <1>a, <2>8, SlotsUntouched DEF RecordSuccess, IdleWorker, WorkerState
  <2>9. CASE CountFailure(w)
    BY <1>0, <1>a, <2>9, SlotsUntouched DEF CountFailure, Within, WorkerState
  <2>10. CASE Trip(w) BY <1>0, <1>a, <2>10, SlotsUntouched DEF Trip, IdleWorker
  <2>11. CASE Die(w) \/ Restart(w)
    BY <1>0, <1>a, <2>11, SlotsUntouched DEF Die, Restart, IdleWorker
  <2> QED BY <1>1, <2>1, <2>2, <2>3, <2>4, <2>5, <2>6, <2>7, <2>8, <2>9, <2>10, <2>11 DEF Step
<1>2. CASE Forget BY <1>0, <1>2, SlotsUntouched DEF Forget
<1>3. CASE Tick BY <1>0, <1>3, TickKeeps
<1>4. CASE UNCHANGED vars BY <1>0, <1>4, SlotsUntouched DEF vars
<1> QED BY <1>1, <1>2, <1>3, <1>4 DEF Next

(* At first there is no slot and no request.                                   *)
LEMMA GuardStart == ASSUME Init PROVE GuardInv
<1> USE GuardAssumption
<1>1. IdleWorker \in WorkerState BY DEF IdleWorker, WorkerState, Pc
<1>2. TypeOK BY <1>1 DEF Init, TypeOK, Hold
<1>3. \A w \in Worker : worker[w].pc = "idle" /\ worker[w].token = NoToken BY DEF Init, IdleWorker
<1>4. Live = {} BY DEF Init, Live
<1>5. IsFiniteSet(Live) /\ Cardinality(Live) <= Limit BY <1>4, FS_EmptySet
<1>6. HoldersHaveTokens /\ RequestsAreTimed BY <1>3 DEF HoldersHaveTokens, RequestsAreTimed
<1>7. SlotsCoverRequests BY <1>3, <1>5 DEF SlotsCoverRequests, At, Sending
<1> QED BY <1>2, <1>5, <1>6, <1>7 DEF GuardInv

(* Each request has a live slot of its own, so there are no more requests than  *)
(* live slots.                                                                 *)
LEMMA SendersHaveSlots == ASSUME GuardInv PROVE SendsWithinLimit
<1> DEFINE Senders == {w \in Worker : Sending(w)}
           slotOf == [w \in Senders |-> worker[w].token]
<1>1. \A w \in Senders : worker[w].token \in Live
  BY GuardAssumption DEF GuardInv, TypeOK, WorkerState, HoldersHaveTokens, SlotsCoverRequests, Sending, At, Live, Hold
<1>2. \A v, w \in Senders : worker[v].token = worker[w].token => v = w
  BY <1>1, GuardAssumption DEF GuardInv, SlotsCoverRequests, Live
<1>3. slotOf \in Injection(Senders, Live)
  BY <1>1, <1>2 DEF Injection, IsInjective
<1>4. IsFiniteSet(Senders) /\ Cardinality(Senders) <= Cardinality(Live)
  BY <1>3, FS_Injection DEF GuardInv
<1>5. Cardinality(Live) <= Limit BY DEF GuardInv, SlotsCoverRequests
<1>6. Cardinality(Senders) \in Nat /\ Cardinality(Live) \in Nat
  BY <1>4, FS_CardinalityType DEF GuardInv
<1> QED BY <1>4, <1>5, <1>6, GuardAssumption DEF SendsWithinLimit

-----------------------------------------------------------------------------
(* Counters, expiry times and the workers' deadlines stay within their bounds.  *)
THEOREM GuardIsTyped == Spec => []TypeOK
<1>1. GuardInv => TypeOK BY DEF GuardInv
<1> QED BY <1>1, GuardStart, GuardStep, PTL DEF Spec

(* Behind every request on the wire there is a live slot of its own, whoever    *)
(* died, and whenever slots expired (RedisDestinationGuard.acquire and the      *)
(* grace that DeliveryWorker adds to the timeout).                             *)
THEOREM RequestsHoldSlots == Spec => []SlotsCoverRequests
<1>1. GuardInv => SlotsCoverRequests BY DEF GuardInv
<1> QED BY <1>1, GuardStart, GuardStep, PTL DEF Spec

(* A destination never gets more requests at once than its concurrency.         *)
THEOREM ConcurrencyIsKept == Spec => []SendsWithinLimit
<1> QED BY SendersHaveSlots, GuardStart, GuardStep, PTL DEF Spec

=============================================================================
