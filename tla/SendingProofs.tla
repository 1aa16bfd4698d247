--------------------------- MODULE SendingProofs ---------------------------
(* Proofs about what a worker does around one attempt: the request it sends,   *)
(* the time of the next one, and the rows that retention deletes.  For any     *)
(* address and answer, any rule of a connection and any plans.                 *)
EXTENDS DestinationClient, RetrySchedule, Retention, WellFoundedInduction, TLAPS

-----------------------------------------------------------------------------
(* NodeDestinationClient.send: what is settled is settled once.                 *)

Results ==
  {Pending} \cup {Failure(code) : code \in {"ERR_INVALID_URL", "BLOCKED_ADDRESS", "ECONNRESET", "TIMEOUT"}}
    \cup [is : {"answer"}, recorded : Nat, ended : BOOLEAN]

ClientTyped == body \in Nat /\ result \in Results

ClientInv == ClientTyped /\ NeverInside /\ AnswerIsWhole

(* An answer that is complete, or longer than is recorded, is whole.            *)
LEMMA WholeAnswer ==
  ASSUME NEW n \in Nat, result' = [is |-> "answer", recorded |-> Recorded(n), ended |-> wire' = "ended"],
         wire' = "ended" \/ n >= BodyLimit
  PROVE  result' \in Results /\ AnswerIsWhole'
<1>1. BodyLimit \in Nat BY ClientAssumption
<1>2. Recorded(n) \in Nat /\ Recorded(n) <= BodyLimit /\ (n >= BodyLimit => Recorded(n) = BodyLimit)
  BY <1>1 DEF Recorded
<1>3. (wire' = "ended") \in BOOLEAN OBVIOUS
<1> QED BY <1>2, <1>3 DEF Results, AnswerIsWhole

LEMMA FailedAnswer ==
  ASSUME NEW code \in {"ERR_INVALID_URL", "BLOCKED_ADDRESS", "ECONNRESET", "TIMEOUT"}, result' = Failure(code)
  PROVE  result' \in Results /\ AnswerIsWhole'
BY DEF Results, Failure, AnswerIsWhole

(* A request that fails settles with the error, or had been settled.            *)
LEMMA SettlesWithFailure ==
  ASSUME ClientInv, NEW code \in {"ERR_INVALID_URL", "BLOCKED_ADDRESS", "ECONNRESET", "TIMEOUT"}, settle(Failure(code))
  PROVE  result' \in Results /\ AnswerIsWhole'
<1>1. CASE result = Pending BY <1>1, FailedAnswer DEF settle
<1>2. CASE result # Pending BY <1>2 DEF settle, ClientInv, ClientTyped, AnswerIsWhole
<1> QED BY <1>1, <1>2

LEMMA SettlesWithAnswer ==
  ASSUME ClientInv, NEW n \in Nat, Done(n), wire' = "ended" \/ n >= BodyLimit
  PROVE  result' \in Results /\ AnswerIsWhole'
<1>1. CASE result = Pending BY <1>1, WholeAnswer DEF Done, settle
<1>2. CASE result # Pending BY <1>2 DEF Done, settle, ClientInv, ClientTyped, AnswerIsWhole
<1> QED BY <1>1, <1>2

LEMMA ClientStarts == ClientInit => ClientInv
BY DEF ClientInit, ClientInv, ClientTyped, NeverInside, AnswerIsWhole, Results, Pending

(* A connection is opened only to what is not blocked.                          *)
LEMMA ClientStepKeeps == ClientInv /\ [ClientNext]_client => ClientInv'
<1> SUFFICES ASSUME ClientInv, [ClientNext]_client PROVE ClientInv' OBVIOUS
<1> USE DEF ClientInv
<1>1. CASE send
  <2>1. body' \in Nat BY <1>1 DEF send, ClientTyped
  <2>2. NeverInside' BY <1>1 DEF send, Blocked, NeverInside
  <2>3. CASE UNCHANGED result BY <2>1, <2>2, <2>3 DEF ClientTyped, AnswerIsWhole
  <2>4. CASE settle(Failure("ERR_INVALID_URL")) BY <2>1, <2>2, <2>4, SettlesWithFailure DEF ClientTyped
  <2>5. CASE settle(Failure("BLOCKED_ADDRESS")) BY <2>1, <2>2, <2>5, SettlesWithFailure DEF ClientTyped
  <2> QED BY <1>1, <2>3, <2>4, <2>5 DEF send
<1>2. CASE guardedLookup
  <2>1. body' \in Nat BY <1>2 DEF guardedLookup, ClientTyped
  <2>2. NeverInside' BY <1>2 DEF guardedLookup, SomeBlocked, Blocked, NeverInside
  <2>3. CASE UNCHANGED result BY <2>1, <2>2, <2>3 DEF ClientTyped, AnswerIsWhole
  <2>4. CASE settle(Failure("BLOCKED_ADDRESS")) BY <2>1, <2>2, <2>4, SettlesWithFailure DEF ClientTyped
  <2> QED BY <1>2, <2>3, <2>4 DEF guardedLookup
<1>3. CASE Respond BY <1>3 DEF Respond, ClientTyped, NeverInside, AnswerIsWhole
<1>4. CASE OnData
  <2>1. PICK n \in body + 1 .. MaxBody :
          /\ body' = n
          /\ IF n >= BodyLimit THEN wire' = "closed" /\ Done(n) ELSE UNCHANGED <<wire, armed, result>>
    BY <1>4 DEF OnData
  <2>2. n \in Nat BY ClientAssumption DEF ClientTyped
  <2>3. NeverInside' BY <1>4, <2>1 DEF OnData, NeverInside
  <2>4. CASE n >= BodyLimit BY <2>1, <2>2, <2>3, <2>4, SettlesWithAnswer DEF ClientTyped
  <2>5. CASE ~ (n >= BodyLimit) BY <2>1, <2>2, <2>3, <2>5 DEF ClientTyped, AnswerIsWhole
  <2> QED BY <2>4, <2>5
<1>5. CASE OnEnd
  <2>1. NeverInside' BY <1>5 DEF OnEnd, NeverInside
  <2>2. body \in Nat BY DEF ClientTyped
  <2> QED BY <1>5, <2>1, <2>2, SettlesWithAnswer DEF OnEnd, ClientTyped
<1>6. CASE Break
  <2>1. NeverInside' BY <1>6 DEF Break, NeverInside
  <2> QED BY <1>6, <2>1, SettlesWithFailure DEF Break, OnError, ClientTyped
<1>7. CASE OnTimeout BY <1>7 DEF OnTimeout, ClientTyped, NeverInside, AnswerIsWhole
<1>8. CASE Destroyed
  <2>1. NeverInside' BY <1>8 DEF Destroyed, NeverInside
  <2>2. settle(Failure("TIMEOUT")) \/ settle(Failure("ECONNRESET")) BY <1>8 DEF Destroyed, OnError
  <2> QED BY <1>8, <2>1, <2>2, SettlesWithFailure DEF Destroyed, ClientTyped
<1>9. CASE UNCHANGED client BY <1>9 DEF client, ClientTyped, NeverInside, AnswerIsWhole
<1> QED BY <1>1, <1>2, <1>3, <1>4, <1>5, <1>6, <1>7, <1>8, <1>9 DEF ClientNext

LEMMA ClientInvariant == ClientSpec => []ClientInv
BY ClientStarts, ClientStepKeeps, PTL DEF ClientSpec

(* No request reaches an inner address unless the installation allows it,      *)
(* whatever a name resolves to: guardedLookup and isPrivateAddress.            *)
THEOREM InnerAddressesAreShut == ClientSpec => []NeverInside
BY ClientInvariant, PTL DEF ClientInv

(* What is recorded as the answer of a destination is all of it, or as much as  *)
(* is recorded of any: the handlers of data, end and error in send.            *)
THEOREM AnswersAreWhole == ClientSpec => []AnswerIsWhole
BY ClientInvariant, PTL DEF ClientInv

-----------------------------------------------------------------------------
(* Doubled is a recursive function, of which nothing is known before it is known *)
(* to exist.  Induction is used in its form for sets, which needs no operator    *)
(* as a parameter: a set of numbers that has 0, and with each number the next    *)
(* one, has them all, because its complement has no least element.               *)
LEMMA SetInduction ==
  ASSUME NEW T \in SUBSET Nat, 0 \in T, \A n \in T : n + 1 \in T
  PROVE  T = Nat
<1> DEFINE R == OpToRel(<, Nat)
<1>1. IsWellFoundedOn(R, Nat) BY NatLessThanWellFounded
<1>2. SUFFICES ASSUME T # Nat PROVE FALSE OBVIOUS
<1>3. Nat \ T # {} /\ (Nat \ T) \subseteq Nat BY <1>2
<1>4. PICK x \in Nat \ T : \A y \in Nat \ T : ~ (<<y, x>> \in R)
  <2> HIDE DEF R
  <2> QED BY <1>1, <1>3, WFMin
<1>5. x \in Nat /\ x # 0 /\ x - 1 \in Nat OBVIOUS
<1>6. <<x - 1, x>> \in R BY <1>5 DEF OpToRel
<1>7. x - 1 \in T BY <1>4, <1>5, <1>6
<1> QED BY <1>5, <1>7

(* d doubles the interval as far as n, and stays at twice the window.           *)
Doubles(d, interval, n) ==
  d = [i \in 0 .. n |-> IF i = 0 THEN interval ELSE Smaller(2 * d[i - 1], 2 * MAX_RETRY_WINDOW)]

LEMMA DoublingExists ==
  ASSUME NEW interval \in Nat, NEW n \in Nat
  PROVE  \E d : Doubles(d, interval, n)
<1> DEFINE T == {m \in Nat : \E d : Doubles(d, interval, m)}
<1>1. 0 \in T
  <2> DEFINE d == [i \in 0 .. 0 |-> interval]
  <2>1. Doubles(d, interval, 0)
    <3>1. \A i \in 0 .. 0 : i = 0 OBVIOUS
    <3> QED BY <3>1 DEF Doubles
  <2> QED BY <2>1
<1>2. ASSUME NEW m \in T PROVE m + 1 \in T
  <2>1. PICK d : Doubles(d, interval, m) BY <1>2
  <2> DEFINE e == [i \in 0 .. m + 1 |-> IF i = m + 1 THEN Smaller(2 * d[m], 2 * MAX_RETRY_WINDOW) ELSE d[i]]
  <2>2. m \in Nat OBVIOUS
  <2>3. \A i \in 0 .. m + 1 : e[i] = IF i = 0 THEN interval ELSE Smaller(2 * e[i - 1], 2 * MAX_RETRY_WINDOW)
    <3> SUFFICES ASSUME NEW i \in 0 .. m + 1
                 PROVE  e[i] = IF i = 0 THEN interval ELSE Smaller(2 * e[i - 1], 2 * MAX_RETRY_WINDOW)
      OBVIOUS
    <3>1. CASE i = m + 1
      <4>1. e[m + 1] = Smaller(2 * d[m], 2 * MAX_RETRY_WINDOW) BY <2>2
      <4>2. e[m] = d[m] /\ i - 1 = m /\ i # 0 BY <2>2, <3>1
      <4> QED BY <3>1, <4>1, <4>2
    <3>2. CASE i # m + 1
      <4>1. i \in 0 .. m BY <2>2, <3>2
      <4>2. e[i] = d[i] BY <2>2, <3>2
      <4>3. i # 0 => e[i - 1] = d[i - 1] BY <2>2, <4>1
      <4>4. d[i] = IF i = 0 THEN interval ELSE Smaller(2 * d[i - 1], 2 * MAX_RETRY_WINDOW) BY <2>1, <4>1 DEF Doubles
      <4> HIDE DEF e
      <4> QED BY <4>2, <4>3, <4>4
    <3> QED BY <3>1, <3>2
  <2>4. Doubles(e, interval, m + 1)
    <3>1. e = [i \in 0 .. m + 1 |-> e[i]] OBVIOUS
    <3> HIDE DEF e
    <3>2. [i \in 0 .. m + 1 |-> e[i]] =
            [i \in 0 .. m + 1 |-> IF i = 0 THEN interval ELSE Smaller(2 * e[i - 1], 2 * MAX_RETRY_WINDOW)]
      BY <2>3
    <3> QED BY <3>1, <3>2 DEF Doubles
  <2> QED BY <2>2, <2>4
<1>3. T = Nat
  <2> HIDE DEF T
  <2>1. T \in SUBSET Nat BY DEF T
  <2> QED BY <1>1, <1>2, <2>1, SetInduction
<1> QED BY <1>3

(* The doubled intervals, one from the other.                                   *)
LEMMA DoubledStep ==
  ASSUME NEW interval \in Nat
  PROVE  /\ Doubled(interval, 0) = interval
         /\ \A k \in 0 .. 49 : Doubled(interval, k + 1) = Smaller(2 * Doubled(interval, k), 2 * MAX_RETRY_WINDOW)
<1> DEFINE d == CHOOSE f : Doubles(f, interval, 50)
<1>1. Doubles(d, interval, 50) BY DoublingExists
<1>2. \A k : Doubled(interval, k) = d[k] BY DEF Doubled, Doubles, MAX_RETRIES
<1> HIDE DEF d
<1>3. \A i \in 0 .. 50 : d[i] = IF i = 0 THEN interval ELSE Smaller(2 * d[i - 1], 2 * MAX_RETRY_WINDOW)
  BY <1>1 DEF Doubles
<1>4. d[0] = interval BY <1>3
<1>5. ASSUME NEW k \in 0 .. 49 PROVE d[k + 1] = Smaller(2 * d[k], 2 * MAX_RETRY_WINDOW)
  <2>1. k + 1 \in 0 .. 50 /\ k + 1 # 0 /\ (k + 1) - 1 = k OBVIOUS
  <2> QED BY <1>3, <2>1
<1> QED BY <1>2, <1>4, <1>5

LEMMA DoubledIsNat ==
  ASSUME NEW interval \in Nat, NEW k \in 0 .. 50
  PROVE  Doubled(interval, k) \in Nat
<1> DEFINE T == {n \in Nat : n <= 50 => Doubled(interval, n) \in Nat}
<1>1. 0 \in T BY DoubledStep
<1>2. ASSUME NEW n \in T PROVE n + 1 \in T
  <2>1. CASE n + 1 <= 50
    <3>1. n \in 0 .. 49 /\ Doubled(interval, n) \in Nat BY <2>1
    <3>2. Doubled(interval, n + 1) = Smaller(2 * Doubled(interval, n), 2 * MAX_RETRY_WINDOW) BY <3>1, DoubledStep
    <3> QED BY <3>1, <3>2 DEF Smaller, MAX_RETRY_WINDOW
  <2> QED BY <2>1
<1>3. T = Nat
  <2> HIDE DEF T
  <2>1. T \in SUBSET Nat BY DEF T
  <2> QED BY <1>1, <1>2, <2>1, SetInduction
<1>4. k \in Nat /\ k <= 50 OBVIOUS
<1> QED BY <1>3, <1>4

-----------------------------------------------------------------------------
(* The rule of a connection, the next attempt and what was announced of it.     *)
Rule == [strategy : Strategies, interval : Nat, count : Nat]

(* What nextAttemptAt and willRetryAfterSec are called with.                    *)
ScheduleTyped ==
  /\ rule \in Rule /\ loaded \in Rule /\ replies \in Replies
  /\ stage \in {"waiting", "sending", "dead"}
  /\ clock \in Nat /\ retriesDone \in Nat /\ changes \in Nat
  /\ stage # "dead" => next \in Nat

(* What the worker holds while it sends: the answer is judged by the rule that   *)
(* the announcement was made from, and at the time the attempt was due.          *)
HeldWhileSending ==
  stage = "sending" => announced = willRetryAfterSec(loaded, retriesDone) /\ clock = next

(* A rule that was never updated is the one the worker has read.                *)
ReadWhatIsThere == changes = 0 => loaded = rule

ScheduleInv == ScheduleTyped /\ HeldWhileSending /\ ReadWhatIsThere /\ AnnouncedIsKept

Percent == 0 .. 100

LEMMA RandomsArePercents == Randoms \subseteq Percent
BY ScheduleAssumption DEF Percent

LEMMA ShareOf ==
  ASSUME NEW b \in Nat, NEW a \in 0 .. 40
  PROVE  b * a \in Int /\ 0 <= b * a /\ b * a <= 40 * b
<1>1. (40 - a) * b >= 0 /\ a * b >= 0 OBVIOUS
<1>2. (40 - a) * b = 40 * b - b * a OBVIOUS
<1> QED BY <1>1, <1>2

(* withJitter stays within a fifth of the delay, rounded up.                    *)
LEMMA JitterIsAFifth ==
  ASSUME NEW delay \in Nat, NEW random \in Percent
  PROVE  LET fifth == (delay + 4) \div 5 IN
         withJitter(delay, random) \in Nat /\ withJitter(delay, random) \in delay - fifth .. delay + fifth
<1> DEFINE j == (40 * random) \div 100
<1> DEFINE fifth == (delay + 4) \div 5
<1>1. j \in 0 .. 40 BY DEF Percent
<1>2. fifth \in Nat /\ 5 * fifth >= delay OBVIOUS
<1>3. withJitter(delay, random) = (delay * (80 + j) + 50) \div 100 BY DEF withJitter
<1> DEFINE p == delay * j
<1> HIDE DEF j, fifth
<1>4. p \in Int /\ 0 <= p /\ p <= 40 * delay BY <1>1, ShareOf
<1>5. delay * (80 + j) = 80 * delay + p BY <1>1
<1> HIDE DEF p
<1> QED BY <1>2, <1>3, <1>4, <1>5 DEF fifth

(* A rule that is not exhausted has a delay.                                    *)
LEMMA DelayIsNat ==
  ASSUME NEW r \in Rule, NEW done \in Nat, ~ Exhausted(r, done)
  PROVE  baseDelay(r, done + 1) \in Nat /\ done < r.count /\ done < 50
<1>1. r.interval \in Nat /\ r.count \in Nat BY DEF Rule
<1>2. done < r.count /\ done < 50 BY <1>1 DEF Exhausted, Smaller, MAX_RETRIES
<1>3. (done + 1) - 1 = done /\ done \in 0 .. 50 BY <1>2
<1>4. Doubled(r.interval, (done + 1) - 1) \in Nat BY <1>1, <1>3, DoubledIsNat
<1> QED BY <1>1, <1>2, <1>4 DEF baseDelay

LEMMA NeverIsNoTime == Never \notin Int
BY ScheduleAssumption

LEMMA RetryAfterIsNat ==
  ASSUME NEW values \in Replies, NEW value \in values, NEW now \in Nat
  PROVE  retryAfter(value, now) \in Nat \cup {Never}
<1>1. /\ value[1] = "seconds" => value[2] \in Nat
      /\ value[1] = "date" => value[2] \in Int
  BY ScheduleAssumption
<1>2. CASE value[1] = "seconds" BY <1>1, <1>2 DEF retryAfter
<1>3. CASE value[1] = "date" BY <1>1, <1>3 DEF retryAfter
<1>4. CASE value[1] # "seconds" /\ value[1] # "date" BY <1>4 DEF retryAfter
<1> QED BY <1>2, <1>3, <1>4

(* nextAttemptAt gives a time, or none: the retries are used up or the week is   *)
(* over.                                                                        *)
LEMMA NextAttempt ==
  ASSUME NEW r \in Rule, NEW done \in Nat, NEW now \in Nat,
         NEW values \in Replies, NEW value \in values, NEW random \in Percent
  PROVE  LET at == nextAttemptAt(r, done, now, value, random)
             wanted == retryAfter(value, now)
             jittered == now + withJitter(baseDelay(r, done + 1), random) IN
         /\ Exhausted(r, done) => at = Never
         /\ ~ Exhausted(r, done) /\ wanted # Never => at \in Nat \cup {Never}
         /\ ~ Exhausted(r, done) /\ wanted = Never /\ jittered > MAX_RETRY_WINDOW => at = Never
         /\ ~ Exhausted(r, done) /\ wanted = Never /\ ~ (jittered > MAX_RETRY_WINDOW) => at = jittered
<1>1. retryAfter(value, now) \in Nat \cup {Never} BY RetryAfterIsNat
<1>2. CASE Exhausted(r, done) BY <1>2 DEF nextAttemptAt
<1>3. CASE ~ Exhausted(r, done) /\ retryAfter(value, now) # Never
  <2>1. now + retryAfter(value, now) \in Nat BY <1>1, <1>3
  <2> QED BY <1>3, <2>1 DEF nextAttemptAt
<1>4. CASE ~ Exhausted(r, done) /\ retryAfter(value, now) = Never BY <1>4 DEF nextAttemptAt
<1> QED BY <1>2, <1>3, <1>4

LEMMA ScheduleStarts == ScheduleInit => ScheduleInv
<1> SUFFICES ASSUME ScheduleInit PROVE ScheduleInv OBVIOUS
<1>1. ScheduleTyped BY ScheduleAssumption DEF ScheduleInit, ScheduleTyped, Rule
<1>2. AnnouncedIsKept BY DEF ScheduleInit, AnnouncedIsKept
<1> QED BY <1>1, <1>2 DEF ScheduleInit, ScheduleInv, HeldWhileSending, ReadWhatIsThere

LEMMA AttemptKeeps == ScheduleInv /\ Attempt => ScheduleInv'
<1> SUFFICES ASSUME ScheduleInv, Attempt PROVE ScheduleInv' OBVIOUS
<1>1. ScheduleTyped' BY DEF ScheduleInv, ScheduleTyped, Attempt
<1>2. AnnouncedIsKept' BY DEF Attempt, AnnouncedIsKept
<1>3. HeldWhileSending'
  <2>1. willRetryAfterSec(rule, retriesDone) = willRetryAfterSec(loaded, retriesDone)'
    BY DEF Attempt, willRetryAfterSec, Exhausted, baseDelay
  <2> QED BY <2>1 DEF Attempt, HeldWhileSending
<1>4. ReadWhatIsThere' BY DEF Attempt, ReadWhatIsThere
<1> QED BY <1>1, <1>2, <1>3, <1>4 DEF ScheduleInv

(* The fields of an update are those of a rule.                                 *)
LEMMA UpdateIsTyped ==
  ASSUME NEW r \in Rule, NEW edit \in Edits
  PROVE  [f \in DOMAIN r |-> IF f \in DOMAIN edit THEN edit[f] ELSE r[f]] \in Rule
<1>1. DOMAIN r = {"strategy", "interval", "count"} BY DEF Rule
<1>2. r.strategy \in Strategies /\ r.interval \in Nat /\ r.count \in Nat BY DEF Rule
<1>3. /\ "strategy" \in DOMAIN edit => edit.strategy \in Strategies
      /\ "interval" \in DOMAIN edit => edit.interval \in Nat
      /\ "count" \in DOMAIN edit => edit.count \in Nat
  BY ScheduleAssumption
<1> DEFINE s == [f \in DOMAIN r |-> IF f \in DOMAIN edit THEN edit[f] ELSE r[f]]
<1>4. s.strategy \in Strategies /\ s.interval \in Nat /\ s.count \in Nat BY <1>1, <1>2, <1>3
<1>5. s = [strategy |-> s.strategy, interval |-> s.interval, count |-> s.count] BY <1>1
<1> HIDE DEF s
<1>6. [strategy |-> s.strategy, interval |-> s.interval, count |-> s.count] \in Rule BY <1>4 DEF Rule
<1> QED BY <1>5, <1>6 DEF s

LEMMA UpdateRuleKeeps == ScheduleInv /\ (\E edit \in Edits : UpdateRule(edit)) => ScheduleInv'
<1> SUFFICES ASSUME ScheduleInv, NEW edit \in Edits, UpdateRule(edit) PROVE ScheduleInv' OBVIOUS
<1>1. rule' \in Rule BY UpdateIsTyped DEF UpdateRule, ScheduleInv, ScheduleTyped
<1>2. changes \in Nat /\ changes' = changes + 1 BY DEF UpdateRule, ScheduleInv, ScheduleTyped
<1>3. ScheduleTyped' BY <1>1, <1>2 DEF UpdateRule, ScheduleInv, ScheduleTyped
<1>4. ReadWhatIsThere' BY <1>2 DEF ReadWhatIsThere
<1>5. HeldWhileSending'
  <2>1. willRetryAfterSec(loaded, retriesDone) = willRetryAfterSec(loaded, retriesDone)'
    BY DEF UpdateRule, willRetryAfterSec, Exhausted, baseDelay
  <2> QED BY <2>1 DEF UpdateRule, ScheduleInv, HeldWhileSending
<1>6. AnnouncedIsKept' BY DEF UpdateRule, ScheduleInv, AnnouncedIsKept, retryAfter
<1> QED BY <1>3, <1>4, <1>5, <1>6 DEF ScheduleInv

LEMMA FailAttemptKeeps ==
  ASSUME ScheduleInv, NEW value \in replies, NEW random \in Randoms, FailAttempt(value, random)
  PROVE  ScheduleInv'
<1> DEFINE wanted == retryAfter(value, clock)
<1> DEFINE delay == baseDelay(loaded, retriesDone + 1)
<1> DEFINE fifth == (delay + 4) \div 5
<1> DEFINE jittered == clock + withJitter(delay, random)
<1>1. /\ loaded \in Rule /\ rule \in Rule /\ replies \in Replies
      /\ retriesDone \in Nat /\ clock \in Nat /\ changes \in Nat /\ random \in Percent
  BY RandomsArePercents DEF ScheduleInv, ScheduleTyped
<1>2. stage = "sending" /\ next' = nextAttemptAt(loaded, retriesDone, clock, value, random) BY DEF FailAttempt
<1>3. retryAfter(reply, clock)' = wanted BY DEF FailAttempt, retryAfter
<1>4. IF next' = Never THEN stage' = "dead" /\ UNCHANGED retriesDone
      ELSE stage' = "waiting" /\ retriesDone' = retriesDone + 1
  BY DEF FailAttempt
<1>5. announced' = announced /\ clock' = clock BY DEF FailAttempt
<1>6. announced = IF Exhausted(loaded, retriesDone) THEN Never ELSE delay
  BY <1>2 DEF ScheduleInv, HeldWhileSending, willRetryAfterSec
<1>7. /\ Exhausted(loaded, retriesDone) => next' = Never
      /\ ~ Exhausted(loaded, retriesDone) /\ wanted # Never => next' \in Nat \cup {Never}
      /\ ~ Exhausted(loaded, retriesDone) /\ wanted = Never /\ jittered > MAX_RETRY_WINDOW => next' = Never
      /\ ~ Exhausted(loaded, retriesDone) /\ wanted = Never /\ ~ (jittered > MAX_RETRY_WINDOW) => next' = jittered
  <2> HIDE DEF wanted, delay
  <2> QED BY <1>1, <1>2, NextAttempt DEF wanted, delay
<1>8. ~ Exhausted(loaded, retriesDone) =>
        /\ delay \in Nat
        /\ withJitter(delay, random) \in Nat /\ withJitter(delay, random) \in delay - fifth .. delay + fifth
  BY <1>1, DelayIsNat, JitterIsAFifth
<1> HIDE DEF wanted, delay, fifth
<1>9. next' \in Nat \cup {Never} BY <1>1, <1>7, <1>8
<1>10. ScheduleTyped'
  <2>1. stage' \in {"waiting", "sending", "dead"} /\ retriesDone' \in Nat /\ (stage' # "dead" => next' \in Nat)
    BY <1>1, <1>4, <1>9
  <2> QED BY <1>1, <1>5, <2>1 DEF FailAttempt, ScheduleTyped
<1>11. HeldWhileSending' /\ ReadWhatIsThere'
  BY <1>4 DEF FailAttempt, ScheduleInv, HeldWhileSending, ReadWhatIsThere
<1>12. AnnouncedIsKept'
  <2>1. CASE stage' = "waiting" /\ wanted = Never
    <3>1. next' # Never BY <1>4, <2>1
    <3>2. next' = jittered /\ announced = delay /\ delay # Never
      BY <1>6, <1>7, <1>8, <2>1, <3>1, NeverIsNoTime
    <3>3. next' - clock \in delay - fifth .. delay + fifth BY <1>1, <1>7, <1>8, <3>1, <3>2
    <3> QED BY <1>3, <1>5, <2>1, <3>2, <3>3 DEF AnnouncedIsKept, fifth
  <2>2. CASE stage' = "dead" /\ wanted = Never /\ announced # Never
    <3>1. ~ Exhausted(loaded, retriesDone) /\ announced = delay BY <1>6, <2>2
    <3>2. next' = Never BY <1>4, <2>2
    <3>3. jittered > MAX_RETRY_WINDOW BY <1>1, <1>7, <1>8, <2>2, <3>1, <3>2, NeverIsNoTime
    <3>4. fifth \in Int BY <1>8, <3>1 DEF fifth
    <3>5. clock + delay + fifth > MAX_RETRY_WINDOW BY <1>1, <1>8, <3>1, <3>3, <3>4 DEF MAX_RETRY_WINDOW
    <3> QED BY <1>5, <2>2, <3>1, <3>5 DEF AnnouncedIsKept, fifth
  <2> QED BY <1>3, <1>4, <1>5, <2>1, <2>2 DEF AnnouncedIsKept
<1> QED BY <1>10, <1>11, <1>12 DEF ScheduleInv

LEMMA ScheduleStands == ScheduleInv /\ UNCHANGED schedule => ScheduleInv'
<1> SUFFICES ASSUME ScheduleInv, UNCHANGED schedule PROVE ScheduleInv' OBVIOUS
<1>1. ScheduleTyped' /\ ReadWhatIsThere' BY DEF schedule, ScheduleInv, ScheduleTyped, ReadWhatIsThere
<1>2. HeldWhileSending'
  <2>1. willRetryAfterSec(loaded, retriesDone) = willRetryAfterSec(loaded, retriesDone)'
    BY DEF schedule, willRetryAfterSec, Exhausted, baseDelay
  <2> QED BY <2>1 DEF schedule, ScheduleInv, HeldWhileSending
<1>3. AnnouncedIsKept' BY DEF schedule, ScheduleInv, AnnouncedIsKept, retryAfter
<1> QED BY <1>1, <1>2, <1>3 DEF ScheduleInv

LEMMA ScheduleInvariant == ScheduleSpec => []ScheduleInv
<1>1. ScheduleInv /\ [ScheduleNext]_schedule => ScheduleInv'
  BY AttemptKeeps, FailAttemptKeeps, UpdateRuleKeeps, ScheduleStands DEF ScheduleNext
<1> QED BY <1>1, ScheduleStarts, PTL DEF ScheduleSpec

(* What X-Hookbuffer-Will-Retry-After says is what is done, but for the jitter,  *)
(* whatever the rule, the draws, and the updates of the rule meanwhile.          *)
THEOREM AnnouncementsAreKept == ScheduleSpec => []AnnouncedIsKept
BY ScheduleInvariant, PTL DEF ScheduleInv

-----------------------------------------------------------------------------
(* The default rule: nine retries, each after twice the time of the last.       *)
LEMMA DefaultIntervals ==
  /\ Doubled(300, 0) = 300 /\ Doubled(300, 9) = 153600
  /\ \A n \in 0 .. 8 : /\ \E m \in Nat : 1 <= m /\ m <= 256 /\ Doubled(300, n) = 300 * m
                       /\ Doubled(300, n + 1) = 2 * Doubled(300, n)
<1> USE DEF Smaller, MAX_RETRY_WINDOW
<1>0. /\ Doubled(300, 0) = 300
      /\ \A k \in 0 .. 49 : Doubled(300, k + 1) = Smaller(2 * Doubled(300, k), 2 * MAX_RETRY_WINDOW)
  BY DoubledStep
<1>1. Doubled(300, 1) = 600 BY <1>0, 0 + 1 = 1
<1>2. Doubled(300, 2) = 1200 BY <1>0, <1>1, 1 + 1 = 2
<1>3. Doubled(300, 3) = 2400 BY <1>0, <1>2, 2 + 1 = 3
<1>4. Doubled(300, 4) = 4800 BY <1>0, <1>3, 3 + 1 = 4
<1>5. Doubled(300, 5) = 9600 BY <1>0, <1>4, 4 + 1 = 5
<1>6. Doubled(300, 6) = 19200 BY <1>0, <1>5, 5 + 1 = 6
<1>7. Doubled(300, 7) = 38400 BY <1>0, <1>6, 6 + 1 = 7
<1>8. Doubled(300, 8) = 76800 BY <1>0, <1>7, 7 + 1 = 8
<1>9. Doubled(300, 9) = 153600 BY <1>0, <1>8, 8 + 1 = 9
<1>10. ASSUME NEW n \in 0 .. 8
       PROVE  \E m \in Nat : 1 <= m /\ m <= 256 /\ Doubled(300, n) = 300 * m
  <2> DEFINE Multiple(n_, m) == m \in Nat /\ 1 <= m /\ m <= 256 /\ Doubled(300, n_) = 300 * m
  <2>1. CASE n = 0 BY <1>0, <2>1, Multiple(0, 1)
  <2>2. CASE n = 1 BY <1>1, <2>2, Multiple(1, 2)
  <2>3. CASE n = 2 BY <1>2, <2>3, Multiple(2, 4)
  <2>4. CASE n = 3 BY <1>3, <2>4, Multiple(3, 8)
  <2>5. CASE n = 4 BY <1>4, <2>5, Multiple(4, 16)
  <2>6. CASE n = 5 BY <1>5, <2>6, Multiple(5, 32)
  <2>7. CASE n = 6 BY <1>6, <2>7, Multiple(6, 64)
  <2>8. CASE n = 7 BY <1>7, <2>8, Multiple(7, 128)
  <2>9. CASE n = 8 BY <1>8, <2>9, Multiple(8, 256)
  <2> QED BY <2>1, <2>2, <2>3, <2>4, <2>5, <2>6, <2>7, <2>8, <2>9
<1>11. ASSUME NEW n \in 0 .. 8
       PROVE  Doubled(300, n + 1) = 2 * Doubled(300, n)
  BY <1>0, <1>1, <1>2, <1>3, <1>4, <1>5, <1>6, <1>7, <1>8, <1>9
<1> QED BY <1>0, <1>9, <1>10, <1>11

(* After n retries four fifths to six fifths of all intervals before have       *)
(* passed: the sum of the doubled intervals is the next one less the first.     *)
Passed(time, n) ==
  LET sum == Doubled(300, n) - 300 IN 5 * time >= 4 * sum /\ 5 * time <= 6 * sum

(* A connection that has the default rule, was never updated, and whose         *)
(* destination never asks for another time.                                     *)
LeftAlone == rule = DefaultRule /\ changes = 0 /\ replies = {<<"absent">>}

DefaultOnTime ==
  LeftAlone =>
    /\ retriesDone \in 0 .. 9
    /\ stage # "dead" => Passed(next, retriesDone)
    /\ stage = "dead" => retriesDone = 9 /\ Passed(clock, 9)

(* One more retry, with whatever jitter: still in time, and within the week.    *)
LEMMA PassedNext ==
  ASSUME NEW time \in Nat, NEW n \in 0 .. 8, Passed(time, n), NEW random \in Percent
  PROVE  LET at == time + withJitter(Doubled(300, n), random) IN
         at \in Nat /\ ~ (at > MAX_RETRY_WINDOW) /\ Passed(at, n + 1)
<1> DEFINE j == (40 * random) \div 100
<1>1. j \in 0 .. 40 BY DEF Percent
<1>2. PICK m \in Nat : 1 <= m /\ m <= 256 /\ Doubled(300, n) = 300 * m BY DefaultIntervals
<1>3. Doubled(300, n + 1) = 600 * m BY <1>2, DefaultIntervals
<1>4. withJitter(300 * m, random) = ((300 * m) * (80 + j) + 50) \div 100 BY DEF withJitter
<1> HIDE DEF j
<1> DEFINE p == m * j
<1>5. p \in Int /\ 0 <= p /\ p <= 40 * m BY <1>1, ShareOf
<1>6. (300 * m) * (80 + j) = 24000 * m + 300 * p BY <1>1
<1> HIDE DEF p
<1>7. withJitter(300 * m, random) = 240 * m + 3 * p BY <1>4, <1>5, <1>6
<1>8. 5 * time >= 4 * (300 * m - 300) /\ 5 * time <= 6 * (300 * m - 300) BY <1>2 DEF Passed
<1> QED BY <1>2, <1>3, <1>5, <1>7, <1>8 DEF Passed, MAX_RETRY_WINDOW

(* What the default rule makes of an attempt that failed.                       *)
LEMMA DefaultAttempt ==
  /\ DefaultRule \in Rule
  /\ \A n \in 0 .. 8 : ~ Exhausted(DefaultRule, n) /\ baseDelay(DefaultRule, n + 1) = Doubled(300, n)
  /\ Exhausted(DefaultRule, 9)
<1>1. DefaultRule \in Rule BY DEF DefaultRule, Rule, Strategies
<1>2. Exhausted(DefaultRule, 9) BY DEF DefaultRule, Exhausted, Smaller, MAX_RETRIES
<1>3. ASSUME NEW n \in 0 .. 8
      PROVE  ~ Exhausted(DefaultRule, n) /\ baseDelay(DefaultRule, n + 1) = Doubled(300, n)
  <2>1. ~ Exhausted(DefaultRule, n) BY DEF DefaultRule, Exhausted, Smaller, MAX_RETRIES
  <2>2. DefaultRule.strategy # "linear" /\ DefaultRule.interval = 300 /\ (n + 1) - 1 = n BY DEF DefaultRule
  <2> QED BY <2>1, <2>2 DEF baseDelay
<1> QED BY <1>1, <1>2, <1>3

LEMMA DefaultFails ==
  ASSUME ScheduleInv, DefaultOnTime, LeftAlone, NEW value \in replies, NEW random \in Randoms,
         FailAttempt(value, random)
  PROVE  DefaultOnTime'
<1>1. /\ loaded = DefaultRule /\ replies \in Replies /\ value = <<"absent">>
      /\ clock \in Nat /\ clock = next /\ stage = "sending" /\ random \in Percent
  BY RandomsArePercents DEF ScheduleInv, ScheduleTyped, HeldWhileSending, ReadWhatIsThere, LeftAlone, FailAttempt
<1>2. retriesDone \in 0 .. 9 /\ Passed(clock, retriesDone) BY <1>1 DEF DefaultOnTime
<1>3. /\ next' = nextAttemptAt(DefaultRule, retriesDone, clock, value, random) /\ clock' = clock
      /\ IF next' = Never THEN stage' = "dead" /\ UNCHANGED retriesDone
         ELSE stage' = "waiting" /\ retriesDone' = retriesDone + 1
  BY <1>1 DEF FailAttempt
<1>4. retryAfter(value, clock) = Never BY <1>1 DEF retryAfter
<1>5. CASE retriesDone = 9
  <2>1. next' = Never BY <1>3, <1>5, DefaultAttempt DEF nextAttemptAt
  <2> QED BY <1>2, <1>3, <1>5, <2>1 DEF DefaultOnTime, Passed
<1>6. CASE retriesDone # 9
  <2> DEFINE n == retriesDone
  <2> DEFINE at == clock + withJitter(Doubled(300, n), random)
  <2>1. n \in 0 .. 8 BY <1>2, <1>6
  <2>2. at \in Nat /\ ~ (at > MAX_RETRY_WINDOW) /\ Passed(at, n + 1) BY <1>1, <1>2, <2>1, PassedNext
  <2>3. next' = at BY <1>3, <1>4, <2>1, <2>2, DefaultAttempt DEF nextAttemptAt
  <2>4. next' # Never BY <2>2, <2>3, NeverIsNoTime
  <2>5. stage' = "waiting" /\ retriesDone' = n + 1 BY <1>3, <2>4
  <2> HIDE DEF at
  <2> QED BY <2>1, <2>2, <2>3, <2>5 DEF DefaultOnTime, Passed
<1> QED BY <1>5, <1>6

LEMMA DefaultStepKeeps == ScheduleInv /\ DefaultOnTime /\ [ScheduleNext]_schedule => DefaultOnTime'
<1> SUFFICES ASSUME ScheduleInv, DefaultOnTime, [ScheduleNext]_schedule PROVE DefaultOnTime' OBVIOUS
<1>1. CASE Attempt BY <1>1 DEF Attempt, DefaultOnTime, LeftAlone, Passed
<1>2. CASE \E value \in replies, random \in Randoms : FailAttempt(value, random)
  <2>1. PICK value \in replies, random \in Randoms : FailAttempt(value, random) BY <1>2
  <2>2. LeftAlone' => LeftAlone BY <2>1 DEF FailAttempt, LeftAlone
  <2>3. CASE LeftAlone BY <2>1, <2>3, DefaultFails
  <2> QED BY <2>2, <2>3 DEF DefaultOnTime
<1>3. CASE \E edit \in Edits : UpdateRule(edit)
  <2>1. changes' # 0 BY <1>3 DEF UpdateRule, ScheduleInv, ScheduleTyped
  <2> QED BY <2>1 DEF DefaultOnTime, LeftAlone
<1>4. CASE UNCHANGED schedule BY <1>4 DEF schedule, DefaultOnTime, LeftAlone, Passed
<1> QED BY <1>1, <1>2, <1>3, <1>4 DEF ScheduleNext

LEMMA DefaultStarts == ScheduleInit => DefaultOnTime
<1> SUFFICES ASSUME ScheduleInit PROVE DefaultOnTime OBVIOUS
<1>1. Passed(0, 0) BY DefaultIntervals DEF Passed
<1> QED BY <1>1 DEF ScheduleInit, DefaultOnTime

LEMMA DefaultEnds == ScheduleInv /\ DefaultOnTime => DefaultTakesTwoDays
<1> SUFFICES ASSUME ScheduleInv, DefaultOnTime PROVE DefaultTakesTwoDays OBVIOUS
<1>1. ASSUME LeftAlone, stage = "dead"
      PROVE  retriesDone = DefaultRule.count /\ 122640 <= clock /\ clock <= 183960
  <2>1. clock \in Nat /\ retriesDone = 9 /\ Passed(clock, 9)
    BY <1>1 DEF ScheduleInv, ScheduleTyped, DefaultOnTime
  <2>2. DefaultRule.count = 9 BY DEF DefaultRule
  <2>3. 122640 <= clock /\ clock <= 183960 BY <2>1, DefaultIntervals DEF Passed
  <2> QED BY <2>1, <2>2, <2>3
<1> QED BY <1>1 DEF DefaultTakesTwoDays, LeftAlone

(* A connection that is left alone makes nine retries and gives up after 34 to   *)
(* 52 hours: about the 1.8 days that the schema promises.                       *)
THEOREM DefaultLastsTwoDays == ScheduleSpec => []DefaultTakesTwoDays
<1>1. ScheduleSpec => []DefaultOnTime
  BY ScheduleInvariant, DefaultStarts, DefaultStepKeeps, PTL DEF ScheduleSpec
<1> QED BY <1>1, ScheduleInvariant, DefaultEnds, PTL

-----------------------------------------------------------------------------
(* Retention: what a statement deletes has outlived its plan.                   *)

Ages == [Row -> Nat \cup {Deleted}]

(* d: the days of the rows, now or after a step.                                *)
Outlived(d, r, q) == d[r] # Deleted => d[r] > RETENTION_DAYS[q]

(* A run is a record of five fields, whatever they hold.                        *)
IsBatch(b) == b = [pc |-> b.pc, drains |-> b.drains, old |-> b.old, ids |-> b.ids, plans |-> b.plans]

(* Rows that were older than the cutoff of a plan when the run began only grow  *)
(* older, or go.                                                                *)
OldStaysOld(b, d) ==
  b.pc \in {"select", "delete"} => \A q \in ToSet(PLANS) : \A r \in Row : r \in b.old[q] => Outlived(d, r, q)

(* Those a statement has picked have outlived the plan that their organization  *)
(* had then, whatever plan it has now.                                          *)
PickedAreOld(b, d) ==
  b.pc = "delete" =>
    /\ b.plans \in [Organization -> ToSet(PLANS)] /\ b.ids \subseteq Row
    /\ \A r \in b.ids : Outlived(d, r, b.plans[OwnerOf[r]])

RunHolds(b, d) == IsBatch(b) /\ OldStaysOld(b, d) /\ PickedAreOld(b, d)

RetentionInv ==
  /\ days \in Ages /\ plan \in [Organization -> ToSet(PLANS)]
  /\ batch = [p \in Process |-> batch[p]]
  /\ \A p \in Process : RunHolds(batch[p], days)

(* Time passes for a row, or it is deleted; it does not come back.              *)
RowsAge == days' \in Ages /\ \A r \in Row : days'[r] = Deleted \/ (Stored(r) /\ days'[r] >= days[r])

LEMMA DaysAreNat == Deleted \notin Nat /\ \A q \in ToSet(PLANS) : RETENTION_DAYS[q] \in Nat
BY RetentionAssumption

LEMMA OwnerHasPlan ==
  ASSUME NEW r \in Row, NEW plans \in [Organization -> ToSet(PLANS)]
  PROVE  plans[OwnerOf[r]] \in ToSet(PLANS)
BY RetentionAssumption

LEMMA OutlivedStays ==
  ASSUME days \in Ages, RowsAge, NEW r \in Row, NEW q \in ToSet(PLANS), Outlived(days, r, q)
  PROVE  Outlived(days', r, q)
<1>1. CASE days'[r] = Deleted BY <1>1 DEF Outlived
<1>2. CASE days'[r] # Deleted
  <2>1. days[r] \in Nat /\ days'[r] \in Nat /\ days'[r] >= days[r] /\ days[r] # Deleted
    BY <1>2, DaysAreNat DEF Ages, RowsAge, Stored
  <2> QED BY <2>1, DaysAreNat DEF Outlived
<1> QED BY <1>1, <1>2

LEMMA RunStands ==
  ASSUME days \in Ages, RowsAge, NEW b, RunHolds(b, days)
  PROVE  RunHolds(b, days')
<1>1. OldStaysOld(b, days') BY OutlivedStays DEF RunHolds, OldStaysOld
<1>2. PickedAreOld(b, days')
  <2>1. SUFFICES ASSUME b.pc = "delete", NEW r \in b.ids PROVE Outlived(days', r, b.plans[OwnerOf[r]])
    BY DEF RunHolds, PickedAreOld
  <2>2. /\ b.plans \in [Organization -> ToSet(PLANS)] /\ r \in Row
        /\ Outlived(days, r, b.plans[OwnerOf[r]])
    BY <2>1 DEF RunHolds, PickedAreOld
  <2> QED BY <2>2, OwnerHasPlan, OutlivedStays
<1> QED BY <1>1, <1>2 DEF RunHolds

(* A run that begins, and one that has picked its rows.                         *)
LEMMA BegunRun ==
  ASSUME NEW drains, NEW old, NEW b, b = [Idle EXCEPT !.pc = "select", !.drains = drains, !.old = old]
  PROVE  b = [pc |-> "select", drains |-> drains, old |-> old, ids |-> {}, plans |-> <<>>]
BY DEF Idle

LEMMA PickedRun ==
  ASSUME NEW a, IsBatch(a), NEW ids, NEW plans, NEW b, b = [a EXCEPT !.pc = "delete", !.ids = ids, !.plans = plans]
  PROVE  b = [pc |-> "delete", drains |-> a.drains, old |-> a.old, ids |-> ids, plans |-> plans]
BY DEF IsBatch

(* A step of one run, or of none.                                               *)
LEMMA RunMoves ==
  ASSUME RetentionInv, RowsAge, UNCHANGED plan,
         NEW p \in Process, NEW b, batch' = [batch EXCEPT ![p] = b], RunHolds(b, days')
  PROVE  RetentionInv'
<1>1. batch' = [q \in Process |-> batch'[q]] BY DEF RetentionInv
<1>2. ASSUME NEW q \in Process PROVE RunHolds(batch'[q], days')
  <2>1. CASE q = p BY <2>1 DEF RetentionInv
  <2>2. CASE q # p
    <3>1. batch'[q] = batch[q] BY <2>2 DEF RetentionInv
    <3>2. RunHolds(batch[q], days') BY RunStands DEF RetentionInv
    <3> QED BY <3>1, <3>2
  <2> QED BY <2>1, <2>2
<1>3. (\A q \in Process : RunHolds(batch[q], days))'
  <2>1. \A q \in Process : RunHolds(batch'[q], days') BY <1>2
  <2> QED BY <2>1 DEF RunHolds, IsBatch, OldStaysOld, PickedAreOld, Outlived
<1> QED BY <1>1, <1>3 DEF RetentionInv, RowsAge, Ages

LEMMA NoRunMoves ==
  ASSUME RetentionInv, RowsAge, plan' \in [Organization -> ToSet(PLANS)], UNCHANGED batch
  PROVE  RetentionInv'
<1>1. \A q \in Process : RunHolds(batch[q], days') BY RunStands DEF RetentionInv
<1>2. (\A q \in Process : RunHolds(batch[q], days))'
  BY <1>1 DEF RunHolds, IsBatch, OldStaysOld, PickedAreOld, Outlived
<1> QED BY <1>2 DEF RetentionInv, RowsAge, Ages

LEMMA IdleHolds == RunHolds(Idle, days') /\ RunHolds(Idle, days)
BY DEF Idle, RunHolds, IsBatch, OldStaysOld, PickedAreOld

LEMMA RowsStand == RetentionInv /\ UNCHANGED days => RowsAge
<1> SUFFICES ASSUME RetentionInv, UNCHANGED days PROVE RowsAge OBVIOUS
<1>1. \A r \in Row : days[r] = Deleted \/ (days[r] \in Nat /\ days[r] >= days[r]) BY DEF RetentionInv, Ages
<1> QED BY <1>1 DEF RetentionInv, Ages, RowsAge, Stored

LEMMA RetentionStarts == RetentionInit => RetentionInv
<1> SUFFICES ASSUME RetentionInit PROVE RetentionInv OBVIOUS
<1>1. days \in Ages BY DEF RetentionInit, Ages
<1>2. \A p \in Process : RunHolds(batch[p], days) BY IdleHolds DEF RetentionInit
<1> QED BY <1>1, <1>2 DEF RetentionInit, RetentionInv

LEMMA BeginKeeps == ASSUME RetentionInv, NEW p \in Process, Begin(p) PROVE RetentionInv'
<1> DEFINE old == [q \in ToSet(PLANS) |-> BeforeCutoff(q)]
<1> DEFINE b == [pc |-> "select", drains |-> Drains, old |-> old, ids |-> {}, plans |-> <<>>]
<1>1. batch' = [batch EXCEPT ![p] = b]
  <2>1. [Idle EXCEPT !.pc = "select", !.drains = Drains, !.old = old] = b BY BegunRun
  <2> QED BY <2>1 DEF Begin
<1>2. \A q \in ToSet(PLANS) : \A r \in old[q] : Outlived(days', r, q) BY DEF Begin, BeforeCutoff, Outlived
<1>3. RunHolds(b, days') BY <1>2 DEF RunHolds, IsBatch, OldStaysOld, PickedAreOld
<1>4. RowsAge BY RowsStand DEF Begin
<1> HIDE DEF b
<1> QED BY <1>1, <1>3, <1>4, RunMoves DEF Begin

LEMMA SelectKeeps == ASSUME RetentionInv, NEW p \in Process, Select(p) PROVE RetentionInv'
<1> DEFINE a == batch[p]
<1> DEFINE ids == OldestOf(Expired(a))
<1> DEFINE b == [pc |-> "delete", drains |-> a.drains, old |-> a.old, ids |-> ids, plans |-> plan]
<1>1. RunHolds(a, days) /\ a.pc = "select" BY DEF RetentionInv, Select
<1>2. batch' = [batch EXCEPT ![p] = b]
  <2>1. [a EXCEPT !.pc = "delete", !.ids = ids, !.plans = plan] = b BY <1>1, PickedRun DEF RunHolds
  <2>2. batch' = [batch EXCEPT ![p] = [a EXCEPT !.pc = "delete", !.ids = ids, !.plans = plan]]
    BY DEF Select, RetentionInv
  <2> QED BY <2>1, <2>2
<1>3. ASSUME NEW r \in ids PROVE r \in Row /\ Outlived(days', r, plan[OwnerOf[r]])
  <2>1. r \in Row /\ r \in a.old[plan[OwnerOf[r]]]
    BY <1>3 DEF OldestOf, Expired, ExpiredOnAnyPlan
  <2>2. plan[OwnerOf[r]] \in ToSet(PLANS) BY <2>1, OwnerHasPlan DEF RetentionInv
  <2>3. Outlived(days, r, plan[OwnerOf[r]])
    <3> HIDE DEF a
    <3> QED BY <1>1, <2>1, <2>2 DEF RunHolds, OldStaysOld
  <2> QED BY <2>1, <2>3 DEF Select
<1>4. RowsAge BY RowsStand DEF Select
<1>5. RunHolds(b, days')
  <2>1. OldStaysOld(b, days') BY <1>1 DEF RunHolds, OldStaysOld, Select
  <2>2. PickedAreOld(b, days')
    <3> HIDE DEF ids
    <3> QED BY <1>3 DEF PickedAreOld, RetentionInv
  <2> QED BY <2>1, <2>2 DEF RunHolds, IsBatch
<1> HIDE DEF b
<1> QED BY <1>2, <1>4, <1>5, RunMoves DEF Select

LEMMA DeleteAges == ASSUME RetentionInv, NEW p \in Process, Delete(p) PROVE RowsAge
<1>1. \A r \in Row : days[r] \in Nat \cup {Deleted} /\ (days'[r] = Deleted \/ days'[r] = days[r])
  BY DEF RetentionInv, Ages, Delete
<1>2. days' = [r \in Row |-> days'[r]] BY DEF Delete
<1>3. days' \in Ages BY <1>1, <1>2 DEF Ages
<1> QED BY <1>1, <1>3, DaysAreNat DEF RowsAge, Stored

LEMMA DeleteKeeps == ASSUME RetentionInv, NEW p \in Process, Delete(p) PROVE RetentionInv'
<1> DEFINE a == batch[p]
<1> DEFINE count == Cardinality({r \in a.ids : Stored(r)})
<1> DEFINE b == NextDrain(a, count)
<1>1. RunHolds(a, days) /\ a.pc = "delete" BY DEF RetentionInv, Delete
<1>2. RowsAge BY DeleteAges
<1>3. RunHolds(a, days') BY <1>1, <1>2, RunStands DEF RetentionInv
<1>4. RunHolds(b, days')
  <2>1. PICK drains : b = Idle \/ b = [a EXCEPT !.pc = "select", !.drains = drains, !.ids = {}, !.plans = <<>>]
    BY DEF NextDrain
  <2>2. CASE b = Idle BY <2>2, IdleHolds
  <2>3. CASE b = [a EXCEPT !.pc = "select", !.drains = drains, !.ids = {}, !.plans = <<>>]
    <3>1. b = [pc |-> "select", drains |-> drains, old |-> a.old, ids |-> {}, plans |-> <<>>]
      BY <1>1, <2>3 DEF RunHolds, IsBatch
    <3> HIDE DEF b
    <3> QED BY <1>1, <1>3, <3>1 DEF RunHolds, IsBatch, OldStaysOld, PickedAreOld
  <2> QED BY <2>1, <2>2, <2>3
<1>5. batch' = [batch EXCEPT ![p] = b] BY DEF Delete, RetentionInv
<1> HIDE DEF b
<1> QED BY <1>2, <1>4, <1>5, RunMoves DEF Delete

LEMMA FailKeeps == ASSUME RetentionInv, NEW p \in Process, Fail(p) PROVE RetentionInv'
<1>1. RowsAge BY RowsStand DEF Fail
<1>2. batch' = [batch EXCEPT ![p] = Idle] BY DEF Fail, AfterFailure
<1> QED BY <1>1, <1>2, IdleHolds, RunMoves DEF Fail

LEMMA DayKeeps == RetentionInv /\ Day => RetentionInv'
<1> SUFFICES ASSUME RetentionInv, Day PROVE RetentionInv' OBVIOUS
<1>1. \A r \in Row : days[r] \in Nat \cup {Deleted} /\ (days'[r] = days[r] \/ (Stored(r) /\ days'[r] = days[r] + 1))
  BY DEF RetentionInv, Ages, Day
<1>2. days' = [r \in Row |-> days'[r]] BY DEF Day
<1>3. ASSUME NEW r \in Row
      PROVE  /\ days'[r] \in Nat \cup {Deleted}
             /\ days'[r] = Deleted \/ (Stored(r) /\ days'[r] >= days[r])
  BY <1>1, DaysAreNat DEF Stored
<1>4. RowsAge BY <1>2, <1>3 DEF Ages, RowsAge
<1> QED BY <1>4, NoRunMoves DEF Day, RetentionInv

LEMMA ChangePlanKeeps == RetentionInv /\ (\E o \in Organization : ChangePlan(o)) => RetentionInv'
<1> SUFFICES ASSUME RetentionInv, NEW o \in Organization, ChangePlan(o) PROVE RetentionInv' OBVIOUS
<1>1. plan' \in [Organization -> ToSet(PLANS)] BY DEF ChangePlan, RetentionInv
<1>2. RowsAge BY RowsStand DEF ChangePlan
<1> QED BY <1>1, <1>2, NoRunMoves DEF ChangePlan

LEMMA RemoveProjectKeeps == RetentionInv /\ (\E o \in Organization : RemoveProject(o)) => RetentionInv'
<1> SUFFICES ASSUME RetentionInv, NEW o \in Organization, RemoveProject(o) PROVE RetentionInv' OBVIOUS
<1>1. \A r \in Row : days[r] \in Nat \cup {Deleted} /\ (days'[r] = Deleted \/ days'[r] = days[r])
  BY DEF RetentionInv, Ages, RemoveProject
<1>2. days' = [r \in Row |-> days'[r]] BY DEF RemoveProject
<1>3. days' \in Ages BY <1>1, <1>2 DEF Ages
<1>4. RowsAge BY <1>1, <1>3, DaysAreNat DEF RowsAge, Stored
<1> QED BY <1>4, NoRunMoves DEF RemoveProject, RetentionInv

LEMMA RetentionInvariant == RetentionSpec => []RetentionInv
<1>1. RetentionInv /\ [RetentionNext]_retention => RetentionInv'
  <2> SUFFICES ASSUME RetentionInv, [RetentionNext]_retention PROVE RetentionInv' OBVIOUS
  <2>1. CASE UNCHANGED retention
    <3>1. RowsAge BY <2>1, RowsStand DEF retention
    <3> QED BY <2>1, <3>1, NoRunMoves DEF retention, RetentionInv
  <2> QED BY <2>1, BeginKeeps, SelectKeeps, DeleteKeeps, FailKeeps, DayKeeps, ChangePlanKeeps, RemoveProjectKeeps
         DEF RetentionNext
<1> QED BY <1>1, RetentionStarts, PTL DEF RetentionSpec

(* Only the statement of a run takes a row while that run moves, and it takes   *)
(* those it has picked.                                                         *)
LEMMA TakenIsPicked ==
  ASSUME RetentionInv, [RetentionNext]_retention, NEW p \in Process, NEW r \in Row,
         batch'[p] # batch[p], Stored(r), days'[r] = Deleted
  PROVE  days[r] > RETENTION_DAYS[batch[p].plans[OwnerOf[r]]]
<1>1. UNCHANGED days \/ UNCHANGED batch \/ \E q \in Process : Delete(q)
  BY DEF RetentionNext, retention, Begin, Select, Fail, Day, ChangePlan, RemoveProject
<1>2. PICK q \in Process : Delete(q) BY <1>1 DEF Stored
<1>3. q = p BY <1>2 DEF Delete, RetentionInv
<1>4. batch[p].pc = "delete" /\ r \in batch[p].ids BY <1>2, <1>3 DEF Delete, Stored
<1>5. Outlived(days, r, batch[p].plans[OwnerOf[r]]) BY <1>4 DEF RetentionInv, RunHolds, PickedAreOld
<1> QED BY <1>5 DEF Outlived, Stored

(* No run of any process deletes an event or a rejection before the days of the *)
(* plan have passed that its organization had as the statement started: the     *)
(* batches of retention, plan by plan, at whatever pace.                        *)
THEOREM RowsAreKept == RetentionSpec => KeptItsTime
<1>1. RetentionInv /\ [RetentionNext]_retention =>
        [\A p \in Process, r \in Row :
           batch'[p] # batch[p] /\ Stored(r) /\ days'[r] = Deleted
             => days[r] > RETENTION_DAYS[batch[p].plans[OwnerOf[r]]]]_retention
  BY TakenIsPicked
<1> QED BY <1>1, RetentionInvariant, PTL DEF RetentionSpec, KeptItsTime

=============================================================================
