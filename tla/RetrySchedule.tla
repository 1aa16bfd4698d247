---------------------------- MODULE RetrySchedule ----------------------------
(* When a delivery that keeps failing is tried again, in seconds: the rule of   *)
(* its connection, the jitter, the Retry-After of the destination and the two   *)
(* limits of retry-schedule.ts.  Time starts with the first attempt, and an     *)
(* attempt takes none: what queue and worker add is in DeliveryPipeline.        *)
EXTENDS Integers

CONSTANTS
  Rules,   \* retry rules of connections, [strategy, interval, count]
  Randoms, \* what the worker draws for the jitter, in percent
  Replies, \* for each connection, what its destination writes into Retry-After
  Edits,   \* what an update of the connection sends: the fields it names
  Changes, \* bound: updates in the life of the delivery
  Never

Strategies == {"linear", "exponential"}

ASSUME ScheduleAssumption ==
  /\ Rules \subseteq [strategy : Strategies, interval : Nat, count : Nat]
  /\ \A edit \in Edits : /\ "strategy" \in DOMAIN edit => edit.strategy \in Strategies
                         /\ \A f \in DOMAIN edit \cap {"interval", "count"} : edit[f] \in Nat
  /\ \A values \in Replies : \A value \in values :
       /\ value[1] = "seconds" => value[2] \in Nat
       /\ value[1] = "date" => value[2] \in Int
  /\ Randoms \subseteq 0 .. 100 /\ Never \notin Int /\ Changes \in Nat

VARIABLES
  rule, replies,  \* of this connection, and of its destination
  changes,        \* how often the rule was updated
  loaded,         \* the rule as the worker read it for this attempt
  stage,          \* "waiting", "sending" or "dead"
  clock,          \* seconds since the first attempt
  retriesDone,
  announced,      \* X-Hookbuffer-Will-Retry-After of the latest attempt, or Never
  reply,          \* Retry-After of its answer
  next            \* when the next attempt is due

schedule == <<rule, replies, changes, loaded, stage, clock, retriesDone, announced, reply, next>>

MAX_RETRIES == 50
MAX_RETRY_WINDOW == 7 * 86400

(* What a connection has unless it sets its own.                                *)
DefaultRule == [strategy |-> "exponential", interval |-> 300, count |-> 9]

Smaller(a, b) == IF a < b THEN a ELSE b

(* The interval doubled k times; from twice the window on it stays (bound).     *)
Doubled(interval, k) ==
  LET d[i \in 0 .. MAX_RETRIES] == IF i = 0 THEN interval ELSE Smaller(2 * d[i - 1], 2 * MAX_RETRY_WINDOW) IN d[k]

baseDelayDoubledAtOnce(r, retryNo) == IF r.strategy = "linear" THEN r.interval ELSE Doubled(r.interval, retryNo)
baseDelay(r, retryNo) == IF r.strategy = "linear" THEN r.interval ELSE Doubled(r.interval, retryNo - 1)

withJitterOnTop(delay, random) == (delay * (100 + (40 * random) \div 100) + 50) \div 100
withJitter(delay, random) == (delay * (80 + (40 * random) \div 100) + 50) \div 100

(* Seconds or a date; what is absent, or looks like some other number, is none. *)
retryAfter(value, now) ==
  CASE value[1] = "seconds" -> value[2]
    [] value[1] = "date" -> IF value[2] > now THEN value[2] - now ELSE 0
    [] OTHER -> Never

Exhausted(r, done) == done >= Smaller(r.count, MAX_RETRIES)

nextAttemptAt(r, done, now, value, random) ==
  LET wanted == retryAfter(value, now)
      at == now + (IF wanted = Never THEN withJitter(baseDelay(r, done + 1), random) ELSE wanted) IN
  IF Exhausted(r, done) \/ at > MAX_RETRY_WINDOW THEN Never ELSE at

willRetryAfterSec(r, done) == IF Exhausted(r, done) THEN Never ELSE baseDelay(r, done + 1)

-----------------------------------------------------------------------------
ScheduleInit ==
  /\ rule \in Rules /\ replies \in Replies /\ changes = 0 /\ loaded = rule
  /\ stage = "waiting" /\ clock = 0 /\ next = 0
  /\ retriesDone = 0 /\ announced = Never /\ reply = <<"absent">>

Attempt ==
  /\ stage = "waiting"
  /\ stage' = "sending" /\ clock' = next
  /\ loaded' = rule
  /\ announced' = willRetryAfterSec(rule, retriesDone)
  /\ UNCHANGED <<rule, replies, changes, retriesDone, reply, next>>

FailAttempt(value, random) ==
  /\ stage = "sending"
  /\ reply' = value
  /\ next' = nextAttemptAt(loaded, retriesDone, clock, value, random)
  /\ IF next' = Never THEN stage' = "dead" /\ UNCHANGED retriesDone
     ELSE stage' = "waiting" /\ retriesDone' = retriesDone + 1
  /\ UNCHANGED <<rule, replies, changes, loaded, clock, announced>>

(* The fields an update leaves out stay, and so does the retry that is due.     *)
UpdateRule(edit) ==
  /\ stage # "dead" /\ changes < Changes
  /\ rule' = [f \in DOMAIN rule |-> IF f \in DOMAIN edit THEN edit[f] ELSE rule[f]]
  /\ changes' = changes + 1
  /\ UNCHANGED <<replies, loaded, stage, clock, retriesDone, announced, reply, next>>

ScheduleNext ==
  \/ Attempt
  \/ \E value \in replies, random \in Randoms : FailAttempt(value, random)
  \/ \E edit \in Edits : UpdateRule(edit)

ScheduleSpec == ScheduleInit /\ [][ScheduleNext]_schedule

-----------------------------------------------------------------------------
(* What an attempt announced to its destination is what happens, but for the    *)
(* jitter of a fifth, rounded, unless the destination asked for another time or *)
(* the week is over.  Without an announcement there is no further attempt.  A   *)
(* rule that is updated during the attempt or after it changes nothing of that. *)
AnnouncedIsKept ==
  LET fifth == (announced + 4) \div 5 IN
  /\ stage = "waiting" /\ clock < next /\ retryAfter(reply, clock) = Never =>
       announced # Never /\ next - clock \in announced - fifth .. announced + fifth
  /\ stage = "dead" => announced = Never \/ retryAfter(reply, clock) # Never \/ clock + announced + fifth > MAX_RETRY_WINDOW

(* The default rule, left alone, gives up after about 1.8 days, as              *)
(* schema.prisma says, and the week never cuts it short.                        *)
DefaultTakesTwoDays ==
  stage = "dead" /\ rule = DefaultRule /\ changes = 0 /\ replies = {<<"absent">>} =>
    retriesDone = DefaultRule.count /\ 122640 <= clock /\ clock <= 183960

=============================================================================
