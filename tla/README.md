# Formal model of hookbuffer

hookbuffer receives webhooks for a source, stores them, and sends each one to the destinations
connected to that source, with retries, pauses, circuit breaking, a management API and a console around
it. This directory holds TLA+ modules translated from the TypeScript of `src/apps/backend` and
`src/apps/frontend`, configurations that check small instances with TLC, and proofs that TLAPS checks for
every instance. Paths below are relative to `src/apps/backend/src/modules`, those of pages, `auth/project.tsx`,
`layout` and `api/*.ts` to `src/apps/frontend/src`, unless they say otherwise.

## 1. Inventory

| Component | State it keeps | Operations | Model |
| --- | --- | --- | --- |
| Ingress (`ingress/`) | `event` and `delivery` rows, usage and rejection counters in Valkey, `rejected_request` rows | `receive` | `Ingress` |
| Webhook signatures (`ingress/domain/signature.ts`) | none; key and config of the source | `verifySignature` | `Signature` |
| Events and replay (`events/event.service.ts`) | the same as ingress | `replay`; list, get and body only read | `Ingress` |
| Retention (`events/retention.runner.ts`) | deletes events older than their plan keeps them | one timer | `Retention`; the deletion of an event also as `Expire` in `DeliveryJobs` and `Ingress` |
| Delivery rows (`deliveries/adapters/prisma-delivery*.ts`) | `delivery`, `delivery_attempt` | `load`, `recordAttempt`, `close`, `defer`, `findStale`, `markRetry`, `markBulkRetry`, `cancel` | `DeliveryStore`, the signing secret in `Projects` |
| Delivery queue (`deliveries/adapters/valkey-delivery.queue.ts`) | a Stream with one consumer group, the sorted set `delivery:scheduled` | `enqueue`, `read`, `reclaim`, `ack`, `schedule`, `takeDue`, `unschedule` | `DeliveryQueue` |
| Delivery worker (`deliveries/delivery.worker.ts`) | what a call of `process` has read so far | `process` | `DeliveryWorker` |
| Delivery runner (`deliveries/delivery.runner.ts`) | nothing besides its timers | consume, reclaim, scheduler, sweeper, `handle` | `DeliveryWorker`, `DeliveryJobs`, `DeliveryPipeline` |
| Delivery API (`deliveries/delivery.service.ts`) | nothing of its own | retry, bulk retry, cancel; list and get only read | `DeliveryJobs` |
| Destination guard (`deliveries/adapters/valkey-destination.guard.ts`) | slots of a semaphore, failures, `open` and `probe` keys | `circuit`, `acquire`, `release`, `recordSuccess`, `recordFailure` | `DestinationGuard` |
| Retry schedule (`deliveries/domain/retry-schedule.ts`) | none | `nextAttemptAt`, `willRetryAfterSec` | `RetrySchedule`; its outcomes in `DeliveryWorker` |
| Destination client (`deliveries/adapters/node-destination.client.ts`) | a promise settled once among events | `send` | `DestinationClient`; its contract in `DestinationGuard` |
| Access (`auth/auth.guard.ts`, controllers) | `request.actor` | `canActivate` | `Roles`, `Access` |
| Members and invitations (`members/`, `invitations/`) | `organization_member`, `invitation` | change role, remove, leave; invite, cancel, accept | `Members` |
| Projects (`projects/`) | `project`, its signing secret | create, remove, get and rotate the secret; rename | `Projects`; names left out |
| Sources, destinations, connections | one row each, foreign keys between them | create, update, pause, unpause, remove | `Endpoints`; deletion under webhooks and deliveries in `Ingress` and `DeliveryJobs`; retry settings in `RetrySchedule`; slugs, names left out |
| Sign-in (`auth/auth.service.ts`) | `user`, `user_identity`, first organization | `loginWithGoogle` | `SignIn` |
| Organizations, usage, rejected requests | a name; what ingress writes | rename; reads | the counter in `Ingress`, the screens in `Screens` |
| Console: session, project, navigation (`auth/project.tsx`, `layout`, `api/client.ts`) | address, query cache, selected project, token | navigation, sign-in, operations and what they have read again | `Console` |
| Console: pages and sheets (`pages/`) | what a page reads and offers | one entry per page and sheet | `Screens`, `Console` |
| Console: forms | rows of the form of a destination | edit, submit | `Forms` |
| Delivery request, private addresses, encryption, validation, pagination | none | pure functions | not modelled |
| Landing page, widgets, deployment | none | | not modelled |

How they interact. Ingress commits an event and its deliveries to Postgres in one transaction and then
tells the queue; the caller is answered 200 whether or not that succeeds. Consumer processes read the
Stream in batches of ten and handle the batch concurrently: load the row, ask the guard, send, record
the outcome on the row, put a retry into the sorted set, acknowledge. Timers of every process move what
is due from the sorted set to the Stream, take over messages of processes that died, and enqueue rows
that nobody has touched for long. The management API admits a request once and then runs its statements
one by one; what counts rows before it adds one takes the lock of the organization's row; some of it also tells
the queue. Postgres and Valkey share no transaction, so every one of these is a row of steps with other actors in between.
The console keeps what it has read in a cache, acts on what it shows, and has lists read again when an
operation is through, while earlier answers may still be under way.

What is hard. Any await lets every other actor run; a process can die at each; a command in an ioredis
pipeline can fail without anyone being told; a message is delivered again when its worker is slow; a
timer may act on what it listed long ago; a worker decides on a row it read before the request went out, a
handler on a role it read before its statements, a page on a list it read before somebody changed it.
`PROJECT.json` lists each hazard at its line with the property that watches it.

What makes each component correct:

- *Delivery pipeline*: whatever is duplicated or lost, attempts are numbered without a gap, the retry
  budget is kept, what is over stays over, and nothing is forgotten.
- *Destination guard, client, schedule*: never more requests at once than the destination allows; no destination
  is shut out for good; every request gets one result and never a truncated one for a whole; what was announced is kept.
- *Ingress*: the free plan's limit holds, every stored event is billed, a webhook that was answered is
  stored with a delivery to send, and a webhook is queued once however often it is received. No webhook is lost
  while keys change.
- *Management*: one owner, no project, source or destination beyond the plan, no seat given on the free plan, nobody in without an
  invitation that is there, no organization touched by somebody else's request, no key of a project replaced but by rotation, no
  half-configured source, no connection across projects, one user per Google account.
- *Console*: what was done is shown, what is acted on is what was looked at, and what is offered is allowed.

## 2. Modules

| Module | Models | Corresponds to |
| --- | --- | --- |
| `DeliveryTypes` | triggers and the clock | `AttemptTrigger`, `next_attempt_at`, `updated_at` |
| `DeliveryStore` | rows; each operator on a row is the `where` and `data` of one statement | the two Prisma repositories |
| `DeliveryQueue` | Stream and sorted set; one operator per command | `valkey-delivery.queue.ts` |
| `DeliveryWorker` | one call of `handle`/`process`; one action per await | `delivery.worker.ts`, `delivery.runner.ts` |
| `DeliveryJobs` | ingress' enqueue, scheduler, sweeper, API calls, retention | `delivery.runner.ts`, `delivery.service.ts`, `connection.service.ts` |
| `DeliveryPipeline` | composition of the above, mishaps, fairness, properties | |
| `DeliveryLifecycle` | abstract: which status may follow which, what an attempt is | `DeliveryStatus` in `prisma/schema.prisma` |
| `DestinationGuard` | semaphore and circuit breaker of one destination | `valkey-destination.guard.ts`, `circuit-state.ts`, `delivery.worker.ts` |
| `Ingress` | webhooks, replays, counters, deletions | `ingress.service.ts`, `event.service.ts`, their adapters |
| `Signature` | verification of a webhook, and a sender that changes its keys | `ingress/domain/signature.ts` |
| `DestinationClient` | one request: lookup, timer, socket and body events | `node-destination.client.ts` |
| `RetrySchedule` | when a delivery that keeps failing is tried again, in seconds | `retry-schedule.ts` |
| `Retention` | one run of the timer in several processes, statement by statement | `retention.runner.ts`, `prisma-retention.repository.ts` |
| `Roles`, `Access` | who is admitted to which route; members, projects and the organization's lock that the next three share | `auth/domain/role.ts`, the controllers, `auth.guard.ts` |
| `Members` | roles, invitations | `member.service.ts`, `invitation.service.ts`, their adapters |
| `Projects` | projects and signing secrets | `project.service.ts`, its adapter, `prisma-delivery.repository.ts` |
| `Endpoints` | sources, destinations, connections | their services and adapters |
| `Management` | composition of these three: a project that goes takes its endpoints along | the management API |
| `SignIn` | sign-in with Google | `auth.service.ts`, `google-login.ts`, `prisma-account.repository.ts` |
| `Screens` | each page and sheet: what it reads, offers and has read again | `pages/`, `App.tsx` |
| `Console` | one tab: address, query cache, operations under way, against a server | `auth/project.tsx`, `layout/AppShell.tsx`, `api/` |
| `Forms` | editing the headers of a destination | `pages/destinations/`, `destinations/domain/headers.ts` |
| `DeliveryPipelineProofs` | the inductive invariant of the pipeline | |
| `DeliveryLifecycleProofs` | the pipeline implements the lifecycle | |
| `DestinationGuardProofs` | requests hold slots, and so stay within the limit | |
| `ReceivingProofs` | the invariants of ingress and of signatures | |
| `SendingProofs` | the invariants of client, schedule and retention | |
| `ManagementProofs`, `SignInProofs` | the invariants of management and of sign-in | |
| `ConsoleProofs` | the inductive invariant of a tab, over all pages, operations and upsets | |
| `MC*` | symmetry, views and the constants a .cfg cannot write | |

State and code. `row[d]` is a delivery row: `status`, `attempt`, `due` (`next_attempt_at`) and `age` (ticks
since `updated_at`); `"gone"` is a deleted row. `stream[m]` is a Stream entry; `times` is XPENDING's delivery
count, 0 while unread, so the entries with `times > 0` are the pending list. `scheduled[d]` is a score of
the sorted set. `worker[w].pc` is the await a call stands at: `load`, `guard`, `defer`, `send`, `record`,
`schedule`, `close`, `ack`; `worker[w].attempt` is the attempt number it read, which the statement of
`recordAttempt` compares with the row again. `job[j].pc` is the same for a timer run or an API call. An actor
that fails or is killed forgets what it knew (`Abandon`, `AbandonJob`); `LoseNew` and `LoseNext` are the XADD
that fails without anyone noticing. `asked`, `made`, `answered` and `probing` are history variables: no action
of the code reads them.

In management, `member[o][u]` is a membership with its role, `invitation[o][u]` the row of the invitation of an
address, which stays when it has expired, `home[p]`, `source[s]`, `destination[d]` and `connection[s, d]` the rows with their foreign keys, `locked[o]` the
`SELECT ... FOR UPDATE` on the organization. `call[c].pc` is the statement a request stands at, and the other fields
are what it has read: the role of its actor, the project of its path, a count. A transaction that counts and inserts is two
steps under the lock, because READ COMMITTED lets others commit in between; a single statement, and an interactive
transaction whose first statement locks the row it needs, is one step. `legacy`, `rotated`, `used` and `proven` are history.

In the console, `cache[k]` is the data of a query key, `flying[k]` its fetch, `call[c]` a mutation with what its
`onSuccess` still has to read again, `ui` the address, the selected project and what is chosen in a dialog, `dialog` the operation
an open dialog asks to confirm (`Ask`, `Dismiss`, `Confirm`). The button that opens it looks at row, project and role, the one
that confirms at nothing; the request takes row and project as they are at that click, and `asked` and `as` keep what they were at
the first. Such a dialog goes with its component only (`Stands`): a sheet with its row, the settings of a project, which have a `key`,
with the project. Dialogs with a form of their own (a new source, a new project) are one step with their submit, because all they
need is looked up when they submit. What is read of a list or a row is the number of the last change that touched it, so that
`OwnChangesShow` compares an answer with a change. `own[k]` is history. TanStack Query, Google and the senders of webhooks are not in the repository: they are
modelled from how the code uses them, and marked external in the map.

Time. Clocks are kept as distances from now, so that no horizon is needed: a timestamp in the future is a
positive number of ticks and decreases with `Tick`, one in the past stops at the age after which the code
tells no difference. In the guard, `Tick` waits for a request whose timeout has been reached.

Abstractions. The order of Stream entries is dropped, because a batch is handled concurrently and by
several processes. The guard is, for the pipeline, a choice between admit and refuse; the destination is a choice between
success and failure; backoff, jitter and `Retry-After` are a set of waits and the seven-day window is the
choice of no further attempt. XPENDING and XCLAIM are one step, because XCLAIM tests the idle time again.
In ingress names, bodies, signatures and headers are left out, except for the idempotency key. A signature is
the key and what was signed, and no two of them are equal by chance. An email address stands for its user, a link for the
invitation it is for, and one row stands for a list in the console. `project.suspended_at`
is read in three places and written by nothing in the backend: no reachable state has it set, so neither
worker nor ingress looks at it here.

## 3. Runs

| Run | Checks | On |
| --- | --- | --- |
| `workers` | `AttemptsNumbered`, `RetryBudget`, `TakenOnce` | two workers, two messages of one delivery, two schedulers, two retries |
| `clients` | `TypeOK`, `ClosedStaysClosed`, `ImplementsLifecycle` | a worker and two concurrent API calls, with a retry, a user's retry, retention and mishaps |
| `recovery` | `OpenOnlyWhileDeferred` (liveness) | worker, scheduler and sweeper under every mishap |
| `ingress` | `StoredWithinPlan`, `StoredIsCounted`, `AnsweredIsStored`, `QueuedOnce`; `RotationLosesNothing` | two concurrent requests, two webhooks, a replay, two connections; a sender with three keys |
| `sending` | `SendsWithinLimit`, `SlotsCoverRequests`, `GuardNeverShutOut` (liveness); `NeverInside`, `AnswerIsWhole`, `ClientSettles` (liveness); `AnnouncedIsKept`, `DefaultTakesTwoDays`; `KeptItsTime`, `ExpiredGoes` (liveness) | two workers before a destination that allows one request; one request with any kind of address; the default rule and three others, updated once; two processes that delete the rows of two organizations |
| `management` | `OneOwner`, `TenantIsolation`, `JoinConsumesInvitation`, `OnlyChangeRoleChangesRoles`, `FreeSeatsNeverGrow`; `ProjectsWithinPlan`, `CreatedSecretIsKept`; `EndpointsWithinPlan`, `BothOrNeither`, `JoinsOneProject`; `OneUserPerGoogleAccount`, `LinkedByProof`, `NobodyHalfSignedUp` | two requests at once of two users to two organizations, with invitations left from before a downgrade and such that expire; two sign-ins of two Google accounts and two addresses |
| `console` | `OwnChangesShow`, `ActsInItsProject`, `OnlyDemotedAreForbidden` | a tab, two projects, up to two operations under way, dialogs left open meanwhile |
| `held`, `removed`, `probe`, `usage`, `headers` | one finding each | see section 5 |

`ingress`, `sending`, `management` and `console` consist of scenes: an initial state chooses one, and what belongs to the others
stays as it is. Components in one module share state only within a scene, so a scene leaves out nothing but products of
behaviours that do not meet. The scenes of `management` are the members and invitations, the projects with their secrets,
the creation and update of sources and destinations, the connections, and signing in; those of `console` are listed in
`MCConsole`, one for each group of pages somebody goes about on.

Each property of a passing run has, in `PROJECT.json`, a plausible mistake in a modelled definition that
makes TLC violate it; the mistaken form stands before the definition it replaces (`CanRecordOpen`,
`TakeListed`, `StalePending`, `HoldTimeout`, `JoinsAnew`, `RefetchJoined` ...) and nothing else uses it.

Bounds, and why they are enough.

- *One delivery* in the pipeline runs. Deliveries share no statement except those that name a set of them
  (release, bulk retry, touch), and these treat each member by its own row; connections are shared by
  reading only. The theorems of section 6 hold for any number.
- `MessageId`: entries in the Stream at a time. An id is used again once no call holds it, where the real
  ids are never repeated. Two of them let a delivery be queued twice and handled by two workers at once;
  one is enough where duplicates come from reclaiming. An enqueue waits when all ids are taken, so a run
  with one id does not explore a third copy of a message.
- `MaxAsked`: user retries of one delivery. One is enough to reopen what is closed while an earlier request
  is still under way.
- `StaleAge`, `ReclaimIdle`, `MaxWait`, `RetryWaits`, `DeferWaits`: one tick each. Every step may happen in between
  two ticks or after them, so the ratio of the real times, which the scheduling does not guarantee, is not
  relied upon: sweeper, reclaim and scheduler may overtake a slow worker.
- `RetryCount`: 1 or 2, that is two or three automatic attempts. `MaxDeliveries`: 1 or 2 in place of 5.
- `Limit`, `Timeout`, `Grace`, `Lag`, `Threshold`, `OpenFor`, `ProbeFor` of the guard: `Threshold` 2 so that a run of failures
  is more than one; `Lag < Grace` is the assumption the code makes by adding `SLOT_GRACE_MS`: two commands
  of which the second relies on the first are not further apart than that. Without it no bound on requests
  can hold. `Token`: a slot token is used again once nobody holds it.
- `Included`, `PerMinute`, `MaxUsed` of ingress: a plan of two events and one recorded rejection a minute,
  counters up to 3, so that the limits are met and passed.
- `SigningKey`, `Tolerance`: three keys are two rotations, so that a key is old, current and new; one tick within the
  tolerance and one beyond.
- `BodyLimit`, `MaxBody` of the client: two parts recorded of three, so a body can end below, at and beyond the limit.
- `Rules`, `Randoms`, `Replies` of the schedule: the default rule with no `Retry-After` (all nine retries, with the least,
  middle and greatest jitter), a linear one that ends by its count, and two of a day's interval that run into the week, against
  answers with none, an unreadable one, seconds and a date. `Edits`, `Changes`: one update, of the count alone or of
  strategy and interval, at any time before the delivery is over. `Doubled` stops doubling at twice the week.
- `Process`, `Row`, `BATCH`, `PLANS`, `RETENTION_DAYS`, `PlanChanges` of retention: two events and a rejection, a batch of one so
  that a full batch and a short one differ, two plans of one and two days, one change of plan. All rows start a day old, which
  is when the first of them may expire.
- `Request`, `Org`, `User`, `Project`, `Source`, `Destination` of management: two of each (one destination) make every pair of
  statements overlap, with a second organization, user and project to mistake for the first. The first organization may start with
  any invitations from before, and with more members than its plan has seats. `MaxInvitations` 1 makes one more; renewals, which
  add no row, are not bounded; `MaxSecrets` 3 leaves room for a created, a lazily made and a rotated key; `FreeEndpoints` is 1 where the code
  has more: what matters is one below, at and beyond the limit.
- `MaxChanges`, the moves and the calls at once of a scene in the console: two changes, two or three steps of the user and
  one or two operations, which is what it takes for an answer to be late and for the user to have left. Three scenes are there for
  dialogs: a project is made, and selected when that is through, while a replay or a cancel waits to be confirmed, and the role
  changes while a dialog of the settings does and a rename has the projects read again.

The pipeline's safety runs compare states by the view `ButTriggers`, which forgets why an attempt was made:
triggers steer nothing, so what a run checks does not depend on them. (The trigger part of
`TypeOK` is therefore checked on representatives only; the theorem `TypeCorrect` covers it.) `ingress`, `usage`,
`sending`, `management`, `console` and `headers` do not check for deadlock: at the bound of a counter, when a delivery is dead, when a
request has its result or when nobody moves any more, the model does stop.

Fairness. Nothing is assumed for safety. `Fairness` of the pipeline says what the code's scheduling
justifies: time passes, awaits resolve and interval timers fire (weak fairness of workers, scheduler,
sweeper and API calls); a read or a takeover that is possible again and again is made eventually (strong
fairness of `Receive`, since the loops repeat, also after an error); the sweeper's touch and an enqueue that
are possible again and again succeed eventually (strong fairness of `TouchStale` and `SendOut`: a command may
fail, not each time for ever); and a worker may be cut off whenever it processes a message, but not each time
it merely closes the delivery of a message that was handed out too often (`ClosePoisoned`; this is
what MAX_DELIVERIES is for). A client need not call, nobody needs to unpause, and a destination need not admit.
In the guard, workers take their steps and there is always another delivery (`FairSpec`); they may die
at any time, and `NeverShutOut` speaks of what happens once they have stopped doing so. In the client, the event
loop runs (`ClientFairness`): the synchronous part of `send` ends, an armed timer fires, and a destroyed request emits its event.
Neither the name server nor the destination need ever answer. Of retention, one process stays (`Staying`): its timer fires,
and a statement does not fail each time for ever (strong fairness of `Delete`, for each drain, because a run that fails
begins anew with the first); other processes may stop at any point. (`GuardNeverShutOut` and `ClientSettles` are `NeverShutOut` and
`SendSettles` in their scenes, under these assumptions.) Nothing is assumed of the console and of management. `SmoothFairSpec`, for
findings, adds that nothing goes wrong at all: what fails there fails on the good path.

## 4. What the properties say

- `AttemptsNumbered`, `RetryBudget`: the statement of `recordAttempt` (`where attempt = before, status in OPEN`) is
  what makes duplicates harmless; the budget is `RetryCount + 1` attempts plus one for each time a user asked.
- `TakenOnce`: of the schedulers that listed a due delivery, one takes it: the one whose ZREM removed it.
- `ClosedStaysClosed`: no result, deferral, release or close that was decided on an older reading of the row
  reopens or relabels what is over.
- `ImplementsLifecycle`: the pipeline refines `DeliveryLifecycle`.
- `OpenOnlyWhileDeferred`: every delivery is finished, held or deleted in the end, unless its destination is active
  and turns it away again and again for ever. Lost commands and dying processes are made up for by reclaim
  and sweeper.
- `SendsWithinLimit`, `SlotsCoverRequests`: a slot outlives its request although it expires on its own and its
  worker may have died.
- `GuardNeverShutOut`: no slot and no probe left behind blocks a destination for good.
- `StoredWithinPlan`, `StoredIsCounted`: the limit of the free plan holds under concurrency, and nothing is stored that was not
  counted. `AnsweredIsStored`: whoever was answered 200 can rely on an event that is stored with a delivery to send, until retention
  deletes it. `QueuedOnce`: copies
  of a webhook and repeated replays put a delivery into the queue once.
- `RotationLosesNothing`: a webhook is accepted exactly if one of its signatures, wherever it stands among others and other
  text, is by the key the source has when it arrives, and it is whole and in time. So it is refused in a rotation only if it
  was signed before the new key existed and arrives after the customer entered that.
- `NeverInside`, `AnswerIsWhole`, `ClientSettles`: whichever event comes first, a name with one inner address among others is
  not connected to, a response that broke off is no answer, and the worker gets its result.
- `AnnouncedIsKept`, `DefaultTakesTwoDays`: what `X-Hookbuffer-Will-Retry-After` announces is what happens, but for the jitter,
  unless the destination asks for another time or the week is over; the default rule makes all nine retries in 34 to 51 hours.
  Updating the rule in between changes neither what this attempt announced nor what follows from it.
- `KeptItsTime`, `ExpiredGoes`: nothing is deleted before its organization's plan of that moment allows it, though the runs work on
  cutoffs they took before; and all that has expired goes in the end, though a run leaves rows behind when a batch comes
  back short or a statement fails.
- `OneOwner`, `OnlyChangeRoleChangesRoles`, `JoinConsumesInvitation`: roles read before a statement and links read before an accept make
  nobody owner, demote nobody and let nobody in without an invitation that is there at that moment.
- `TenantIsolation`: only requests admitted to an organization, or invited to it, change its members and invitations.
- `FreeSeatsNeverGrow`: nobody is invited to an organization of the free plan, whose one seat is its owner's. After a downgrade it may have
  more members, and invitations that are still out. Those members are turned away, and the members and invitations change
  only through the owner's requests or when one of those invitations is accepted: `accept` does not look at the plan
  (`invitations/invitation.service.ts:50-58`), so members alone may still become more. Members and invited together never do.
- `ProjectsWithinPlan`, `EndpointsWithinPlan`: the lock of the organization's row makes count and insert one.
- `CreatedSecretIsKept`: the lazy creation of a key that two requests may run into at once never replaces the key a project was
  created with. For projects from before there were keys it may: the first delivery can be signed with a key that is then
  overwritten. (No property says they keep it; nothing in the repository promises it.)
- `BothOrNeither`, `JoinsOneProject`: the CHECK and the foreign keys of the tables make up for what is read in one statement and
  relied on in another.
- `OneUserPerGoogleAccount`, `LinkedByProof`, `NobodyHalfSignedUp`: sign-ins that decide on what they looked up before fail on a
  unique index and leave nothing, or agree.
- `OwnChangesShow`: once an operation is through, what it promised the screen it was done on shows it, although a fetch that was under
  way when it began may be answered later. `Promised` says what that is: what the operation changed of the lists and rows on the screen.
  The code makes four exceptions, which are in the definition: a list or row still in its first fetch when the
  operation is answered keeps that fetch, since `invalidateQueries` begins only those anew that have data
  (`pages/sources/SourcesPage.tsx:53`); a usage page does not list a project just made; the sheet of a delivery is not read again after a
  bulk retry; and a sheet of a delivery that is drawn for another project by then has the row of that project read again.
- `ActsInItsProject`: an operation on a row names the row whose button was clicked, and the project the row is in, although lists keep the
  rows of the last project while they read those of the next. The dialogs of events and deliveries are the exception: they stay
  open when a project just made is selected (`auth/project.tsx:53`), and the replay or cancel then goes out under that project, where the
  server does not find the row (`pages/events/EventSheet.tsx:61`, `pages/deliveries/DeliverySheet.tsx:74`).
- `OnlyDemotedAreForbidden`: what the console offers by the role it has read, the guard admits unless that role has changed since it was
  offered. And unless the console knew the new role when it sent the request: only dialogs of the settings stay
  open, and work, when the role is read anew (`pages/settings/ProjectSettingsPage.tsx:121`, `pages/org/OrgSettingsPage.tsx:244`).
  (Everybody is offered to make a project, which a member is then refused.)

## 5. Findings

1. `held`: a worker that has loaded a paused connection closes the delivery as held after the unpause has
   looked for held ones. Nothing looks again; the delivery stays held on an active connection
   (`delivery.worker.ts:43`, against `schema.prisma:54` and `delivery.worker.ts:41`).
2. `removed`: a held delivery of a deleted connection is never closed: it is in no queue, so the worker that
   would cancel it never sees it, and the sweeper looks at pending and failed rows only
   (`prisma-connection.repository.ts:55`, against `schema.prisma:305`).
3. `probe`: the failure of a request sent before the circuit opened deletes the probe key of another
   worker, and two workers probe a half-open destination at once (`valkey-destination.guard.ts:68`, against
   `ports/destination.guard.ts:1` and `circuit-state.ts:5`).
4. `usage`: a webhook rejected because the plan is used up stays in the usage counter
   (`ingress.service.ts:92`, against `usage.service.ts:15` and `ingress.service.ts:72`).

5. `headers`: the form of a destination starts from the masked headers of the response and sends all of them, and the update
   stores them in place of what there was: a secret nobody touched becomes its mask
   (`pages/destinations/DestinationForm.tsx:28` and `destinations/destination.service.ts:40`, against `DestinationForm.tsx:11`).

Noted while reading, and no property:

- a delivery deferred before its first attempt is recorded with trigger `automatic` (`delivery.runner.ts:67`; `schema.prisma:70` calls
  that an automatic retry), and a duplicate message of a `failed` delivery sends its retry before its time;
- who follows a link while the invitation is renewed with another role joins with the old one: `accept` deletes the row by its id
  and uses the role that was read before;
- the further pages of a list are read from the cursors of an earlier reading (`pages/events/EventsPage.tsx:37`), so what came in
  since pushes rows out of the first page that no other page has;
- an invitation pending when an organization is downgraded can be accepted afterwards; who accepts it becomes a member who is then turned away
  for the plan (see `FreeSeatsNeverGrow`);
- a dialog of the console that asks to confirm outlives the project or the role it was opened with (see `ActsInItsProject` and
  `OnlyDemotedAreForbidden`), and a list in its first fetch is not read again after a change (see `OwnChangesShow`);
- a 401 of the sign-in itself makes `api/client.ts:17` load the login page again, which drops the message the page has just shown;
- a webhook forwarded by another hookbuffer keeps those of its `X-Hookbuffer-*` headers this delivery has no value for
  (`deliveries/domain/delivery-request.ts:76`).

## 6. Proofs

Every safety property of the passing runs is a theorem: for any sets of deliveries, workers, timers, requests, users, organizations, rows, keys and
addresses and any values of the numeric constants. The runs check some of the properties in scenes; the theorems are about the whole of
`Spec` (of pipeline, guard and ingress), `SignatureSpec`, `ClientSpec`, `ScheduleSpec`, `RetentionSpec`, `ManagementSpec`, `SignInSpec` and
`BrowserSpec`, which is the console with every page, operation and upset at once.

| Theorem | States |
| --- | --- |
| `TypeCorrect`, `AttemptsAreNumbered`, `RetriesStayInBudget`, `DueIsTakenOnce` | `Spec =>` `[]TypeOK`, `[]AttemptsNumbered`, `[]RetryBudget`, `TakenOnce` |
| `PipelineImplementsLifecycle`, `ClosedIsFinal` | `Spec =>` `ImplementsLifecycle`, `ClosedStaysClosed` |
| `GuardIsTyped`, `RequestsHoldSlots`, `ConcurrencyIsKept` | `Spec =>` `[]TypeOK`, `[]SlotsCoverRequests`, `[]SendsWithinLimit` |
| `FreePlanIsKept`, `EventsAreBilled`, `AcceptedIsStored`, `CopiesQueueOnce` | `Spec =>` `[]StoredWithinPlan`, `[]StoredIsCounted`, `[]AnsweredIsStored`, `[]QueuedOnce` |
| `KeysRotateSafely` | `SignatureSpec => []RotationLosesNothing` |
| `InnerAddressesAreShut`, `AnswersAreWhole` | `ClientSpec =>` `[]NeverInside`, `[]AnswerIsWhole` |
| `AnnouncementsAreKept`, `DefaultLastsTwoDays` | `ScheduleSpec =>` `[]AnnouncedIsKept`, `[]DefaultTakesTwoDays` |
| `RowsAreKept` | `RetentionSpec => KeptItsTime` |
| `OwnersAreKept`, `ProjectsStayWithinPlan`, `EndpointsStayWithinPlan`, `SourcesAreWhole`, `ConnectionsJoin`, `KeysStay` | `ManagementSpec =>` `[]OneOwner`, `[]ProjectsWithinPlan`, `[]EndpointsWithinPlan`, `[]BothOrNeither`, `[]JoinsOneProject`, `[]CreatedSecretIsKept` |
| `TenantsAreIsolated`, `FreeSeatsStay`, `JoiningTakesAnInvitation`, `RolesAreChangedOnPurpose` | `ManagementSpec =>` `TenantIsolation`, `FreeSeatsNeverGrow`, `JoinConsumesInvitation`, `OnlyChangeRoleChangesRoles` |
| `TokensAreForOneUser`, `AccountsAreProven`, `SignUpsAreWhole` | `SignInSpec =>` `[]OneUserPerGoogleAccount`, `[]LinkedByProof`, `[]NobodyHalfSignedUp` |
| `ChangesAreShown`, `RowsKeepTheirProject`, `OffersAreAllowed` | `BrowserSpec =>` `[]OwnChangesShow`, `[]ActsInItsProject`, `OnlyDemotedAreForbidden` |

Assumptions. Only the named ones of the modules, each evaluated by TLC in a passing run. Most give a constant its type, or
say that a value that stands for "nothing" is none of the things (`NoMessageAssumption`, `SignInAssumption`, `ConsoleAssumption` ...). Four say more: in
`PipelineAssumption` schedulers are finitely many and their timer does nothing else, in `AccessAssumption` and `EndpointsAssumption`
users, projects, sources and destinations are finitely many, because limits count them; in
`GuardAssumption` `Lag < Grace`, which section 3 explains; and in `ScheduleAssumption` jitter is a percentage.

The inductive invariants, and why the properties alone are not inductive:

- *Pipeline*, `PipelineInv`: types, numbering and budget. `RetryBudget` alone is not
  inductive: a worker may be about to record a failure "to be retried" on an attempt number it read long
  ago, and a row that is still undecided may be attempted once more. `WorkersWithinBudget` says of the first
  that the number it read was below `RetryCount`, `RowsWithinBudget` of the second that the row has an attempt left.
  The typing of a row needs `WorkersWithinBudget` too: what a worker is about to write is a status only
  because of how it got to `record` or `close`. Each proof first reduces a step to who writes what (`WritesToTheStore`,
  `WritesToTheQueue`, `WritesToTheWorkers`), then goes through these writers one by one.
- *Lifecycle*. The refinement follows the same list: `recordAttempt` is `Try`, `close` is `CloseUntried`, a cancel is
  `CloseUntried` or `CancelHeld`, a release is `Resume`, the retries are `Again`, retention is `Delete`, and deferring, touching and
  the clock are stutters. `ClosedIsFinal` then follows from the refinement. `DueIsTakenOnce` needs no invariant but the types: one
  scheduler's step changes one scheduler's list, and it adds only what it removed (`SchedulersSchedule`).
- *Guard*, `GuardInv`: the requests on the wire have slots because each keeps a token of its own (`HoldersHaveTokens`) and its
  timeout ends it before the slot does (`RequestsAreTimed`); a slot is given only while fewer than `Limit` are live, so there are no more
  requests than that.
- *Ingress*, `IngressInv`: a request between its count and its insert has a place (`PlacesAreCounted`: it and those already stored are
  within the plan, and counted), and of the copies of a webhook one at most has anything to queue, all of it unqueued
  (`OneEnqueues`).
- *Signatures*, `SignatureInv`: a sender has one key or two, and a webhook under way carries the signatures of exactly the keys that it
  was signed with (`UnderWay`).
- *Client*, *schedule*, *retention*. `ClientInv` is the types and the two properties. `ScheduleInv` adds that an answer is
  judged by the rule the announcement was made from, at the time the attempt was due (`HeldWhileSending`), and that a rule never updated is the one
  the worker has read (`ReadWhatIsThere`). For `DefaultLastsTwoDays` the waits are bounded retry by retry
  (`DefaultOnTime`), which unfolds the recursive function `Doubled`; that it is defined at every number is an induction on the
  well-founded order of the naturals, stated on sets (`SetInduction`). `RetentionInv`: the cutoffs a run took only get older, so what it
  picked stays old enough.
- *Management*, `ManagementInv`: who is about to be demoted or removed is no owner (`NoOwnerIsTarget`); in an organization of the free plan only
  the owner's requests get past the seats (`FreeIsInCharge`), and since whoever counts them counts the owner, nobody is invited anew
  (`NobodyIsInvitedAnew`); what the holder of the lock has counted is still true, because all others that insert wait for it
  (`CountsAreKept`); the ends a request has found are of one project as long as they are there
  (`EndsMeet`); a key is made lazily only for a project from before there were keys (`KeysAreKept`).
- *Sign-in*, `SignInInv`: what a call has looked up stays true until it has its token (`ReadingsHold`), since identities are added under a
  unique index and never changed.
- *Console*, `ConsoleInv`: everything on the screen is cached, being fetched or failed; what is cached shows one's own changes unless it is being read again or a
  call that is not through still owes it (`Shows`, `CallOwes`); a call names the row it was offered for, and the project
  and role but for the exceptions of section 4 (`CallKept`, `Offers`); and an open dialog belongs to the sheet or the settings that
  are on the screen (`DialogHolds`), which is why confirming it sends what it asked. The lemmas
  before it go through the tables of `Screens` and `Roles` page by page and route by route (`PageOps`, `SheetOps`, `PageReads`, `RoutesAsk` ...), so a page that
  forgot to read something again would fail there.

`AnnouncedIsKept` took its present form in the proof: `withJitter` rounds to whole seconds, so the next attempt may be off by a fifth of the wait
*rounded up*, and in the bound of the week too.

Only model-checked: liveness (`OpenOnlyWhileDeferred`, `GuardNeverShutOut`, `ClientSettles`, `ExpiredGoes`), which needs fairness and `ENABLED` and is
out of the prover's reach. The findings are counterexamples and have nothing to prove.

## 7. Plan

Done: the delivery pipeline with its abstract specification; guard, client, schedule and retention; ingress and signatures;
management and sign-in; the console; proofs of all their safety properties.

Next, in this order:

1. Changing concurrency and timeout of a destination while requests are under way.
2. An abstract specification of ingress (a webhook is counted, stored and queued in one step or not at all, up to failures), shown to be
   implemented.
3. Two deliveries on two connections in a pipeline run, so that bulk retry and release handle sets (the theorems cover them).
4. Filters and further pages of a list in the console.

Not modelled, and not planned:

- the delivery request and the address table, encryption, validation and the format of cursors: functions of data without a state
  or an order, of which a model would be a copy;
- the landing page, prices and presentational components, and the deployment: no state of the system;
- names, slugs, addresses and other settings that one statement writes into one row, whatever is there;
- graceful shutdown: it waits for the batch and changes nothing itself; being killed instead is a mishap of the pipeline;
- several tabs of a console: they share only the token and the selected project that a document starts with.
