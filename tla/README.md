# A TLA+ model of TrackFlow

TrackFlow takes positions from GPS trackers, stores them per tenant, watches geofences, alerts
people, sends commands back to the trackers, and bills for it. This directory holds TLA+ modules
translated from the TypeScript source, TLC configurations that check them on small instances, and
TLAPS proofs. File and line references are to the repository.

## 1. The system

| Part | State it keeps | Operations | Talks to |
|---|---|---|---|
| Ingest listener (`apps/ingest/src/server.ts`, `transport-security.ts`, `admission.ts`) | per socket: buffer, decoder context, admitted IMEI, bound IMEI; per process: connection gate, admission cache | accept, data, admission, restored session, close, shutdown | API (admission), session store, presence, command sessions, forward queue |
| Forward queue (`forward-queue.ts`, `sink.ts`, `health.ts`) | pending list, slot counter, per-device counter, waiters | enqueue, pump, run (attempts, backoff), closeAndDrain | API (`POST /internal/positions`), readiness |
| MQTT ingest (`mqtt.ts`) | decoder session per topic | onMessage | API (admission), forward queue |
| Command sessions (`commands.ts`) | IMEI to session, IMEI to running drain | register, unregister, drain | API (claim, acknowledge), device socket |
| Presence (`packages/shared/src/presence.ts`) | one Redis key per IMEI with a TTL | online, offline, lookup | ingest writes, API reads |
| Command queue (`apps/api/src/routes/devices.ts`, `positions.ts`, `command-router.ts`) | `device_commands` rows | queue, claim, acknowledge, cancel; publish a wake-up | PostgreSQL, Redis pub/sub |
| Position recording (`positions-service.ts`), geofences (`geofence-service.ts`), device events (`device-events.ts`) | positions, last state of the device, geofence states, alerts | record, update telemetry, evaluate, sweep offline | PostgreSQL, realtime bus, alert dispatch |
| Realtime bus and SSE mailboxes (`bus.ts`, `bounded-event-queue.ts`) | listeners, broker subscription, bounded mailbox | publish, subscribe, push, next, close | Redis pub/sub, browsers |
| Alert dispatch, delivery log, retry job (`alert-dispatch.ts`, `delivery-log.ts`, `apps/jobs/src/notify-retry.ts`) and webhooks | delivery rows with attempt and next retry | dispatch, record, retry | external channels |
| Billing (`billing-service.ts`, `routes/billing.ts`, `apps/jobs/src/subscriptions.ts`) | subscription columns of `tenants`, `invoices` | register, upgrade, downgrade, cancel, expire, close period | payment providers, plan catalog |
| Plan catalog (`plan-service.ts`, `routes/admin.ts`) | `plan_versions`, a cache per process | edit, load, invalidate, resolve | PostgreSQL |
| Jobs (`scheduler.ts` and the tasks) | timers | run a task at each tick | PostgreSQL |
| Mobile app (`offline-queue.ts`, `tracking.ts`) | one stored list of reports | enqueue, flush | API |
| Sessions (`routes/auth.ts`, `routes/me.ts`, `auth-tokens.ts`) | `sessions`, `auth_tokens` | sign in, refresh, log out, reset, revoke all | PostgreSQL |
| Users and provisioning (`routes/users.ts`, `scim.ts`, `saml.ts`, `privacy.ts`) | `users`, `org_memberships` | invite, remove, provision, deprovision, delete the workspace | PostgreSQL, plan quota |
| Wire protocols (`packages/protocols`) | the context's IMEI; the listener keeps the buffer | decode | listener, MQTT |
| Trips and history (`packages/core/src/trips.ts`, `apps/jobs/src/rollup.ts`, `daily-rollup.ts`, `retention.ts`) | `trips`, `daily_rollups` | detect trips, replace a window's trips, rebuild daily totals, delete old positions | PostgreSQL, scheduler |
| Usage metering, reports, storage, web dashboard | see the sources | | |

What is hard here: Node callbacks interleave at every `await`, and several processes share rows and
keys. The forward queue settles a run before it releases its slot. A command is claimed by one
statement and written to a socket later. Presence calls are never awaited. A payment webhook may
arrive twice, overlap with itself, or stop half-way. The plan cache is loaded while a price edit runs.
A position is one transaction of several statements, and only one of them takes a lock. Most account
handlers use no transaction at all. Retry runs overlap, the mobile app rewrites its whole stored queue from
overlapping callbacks, TCP cuts frames anywhere while the session store's answer may change what their decoder knows, a roll-up replaces trips from a
read that has aged. `PROJECT.json` lists the hazards met while reading the code, each with its line and the properties that cover it, and
what they leave open.

What makes each part correct, in a sentence: the queue is bounded, fair and accounts for every item;
a command is written at most once and not after its cancellation; an instance has the session of the connection it
admitted last, and presence names the instance that claimed it last, except where section 5 and `PresenceExplained` say; a paid
plan gives way only to a payment or the tenant's own downgrade, a cancellation is never forgotten; a position is evaluated once, the device row and its geofence states tell one story and alerts
alternate; a sign-out ends what came before it and the last owner stays; a delivered alert is known as
delivered and a delivery ends; a webhook outcome is counted once; an offline report is lost only for a known
reason; a live stream has every event until it is cut off; a frame is a message however its bytes arrive; a drive is counted once and a day's total is its trips'. The
exceptions the code leaves open (overtaken requests, overlapping runs, faults) are part of each property.

## 2. Modules

An action is what one callback of one process does between two awaits, or one database
transaction. Statements of different handlers interleave freely.

| Module | Models | Notes |
|---|---|---|
| `BoundedForwarder` | the promise of the forward queue: what it owes, admits, sheds and answers | no queue, slots or retries |
| `ForwardQueue` | `class ForwardQueue` as `sink.ts` configures it | `Promise == INSTANCE BoundedForwarder WITH open <- accepting, owed <- Live` |
| `ForwardQueueProofs` | theorems about `ForwardQueue` | TLAPS |
| `DeviceLinkProofs`, `FleetProofs`, `SubscriptionProofs` | theorems about the module of that name and those it extends | TLAPS |
| `DecoderProofs`, `FramingProofs` | theorems about `Decoders` and the decoding loop; about `Framing` | TLAPS; `FramingProofs` EXTENDS `DecoderProofs` |
| `BackgroundProofs` | theorems about `Deliveries`, `Webhooks`, `MobileQueue`, `Realtime` and the sum `MCBackground` | TLAPS; EXTENDS `FramingProofs` |
| `RecordsProofs` | theorems about `Team`, `Sessions`, `History` and their sum, `MCRecords` | TLAPS |
| `CommandQueue` | the rows of `device_commands` of one device | one operator per transaction |
| `PresenceStore` | the presence key and the calls on their way to it, for both shared stores (`Scripted`) | Redis: in order, released by a script; Upstash: in any order, released by GET and DEL; lost calls, TTL |
| `CommandHandover` | the promise of a device's commands: queued, withdrawn, taken, ended, given up | no sockets, sessions, polls or wake-ups |
| `DeviceLink` | listener, gate, command sessions, wake-ups, drains of several instances | EXTENDS `CommandQueue` and `PresenceStore`; `Handover == INSTANCE CommandHandover WITH state <- ..., hands <- ...` |
| `PlanCatalog` | plan versions, the three-statement edit, the cache | |
| `Subscription` | a tenant's subscription columns, webhooks, the expiry job | EXTENDS `PlanCatalog` |
| `GeofenceRules` | `evaluateTransition` of `packages/core` | pure; geometry is "inside" |
| `Fleet` | recording of positions and telemetry, geofence states and alerts, edits, the offline sweep | EXTENDS `GeofenceRules` |
| `Sessions` | refresh sessions and the reset token of one user | one action per statement |
| `Team` | users, memberships, quota and the owner guard of one workspace | one action per statement |
| `Deliveries` | dispatch loop, delivery log, overlapping retry runs | |
| `Webhooks` | `deliverOne` for several hooks at once | |
| `MobileQueue` | the app's stored reports and its callbacks | |
| `Realtime` | bus, broker, mailboxes and SSE loops of several replicas | |
| `History` | trip detection, the roll-up's window, daily totals, retention for one device | one action per statement or transaction |
| `Decoders` | one loop iteration of each of the six decoders | pure |
| `Framing` | buffering and message handling of a TCP connection or an MQTT topic | EXTENDS `Decoders` |
| `MC*` | constants for TLC; `MCRecords` and `MCBackground` put parts that share no state into one run | |

### ForwardQueue

| Variable | Code |
|---|---|
| `pending`, `perKey`, `inFlight`, `accepting` | the fields of the same name (lines 44-48) |
| `phase`, `attempt` | where `run(item)` stands: sending, in backoff, settled (promise resolved, `finally` not run yet), done |
| `outcome` | the last hook called: dropped, succeeded or failed |
| `drain` | each `closeAndDrain` promise |
| `health` | what the state hook told `health.ts` |

`drop` and `enqueue` are `enqueue` (67-80), `sendSucceeds`, `sendFails` and `retry` are `run`
(132-154), `release` is the `finally` callback (120-128), each with the `pump` it calls.
`emitState` is called on every change, so `health` is set with it.

### DeviceLink

One device. `sock` is each connection's socket (`destroyed` before its `close` event), `checking` the
chunks that await admission, `admitted` and `bound` the closures' `admittedImei` and `boundImei`,
`session` and `drain` the two maps of `ActiveCommandSessions`, `gate` the connection count, `asking`
the API requests between insert and presence lookup, `wake` the wake-ups on their way. `written`,
`claimant`, `unpolled`, `latest` (the connection an instance admitted last), `late` (connections admitted after their close) and `claim` (what became of
each open connection's last `presence.online`) are history variables, used by properties only. `Connect`, `ReceiveFrames`, `Admit`,
`Refuse`, `Disconnect`, `OnClose` are the callbacks of `startListener`; `PollCommits`, `PollReturns`,
`PollFails`, `WriteDone`, `WriteFails`, `Nack`, `NackFails` the awaits of `drainOnce`; `Queue`,
`RequestWakeup`, `OnWakeup`, `Cancel`, `ExpiryPasses` the API and the subscriber. `Crash` restarts an
instance. A poll whose caller failed or died may still be on its way (`stray`); `StrayCommits` is the
claim the API then commits for nobody. `written` counts the writes whose callback reports success.
The gate's per-source limit is abstracted to the total. `Connect` has three outcomes: let in; let in and, without a transport
identity, out again (`Entered`, then `Left`); refused. `Crash` clears what the instance had, its calls to the store too.

A presence call is never awaited, so `PresenceStep` executes or loses it later. `Scripted` chooses the store: the scripted release of Redis is one step, Upstash's
GET leaves a `delete` for its DEL, between which anything may happen. `SessionExplained` and `PresenceExplained` say what the
two registries hold and name the code's exceptions: a session registered after its socket's close (`server.ts:126` does not
look at it) replaces a newer one and stays; a release is by instance id, so the close of an old connection also takes the entry of a newer one
on the same instance (`server.ts:218-220`).

`CommandHandover` is what all this promises: a command is taken out of the queue once, by one holder, who ends it or
gives it up, and a withdrawn one is never taken. A row marked sent is `out`, or `written` once it was; an instance's
hands are the `left` and `cmd` of its drain. The promise allows losses, as the code does; which ones, `LossIsExplained` says.
The run checks its safety and its fairness (`KeepsHandover`), the proof its safety.

### Subscription

`plan`, `pin`, `status`, `trial`, `period` are the columns of `tenants`, dates relative to now. `hook` is each
webhook request inside `applyUpgrade` (check, resolve, write, invoice), `downgrade` the request inside
`changePlan`. A failed request is sent again by the provider. A version of a plan is a pair of its key and a number; number 0 is
the built-in constant without an id. `active` is the set of plans whose newest version is active: an
edit archives first, so older versions never are. A request that dies after its invoice is repeated as a no-op
and is not an action. A downgrade has the plan it read (`current`), which is what it compares its target with.

### Fleet

One device. `fixes` is the unique index of `positions`, `row` the last state in `devices`, `recent` whether `lastSeen`
is within the offline threshold, `gstate` and `alerts` the rows of `geofence_states` and `alerts`. `tx` is the
transaction of each request (`POST /internal/positions`, `POST /devices/:id/report`), `lock` the holder of the
device row. `InsertPosition` waits for an open transaction with the same key, as the unique index does;
`ReadDevice`, `UpdateDevice`, `EvaluateGeofences` are the next statements, and the commits make everything
visible. A request that fails may be sent again as another member of `Request`. `SwitchGeofence`, `DeleteGeofence`, `SetMembers`
are the edits; a geofence deleted during an evaluation fails the foreign key (`DeletedUnderway`). `SweepSelects`
and `SweepFlips` are two transactions, hence a device that has just reported may be marked offline. `evaluated` and `stale` (the
row was written between this transaction's read and its update) are history.

### Sessions and Team

`session` is the table, `token` the password reset token, `req` each handler's next statement. `chain`, `era`
and `late` are history: the sign-in a session descends from, the mass revocations before its proof,
and whether its request was under way when its basis was revoked. A failing request (`Dies`) keeps what it wrote.
In `Team`, `job` is each handler between its check and its insert or delete; deleting a user cascades to
its membership. `provisioned` and `overtaken` are history. A deprovisioning by SCIM has no owner guard in the code and none here.

### Deliveries and Webhooks

`dispatcher` is one `dispatchAlerts` call, `delivery` the rows, `run` the overlapping runs of the retry job with
the attempts they read. `Decides` is quiet hours and the throttle, whose window `WindowEnds` closes. `RecordFails`, `DispatchDies` and
`RetryDies` lose an outcome between send and record. `copies` and `excused` are history: messages the recipient got,
and alerts whose outcome a fault lost or an overlapping run overwrote. In `Webhooks`, `call` is each `deliverOne`; `logged` counts
rows of which each may be lost (`logAttempt` never throws), `CountFails` is a failed counter update. `answered` and `uncounted` are history: the posts
a hook answered with success and the counter updates that failed, after which an event may be posted again.

### MobileQueue

`stored` is the AsyncStorage entry, `cb` each fix's callback with its own copy of the queue. `reached`,
`dropped` and `clobbered` are history; a flush that another callback's write made outdated puts sent
reports back, which costs only a duplicate.

### Realtime

`brokerReady` is the cached subscription promise, `outbox` publishes under way, `channel` messages on their way
to a replica, `stream` each SSE loop with its `BoundedEventQueue`. `heard` (what the bus emitted for the
stream) is history. Positions and alerts take the same path and are one kind of event. `BrokerRefuses`, `MessageLost` and
`SubscribeFails` are the broker's faults.

### History

Time is counted in slots; `position` is what the device did at each stored fix time, `trips` and `daily` the tables. `rollup` is
each run of the job: the window it looks back (taken at its start, before the other devices), the trips it `found` in the positions it read, those its DELETE saw (`doomed`) and
the runs whose row locks it waits for (`after`). `detectTrips` goes from slot to slot, `Advance` taking those that have a fix; `scanOf` is what it has before each. `Stores` takes a position of any
past time, since offline reports come late; `Purges` is retention. `severed`, `raced` and `unbuilt` are history: trips a window's start cut, trips two
runs wrote at once, days a failed run left without their total.

### Decoders and Framing

Markers, lengths, offsets, checksums and the order of checks are the code's; a text field, a BCD IMEI or an
AVL record is one byte and a checksum is a sum, so a damaged byte is always noticed. `conn` is one connection or topic:
what the device sends is a sequence of fragments (frames the repository's encoders build, damaged frames,
noise, half frames), `processChunk(n)` is the arrival of any `n` further bytes. `Handle` is the message loop
with `ensureAdmitted`; admission itself is in `DeviceLink`, here it lets two of three devices in. `Subscribe` and `onMessage` are
the MQTT transport, whose session a payload after six idle hours begins anew. `Restore` is the session store's answer: it sets the context's IMEI
before the first byte or after any chunk, as long as no frame has; a Teltonika login after it is noise to the decoder, which looks for one only without an IMEI.
(`imeiPersisted`, which only saves a second write of the store, is not modelled.) `lost`, `lapsed` and `restored` (what there was at the answer) are history. The decoding
loop is a recursive function, `Iterations`: what the loop has after each iteration. An iteration that goes on consumes a byte (proved), so
`Len(buffer) + 1` of them are enough.

## 3. Runs

| Run | Instance | Shows |
|---|---|---|
| `ForwardQueue` | 4 messages (3 of the noisy device), capacity 3, per device 2, 2 slots, 2 attempts, 2 drainers | bounds, accounting, work conservation, no monopoly, drain answers and completion, refinement of `BoundedForwarder` |
| `DeviceLink` | 1 command with an expiry, 2 instances, 2 connections on the same or different ones, presence calls late or lost, with a refresh when none is on its way, 1 fault | refinement of `CommandHandover` (a cancelled command is never taken), written at most once, exact gate, sessions and presence entry explained |
| `CommandBatch` | 2 commands, 1 instance, 2 connections, 1 fault, no presence refresh | a lost command is explained; every drain ends |
| `Subscription` | 3 plans, 2 versions, 1 price edit at a time, 1 process, 2 webhook requests for 1 payment, 1 fault | plan and pin agree, paid is applied and kept, payments are invoiced, cancellations end |
| `Fleet` | 1 device: a fix and its retry, a later fix, one outside, a heartbeat, all concurrent; 2 geofences (one edited, one throttled), 1 edit, 1 fault, the sweep | legal alert history, row and states agree, one evaluation per fix, only stale reads lose, the silent go offline |
| `Records` | 3 sessions, 2 requests, 2 mass revocations; 4 users, 2 requests, limit 2; 4 slots, days and windows of 2 slots, 2 overlapping roll-ups, 1 fault | sign-outs hold, rotation leaves one session, the last owner stays, invitations overshoot by the requests under way, a drive is counted once and totals are its trips' |
| `Background` | 2 alerts, 2 retry runs, 3 attempts, throttle 1, 1 fault; 3 hooks (1 unsafe), 2 faults; 3 fixes, queue of 2, 1 restart; 2 replicas, 2 streams of different tenants, mailbox of 1, 2 events, 1 fault; 3 fragments cut anywhere (2 where an IMEI is restored), buffer of 18 | deliveries known and ended, outcomes counted, fix losses explained, streams faithful, frames survive |
| `ForwardReadiness` | as `ForwardQueue`, 1 drainer | violated: a saturated instance stays ready (ADR 0009 says it does not) |
| `CommandLoss` | 1 command, no fault | violated: a reconnect does not leave the row queued |
| `CommandPoll` | as `CommandLoss` | violated: an admitted connection may not poll |
| `RevertedPlan` | 1 request | violated: a reverted tenant keeps the paid plan's limits |
| `UpgradeOnce` | as `Subscription` | violated: two invoices for one payment |

Six more configurations each end in the violation of one property, and are run by hand
(`tlc -config PresenceUpstash.cfg MCDeviceLink.tla` and so on). They show what the properties above except:

| Configuration (module) | Property | What the trace shows |
|---|---|---|
| `PresenceUpstash` (`MCDeviceLink`) | `ReleasesOwnBinding` | with Upstash, a release deletes the entry another instance has set since its GET |
| `PresenceRelease` (`MCDeviceLink`) | `CloseReleasesOwnClaim` | the close of an old connection takes the entry of a newer one on the same instance |
| `DowngradeStale` (`MCSubscription`) | `DowngradeLowers` | a downgrade checked before a trial ends raises the plan after it |
| `Handshake` (`Framing`) | `HandshakeAnswered` | a Teltonika login after a restored IMEI is not answered |
| `MeitrackCut` (`Framing`) | `PartialFrameKept` | a frame whose start marker is cut after noise is lost |
| `TopicImei` (`Framing`) | `TopicIsAuthoritative` | a topic's frame is refused after another device's |

Why the bounds are enough. Capacity 3 with limit 2 lets each of the three refusals happen, a device
fill its share while another is admitted, and two runs settle in either order with one queued behind
them; two attempts are one retry. Two connections and two instances are an old and a new
holder, the only relation the code compares. A drain makes one poll and one write at a time, so a batch of two
shows what one write does to the rest. Two requests show every overlap of `applyUpgrade`, whose
steps only compare one reference with itself; one process with a stale load has the same caches as another process that was
not told. In `Fleet`, five requests are every pair of kinds, with a retry that may overlap its original, and three fix times are an
entry, a dwell and an exit. In `Records`, a session, the one that
replaces it and one more sign-in, with one overlapping request, are what the handlers compare; the
symmetry permutes session ids and handlers, which no definition or constant tells apart (the founder is not permuted). With four slots a window of two starts inside a day and inside a trip,
and a position can come before, within and after it. `Records` and `Background`
explore parts that share no variable as a disjoint sum: one part moves while the others are in their initial
state, and a property of one part is not weakened, as no part reads another. In `Background`, two runs suffice for one to write what the
other has read; three fixes overlap two enqueues and a flush, and exceed a queue of two; a mailbox of one overflows with
two events; three fragments are a frame, what disturbs it and a frame after it (two when an IMEI is restored between them), and 18 bytes are exceeded by
noise that never ends. Two hooks deliver at once beside one whose URL is unsafe. `MaxCalls`, `MaxFaults`, `MaxLoads`, `MaxVersion`, `MaxEdits`, `MaxBulk`, `MaxDbFaults`,
`MaxHookFaults`, `MaxRestarts`, `MaxEvents`, `MaxBusFaults`, `MaxFragments`, `MaxRestored`, `Horizon` and `MaxHistoryFaults` are bounds of the model, not of the code.
Every passing run has `CHECK_DEADLOCK FALSE`: messages, connections and requests are finite, and
then the system rests.

Properties are tried against mutants: next to an action stands a variant with a plausible bug
(a missing decrement, a guard that forgets a condition, swapped statements), and
`PROJECT.json` says which property each breaks.

### Fairness

- `ForwardQueue`: an attempt ends (abort timer, line 136), a backoff ends (timer, line 149), the
  callback of a settled promise runs. Nothing makes devices send or `closeAndDrain` be called.
  The drain timer is not fair: `DrainCompletes` does not need it.
- `DeviceLink`: the steps of a running drain. The write callback is always called by Node, with an error once
  the socket is destroyed; an HTTP call ends because the client gives up in the end (a default of
  the runtime: the code sets no timeout, which is listed as a hazard). Closing, polling and wake-ups are not fair.
  The abstract fairness, `WF(Settle(i))`, follows from it: what a drain has is written, failed or given up.
- `Subscription`: time passes, the hourly job runs, a load that a caller needs happens, a
  begun request is carried on or sent again. No payment, edit or cancellation need occur.
- `Fleet`: an open transaction goes on (PostgreSQL answers, or `Fails`), the threshold passes (time), the sweep's interval
  timer fires. No request need arrive.
- `Background`: a backoff ends (time) and each run of the retry job goes on, as the scheduler starts it at
  every tick. The dispatch loop, streams, webhooks and the app are not fair.

## 4. Proofs

TLC shows a property on an instance; the theorems below hold for every value of the constants that
satisfies the named `ASSUME` of the module (sets of any size, any positive limits, any number of faults). `PROJECT.json`
lists them. Each rests on an inductive invariant, a conjunction of named parts: the initial states satisfy it, one
lemma per action (or group of actions) shows it preserved, and it implies the property.

| Module | Inductive invariant | Proved |
|---|---|---|
| `ForwardQueueProofs` | `IInv` | `TypeOK`, `CapacityBound`, `Accounting`, `WorkConserving`, `NoMonopoly`, `DrainIsFinal`, `Spec => Promise!Safety` |
| `DeviceLinkProofs` | `CommandInv`, `ClaimsStand` | `TypeOK`, `GateExact`, `WrittenAtMostOnce`, `CanceledIsNeverWritten`, `LossIsExplained`, `SessionExplained`, `PresenceExplained` and `RegistriesExplained` (for `Scripted`), `Spec => Handover!Safety` |
| `FleetProofs` | `FleetInv` | `TypeOK`, `FixEvaluatedOnce`, `StatesFollowRow`, `AlertHistoryLegal`, `OnlyStaleReadsLose` |
| `SubscriptionProofs` | `SubscriptionInv` | `TypeOK`, `ActivePlanResolves`, `PaidIsApplied`, `PaidPeriodKept` |
| `RecordsProofs` | `TeamInv`, `SessionsInv`, `HistoryInv`, `HistoryRest` | `TeamTypeOK`, `LastOwnerKept`, `InvitesNearQuota`, `SessionsTypeOK`, `SignOutHolds`, `RotationKeepsOne`; `detectTrips` yields trips that do not overlap; `HistoryAgrees`, `HistoryTypeOK`; `RecordsTypeOK` of the run |
| `DecoderProofs` | | `Steady(protocol)` for each decoder, `CutsResume` |
| `FramingProofs` | `FramingInv` | `FramingTypeOK`, `FramesSurvive` and its parts |
| `BackgroundProofs` | `DeliveriesInv`, `WebhooksInv`, `MobileInv`, `RealtimeInv` | `DeliveriesTypeOK`, `DeliveredIsLogged`, `WebhooksTypeOK`, `OutcomeCounted`, `MobileTypeOK`, `FixLossIsExplained`, `RealtimeTypeOK`, `StreamFaithful`; `BackgroundTypeOK` and the five safety invariants of the run |

Why the invariants say more than the properties:

- **Forward queue.** `CapacityBound` after a release needs `inFlight` to be the number of items in slots; that needs the
  queue to hold exactly the items in phase `queued`, each once (`Agree`); the per-device counters need the same set of live items
  (`Charged`); a retry stays within `maxAttempts` because an item in backoff has attempts left (`Progress`); a drain answer is final
  because closing is (`Draining`). `PumpProperties` is the heart: from an agreeing queue, counter and phases, `pump` yields an
  agreeing triple, loses nothing, and leaves no item beside a free slot. One lemma per abstract action shows the step
  refines it (`LiveCardinality` turns the code's `pending.length + inFlight` into the cardinality of what is owed). `NoMonopoly` needs no sum:
  giving each accepted item its device and its place among that device's items is an injection into
  devices times `PerKeyCapacity`.
- **Commands.** A command is in one pair of hands: the row, or one drain that holds it as a row marked sent and never
  written (`Custody`); whoever drains is an admitted connection of that instance (`Owners`), and holds what that connection claimed
  (`Claims`), which is why a lost claim has a closed or replaced connection. The gate counts a set that must be shown finite.
  For presence, what the calls of an instance will make of the entry is known before they are executed (`ClaimsStand`): a claim that still stands has
  its `online` on the way with no `offline` behind it, or has the entry. This needs the calls in order and the release in one step, so it is proved for `Scripted` only.
  `KeepsHandoverSafety` needs `Custody` alone: a poll that commits finds its drain empty-handed and the queued rows unwritten,
  so it is a `Take` (or `GoAstray`); a write or an acknowledgement is a `Finish` whose rest is all or nothing
  (`LoopHeadHolds`); a crash, a failed call or a replaced socket is a `GiveUp`, or nothing when the hands were empty.
- **Positions.** The device row's lock makes what an evaluation found still true at the commit (`Locked`, `Undisturbed`); the unique index
  keeps two requests from storing one fix (`BeingStored`); a geofence's state remembers the last alert (`Recorded`), which is what makes alerts
  alternate; every write of the row marks those that read it before (`Fresh`).
- **Subscription.** Plan and version are written together, and what was resolved for a plan is a version of it (`Paired`), however old the cache
  it was resolved from, because no cache ever holds a wrong pair.
- **Webhooks and deliveries.** The counter to be written is that of the last answer (`CountsTheAnswer`). A retry run that still sees a row's current attempt
  sees a failed row (`SeenIsOlder`), so it does not send what was delivered, unless a run overwrote the row.
- **Accounts.** Invitations past the quota's check count as users (`InvitesCounted`). A refresh that nothing overtook still rests on the live session
  it read (`CheckedIsLive`) and, once it has revoked it, alone continues the chain (`RotatedIsLast`, `RequestsCurrent`).
- **Mobile queue.** What a callback read is in its copy, with the API, or dropped (`CopyAccounts`), so its write takes from the store only what
  came after the read.
- **Streams.** Written, in hand and in the mailbox together are what was heard (`Accounted`). That no client gets a publisher's events out of order needs an
  order along the whole way: outbox, channel, mailbox (`OutboxInOrder`, `ChannelInOrder`, `HeardInOrder`).
- **Trips.** Before each slot, the trips found lie before the points of the current one, which climb (`ScanSound`); hence what `detectTrips` finds is
  apart. A run about to insert deletes all its window holds, except what another run inserted beside it (`DoomsItsWindow`), so an overlap of two
  stored trips was severed or raced. Totals of days before every pending rebuild are current (`TotalsOutside`); a day's
  total is of its trips only, as `DaysInOrder` keeps a window's days apart from earlier ones.
- **Frames.** Each decoder is `Steady`: an iteration that goes on or throws does the same whatever follows the bytes it saw, and one that
  waits leaves bytes on which it waits again and resumes. From this, by induction over the number of bytes, decoding a prefix and then what it
  left with the rest is decoding both together (`CutsResume`). The invariant says it of the connection: its chunks so far amount to one read of all bytes so
  far (`Followed`), or to one before and one after an IMEI was restored, unless bytes were lost. Meitrack is excepted where its search for `$$` drops a byte of noise: the buffers may then differ, but no
  message does (`Alike`). That legible frames arrive needs each fragment alone and beside any other: `Heard` collects it, one lemma per
  protocol shows it of what the encoders write (`Gt06Fragments`, `H02Fragments`, ...), and `StreamArrives` strings the fragments together, `Max(Arrived)` of
  them so far. `FramesArrive` speaks of legible streams only, since a damaged Teltonika frame's zeros can be read as the head of another.
  Payloads are decoded alone, so `PayloadsAreApart` needs only what the session's IMEI is (`Tuned`).

The provers cannot instantiate an induction theorem. Where a number or a finite set is counted up (the scan over slots, the
points of a day), `Induction` (or `Climb`) replaces it: the least element outside a set of numbers, from the
well-foundedness of `<`. A recursive function is shown to exist the same way (`ScanIsDefined`, `SumExists`, `ReadingsAreDefined`).
`PartsKeepTheirSpecs` and `BackgroundKeepsItsSpecs` show that the disjoint sums of `Records` and `Background` add nothing to the behaviours of their parts.

Model-checked only:

- Liveness: `DrainCompletes`, the fairness parts of `KeepsPromise` and `KeepsHandover`, `DrainsEnd`, `PaymentIsInvoiced`, `CanceledEnds`, `SilentGoesOffline`,
  `RetriesEnd`. Fairness and `ENABLED` are out of the prover's reach.
- The runs and configurations that end in a violation.

## 5. Where the code and its documents disagree

1. Readiness counts only queued items, admission counts items in slots too (`health.ts:24`, `forward-queue.ts:69`).
2. A row is claimed before the socket is tested: a reconnect then loses the command (`commands.ts:112-115`). `LossIsExplained` says when exactly.
3. A connection that joins the previous connection's drain does not poll (`commands.ts:100`).
4. `TO_FREE` keeps `planVersionId`, which wins over the plan key (`subscriptions.ts:10`, `plan-service.ts:105-111`).
5. The invoice lookup does not stop an overlapping request (`billing-service.ts:239`).
6. A downgrade compares its target with a plan it read earlier, and writes unconditionally: it may raise the plan (`billing-service.ts:209`).
7. The Upstash store deletes the presence key without knowing whose it is by then (`presence.ts:97`).
8. Presence is released by instance, not by connection: the close of an old connection takes the entry of a newer one there (`server.ts:219`).
9. With a restored IMEI the Teltonika decoder looks for no login, skips it and never answers it (`teltonika/index.ts:163`, `server.ts:76-82`).
10. Meitrack's search for `$$` drops a `$` at the end of what has come (`meitrack/index.ts:178`).
11. On an MQTT topic, the IMEI a payload named stands in for the topic's (`mqtt.ts:93`).

Items 1 to 5 are the violation runs; 6 to 11 are shown by the six configurations run by hand.

Met while modelling and excepted in `HistoryAgrees` (no run of its own):

- `rollup.ts:36` deletes the trips that start in the window, so a trip that crosses the window's start stays while
  its tail is detected and inserted again, as the window moves on once more at each run. The file's head says it
  "idempotently replaces the trips in that window".
- A day all of whose trips vanish (late positions join them to the day before, or
  retention is shorter than the window and the positions are gone) keeps its old row in
  `daily_rollups`: the upsert covers only days that have trips.

## 6. Plan

In order; all are in place.

1. Forward queue, its promise, its proofs.
2. Command delivery and presence.
3. Subscription and plan catalog.
4. Findings as runs.
5. Positions and geofences, accounts, deliveries and webhooks, the mobile queue, live streams, wire framing, MQTT, trips and their totals.
6. Proofs of the invariants and action properties of every module.
7. An abstract specification of command delivery, `CommandHandover`, that `DeviceLink` implements, step by step.
8. The decoders of `Decoders`: steadiness, resumption, and that they read what the encoders write.

### Not modelled

- `apps/web`, the mobile screens, invoices, OpenAPI, storage, observability, scripts, simulators: rendering, I/O and
  tools. They keep no state the API does not. With the schema and request parsing they are most of the source lines.
- Distances and speeds of trips, geometry, the values inside wire messages, signatures, TOTP, SAML assertions: computation on floating point, bytes or
  cryptography.
- Row-level security, which is PostgreSQL's.
- The dropping of expired partitions, the report and ingest-health jobs: maintenance of storage, and jobs that read and notify.
- Metered overages and the device quota: the shapes of `applyUpgrade` and of the user quota, which are modelled.
- What the session store keeps for which peer, and the admission cache: copies with a TTL; the modelled parts treat an
  admission's answer, and the IMEI the session store restores, as arbitrary.
- Routing of alerts to several channels and templates: data; one channel and recipient per alert is modelled.

Smaller simplifications are in the `note` of each component in `PROJECT.json`.
