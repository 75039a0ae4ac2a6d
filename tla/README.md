# TLA+ models of tenant-ai

`tenant-ai` is a landlord platform. A Fastify server (`apps/server`) runs the
Zillow lead lane, the outbound text ledger, SMS and voice intake, and the money
jobs, over one Postgres database (Prisma) and, for the hourly jobs, BullMQ. A
Next.js dashboard (`apps/dashboard`) and a tenant site (`apps/tenant-site`)
share that database and call the server's internal routes. This directory holds
TLA+ modules of the parts whose correctness depends on the order of steps, the
TLC runs that check them on small instances, and TLAPS proofs.

Contents: [1 Inventory](#1-inventory) - [2 Modules](#2-modules) -
[3 Runs](#3-runs) - [4 Bounds](#4-bounds-and-why-they-are-enough) -
[5 Fairness](#5-fairness) - [6 Proofs](#6-proofs) -
[7 Divergences](#7-where-the-code-does-not-do-what-it-says) -
[8 Not modelled](#8-not-modelled) - [9 Plan](#9-plan)

## 1. Inventory

What each part keeps, does, and must get right. "Hard" names the behaviour that
makes it worth a model. `PROJECT.json` ("components", "hazards") has the files
and lines.

### Zillow lead lane (apps/server/src/services/zillow-*, textemall-*)
- State: `ZillowLead` (lifecycle status, applicationCompleted,
  applicantSentBatchId), `TextEmAllBatch` (one row per broadcast key, its phones
  and status), `ZillowAutoRun` (one row per hour slot), `ZillowImportRun`; the
  in-process cycle mutex, GUI lock and import flag; the poll driver's state; and
  outside, the broadcasts Text-Em-All has really sent.
- Operations: hourly run, manual and forced run, fast poll; each is one cycle:
  import, resolve ambiguous batches, then a leads and an applicants segment
  (CSV, upsert, send, record, flip). Beside the cycles: an import by hand and
  the one-lead send, which take the import flag and nothing.
- Hard: the send is an osascript call that can time out after the texts went
  out; the process can die between the send and its record; STOP, START, survey
  submissions, imports and sends by hand change leads between two awaits, and an
  import writes back what it read; one broadcast name serves two segments; a
  rerun reuses a key.
- Must hold: nobody is texted twice for the same purpose, nobody opted out is
  texted, a lead shown as invited was texted, an eligible lead is texted in the
  end, a quarantine ends.

### Cycle mutex and GUI lock (zillow-cycle.ts, lib/gui-lock.ts)
- State: a promise chain and a `busy` flag (`held` for the GUI lock).
- Hard: microtask ordering between the end of one holder and the start of the
  next; a `try` caller must not queue; a rejecting body must not poison the
  chain; the GUI lock is taken inside cycles and is not re-entrant.
- Must hold: one body at a time, first come first served, everyone is served.

### Fast poll driver (zillow-poll.ts)
- State: `pollState` (end of the last cycle, jitter, last reason, start of a
  blocked streak, whether it was notified).
- Hard: `setInterval` does not wait, so ticks overlap and decide on what others
  are changing; the daily ceiling is compared before a cycle that can send two
  batches; reads throw; a relaunch forgets everything.
- Must hold: the gap between polls, the daily ceiling, one note per stall.

### Zillow watchdog (zillow-watchdog.ts, jobs/zillow-daily.ts)
- State: the cursor over hour slots, the miss streak, the offline flag;
  `ZillowAutoRun` rows; the scheduler's job state.
- Hard: the Mac sleeps through slots, BullMQ promotes a delayed job late,
  restarts, Redis missing at a boot.
- Must hold: one verdict per slot, a miss is a miss, a run that went wrong is
  reported.

### Relay ledger (relay-guards.ts, messages-relay.ts)
- State: `OutboundRelayMessage` rows (pending, deferred, sent, failed), the
  in-flight set, `SmsOptOut`.
- Operations: relaySendWithGuards (opt-out, row, cooldown, caps, send), the
  ten-minute sweep, the heartbeat.
- Hard: several callers between count and send, the sweep retrying a row whose
  process died after the text left, a STOP in the middle.
- Must hold: caps, no double send of one row, no send after STOP, every
  deferred row ends sent or failed.

### Individual relay and fire ledger (individual-relay.ts, fire-ledger.ts)
- State: BullMQ's queue and the job ids it has seen, `TextEmAllFire` rows per
  month, Text-Em-All's two groups, form responses the Zap has not handled.
- Operations: a call, a text or a question queues a job per phone and minute;
  one worker checks opt-out and cooldown, then sends by the direct API or
  re-points the group, claims a fire, posts the form and waits; what does not
  fire falls back to the relay.
- Hard: the send and its record are apart; a stalled job runs twice; the Zap
  messages whoever is in the group when it runs; another group holds the
  person; a post that times out may have been stored.
- Must hold: one link per caller and cooldown, every caller gets one, nobody
  gets another's.

### Inbound SMS, survey and the public form (sms-handler.ts, survey.ts, apply)
- State: conversations, `SurveyInvite`, `Application`, `SmsOptOut`,
  `ProcessedWebhookEvent`. Operations: STOP/START, the intake conversation, the
  link it texts, the survey page and its submission, the public form, the
  summary forwarded to the owner, the landlord's decision, deletion of the
  property.
- Hard: two submissions at once; a conversation that holds an application the
  landlord decides; custom answers read, merged and written back; an invite
  claimed before the row exists; a death in between.
- Must hold: one application per link, a used link stands for one, a completed
  one has its answers, a decision stays, the owner is told once.

### Voice calls (call-handler.ts, call-registry.ts, graceful-shutdown.ts)
- State: the registry of live calls, each call's media and OpenAI sockets, the
  monitor timers, `UsageRecord`, the shutdown's phase.
- Hard: a call counts only some awaits after it was admitted; a socket can
  close before its listeners exist; stop message and close both end the call;
  a reconnect overlaps an end; a call is in its lookups when the drain looks.
- Must hold: the limit on lines and their release, one bill per call, no
  session left open, no live call cut by a shutdown.

### Rent ledger (rent-charges.ts, late-fees.ts, stripe webhook, refund, offline)
- State: `RentCharge` (amount, paidAmount, status), `Payment` (status,
  stripePaymentId), and Stripe's PaymentIntents and undelivered events.
- Operations: posting rent and late fees, creating a bank payment, the Stripe
  events, offline payments, refunds. Payments are credited oldest charge first
  and reversed newest first.
- Hard: repeated, reordered and early webhook events, absolute values written
  from old reads, two refunds at once, a failure between Stripe and the
  database, a handler that throws half way and is not retried.
- Must hold: what the charges say was paid is what completed payments brought
  in, oldest first; refunds agree with Stripe.

### Units, leases and conversion (dashboard api/leases, tenants/[id]/convert, lease-expiration.ts)
- State: `Unit.status`, `Lease`, `Tenant`. Operations: create, renew, change and
  end a lease; convert an application; edit, add and delete a unit; the nightly
  job that turns expired fixed leases into monthly ones.
- Hard: no route opens a transaction, so the active-lease check, the lease and
  the unit's status are separate statements; pages are stale; the job updates by
  id what it read before.
- Must hold: a unit is let once, its status says whether it is let, a renewal
  is not undone, an expiry is handled.

### The landlord's own subscription (api/billing/subscription, stripe-billing.ts, stripe webhook, api/properties)
- State: `Subscription` (status, plan, Stripe's id), Stripe's subscription and
  its undelivered events, the number of properties.
- Operations: subscribe, change the plan, cancel, an administrator's status, the
  events, adding and deleting a property.
- Hard: Stripe is called before the row is written; events come in any order
  and are never sent again; the limit is read, compared and used in three steps.
- Must hold: the row says what Stripe says, the landlord pays for one
  subscription and for the plan he has, the limit holds.

### Phone numbers and tours (api/properties/[id]/phone, tour-service.ts, api/tours)
- State: `Property` (its number, the number's sid, active), the carrier's
  numbers, `TourBooking`.
- Hard: the number is bought before the row is written and released before it is
  cleared; the property can be deleted in between; a tour's time is checked,
  then taken; a canceled tour can be revived.
- Must hold: what is billed is assigned, a time has one tour.

### Billing runs and deposits
- Usage rows, one period roll and one invoice per subscription a month; deposit
  deadlines. Hard: month boundaries.

### Jobs (jobs/scheduler.ts)
- Repeatable BullMQ jobs with retries, and interval timers that survive Redis.

### How the parts meet
The hourly job, a manual run and the poll driver all enter the cycle through
`runExclusiveCycle`; cycles, manual imports, home-search alerts and individual
relays share the screen through `withGuiLock`. STOP and START handlers and
survey submissions write `SmsOptOut` and `ZillowLead` under a running cycle and
`SmsOptOut` under the relay; the individual relay and the Zillow lane's form
path re-point two groups of one Text-Em-All account; a converted application
becomes the tenant whose lease the rent ledger charges. The watchdog only reads what cycles write. The
dashboard and the tenant site meet the server's money jobs only in the
database: nothing but single statements and short transactions orders them. One
Stripe webhook route serves the rent and the subscription, and answers 200
whatever its handlers do.

## 2. Modules

| module | models | built from |
|---|---|---|
| `ZillowCycle` | one broadcast cycle and the handlers that interleave with it | |
| `Mutex` | abstract first-come mutex with `wait` and `try` requests | |
| `CycleMutex` | the promise chain of `zillow-cycle.ts` (and of `gui-lock.ts`) | refines `Mutex` |
| `LaneLocks` | the whole lane over both locks | extends `CycleMutex` for the cycles, a second instance for the screen |
| `PollDriver` | the fast-poll timer | |
| `Watchdog` | the slot watchdog next to the hourly job | |
| `RelayLedger` | guarded sends and the sweep | |
| `IndividualRelay` | the link for one caller, by API, form or relay | |
| `Applications` | a property's applications and all who write them | |
| `VoiceCall` | calls, their sessions, the registry, the shutdown | |
| `Tenancy` | units, leases, conversion, the expiration job | |
| `RentLedger` | one lease's account | |
| `Subscription` | the landlord's plan, Stripe, the limit on properties | |
| `Premises` | a property's phone number and its tours | |
| `Landlord` | the last three in one specification | extends `RentLedger`, instances of `Subscription` and `Premises` |
| `MC...` | instances for TLC (symmetry, requests, casts) | |
| `..._proofs` | theorems | |

In every module an `await` of the code is a boundary between two actions, what
lies between two awaits is one action, and every call the handler makes inside
it is part of it. Operators named `X_Something` next to an `X` are mutants of
`X`: forms the code could have had by mistake. They are used by no
specification; `PROJECT.json` names the property each one breaks.

### ZillowCycle
State: the tables (`lead`, `optOut`, `batch`, `row`), what Text-Em-All really
sent (`tea`, which no code can read but through the probe), and the locals of
the one running cycle behind a program counter `pc`. One counter is enough
because the mutex admits one cycle at a time, which `CycleMutex` establishes.

| code | actions |
|---|---|
| runPollTick, runDailyAutomation: claim, context | `BeginPoll`, `BeginHour` |
| runZillowImport, ingestLeads | `Ingest`, `IngestWrite` per lead, `ImportOk`, `ImportFails` |
| gates before the send | `Gate` |
| resolveAmbiguousBatches | `SkipResolution`, `Probe`, `Promote`, `PromoteFlip`, `Demote`, `Resolved` |
| a segment of runZillowCycle | `BuildCsv`, `Upsert`, `Send`, `RecordOk`, `RecordFailure`, `SelectFlip`, `WriteFlip` |
| catch, finishRow, death of the process | `DbError`, `Finish`, `Crash` |
| sms-handler, survey | `StopOptOut`, `StopLead`, `Start`, `Applied` |
| internal.ts: import by hand | `StartImport`, `Ingest`, `IngestWrite`, `EndImport` |
| sendSurveyToLead | `HandRead`, `HandSend`, `HandWrite` |

A send is classified as the code classifies it: accepted, login needed, failed
before the final POST, or ambiguous; whether the texts left in the ambiguous
case is the environment's choice, as is which contacts were added. A lead
stands for one phone; phones are not formatted or normalised. An import finds
any leads, one after the other: what `findFirst` saw of a lead that was still
new is written back by the update (`ingest.held`). A send by hand is one relay
call (its own steps are `RelayLedger`'s) between the read of the lead and the
write of its status; `linked` and `unseen` are histories.

### Mutex, CycleMutex, LaneLocks
`CycleMutex` has a call's place in the promise chain (`prev`, `chain`), its
phase and the `busy` flag. `Link` is the synchronous part of
`runExclusiveCycle`, `Run` the microtask that starts the body once the previous
promise has settled, `Settle` the `finally` and the settlement, resolved or
rejected. `Mutex` says what callers rely on: requests are granted in the order
they were made, one at a time, and a `try` is refused only while one holds it.
`LaneLocks` runs cron, manual, poll, alert and import tasks over the extended
`CycleMutex`, whose calls are the cycles', and an instance (`Gui`) for the
screen, whose calls are the cycles' sections and the other tasks' one each
(`ScreenCalls`). Its specification is `LaneSpec`; each task knows its place in
either chain (`call`, `ticket`).

### PollDriver
A tick captures its `now` (`Fire`), reads (`Count`, `ReadError`), decides
(`Rest`, `Blocks`, `StartPoll`) and, if it polls, ends (`EndPoll`); several are
in progress at once and share `poll`, the driver's state. A cycle, the poll's
or the scheduled one's, sends up to two batches (`Broadcast`). `Track` is
`trackStall`; `Restart` is a relaunch. One unit of time is one evaluation
interval; the jitter of a gap is chosen from `0 .. Jitter`. Its specification
is `DriverSpec` and its proofs are in the second part of `LaneLocks_proofs`: the
driver is the part of the lane that decides when a poll asks for the cycle lock.

### Watchdog
Time, sleep, the BullMQ ticks and the process run next to `Tick`, which is
`decideWatchdog` with the notifications of `watchdogTick`. `Claim` is
`claimSlot`: what each status of the slot's row lets a scheduled or manual run
do. The loop over slots is a set of judged slots; the retention prune is left
out. `OnTime` belongs to the properties: a run that starts by then has ended, and
its row is stale, before its slot is judged (`EarlyEnough`). The specification is
`WatchdogSpec` and its proofs are the last part of `LaneLocks_proofs`, next to
those of the poll driver: the one starts cycles, the other notices that none ran.

### RelayLedger
A call goes `Call`, `CheckOptOut`, `Create`, `CheckCooldown`, `CheckCaps`,
`Attempt`, `SendText`, then `RecordSent` or `RecordFailed`; the sweep goes
`StartSweep`, then `SweepOptOut`, `SweepCaps` and the same attempt for each
candidate in the order of the rows, and ends with `EndSweep` when none is left
or it has sent its share; what it has still to do is a set (`sweep.todo`).
`Leave` is the `finally` that gives the reservation back. The windows of the
caps are kept as an age of each sent row (this hour, this day, earlier) that
`HourPasses` and `DayPasses` move on for all rows together. The relay is
switched on throughout, the heartbeat is one of the calls, and the pruning of
`ProcessedWebhookEvent` in the sweep is left out.

### IndividualRelay
`Request` is `addJob` with the id BullMQ deduplicates by, `Take` the one
worker. `Check` reads opt-out and cooldown; then `Broadcast` and `Record` on the
API path, `Edit`, `Claim`, `PostForm` and `Settle` on the form path, and `Relay`
as the fallback of both. `Zap` runs whenever it likes and messages the group as
it is; `ZillowEdit` is the other lane's edit of its own group, `Crash` the stall
that makes BullMQ run the job once more. A text that the relay defers counts as
a link on its way: `RelayLedger` says what becomes of it.

### Applications
One property and its applications. A conversation by voice or SMS (`OpenChat`,
`StartApplication`/`CreateApplication`, `SaveColumn`, `ReadCustoms`/
`WriteCustoms`, `CheckAnswers`/`WriteCompleted`, `CloseChat`), the two forms
(`Apply`, `ClaimInvite`, `CreateFromForm`; `OpenSurvey`, `SubmitSurvey`, which is
one transaction), the landlord (`ReadStatus`/`WriteStatus`, `DeleteProperty` and
its two statements), the texted link (`TextForLink`), the owner's summary
(`StartForward` and the `Forward...` steps) and time (`InviteExpires`, `Age`)
interleave statement by statement. Answers are two kinds: a column of their own,
or a key of the one JSON object that is read and written whole. `cast` is the
set of actors that meet in a behaviour. Its specification is `ApplicationsSpec`;
its proofs are the second half of `Tenancy_proofs`, since tenancies are what
applications are converted to.

### VoiceCall
One event loop: an action is what runs between two awaits. `Incoming` is the
webhook's check of the limit, `Connect` the media stream, `GoLive` the end of
the lookups (session, listeners, registry, monitor). `Stop` and `LineCloses`
both begin `handleCallEnd` (`BeginEnd`), whose writes are `RecordUsage` and
`Remove`. `SessionCloses`, `Reopen` and `ReopenThrows` are `reconnectOpenAI`,
`Monitor` the 30 s timer, `Sigterm` to `Exit` the shutdown. That a server closes
its web sockets while it closes is left to the environment (`LineCloses`).

### Tenancy
A request (`req`) is a route between two statements: `PostLease`/`CreateLease`/
`OccupyUnit`; `Convert`/`CreateTenant`/`ConvertLetCheck` and then the same;
`PutLease`/`VacateUnit`/`WriteLease`. `PutUnit` sets any status, `AddUnit` and
`DeleteUnit` are the unit form. `JobRemind`, `JobRead` and one `JobConvert` per
lease are the nightly job; `RequestDies` and `JobDies` stop either half-way.
Dates are none, ahead or past. `overlapped`, `unsettled` and `settledEnd` are
histories of the accidents that the properties except by name.

### RentLedger
State: the charges by due date, the payments, Stripe's side of each (`intent`),
the events emitted and delivered, and the requests in progress (`req`), each
with the values it computed from what it read (`plan`). `Complete`, `ReadOpen`
and one `WriteCharge` per charge are the webhook, which is not a transaction;
`RecordOffline`/`CommitOffline` and `ReadPaid`/`CommitRefund` are transactions
under READ COMMITTED: what they read may be old when they commit. A row lock
taken in the middle of a transaction delays the other writer past the commit,
so a commit as one step has the same outcomes. `upset` records which kinds of
disturbance a behaviour has had, so that a property can say which of them it
survives. The lease is active with a late fee configured; how far the grace
period has run is a free choice of `FindOverdue`; two charges never fall due at
the same instant; e-mails, audit rows and subscription events are left out.

### Subscription
A request is `Subscribe`, `CreateAtStripe` (customer, price and subscription:
what fails or dies before the last leaves nothing that matters here),
`CreateRow`; or `ChangePlan`, `Reprice`, `WritePlan`; or `Cancel`,
`CancelAtStripe`, `MarkCanceled`; or `AddProperty`, `CountProperties`,
`CreateProperty`. `Move` is Stripe's own life of a subscription, `Deliver` the
webhook's two handlers, `Throw` a handler that fails and is answered 200.
`upset` names the disturbances as in `RentLedger`; `stray` holds subscriptions
that no row came to hold. An administrator's own limit, the invoice events
(which match nothing, section 7) and the period dates are left out.

### Premises
`Provision`, `Buy` and `Assign` are the purchase; a sid made up by the
onboarding page, or by the route when Twilio is not configured, skips `Buy`.
`Release`, `Remove` and `Clear` are the release, whose carrier call may fail
unnoticed. `BookTour`, `FindConflict` and `CreateBooking` stand for the website,
the call and the text alike; `AskCancel` and `CancelBooking` are the visitor,
`SetBooking` the landlord, `AskDelete` and `Delete` the deletion of the property
under all of them. A number stands for one purchase. `stray` and `double` are
histories of the accidents the properties except.

## 3. Runs

Every run passes; each asks one question of one component, but `landlord`, which
asks them of three components that share no row: a behaviour belongs to one of
them (`Landlord`, `scene`), so the state space is their sum.

| run | what it shows |
|---|---|
| `zillow_poll` | Two leads, three poll cycles, imports and links by hand, every pair of send, probe, import and flip faults: nobody gets the leads message twice, an invited lead got it or a link by hand, a broadcast after a link by hand happens only in the cases `OneInvitation` names. |
| `zillow_all_faults` | Polls and hourly runs, both segments, every fault including crashes and forced runs: the CSV is never stale when it is sent, neither against other batches (`QuarantineExcludes`) nor against a STOP recorded before it was built (`StopRespected`). |
| `zillow_live` | While the timer ticks and after finitely many faults, every eligible lead is served and every quarantine ends (`EveryLeadServed`). |
| `lane_locks` | Cron, manual, poll, alert and import over both locks: turns are kept (`InTurn`), the screen has one user and no two cycles interleave their send phases (`NoInterference`), the promise chain is a plain mutex (`AbstractMutex`), and whoever asked for a lock ends (`EveryTaskEnds`). |
| `poll_driver` | Three overlapping ticks, a scheduled cycle, restarts and failing reads: the gap (`PollsKeepTheGap`), the ceiling with its exact overshoot (`CeilingBound`), and stall notes that alternate, are real, and come (`StallNotes`). |
| `watchdog` | Three slots with sleep, a restart, Redis missing or a manual retry: a reported miss is one and every streak of misses is told (`MissReports`), bad runs are reported (`BadRunReported`), and a verdict is given once and a crash is real (`VerdictsStand`). |
| `relay_ledger` | Two calls of three kinds and the sweep, with STOP, START and a fault: caps when checks do not race (`CapsHold`), one worker and at most one text per row (`AtMostOnce`), opt-outs (`StopRespected`), and every row settles (`EveryRowSettles`). |
| `individual_relay` | Two callers, both send methods, the other lane's group edits and two faults of eight kinds: one link per cooldown (`NoRepeatBroadcast`), nobody is forgotten (`NobodyForgotten`), nobody gets another's link (`RightCaller`), each with exactly the faults that break it. |
| `applications` | One applicant, two conversations, two forms, the landlord: one application per link and per overlap-free applicant, and a used link stands for one (`AppliedOnce`), a completed one is filled (`CompletedIsFilled`), the owner is told once (`ForwardOnce`), a decision stays (`DecidedStays`). |
| `voice_call` | Two calls on one line with reconnects, a failing read or write and a shutdown: places are neither exceeded nor lost (`CapacityKept`), an ended call was billed once and holds no session (`CleanEnd`), a shutdown cuts no registered call (`CallsNotCut`), with the overlaps that break each. |
| `tenancy` | One unit, two requests at once, the nightly job and one death: a second letting needs two requests past the check together (`SingleLet`), the unit's status agrees with its leases outside the named accidents (`OccupancyAgrees`), the job undoes no renewal made while it was not converting (`RenewalKept`), and an expired lease is handled (`ExpiryHandled`). |
| `landlord`, rent | Two payments, two requests at once, a rent and its fee, up to three kinds of disturbance: charges stay consistent under all of them and are posted once (`ChargeIsConsistent`), FIFO order survives all but overlapping requests (`OldestFirst`), races of payments may lose a credit but never invent one and without disturbance nothing is lost (`Conserved`), and refunds agree with Stripe (`RefundMatches`). |
| `landlord`, plan | Two requests, two subscriptions at Stripe, one kind of disturbance: the row, its status, its plan and the number of subscriptions agree with Stripe (`AgreesWithStripe`) and the plan's limit holds (`WithinPlan`), each but for the disturbances it names. |
| `landlord`, premises | Two requests on two properties: what the carrier bills is assigned (`NumbersHeld`), and a time has one tour (`BookedOnce`), each but for the accidents it names. |

Many properties have the form "unless": the code does lose credits, double-book
or repeat a text in some interleavings, and the property says exactly which. An
exception is a history variable set by the step that makes it possible, so a
property fails if any other sequence of steps leads there.

`CHECK_DEADLOCK FALSE` is set where the instance really ends: all calls made,
all slots used, the clock at its bound. In the `ZillowCycle` and `Tenancy` runs
deadlock is checked.

## 4. Bounds, and why they are enough

- `ZillowCycle`: two leads make a partial broadcast and a subset match
  possible; three poll slots make a first attempt, its resolution and a later
  cycle; two faults make a failure during the recovery from a failure. The
  wider run trades the second lead and third slot for hourly runs, the
  applicants segment and every fault kind. An import by hand and a send by hand
  count against the same budget. `ProbeMax` 10 is the code's window and larger
  than the number of broadcasts the runs can send. `zillow_poll` leaves out
  "crash" and "db", whose one consequence for it is the first entry of section 7.
- `LaneLocks`: three cycle calls put two behind a holder with a refused `try`
  among them, eight screen calls in two sections per cycle give another task the
  chance to come in between; the proofs hold for any number of either.
- `PollDriver`: three ticks (one in its cycle, two racing each other), ceiling 2
  with two-batch cycles to overshoot it, and a clock long enough for a blocked
  streak of more than three gaps (`MaxTime` 12 against `Gap` 2).
- `Watchdog`: three slots make a streak with an end and a streak with none; an
  hour has three units so that a run can be early, late and across the hour.
  One kind of event per behaviour.
- `RelayLedger`: caps are 1 or 2 so that two calls meet them; two attempts
  exhaust the retries; the sweep takes both rows but sends one.
- `IndividualRelay`: two callers are enough for a stray message; a cooldown of
  one tick out of two has an inside and an outside; the cap of two is met.
- `Applications`: one applicant (applicants meet only in the property's
  deletion), two of every actor that can meet its like; `McCasts` lists which
  of them meet, every pair of them and the conversation with both forms or the
  desk. One upset at a time.
- `VoiceCall`: two calls compete for one line; one reconnect and its exhaustion;
  one failed read or write.
- `Tenancy`: one unit and one tenant (units meet nowhere), two leases, two
  requests and the job at once, one death.
- `RentLedger`: amounts 1 and 2 against a rent of 2 and a fee of 1 give part
  payments, exact payments, a payment over two charges and overpayment;
  `MaxUpsets` 3 gives every combination of three kinds (a refund race also
  counts as an overlap).
- `Subscription`: two requests race for the row; plans that allow one and two
  properties, and up to three of them, can be crowded and shrunk; two events can
  overtake each other (with three the run is three times as long and passes);
  one kind of disturbance at a time.
- `Premises`: two properties compete for two numbers, two bookings for one time;
  numbers and tours meet in the property's deletion only, so a behaviour has
  one of them.

Symmetry is used for leads, poll slots, ticks, calls, phones, requests and
payments, in runs without liveness properties only. In `landlord` payments,
subscriptions, properties, numbers and bookings are the same two model values,
which no scene compares across kinds, and are permuted together.

## 5. Fairness

- `ZillowCycle` (`FairSpec`): the running promise chain keeps being scheduled,
  also that of an import by hand, the poll timer keeps firing (`setInterval`,
  re-armed at a restart) and a STOP handler runs its second write. A step that both succeeds and fails at the
  environment's choice is one fair action; the fault budget is what makes the
  failures finite, and the property is a statement about what happens after them.
- `LaneLocks` (`LaneSpec`): a queued microtask runs and a body settles, in
  whatever way (`Resume`). Bodies settle because every osascript call has a time
  limit. No task is obliged to ask for a lock.
- `Tenancy`: the expiration job takes its next step (`JobStep`): it is scheduled
  daily and a run that died is followed by the next one. Nothing is assumed
  about requests.
- `RelayLedger`: calls and the sweep run to their end, the interval keeps
  firing, pending rows grow old, hours and days pass. Nothing is assumed about
  new calls, STOP or START.

The other modules state safety only: the owner is told by timers whose death the
code does not survive, a lost event is lost, a call or a conversation may stay
open for as long as its caller likes.

## 6. Proofs

Each theorem holds for every value of the constants that its module's `ASSUME`s
allow: any number of leads, calls, callers, leases, payments or properties, any
budget of faults, any caps. A theorem whose property a run checks names it.

| module | theorem | statement |
|---|---|---|
| `ZillowCycle_proofs` | `Typing` | `Spec => []TypeOK` |
| | `QuarantineExclusion` | `Spec => []QuarantineExcludes` |
| | `StopIsRespected` | `Spec => StopRespected` |
| | `OneInvitationInPollMode` | `PollMode => (Spec => []OneInvitation)` |
| `CycleMutex_proofs` | `Typing` | `Spec => []TypeOK` |
| | `Exclusion`, `TurnsAreKept`, `BusyFlag` | mutual exclusion, `InTurn`, the flag |
| | `ImplementsMutex` | `Spec => AbstractMutex` (it refines `Mutex`) |
| `LaneLocks_proofs` | `CyclesKeptApart` | `LaneSpec => []NoInterference` |
| | `LaneTurnsAreKept`, `LaneImplementsMutex` | `InTurn` and `AbstractMutex` among the lane's tasks |
| | `DriverTyping` | `DriverSpec => []DriverTypeOK` (`PollDriver`) |
| | `CeilingIsKept`, `GapIsKept`, `StallsAreNoted` | `CeilingBound`, `PollsKeepTheGap`, `StallNotes` |
| | `WatchdogTyping` | `WatchdogSpec => []WatchdogTypeOK` (`Watchdog`) |
| | `MissesAreTold`, `BadRunsAreReported`, `VerdictsAreKept` | `MissReports`, `BadRunReported`, `VerdictsStand` |
| `RelayLedger_proofs` | `Typing` | `Spec => []TypeOK` |
| | `CapsAreKept` | `Spec => []CapsHold` |
| | `OneTextPerRow` | `Spec => []AtMostOnce` |
| | `StopIsRespected` | `Spec => StopRespected` |
| `VoiceCall_proofs` | `Typing` | `Spec => []TypeOK` |
| | `CapacityIsKept`, `EndedCleanly`, `NotCut` | `CapacityKept`, `CleanEnd`, `CallsNotCut` |
| `Tenancy_proofs` | `Typing` | `Spec => []TypeOK` |
| | `OneLet`, `OccupancyIsRight` | `SingleLet`, `OccupancyAgrees` |
| | `RenewalsAreKept` | `Spec => RenewalKept` |
| | `ApplicationsTyping` | types and references of `Applications`, under `ApplicationsSpec` |
| | `AppliesOnce`, `CompletedWithAnswers` | `AppliedOnce`, `CompletedIsFilled` |
| | `DecisionsStand`, `ToldOnce` | `DecidedStays`, `ForwardOnce` |
| `IndividualRelay_proofs` | `Typing` | `Spec => []TypeOK` |
| | `NoRepeats`, `EveryCallerServed`, `OwnCallerOnly` | `NoRepeatBroadcast`, `NobodyForgotten`, `RightCaller` |
| `Landlord_proofs` | `RentAlone`, `PlanAlone`, `PlaceAlone` | a behaviour of `Landlord` is one of each of its parts |
| | `PlanTyping`, `PlaceTyping` | the parts' `TypeOK` |
| | `ChargesAreConsistent`, `OldestIsFirst` | `ChargeIsConsistent`, `OldestFirst` |
| | `MoneyConserved`, `RefundsMatch` | `Conserved`, `RefundMatches` |
| | `SubscriptionAgrees`, `PlanIsKept` | `AgreesWithStripe`, `WithinPlan` |
| | `NumbersAreHeld`, `ToursBookedOnce` | `NumbersHeld`, `BookedOnce` |

### Assumptions
Those the modules name, each a fact of the configuration or of the data types:
budgets, caps, limits and times are numbers (`FaultBudget`, `ProbeWindow`,
`MaxCallsNat`, `Caps`, `RelayBounds`, `LimitsNat`, `MaxLeasesNat`,
`MaxDeathsNat`, `PlanSizes`, `PlaceBudget`, `Money`); a row is tried at least
once and a cycle takes the screen at least once (`AttemptsPositive`,
`SectionsPositive`); kinds and faults are of those the code knows
(`RequestKinds`, `FaultChoice`, `Switches`, `ReadsMayFail`); the clock of the
poll driver counts intervals, the gap between polls is not empty and fits before
the clock's bound (`Times`, `Intervals`, `GapPositive`, `Room`); the watchdog's
times are numbers, an hour is longer than its grace and a start "on time" leaves
the run its length, and its row the time to be stale, within the hour
(`Durations`, `Schedule`, `EarlyEnough`); what is counted
is finite (`CallsFinite`, `TasksFinite`, `RequestsFinite`, `PaymentsFinite`); a
null is no row, lead or key (`OwnerIsNoLead`, `NoneIsNoRow`, `NoneIsNoJob`,
`NoneIsNobody`, `NullIsNoApplication`); an answer is a column or a key of the
JSON object, an actor a conversation or a dashboard request, never both
(`ApplicationsAnswers`, `ApplicationsActors`); the keys of polls and hours differ
(`SlotsDisjoint`); and the mutex under the lane is made for as many calls as
there are cycles (`CallPerCycle`).

`OneInvitationInPollMode` has a hypothesis of its own. `PollMode` is the
configuration of `zillow_poll` with any leads, slots and number of faults: polls
only, one segment, a probe that lists at least as many broadcasts as there may be
faults, and neither "crash", "db", "details" nor "landed_partial" among the
faults. Outside of it the code does repeat texts: section 7 says how a killed
process, a partial ambiguous broadcast, an unreadable recipient list, a forced
hourly run and the applicants' segment each lead to a second one.

### Arguments
Hardly any of the properties is inductive. What each needs beside itself:

- **The CSV is not stale** (`CsvInv`). While a CSV waits to be sent, the
  opted-out phones in it are those that opted out late, and no other batch that
  counts as sent or unresolved shares a phone with it but the owner's.
  `StopRespected` is about a step, and a step knows nothing of when the CSV was
  built; the invariant carries that. It needs that nothing but `Upsert` writes a
  batch between build and send, which is where the mutex enters.
- **One invitation** (`PollInv`). Every broadcast is backed (`Backed`): by a batch
  with its phones that is sent or ambiguous, or by the record that comes next, so
  the next CSV leaves its phones out. The hard step is the resolver, which may
  demote such a batch when the probe does not list the broadcast. It does not
  come to that: each cycle that leaves a batch ambiguous costs a fault, so with
  fewer faults than the probe's window the broadcast is still in sight. The last
  conjunct of the property orders two histories and needs to know which leads an
  import or a cycle had read before a link by hand was recorded (`Links`).
- **The mutex** (`IInv`). Two calls could wait for the same promise. `Chained`
  says that the calls form a list: each waits for an earlier one, none is
  skipped, and the newest is `chain`. Exclusion follows because of two running
  bodies the later one's predecessors have all settled; the flag needs
  exclusion, for a second body's end would lower the flag of the first. The
  refinement maps the calls that are linked and not settled to the abstract
  queue; `Run` is `Grant`, `Settle` is `Release`.
- **The lane** (`LaneInv`). Every step of the lane is a step of each lock or
  leaves it alone (`LaneSteps`), so both inherit the mutex's invariant, the
  screen through an instance of `CycleMutex_proofs`. What is left is that a task
  past a lock is the holder of the call it was given, and that no lock sees more
  calls than it was made for, a matter of counting.
- **The poll driver** (`GapInv`, `StreakInv`, `SentInv`). `lastCycleEndMs` is
  when a poll last ended, although ticks overlap: a tick that decides is one of
  the last two, and a poll that would start from an older reading finds the lock
  held. A streak of blocked decisions is known to `pollState` within one tick.
  For the ceiling, today's batches split into those of polls and those of
  scheduled cycles (`Split`); a tick that may still start a poll has counted all
  of the former, so only its own cycle and the scheduled ones can pass it.
- **The watchdog** (`MissInv`, `RunsOnce`). A miss, once judged, stays one: what
  is judged is over by its hour and the grace (`JudgedOver`, by the laws of
  division), and a run claims the slot of the moment it starts. An open streak
  was told where it began (`StreakTold`); of the misses of one tick that lead to
  a slot with no run between them the least is told, or continues that streak
  (`EarliestMiss`). A bad run is reported when its slot is judged, provided it is
  over then; without sleep and manual retries a slot is claimed once and its run
  ends `MaxRun` after the row's `startedAt`, so one that started on time is.
- **The relay** (`WorkInv`, `StopInv`, `CapsInv`). A worker, call or sweep, has
  its row to itself, and the row's status says how far it is; a worker past its
  look at the opt-outs may text; and while no two checks overlapped there is one
  sender, whose caps leave room for one more text. The counts are cardinalities
  of filtered sets, compared under the addition of one element.
- **Calls** (`CallInv` per call, `Lines`, `Cut`). The program counter, the line,
  the session, the registry and the bill of one call fit together; a step of one
  call keeps the others' (`SameKeeps`). `Lines` counts the calls admitted
  against those that were between check and registration.
- **Letting** (`Basics`, `LetOnce`, `Status`, `Settled`). A request past the
  check knows that there was no active lease; if one appeared since, the unit is
  in `overlapped`. Rows are numbered as they come, and there is room for every
  request that may still create one.
- **Applications** (`Linked`, `Stands`, `AloneInv`, `FilledInv`, `DecidedInv`,
  `ForwardInv`). An invite marked used belongs to one application, or to one
  form between its claim and its insert, or is burnt; the transaction of the
  survey form and the claim of the public form both move it there from open. An
  applicant whose submissions have not met has one under way at most, and then
  no recent application, which is what the duplicate check had read. A
  conversation about to write the custom answers is alone and has read those
  that are there, so answers are never lost before a completion that saw them;
  a completion or decision in flight knows what it read still to hold
  (`DeskSound`): no status goes back to in progress. Who holds a decided
  application held it before, or has given it up to start anew.
- **The link for one caller** (`Inv`). The last accepted send is in the ledger,
  or its record is the next statement, or an upset has hit that caller; a check
  that passed stays true until the send; a group that holds another's number has
  an upset to show for it.
- **Numbers and tours** (`PlaceInv`). A number bought and not yet assigned is
  one request's, a number on its way back at most the property's it is taken
  from; standing tours at a time are counted with the requests past the check.
- **The subscription** (`PlanInv`). What Stripe bills is the row's, a stray's or
  about to be the row's (`Billed`); the last event queued of a subscription has
  its status (`LastEvents`) and with none queued the row follows it
  (`RowFollows`); between the two statements of a change of plan Stripe is ahead
  (`Priced`); properties there and properties past the check are within the plan
  (`Counted`).
- **Refunds** (`RefundInv`). A settled payment was recorded offline or its event
  was delivered; without duplicates a payment is completed once and before it is
  refunded (`SucceedsOnce`); what Stripe has refunded is marked so, or about to
  be (`RefundsEnd`).

- **Charges** (`ChargeInv`). A charge's status follows from what was paid, and so
  do those of the values a request is about to write (`PlanSound`), computed from
  charges that may have moved since; what makes them still fit is that a charge
  never changes its amount, month or kind.
- **Oldest first** (`OrderInv`). While requests do not overlap there is one at a
  time, and what it is still to write keeps the order at each of its writes, for
  the webhook writes the charges one by one.
- **Nothing invented** (`RaceInv`). A lost update leaves the charges with less
  than was received, and the next write may bring back what was lost, so the sum
  of the charges is not inductive. Instead there are bounds, one per charge
  (`Backs`): no charge and no value about to be written is above its bound, but
  for an offline payment by its own amount, and the bounds, with what the
  webhooks have completed and not yet read charges for, sum to no more than what
  came in. `RaceKept` moves the bounds at each step. A refund runs alone here, and
  takes its amount or all there is.
- **Nothing lost** (`ExactInv`). Undisturbed, the request that runs will have made
  the two sums equal once it has written all it planned (`Balanced`).

The last two need laws of sums over finite sets: of a sum of sums, of one changed
summand, and that a credit handed out charge by charge comes to the lesser of
itself and what is owed (`CreditSum`, `ReversalSum`). The community modules
define a sum as a fold, a recursive function over subsets, and state no laws. The
prover has no induction, so the existence of that function (`FoldExists`) and
each law is shown by a least counterexample in the well-founded order of the
numbers (`LeastOf`, `SmallestOf`).

### Only model-checked
- Liveness (`EveryLeadServed`, `EveryTaskEnds`, `EveryRowSettles`,
  `ExpiryHandled`): fairness and ENABLED are out of the prover's reach.
- `OneInvitation` outside poll mode, where it is false as section 7 says.

## 7. Where the code does not do what it says

A statement of the repository and what the code does instead:
- zillow-auto.ts:398: a process killed between the accepted broadcast and its
  record leaves the batch `built`, which no dedupe counts, and the next cycle
  texts the same leads; the quarantine was made for a killed process
  (textemall-broadcast-api.ts:107) but is written only by one that lives. Adding
  "crash" or "db" to the faults of `zillow_poll` shows it.
- relay-guards.ts:99: an opt-out confirmation is stored as a link, so when a cap
  defers it, the sweep drops it because of the opt-out it confirms
  (relay-guards.ts:63).
- stripe webhook route.ts:120: a repeated `payment_intent.succeeded` credits the
  open charges again (stripe-webhook.test.ts:374 and :396 say idempotent);
  `Conserved` without its exception "duplicate" shows it.
- zillow-import.ts:250: "Lifecycle state is sticky", but it is read by one call
  and written by the next: a STOP, an application or a link by hand in between
  is set back to `new`. `OneInvitation` without `unseen` shows the second text.
- survey.ts:205: "Text us again and we'll send you a fresh one." An expired
  invite still occupies the partial unique index
  (migrations/20260812151438_sms_relay_ledger/migration.sql:43), so the insert
  fails and the text is not answered (`TextForLink`).
- survey-forward.ts:6 forwards "completed" applications; a voice call also
  forwards one whose completion was refused (call-handler.ts:119), and the mark
  it leaves then suppresses the real summary.
- individual-relay.ts:67: "the caller always gets exactly one link", but a form
  post that throws is not followed by the fallback, and a person of the other
  group is refused without a look at the reply.

Seen while modelling, and left to the reader (the constants named make TLC show
the behaviour in the module):
- zillow-auto.ts:418 writes the lead flip by id without `status: "new"`, so a
  STOP between the select and the write is overwritten on the lead; the opt-out
  table still holds back later texts, which is what `StopRespected` checks.
- A broadcast that is both ambiguous and partial can never match its batch, so
  it is demoted and repeated (`Faults` with "landed_partial"; the same for a
  recipient list that cannot be read, "details").
- A forced rerun in the legacy hourly mode upserts over an unresolved batch of
  the same key (`Faults` with "force", `RunHours` FALSE).
- With `ApplicantRelay` TRUE, a broadcast of one segment can be taken as the
  evidence for a batch of the other, and the applicants segment has no
  quarantine of its own (textemall-csv.ts:89).
- A `try` call made just after a `wait` call was linked, before its body has
  started, queues behind it (zillow-cycle.ts:40 against :12).
- Poll driver: a read that throws is not a blocked decision (zillow-poll.ts:259
  against :166); the end of a scheduled cycle does not delay the next poll
  (:250 against :34); the ceiling can be passed by three batches (:101 against
  :36), which `CeilingBound` makes exact; the last texts can leave after the
  window (:97 against :29).
- Watchdog: a run that ends badly after its slot was judged is never reported
  (`BadRunReported` is about runs that start `OnTime`); a retried row keeps its
  `startedAt` and can be reported as crashed while it runs (`VerdictsStand`
  excludes manual retries).
- Relay: calls that race past each other's counts overshoot the caps
  (relay-guards.ts:32; `CapsHold` says "unless raced"); the sweep does not look
  at the cooldown; callers' links have none (caller-link.ts:20); a text that
  left before a crash, a timeout or a failed write is sent again (`AtMostOnce`
  excludes "landed", "db" and "crash").
- Rent: a late `processing` event turns a completed payment back; an event that
  comes before the intent's id is stored, or whose handler throws, is answered
  200 and lost; a transaction that fails after Stripe's refund cannot be
  retried; an overpayment's remainder is dropped. `upset` names each, and each
  property names those it excludes. A card payment is created pending and no
  code stores the intent's id for it (create-intent/route.ts:139), so no event
  ever settles it.
- Imports and links by hand: a link that the relay calls failed may leave with
  the sweep while the lead stays `new`; the write after a link overwrites an
  application or a STOP that came meanwhile (zillow-send.ts:78).
- Applications: `completeApplication` looks at no status and overwrites the
  review notes (`late` names who can); a summary that the sweep sends is never
  marked; SMS conversations forward none; a deletion that stops half-way leaves
  a property without its questions, whose applications then complete empty; a
  conversion creates the account and the invite, so signing up with it is
  refused with the invite spent; addresses are compared as typed.
- Individual relay: a failed record of a fire is swallowed, and a stalled job
  that is run again can send twice on the API path; a caller's link has no
  cooldown in the relay.
- Voice: stop and close handled at the same time bill the call twice; a
  reconnect that overlaps an end leaves a session nobody closes; a close during
  the lookups is lost, and the call keeps its place for ever; a write that fails
  in a close handler, or a read that fails in a reconnect, is an unhandled
  rejection and ends the process; from 45 minutes on the monitor closes the
  session every 30 s, so longer calls end after `MAX_RECONNECTS`; without an API
  key the line stays open, mute and unmonitored; a shutdown does not wait for
  calls in their lookups.
- Tenancy: two requests past the active-lease check let a unit twice; a stale
  termination vacates a unit that is let again; a unit's status can be set
  against its leases; a renewal made while the job converts is lost. `renewLease`
  and `terminateLease` (lease-expiration.ts:133) have no caller.
- Subscription: Stripe answers a cancellation with an "updated" event that sets
  the row's `canceled` back (webhook route.ts:354) until the period ends; a
  canceled row blocks subscribing again (subscription/route.ts:71); two requests
  at once leave a subscription at Stripe that no row holds (:112). Nothing
  stores a `stripeInvoiceId`, so invoice events match nothing and three failed
  invoices never make a row `past_due`. feature-gate.ts, which looks at the
  row's status, has no caller; the route that adds a property does not look at
  it. Usage is kept by local month (usage-tracking.ts:19) and billed by UTC month
  (jobs/billing-cycle.ts:20).
- Phone numbers: a deleted property keeps its bought number at the carrier; the
  onboarding page sends a sid it made up (onboarding/page.tsx:297), so no number
  is bought and the property is shown as active with it.
- Tours: the landlord can revive a canceled tour whose time has been taken;
  overlapping durations are not compared, and `getAvailableSlots` does not see
  the bookings of the last day.
- An hourly cap of 0 still lets one text through an hour: the reserve for
  forwards never takes the last place (relay-guards.ts:194); `CapsHold` says so.
- Home-search alerts are sent past the guards, so the caps do not count them
  (home-search/engine.ts:24).

## 8. Not modelled

React pages, PDF and e-mail generation, prompts, provider clients, Safari
scraping and audio streaming are rendering or I/O with no protocol of their own.
Configuration is constant during a behaviour: the 60 s cache and the silent
default of a failed read (config-resolver.ts:49) are left out. Each component
has its entry and reason in `PROJECT.json`. The larger ones:

- The monthly billing job rolls one period per subscription and runs alone;
  deposit reminders read `moveOutDate`, which no page sets.
- Deduplication of inbound webhooks (`ProcessedWebhookEvent`): the event is
  recorded before it is processed, so a crash in between loses it; the models
  take an inbound text as delivered at most once.
- The GUI drive of the form path, home search, notices, maintenance and
  messages: external providers, documents, or updates of one row.

## 9. Plan

Done: the modules of section 2, their runs, and the proofs of section 6.

Next, in this order:
1. `RentLedger`: its type invariant (the proofs carry `RentTyped` and
   `LedgerSound`, which say less of requests at rest).
2. Abstract specifications: an at-most-once channel implemented by
   `ZillowCycle` in poll mode; an account (received, credited) implemented by
   `RentLedger` when requests do not overlap.
3. `WebhookInbox` (delivery, `ProcessedWebhookEvent`, redelivery, a crash in
   between) in front of `Applications` and `RelayLedger`.
