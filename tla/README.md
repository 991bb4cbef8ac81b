# crawlmouse: models, runs and proofs

CrawlMouse crawls a web site, grades how its pages link to each other and shows
the result to whoever started the audit. This directory holds TLA+ models of
the parts of it where several parties share rows, threads, queues or clocks, the
TLC runs that check them on small instances, and proofs of what holds for every
instance.

    tlc -config AuditOverlap.cfg MCAuditLifecycle.tla     a run
    tlapm AuditLifecycleProofs.tla                        a proof

## The system

| Part | State it keeps | Operations | Talks to |
|---|---|---|---|
| Audit lifecycle (`src/inngest`, the `api/audits` routes) | an `audits` row and its `pages`, `links`, `findings`, `fixes` | start, cancel, notify, the five steps of `auditFn`, the failure handler, the mail | Inngest (events, steps, retries), Resend, Sentry |
| Admission (`rate-limit.ts`, start and reaudit routes) | rate-limit buckets in the database | pause check, global, ip and domain buckets, captcha gate | inserts the row, sends `audit.requested` |
| Progress and stream (`progress.ts`, `stream/route.ts`, `use-audit-stream.ts`) | a ring of activity in the row; a sequence per batcher; the client's high-water mark | batch, flush, poll, self-close, reconnect | reads and writes the `audits` row |
| TTL cleanup (`billing-helpers.ts`) | none | batched delete of expired rows | cascades over the audit's children |
| Billing v1 (`apply-stripe-event.ts`, checkout, reconcile) | `users.stripe_customer_id`, `users.pro_until`; the `stripe_events` ledger | checkout, webhook, daily dry run, manual reconcile | Stripe (events, subscriptions) |
| Billing v2 (`state-machine*.ts`, not live) | an entitlement with a version | decide a transition, commit it against the version | account and sites tables |
| Worker service (`packages/worker`) | batch records, nonces, limiters, all in memory | admit, run and report a batch | engine, sites on the web |
| Worker politeness (`politeness/*`) | per-site queue, gap, slots | schedule, back off, abort | the worker's fetches |
| Thread reader (`reader/*`) | a thread and a queue of reads | send, reply, deadline, crash, restart | a worker thread |
| Frontier functions (SQL) | `frontier` rows, their state and claim | claim, settle, upsert, sweep | no caller in TypeScript yet |
| Engine (`packages/engine`) | one crawl's frontier, robots cache, results | crawl, grade, detect, diff | `crawl-and-persist` calls it |
| Reports, claims, domain verification, UI | shared reports, `audits.user_id` | mint, hide, claim | the database |

What is hard about it:

- **Nobody holds a lock.** Every writer of an audit issues single UPDATEs with a
  guard on the status; cancel, failure, completion, pause and cleanup race.
- **At-least-once steps.** Inngest retries a step it has no answer for; it does not
  know how far the lost attempt came, and the attempt may still be running.
- **Supabase answers errors as values.** A call whose `error` nobody looks at fails
  without a trace, and the code goes on.
- **Stripe delivers events at least once and unordered**, several at a time, and
  each carries a snapshot that may be old.
- **Bounded resources with late answers**: site slots, reader threads, batches.

What makes each part correct: an audit ends once and stays ended; a completed
audit shows one whole crawl; its end is told once and truly; a started run ends.
An event that was acknowledged has been applied; every event is applied in the
end; webhook and reconcile agree about Pro. A stale decision about an
entitlement is never committed, and no old event brings a plan back. A site is
never fetched faster than its gap; a stop holds; what waits is started. A signed
request runs its batch once. Every read is answered once, with its full time. A
crawl's sample depends on the site and not on the order of the answers, and a
partial crawl says so. The page shows every event once, and its view never goes
back.

`PROJECT.json` lists every part with its status and, under `hazards`, each place
where this bites, with the properties that cover it.

## The modules

### AuditPromise: what an audit promises

Status, mails and alerts only: forward through the statuses, one end, at most
one mail and one alert, each about an end that calls for it. A blind alert says that
an end could not be written down, whatever the audit has come to.

### AuditLifecycle: how the code keeps it

One audit; every query of these handlers is keyed by the audit id, so audits do
not meet here.

| Model | Code |
|---|---|
| `audit` | the `audits` row: status, the crawl its grade is from (`report`), which error it carries, notify_email, notified_at, expires_at |
| `kids` | its child rows, each the pair of the crawl it is from and its part of the content |
| `starter`, `canceler` | the awaits inside the start and cancel routes |
| `run`, `awaited` | Inngest: the run, its current step and attempt, the invocation it waits for |
| `inv` | the invocations of the serve route: the job, a program counter between two awaits, the result and the letter it holds in memory |
| `Start` .. `TogglePause` | the routes, the cleanup, the operator |
| `Dispatch`, `Answer`, `LoseAnswer`, `Kill`, `GiveUp` | Inngest and the platform: external, from how `audit.ts` and the serve route use them |
| `PauseGate`, `MarkCrawling`, `Crawl` | the steps of `auditHandler` |
| `Clear` .. `Complete` | `persistAuditResults`: delete, insert, complete last, one action for each request to the database |
| `MarkFailed`, `RaiseAlert` | `handleAuditFailure`: the UPDATE that finds a running row, none, returns an error, or throws; in the last case the `finally` signals and the error goes on to Inngest without a mail |
| `alerts` | the signals raised for a row that was marked, and those of an UPDATE that threw (`blind`) |
| `MailRead`, `MailClaim`, `MailSend` | `sendAuditNotification` |

Abstracted: the crawl is one action that returns a result or throws (its number
names the result); page content, grades and wording; a page's rows as `Chunks`
requests; the 30 days of a free audit (it may expire at any time). A fault is
one of the kinds listed at `FaultKinds`; each run names the kinds it allows and
`MaxFaults` bounds how many happen. A database call that fails is taken to have had
no effect; one that took effect and whose answer is lost is `lost` at the end of a step only.

### StripeWebhook: how a user comes by Pro

One user, who buys `Subs`. `stripe` and `events` are Stripe: subscriptions, and
the events it makes of their changes, each a snapshot. A billing period is a
number whose end stands for the instant; 0 is a null `pro_until`.

| Model | Code |
|---|---|
| `OpenCheckout` | the checkout route: the row's customer, or a new one |
| `PayCheckout`, `Change`, `Deliver` | Stripe, external |
| `Insert`, `Prior` | the ledger row and, on a conflict, the look at `processed_at` (whose error nobody looks at) |
| `Link`, `Retrieve`, `Grant` | `checkout.session.completed` |
| `Entitle` | `customer.subscription.*`: silent, applied, or thrown back at Stripe |
| `Stamp`, `Respond`, `Abandon` | `processed_at`, the 200, and every way not to get there |
| `ReconcileLoad`, `ReconcileList`, `ReconcileWrite` | `loadCustomers` and `reconcileCustomerChunk` |
| `seen`, `processed` | `stripe_events` without and with `processed_at` |
| `applied` | history, for the properties: the events whose write was made |

Abstracted: other users (each UPDATE names one), statuses (trialing and past_due
are active, unpaid and the rest canceled), the livemode check, a customer Stripe
deleted, and the clock: whether `pro_until` has passed is decided where it is
read. The read and the write of the reconcile's repair are one action: when the
row equals the list nothing is written, which is as good as writing it then.

### AccountPromise and EntitlementMachine: the v2 entitlement

`AccountPromise` says what the plan of an account may do: one trial, never after
a dispute; only a plan that was there falls behind, once; a dispute is never
forgotten. `EntitlementMachine` is how the code does it.

| Model | Code |
|---|---|
| `account`, `version` | the `accounts` row as the machine reads it, `entitlement_version` |
| `Decide` and the operators above it | `next` of `state-machine.ts`: one operator for each decision, with `Stale`, the legality check that throws, and what it does with the last-change stamp |
| `Load` | the row is read and `next` is called; the status of a checkout's subscription was asked for before |
| `Commit`, `Written` | `apply_entitlement_transition`: the row lock, the version check, the coalesced UPDATE |
| `Confirm` | `assert_entitlement_version`: a decision to write nothing stands only at its version |
| `Abandon` | a conflict, a throw or a death; the event comes again |
| `End`, `EventsOf` | Stripe: a subscription ends for good; which events may still be delivered of it |
| `revoked`, `gone`, `crossed` | history, for the properties |

The time stamps of events are `1..MaxTime` and 0 is null. Effects (mails,
seats), `state_history` and site plans are left out; the events that are only
recorded change no state. One window is kept out of `EndedNotFollowed` by name,
`crossed`: the live status of a subscription is read before the account, so that
its end may be settled in between; the end changes nothing, hence the version
does not move, and the grant in hand commits. The caller that reads the status
is not written yet.

### SitePoliteness: the pace of one site

| Model | Code |
|---|---|
| `lim` | `SiteLimiter`: gap, next start (`wait`), slots, queue, the pump's sleep (`nap`), latencies |
| `site`, `held` | the counters and the stop of `Sites`; whether the site is in its map |
| `lane`, `age`, `batch` | the lanes of a crawl batch, their requests, its budget, abort and rules |
| `Pump`, `Start` | `pump()` and the task it starts, which looks again at the stop and the budget |
| `Ask`, `Answer`, `Refused` | `oneRequest` before the queue, and its two ends |
| `LoadRules`, `RecordPage`, `PageRead`, `Fail`, `End`, `OtherEnds` | robots.txt and its Crawl-delay, the challenge rule, a page, a failed batch, `sweep` at the end of this and of other batches |

Instants are kept as what is left of them or how long ago they were (up to
`Long`), so that time runs for ever in a finite state. A latency counts up to one
beyond `SlowMs`, which is what the code compares with; with a window of an even
number of latencies the cap can change the median. `Settled` says that
continuations run before the next timer, answer or message is taken. `PaceAssumption`
needs every delay to be at most `Forget`: in the code 30 s against 60 s.
`Paced` speaks of the gap in force at the second start, because the sentence
of `site-rules.ts:33` that a Crawl-delay is honoured in full does not survive a
sweep: a site that was forgotten starts at the floor gap, also for a batch that
read its rules before.

### BatchService: the worker's requests and records

| Model | Code |
|---|---|
| `signed`, `seen` | the age of a request's timestamp and of its nonce (`auth/hmac.ts`, `auth/nonces.ts`) |
| `records`, `runs`, `starts` | `BatchStore`, the runs that go on, and how many each request started (history) |
| `Refuse`, `Accept` | `POST /batch` up to its last check: busy, `batch_exists`, `nonce_replayed`, accepted |
| `Poll`, `End`, `Pruned` | `GET /batch/{id}`, a run's end, and `prune`, which every one of them calls |
| `Restart` | the process: nonces and records are in memory |

Of records that finished in the same instant any may be the older. The name of a
nonce that can no longer pass is used again. A restart forgets the nonces, so
`RunsOnce` is per life of the process; within one it needs `MaxNonces` to be no
smaller than the nonces in their window, and `Concurrency <= MaxRecords`.

### ReaderPromise and ThreadReader: the page reader

`ReaderPromise`: reads are settled once each and in order, and a thread that
breaks down costs at most one. `ThreadReader` has the main thread (`Send`,
`Deliver`, `Fail`, `DeadlineFires`) and the reader thread (`Boot`, `Work`,
`Die`), with what the thread has posted (`out`), what waits for it (`inbox`),
and what threads that were let go may still deliver (`stale`, `LastWords`).
`onIt` is history: how long the current thread has been on each read. `FullTime`
has one exception, `thread.dead`: the deadline of a read may fire between the
death of its thread and its delivery. A thread that dies idle fails a read that
was sent before its death was delivered and that it never tried: that is the
breakdown the promise counts. `close`, which only tests call, is left out.

### FrontierCrawl: the deterministic crawl

The site is a constant: links, where a request lands, templates, sample keys.
Which answers come, in which order, late or never, is not.

| Model | Code |
|---|---|
| `pool`, `ever`, `admitted`, `depth`, `buffer` | the same of `crawler.ts` |
| `Selected` and what it is built from | `selectFrontier` of `analysis/frontier.ts` |
| `Select`, `SelectTooLate`, `RoundEnds`, `Finish` | the loop of `runDeterministicLevels` |
| `StopRound`, `DeadlinePasses` | the round's clock and the crawl's; a cut round leaves requests in flight |
| `RunRejects`, `lost` | `runWithWallClock` when `crawler.run()` rejects: swallowed, no clock was hit, and the round goes for read; the requests it left (history) |
| `Answered`, `AnsweredLate` | `requestHandler` and `failedRequestHandler`, in their round or in a later one |

The two clocks are one flag, `overdue`, and a round that may be stopped at any
time. Retries inside Crawlee, robots and the fetch itself are left out, and so
is the legacy crawl. Three remarks the model brought up: the share cap of
`constants.ts:71` never decides anything (`ShareCapNeverDecides` is a theorem:
the round robin alone gives the same picks); the pool keeps the URL as it was
first written, so that the order of answers may decide which writing of a page is
requested although the sample is the same; and the children of an answer that
came late get the depth of the round it came in.

### ProgressStream: how a page follows an audit

| Model | Code |
|---|---|
| `writer`, `Emit`, `StartWrite`, `Land` | `createProgressBatcher`, one for each attempt of the step; its chain of writes and the guarded UPDATE |
| `conn`, `Tick`, `Polled`, `PolledNothing`, `Finish`, `SelfClose` | `stream/route.ts`: the interval, the read that is under way, the watermark, the results, the close before the platform's limit |
| `wire`, `Break`, `Connect`, `Receive`, `Fold` | the messages under way, the connection, `EventSource`, `audit-stream-wiring.ts` and `reduceActivity` |
| `Advance`, `Begin`, `Complete`, `Stop` | who ends the audit and the attempt, from `AuditLifecycle`'s side |

A read sees the row of the moment it was asked. A connection that is opened again
is answered 200. `FeedWhole` leaves out what `progress.ts:77-82` accepts: events of a
retried crawl under a number already shown. The comment at `stream/route.ts:223-225`
says that after reads that throw the client "will reconnect and retry"; the page
closes its `EventSource` on the named error (`audit-stream-wiring.ts:47-52`), so
it stays without results until it is loaded again. `PageSettles` counts that
as told.

### MC modules and proof modules

`MCAuditLifecycle` names the fault sets; `MCEntitlement` and `MCService` the
symmetries; `MCPoliteness` the lanes; `MCCrawl` the site of the Crawl run;
`MCStream` the events of each attempt. `AuditLifecycleProofs`,
`StripeWebhookProofs`, `EntitlementProofs`, `PolitenessProofs`, `ServiceProofs`,
`ReaderProofs`, `CrawlProofs` and `StreamProofs` hold the proofs, each about the
module it is named for.

## The runs

| Run | Instance | Shows |
|---|---|---|
| AuditThrown | 1 invocation at a time, 2 addresses, 2 page requests, 4 faults of calls other than the mail, the failure handler's UPDATE that throws included, fair | a completed audit is whole (`ReportWhole`); a failure that could not be written is signalled; `AuditPromise` is refined; who left an address gets the mail |
| AuditOverlap | 2 invocations alive, every fault, 2 of them | one true mail, one true signal for a row that was marked, an end is final |
| AuditEnds | fair; thrown faults and kills | a run that started ends its audit |
| AuditLostAnswer | *violated* | a retry after a lost answer rewrites the children of a completed audit |
| StripeOrdered | 1 request at a time, events in order, 2 periods, 2 faults | when every event is through, the row says what a reconcile would say |
| StripeFair | fair retries, any order, 2 faults, reconcile | acknowledged means applied; every event lands; the reconcile converges |
| Entitlement | 2 handlers, 2 subscriptions, 2 seconds, 4 commits | no decision is illegal or made on an older account, no old grant, disputed or ended subscription brings a plan back, the grace is not extended, `AccountPromise` is refined |
| Politeness | 2 batches with 2 lanes and 1, one delay, fair | starts are paced, a stop holds, nothing forbidden is sent, the pump is never left asleep with a queue, the queue moves |
| Service | 3 requests for 3 batches, room for 2 records | one run for a request, runs and records agree, what has just ended is found |
| Reader | 3 reads, fair | nothing is lost, each read has its full time, `ReaderPromise` is refined, every read is settled |
| Crawl | a site of 10 URLs, at most 8 pages, rounds of 2, runs that reject | partial crawls say so, but for what a rejected run left, the pool keeps the shallowest depth, the sample depends on the site and on what failed, no template drains a round, what was read stays, the crawl ends |
| Stream | 2 attempts of 3 events and 1, a ring of 2, 1 fault, fair | the feed is whole and shows nothing twice, the view never goes back, the page is told the end |

The violated run is the one entry of `findings`: it checks what a comment of the
code says against what the code does. Five more disagreements have no run of their own:

- `audit.ts:265-267` says that a database error never loses the signal of a
  failed crawl. That holds of an UPDATE that throws (`FailureSignalled`, under the
  `reject` of AuditThrown); one that returns its error as a value (`onfail`) leaves no
  rows, which the handler takes for an audit that had ended: no signal, and a row that runs.
- `crawler.ts:815-817` says that `truncated` keeps a stranded round from being reported
  as a complete read. A round whose `crawler.run()` rejects is stranded too, and
  `runWithWallClock` (367-371) answers that no budget was hit: `truncated` stays false,
  and the crawl may end as complete with what it charged unread. `PartialIsSaid` and
  `SameSample` name these requests (`lost`) as what they leave out.
- `persist-results.ts:192-193` says that the row is always crawling when results
  are persisted. mark-crawling does not look at the error of its UPDATE; when it
  failed, the completion matches no row and the run succeeds over a pending audit.
- `apply-stripe-event.ts:64-71`: an old snapshot that comes last takes Pro from
  an active subscriber; only the reconcile (`Converges`) or the next event brings it back.
- the Crawl-delay after a sweep, and the error of the stream, both described above.

**Bounds.** *Audits*: `Retries = 1` gives a step its first attempt, a retry and
the failure handler, the three cases the code tells apart. `MaxFaults` lets two
attempts of a step fail and the handler, or the mail, as well; in AuditThrown the
handler's UPDATE may throw twice after them. Two slots are one
invocation that Inngest gave up and its successor; a third would be a second one
given up, which the guards treat alike. Two page requests leave a partial insert
between them. *Stripe*: one checkout and one or two periods give four or five
events, enough for an old snapshot, a renewal and a cancellation to overtake each
other. `MaxEvents` is what a subscription can have events of. Events
without a period end (`MayOmit`) and a ledger row that cannot be read
(`MayMisread`) are where the agreement fails by design: the code then keeps what stands.
`AcknowledgedIsApplied` is proved with both. *Entitlement*: two subscriptions
are the current one and another; two stamps are earlier and later; a grant, a revoke, the
grant again and one more are four commits. Handlers overlap below version
`MaxOverlap = 2`, after it one works at a time. *Politeness*: the delay is twice
the floor and equal to `Forget`, the edge of the assumption; `SlowMs = 0` and a
window of one make a site slow and fast again; the cooldown is longer than a
sweep. *Service*: `Skew = 1` gives five ages of a timestamp; the store is full with two
records. *Reader*: three reads are one that fails, one that is sent again and one that
comes while the new thread boots. *Crawl*: the comment in `MCCrawl` says what each part of the site
is there for; `MaxLost = 2` lets a rejected run leave a whole round, or two runs a part of theirs. *Stream*: three events wrap the ring of two; one event of the
second attempt overwrites it with lower numbers.

**Deadlock** is checked except in Reader, Crawl and Stream, where the system
may really stop: every read was sent and settled, the crawl is done, the page is closed.

**Fairness.** `AuditLifecycle` is weakly fair to `Dispatch`, `Answer` and the
code of an invocation: Inngest schedules what is due, and awaits return. No
visitor, operator or clock is obliged to act. `StripeWebhook` is weakly fair to a
handler and to the reconcile, and strongly fair to the retry of each event that
was not answered: Stripe retries for three days, which the model takes for ever,
and a request slot may be taken by other deliveries in between. The reconcile is
manual: `Converges` says that it repairs when somebody keeps asking for it.
`SitePoliteness` is strongly fair to time, to the pump's timer and to some answer,
because batches that begin and end without waiting may come between any two turns of
the event loop, which still gets to what is due; each request has a deadline.
`ThreadReader` is weakly fair to delivery, the deadline, time and a thread that
loads or dies; a read itself may take for ever. `FrontierCrawl` is fair to the
loop and to the clock, never to the site. `ProgressStream` is fair to the
interval, to reads that come back, to messages and to `EventSource`'s reconnect, not to
the crawl or the owner.

## What is proved

For every value of the constants, from the assumptions named in the modules (that
each `NoX` is not one of the `X`s, that bounds are naturals, and those mentioned above):

**AuditLifecycle.** `MailIsHonest`, `AlertIsHonest`: at most one mail, to the
address that stood and about the end that came; at most one signal for a
row that was marked, only for a crawl that failed; what an UPDATE that threw signals is
counted apart. `EndingIsFinal`: no step changes an audit that ended but to
stamp or delete it. `LifecycleKeepsPromise`: every behaviour is one of
`AuditPromise`, also where the handler's UPDATE throws. The invariant is `IInv`. `MailHonest` is
not inductive: it says nothing of an invocation that has read the row and not
yet sent. `MailInv` adds that a letter in memory is true (the row it was read
from had ended and cannot change), that an unclaimed row means nothing was sent
and nobody is past the claim, and that the one past it is alone. `AlertInv` does
the same for the failure handler past its UPDATE, and `BegunInv` says that
nothing runs before the row is there. The lemmas `WorkWrites`, `WebWrites` and
`InngestWrites` sort the actions by what they do to the row, `WorkMoves`,
`InngestMoves` and `WebMoves` by what they do to an invocation, so that the
proofs need not look at thirty actions. Two more theorems hold under the faults that
their runs name, and for any number of audits' attempts, pages and rows.
`ReportIsWhole` (no step whose answer is lost, no invocation dropped between its
steps): `AloneInv` says that one invocation works for the run at a time, and
`ReportInv` what of the report each step it has passed has written and which parts of
the children it has still to write; the violated run shows that the hypothesis is
needed. `FailuresAreSignalled` (the failure handler is neither killed nor dropped, and its UPDATE
returns no error as a value; it may throw): `FailInv` follows the handler from its call
to a row that no longer runs or to a signal, which is never taken back (`SaidStays`).

**StripeWebhook.** `AcknowledgedIsApplied`: no event is answered 200 before it
was applied and stamped, with any number of requests at once (the run has one).
`RequestInv` says what a request past its write, and past its stamp, may rely on.
`WebhookAgrees`: for the one subscription of the StripeOrdered run, one handler at a
time and complete events in order (`OneAtATime`), with any number of renewals and of
faults, the row ends with the Pro a reconcile would give. `AgreeInv` says that the
last event is what Stripe holds, that events are taken in their order, and that
once the last is applied the row and whatever may still be written agree with it. Out
of that order the property is false, which is the third disagreement above.

**EntitlementMachine.** `MachineNeverThrows`, `DecisionsAreCurrent`,
`OldGrantsAreRefused`, `DisputesHold`, `GraceIsNotExtended`, `EndedIsNotFollowed`
and `MachineKeepsPromise`. `IInv` holds three ideas: what a handler holds is the
decision of a legal snapshot that is still the account as long as the versions agree,
the row's last-change stamp is no earlier than any revoke that was
settled; and a subscription whose end was settled is neither the one followed nor
in the hand of a handler that could still write it (`EndStands`). `DecideSound` shows that from a legal snapshot every event leads to a
legal one (no throw), decision by decision; `DecideOK` what each decision may do to
trial, dispute, grace and stamp, which the theorems then cite.

**SitePoliteness.** `StartsArePaced`, `StopsHold`, `PumpIsCalled` and
`SendsAreAllowed`. `Pace`
relates what the limiter keeps to what it may have forgotten: what is left to
wait and the time since any start, by any limiter of the site, are together at
least the gap; a site that is idle long enough to be forgotten has been quiet
for as long. `~MayStart(lim)` between two actions is the pump's
promise: whoever changes the queue or the slots has called it. `QueueInv` says that no
task of an aborted batch waits in the queue and that a batch that goes on is aborted
only by its budget, after which it asks for no more; `Dropped`, which filters the queue, is a recursive function, and the
lemmas about it (`KeptExists`, `DroppedFacts`) go by induction over the
queue's length, from the well-foundedness of the naturals.

**BatchService.** `RequestsRunOnce`, `RecordsMatchRuns` and `EndsAreOnRecord`. `Spent` is the
argument that the two TTLs meet: a request that started a run is out of its
window, or its nonce is remembered and not older than timestamp and skew allow.
`Pruned` takes finished records only, so runs and records agree. For
`EndsAreOnRecord`, `RoomInv` says that no more runs go on than have a place and that
only finished records take bytes: what runs and one fresh result always fit
(`OneFits`), so the prune stops before it, or took it beside another as fresh
(`FreshStays`). The sums over the store are unfolded by induction over finite sets
(`SetInd`).

**ThreadReader.** `NothingIsLost`, `FullTimeGiven` and `ReaderKeepsPromise`. The
invariant places every unanswered read (`Placed`, `Order`): in the thread's
inbox or in what it has posted, once, in order; `Posted` says what may be
posted by a thread that is up, ready or dead; `Clock` that the deadline never
runs ahead of the time the thread has been on the oldest read.

**FrontierCrawl.** `PoolStaysShallow`, `PartialIsAlwaysSaid`, `ReadPagesStay`,
`ShareCapNeverDecides`, `RoundsAreShared` and `SampleIsSame`. `Agree` ties the pool to everything ever discovered, and
`Charged` says that until a round is cut, what the cap was charged for is answered,
waited for or left by a run that rejected. For `RoundsAreShared`: the picks are a down-set of the order by pass
(`PicksAreFirst`), so a template with k picks lost its first k places (`LastPick`)
and one that has pages left has given all passes up to its picks (`FirstLeft`).
`SampleIsSame`: the reference that gives one slot at a time, to whom has the fewest,
takes in n slots what `selectFrontier` picks at once (`SlotIsNextPick`,
`RoundIsSelected`); `SampleInv` says that a crawl no clock has cut stands, between
two rounds, where the reference stands after as many, and within a round what the
buffer holds is the links of those that were read, in whatever order; to it, what a
rejected run left is dead like what failed, as long as none of it is read in a later
round (`Clean`, `Once`). One hypothesis is
needed, `OneWriting`: all writings of one identity lead to the same links. The pool
keeps the URL that was discovered first (`crawler.ts:764`), and which that is depends
on the order of the answers; where two writings of an identity (`pin`) serve different
pages, so does the sample, and TLC finds it on a site of that kind.

**ProgressStream.** `FeedIsWhole` and `ViewStays`, from the assumption that the feed
holds at least a ring (the code's 60 and 30). `IInv` is a part about the row
(`CrawlInv`: every ring, in the row, in a writer's memory or under way, is the tail of
what one attempt emitted) and one about the connection (`StreamInv`: an end that was
read stands, with its ring; what the watermark has passed is in the feed or on the
wire before its place, `Covered`; the feed goes up and ends at the last number shown; a
page that was told 'done' has shown up to the top of the row's ring). `ViewInv` says that the
statuses read, sent and shown stand in the order in which the row had them, so that
what arrives can only be later (`Later`).

**Types.** The type invariants of `AuditLifecycle`, `StripeWebhook`,
`EntitlementMachine`, `BatchService`, `ThreadReader` and `FrontierCrawl` are theorems
(`Typing`) and not in the runs; `SitePoliteness`'s and `ProgressStream`'s are stated, and
the proofs' invariants have the parts they need.

**Only model-checked:** liveness (`RunEndsAudit`, `MailComes`, `EveryEventLands`,
`Converges`, `QueueMoves`, `ReadsSettle`, `Ends`, `PageSettles`), which is out of
the prover's reach. `ReportWhole`, `FailureSignalled` and `SettledAgrees` are proved
only under the hypotheses named above, which the runs that check them meet,
and are false outside.

## Not modelled, and why

- *Admission*: one call after another on counters that the database updates
  atomically; only the order of the calls and what fails open is the code's own.
  Insert, send and pause check are part of `AuditLifecycle`.
- *Frontier checkpoint functions*: SQL that no code calls yet; a model would be of
  an invented caller.
- *Reports and sharing, accounts and claims, domain verification*: single
  guarded statements, or one read-modify-write by the owner alone, that touch
  neither an audit's status nor its children.
- *Engine grading and engine v2*: pure functions of one document or one crawl,
  mostly text, geometry and floating point.
- *The web interface, timing and maintenance scripts.*
- Of the modelled parts: what each component's note in `PROJECT.json` names
  (redirect hops, budgets' counts, body parsing, the legacy crawl, who may see which
  result, the reconcile's options, several users of one ledger).

Inngest, Stripe, Resend, Crawlee, the reader thread's page and the platform appear
only as far as the code depends on them.
