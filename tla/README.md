# A verification of the monitoring platform

The repository is a multi-tenant monitoring platform: a FastAPI service and a
BFF, a PostgreSQL schema with row-level security, and one worker process that
polls Zabbix sources, keeps projections, publishes transitions to an alerting
domain, and from there notifies people, escalates, opens tickets and runs
remediations.  A web console shows all of it and is how its users change it.
All durable coordination of the services goes through database tables used as
queues: rows that are claimed, worked on outside or inside a transaction, and
completed.  The console coordinates through a cache of answers.  The
specifications here are about these two kinds of coordination.  They are
translated from the code (paths below are relative to `src/`).  Of the services
they say what a *transaction* does: almost every action is one transaction, or
one step outside any transaction, of the code.  Of the console they say what a
user's step, a call or an answer does.

## 1. Inventory

### What the core does

| Component | State | Operations | Talks to |
|---|---|---|---|
| Source synchronisation (`shared/monitoring_repo.py`, `workers/{validation,inventory,metrics,current_state,history,problem_state}.py`) | `monitoring_source` (authority, evidence, poll generations), `monitoring_sync_operation` | enqueue, claim, complete per kind; meter | provider; scheduler; reconciler; API |
| Scheduler (`workers/scheduler.py`) | none of its own | due query, advisory lock, insert | sync operations |
| Reconciliation (`workers/reconciliation.py`, `sql/monitoring/018`) | `recovery_count` of the operations | reap orphans, sweep zombies, requeue failures | sync operations, evidence |
| Monitoring outbox (`workers/outbox_dispatcher.py`, `sql/monitoring/008,017,021`) | `monitoring_outbox` | append (trigger), claim a batch, POST, record, redrive | webhook receiver; bridge function |
| Alerting inbox (`workers/alerting_transport.py`, `sql/z_integration/001,002`) | `alerting.inbox_receipt` | scan, receipt, re-read of the owner, complete, mark on error | the owner's projections |
| Monitoring projections (`monitoring_repo.py`, `sql/monitoring/004,005,007`) | inventory, definitions, current state, history, health | written by accepted completions | outbox triggers |
| Problem alerting (`shared/alerting_eval.py`, `shared/alerting_repo.py`) | alerts, decisions, policy revisions | evaluate a snapshot; create, resolve, snooze | problems; notification intents |
| Notification delivery (`workers/notification_dispatch.py`, `shared/notification.py`, `api/routers/notifications.py`) | intents, dispatches, attempts, evidence, bindings, projections, callback inbox | create, claim, suppress, send, record, retry; provider callbacks | e-mail, Slack, WhatsApp providers |
| Alert suppression (`sql/alerting/003`, `sql/monitoring/020`) | snoozes, maintenance windows | open, cancel, expire | delivery, escalation |
| Escalation (`workers/escalation.py`) | armed escalations and their step | fire a step, advance, stop | outbox of notifications |
| Human operations (`api/routers/human_ops.py`) | acknowledgement, assignment, visibility | claim, release, acknowledge | alerts |
| ITSM sync (`workers/itsm_sync.py`, `sql/z_integration/005,006`) | ticket bindings, ITSM outbox | claim, call, reconcile | ticket system |
| Incident response (`workers/incident_response.py`, `sql/z_integration/008..014`) | events, runbook executions, approvals | claim, dispatch, complete | runbook endpoint |
| Automation runner (`workers/automation_runner.py`) | rules, job runs | trigger, run | alerts |
| Worker host (`workers/run_all.py`, `workers/health.py`) | heartbeat | one thread runs the 21 processors in turn | all of the above |
| Identity, sessions, access (`bff/`, `shared/access.py`) | sessions, memberships, API keys | login, refresh, revoke, resolve permissions | every request |
| Reports, SLA, certificates, FinOps, AIOps | their own tables | periodic read-compute-write | little shared state |
| API shell, administration routers (`api/`) | rate-limit buckets; CRUD tables | requests: a permission per path, a statement or two per call | console |
| Console frame (`frontend/src/components/Shell.tsx`, `hooks/`) | session, tenant and view; counts in the navigation | look at the session, switch the tenant, change the view, poll | BFF; the screens |
| NOC (`frontend/src/pages/NOCDashboard.tsx`, `api/routers/noc_stream.py`) | alerts shown; one stream; a retry | connect, fall back to REST, reconnect | API |
| Console screens (25 pages in `frontend/src/pages`, `api/client.ts`) | open dialogs, tabs, forms; cached answers; writes under way | fetch, poll, write, invalidate | API |
| Scripts | – | one-shot tools | database |

### What is hard about it, and what would make it correct

*Source synchronisation.*  A claim is a token and a lease; the provider is
called with no transaction open, so a worker may be slow, overtaken or dead when
its answer arrives.  Its completion re-checks token, state, authority and
(for some kinds) a poll generation.  Correct means: a poll generation is filled
by one operation, an operation is billed once, an older problem snapshot never
replaces a newer one, automatic recovery is bounded and comes to an end, a row
that no worker can claim disappears, and a source lost to a failing provider
comes back.

*Outbox and inbox.*  A lease guards a claimed row while its batch is POSTed,
but the outcome is written by record id alone: a dispatcher whose lease ran out
still writes.  Consumers work through lists they read earlier, lock receipts
with their transactions and mark them on exceptions.  Correct means:
`published` is never claimed without a delivery, a message is dead-lettered
only after its budget, what Alerting knows is a revision that its owner had and
never goes back, nothing is retried for ever, and every transition is known in
the end or visibly given up.

*Notification delivery.*  The message is sent inside the transaction that
records it, so a crash between the two sends it again.  Callbacks of the
provider come late, twice and out of order, and two may be handled at once.
Correct means: one open dispatch per intent, no deliberate second message, no
message beyond one per recorded attempt and per crash, a projection that is
what its facts say and never moves backwards, and an intent that is either
accepted or handed to an operator.

*Problem alerting* (planned): evaluation is a second transaction after the
completion, gated on evidence that may have moved; alerts must follow the
problems that the last accepted snapshot has, once each.

*Escalation, ITSM, incident response* (planned): claims without expiry,
savepoints where commits are meant (section 7), repeated side effects.

*Console screens.*  Every screen names by hand the calls it makes, the cached
answers a write makes out of date, what closes after it, and which permissions
its control is shown for; the API decides on its own what a call does and who
may make it.
Answers come late: the user may have closed the form, opened it again or left.
Correct means: what a user was told is done shows, or will be fetched; a form is
carried out once; a control that is offered is allowed; and what is polled
catches up.

*Frame and NOC.*  The server binds the session to one tenant; the console's
label follows later, with polls and a stream under way for the old one.  Correct
means: the label, the counts and the alerts end up being those of the session's
tenant, one stream is open at most, it comes back when it fails, and the end of
a session is noticed, and only then.  Whether a tenant may be entered, bound and
called for are three checks of the BFF, and they are not the same.

*Identity* (partly planned): refresh against revoke.  What a template, a custom
role or a delegated grant lets a user do is part of the console.

The hazards of the code, each at the line where it bites and with the
properties that guard it, are listed in `PROJECT.json`.

## 2. Modules

| Module | Contents |
|---|---|
| `WorkQueue` | abstract: jobs, who holds each, and who may end it |
| `SyncOps` | one source, its operation rows, workers, schedulers, reconciler, operator; refines `WorkQueue` |
| `SyncOps_proofs` | theorems about it, the refinement among them |
| `MCSyncOps` | instances; row recycling for endless runs; two statements of the repository |
| `Invalidation` | abstract: an owner's revision, and the newest one that a copy was read at |
| `Outbox` | dispatcher and inbox of the publication path; refines `Invalidation` |
| `Outbox_proofs` | theorems, the refinement among them |
| `MCOutbox` | instances |
| `Notification` | intents, dispatches, callbacks, projection; refines `WorkQueue` |
| `Notification_proofs` | theorems about it, the refinement among them |
| `MCNotification` | instances |
| `Routes` | the API as the console meets it: who may make a call, the tables it touches, whether its answer has a body |
| `Screens` | what screens are made of: panes, reads, writes |
| `ScreensOps`, `ScreensChange`, `ScreensAssets`, `ScreensAdmin` | the 25 screens and the public status page, one operator per component |
| `Catalogue` | all screens, what the frame watches, and the known misfits |
| `Console` | a user, the cache and the API, for any catalogue; refines `Invalidation` |
| `Console_proofs` | theorems about it, the refinement among them |
| `MCConsole` | `Console` with the whole catalogue, and the assumption that it fits |
| `Shell` | session, tenant, view, counts, and the stream of the NOC |
| `Shell_proofs` | theorems about it |
| `MCShell` | instances: the tables the migrations create |

Definitions named in a "Faulty variant" comment are not part of a
specification.  Each changes one definition the way a plausible bug would and
shows that a property is not vacuous: with it in place of the definition after
it, the property named in `PROJECT.json` is violated.

### SyncOps

`ops` is `monitoring_sync_operation`; `src` the columns of `monitoring_source`
the pipeline reads (one number `auth` stands for the authority epoch,
configuration and scope revisions, which are always compared together);
`work` what a worker loop holds between claim and completion; `sched` how far a
scheduler's transaction is, and what it read in it.  `earned`, `lastProblem`, and the
fields `accepted` and `meters` of a row are history.

| Actions | Code |
|---|---|
| `Claim…` (six kinds), `ClaimEmptyHistory` | the `claim_…` methods: same `WHERE`, and for slot kinds `generation + 1 = poll_generation`; the problem claim draws a generation itself; a history claim without items succeeds at once |
| `Complete…`, `CompleteHistoryPage`, `CompleteProblemUnassociated` | the `complete_…` methods: fence, row, source evidence, meter, follow-up operation |
| `ClaimLost`, `CompletionRefused`, `WorkerFails` | fence finds nothing; the UNIQUE snapshot row exists; anything else, death included |
| `ReconcilePass` | one transaction of `_process_pending`: reap, sweep, requeue, each on what the one before left |
| `SchedulerReadsDue`, `SchedulerTriesLock`, `SchedulerEnqueues` | three database round trips of `_enqueue_due`, in its order; the last commits |
| `SchedulerFindsNothing`, `SchedulerStops` | a query without a row, after which the code neither commits nor rolls back (`if n`); an error or a restart, which does |
| `OperatorEnqueues`, `OperatorRequeues` | the API endpoints |
| `Tick`, `ProviderChanges`, `AuthorityMoves` | environment |

Timestamps are ages that stop counting where no query tells them from a greater
one (`Dedup` for the creation time, `Horizon` for the others), so time itself needs no bound.  A random claim token, used
for one claim by one loop, is the name of that loop.  The answers of the domain
package (not in the repository) are the classes of result the completions
branch on (`Results`); one of them is a useful answer that the completion itself
turns into incomplete evidence, because it is about hosts that inventory has not
imported (`Unassociated`).

*The scheduler's time.*  The due query compares with `now()`, the time at which
its transaction began.  A query that finds nothing leaves the transaction open
on a connection that lasts, and those that follow it use the same time: `old`
and `ripe` are the rows that were past their age then, and no other becomes so
(`Past`) until the transaction ends.

*The work queue.*  `WorkQueue` says what a queue of durable work promises.
`phase` is what has become of a job, `holders` the living worker that the job
waits for, `hands` all workers that have it in hand, overtaken ones included.
Only the holder's answer ends a job or sends it back; the answer of any other
changes nothing; a held job can be taken back, and one that failed be tried
again; what is done stays so.  One transaction may move many jobs on, as the
reconciler's does.  In `SyncOps` a row is a job (`PhaseOf`), its holder the
worker that its claim token names while that worker still works on it
(`HoldersOf`); a claim without items to read ends the job at once (`Settle`).

Two queues of the code keep this promise by different means: the sync pipeline
by leases and claim tokens, the dispatch of notifications by row locks.  The
dispatcher of `Outbox` does not keep it: it records its outcome without a fence,
so that an overtaken one can still end what another has claimed (section 7);
what it does promise is `PublishedWasDelivered` and, for the receiving end,
`Invalidation`.

### Outbox and Invalidation

Message `m` announces revision `m` of one projection.  `outbox`, `receipt` and
`rev` are tables; `batch`, `todo` and `txn` are what loops hold in memory or in
an open transaction; `bridge` is which definition of the function
`publish_invalidation` the database has; `delivered` is history.  `ClaimBatch`,
`Publish`, `RecordOutcome` / `SkipOutcome` are the three phases of
`workers/outbox_dispatcher.py`; `Scan`, `RefuseEnvelope`, `ObserveDuplicate`,
`BeginResync` + `CompleteResync`, `ConsumerErrs` are
`workers/alerting_transport.py`.  A POST has three results: accepted, lost, and
accepted but timed out.  `BeginResync` and `CompleteResync` are the read and
the commit of one transaction, so that another consumer can come between.
The optional internal mode of the dispatcher (it only marks rows) is left out.

`Invalidation` promises that `known` grows only, and only to revisions the
owner had.  `Known`, the newest revision in a receipt, refines it.

### Notification

`dispatches` holds the pending rows only (`done` rows are never read again);
a dispatch's `since` is when its transaction began, as the number of intents
then, which is all that `ORDER BY created_at` can tell.  `tx[d]` is the one
transaction of a dispatcher's turn: claim (a row lock, `SKIP LOCKED`), send,
record; every exception rolls it back.  `hindered` says which intents are suppressed
(`quiet`) and which have an adapter that raises whenever it is called
(`broken`): `SkipSuppressed` and `SendRaises` both give the row back without an
attempt, and the loop takes the oldest one again.  `session[s]` is the transaction of a
callback: `BeginCallback` inserts and computes, `CommitCallback` makes it
visible; inserts of one digest or one report wait for one another (`Waits`).
Providers answer `provider_accepted` (with or without a reference), `failed` or
`unknown`; a transport error is `unknown` whether or not the message arrived, and a
`failed` message may have been accepted before the error.  The code rolls back
as well for a dispatch without its intent or alert; foreign keys, and that
nothing deletes these, leave no such row.
Callbacks for unbound references are parked under a pseudo-tenant and change
nothing that is read; retries of one moment are not ordered further.

An intent is a job of `WorkQueue` from its creation to its acceptance
(`done`) or the end of its attempts (`failed`).  The claim is a lock, so that no
dispatcher is overtaken: who has an intent in hand is its holder (`Handlers`),
and a suppressed, raising or dying dispatcher gives it back by its rollback.

### Routes, Screens and Console

The console is a table and a machine.  The table is the catalogue: each
component of a page is one operator that lists its panes (a dialog, a tab, a
form), its queries (`useQuery`: key, call, and whether the answer is polled,
ages or is kept) and its mutations (`useMutation`: call, invalidated keys, and
manners such as `busy`, disabled while pending, or `settles`, closed by an error
too).  `Routes` is the other half, from `api/main.py`, `shared/access.py` and
the routers: the tables of a write and of a query tell whether the one shows in
the other (`ShowsIn`).  What a user may hold is a member of `Grants`: a role
template, any set of permissions, which is what a custom role or a delegated
grant comes to, or the rights of a platform administrator.  Two rights are not
permissions: to be a platform administrator, and to have the role `admin`
itself, which the BFF asks for where it changes users.  The row a write is about, and identifiers in a key, are
left out: one row stands for all.

The machine is `Console`.  `screen` and `open` are what is on the display,
`tasks` the writes started, `entry` and `fetch` the cached answer and the fetch
under way, `version` and `mine` what the server holds and what of it the user
was told.  Screens, keys and writes are independent but where a write and a key
meet, so a behaviour follows one pair (`follow`) of them through the whole
console: each write with each key that it changes or refreshes, each write alone
(`NoKey`), and each key that is only read.  `rights` is what a grant comes to as
far as the pair asks (`Asked`): other permissions make no difference to it.

| Actions | Code |
|---|---|
| `Enter`, `OpenPane`, `ClosePane`, `Press` | the user: navigation (`Shell.tsx`, `goTo`), dialogs and tabs, `mutate()` |
| `Refuse`, `Reject`, `CarryOut`, `OthersChange` | the API: permission or route missing; anything else wrong; done; somebody else |
| `Succeed`, `RefreshLater`, `Fail` | `onSuccess`, a delayed refresh, `onError`; a success without a body fails (`api/client.ts:36`) |
| `Poll`, `Focus` | `refetchInterval`, the window gets the focus (a refresh button is one of the two) |
| `FetchServed`, `FetchAnswered`, `FetchRefused`, `FetchFails` | the two halves of a query, and its failures |

The query library is external; it is modelled from its use: a query is watched
while a mounted component uses it; invalidating marks the answer, and fetches it
at once if it is watched, giving up a fetch under way only if there is an answer
already.

The cache is a copy in the sense of `Invalidation`: `version` is what the owner
has, `entry.version` what the copy was read at.

`Catalogue` names what does not fit, so that the properties hold for all the
rest: `Missed` (a write changes a cached answer and does not invalidate it),
`Unseen` (the same, but for an answer that does not show the change),
`Overoffered` (a control is shown to holders of a role template whom the API
refuses), `AlertingOveroffered` and `AdminOveroffered` (to others only: to a
custom role that may operate the monitoring but not the alerting, or that
administers the tenant without being `admin`) and `Unserved` (no route).  A pair
that is fixed in the code has to be struck from the list (`TightAssumption` for
the calls); a new misfit makes the run fail.

### Shell

`bound`, `standing`, `alive` and `alerts` are the server's; `session`, `look` and
`selects` what the console knows and has asked; `badge` stands for one of the
counts of the navigation, cached per tenant, and holds the tenant whose count it
is; `es`, `asks`, `retry` and `shown` are the NOC.  `RunNoc` and `RunBadge` are
React's effects: what stops and starts as the session or the view changes.
`stray` counts streams that nothing closes.  The counts and the NOC do not touch
each other, so a behaviour follows one of them.  Delivery of a snapshot and the
answer of a count are one step each: what comes between does not depend on them.
A call for alerts has two, because what it read may be old when it arrives.

`standing` is how the user stands to each tenant, and three checks read it:
the session may be entered for what is `Accessible` (a membership, a delegated
grant or a platform administrator, of an active tenant), it may be bound to what
is `Bindable` (the same, active or not), and the proxy lets calls through for
`Member` alone (`bff/main.py:673`).

## 3. Runs

Every run finishes, and every one but `Console` checks for deadlock: there the
bounds on the user's steps end the behaviours, and a user may stop.  Bounds are
CONSTANTS with values in the cfg, or guards on the counters named in it.

| Run | Instance | Checks |
|---|---|---|
| `SyncSafe` | 3 rows, 2 workers, 3 kinds, 2 operator calls, recovery bound 1 | `TypeOK`, `SlotFilledOnce`, `MeteredOnce`, `RecoveryBounded`, `ProblemSnapshotsAdvance`, `ImplementsWorkQueue` |
| `SyncOvertaken` | 3 rows, 1 worker, current-state polls enqueued by hand for one slot, history pages | `OvertakenLeavesPending` |
| `SyncHeals` | endless; scheduler, worker, authority change, provider down and up | `HealsWhenTransactionsEnd`, `RecoveryTerminates` |
| `SyncStalls` | the same, without a change of authority | violates `SelfHeals` |
| `SyncRequeueRefused` | 2 rows, scheduler, worker, with a requeue by the reconciler | violates `RequeuedCanComplete` |
| `OutboxDispatch` | 2 dispatchers, 2 messages, batch 2, lease 1, cap 2, 1 redrive | `TypeOK`, `PublishedWasDelivered`, `QuarantineAfterCap` |
| `OutboxLive` | 1 dispatcher, 2 consumers, 2 messages, bridge upgraded at any time | `ResyncSeesTransition`, `ImplementsInvalidation`, `DispatchSettles`, `CatchesUp` |
| `NotifySafe` | 2 intents, 2 dispatchers, 1 callback session, 2 attempts, 1 crash, 1 window | `TypeOK`, `DispatchedInTurn`, `SentOncePerAttempt`, `ProjectionFollowsFacts`, `NeverDowngraded`, `ImplementsWorkQueue` |
| `NotifyLive` | 2 intents whose adapters may break and mend, 1 dispatcher, 2 callback sessions, 2 reports, 2 attempts, 1 crash | `ProjectionFromFacts`, `DeliveredOrFallback` |
| `Console` | the whole catalogue, every grant as far as it matters, each pair; 2 presses of a form alone or 1 of a pair with a key, 2 screens or panes left, 1 failed fetch or change by others | `TypeOK`, `OwnWritesShown`, `OncePerForm`, `OfferedIsAllowed`, `ImplementsInvalidation`, `PolledViewsHeal` |
| `Shell` | 2 tenants, 2 switches where a count is followed and 1 where the NOC is, 1 change of view, 1 mishap; with the table the stream asks for | `TypeOK`, `OneStream`, `ExpiryIsReal`, `ExpiryNoticed`, `TenantSettles`, `CountsComeTrue`, `StreamReturns`, `NocCatchesUp` |
| `NocFrozen` | 1 tenant, the tables of the migrations, 1 mishap | violates `NocIsLive` |

*Why the bounds are enough.*  Two workers (dispatchers, consumers) are what
overtaking needs: one that was slow and one that went ahead.  Three rows allow
two operations for one slot beside the validation that opens the source.  A
lease of 0 or 1 tick means that it may run out at any moment, the worst case of
every duration; `Horizon` only has to exceed the largest duration compared.  A
recovery bound of 1 and a cap of 2 attempts have a first, a last and a refused
retry.  Two operator calls let an operator enqueue twice, requeue twice, or
mix the two.  The runs `SyncSafe` and `SyncOvertaken` have no scheduler: what
two of them do that race for a slot, to enqueue it twice, an operator does there
by enqueueing twice.  The theorems are about any number of schedulers.  Two
messages suffice for order and for a batch of more than one.
Two intents show one delaying the other, and two attempts a retry and the last.
`Fragile` are the intents whose adapter may break; in `NotifyLive` it is either,
any number of times.  To the dispatcher an adapter that breaks and mends is what
a window is that opens and closes (`GivesBack`), so that this run needs no
windows; `NotifySafe` has them.
Safety runs use symmetry over names; liveness runs use none.

In `Console` two presses are what doing a thing twice takes; two turns let the
user leave and come back, or close a form and open it again, while an answer is
under way; and the proofs about `Console` have none of these bounds.  The user's
rights have none in the run either: they are all that `Grants` comes to for a
pair.  A control lies in no more panes than `Path` follows, which `CatalogueAssumption` has
TLC check of the whole catalogue.  In
`Shell`, `Followed` says whether a run follows the count, the NOC or either;
one switch of two tenants has every order of the switch with the looks,
polls, streams and answers around it, and a second one brings back a tenant
whose count was answered for the other; the table that the stream asks for is
left out in `NocFrozen`; one mishap each is a lost answer, a failed
stream, a membership that is lost (to nothing, to a grant that remains, or with
the tenant) or a change of the alerts.  `Entitled` is how the user may stand to
the tenants to begin with: a member of each, who comes to be a mere delegate by
the loss of a membership.
Two switches at once, where the NOC is followed, are left to the proofs.

*Endless runs.*  `SyncHeals` cannot bound the number of rows, since the
scheduler inserts for ever.  `MCSyncOps` recycles the identity of a row that no
query distinguishes any more (final, past every age, recovery spent, held by
nobody); this is the only definition there that adds behaviour.

### Fairness

- Polling loops call their processors for ever (`workers/run_all.py`), hence
  weak fairness of claims, of the reconciler, of the scheduler, of scans and of
  a dispatcher's turn, and of clocks (`Tick`, `BackoffPasses`).
- A scheduler makes its queries for ever, and is not stopped between its query
  and its commit every time (`SF` of the lock and of the insert).  Which kind it
  asks for is left open, though a pass of the code asks for all; `SyncHeals` has
  one kind that is scheduled.  Nothing ends
  the transaction that a query without a row leaves open, since nothing in the
  code does.
- `SF(CompleteAny)`: a worker that claims again and again completes at some
  time.  Without it every claim could outlast its lease or die, and nothing
  would ever complete.  The code bounds such repetition by `recovery_count`,
  which is `RecoveryTerminates`.
- `Outbox` assumes that each process is killed in the middle of its work only
  finitely often, and that recording an outcome is not skipped every time.
  Publication itself may fail for ever: the outcome then is dead-lettering.
- `Notification` assumes that maintenance windows and snoozes end: both have an
  end time in their tables.  Exceptions that pass, and crashes, happen finitely
  often (`MaxErrors`).  An adapter that is broken raises at every attempt, and
  nothing mends it: `DeliveredOrFallback` is conditional on no adapter being
  broken from some time on.
- `HealsWhenTransactionsEnd` is conditional twice: it asks for recovery only if
  the provider answers usefully from some time on, and only if no transaction of
  a scheduler stays open for ever.  Without the second condition it is
  `SelfHeals`, which does not hold (`SyncStalls`).
- `Console`: intervals pass (`Poll`) and fetches are answered (`FetchServed`,
  `FetchAnswered`): a browser and a server that run.  Users need not do
  anything, and no write need be answered.
- `Shell`: calls are answered, intervals and the retry's delay pass, and an open
  stream goes on sending.  A window need not get the focus, which is the only
  thing that would make the console look at its session again: `TenantSettles`
  is therefore conditional on no answer being lost (`missed`).

The single thread of `run_all` weakens the first of these: a processor that does not
return stops the others (section 7).  The modules give each loop fairness of
its own.

### What the violations show

`SyncStalls`.  The scheduler commits `if n` (`workers/scheduler.py:144`), on a
connection that `run_all` opens once and without autocommit.  A pass in which
nothing is due therefore leaves its transaction open, and the query of the next
pass compares with the time at which that one began.  An inventory sync that
fails afterwards is younger than that for ever: it is never due again, and the
source stays unavailable while its provider answers.  The comment at
`workers/scheduler.py:43-48` promises that it heals.  In the code another source
or kind that is due, an error or a restart ends the transaction, and then it
does (`HealsWhenTransactionsEnd`); on a quiet installation with one degraded
source nothing need.

`SyncRequeueRefused`.  A host inventory operation that ended as
`reconciliation_required` has left its evidence row, UNIQUE per operation.
Requeued, it is claimed, fenced in, and its completion cannot insert; the row
stays running until it is reaped, and so on until its recovery is spent.  The
reconciler's docstring says the requeue closes the recovery loop.

`NocFrozen`.  The snapshot of the NOC stream reads `monitoring.source`; the
migrations create `monitoring.monitoring_source` and nothing of the other name.
Each cycle raises and sends a heartbeat instead (`api/routers/noc_stream.py:53,
75`).  The stream is open all the same, so the console, which falls back to REST
on errors only, shows the alerts of the moment the view was opened, until the
stream breaks.  The module's docstring promises a snapshot every five seconds.
With that table (`Shell`) the alerts catch up.

## 4. Proofs

Proved with TLAPS for every value of the constants, under the assumptions the
modules name (`LimitAssumption` and its like: bounds are naturals, absent
values are no members, the set of intents is finite; `CatalogueAssumption`:
screens have names of their own, and controls lie in panes of their screen).
Every safety property of a passing run is stated by one of them.

| Theorem | States |
|---|---|
| `SyncOps_proofs!TypeCorrect` | `Spec => []TypeOK` |
| `SyncOps_proofs!RecoveryIsBounded` | `[]RecoveryBounded` |
| `SyncOps_proofs!BilledAtMostOnce` | `[]MeteredOnce` |
| `SyncOps_proofs!SlotsFilledOnce` | `[]SlotFilledOnce` |
| `SyncOps_proofs!SnapshotsAdvance` | `ProblemSnapshotsAdvance` |
| `SyncOps_proofs!PipelineImplementsWorkQueue` | `Spec => Queue!Spec` |
| `Outbox_proofs!TypeCorrect` | `[]TypeOK` |
| `Outbox_proofs!PublishedOnlyIfDelivered` | `[]PublishedWasDelivered` |
| `Outbox_proofs!QuarantinedAfterCap` | `[]QuarantineAfterCap` |
| `Outbox_proofs!CompletedHasSeen` | `[]ResyncSeesTransition` |
| `Outbox_proofs!TransportImplementsInvalidation` | `Spec => Knowledge!Spec` |
| `Notification_proofs!TypeCorrect` | `[]TypeOK` |
| `Notification_proofs!InTurn` | `[]DispatchedInTurn` |
| `Notification_proofs!SentOnceEach` | `[]SentOncePerAttempt` |
| `Notification_proofs!ProjectionExact` | `[]ProjectionFollowsFacts`, if callbacks are handled one at a time |
| `Notification_proofs!NoDowngrade` | `NeverDowngraded`, under the same condition |
| `Notification_proofs!ProjectionGrounded` | `[]ProjectionFromFacts`, without it |
| `Notification_proofs!DispatchImplementsWorkQueue` | `Spec => Queue!Spec` |
| `Shell_proofs!TypeCorrect` | `[]TypeOK` |
| `Shell_proofs!StreamsClosed` | `[]OneStream` |
| `Shell_proofs!ExpiryCorrect` | `[]ExpiryIsReal` |
| `Console_proofs!TypeCorrect` | `[]TypeOK` |
| `Console_proofs!WritesShown` | `[]OwnWritesShown`, for any catalogue whose writes refresh what they change, or list it in `Gaps` (`RefreshedOrListed`) |
| `Console_proofs!OfferedAllowed` | `[]OfferedIsAllowed`, for any catalogue and every grant: a control is allowed to whom it is shown, or its call is listed, in `Overreach` for any user, in `CustomOverreach` for those whose rights are of no template (`OfferedOrListed`) |
| `Console_proofs!FormsOnce` | `[]OncePerForm` |
| `Console_proofs!ConsoleImplementsInvalidation` | `Spec => Views!Spec` |

*Arguments.*  None of these invariants is inductive alone.

- *Slots, bills and snapshots* (`FilledBehind`, `BilledWhenDone`,
  `ProblemInv`).  What connects a row to its source is the
  generation.  An accepted slot row's generation is at most the source's, a
  completion needs one more than the source's and raises it to that, so two
  acceptances for one generation cannot both pass.  A row that was metered has
  been completed, and of the kinds other than problem syncs only a failed row,
  which is not metered, can run again.  A problem claim draws a new generation,
  and its completion passes only if the source still has that one.
- *Recovery.*  Every step changes a row in one of a few ways (`RowStep`); only
  the operator's requeue adds to `recovery_count` without looking at the bound,
  and it also counts in `manual`.
- *Published was delivered* (`Acknowledged`).  The strengthening is about memory: a batch entry
  with outcome `ok` is a delivered message.  The write needs no fence for this
  property, which is why it holds although others do not.
- *Dead-lettering* (`Counted`).  A dispatcher's remembered count is at most the row's count
  as long as the row has not been redriven; so when it decides that the budget
  is spent, it is.  The premise `redrives = 0` is needed: see
  section 7.
- *The pipeline as a work queue.*  No invariant but `TypeOK` is needed, since the
  fence is in the transaction that records: a completion that passes finds the
  row running under the worker's own token, so the worker is the row's holder.
  The proof goes row by row (`QueueSteps`).  A completion may insert a follow-up
  operation, a pass of the reconciler reaps, sweeps and requeues many rows
  (`QueueReconciles`): what was only just reaped or swept is not requeued by the
  same pass, because its backoff has not passed.
- *Row locks as a work queue.*  `RowsInv` (below): the one open row of an intent
  is the only thing by which a dispatcher can have it in hand, so that whoever
  has it is alone (`HandledAlone`), and the intent is neither accepted nor spent.
- *The transport as a copy* (`InboxInv`).  A consumer's open transaction has seen at least its message's
  revision (the transition committed before the message could be read) and at
  most the owner's.  No receipt's `seen` decreases: a receipt is written from a
  transaction that holds its lock, and what that transaction read cannot be
  older than what was in the receipt when it was locked.
- *Dispatches in turn* (`RowsInv`).  An open dispatch is the next attempt of a
  created, not yet accepted intent, it is the only one of its intent, and a
  dispatcher that holds one holds it alone.  Completing removes it and adds at
  most its successor, and none after an acceptance or the last attempt.
- *One message per attempt.*  With `RowsInv` at most one dispatcher is between
  send and record for an intent; that flight ends in a recorded attempt or in a
  counted error.
- *Projection* (`SerialInv`).  A bound intent is accepted, and an accepted one
  is never dispatched: dispatchers and callbacks do not meet.  What remains are
  two callbacks; `Serial` says there is one at a time, and without it the
  projection can be weakened (section 7).  `ProjectedAdvances` is the algebra:
  more evidence never gives a weaker state.
- *Projection, callbacks at once* (`GroundedInv`).  What remains true without the
  condition: an open callback concerns an accepted intent, whose attempts do not
  change any more, and what it computed is from evidence that can only grow.  A
  projection may therefore lack evidence that came meanwhile, but it has every
  attempt, reports nothing that was not reported of its own intent, and asks for
  no retry of what was accepted.

- *One stream.*  `OneStream` is inductive as it stands: every way in which the
  effect runs (`RunNoc`) leaves the stream, the retry and the calls as the new
  view needs them, and a retry is only due when the stream is closed, so that
  `Connect` overwrites none.
- *True expiry* (`Truthful`).  An answer of 401 under way is an answer of a
  session that has ended, and a session that has ended stays so.
- *Own writes shown* (`Fresh`).  A fetch that has not been served will hold
  everything the user was told so far, as the server holds it already
  (`mine <= version`).  One that has been served before the success is given up
  by the invalidation or, if there is no answer to show meanwhile, marked late.
  What remains is a write that shows in the answer and does not refresh it,
  which `RefreshedOrListed` excludes.
- *Offered is allowed* (`OfferedInv`).  The rights and the pair never change, a
  write is only started where its control is offered and its screen's entry
  visible, and refused only if the API's permission is missing: a fact about the
  catalogue, the rights and the routes, which `OfferedOrListed` states.  What a
  pair does not ask for makes no difference to it, so that rights stand for all
  grants that come to them.
- *Once per form* (`FormsInv`, `AgainInv`).  A pane that closes and opens again
  has a new turn, so a turn names one opening (`PageMoves`, `FormKept`).
  While a write of a form is pending, the button is disabled as long as the pane
  that holds the mutation is open; and its success closes the form, wherever the
  user has been meanwhile, if it is still the same opening (`AnswerCloses`,
  `AnswerShuts`).  What is left is a failure as the user sees it: it closes the
  form only if errors close it too, and `OncePerForm` excepts the others.
- *The cache as a copy* (`ViewsInv`).  There is one fetch of a key at a time, what
  it has read is at least what is shown and at most what the server holds, and
  an invalidation starts it anew or lets it go on, but never stores anything.

The two conditions about catalogues are not left to the reader: `MCConsole`
assumes them (`FitAssumption`), and TLC evaluates that over all screens, grants
and routes.  `TightAssumption` adds that each call listed as offered to someone
who is refused really is.

*Only model-checked.*  All liveness properties (`HealsWhenTransactionsEnd`,
`RecoveryTerminates`, `OvertakenLeavesPending`, `DispatchSettles`, `CatchesUp`,
`DeliveredOrFallback`, `PolledViewsHeal`, `ExpiryNoticed`, `TenantSettles`,
`CountsComeTrue`, `StreamReturns`, `NocCatchesUp`): they rest on fairness and
ENABLED, which the prover does not treat.  No module uses a recursive operator,
so no proof needs induction over data.

## 5. Not modelled, and why

- The contents of the projections, and Problem alerting, Escalation, ITSM,
  Incident response, Automation, Human operations, login and API keys: planned
  below.
- Row-level security and tenants: queries carry the tenant in every clause
  modelled here, and one tenant is one instance.  Whether the policies let the
  claims and scans of the workers see the rows of all tenants is not examined.
- Source deletion and the endpoints that change revisions: they appear as
  `AuthorityMoves`.
- `run_all`'s single thread as such; heartbeat and metrics.
- Of the console: rendering, charts, toasts, filters and sorting in the browser,
  the error boundary, the contents of rows, two rows of one list at a time, and
  two users at two consoles but as `OthersChange`.  A reload of the page starts a
  behaviour over; so does a new login.  The onboarding page cannot be reached:
  the BFF answers `forbidden` to a user without memberships
  (`bff/main.py:464`), and only `needs_tenant` without any would show it.
- The lengths of intervals and delays, and the doubling of the stream's: any
  interval may pass at any time.  The times for which a membership is cached:
  a minute by the services, ten seconds by the BFF (`bff/main.py:64`).
- Provider clients, credentials, egress, scripts, and what routers of one
  statement each do to their rows: input and output, no coordination.  Of the migrations,
  only the order that decides which bridge is installed.

## 6. Plan

Order: the most shared and most concurrent first.  Done: `SyncOps`,
`WorkQueue`, `Invalidation`, `Outbox`, `Notification`, and the console (`Routes` to `Shell`),
with proofs.  Next:

1. `ProblemAlerting`: accepted snapshots, evaluation as a second transaction,
   decisions, resolution, policy revisions; composed with the problem part of
   `SyncOps`.  Abstract: the set of open alerts follows the set of problems.
   Properties: one open alert per problem and policy, nothing resolved while
   present, evaluations caught up after a crash.  Theorem: decision identities
   make evaluation idempotent.
2. `Projections`: inventory, current state against history, health.  Property:
   the current value is the newest observation accepted.
3. `Itsm` and `IncidentResponse`: claim, call, complete, expire.  Property: a
   ticket or an execution per logical action, whatever was lost; theorem: the
   fence of the completion.
4. `Escalation`: steps, suppression, logical action identities.
5. `HumanOps`, policy lifecycle, `Automation`.
6. Login and refresh of sessions, API keys, rate limit.
7. A composition of Problem alerting, Notification and Escalation for the way
   from a problem to a person.

## 7. Observations

Met while modelling, visible in the models or in the code; no run of its own.

*Services*

- A dispatcher that was overtaken records its old failure over a row that an
  operator has redriven meanwhile, and dead-letters it with its "fresh attempt
  budget" (`sql/monitoring/021_outbox_redrive.sql:5`) unspent: the outcome
  update is not fenced by the claim (`workers/outbox_dispatcher.py:205`).
- Migrations are applied in path order.  On an empty database
  `z_integration/001_monitoring_publication_bridge.sql` replaces the bridge of
  `monitoring/017_outbox_contract_envelope.sql` and writes the old producer,
  and the inbox quarantines every message.
- A suppressed dispatch is "released so a future cycle retries"
  (`workers/notification_dispatch.py:6-13`), and is again the oldest due row in
  the same cycle, until its window ends.

- Two schedulers can both insert an operation for one slot: the due query runs
  before the advisory lock and is not repeated (`workers/scheduler.py:101`).
  One of the two polls is thrown away by the slot comparison.
- The reconciler chooses its candidates once, so two failed operations of one
  kind are requeued together although its comment speaks of one
  (`workers/reconciliation.py:140,163`).
- Requeueing writes evidence `current` before any successful poll
  (`sql/monitoring/018_op_recovery.sql:41`); `earned` keeps the difference.
- Evidence `incomplete` is in no schedulable set (`workers/scheduler.py:49`): a
  source in it is not polled until someone validates it or requeues.  It is also
  what becomes of a source whose metrics name a host that inventory has not
  imported yet (`shared/monitoring_repo.py:1301-1331`).
- The consumer's error handler reopens a receipt another consumer has completed
  (`workers/alerting_transport.py:239`).
- A scan reads the fifty oldest open receipts (`workers/alerting_transport.py:222`);
  fifty that err every time would hide all that come after them.
- An ambiguous publication is recorded as a plain failure
  (`workers/outbox_dispatcher.py:171`, docstring line 9).
- While a suppressed dispatch is the oldest, no other is sent; as all loops
  share a thread, every other processor waits too.  An adapter that
  raises whenever it is called has the same effect, without end: an e-mail
  sender without `SMTP_HOST` (`providers/email.py:91`), or the answer of the
  development mode, which lacks the `raw` that the dispatcher reads
  (`providers/email.py:90`, `workers/notification_dispatch.py:106`).  No attempt
  is recorded, so that nothing is retried or escalated either; the migration
  calls the outbox at-least-once (`sql/z_integration/004_g9_notification.sql:86`).
- Two callbacks for one message that are handled at once compute the projection
  from snapshots without each other's evidence; the later commit may write the
  weaker state over the stronger (`shared/notification.py:119`), which
  `NeverDowngraded` excludes for callbacks that are handled one at a time.
- An error of the e-mail server after it has accepted the message, at `quit()`
  for instance, is recorded as a failure, and the message is sent again
  (`providers/email.py:123-126`).
- A callback that overtakes the commit binding its reference is parked and not
  read again; a report of failure after an acceptance raises neither the retry
  nor the fallback flag.
- Escalation's and incident response's first query opens a transaction, which
  turns the `conn.transaction()` blocks after it into savepoints: a later
  rollback takes back what they did.  To be modelled with those parts.

*Console*

- Ten calls are answered with 204 and no body, which `api/client.ts:36` cannot
  read: certificates, assets, categories and articles of the knowledge base and
  their incidents, reports, their schedules and subscribers, automation
  schedules, Alertmanager sources.  The row is gone, the user is told that it
  failed, and the list is not refreshed.
- `DELETE` of an alert policy (`AlertPoliciesPage.tsx:286`) and of a script
  (`AutomationPage.tsx:217`) reach no route.
- Controls follow `monitoring:operate` or nothing where the API wants
  `tenant:admin` or a platform administrator (`Overoffered`).  `useCanOperate`,
  "any write capability" by its comment, is `monitoring:operate` alone: a custom
  role that has it without `alerting:operate` is shown the controls of snoozes,
  acknowledgements, policies, escalations and channels, and refused
  (`AlertingOveroffered`), while one that has only the latter is not shown
  them.  A custom role with `tenant:admin` is shown the administration of users,
  which asks for the role `admin` by name (`AdminOveroffered`).  And a viewer who
  can open the platform page can save its status page, which no permission
  guards.
- The layout of a device is restored from an answer that is kept for good and
  that saving leaves as it was (`DeviceDetail.tsx:508-536`): coming back undoes
  the last change.
- Saving the status page leaves out its components, which the API then sets to
  none (`PlatformPage.tsx:236`, `api/routers/status_page.py:181`); saving the
  components writes back the name and slug that the card last read.
- The Enter key creates an API key or adds a subscriber while one is pending
  (`ApiKeysPage.tsx:123`, `ReportsPage.tsx:269`), and saving an article is never
  disabled: what they make is made twice.  `OncePerForm` speaks of the forms that
  do disable their button.
- The answer to a switch may be lost: the label then differs from the tenant the
  session is bound to until the window gets the focus, and every call is answered
  for the other.  Two quick switches end where the server handled the last one,
  which need not be the user's last choice.
- Keys without a tenant (`alert-policies`, `monitoring-sources-for-policy`,
  `team-members`, `tenant-roles`, `admin-users`, `billing-status`,
  `platform-*`) show the rows of the previous tenant after a switch until they
  are fetched again.
- A late REST answer puts older alerts over a newer snapshot of the stream, until
  the next one (`NOCDashboard.tsx:157,197`); and after a switch whose first
  answer fails, the alerts of the previous tenant stay under the new label where
  the comment at line 162 expects an empty state.
- A membership that is revoked is answered with 403, which no one notices until
  the console next looks at its session.
- The session lists, and is ready for, a tenant to which its user has only a
  delegated grant or which he enters as a platform administrator
  (`shared/access.py:137`), and the switch to it is allowed; the proxy asks for
  a membership and answers every call with 403 (`bff/main.py:673`).  The console
  is there, and nothing in it loads.
