# ChronoFlow: TLA+ models, model checking and proofs

ChronoFlow is a distributed timer service. MySQL holds the truth (timers,
executions, outbox events), a Redis Stream carries wake-up messages, and any
number of API, scheduler, dispatcher and worker processes share nothing else.
This directory models the parts that can go wrong when those processes
interleave, fail and restart.

## 1. Inventory

| Part (source) | State it keeps | Operations | What makes it correct |
| --- | --- | --- | --- |
| Timer API (`service/timer_service.go`, `repository/timer_definition_repo.go`) | `timer_definitions`: status, `next_fire_at`, policy, limit | Create, Activate, Deactivate, Delete; each of Activate and Deactivate is a SELECT followed by a conditional UPDATE | an active timer has a next slot and no other has one; deleted stays deleted |
| Scheduler (`service/scheduler.go`, `repository/scheduler_repo.go`) | none of its own | every poll: one transaction that locks due timers (SKIP LOCKED), inserts executions and ready events, advances `next_fire_at` | slots fire only when due and active, and no scan comes back to one that has fired; slots are passed over only as the misfire policy says; every due slot is dealt with |
| Outbox dispatcher (`service/outbox_dispatcher.go`, `repository/outbox_repo.go`) | `outbox_events`: publication, claim, backoff | ClaimBatch, XADD, MarkPublished, MarkFailed | no event is lost; every event is published; repetition ends |
| Stream and read loop (`service/stream_worker.go` Start/submit, `pkg/redis/stream.go`, `pkg/pool`) | consumer group: delivered, pending, acknowledged; reclaim cursor; pool | XREADGROUP, XAUTOCLAIM, Submit, XACK | a delivered message stays pending until acknowledged; every message is acknowledged |
| Worker (`service/stream_worker.go` process, `repository/timer_execution_repo.go`) | `timer_executions`: status, attempt, lease, token; per goroutine its message and token | Claim (UPDATE, SELECT), callback, heartbeat, CompleteSuccess, CompleteFailure, ack | one result per run; retries counted, announced and not early |
| Reconciler (`service/reconciler.go`, `repository/recovery_repo.go`) | none | RecoverBatch (expired runs, rows not announced lately), Cleanup | ends only runs whose lease is over; a row that waits is announced |
| Stream retention cleaner (`service/reconciler.go`, `pkg/redis/stream.go`) | none | XPENDING, then XTRIM | removes nothing that is still to be done |
| Timer API, answers (`handler/timer_handler.go`, `middleware/api_security.go`) | none of its own; per request what it has read | the handlers with their status codes | every answer is true of one moment of the request; one of two competing requests succeeds |
| Callback client (`pkg/callback/client.go`) | idle connections | Execute: URL check, dialing, redirects, reading the body; classification of the result by the worker | connects to public addresses only; a success is whole; a result is retried by its class |
| Configuration (`config/config.go`) | the loaded settings | Load: precedence and the normalize functions | what the other parts assume of their settings holds, whatever is given |
| Process lifecycle (`app/`, `launcher/`) | opened resources, the shared context, the shutdown deadline | start, run, signal, drain, close | nothing is closed under what still uses it before the deadline; everything opened is closed once; the process exits |
| The whole pipeline | rows, outbox, Stream, handlers together | the steps above, composed | every execution ends and leaves nothing behind |
| Cron parser, queries, monitoring, HTTP, metrics, migrations, web console | see section 7 | | |

The parts meet in four places: the scheduler, the worker and the reconciler
insert outbox events in the transaction that changes the execution; the
dispatcher turns them into Stream messages; the read loop gives messages to
goroutines; goroutines and reconcilers meet on the execution's row. Messages
carry no authority: a worker acts on the row, never on the message.

What is hard: every statement of every process may be separated from the next
by statements of the others; clocks are read before the statement that uses
them; a statement may take effect although its caller sees an error; processes
die anywhere and may come back with the same id; messages are repeated and
reordered. `PROJECT.json` lists each such hazard with its source line and the
properties that would catch it.

## 2. Modules

    TimerExecution      rows of timer_executions; one operator per SQL statement
      Worker            handlers, heartbeats, reconcilers, cleanup on those rows
        WorkerProofs    theorems about Worker
    ExecutionLifecycle  abstract: the status machine Worker implements
    Outbox              dispatchers
      OutboxProofs      theorems about Outbox
    AtLeastOnce         abstract: what Outbox promises to those who commit events
    Scheduler           timer API and schedulers, against the clock
      SchedulerProofs   theorems about Scheduler, and about TimerApi
    TimerApi            handlers of the timer API and their answers
    TimerRegistry       abstract: requests that take effect at one moment
    ConsumerGroup       Stream, read loops, pool, cleaner
      GroupProofs       theorems about ConsumerGroup
    ChronoFlow          the way of an execution through all of these
      ChronoFlowProofs  theorems about ChronoFlow
    Callback            the HTTP client of the worker
      CallbackProofs    theorems about Callback
    Config              config.Load
      ConfigProofs      theorems about Config
    Application         a process from its start to its exit
      ApplicationProofs theorems about Application

Each `MCx` is the module with the instances of `x` for TLC; each `xProofs`
extends the module it is about and changes none of its definitions.
`SchedulerProofs`, about timer_definitions, has TimerApi as an instance as well.

A definition marked "Mutant" is a plausible mistake in the definition after
it. No specification uses it; `PROJECT.json` says which property fails when it
is put in place.

### Worker (with TimerExecution)

`rows` is the table, `outbox` the events by identity and availability, `jobs`
the goroutines, `scans` the running reconciler scans, `now` a clock they all
read. A job's `pc` is its place in `process`: `claim` (about to run Claim's
UPDATE), `read` (its SELECT), `callback`, `returned` (waiting for the heartbeat
goroutine), `finish`, `ack`. `at` and `beat` are the clock readings the code
took and has not used yet. Each action is one statement or transaction, or the
code between two:

| Action | Code |
| --- | --- |
| Receive, ReceiveMalformed | `process` up to the call of Claim; messages come for any execution at any time, as often as they like |
| ClaimUpdate, ClaimError | Claim's UPDATE; with an error it may have taken effect or not |
| ClaimRead, ReadError | Claim's SELECT and the early returns after it |
| CallbackReturn | `Client.Execute` with one of three outcomes |
| HeartbeatTick, Heartbeat, HeartbeatError | the heartbeat goroutine: reads the clock, runs the UPDATE |
| Join | `heartbeatWG.Wait()` and the test of `leaseLost` |
| Complete, CompleteError | CompleteSuccess, or `finishFailure` with CompleteFailure's transaction and retry event |
| Ack, Crash | XACK; death of a worker process with all its goroutines |
| ScanStart, RecoverBatch, RecoverError | `reconcile` and its transaction over the rows it can lock |
| Cleanup | the two DELETEs |

A run token is fresh when no row and no handler holds it, which is what 16
random bytes amount to. The clock is shared; skew shows up as stalls between
reading and using it, and as executions scheduled in the workers' future.

`ExecutionLifecycle` is the promise without leases, tokens and processes. It
allows a run to be followed directly by the next one and puts no bound on
attempts there, because the code does neither (finding 1).

### Outbox

`rows` is `outbox_events`, `copies` counts the messages of an event in the
Stream, `dispatchers` holds each one's place in `dispatchOnce`, its clock
reading, the rest of its batch and the attempts it read. Time is relative: the
present is 0 and a tick ages every timestamp, which stops ageing when it is too
old to matter. So the system runs for ever in finitely many states, and
liveness is checked without a last tick. All dispatchers share this clock: skew
between them appears only as the stall between reading it and claiming.

### Scheduler

`timers` is `timer_definitions`, `executions` counts the executions of each
slot, `scans` and `requests` hold clock readings and half-done requests. Cron
is a constant operator assumed to give the first slot after a time. The
transaction of a scan is one step on rows it has locked. The unique key on timer
and slot is in `Inserted`; no property restates it. What is worth knowing is when
the system leans on it: FiredSlotsStayBehind says that only a late Activate takes
a timer back to a slot that has fired.

### ConsumerGroup

Redis is external and modelled from the commands the code sends. `delivered`
is the group's last-delivered-id, `pending` its entries, `kept` what the Stream
still holds. XAUTOCLAIM walks from the cursor and stops after `ReadCount`
entries that it claims or finds deleted; its limit of ten times that many
entries looked at is beyond these sizes. What a handler does with a message is
Worker's subject: here it ends with or without XACK.

### AtLeastOnce

Events are committed, sent once or more, and published after that. `Outbox`
implements it, its fairness included: `committed` is the set of rows that
exist, `published` the set of those with `published_at`. `Safety` is the part
of it without fairness, which is proved; the whole is model-checked.

### ChronoFlow

The composition. The detailed modules keep clocks, claims and tokens apart;
their product is out of reach, and what they hand to each other is simple. So
time is reduced to flags that it may raise at any moment: a row comes due and
grows stale, a lease expires, a pending message becomes idle. `outbox` counts
an execution's events that may be sent, must wait, and are sent but not marked.
`GiveUp` stands for every way in which a handler does not finish: death, a lost
statement or answer, a lost lease, a result that cannot be stored. `deployment`
says whether there is a reconciler, whether clocks differ and whether messages
are trimmed early; it never changes.

### TimerApi and TimerRegistry

A call has a place (`start`, `update`, `answered`), a status code and a ghost
field `fault`. Activate and Deactivate are a SELECT and an UPDATE, the others
one statement; each may fail before or after it took effect. `TimerRegistry`
has one step per request. That TimerApi implements it is what makes the codes
trustworthy: 200 and 201 are said by the request that made the change, a sound
request is turned down only if the timer was not in the state it needs, and
doubt is left by faults only.

### Callback

A URL is what ValidateURL distinguishes; servers and the resolver answer
anything, and differently each time. `conns` are the idle connections, which
skip the dialer and its check. Codes are one of each class the code tells
apart. A response that breaks off keeps its code, so what the worker makes of a
failure depends on how far the response had come (section 4, observations).

### Config

`Given` is viper's order of precedence, `Repaired` the rules with one setting,
and `Heartbeat`, `ReclaimIdle`, `RetryMax`, `ExecutionRetention` those with two.
Only numbers are modelled.

### Application

The main goroutine (`main`), the read loop, the other background components and
the goroutines of the pool. The worker role is modelled because it has every
kind of resource; the other roles start fewer. `closes` counts how often each
resource was closed. Nothing is assumed of requests, components and callbacks:
they may hang for ever.

## 3. Runs

| Run | Instance | Shows |
| --- | --- | --- |
| takeover | 2 goroutines of one worker, 1 reconciler, 1 execution due at 1, time to 4, lease 1, 2 attempts | all properties of Worker: a run can be claimed, expire, be taken over or recovered, fail, wait, run again, end and be cleaned up; the goroutines write the same lease_owner, so the token alone separates them |
| attempts | as takeover, with 2 workers and 1 attempt | violated: finding 1 |
| outbox_delivery | 2 dispatchers, 1 event, claim of 1 tick | claims stay apart; sending ends; Outbox implements AtLeastOnce |
| scheduler_races | 2 replicas, 2 requests, 1 timer, any policy, grace 1, time to 4 | safety of firing |
| scheduler_turns | 2 replicas, 2 timers, batch of 1 | every due slot has its turn |
| group_delivery | 1 worker with 2 goroutines, 2 messages, count 1, MAXLEN 1 | nothing falls out of the group; every message is acknowledged or trimmed |
| trim | 1 worker, 2 messages | violated: finding 2 |
| pipeline | 1 execution, 2 handlers, 2 attempts, 1 place in the Stream, up to 2 events of the reconciler; with everything going wrong and a reconciler, and with neither | every execution ends and nothing goes round for ever; without reconciler it is never forgotten by the queue |
| application | 1 component, 2 pool goroutines | the order of the shutdown, single closing, exit |
| config_load | values around every limit of settings that depend on each other, in file and environment | normalized settings meet the assumptions, and stay as they are when loaded again |
| callback_client | every kind of URL, code and address; bodies at the limit and one byte over | the client's promises |
| timer_api | 2 clients, 2 timers | TimerApi implements TimerRegistry |

Properties in words, with the behaviour each is about, stand above their
definitions.

**Bounds.** `MaxTime` ends the clock in Worker and Scheduler; 4 is enough for a
lease to expire twice, a backoff of 2 to pass and a retention to end. Three
tokens suffice for two goroutines and a row. Two of everything that competes
gives every pairwise race; for the safety properties the proofs cover every
number of everything (section 5). In Outbox
`MaxStall` bounds how old a clock reading may be when ClaimBatch runs,
`AttemptCap` where attempts stop being counted (above it the backoff is the
maximum anyway), `MaxDelay` how far ahead an event is made available; events
meet only in the batch limit, which one event does not reach: safety for many
events is proved, liveness is checked for one.
In ConsumerGroup `MaxMessages` bounds the messages. In ChronoFlow `MaxEvents`
is the number of unpublished events at which the reconciler stops adding more,
and `Messages` are places of the Stream that are used again, so the run has no
end; attempts are counted up to the maximum, above which no decision changes.
Tokens, goroutines, replicas and clients are symmetric where no liveness is
checked.

**Fairness.** A process that runs takes its next step (weak fairness of each
loop, and of the clock): tickers and blocking calls with timeouts see to that.
Statements may fail, and processes may die, again and again, but not every
single time: strong fairness of the successful claim, send and mark in Outbox,
of an unhindered transaction in Scheduler (see the observations in section 4 for
what that leaves out), and of successful reads, reclaims,
submits and acknowledgements in ConsumerGroup. In Outbox it asks that sending
and marking succeed infinitely often while the claim lasts: a dispatcher that
always overruns its claim publishes nothing for good, and nothing in the code
prevents that. In ChronoFlow time passes and a lease nobody renews runs out; a
handler does not stay in a step for ever (statements and callbacks have
timeouts); and of the repeated chances to send an event and to mark it, to
deliver a message, to claim, to read and to acknowledge with it, and to recover
a row, one is taken. No callback has to succeed and no result to be stored. In
Application only the main goroutine moves on and the shutdown deadline passes:
requests, components and callbacks may hang.

Deadlock checking is on except in `pipeline` and `application`, where
executions end and the process exits.

## 4. Findings

1. `attempts`. Claim (`timer_execution_repo.go:81`) takes over an expired run
   without comparing `attempt` with `max_attempts`, so a redelivery that comes
   before the reconciler's scan starts one attempt more than allowed, against
   the state diagram in `docs/roles-and-runtime.md:76` and the column comment.
2. `trim`. `TrimAcknowledgedBefore` (`stream.go:131`) bounds XTRIM by the first
   pending entry only if there is one. Old messages that no worker has read yet
   are removed, against `docs/roles-and-runtime.md:246-248`. The reconciler
   later announces their rows again, so the effect is a delay.

Observations met while modelling that no run is about:

- Code and documentation disagree about a connection that breaks, or a timeout
  that comes, while the body of a 200 is read. Execute returns the code 200 with
  the error (`client.go:142`) and `isRetryableCallbackFailure`
  (`stream_worker.go:474`) looks at the code alone, so the execution ends as
  FAILED with attempts left. `docs/roles-and-runtime.md:231` counts
  "网络/超时错误", network and timeout errors, among the failures that are
  retried; before the headers the same failure gives the code 0 and is. In
  Callback this is Respond(200, n) followed by ReadError, after which `Outcome`
  is "fatal". No property takes either side: OkIsWhole says only that such a call
  is no success.
- Execute keeps up to `worker.max_response_bytes` of a response, 1 MiB by
  default (`client.go:145`), but `response_body` is a TEXT of 65535 bytes
  (`migrations/00001_init.up.sql:40`). In MySQL's strict mode the result of such
  a callback cannot be stored: it is made again at every redelivery, and the
  reconciler ends the execution as FAILED. EveryExecutionEnds shows that it ends.
- One timer that cannot be scheduled, such as one whose stored cron expression
  no longer parses, fails its whole batch (`scheduler_repo.go:68`), the next poll
  selects the same rows, and the timers of that batch wait for as long as it is
  there. The fairness of scheduler_turns, that an unhindered transaction succeeds
  again and again, leaves this case out: DueSlotsAreHandled does not cover it.
- A `retry_max_seconds` below `retry_base_seconds` is replaced by 60
  (`config.go:253`), which may be below the base as well. In the same way an
  `execution_retention_days` replaced by 30 may be below the outbox retention.
- With recovery off and a dispatcher whose clock is ahead, a retry event may be
  sent early; the worker finds the row in RETRY_WAIT, not due, and acknowledges
  its only message. Carried therefore asks for clocks that agree.
- A graceful stop counts a callback it cancels as a failed attempt, and may
  leave rows RUNNING until their lease is over.
- GetTimer answers 404 for database errors too. List requests without `page`
  and `page_size` are turned down by the binding (`min=1`), so the defaults in
  the service never apply. Timers are listed by `created_at` alone, so rows that
  share it may be repeated or left out across pages.

## 5. Proofs

TLC checks an instance; the theorems hold for every value of the constants that
satisfies the named assumptions of the module (`NullAssumption`, `RowConstants`,
`WorkerConstants`, `OutboxConstants`, ...). Those give the constants their types
and say that the null values are no data. `CronAssumption` says what a cron
expression is, and `OutboxConstants` also that the bound at which timestamps stop
ageing lies beyond a claim. None bounds a number of processes, rows or messages. TLC evaluates them on every run of the module.

The bounds that keep the models finite (`MaxTime`, `MaxMessages`, `MaxEvents`,
`AttemptCap`, ...) are constants too: the theorems hold for all their values.

Each proof has the same shape. An inductive invariant `IInv` holds initially
(`InitInv`) and is kept by every step (`NextInv`, one step per action), so it
holds always (`Invariance`), and each theorem follows from it. Every `IInv` of a
system of processes was model-checked before it was proved.

| Module | Theorem | Property |
| --- | --- | --- |
| every proof module but `ConfigProofs` | `TypeCorrect` | TypeOK |
| `WorkerProofs` | `ColumnsAgree`, `TokenFencing`, `SingleWinner`, `RetryInsertSucceeds`, `WaitingIsAnnounced`, `AckedAfterRun` | ColumnsFollowStatus, RunTokenFences, OneResultWins, RetryEventIsNew, RetryWaitIsAnnounced, AckedHasRun |
| | `RunsEnd`, `BackoffKept` | RunsEndProperly, BackoffIsKept (action properties) |
| | `Refinement` | LifecycleSpec: Worker implements ExecutionLifecycle |
| `OutboxProofs` | `PublishedEventsAreSent`, `LiveClaimsApart`, `BackoffCountsAttempts` | PublishedWasSent, LiveClaimsAreDisjoint, AttemptsAreCurrent |
| | `PromiseKept` | Outbox implements AtLeastOnce without its fairness |
| `SchedulerProofs` | `ActiveIsScheduled` | ActiveHasNext |
| | `FiresOnlyWhatIsDue`, `NothingForgotten`, `OnlyActivationGoesBack` | OnlyDueSlotsFire, NoSlotIsForgotten, FiredSlotsStayBehind (action properties) |
| | `AnswersAreTrue` | RegistrySpec: TimerApi implements TimerRegistry |
| `GroupProofs` | `NothingFallsOut`, `CleanerSparesWork` | PendingUntilAcked, TrimSparesDelivered |
| `ChronoFlowProofs` | `NothingIsForgotten` | Carried |
| `CallbackProofs` | `PublicOnly`, `SuccessIsWhole` | ConnectsToPublic, OkIsWhole |
| `ConfigProofs` | `AssumptionsMet`, `LoadStable` | AssumptionsAreMet, LoadIsStable |
| `ApplicationProofs` | `GracefulClose`, `ResourcesClosedOnce` | ClosedWhenQuiet, ClosedOnce |

Every invariant a passing run checks is the property of a theorem, and so is
every action property. What each invariant adds, and why the property does not
carry itself:

**Worker.** `IInv == TypeInv /\ NoFutureSamples /\ Fencing /\ Announcing`.

- `TypeInv` adds to the types what a handler holds at each step: an execution,
  a token and a clock reading from `claim` on, a heartbeat only beside the
  callback, and nothing while idle;
- `NoFutureSamples`: clock readings kept by processes are not ahead of the
  clock, so what an old reading found expired or due is so by now;
- `Fencing` is ColumnsFollowStatus and RunTokenFences with the two facts they
  need: no two handlers hold the same token (`TokensApart`), and the token of a
  handler that has not claimed is on no row (`TokenUnwritten`);
- `Announcing` is RetryWaitIsAnnounced with two facts: retry events exist only
  for attempts the row has finished (`RetryEventsArePast`), and a waiting row
  says when it was announced (`RetryWaitEnqueued`).

RunsEndProperly, BackoffIsKept and the refinement need the invariant: a
handler's WHERE clause matches its own token only, so what it read is what the
row says. AckedHasRun rests on two lemmas: a handler comes to `ack` only with a
row that has run (`EntersAck`), and by the status machine no row goes back to
PENDING (`RowMakesMove`).

**Outbox.** A claim that lasts is the one in the row (`LiveClaimsHold`), which
gives disjoint claims and current attempts; it needs `ClaimReadings`, the bound
on stalls between reading the clock and claiming. Between XADD and MarkPublished
the message is in the Stream (`SentHasCopy`), and only committed events are
worked on (`WorkIsCommitted`). The refinement maps each step: the first XADD is
the sending, MarkPublished the publication, the rest stutters.

**Scheduler.** Cron is any function that obeys `CronAssumption`: it gives the
first slot after a time. `NextIsSlot` says that `next_fire_at`, and what an
activation has computed, is a slot; `ScansInPast` that a scan looks for what was
due when it began, and `FiredInPast` that what has fired was due: an activation
that sets a timer back to a fired slot is therefore late. CATCH_UP is a loop that moves a cursor from slot to slot, in
the model a recursive function. That it is defined, goes from slot to slot,
leaves out none, stays at none it has fired and goes past none still to come, is
proved without induction over data: the least number at which a claim failed would be
contradicted by the one before it (`LeastNatural`, `Iteration`, `CursorDefined`,
`CursorFacts`). `ResolveFacts` then says what resolveTimer does under each
policy, `BatchFacts` what a batch does.

**TimerApi.** Each action is mapped to one step of the registry, the SELECT of
Activate and Deactivate to none (`ApiNext`). `ApiInv` says that a request on its
way has an id unless it is a Create, and that only a sound Activate or
Deactivate comes to its UPDATE; the WHERE clause of the UPDATE does the rest,
so the 400 of the request that comes second is true when it is given.

**ConsumerGroup.** Ids are given out in order (`AddedInOrder`), the group and
the workers know only messages of the Stream (`DeliveredWasAdded`,
`WorkWasAdded`), and its position only moves on (`TrimIsBehind`), so what
XPENDING saw is still true of the messages below the bound at XTRIM.

**ChronoFlow.** Carried is not inductive: a message may be in the hands of a
handler that is about to acknowledge it. `CarriedOn` strengthens it to an
event, or a message that no handler is about to drop (`Spent`). The step that
makes a handler spent is its SELECT or its result, and both find a row whose
own event exists: `RowsAreSound` relates status, attempts and events of a row;
`MessagesAreSound` and `JobsAreSound` relate Stream, rows and handlers.

**Callback.** Until the last response there is no answer and the redirects
leave room for one more request (`Unanswered`); the body read belongs to an
answer and what Execute returns as a success agrees with it (`BodyOfAnswer`,
`ResultOfAnswer`).

**Config.** Loaded settings are normalized ones, and each rule of the normalize
functions keeps the bounds the rules before it have set, for all integers.

**Application.** `Stages` relates the steps of the main goroutine, `Ledger`
what it opened to what it closed, `NothingStarted`, `EndedBeforeClose` and
`DrainedBeforeClose` the background to both.

Only model-checked:

- liveness, which the proof system does not reach: SendingEnds,
  MessagesGetAcked, EveryExecutionEnds, DueSlotsAreHandled and ProcessExits, and
  the fairness in AtLeastOnceSpec;
- the two violated properties of section 4, which are false.

## 6. Plan

Done: all modules above, and theorems for all invariants and action properties.
What is left:

1. The end of an execution: ChronoFlow as it is allows attempts without end in
   the row and counts them up to the maximum; a bound on the runs without
   takeover could be stated and proved.
2. The safety half of the liveness properties: what each of them says may not be
   undone (an execution that ended stays so, a published event is sent by those
   only that still have it in a batch) as action properties.

## 7. Not modelled

- Queries and the monitoring API read and change nothing. A list is put
  together from three statements (total, page, counts) that may be of different
  moments; nothing relies on their agreement. Monitoring counts rows and asks
  Prometheus.
- HTTP server, CORS, metrics and logging keep no state the others depend on.
- Migrations run before the system starts; the schema enters as the unique keys
  used in Worker and Scheduler.
- The web console and the load tests are clients of the API.
- Cron expressions are parsed by a library and enter as a constant operator that
  gives the first slot after a time. An expression with no further slot ends in
  an error of the scan, which is one of the failing transactions of Scheduler.
- The strings of the configuration and the headers of callbacks.
- Columns nothing depends on (responses, messages, durations, snapshots,
  versions); the scheduler's version check reads a row its own transaction has
  locked and cannot fail.

MySQL enters as atomic statements and transactions with row locks, Redis as its
commands.
