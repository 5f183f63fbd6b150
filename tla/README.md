# Formal models of the transaction gateway

The repository is a payment gateway for a shop: gateway processes (two of them
during a blue/green switch) serve HTTP, one worker process reconciles payment
orders, delivers notifications and streams events, and all of them share one
SQLite database in WAL mode. This directory holds TLA+ models of it, the TLC
configurations that check them and TLAPS proofs.

Paths below are relative to `src/`.

## 1. Inventory

| component | state | operations | what is hard |
|---|---|---|---|
| payOS orders and settlement (`internal/storage/payment_orders.go`, `settlement.go`, `payos_receipts.go`) | `payment_orders`, `payment_receipts`, `payos_webhook_inbox`, transactions, events, journal | reserve, claim, renew, complete, settle, keep a callback, wake | one transfer reported through three paths; leases and tokens; schedules overwritten |
| payment service (`internal/payments`) | operations in flight, due batch | CreateOrder, CancelOrder, reconcileDue, HandleWebhook | state read before a provider request and used after it; ambiguous timeouts; crashes between request and commit |
| provider configuration (`payments/provider_config.go`, `storage/payment_provider_config.go`) | revision, health, quiesced flag, operations in flight, next request slot | configure, quiesce, resume, begin/end operation | a change of configuration while operations hold the old one |
| mutation gate (`storage/deployment_control.go`) | state, owner, token, fence, lease | acquire, renew, release, force-unlock; every write checks it | a deployment whose lease ran out; two deployers |
| delivery outbox (`storage/deliveries.go`, `notifications.go`, `notification/dispatcher.go`) | deliveries, endpoints, claim tokens | enqueue, claim, complete, retry, replay, pause | at-least-once with crashes, one in flight per endpoint, order per endpoint |
| journal and realtime stream (`storage/journal.go`, `realtimestream/`, `eventhub/`) | journal, publisher cursor, subscriber buffers | publish, subscribe, replay, drop slow clients, retention | gaps between replay and live, overflow, deleted rows below a cursor |
| gateway coordinator and SSE (`httpapi/realtime_coordinator.go`, `sse.go`) | bounded input, per-client cursor | notify, reconcile, resume | overflow, reconnect, duplicates |
| SePay ingestion (`storage/sepay.go`, `sepay/`) | inbox, receipts, transport configuration | native webhook, Telegram message, confirm | the same credit over two transports |
| worker RPC and lifecycle (`workerrpc/`, `workerstate/`, `lock/`, `cmd/`) | readiness, handlers, process lock | start, drain, stop | shutdown order, two workers |
| failover controller (`platform/failover`) | active colour, fences, health counts | probe, switch, roll back | stale probes, partial switch |
| browser client (`web`) | cursor, cached transactions | connect, resume, merge | reconnect races |
| HTTP servers, authentication, telemetry, voice, configuration, tools | none that the others depend on | decoding, rendering, one-shot commands | — |

How they meet: gateways and worker only through the database and the worker
RPC; the gate is read inside every mutating transaction; a settlement writes
the transaction, its event, its deliveries and its journal row in one commit,
and the dispatcher and the realtime stream start from those rows.

The hazards of this code are listed in `PROJECT.json`, each at its line.

## 2. Plan

Done: the payOS orders (`PaymentStore`, `PaymentService`, abstract
`PaymentLedger`, `PaymentProofs`, `LedgerProofs`), the delivery outbox
(`DeliveryOutbox`, abstract `DeliveryContract`, `DeliveryProofs`), the way of
an event to the browsers (`RealtimeJournal`, `RealtimeProofs`), SePay
(`SePayIngest`, `TextRules`, `SePayProofs`, `TextProofs`), and the control
plane (`DeploymentGate`, extended by `ProviderConfig`, extended by
`WorkerLifecycle`, `ControlProofs`, `WorkerProofs`).

Open, in this order:

1. An abstract specification of `RealtimeJournal`, "every page sees every
   committed event in order or is loaded anew", and the refinement: the facts
   it needs are in `RInv`.
2. `DeploymentGate` on its own: fences that only grow and name one holder.
3. The failover controller (a Python service that probes two slots and moves
   the route between them).

### What is proved and what is only checked

Every safety invariant, action property and refinement that a passing run
checks is a theorem for all values of the constants. The liveness properties
`EvidenceSettles`, `DeliveriesSettle` and `EventsArrive` need fairness and are
checked by TLC only. The prover works on the same modules that TLC runs; the
assumptions of each are evaluated by TLC on every run.

| module of proofs | inductive invariant | theorems |
|---|---|---|
| `PaymentProofs` | `IInv` | 6 invariants and an action property of the payment service |
| `LedgerProofs` | `WInv` (extends `IInv`) | 5 more invariants and the refinement of `PaymentLedger` |
| `DeliveryProofs` | `IInv` | 5 invariants, an action property and the refinement of `DeliveryContract` |
| `RealtimeProofs` | `RInv` | 3 action properties of pages and coordinators |
| `SePayProofs` | `SInv` | 6 invariants and an action property of the two transports |
| `TextProofs` | `TextsCalled`, `WalkInv`, `AmountsCalled` | 4 invariants: amounts read, moments ordered, lists paged, amounts spoken |
| `ControlProofs` | `Covered`, `Verifiable` | 3 invariants of keys, leases and gate |
| `WorkerProofs` | `WorkerInv` (under `Covered`) | the answers of the worker's RPCs |

## 3. Payment orders

### Modules and code

| module | models |
|---|---|
| `PaymentStore` | the rows of `payment_orders`, `payos_webhook_inbox`, `payment_receipts` and, as operators on a row, every transaction on them (`storage/payment_orders.go`, `settlement.go`, `payos_receipts.go`) |
| `PaymentService` | `CreateOrder`, `CancelOrder`, the reconciler with all its recovery branches and `HandleWebhook` as processes over that store, and the provider |
| `PaymentLedger` | the promise: a transfer is booked at most once, for its own order, and a callback is answered only when its money is booked or its payload is kept |
| `MCPayments` | the callback sets of the TLC instances |
| `PaymentProofs` | the theorems about requests, orders and money |
| `LedgerProofs` | the theorems about journal, inbox, keys and recovery, and the refinement |

A process (`proc[p]`) is a gateway request or the worker's reconciler. Its
`pc` names the next database transaction or provider request; one action is
one transaction or one request together with the computation up to the next.
This is the granularity at which the real processes interleave: SQLite
serialises writing transactions and everything between them is local. A crash
(`Crash`) forgets `proc[p]` at any `pc` and leaves the database, the provider
and the lease.

Data is reduced to what the code compares. A callback is a record of order,
link (its own or another), reference, amount (`full` or `part`), account and a
`fault` that names the review reason; a lease token is the identity of its
process, which is exact because a process holds one operation at a time;
`leased` and `scheduled` stand for the outcomes of comparing `lease_until` and
`next_reconcile_at` with the clock, and `age` for the two comparisons with
`expires_at`. The provider (external) is modelled by the replies the adapter
`payments/payos.go` tells apart: a Create may take effect after its caller
timed out, a Get may answer an incomplete or mismatching link, a Cancel may
lose to a payment, and callbacks arrive in any order, any number of times.

### Runs

| run | question | bounds |
|---|---|---|
| `payments_faults` | do requests of two processes overlap, is the recovery Create sent twice, can an ambiguous answer close or unpay an order | one order, one transfer, worker and gateway, three faults (a fault is a crash, stall, gate closing, timeout, refusal or wrong answer) |
| `payments_callbacks` | two transfers for one order, a callback without account, and payloads that must never book (another link, a part payment, a refusal, the confirmation sample) over webhook, catch-up and cancellation | one order that the provider may close, no fault |
| `payments_two` | two gateways race with one idempotency key or create two orders that claim one bank reference; refinement of `PaymentLedger` | two orders, two keys, a worker and two gateways, no fault |
| `payments_live` | does an acknowledged payment end `PAID`, whatever it was waiting for | one order that the provider knows before the database, closing and expiry, one fault |
| `payments_lost_wakeup` | is kept evidence scheduled, without the 24 hour limit: **violated** | one order, no fault |

The hard cases need two actors on one order, or two orders on one reference,
and one to three faults: every pair of operations and every crash point of
both is reached. Budgets are consumed by faults only; ordinary steps are not
bounded.

Finding: `terminalReconcileAt` (`payments/reconcile.go:394`) gives no next
reconciliation once expiry plus 24 hours has passed, and the completion of an
operation writes that over a wake-up which a callback committed while the
operation was running. The kept evidence stays pending and nothing looks at
its order again: the wake scan only promotes evidence of unknown orders, and
an exact replay of the callback does not schedule anew. Without the age limit
`EvidenceScheduled` is violated in a few steps and without any fault; within
it kept evidence settles (`payments_live`).

Fairness (`Fairness`) is weak fairness of each process's own next step (a
provider request ends after 15 seconds at the latest), of the reconciler's
scan and visit of a due order (one-second tick), of lease expiry (30 seconds)
and of the gate opening again (its lease ends or is released). Faults are
never fair and their number is bounded.

### Proofs

`PaymentProofs` proves, for any sets of orders, references, accounts, keys,
processes and callbacks and any fault budget, that

    IInv == TypeOK /\ OperationsSound /\ RequestsLeased /\ OrdersBound
            /\ SettledOnce /\ CreditsAreTransfers /\ ClosedByProvider

is inductive (`Invariance`). The safety properties are not inductive alone: an
operation in flight carries facts from a snapshot and from provider answers
that the final commit relies on. `OperationsSound` says what each `pc` may
rely on (transactions it carries were received by the provider, a terminal
update it carries is the provider's state, its link is the order's own);
`RequestsLeased` ties a request in flight to the lease of its order; and
`OrdersBound` says a bound order's account and link are the provider's. Every
action is then shown to be either *quiet* (no financial field moves) or the
booking of exactly one received transfer. From `Invariance` follow
`TypeCorrect`, `SettlesOnce`, `CreditsOnlyTransfers`, `ClosesOnlyClosed`,
`RequestsExclusive` and the action property `PaidStays`.

Assumptions: `StoreAssumption` and `ServiceAssumption` – the "no" values are
outside their sets, the worker is a process, budgets are natural numbers.

`LedgerProofs` adds what the rows say of each other:

    WInv == IInv /\ Written /\ ItemsHeld /\ OneOrderPerKey
            /\ AttemptsRecorded /\ RecoveryCreateOnce

`Written` is the conjunction of `JournalMatchesReceipts`, `ResolvedIsSettled`
and `AcksAreDurable`; it is inductive only with `ItemsHeld`, since a settlement
resolves callbacks that its process read in an earlier transaction.
`RecoveryCreateOnce` needs `AttemptsRecorded`: the mark `qrTried` is written
under the lease before the Create is sent, and a snapshot knows the mark as long
as its process holds the token, so a process that was suspended or took the
order over cannot send a second one. `ServiceImplementsLedger` maps the detailed
state to `PaymentLedger` (receipts to `received`, the orders' `txnId` to
`booked`, the inbox rows to `held` and, once processed, to `resolved`, `acked`
to `answered`) and shows each action to be a booking, an answer, a kept callback
or a stutter; the booking step uses `IInv`, the answer uses `AcksAreDurable`.

Only model-checked: liveness (`EvidenceSettles`; the prover does not handle
fairness).

### Simplifications

One payment channel. An error while a due batch is worked on drops the rest of
the batch, as the managed reconciler does. Backoff lengths are an arbitrary
delay. A repeated idempotency key with another request hash changes no state
and is not a step. The handlers `createPayment` and `cancelPayment` are the
first step of their operation; a client over its quota is refused without one.
Quiesce, resume, the provider pin and the owners of the gate are in
`ProviderConfig` and `WorkerLifecycle`; here the gate is a flag that closes at
any moment. Two things the model shows and no property forbids: a stored
callback that can never match a Get (it names no account) keeps the catch-up
of its order pending (`reconcile.go:625`), and an order that stays `CREATING`
because its link never existed is looked at again at every lease end after 24
hours (`payment_orders.go:375`).

## 4. Delivery outbox

### Modules and code

`DeliveryOutbox` models `notification_deliveries` and the channels
(`storage/deliveries.go`, `events.go`, `notifications.go`) together with the
dispatcher's goroutines (`notification/dispatcher.go`). A goroutine (`job[w]`)
passes `Admit` (reads `paused`), `Count` (registers itself),
`ClaimDelivery`, `DeliveryTarget`, `Send`, `RecordAttempt` and
`FinishDelivery`. `Send` ends in one of `SendResults`, what the two senders
(`WebhookSend` for `webhook/sender.go`, `doPush` for `bark/sender.go`) make of
an answer and whether the receiver took the message. Each of these is a database write, a request or a locked section of its
own. Administrators edit, rotate, enable and disable channels and replay dead
letters at any time; the worker is drained, resumed and restarted.
`DeliveryContract` is the abstract at-least-once promise: enqueued once, filed
as delivered only after the receiver took it and then for good, given up only
until somebody replays it. `DeliveryProofs` holds the theorems.

### Runs

| run | question | bounds |
|---|---|---|
| `delivery` | one live claim per channel; does a goroutine that lost its claim change anything; are attempt numbers unique; do retry cycles end across replays; is a drained worker silent; does a receiver get the channel version committed with its event; refinement of `DeliveryContract`; is every delivery settled again and again, unless its channel is disabled | two events, one channel in two versions, two goroutines, two attempts per cycle, one administrative change, one fault (one event only where the change edits the channel and there is a fault too) |

Two goroutines are symmetric; a third adds no new pair of steps on one row and
claims are per channel. Two events suffice for the order of claims within a
channel. `MaxRetries`, `MaxVersion`, `FaultBudget` and `ChangeBudget` are the
only bounds of the module; the instance adds `EditsApart`, which keeps a fault
and an edit of the channel out of the same behaviour when both events are there.

Fairness: a goroutine takes its next step (a send ends after 15 seconds and
the idle timer fires after at most a minute), a retry becomes due, an
abandoned claim expires after 30 seconds, and a drained worker is resumed or
restarted. Crashes, stalls and database errors are not fair.

### Proofs

For any events, channels, finite set of goroutines, retry limit and budgets
`DeliveryProofs` shows that

    IInv == TypeOK /\ ActiveCounts /\ DrainClosed /\ Sound

is inductive. `ActiveCounts` (the counter is the number of registered
goroutines) and `DrainClosed` (nobody is between reading `paused` and
registering once a drain began) carry `DrainedIsQuiet`; `Sound` relates the
rows to the jobs: a live claim names its goroutine and agrees with its job on
attempt and cycle, two jobs never share an attempt number, and a success a job
carries was seen by the receiver (`SuccessTaken`: neither sender reports
success unless the receiver confirmed). From it follow `TypeCorrect`,
`ClaimsExclusive`, `AttemptsUnique`, `RetriesEnd`, `DrainSilences`,
`SendsCommitted`, the action property `ClaimsKept`, and
`OutboxImplementsContract`, the refinement of the abstract contract. Liveness
(`DeliveriesSettle`) is only model-checked, `TypeOK` only proved.

Assumption: `OutboxAssumption` – finite goroutines, a `NoWorker` value outside
them, natural bounds.

### Simplifications

A claim may take any claimable delivery (the code takes the oldest, a
restriction of this). Payloads, signatures and backoff lengths are left out; a
failed optimistic revision check of an administrator changes nothing and is
not a step. A claim token is the identity of its goroutine, which has one
delivery at a time. The dispatcher does not look at the mutation gate and
neither does the model.

## 5. Journal and realtime stream

### Modules and code

`RealtimeJournal` follows an event from its commit to a browser.

| state | code |
|---|---|
| `head`, `tail` | `event_journal` holds the rows `tail+1 .. head`; `MaxJournalSeq` and `MinJournalSeq` are 0 when it is empty, as in `storage/journal.go` |
| `hints` | events committed by a gateway request that has not called its notifier yet |
| `cursor`, `stream` | `JournalPublisher.cursor` and each gateway's subscription to the worker's hub (`realtimestream/`, `eventhub/hub.go`) |
| `coord` | `RealtimeCoordinator`: `lastSeq`, the bounded `input`, `reconcileNow` and where `reconcile` has got to |
| `conn` | `eventsStreamFiltered` for one page: its hub channel, watermark, batch and the hint it drains for |
| `page` | the browser's `RealtimeClient`: `lastEventId` (`cursor`), what it has shown or loaded (`upto`) |

One action is one query of the journal, one event taken from a channel, one
event published to all subscribers (`Hub.Publish` holds its lock), or one event
written to a page. `DeleteJournalBefore` may therefore fall between any two
queries of a reader. Restarts of the worker and of a gateway, broken streams
and connections and failed reads (`ReconcileFails`, `Disconnect`) are faults
and share the bound `FaultBudget`. `raced` and `lagged` are history: rows
deleted while the present connection of a page replayed, or was live but
behind.

### Runs

| run | question | bounds |
|---|---|---|
| `realtime_pages` | does a page, or the coordinator, ever pass over an event; does a page see one twice | one gateway that commits events itself, one page, three events, queues of one element, batches of two rows, one fault |
| `realtime_live` | does every event arrive | one gateway behind the worker's stream, a page of the public stream, two events of which the first is filtered, one fault |
| `realtime_startup` | does every event arrive if pages may connect before the coordinator is initialised: **violated** | one gateway, an ordinary page, two events, one fault |

Three events are what a silent gap needs (shown, lost, shown); with queues of
one element and batches of two, overflow, cut-off subscribers, full and partial
batches all occur with them. One page is enough because pages share nothing
but the hub, which treats each subscriber alike; a second gateway adds nothing
for a page that a replay ahead of, or behind, its coordinator does not.

`NoSilentGap` says that a page receives event n only when it has shown or
loaded all earlier ones it may see, apart from rows that retention deleted
during this very connection. `ShownOnce` is what keeps a payment from being
announced twice. `NothingPassedOver` is about `reconcile`: its jump to
`minSeq-1` and its "nothing left below the target" branch may only skip
deleted rows. `EventsArrive` is the liveness of the whole.

Fairness: the coordinator's goroutine and the handlers keep running, the
one-second ticker is selected again and again (strong fairness, since `select`
picks at random among ready channels and a pending input may be served first),
and a page reconnects (`scheduleReconnect`). Nothing is asked of the worker,
the stream or the notifiers, so `realtime_live` shows that the tick alone
repairs everything they lose. `Writers` and `Streams` choose, for each run,
which gateways commit events themselves and which read the worker's stream;
both at once are too many states for TLC.

`eventsStreamFiltered` reads `min(seq)` and `max(seq)` in two queries and the
rows in a third. A retention pass after the first deletes rows above the page's
cursor and the page is served from behind them without a reset
(`sse.go:85`); so is a page that finds the journal empty at the first query and
not at the second. These are the rows that `NoSilentGap` leaves out. Retention
keeps 24 hours, so only a page that was away for about that long is affected.

`realtime_startup` (finding): `cmd/gateway/main.go` starts the coordinator in a
goroutine and serves at once. A page that has finished its replay before the
coordinator reads `max(seq)` misses the events committed in between, until the
next event makes its handler drain the journal. `WaitReady` exists and is used
by tests only. The passing runs set `EarlyClients = FALSE`, that is, they assume
the barrier.

### Proofs

`RealtimeProofs` proves the three action properties from `JournalAssumption`
alone, for any gateways, clients, filters, queue lengths, batch size and number
of faults, with early clients or without. The invariant is

    RInv == Committed /\ Streamed /\ Coordinating /\ Serving

The first two say that what is queued anywhere upstream is already committed:
then the target of a coordinator never lies beyond the journal, and "nothing
left to read" means that all rows up to it are deleted (`Coordinated`).
`Serving` says of each handler that whatever lies behind its watermark, or is
deleted ahead of it, has been shown, is filtered, or is in `raced` or `lagged`;
that a batch begins behind deleted rows only; and that the cursor of a page is
never behind the last event it received (`Paged`, `Served`). Coordinators,
handlers and pages are values in these definitions, so most lemmas are about
one record. `StepRight` is what each step may do to a coordinator and a page;
`RInvStep` proves it together with the invariant. `PagesMissNothing`,
`PagesShowOnce` and `CoordinatorsPassNothing` follow. `EventsArrive` is only
model-checked.

### Simplifications

Retention removes rows in sequence order: `created_at` is taken just before the
insert, so two concurrent writers may be stored out of time order and a cutoff
that falls between the two would leave the older number for one more interval.
When a row is old enough is left open. A gateway with the stream switched off
by configuration polls with `RunJournalWatcher` instead, which is not modelled.
A page's reload (`refreshSnapshot`) is taken to see all that is committed when
its `initial_state` is sent; it is requested later, so it sees at least that.

## 6. SePay

### Modules and code

`SePayIngest` models the two transports that report one bank credit (the bot's
Telegram messages and the signed native webhook) together with the managed
configuration that says which of them books (`storage/sepay.go`,
`storage/sepay_config.go`, `sepay/`, `httpapi/sepay*.go`).

| state | code |
|---|---|
| `conf` | `sepay_managed_config`, all its revisions; the first is the bootstrap file |
| `telegram`, `native`, `receipts`, `quarantine`, `connections` | the tables of those names |
| `ledger` | transactions, each with the event it emits |
| `request`, `admin` | the snapshot of a webhook in progress, an owner's save or registration |
| `webhook` | the secret that Telegram sends (external) |

A webhook reads its configuration (`Snapshot`) and does everything else in one
transaction that checks the revision again (`IngestSePayNotification`,
`IngestSePayWebhook`). A save takes its activation time and its secret before
it commits (`SaveAdminConfig`, `SaveSePayManagedConfig`): an authority that stays
keeps its activation, a new one starts now, and while there is none the body may
name a time (`NextActivation`). Registering with
Telegram is a request of its own. A text is reduced to the fields the parser
takes from it.

`TextRules` holds the pure algorithms of this code, as operators and recursive
functions: the amount scanner of `sepay/parser.go`, the order of times stored
as `RFC3339Nano` text, the reading of an amount aloud
(`voicecopy/money_vi.go`), and the pages of transactions, orders, deliveries,
reviews and audit rows with their cursors. They keep no state; a call of one of
them, with any arguments up to the bounds, is a behaviour of its own in
`MCSePay`, begun in one of the initial states. A list takes several steps: the
reader gets the first page (`CallList`) and then one page per step
(`NextPage`), the table may be any other one before each, and `call` keeps the
pages had before (`earlier`) and the rows that were there all the time (`stay`).
An amount is read aloud from its groups of three digits (`GroupValues`,
`Amount`): a block of three groups has "triệu" and "nghìn" of its own, a block
above the lowest ends in "tỷ", twice for the highest, and zero is "không đồng".

### Runs

| run | question | bounds |
|---|---|---|
| `sepay` | is a transfer booked twice or lost between the transports; is it booked under the authority in force, with its evidence; does a 200 keep the message; does the registered secret stay the stored one; and the rules of `TextRules` | five updates and four webhooks about one transfer, one request at a time, two owners, six configurations (one that only observes and names a time of its own) over five bootstrap files, one save, a clock of one second in half-second steps; amounts of up to five characters and up to 1999 VND; two moments with two digits of fraction each; spoken amounts of up to seven groups of digits; two page sizes over tables of up to six rows, any of them before each page |
| `sepay_switch` | is a transfer ever booked twice: **violated** | one owner, two configurations |

Owners are interchangeable, and so are the two deliveries of the webhook, which
differ in nothing but ids that are only compared: both are symmetry sets.

A request commits in one transaction and keeps nothing but its revision, so a
second handler only adds interleavings of snapshots that one handler with a
save in between already has.

`sepay_switch` (finding): the activation time of a switch is taken before the
save commits, and the native webhook goes on booking until then; Telegram, once
in authority, does not look at native bookings. A transfer made in that window
is booked by both. `TwiceOnlyAcrossASwitch` and `MissedOnlyAcrossASwitch` say
that nothing else is booked twice or falls between the two.

`TextOrderToTheSecond` states what the text order gives: moments of different
seconds compare rightly. Within one second the format drops trailing zeros of
the fraction and the order may be wrong; all uses compare leases and schedules
of several seconds. `PagesListOnce` covers transactions that have a bank day;
one whose day is missing passes every last-day filter, because an empty text is
before every day (`queries.go`, `ListTransactionsFiltered`).

### Proofs

`SePayProofs` proves all safety properties of `SePayIngest` for any messages,
webhooks, stores, receivers, owners, drafts and bootstrap files and any clock:

    SInv == TypeOK /\ AdminsSound /\ SwitchedBetween
            /\ RegisteredSecretAuthenticates /\ ReceiverStaysPinned /\ AcksKept
            /\ EntriesInOrder /\ RowsLinked /\ EntriesAccepted /\ ReceiptsSound
            /\ TelegramAfterNative /\ OpenRowsWait

What is booked twice, or by nobody, is a statement about two revisions of the
configuration that may lie far apart, so the invariant keeps the history of
authority: an entry was booked by the authority of its revision
(`EntriesInOrder`), a row that is only kept came at a revision at which its
transport was not the authority or not yet (`OpenRowsWait`), and between a
revision and a later one that has another authority, or the same with another
activation, there is a switch that set the later activation (`SwitchedBetween`). That a save prepared before another one
committed keeps this is `AdminsSound`. `SInv` gives `BookedTwiceOnlyAcrossASwitch`,
`CreditsMissedOnlyAcrossASwitch`, `BooksHaveEvidence`, `PinnedReceivers`,
`AcknowledgedIsKept`, `RegistrationAuthenticates` and the action property
`BookingsAreAuthorised`.

Assumptions, beyond the types of messages and drafts: a bootstrap file passes
`ParseConfig` and Telegram holds its secret, a foreign one or none
(`LegacyAssumption`); `None` is no receiver (`NoneAssumption`); and two
messages with one bank reference are about one transfer and name one moment
(`TransfersAssumption`). The last one cannot be dropped: the code recognises a
transfer by its reference, so a message with another moment under a known
reference is another transfer to it. Two native webhooks without a reference
are told apart by their ids only; `SameTransfer` therefore speaks of transfers
that have a reference.

`TextProofs` proves the four properties of `TextRules` without the bounds of
the run. Its theorems about recursive functions need induction over numbers.
The library states that with an operator parameter, which the provers cannot
instantiate; `Induction` and `Recursion` get it, for a set instead of an
operator, from the well-foundedness of the subsets of a finite set (`WFMin`,
`FS_StrictSubsetOrderingWellFounded`), by way of `LeastNatural`.

- `TextsKeepTime` (`TextOrderToTheSecond`), for every second and every fraction
  of two digits: two texts are compared at the first place where they differ,
  and for different moments that place exists in both.
- `AmountsAreRead` (`AmountsReadRight`), for texts of any length: `TurnTells`
  says what the scanner knows after each character in terms of the text
  alone (one separator, at which places, no other character, and the number so
  far), `ScanTells` follows by induction, and `RefusedRightly` compares
  the end of the scan with the definition of an amount. The first attempt
  failed on the definition itself, which let the first group have four digits
  when the text has eight characters, more than the run reaches; the scanner
  was right.
- `ListsArePaged` (`PagesListOnce`), for tables, keys and limits of any size and
  any change of the table before every page. The keys of one list are
  totally ordered (`KeysInOrder`), a finite set of rows has a lowest one
  (`EndsOfRows`), so a page that is not the last has a cursor that separates it
  from the rest (`PageTells`). `WalkInv`: all rows had so far have keys not
  below the cursor, and every row asked for that stayed and is above it was had.
- `AmountsAreSpokenApart` (`AmountsSpokenApart`), for amounts of up to nine
  groups. A sentence is taken apart at its first mark, a word that
  the part before it does not have, in one way only (`OnePart`). "tỷ" and
  "đồng" are marks for blocks, "triệu" and "nghìn" for the groups of a block
  (`BlocksApart`), "trăm" for the hundreds, and what is left are at most three
  words (`TensApart`). Whether a group is read with its zeros ("không trăm")
  depends on the groups above it, so the groups are found from the highest down.
  The argument needs no bound on how many amounts are compared; that
  `SpokenGroups` holds finite sets only lets them be counted.

Assumptions: no separator or other character is a digit and the digits have the
values 0 to 9, the keys of one list have the same places, limits are positive
(`TextAssumption`), and the amounts of one set in `SpokenGroups` have the same
number of groups (`SpokenAssumption`).

## 7. Gate, provider configuration and worker lifecycle

### Modules and code

| module | models |
|---|---|
| `DeploymentGate` | the row of `deployment_control`: acquire, renew, release, force-unlock, expiry, and the test every writer makes (`storage/deployment_control.go`) |
| `ProviderConfig` | the managed payOS keys, their kept versions, and the operations that copy them, hold a lease, talk to payOS and commit (`payments/provider_config.go`, `storage/payment_provider_config.go`) |
| `WorkerLifecycle` | the coordinator, the quiesce, resume and drain calls step by step, readiness, start, shutdown and death (`workerstate/`, `workerrpc/`, `cmd/worker/main.go`, `cmd/gateway/main.go`) |
| `MCControl` | the instance for TLC |
| `ControlProofs`, `WorkerProofs` | the theorems |

They form one specification, because an answered quiesce is a statement about
the operations of every process, and a commit one about owners, deployers and
leases together. An operation that is suspended keeps its copy; `LeaseLapses`
ends its lease and nothing brings it back. `links` keeps the keys of every link
that payOS was ever asked for, by `CreateOrder` (`ReservePaymentOrder`, `Create`)
or by the recovery of an order (`RenewPaymentOrderOperation`, `Create`): payOS may
issue the link from then on or never, so a request that takes effect after its
operation timed out, ended or died needs no action of its own. A recovery asks
under the keys of its own operation, whether or not their webhook is confirmed
(`recoverCreate` looks at no readiness), so `ConfirmedByPayOS` speaks of
reservations only. A call (`calls[c]`) is at the pause
or resume it makes next; `Gone` removes the process and leaves its rows.

### Run

| run | question | bounds |
|---|---|---|
| `control` | is everything committed under the keys in force and an open gate; are the callbacks of every link that `CreateOrder` or the recovery asked for verifiable after any save, and those of adopted links once their key was saved; is a confirmed configuration confirmed by payOS; is the answer of a quiesce or resume kept | a gateway operation (order, confirmation or callback), a worker operation (reconcile), a deployer, an RPC caller and `main`; three drafts; two of saves, acquisitions, calls and deaths together; starting with credentials, and without them, with an adopted order that has a link, with one that has none, and with no order |

The drafts replace the checksum key in either direction, inherit the API key, or
name another client. A budget of two lets any two of these meet an operation at any of its steps:
two saves, a save and a deployment, a quiesce and a death, a quiesce and the
resume that undoes it. `Duties` gives the gateway's operation the kinds that only
a gateway has. A cancellation (`CancelOrder`) also runs in a gateway and is the
operation `reconcile`, which the worker's operation stands for; the proofs allow
every kind in every gateway operation. Only safety is checked here: nothing in
the code obliges an operator to call resume.

**Adopted links.** `CallbacksVerifiable` does not cover every link there is. An
upgrade finds orders of an earlier release, whose channel is stored and whose
keys are not. The first managed save adopts them when it names their client and
takes any checksum key for it (`storage/payment_provider_config.go:164-174`). If
that is not the key that signs their callbacks, no row of
`payment_provider_credential_versions` has theirs and `verifyWebhook` refuses
them; a payment on such a link is then found only by the catch-up, which asks
payOS. This ends when an owner saves the earlier checksum key once: from then on
it is among the versions and the callbacks are accepted for good, whatever is
saved later. The property states just that (`Named`), and the run starts with
such links under a key that a draft may save first, later or never.

`AnswersHold` is restricted to calls that no other call overlapped. Without the
restriction it does not hold, as reading the code shows too:

- a quiesce that fails resumes everything, also after an overlapping one was
  answered "quiesced", and an overlapping resume can leave the coordinator
  `READY` with the dispatcher paused; they may also overwrite `DRAINING` or
  `STOPPING`;
- `Resume` answers ok although clearing the database flag failed;
- the flag survives a graceful restart: the worker is ready and its payments
  are paused until somebody calls resume. A gateway that runs everything in
  one process sets it when it stops (`cmd/gateway/main.go:461`) and nothing
  clears it;
- a quiesce that comes before `SetReady` ends the process, and after
  `/rpc/drain` the quiesce of `main` itself is refused, so the exit code is 1;
- `RenewMutationGate` does not look at the expiry, so a deployer may take up a
  lease that had run out although commits were possible in between;
- `reconcileDue` wakes pending callbacks without a lease of its own, after
  reading the paused flag.

### Proofs

`ControlProofs` proves, for any operations and duties, deployers, callers,
drafts, earlier checksum keys and budget, and from no assumption about them, that

    Covered    == Shaped /\ LeaseHoldsKeys /\ OpsConfirmed /\ ConfirmedByPayOS
    Verifiable == VersionsKept /\ LinksKept /\ Channel /\ OpKept of every operation

are inductive, the second under the first. None of the three properties is
inductive alone. A commit tests the lease and the gate, not the keys:
`LeaseHoldsKeys` says that an operation with a live lease still has the keys in
force, which holds because `SavePaymentProviderConfig` changes keys only while
there is no live lease. `OpsConfirmed` records what an operation has passed by
its next step, so that the orders it reserves carry confirmed keys. Keys that
are replaced stay among the versions below the new revision (`VersionsKept`),
and an operation that may still commit copied a revision at which no later keys
were recorded (`Fresh`), so both verify the callbacks of every link whose key
some version names (`NamedAccepted`). An operation is pinned under keys that a
version has, so every link that it asks for has such a key, for `CreateOrder`
and the recovery alike (`LinksKept`), and an order of its channel (`Ordered`); of links under `LegacyKeys` nothing is
claimed before a version names their key.

`ConfirmationsReal`, `CommitsUnderKeysInForce` and `CallbacksStayVerifiable`
follow.

`WorkerProofs` proves `AnswersHold` (`AnswersAreKept`) from

    WorkerInv == CallsShaped /\ AloneAchieves /\ Promised /\ DownIsEmpty

under `Covered`. `AnswersHold` alone says nothing of the calls in progress:
`AloneAchieves` records what a call that nothing overlapped has paused or
started by its next step, so that its last step may give the promise, and
`Promised` says which steps the calls after it may still take, so that nothing
but a new request, which withdraws the promise, can break it; of a worker that
died only the pause of the payments is left.

### Simplifications

Encryption of the keys, request ids, the limit of concurrent calls and the
sizes of deadlines are left out. A lease token is its fence generation. What
an operation commits (an order, an outcome, a confirmation) is reduced to the
keys it is committed under; the money is in `PaymentService`.

## 8. Not modelled

`PROJECT.json` gives the reason for each part. The failover controller is a
Python service of its own and is in the plan. Authentication and encryption,
telemetry, configuration parsing, the generated voice catalogue and clips, and
the one-shot operator tools keep no state that the modelled parts read. Of the
modelled parts, byte formats, signatures, rate limits, backoff lengths and
rendering are left out.
