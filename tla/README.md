# LogisticOS (breakdisk/cm-app) in TLA+

This directory specifies, model-checks and proves parts of LogisticOS: a
multi-tenant logistics platform of some twenty Rust services that share a
Postgres server (one schema each), talk over HTTP, and publish domain events
on Kafka. The specifications are written from the code under `src/`; every
definition that stands for code is mapped to its lines in `PROJECT.json`.

What is covered today is the path on which money, couriers and goods meet:

    omnideliv  -- offer (HTTP) -->  field-ops  -- fieldops.courier (Kafka) -->  omnideliv
        |                              |
        |  authorize/capture/void      |  compliance verdicts (Kafka)
        v                              ^
    payments -- payment.intent.* -->   compliance
       |      (to omnideliv)
       v
    order-intake -- shipment.* (Kafka) -->  dispatch -- task.assigned -->  driver-ops
                 <-- driver.assigned, pickup.*, delivery.*, hub events --

`field-ops` is the platform's courier pool (ADR-0015): products dispatch from
it, none of them owns it. `omnideliv` is the product that uses it: a customer's
basket of several stores becomes one order with one leg per store. The parcel
business is the other half: `order-intake` books shipments, `dispatch` finds a
driver for each, `driver-ops` holds the drivers' tasks.

## 1. Inventory

### 1.1 The parts modelled

**Offers, claims and milestones** (`services/field-ops`, dispatch service and
assignment repository).
State: the table `courier_assignments`, one row per courier, job and offering
call, with a status. Operations: `offer_to_nearest` (a supply query, then one
INSERT per await), `claim` (a compare-and-swap guarded by a partial unique
index, then a bulk UPDATE that expires the other offers, then an event),
`mark_arrived`, `mark_collected`, `mark_delivered`. Hard: every request is a
chain of awaits that may interleave with every other and die in between; events
are fire-and-forget; `save` is an unconditional upsert of an older read.
Correct when: a courier carries one job at a time, milestones come from whoever
carries it, and rows only move forward.

**Courier ledger** (`domain/entities/ledger.rs`, `ledger_repo.rs`, the money
half of the dispatch service). State: one row per courier and ISO week with a
version and a denormalised balance, and an append-only log of entries.
Operations: `credit_courier`, `remit_cash`, `run_payout`. Hard: three kinds of
writers read, decide and save without a lock; the version gate; retries that
arrive in another week. Correct when: nothing is credited, remitted or paid
twice, and the balance is the sum of the log.

**Delivery** (`mark_delivered`). Where the two meet: complete the row, save,
credit, save, publish, answer, in separate transactions. Correct when: whoever
is told "delivered" is told so of a job that is paid.

**Courier roster** (`domain/entities/courier.rs`, `courier_repo.rs`, the
compliance consumer). State: the courier's row. Operations: sign-up, suspension,
duty, positions (all read-modify-write), verdicts (one column-wise UPDATE from a
Kafka consumer that may be restarted). Correct when: ops' decisions and
compliance's verdicts hold against saves of older reads.

**OmniDeliv order saga** (`services/omnideliv`: checkout, order and leg
repositories, courier consumer, payment consumer, recovery sweep, tablets).
State: the order's row, its legs, the stores' ledgers, the payment intent.
Operations: `place` and the save after it; tablet transitions; `Assigned`,
`Arrived`, `Collected`, `Delivered` milestones; `payment.intent.authorized` and
`.failed`; the periodic sweep that re-offers a cash order and voids the hold of a
prepaid one. Hard: two consumers and a sweep that save whole orders they read
before an HTTP call; at-least-once delivery that in fact skips errors; side
effects before saves. Correct when: nobody pays for an order that was cancelled,
no store goes unpaid for what was collected, and the order only moves forward.

**Payment intents** (`services/payments`: payment intent service, entity and
repository, the shipment-cancelled consumer, the two sweeps).
State: one row per intent, with a status, the gateway's payment reference and the
refund that is owed. Operations: `create_intent`; webhooks (captured, authorized,
failed), delivered at least once; `sweep_expired`; `refund`, for cancelled
shipments and from `sweep_pending_refunds`; `capture_intent`, `void_intent`.
Hard: every one reads the row and saves the whole of it after other awaits; calls of
the gateway are claimed by conditional UPDATEs, may fail, and may take effect
without being heard of; a refund's claim is a lease. Correct when: the gateway is called
by one request at a time, the record says what happened to the money, the products hear
one verdict, and a refund that is owed is made.

**Dispatch queue** (`services/dispatch`: driver assignment and offer services,
their repositories, the shipment and task consumers, the sweeps).
State: the queue row of a shipment, its offers with their waves and candidates, and
the drivers' assignments with their routes. Operations: `quick_dispatch` (from a
consumer, the dispatch sweep or a console), `broadcast`, `claim`, `accept` and `reject`,
`escalate_or_expire` by the offer sweep of each replica, drops, cancellations and
the consoles' corrections. Hard: two replicas run every consumer and sweep; what was
read is acted on many awaits later; an acceptance saves a whole row; a few statements
whose errors are dropped. Correct when: an offer is won once, a driver has one trip at
a time, and no shipment is parked where no sweep looks.

**Shipment intake** (`services/order-intake`: shipment service, repository, payment
and status consumers, the expiry sweep). State: the shipment's row with its status,
its payment status and the three events it holds back until it is paid. Operations: `create`
with its retries under an idempotency key, the discount, the payment intent; captured and
failed payments; `cancel`, `reschedule`, `override_status`; the sweep of unpaid
bookings; progress reports of the other services. Hard: five writers of one row, three
of which save a whole copy; publishing between two saves; a consumer whose failed
messages a later commit passes over. Correct when: a booking is made once, what is unpaid is
never dispatched and what is paid is, and a published cancellation is final.

### 1.2 The parts not modelled

| Part | State it keeps | Hard behaviour | What would make it correct | Why not (yet) |
|---|---|---|---|---|
| payments: wallet, COD, withdrawals, invoices, subscriptions | ledgers, batches, invoices | idempotency keys, balance under concurrent withdrawals | conservation of money | planned |
| driver-ops | tasks, drivers' positions | tasks created from events in any order | tasks match assignments | planned, with `DispatchQueue` |
| order-intake and dispatch: whole-home moves | surveys, addenda, side slots | several trucks per move | the parts of a move agree | planned |
| omnideliv: baskets, catalogue, venues, tables, vendor ledger | session and row state | basket version gate; the vendor ledger's gate is the courier ledger's | basket edits are not lost | the gate is modelled once |
| carrier, hub-ops, fleet | allocations, manifests, pallets, vehicles | one row per aggregate | lifecycle graphs | single-actor state machines |
| identity, api-gateway, auth library | tenants, users, keys | - | access rules | no protocol between processes |
| compliance, pod | documents, proofs | - | lifecycle graphs | compliance's verdicts are an input of CourierRoster |
| engagement, connectors, webhooks, marketing | queues of outgoing calls | retries to outside systems | - | output only |
| delivery-experience, analytics, cdp | read models | - | - | derived data |
| promotions, business-logic | codes, rules | - | - | CRUD and a pure rule interpreter |
| ai-layer, agent-runtime | conversations | - | - | calls to language models |
| apps, packages/ui, infra, scripts | - | - | - | user interfaces and deployment |

### 1.3 Where the hazards are

`PROJECT.json` lists each at its line. In short: reads used after an await
(every handler); a version gate that compares with the new version; a credit and
the row that triggers it in two transactions; a bulk UPDATE racing
single-row INSERTs; whole-row and whole-order saves; offers made before the
order or its authorization is on record; consumers that log an error and move on;
consumers restarted from an older offset; retries in another period; calls of a
gateway that took effect and were not heard of; sweeps that run in two replicas;
an offer and its queue row changed by two statements; retries that run beside
the attempt they repeat.

Some more are known and kept out of that list, because the code has nothing there that a
property could hold of: a claim whose courier vanished is never reclaimed
(`assignment.rs:170` has `is_stale`, no sweep calls it); a verdict whose UPDATE failed is
committed all the same (`compliance_consumer.rs:158`); an order with a store that refuses after
the last collection stays collecting (`omnideliv order.rs:947`); a capture or void claim
has no lease (`payment_intent_repo.rs:232`); a redelivered webhook is taken for a replay, so a
lost event is not made up for (`payment_intent_service.rs:200`); a rejected or orphaned
assignment leaves its queue row dispatched (`driver_assignment_service.rs:304`); a booking
whose row was saved and whose pieces or events were not is answered as booked when it is
retried (`shipment_service.rs:831`).

## 2. Modules

| Module | What it is | Variables and the code they stand for |
|---|---|---|
| `CourierDuty` | abstract specification: a courier takes one job at a time and finishes it | - |
| `CourierFeed` | abstract specification, between field-ops and a product: what the product may hear of one of its jobs | - |
| `CourierDispatch` | assignments | `status` the table; `selected` rows an offering call has yet to save; `pc`, `target` the await each request is at and the row it read; `published` the topic |
| `CourierDispatchProofs` | its theorems, and that it implements `CourierDuty` and `CourierFeed` | |
| `CourierLedger` | ledgers | `row` version and balance; `log` sums of entries by kind; `entries` counts of job entries; `req` what each writer read; `week` |
| `CourierAccount` | abstract specification: the ledgers as if every credit, remittance and payout ran alone | - |
| `CourierLedgerProofs` | its theorems, and that it implements `CourierAccount` | |
| `FieldOps` | composition of the two over `mark_delivered` | both sets, and `acked`, who was answered 200 |
| `FieldOpsProofs` | its theorems, and that it implements both halves | |
| `CourierRoster` | couriers' rows and the compliance consumer | `saved`, `cleared` the columns; `req`; `topic`, `handled`, `offset` the consumer; `ordered`, `since`, `lost`, `behind`, `undone` record history |
| `CourierRosterProofs` | its theorems | |
| `OmniOrder` | one order of omnideliv with its neighbours' share | `order`, `legs` the rows; `courier`, `payment`, `sweep` what each process read and does next; `position`, `noticed` where the consumers are; `credits` in the stores' ledgers; `job`, `milestones` field-ops; `intent`, `notices` payments; `cut` history |
| `OmniOrderProofs` | its theorems, and that it keeps to both contracts | |
| `PaymentHold` | abstract specification, between payments and a product: what may become of an intent, and what may be published of it | - |
| `PaymentIntent` | one payment intent | `row` the intent's row; `req` what each request read and does next; `events` the topics; `money`, `returns`, `sent` the gateway and its webhooks; `overwritten`, `cut` record history |
| `PaymentIntentProofs` | its theorems, and that it implements `PaymentHold` | |
| `DispatchQueue` | the queue, the offers and the trips of a tenant | `queue`, `tomb`, `drops` the queue's tables; `offer`, `due`, `wave`, `asked`, `winner` the offers; `trip`, `route` the assignments; `told` the topic; `pc`, `item`, `picked`, `seen` what each task read and does next; `won` records, as history, every claim that was answered as won |
| `DispatchQueueProofs` | its theorems | |
| `ShipmentIntake` | one booking with its retries | `row` the shipments; `spent` promotions; `intent`, `verdict`, `todo` payments and its topic; `out`, `gone` what was published; `book`, `told` the attempts; `at`, `on`, `copy` the tasks; `outdated`, `clobbered`, `overridden`, `passed` record history |
| `ShipmentIntakeProofs` | its theorems | |
| `MC...` | values and symmetry for TLC | |

Steps are cut where the code awaits: a read, a decision on what was read, a
remote call and a save are separate actions, and other processes run in between.
One SQL statement, or one transaction, is one action. `Die`, `Drop`, `...Fails`
and `Restart` are the failures; definitions whose name ends in `_Something` and
whose comment begins with "Mutant" are plausible bugs used to see that the
properties notice them, and are in no specification.

### The contracts between the services

Two abstract specifications stand at the borders, each with a detailed module that is shown
to implement it and a module that relies on it instead of on the other service's code:

    CourierDispatch  implements  CourierFeed   relied on by  OmniOrder
    PaymentIntent    implements  PaymentHold   relied on by  OmniOrder, ShipmentIntake

`CourierFeed` is deliberately weak: it promises a product neither one winner of a job
(`DispatchTwoWinners` shows that there may be two) nor that a milestone comes once, in order or at
all; only that a job was offered before it was claimed, claimed before it was finished, and that
what is heard of it is so. `PaymentHold` promises that money is taken or held once, that a hold is
captured or voided and not both, that an intent which is over stays over, and that what is published
is so, until payments saves a row over one it was not made from: from then on (`broken`) it
promises nothing. `OmniOrder` is the composition of the order's own code with the two:
its neighbours take any step their contracts let them take, which is more than `CourierDispatch`
and `PaymentIntent` ever do, and its own calls (an offer, a capture, a void, made, refused or
lost) are written as steps of the contracts too. It is proved (`PaysByContract`,
`CarriedByContract`) that nothing `OmniOrder` does, restarts included, is outside them. It leaves
`broken` out: its properties are of a world in which no conflicting save has happened in payments.
`ShipmentIntake` relies on `PaymentHold` for a sale only in this: that an intent has one verdict.

### How the actions correspond to the code

`CourierDispatch`: `Offer`/`SaveOffer`/`AbandonOffer` are `offer_to_nearest`;
`TryClaim`, `ExpireOtherOffers`/`ExpireFails`, `AnnounceClaim` are `claim`;
`ReadMilestone`, `PublishMilestone` are `mark_arrived` and `mark_collected`;
`ReadDelivery`, `Complete`, `Credited`, `PublishDelivery` are `mark_delivered`.

`CourierLedger`: `Begin...` is `find_open`'s first SELECT, `Check...` its second
and the decision made on it, `Save...` the transaction of `ledger_repo.rs::save`,
`Accepts` its version gate, `Unrecorded` the index on job entries.

`FieldOps`: `StartCredit` ... `Acknowledge` are the middle of `mark_delivered`;
the rest of the two modules runs beside it.

`CourierRoster`: the four requests and `Save`; `HandleVerdict`, `HandleFails`,
`Commit`, `Restart` are the consumer.

`OmniOrder`: `Place`, `SaveOrder` are checkout; `Act` a tablet; `Read`, `Handle`,
`Capture`, `CreditVendor`, `Save` and their failures the courier consumer;
`ReadNotice`, `HandleNotice`, `OfferCourier`, `SaveNotice` the payment consumer;
`Sweep...` the recovery sweep; `Claim`, `Complete`, `Report` what field-ops does and
`Authorized`, `Failed`, `Notify` what payments does, as their contracts allow.

`PaymentIntent`: `OpenSession`/`OpenFails` are `create_intent` after its first save;
`Deliver`, `Check`, `Read`, `Save`, `Publish` a webhook; `ListExpired`, `Save`,
`Publish` the expiry sweep; `AskRefund`, `Mark` the consumer of cancellations and
`SweepRefund` the refund sweep, both of which go on with `refund`: `Fetch`, `Claim`,
`Call` or `CallFails`, `Save`; `Ask`, `Claim`, `Call` or `CallFails`, `Save`
and `Publish` are `capture_intent` and `void_intent`. `Pay`, `Decline` and `Effect` are the
customer and the gateway, as the service's calls and webhooks show them.

`DispatchQueue`: `CheckTomb`, `Enqueue` are the shipment consumer; `ReadQueue`, `Pick`,
`SaveTrip`, `EmitAssigned`, `MarkDispatched` are `quick_dispatch`; `ReadForBroadcast`,
`SelectCandidates`, `CreateOffer` are `broadcast`; `Claim`, `AnnounceClaim` are `claim`;
`ReadAnswer` with `SaveAccept`, `StartRoute` or `SaveReject` the answers of drivers;
`ListDue`, `Widen`, `EscalateWave`, `Expire`, `Reset` the offer sweep; `HandleDrop`,
`HandleCancelled`, `CancelDriver`, `CancelOrphan`, `CancelRoute`, `CancelDispatch` what
comes from outside. `Failure` is a task that dies or whose call fails (`Stop`, `EmitFails`).

`ShipmentIntake`: `CheckKey` to `Release` are `create`, an await each; `TakeCaptured`,
`SavePaid`, `HandOver`, `ClearHeld` are `handle_captured`; `TakeFailed`, `LookAgain`,
`SaveCancel`, `Announce` are `handle_failed` and the `cancel` it shares with clients;
`ReadReschedule`, `ReadOverride`, `SaveStatus` the two others; `SweepExpired` and
`Progress` are single UPDATEs. `Fails` is a handler that returned an error.

## 3. Runs

| Run | Question | Bounds |
|---|---|---|
| `DispatchRaces` | Do assignments survive any interleaving of offers, claims, milestones and deaths, and implement `CourierDuty` and `CourierFeed`, and does what a request that is served wins reach the product? | 2 couriers, 2 jobs, 2 requests, one of which may die |
| `DispatchTwoWinners` | (violated) Does exactly one courier win a job? | 2 couriers, 1 request |
| `LedgerWriters` | Do concurrent writers credit, remit and pay once, and does each that commits do what it would have done alone (`CourierAccount`)? | 2 jobs, 2 writers, 2 weeks |
| `LedgerDrift` | (violated) Is the balance always the sum of the log? | the same |
| `Deliveries` | Is what is published as delivered credited, and what is credited completed? | 2 jobs, 2 requests, 1 teller |
| `DeliveryRetried` | (violated) Is a courier who was answered 200 paid? | the same, no deaths |
| `RosterWriters` | Do verdicts land and suspensions hold against the writers of the other columns? | 2 requests, 2 verdicts, restarts |
| `OrderSaga` | Do the two consumers, the sweep, the tablets and one fault keep the order's promises? | 2 stores, 3 milestones of a cash order, 2 of a prepaid one, 1 fault |
| `Payments` | Do the claims keep gateway calls apart, does the record follow the money, do the products see a `PaymentHold`, and is an owed refund made? | 2 requests at once, 2 faults, 2 refunds |
| `ParcelRaces` | Is an offer won once, a driver on one trip, and no shipment parked out of sight? | 2 shipments with an offer of 2 waves each, 2 drivers, 2 trips per driver and shipment, 1 desk, 1 phone, 1 sweeper, 1 outside event or failure |
| `Bookings` | Is a booking made once, dispatched only when paid and always when paid, and is its cancellation final? | 2 attempts, 1 request or sweep beside the consumer, failures of one attempt and of the consumer |
| `OrderUncaptured` | (violated) Is a prepaid order captured before it is collected? | 1 store, 2 milestones, no fault |

Why these bounds are enough to be interesting. A race needs two requests and two
rows; a double claim needs two jobs for one courier, a double win two couriers
for one job, and both fit. A retry "in another week" needs two weeks. The ledger
needs pay of two entries and of one, which `TripsAndCash` gives it. An order
needs two stores, because a leg can be left on the counter only while another is
collected; three milestones reach "delivered" (assigned, collected, delivered,
the other store having refused) or repeat one, in any order the contract allows, so that a second
carrier's milestones are among them; a prepaid order is captured at the first and collected at
the second, and past that the properties ask nothing of it; one fault lands at any call, or is a restart that
redelivers any suffix of what was consumed. In `Payments` two requests are enough for any
race of two, and follow each other without bound; two faults allow a lost answer and a
restart, or a failed call and its failed revert; two refunds at the gateway are one more
than there should be. `ParcelRaces` has a driver beside the one who wins, so that a claim may
lose, a second offer open at the same time, so that one driver may claim both, a second trip for
each, so that an acceptance may revive a row whose driver moved on, and a second wave; the outside
event or the failure falls anywhere. With one trip each, a second event, a
second phone, a second sweeper, and a second broadcast of each shipment instead of the event were
run as well and pass, and so does one shipment with two broadcasts and two events. In
`Bookings` the quote of both attempts carries a discount; with none (`Discounted` empty), when only
the index on the key decides between two attempts that both opened an intent, the safety properties
were run as well and pass. One attempt may fail at every await and the other beside it
may not, which is every way a retry can find the first; the tasks are the consumer and one
other, which is a race of any two of the row's writers with the single statements between, and each
begins again without bound. `Mortal` has no request in it: what a request that stops
leaves undone, a request that was never sent leaves undone too, except a cancellation saved and not
published, which the sweep and the consumer also come across. `CHECK_DEADLOCK FALSE` is set where
the system may stop: an instance whose offers are used up, whose requests are
answered or whose order is over has nothing left to do. `Deliveries` and
`LedgerWriters` never stop (a writer may always look again), so deadlock is
checked there.

### What the violated runs show

- **Two winners** (`DispatchTwoWinners`). Offers are saved one await at a time
  and a claim's bulk expiry runs once: a row saved after it stays open, and a
  second courier wins the job. The doc says exactly one will.
- **Balance drift** (`LedgerDrift`). The gate accepts a save if the stored version is
  below the *new* one; a credit of two entries adds two, so it overwrites a
  balance that moved by one since it was read. The entries remain, the balance
  forgets them. `SinglesBalanceIsSum` shows that single-entry credits are safe.
- **Unpaid retry** (`DeliveryRetried`). A credit refused by that gate is an error; the retry
  finds the row completed and answers 200 without crediting.
- **Carried but not captured** (`OrderUncaptured`). The payment consumer offers the courier
  before it saves the authorization. A courier who accepts in between is handled
  on a row still pending: nothing is captured, and the order is carried.

### What the code does wrong without a violated run

These are in the models, where the properties except exactly the histories in which they
happen, or speak of something else.

- A position report that read a courier's row before a suspension saves it active again
  (`undone` in `CourierRoster`), although the doc of `set_courier_active` says a suspended
  courier is not offered work.
- `quick_dispatch` reads `pending` and marks the row many awaits later: two sweeps, or a sweep
  and a broadcast, give one shipment two trips, and an emission that fails leaves the row
  pending with a live trip. An offer inserted after the cancellation was handled is open to be
  claimed. `DispatchQueue` has these steps; its properties are about drivers and offers.
- Whole-row saves in `order-intake` (`clobbered`): a copy read before a cancellation brings the
  shipment back, and one read before the capture puts it back to `awaiting_payment`, with its
  events held and already published; the sweep may then cancel what was paid.
- A failed message of a Kafka consumer is left uncommitted, and the next message's commit passes
  over it (`passed`): a capture may be lost that way with the events still held.
- A late `driver.assigned` moves a shipment in transit, or failed, back to `pickup_assigned`,
  and `delivered` is taken after a cancellation: those guards name terminal statuses only.
- promotions that did not answer may have spent the discount; nothing gives it back.

### Fairness

`DispatchRaces`, `Payments` and `Bookings` use some (`FairSpec`): weak fairness of serving each
request in flight. Tokio polls every ready task and the awaits are database and HTTP
calls with timeouts, so a request whose process lives is eventually run to its end.
In `DispatchRaces` the request q1 may stop and q2 may not, and `WinsAreAnnounced` asks for the
wins of the requests that may not: a process that stops may lose the event (which
is a hazard of its own: `emit` is fire-and-forget). `Bookings` also has strong fairness of the
two calls that may fail, the save of the paid state and the publishing, and of taking each message: a failed
message is tried again after a restart, and a broker or a database does not refuse the same call for
ever. Where the code gives the message up, by a later commit, the property does not ask
for it. `Payments` also has strong fairness of
the refund sweep: its timer ticks every five minutes whatever else goes on, so an intent
that is there to be listed again and again is listed in the end, although other requests
come between its ticks and take up the bounded number of requests. Faults are bounded
there: the gateway's answers are not lost for ever. Couriers, customers and products owe nothing
and get no fairness: a claim whose courier vanished stays claimed, since no sweep
reclaims it.

## 4. Proofs

The theorems hold for any number of couriers, jobs, requests, stores, milestones,
weeks and faults, under the named assumptions on the constants
(`ReportAssumption`, `PayAssumption`, ... next to each declaration; TLC evaluates
them in the runs).

**CourierDispatch.** The inductive invariant is
`TypeOK /\ SingleLiveClaim /\ ReadsStayValid /\ MilestonesFromHolder`.
`ReadsStayValid` is the heart: the statement that what a request read has only
moved from claimed to completed since, and that a row about to be inserted does
not exist. Without it `Complete`, a blind upsert, could revive an expired row
and break the others. `TableStep` reduces the step relation to four ways the table
changes, and the other lemmas are proved from it. `Refinement` maps `carrying`
to the one claimed row of each courier and `finished` to the completed rows.
`FeedImplemented` reads `CourierFeed` off the rows of each job: rows of a job only ever leave
the state "offered" forward, and a milestone is published from a row that is, or was, claimed, which is
`MilestonesFromHolder` again. All jobs are mapped at once, since one step may be of one job
only, and leaves the feeds of the others as they were. `NoSilentAnswer` is the part of
`WinsAreAnnounced` that needs no fairness: a request that nothing interrupts does not end before
its event is out.

**CourierLedger.** The invariant is `TypeOK /\ ReadsKnown`: a writer's copy that
still has the version of the row *is* the row, and, for couriers credited one entry
at a time, a save accepted by the gate is a save over the copy's version. From it
follow payouts decided on the present (`PayoutIsCurrent`, proved and not in a run: it is what
`Payout` of `CourierAccount` says), remittances bounded by collections, and
the exact balance. `AccountImplemented` sums up the concurrency of the money rail: the save of a
writer stands for its whole turn in `CourierAccount`, where it runs alone. For a writer of one
entry (every remittance and payout, and a credit of one kind) the gate is exact
(`ExactGate`), so its copy is the row; for a credit of several the entries and the log are still
exact, by the index on job entries, and only the balance is left open, as it has to be
(`LedgerDrift`).

**FieldOps.** The invariant is `Knows`, what a request knows of its row at each await: past the
save the row is completed, at the credit the job pays and what the ledger is asked to write is
about the row's courier and job, and at the announcement the credit is stored. The halves'
theorems do not give this: a refused credit ends the request without ending its half of the
dispatch's steps, so the composition's steps are proved from the definitions. Each is shown to
keep four things (`RowsKept`, `EntriesKept`, `PublishedKept`, `RequestsKept`), and `Preserved`
draws the invariant from these. Every other writer of the ledger is covered by the first line of
`EntriesKept`: entries are only ever added, and only a delivery adds a job's. `HalvesImplemented`
shows that the composition adds no behaviour to either half: each of its steps is a step of
`CourierDispatch` (whose requests may all die: a refused credit is a death there) and of
`CourierLedger`, or leaves the half alone. So the theorems of the halves hold of `FieldOps`.

**CourierRoster.** The invariant relates `cleared` to the last verdict handled that was
not lost, through restarts that handle an older suffix again. For `SuspensionSticks` it adds
that the copy of every request that is not `behind` is the row itself (`CopiesCurrent`), and that the row
of a courier is what ops last ordered unless a save undid it (`OrdersKept`).

**OmniOrder.** Three inductive invariants over what each process carries. For
`PickedUpWasCredited`: every copy of the legs, in the table or in a consumer's hands,
shows as collected only what was credited (but for the leg being credited now).
For `CancelledNeverCharged`: every copy of a cancelled order, and a sweep about to
save one, comes from an intent that is voided or failed, and those are final.
For the three properties of cash orders, `Cash`: no payment event is ever about one
(`NoPayment`), so that what the courier consumer holds is the row or one step ahead of it
(`OneAhead`), though the tablets change legs under it; an order on the road has resolved legs,
in the row and in the copy (`RoadResolved`); and the credits of a leg are counted against the row,
the record in hand and the lost ones (`CreditsCounted`). Nothing of this holds of
online orders, which the payment consumer and the sweep save too. The neighbours are taken from
their contracts alone, so the proofs use nothing about field-ops but `MaySay`, and nothing about
payments but that a hold leaves "authorized" once. `PaysByContract` and `CarriedByContract` are by cases on
the steps: what is not a step of a contract leaves that contract's variables as they are.

**PaymentIntent.** `Basics` are the types, the two rails (only sales are refunded, only
holds are captured or voided) and what each await knows of the one before it. On them rest
three invariants: `Held`, that the row's status is what its one claim holder wrote;
`Consistent`, that the row still is what was published of it; and `Truth`, that a
settled row, or else its holder's copy, matches the money. The steps are first
reduced to eight shapes, field by field (`Cases`), and the invariants are proved over
those. Why `Held` is needed: a claim is won on a row without a holder only because a captured
sale has no captures in flight and a refund's lease outlives its call. The theorems are
stated under `~overwritten`, no save having gone over a row it was not made from:
saves are unconditional, and without that condition all of them are false.

`HoldImplemented` reads a `PaymentHold` off the row, but for the one time the row is ahead of
the facts: a capture or a void claims the row before it is at the gateway and gives it back when
the call fails. Until the call has said Ok such a row is still a hold (`Undecided`, `HoldStatus`). The
step is proved from `Held` (the one claim holder's copy tells which), `Unopened` (the gateway sends no
webhook before there is a page) and `Final` (what was said to be captured is, so a late publication
is still so).

`RefundsInSight` and `RefundsStayOwed` are what is safe in `OwedIsRefunded`. Their invariant,
`Owing`, is what a refund knows at each await (`Pursued`): it was marked before it was
fetched, the copy in its hands carries the mark, and a copy that says refunded is one the gateway
has answered. A webhook that is applied again, or an expiry, finds no such row to save over.

**DispatchQueue.** `OneActiveTrip` follows from what every statement that activates a trip
asks of the index; `OfferClosesOnce` from the guards on `open`. `ClaimIsExclusive`
speaks of every claim that was ever won and counts those of an offer. It follows from
`OneActiveTrip` and `WonOnce`: a won claim is the one its offer's row names, every claimed offer has
one, and two won claims never share a trip. That a trip of a won claim is only ever cancelled, and so stays
what `WonOnce` says, needs `Held`, that a trip which was picked and is not saved yet is in no other
task's hands, and `NoClaimRejected`, that the rejections on their way are of trips read as pending. `NothingIsLost` needs that a dispatch past its save has an assignment to show
(`Assigned`); it is proved by listing the ways a queue row may become
dispatched or an open offer close (`QueueMoves`, `ResetMoves`), each of which leaves one
of the three reasons in place (`Kept`).

**ShipmentIntake.** `BookedOnce` rests on `OnBooked` and `PastSave`: a task is only ever about a
booked shipment, and an attempt past its save is the one that booked. `HeldUntilOut` needs what each
step of the consumer knows (`Handing`, `Holding`): every copy about to be saved still
holds the events unless they are out. For `GoneIsCancelled`, a copy that is not outdated is
the row with one change (`UpToDate`), a task about to publish a cancellation has seen it in
the row (`Cancels`), and a published cancellation ends every change but those the property
excepts (`GoneEnded`). `NothingPaidIsLost` is what is safe in
`PaidReachesDispatch`: of a captured fee, either the events went out, or the message is still to be
handled, or a later commit passed it over. A consumer that skips the message as handled is right to: the
row of a booking that is paid online never says that nothing was due (`Priced`), a capture is only ever
heard of a booking that was answered, and so saved (`Answered`, `Told`), and a row that no longer holds
its events has them out (`HeldUntilOut`).

### What is only model-checked

Liveness (`WinsAreAnnounced`, `OwedIsRefunded`, `PaidReachesDispatch`) and anything under
fairness or ENABLED, which are out of the prover's reach. The safety half of each of the three is
proved (`EndsWithEvent`; `OwedInSight` and `OwedStays`; `PaidInSight`): what remains for
TLC is that the step which is enabled is taken. Every safety invariant, action property and
refinement of the passing runs is proved. That `ShipmentIntake` keeps to `PaymentHold` is not stated: its
`Decides` takes a verdict and its publication in one step, which the contract separates. Nothing here needs induction over data: the modules
under proof have no recursive definition.

## 5. What the models leave out

- Distance, freshness of positions, search radius: the supply query may return any
  couriers that pass its row conditions.
- Cancelling an assignment ('released'): the status exists, no code writes it.
- Amounts are small numbers; i64 cents do not overflow at the platform's scale.
- In `OmniOrder`: payments and field-ops are their contracts, `PaymentHold` without `broken` and
  `CourierFeed`; a milestone is published when the consumer is ready to read it, which no one
  else on the topic can tell from one that waited there; the clocks of the sweep are
  dropped, so it may find any order due; dine-in orders, resumed checkouts, telemetry,
  notifications and the unanswered-leg alert are left out. A vendor's ledger is a
  counter per leg. `Restart` resumes anywhere the consumer has been past, which allows more
  than the committed offset does after a second restart.
- In `PaymentIntent`: amounts (a partial capture, a retained penalty) are left out, as are
  signatures and unknown references; there is one intent of its reference. The session of a new intent and the save of its
  reference are one step (payment_intent_service.rs:107): a save that fails after the gateway has
  opened the session is left out. The half hour before
  an intent expires and the fifteen minutes of a lease are taken to be longer than a
  gateway call of at most thirty seconds: the sweep leaves an intent alone until its
  session is answered, and a claim is taken over only when nobody is still acting on it. A reply that the
  gateway sends nowhere (the capture made for us) has no webhook. Read errors of the
  database end a request as a restart does.
- What the code does wrong with intents is in the model but refutes no property, since each is
  stated on the condition it needs: the expiry sweep, or a redelivered webhook, saves an
  older read over a payment, a refund or a mark (`overwritten`); a call that took effect and was
  reported as an error is reverted and made again (`cut`); an event that was not published
  is not published by the redelivery that the 500 asks for, which is taken for a
  replay. `PROJECT.json` lists them under the hazards, with their lines.
- In `DispatchQueue`: distances, vehicles, capacity and compliance (any free driver may be near); routes
  of several stops; whole-home moves and side slots; the push to drivers' phones. A route and its
  assignment are one trip. The bound `Attempt` is on the trips one driver gets of one shipment.
- In `ShipmentIntake`: quotes, prices, addresses, labels and pieces; whole-home moves with their
  surveys and addenda; bulk bookings; timeline events and the event of a reschedule; the
  release of a discount by promotions when it hears of a cancellation. The statuses at_hub,
  out_for_delivery and customs_hold are `in_transit`. payments is its verdict, one per intent, as
  `PaymentHold` has it; a cancellation that payments consumes before the
  capture is refunded by nothing, which is outside this module. `HandOver` publishes the
  three events in one step, as no reader of one depends on another; `CapturedFails` has the
  outcomes of some being out.
- Legs never become preparing, failed or settled: no route or job writes those.
- Kafka keeps the order of one key's messages; the model keeps the order of milestones of
  one order and none between the two payment topics.

## 6. Plan

1. `CourierDuty`, `CourierDispatch`: checked, proved, refinement proved. *Done.*
2. `CourierLedger`, `FieldOps`, `CourierRoster`: checked, proved. *Done.*
3. `OmniOrder`: the saga checked; all its properties proved. *Done.*
4. `PaymentIntent`: checked; its safety invariants proved, and that it implements
   `PaymentHold`, which `OmniOrder` relies on. *Done.*
5. `DispatchQueue`: checked; its invariants and the action property proved. *Done.* Left:
   driver-ops' tasks, composed with it over `task.assigned`.
6. `ShipmentIntake`: checked; its safety invariants proved. *Done.* Left: whole-home moves, and the
   composition with `DispatchQueue` over `shipment.confirmed` and `shipment.cancelled`.
7. `OmniOrder`'s properties of cash orders and `FieldOps` proved; the contracts between
   field-ops, payments and omnideliv implemented on one side and relied on at the other. *Done.*
8. payments' wallets, COD remittance and withdrawals; hub-ops' transfers.
