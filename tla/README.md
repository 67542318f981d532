# Retreat platform: TLA+ verification

A formal model of the core of the retreat platform: `backend` (FastAPI, MongoDB,
Stripe) and the part of the client that keeps state of its own
(`apps/embed-sdk`, `packages/api-client`). Operators sell retreats, tickets,
appointments, rentals and products; customers put them in a cart, order them and pay by
Stripe Checkout, at once or in instalments; and the operators themselves pay for a plan.

Paths below are relative to `src/`, those without a first directory of their own
(`services`, `models`, `routers`, `middleware`) to `src/backend/`; `tla/` holds this project.

- [1. Inventory](#1-inventory)
- [2. The modules](#2-the-modules)
- [3. From the code to the model](#3-from-the-code-to-the-model)
- [4. The runs](#4-the-runs)
- [5. The proofs](#5-the-proofs)
- [6. Where the code and its documents disagree](#6-where-the-code-and-its-documents-disagree)
- [7. What is not modelled](#7-what-is-not-modelled)
- [8. Plan](#8-plan)

Running it, from `tla/`:

    tlc -workers 2 -config PaymentSchedule_serial.cfg MCPaymentSchedule
    tlc -workers 2 -config PaymentSchedule_concurrent.cfg MCPaymentSchedule
    tlc -workers 2 -config PaymentPlan_rows.cfg MCPaymentPlan
    tlc -workers 2 -config OrderLifecycle_orders.cfg MCOrderLifecycle
    tlc -workers 2 -config BookingSlots_calendar.cfg MCBookingSlots
    tlc -workers 2 -config EmbedCart_tabs.cfg MCEmbedCart
    tlc -workers 2 -config IdempotencyGate_retries.cfg MCIdempotencyGate
    tlc -workers 2 -config StripeEvents_lock.cfg MCStripeEvents
    tlc -workers 2 -config PlanSubscription_billing.cfg MCPlanSubscription

and the three that end in a counterexample, `OrderLifecycle_oversold.cfg`,
`BookingSlots_holiday.cfg` and `PlanSubscription_admin.cfg`. The proofs:

    for m in PaymentSchedule PaymentPlan OrderLifecycle BookingSlots EmbedCart \
             IdempotencyGate StripeEvents PlanSubscription; do tlapm ${m}Proofs.tla; done

`PROJECT.json` lists components, runs, hazards, theorems, and for every definition the
lines of the code it models.

## 1. Inventory

The backend is one FastAPI process per server (an asyncio event loop) over MongoDB.
There are no multi-document transactions in the core: a handler awaits the database or
Stripe, and between two awaits every other handler may run. What keeps data consistent
is the guard of each single-document write. The client is a bundle of web components
on the operator's page, one instance per open tab, that share `localStorage`.

| Component | Source | State it keeps | Operations |
|---|---|---|---|
| Payment ledger of an order | `backend/models/payment_schedule.py`, `services/payment_schedule_service.py` | `payment_schedules`: one document per order with its rows, totals, payment_state; `payment_events` | generate, transition a row, find by token |
| Payment plan and cancellation policy | `models/payment_plan.py` | frozen copy on the order | validate, generate rows, percent of refund at a date |
| Dunning scan | `services/payment_dunning_service.py` | `reminders_sent` marks on rows | hourly: plan, mark, move to overdue or at_risk, mail |
| Refunds | `services/payment_refund_service.py` | `refund` on rows; refunds on Stripe | refund an order, cascade over an occurrence |
| Checkout and reconciliation | `services/payment_checkout_service.py`, `routers/webhooks` | `payment_intent`, `processed_events` of the order; Checkout Sessions on Stripe | open a session, reconcile an event, verify from the success page |
| Order lifecycle | `services/order_service.py`, `services/commerce_rules.py` | `orders`: status, payment_status | confirm, complete, cancel, settle, mark paid and unpaid |
| Order creation | `services/order_creation_service.py` | the draft order and what it reserves | submit, roll back |
| Embed cart and checkout widget | `apps/embed-sdk/src/components`, `backend/services/cart_service.py`, `routers/embed_public.py` | copies in drawers and modals, the cart id in `localStorage`, carts | add, change, load, merge, check out |
| API client and request idempotency | `packages/api-client/src/client.ts`, `backend/middleware/idempotency.py` | attempts of a call; claims and cached answers | send, retry; claim, wait, answer |
| Event seats, ticket tiers | `services/event_capacity.py`, `services/tier_capacity.py` | counters on occurrences and tiers, reservation rows | reserve, release |
| Booking slots, rentals | `services/booking_availability.py`, `services/rental_availability.py` | `blocked_slots`: a row per slot or day | check, insert then compare, release; blocks by hand |
| Stock | `services/stock_service.py` | `stock_qty`, movements | decrement, restore |
| Orphan order sweep | `services/order_cleanup_service.py` | none | hourly cancel of old unpaid drafts |
| Stripe event lock | `repositories/billing_repository.py`, `routers/billing.py` | `billing_events`: a record per event | claim, take over, mark, answer |
| Plans and subscriptions | `services/stripe_service.py`, `plan_provisioning.py`, `billing_lifecycle.py` | billing fields of the organization, `module_subscriptions`; subscriptions on Stripe | check out, verify, provision, deprovision, change, cancel, assign, sweep |
| Coupons | `routers/coupons.py` | `used_count` | consume, release |
| Scheduler and leases | `services/scheduler_service.py` | one lock document per job | acquire, run, release |
| Platform fee ledger | `services/platform_fee_ledger.py` | append-only entries | accrue |
| Issued artefacts | `services/ticket_service.py`, `booking_service.py`, ... | tickets, bookings, downloads, course access | issue on confirmation |
| Accounts and access; e-mail; storefront pages; analytics; web frontend | rest of `src/` | | no protocol of their own |

How they interact. A customer edits a cart from any tab and submits it from the modal,
through a client that retries under one idempotency key. The submission takes seats,
slots and a coupon one after the other, writes the draft order with its payment
schedule and opens a Checkout Session. Stripe's webhook, or the verification the
success page asks for, *reconciles* the session: it marks the order's money as
collected, moves the row in the schedule, mirrors `payment_state` on the order and
confirms the order, which takes stock and issues the artefacts. Later rows are paid
through the link of a mail. The hourly scan reminds and escalates late rows; operators
postpone, waive and settle rows, refund and cancel. All of these read and write the
same schedule document. The operator's own plan follows the same pattern on Stripe's
other side: checkout, webhook, success page and an hourly sweep all write the billing
fields of one organization.

What is hard about it, component by component, is the list `hazards` of
`PROJECT.json`. The hazards of the ledger, and what its correctness means: the totals
and the mirror follow the rows, money Stripe collected is counted, no more is given back
than was taken, a late row escalates.

- **Stale whole-array writes.** `apply_row_transition` computes on a copy read before
  an await and writes back *every* row; its guard looks at the moved row only.
- **Two stores.** The order mirrors the ledger's state and Stripe's; three writes that a
  crash can separate.
- **Delivery.** The webhook comes late, twice, and beside a verification.
- **Retries.** A refund is asked for again after Stripe has made it.
- **Time.** Reminders are marked before they are mailed; a mark that outlives the
  transition it stands for silences the escalation.
- **Arithmetic.** Percentages and equal parts of amounts in cents; due dates at noon
  that must not pass the deadline; tiers of the cancellation policy at their edges.

The hazards of the order and of what it reserves, and what its correctness means: no
date, tier or slot is sold twice, counters agree with reservations, what a confirmation
takes and issues a cancellation gives back and voids, collected money confirms.

- **Unguarded status writes.** `confirm_order` and `cancel_order` read the order, await,
  and write its status whatever it has become.
- **A sequence of collections.** A confirmation touches stock, seats at two levels, sales,
  blocks and tickets one call after another, and any call may be its last: the plan's
  limit raises, the process restarts.
- **Compensation.** A reservation that took the tier and is refused by the date gives back
  what it took while others reserve and release; a release goes by the reservation rows
  it reads, counted or not.
- **Check, then insert; insert, then check.** Tickets are looked for and inserted in
  separate calls. Slots are inserted first and compared afterwards, each side alone
  deciding who was first.
- **Stale candidates.** The cleanup job works from a list of orders it read earlier.

Between client and server, and what correctness means there: a call acts at most once
and its caller learns what happened; tabs show one cart; what is ordered is what was shown.

- **Abandoned requests.** The client gives up a request that goes on at the server, and
  sends another under the same key.
- **Claims that outlive their holder.** A request that dies leaves its claim.
- **Copies.** A drawer sends the whole list of rows it makes from its own copy.

Of the plans: a paid plan is paid for, who pays is served, nobody pays twice.

- **Locks with a time limit.** An event's first handler may outlive its claim; Stripe may
  deliver again before a failed claim is stale.
- **Four writers.** A cancelled subscription's event arrives after another one has taken
  its place; a handler dies between the rows of a plan and the organization.

## 2. The modules

| Module | What it is |
|---|---|
| `PaymentRows` | The pure part: kinds, statuses, `ALLOWED_TRANSITIONS`, totals, `payment_state`, the distribution of a refund over the rows |
| `PaymentLedger` | Abstract specification: until the handlers are contended, each row's status moves along `ALLOWED_TRANSITIONS`, one row at a time |
| `PaymentSchedule` | The stored document, the order, Stripe, the clock and the handlers that interleave on them |
| `PaymentPlan` | From a plan to rows and from paid rows to the refund of a withdrawal |
| `OrderLifecycle` | Orders and what their confirmation takes: stock, seats of dates and tiers, sales records, calendar blocks, tickets; the cleanup job |
| `BookingSlots` | The calendar of a product: orders that reserve, keep and release slots and rental days |
| `EmbedCart` | Drawers and modals of several tabs, `localStorage`, carts and orders |
| `IdempotencyGate` | A mutating call with its retries, and the gate in front of its handler |
| `StripeEvents` | The claim of a Stripe event, by deliveries that overlap, fail and die |
| `PlanSubscription` | The plan of an organization, its subscriptions on Stripe, and everything that writes either |
| `PaymentScheduleProofs`, `PaymentPlanProofs`, `OrderLifecycleProofs`, `BookingSlotsProofs`, `EmbedCartProofs`, `IdempotencyGateProofs`, `StripeEventsProofs`, `PlanSubscriptionProofs` | Theorems about the module of that name |
| `MC...` | Instances for TLC |

`PaymentSchedule` EXTENDS `PaymentRows`; `PaymentLedger` EXTENDS it too and is instantiated in
`PaymentSchedule` with the statuses of the stored rows, and with `overlapped` for `contended`
(`LedgerRefined`). The other modules stand beside them, each with its neighbours as single
steps: the payment modules see an order's confirmation as one step, `OrderLifecycle` sees a
payment as one step (`Collect`), `EmbedCart` a call as one that may get lost, `IdempotencyGate`
the handler as one that places an order or not, and `PaymentSchedule` and `PlanSubscription`
rely on `StripeEvents` for one handler per event. Operators whose comment starts with "Mutant:"
are wrong variants of the definition that follows them; they show that a property can fail and
are used nowhere else. Variables that only record what happened are read by properties and by no
action, except to bound what is explored: `overlapped` and `killed` (two handlers of one order
were in flight at once, a restart ended one), `unseen` in the calendar, and those whose comment
starts with "ghost:". They let a property say of which executions it holds, where the code does
not exclude the others.

## 3. From the code to the model

### The payment ledger

**One action per await.** A worker (`task[w]`) is an asyncio task running one handler.
Its record holds the operation, the row, the *phases* it still has to run (each one
database or Stripe call), the row operations still to do in its loop, and `snap`, the
copy of the schedule it has read. A handler's code between two awaits is one action:

| Action | Code |
|---|---|
| `Webhook`, `Verify`, `ReadOrder`, `Reconcile` | `reconcile_checkout_event` from the read of the order to the choice of its path, called by the webhook or by `verify_commerce_order_payment` |
| `Collect` | its first write: `payment_intent` collected, event recorded |
| `Read` | `get_schedule_for_order` |
| `MoveRow` / `apply_row_transition` | `apply_row_transition`: the copy decides and supplies all rows, the store checks the moved row's status |
| `Mirror` | the write of `payment_state` on the order (reconciler, endpoints, refund, scan) |
| `Confirm`, `CancelTheOrder` | `confirm_order(skip_payment_check=True)`, `cancel_order` as called by other handlers |
| `PayLink`, `OpenSession` | `GET /pay/{token}` and `create_row_checkout_session` |
| `MarkPaidManual`, `Waive`, `Postpone`, `PostponePending` | the buttons of `routers/orders.py`; postponing a pending row is a targeted update without status change |
| `Settle`, `MarkOrderPaid`, `MarkOrderUnpaid`, `StampPaid` | `settle_order_manual`, `mark_order_paid`, `mark_order_unpaid` |
| `Refund`, `StripeRefund` | `refund_order` and Stripe's idempotent refund of one row |
| `Scan`, `MarkReminder`, `MailReminder` | one schedule of `run_dunning_scan`: planner, write-ahead mark, mail |
| `OperatorConfirms`, `OperatorCompletes`, `OperatorCancels` | the order's own buttons |
| `CustomerPays`, `Tick`, `Crash` | the customer on Stripe, the clock, a restart of the server |

`doc` is the stored schedule, `order` the fields of the order the ledger's handlers use,
`session[s]` the Checkout Session of row `s` (none, open, paid), `returned[s]` what Stripe
gave back for it, `mails` the reminders sent since the last due date.

What a handler does when a transition is refused is in `apply_row_transition` (the
action): the endpoints answer 409 and end (`Buttons`); the reconciler, the settlement,
the refund and the scan log it and go on with their copy. `Crash` ends a handler between
any two of its calls; what is stored stays. `overlapped` becomes true when a handler starts
beside another, and stays so.

**Abstractions of the data.** Amounts are cents, but only their order and sums matter;
time is days in `PaymentSchedule` (the planner compares whole days at its thresholds) and
hours in `PaymentPlan` (due dates are moved to noon). Labels, actors, notes,
`payment_events` (append-only audit) and e-mail bodies are left out. A refund's amount is
any amount up to what the rows show as paid: the policy, the override and the full
refund all lie in it, and the policy's own arithmetic is in `PaymentPlan`. Payments
outside the platform are amounts of whole rows, as in the code.

**Simplifications.**

- The plan has a deposit and later rows. A plan of one full payment is paid by a session
  of the order, not of a row.
- Each row has one Checkout Session, because the session's idempotency key is the row's;
  session ids, pay tokens and the expiry of a session after 24 hours are left out.
- `confirm_order` and `cancel_order` read and write the order in one step here. Their own
  races are the subject of `OrderLifecycle`.
- Two deliveries of the same webhook event do not overlap (event lock; what the takeover of a
  stale lock changes is in `StripeEvents`). The verification has no such lock and runs beside
  the webhook. Two scans do not overlap (scheduler lease).
- Two reads without an await that matters between them (the scan's schedule and order,
  the pay link's) are one step; so are the mirror and the record of the event that follows.
- Database errors are not modelled other than by `Crash`.
- `settle_order_manual`'s and the marketplace's rule that some sales channels are online
  only removes operations; the model leaves them possible.

### Orders, seats, stock and tickets

A handler (`task[w]`) is the set of the steps it still has to do. Each step is one database
call of the code, and `NotAfter` gives their order: by stage of the handler, then by line of the
order, then by `Rank` within the line. Steps of equal rank concern rows that a query returns in no
particular order.

| Action | Code |
|---|---|
| `Confirm`, `Webhook`, `Cancel`, `Complete` | `confirm_order`, `reconcile_checkout_event` of a paid session, `cancel_order`, `complete_order`, up to and with their read of the order |
| `Collect`, `ReadToConfirm` | the reconciler's write of `payment_intent` and then the read of `confirm_order(skip_payment_check=True)` |
| `WriteStatus` | the unguarded status updates. A confirmation writes the order's number with it; if three numbers in a row are taken it raises and the status stays as it was (`confirm_order`, lines 622 to 650) |
| `RecordError` | `reconcile_checkout_event` after a confirmation that raised, for its number, for the plan or because the order is cancelled: `confirm_error` on the order, nothing else |
| `try_decrement_stock`, `restore_stock` | `stock_service`: the guarded decrement, the restore of a cancellation |
| `CheckQuota`, `WriteSales` | `check_module_access`, then the sales records or their reversal |
| `ReserveRow`, `ReserveTier`, `ReserveOccurrence`, `UndoRow`, `GiveBack`, `Clamp` | `reserve_event_seats` with `tier_capacity`: upsert of the row, guarded increment of the tier, of the date, and the compensation; a give-back is a decrement and then a clamp to zero |
| `release_tier_seats`, `release_event_seats`, `DeleteRows` | the two releases, each from its own read of the rows; only the second deletes |
| `Block`, `Unblock` | `blocked_slots` of the dates of the order |
| `FindTickets`, `IssueTicket`, `void_tickets_for_order` | `ticket_service` |
| `SweepFind`, `SweepExpire` | `sweep_orphan_draft_orders`: its read and its guarded update |
| `Switch`, `Crash` | publishing a date or closing a tier; a restart |

`orders[o]` keeps the status, `payment_intent` and whether there is a `confirm_error`; `stock`,
`sales`, `rows_used`, `reserved_seats`, `open`, `rows` (`event_seat_reservations`), `blocked`
and `tickets` are the collections.

Abstractions and simplifications:

- Orders start as drafts. Placing an order checks capacity and stock only as advice, line
  by line, so drafts may ask for more than there is. Drafts are not edited.
- Only products whose stock is tracked are products here; a line has no product or one.
- A sales record is counted per batch, the plan's usage in rows. The limit is the same for
  every order of the organization and does not reset: one month.
- The reconciler's work on the payment schedule, mails, metrics and coupons are left out,
  as are bookings, downloads and courses, which are issued by the pattern of tickets.
- Capacities do not change, and check-in is not modelled.
- Handlers of the same order overlap freely, as in the code. `overlapped` and `killed` are
  the orders to which that, or a restart, has happened (`Undisturbed`).
- The failure to find an order number is possible at every confirmation. Neither the
  number nor its counter is modelled.

### Slots and rental days

One process (`task[p]`) handles one request for an order; each action is what it does
between two awaits on `blocked_slots` (`rows`) or `orders` (`order`).

| Action | Code |
|---|---|
| `Place`, `Check` | `create_order` and its validators: `check_booking_slot_available` for a slot of one day, `check_rental_range_available` for a range, nothing for several days |
| `Stamp`, `Upsert` | the row is made with its id and `created_at`, then `find_one_and_update(upsert)` on its key |
| `ScanLoses`, `ScanWins`, `ScanRaises`, `Undo` | the post-check of `try_reserve_booking_slot`: an older overlapping row wins, a row made by hand raises in the comparison, the loser deletes its own |
| `PostPass`, `Rollback` | `try_reserve_rental_range`: other kinds of rows on the days, and the delete of what this call inserted |
| `Insert`, `InsertFails`, `Release` | the order's document, and `release_booking_slot` if anything fails |
| `Confirm`, `ConfirmWrite`, `Cancel`, `CancelWrite`, `Free` | `confirm_order` with `_sync_calendar_blocks`, `cancel_order` |
| `Block`, `Unblock` | `routers/availability.py` |

A refused reservation at confirmation is only logged: the order is confirmed all the
same, in the code and here. Minutes are a few numbers, and a night is two windows that
meet at midnight,
as `try_reserve_booking_slot_range` makes them. Stamps matter only in their order.
`Lag` says whether an insert can reach the database after a younger one
(several servers, or a slow connection); it is TRUE in the run. `unseen` keeps the pairs of
overlapping rows that nothing will ever separate: the older was inserted when the younger had
passed its comparison (`Passed`), or the comparison of the younger raised on a block made by
hand before it gave way. `Raced` bounds the orders that several
requests may be about at once. The upsert is one step because the code counts on it;
without a unique index on the key two of them may both insert (section 6).

### The embed cart

`drawer[t]` and `modal[t]` are the two components of a tab with their copies of the
cart; `storage` is the one `localStorage` key; `pending` are the tabs with a storage
event to handle. A call is sent, served and answered in three steps, may fail before or
after it is served (`Fail`), and calls overlap.

| Action | Code |
|---|---|
| `Add`, `Created`, `Updated`, `EditFailed` | `addItem` with `createCart` and `patchCart`; the answers, the adopted copy and `_broadcastCartTouch` |
| `SetQuantity` | `updateItemQuantity` and `removeItem` |
| `OnCartStorage`, `Reopen`, `Loaded` | `loadPersistedCart`, on an event of the key and on a new page |
| `LogIn`, `Merged` | `_handleCustomerLoggedIn` and the merge endpoint |
| `CheckoutClick`, `Submit`, `Persisted`, `Submitted`, `PaymentDone`, `CloseModal` | the modal: `openWithCart`, `submit`, `persistAttendeesInCart`, the order, the popup's message |
| `ServeCreate`, `ServeUpdate`, `ServeRead`, `ServeCheckout` | the endpoints of `routers/embed_public.py` on `cart_service` |
| `Ignored` | an answer that comes after its page is gone |

A product with its slot and options is a `line`; `request` and `extras` are the two
fields that a path through the code can lose. Three ghosts carry the properties: `asked`
(how much of each line was ever asked for), `wanted` (the quantities a shopper who was
told the outcome of each edit may expect; two values after an error) and `calm` (so far
nothing overlapped, nothing was asked for on request, no load failed and none was sent while
another of its tab was under way). All calls can fail and loads be answered out of order.
`Hasty` bounds what the run does while other things go on.

### The API client and the idempotency gate

A call has one key; `task[<<c, a>>]` is its attempt `a` at the server, which goes on
when the client has given up on it. Status codes are the classes the client tells
apart: 2xx, 4xx, 429, 5xx, the gate's 409 and no response.

| Action | Code |
|---|---|
| `Send`, `Resend`, `Receive`, `Disconnect` | `request`, `requestWithRetry`, `parseResponse` |
| `LookUp`, `Claim`, `ClaimFails` | `dispatch` with `_lookup_cached_response` and `_claim_idempotency_lock`; a lookup that fails is a miss, an insert that fails for another reason than a duplicate goes on without a claim (`degraded`) |
| `Handle` | `call_next`: places an order or not, and answers; a 5xx may come after the order |
| `Store` | `_store_cached_response` of a 2xx, if it succeeds |
| `Poll`, `PollTimeout` | `_poll_for_lock_completion` |
| `Crash` | a restart: requests in progress end without an answer, records stay |

A lookup that fails inside the poll loop (`idempotency.py:156`, `:277`) is a miss there too, and
the next poll comes a moment later. It is left out; only a database that fails every poll
until the deadline would show, as a `PollTimeout` although an answer is stored.

### Stripe events

`record[e]` is the document of an event in `billing_events`, `task[d]` a delivery in
progress with the time it took at its start.

| Action | Code |
|---|---|
| `Deliver` | Stripe, and `handle_webhook_event` up to the lock |
| `Insert`, `Read`, `TakeOver` | `try_acquire_event_lock`: insert, find after a duplicate, conditional update of a stale record |
| `Succeed`, `Raise`, `Mark` | the handler under the claim, `mark_event_processed` with or without an error |
| `DbFails`, `Crash` | a call of the lock or of the mark fails; a restart |
| `Acknowledge`, `Unacknowledged` | the answer of `stripe_webhook`, 200 or 500, which Stripe may have stopped waiting for |

Two ghosts say when the time limit was not respected: `slow`, a delivery has outlived the
window; `hasty`, Stripe has delivered an event again within it.

### Plans and subscriptions

`stripe[s]` is a checkout session and the subscription it becomes, `events` Stripe's
events in their order, `page[s]` the success page waiting for its checkout, `org` the
billing fields, `rows` the active `module_subscriptions`.

| Action | Code |
|---|---|
| `Checkout`, `CustomerPays`, `PageSees`, `PageVerifies`, `Verify` | `create_checkout_session` with its guard, the customer on Stripe, `BillingSection` polling, `verify_checkout_session` |
| `Deliver`, `Guard`, `CancelOld`, `Retrieve`, `Summary`, `WriteStatus`, `Invoice` | the handlers of `checkout.session.completed`, `customer.subscription.updated` and `.deleted`, `invoice.paid` and `.payment_failed` |
| `ListRows`, `ClearRow`, `CreateRow`, `WritePlan`, `SweepOrphans`, `CancelOrphan`, `Unlink` | `provision_commercial_plan` and the orphans it cancels on Stripe |
| `Deprovision`, `CancelRows`, `Reset`, `FreeRow` | `deprovision_to_free` |
| `Cancel`, `Check`, `HardCancel`, `Modify`, `ModifyOnStripe` | the owner's buttons: immediate cancellation, change of plan |
| `AdminSetPlan` | `admin_set_plan`, which cancels the subscription and provisions |
| `Sweep`, `SyncStale` | `run_billing_sweep` on a past due organization |
| `BillingMoves`, `Crash` | renewals that fail, recover or are given up; a restart |

Events are delivered in order, one at a time, and again if their handler dies: that is
what `StripeEvents` shows of patient deliveries. One module per plan. The success page polls and
verifies at any time.

`hasty` tells that something met what was under way: a cancellation, a change of plan, an
assignment or a move of the billing came while an event or a handler was still to end, or a
checkout was paid then, or paid while another subscription stood, that is, was live or given up as
unpaid and not yet cancelled. The code excludes none of it. `Impatient` bounds how much of
it a run explores: with FALSE a checkout is paid as soon as no handler is running, and the
others come once all events are handled. So in the run no renewal happens at Stripe between the
question of a sweep and its writes, the narrowest window of `billing_lifecycle.py:152`: the
sweep then writes what it was told, and the properties that say `~hasty` do not cover it.

## 4. The runs

Instance of the ledger: a deposit of 1 cent due on day 0 and a balance of 2 due on day 8,
paid online or not. Two rows are enough for every interaction of a moved row with a row
that is only carried along; different amounts tell the rows apart in totals and in a
refund that stops half way. The days 0, 1, 8, 11, 15 stand on each side of every
threshold of the dunning sequence (T-7, T-0, T+3, T+7); 0, 8, 15 keep a day before, at and
a week after the due date. A third row would add another bystander.

`MaxStarts` bounds requests of people; in the ledger, webhooks, scans and the customer's
payments are not counted (they are bounded by what they change), in `OrderLifecycle` all
handlers and switches are. `MaxCrashes` bounds restarts. Deadlock is not checked: once the
bounds are used up and nothing is due, nothing is left to do.

Instance of the orders: a date with two seats, of which one in a tier vip, and one book. Order a is paid online and wants the vip seat and the book, c two seats
without tier and the vip seat. So they compete at both levels, a reservation can be refused
by the tier or, after its tier was taken, by the date, and one order has two lines on the
same date. The plan allows four rows, which two confirmations use up, so that the third
request, a confirmation or a cancellation, is stopped half way unless it passes the check before
the others have written. Two handlers interleave, of one order or of both; the third start
lets a cancellation, a completion or a payment follow. The operator's switch may close
the date, or open it again, between any two calls, in place of one of the three starts; any
confirmation may not find its number.

Instance of the calendar: two days of four hours. Order a wants the first morning, b the
afternoon and the night into the second morning (two windows), c both days as a rental, d
the second morning. So every kind of overlap occurs, b can lose its second window after
it has its first, and c meets slots on both of its days. `Blocks` is a holiday on the
second day, which may come and go. Rows may be inserted in another order than
they are stamped (`Lag`). Three ids and three times are enough for three rows of two
processes under comparison; both are given again when nothing has them any more. Two processes,
and several requests at once about d, whose slot meets the night and the rental; with those about
each order the states are too many for minutes.

Instance of the cart: two tabs, two lines (a ticket with attendees and an appointment), two
calls in flight, two carts, two pieces asked for, one order. The appointment has extra
selections. Every call may fail, and two loads of a tab may be answered out of order. Adding and
opening a page may happen at any time; everything else waits until the shopper's last step is
answered, as the properties it is there for say. A third piece or a third call adds no
interaction that two tabs with two calls do not have.

Instance of the gate: one call, since keys are never shared, with its three retries, one
failing database call and one restart. Instance of the events: one event, two deliveries
at once, four in all, a window of two ticks in a clock of six, three faults: enough for a
claim, its failure, a takeover, another failure and another takeover. Instance of the
plans: two checkouts, two plans beside the free one, two handlers, three requests, two
moves of the billing, a restart, administrators.

Deadlock is not checked in any run: the bounds on requests, time and faults are used up
and then nothing is left to do.

| Run | Shows |
|---|---|
| `payment_schedule_serial` | One handler at a time, three requests. The order's mirror follows the schedule, the refund on a row is what Stripe gave back, a settled order has no open row, the ledger implements `PaymentLedger`; and under fairness a late balance escalates and the money of a paid session reaches the ledger |
| `payment_schedule_concurrent` | Two handlers interleaved at every await, with a restart between any two of their calls: verification, pay link, settlement by hand, postponement, refund (repeated, or retried after the restart), beside webhooks and scans. No invented payment, no refund beyond what was charged, no dunned deposit, totals and `payment_state` those of the rows |
| `payment_plan_rows` | 120 plans, eight totals around the minimum charge, seven booking hours: rows sum to the total, instalments are even and in time, waiting never improves a refund |
| `order_lifecycle_orders` | Two handlers interleaved call by call on two orders, of one of them or of both, with the cleanup job, the operator's switch, missing order numbers and a restart. Counters stay within capacity, always. An order at rest whose money was collected is confirmed, or cancelled, or has its failure on record, unless a handler of it was killed. An order whose own handlers came one after another has tickets, blocks and seats exactly when its sales stand, even where the plan's limit stopped a handler half way; and a counter only such orders use is the sum of the reservations |
| `booking_calendar` | Placing, confirming and cancelling interleaved, with late inserts and blocks by hand: two reservations that have passed their checks overlap only if the older came after the younger had won or a comparison raised, a draft keeps its slot whatever others roll back, a refused order keeps nothing |
| `embed_cart_tabs` | No row ever exceeds what was asked for, and rows differ in their signature. Until a load fails or is overtaken, a shopper who does one thing at a time sees one cart in every tab, keeps what he was told is in it, and orders exactly the rows his modal showed |
| `idempotency_gate` | At most one order per claim; the caller is told the truth; every call returns; a stored answer is delivered |
| `stripe_events` | Within the limit an event is handled by one delivery at a time and takes effect once per unrecorded success at most; an acknowledged event was handled; every event is handled in the end |
| `plan_subscription` | Once all events are handled: a plan governed by Stripe has a live subscription of that plan, who pays is served, at most one subscription is live if no renewal has failed, the module rows are the plan's, an assigned plan has ended the billing |

Three more runs end in a counterexample; see section 6.

**Why serial and concurrent are apart.** `MirrorFollowsSchedule`, `RefundOnRecord`,
`SettledOrderIsClosed` and `LedgerRefined` are lost as soon as two handlers interleave: a
handler that moves its row writes back the others as they were in its copy, and undoes
what happened since. They say so: the first three speak of `Undisturbed` states, in which no handler
is in flight, none has met another and none was killed, and `PaymentLedger` promises nothing
once it is `contended`. The serial run, with one worker, puts all its states into what they
speak of, and longer sequences of requests; the proofs are about any number of workers.
What survives concurrency is checked in the other run, without such a condition, and proved.

**Fairness.** Nothing is ever assumed of operators, customers, connections and restarts.

- `PaymentSchedule!FairSpec`: weak fairness of each handler's next step (the event loop
  resumes every task), of the scan (the scheduler runs it every hour), of each webhook
  (Stripe redelivers until it gets a 2xx) and of time. The serial run has one worker, so
  the scan is enabled whenever no handler is running. With two, a pay link beside the scan
  can take a row out of at_risk while its t+7 mark stays, and no scan escalates it again;
  the run does not claim escalation for that case.
- `IdempotencyGate!FairSpec`: of the client's timers and answers, of the server's tasks,
  and of the rejection of a fetch whose task is gone (`CutOff`); `Disconnect` otherwise is
  not fair.
- `StripeEvents!FairSpec`: of each delivery's next step and of Stripe delivering an event
  it is owed. `Tick` is not fair; the property holds whether time passes or not.

The other modules have none: nothing resumes a handler that a restart or the plan's limit
has ended, and what they promise is said of states between handlers, or of all states.

**Conditions in the properties** name what the code does not ensure.

- The serial properties of the ledger say `Undisturbed`, as above.
- `SeatsCounted` and `ArtefactsFollowSales` say `Undisturbed(o)` of the orders concerned: a
  restart between a reservation row and its counter leaves them apart for good, and so do
  overlapping handlers of one order (`order_lifecycle_oversold`). What other orders went
  through does not matter. `CountersWithinCapacity` needs no restriction.
- `CollectedIsConfirmed` says that no handler of the order was killed, and accepts an order
  whose `confirm_error` tells that its confirmation raised. That state needs no restart: three
  order numbers taken, and the money is collected for a draft. The code knows it
  (`payment_checkout_service.py:1048`) and leaves such an order to an operator
  (`order_cleanup_service.py:38`).
- `NoDoubleBooking` leaves out rows still under comparison or about to be released, and the
  pairs in `unseen`: a row stamped before and inserted after another that has won already is younger
  to neither, and a comparison that raises leaves its row (`booking_holiday`). Both stay, and
  the property says that these are the only ways to a double booking.
- `TabsStayAligned` and `OrderAsShown` hold while `calm`. Two adds at once from one copy lose
  one of them; a customized request loses its flag in `updateItemQuantity`; a load that fails
  forgets the cart, and one that is overtaken brings an older one back. `OrderAsShown` compares
  signatures and quantities: the modal does not send extra selections. `Choice` in the run has
  no customized request, which also `RowsStayDistinct` needs (section 6).
- `AtMostOnce` leaves out requests that ran without a claim because the insert failed:
  the gate lets them through on purpose.
- `HandledAlone` and `AppliedOnce` say `~slow`, the other two `~hasty` as well: an event
  delivered again within sixty seconds is answered 200, and is lost if the first delivery then
  fails.
- The properties of `PlanSubscription` speak of `Quiet` states: all events handled, no
  handler running. `OneLiveSub` allows any haste but says `spent.changes = 0`, because the
  search for orphans lists active subscriptions only, and one that is past due escapes it.
  The others say `~hasty`: `PlanIsPaid`, `LiveSubIsServed`, `RowsMatchPlan`,
  `GrantEndsBilling` (section 6, "Stripe and plans").

**Mutants.** For each property of a passing run `PROJECT.json` names one wrong variant of a
definition under which TLC finds the property violated: a forgotten mirror write, a
refund without idempotency key, a threshold one day late, a claim released after a failed
answer, a takeover that matches any record, a release by the wrong reason, an orphan
subscription left alive, and so on.

**Type invariants.** Those of `PaymentPlan`, `OrderLifecycle` and `PlanSubscription` are
checked by the runs as well as proved. Those of `PaymentSchedule`, `BookingSlots`, `EmbedCart`,
`IdempotencyGate` and `StripeEvents` are only proved, for all constants (`TypeCorrect`), so the
runs spend their time on the rest.

## 5. The proofs

Eight proof modules are checked by TLAPS. Their theorems hold for every value of the
constants that satisfies the assumptions of the modules: any number of workers, orders,
tabs, deliveries and so on, and no bound on requests or faults.

Where the code does not ensure what a property needs, the property says so of the state it
speaks of (section 4, "Conditions in the properties"), and the theorem is about every
execution: handlers overlap, are killed, people are hasty, loads are overtaken, rows come
late, and a recording variable tells which states are still spoken of. One theorem has
an assumption of its own, `RowsDistinct`.

### The payment ledger

`PaymentScheduleProofs` proves for *every* finite or infinite
plan with a deposit at row 0, every amount, every set of workers and every bound
(`PlanAssumption`, `ScheduleAssumption`):

| Theorem | Statement |
|---|---|
| `Invariance` | `Spec => []IInv` |
| `TypeCorrect` | `Spec => []TypeOK` |
| `AlwaysDerived` | `Spec => []DerivedFromRows` |
| `PaidIsCharged` | `Spec => []PaidMeansCharged` |
| `RefundsAreBacked` | `Spec => []RefundBacked` |
| `DepositIsLeftAlone` | `Spec => []DepositNeverDunned` |
| `AlwaysFresh` | `Spec => [](IInv /\ OneFlight /\ (~overlapped => Serial))` |
| `LedgerImplemented` | `Spec => LedgerRefined` |
| `AlwaysKept` | `Spec => []Ordered` |
| `MirrorFollows` | `Spec => []MirrorFollowsSchedule` |
| `RefundRecorded` | `Spec => []RefundOnRecord` |
| `SettledIsClosed` | `Spec => []SettledOrderIsClosed` |

**Why a strengthening is needed.** None of the invariants is inductive. A handler replaces
the stored rows by its private copy with one row moved, so whatever is claimed of the
stored document must be claimed of every copy in flight, however old. `IInv` says, of the
document and of every copy: it is the schedule derived from its rows, its rows are well
formed, a row is `paid` only if its session is, and only rows the job may dun are late.
And of every row operation still to be done: a payment is for a paid session, a refund for
no more than the row's amount, a reminder for a row that may be dunned.

**Why it is inductive.** A copy does not change while it ages, but what it claims is about
`session`, which does. The claim survives because a paid session stays paid
(`SessionMoves`, `AgeingGood`). Written back, the copy is good because its rows are, and
because moving one row of a good copy by a good operation gives good rows again
(`WrittenGood`). The targeted updates of the scan and of the postponement do not go through
a copy; they touch no field that the totals read (`TargetedUpdate`). There is one lemma per
handler and per step (`WebhookGood` ... `CrashGood`), and `NextGood` collects them.

**One handler after another.** Until two have overlapped, at most one is in flight
(`OneFlight`), though any worker may be the one. `Serial` says where it is in its script and, with
`Fresh`, that the copy it has read agrees with the stored rows on status, payment date and
refund: only its own writes change the document, and those go through the copy or touch a
due date or a mark. So a whole-array write moves exactly the row it was meant to move, from
the status the copy shows, and that is a step of `PaymentLedger` (`LedgerImplemented`,
restarts included); the step by which a second handler starts is its `Contend`, and what
follows it the abstract ledger leaves open. `Kept` adds what is outstanding as long as
nothing was killed either: if the order's mirror is behind, the handler has its mirror
write to do; money Stripe gave back and the row does not show is a marked refund of the
handler; an order that is settled with a row open has a settlement that will close it.
Between handlers nothing is outstanding. A restart loses what was, and a second handler
writes it back; the hazards of `PROJECT.json` name the lines.

**Only model-checked.** The two liveness properties. The sums over the rows are
uninterpreted in these theorems: nothing in them depends on what the totals are.

### Plans, rows and refunds

`PaymentPlanProofs` proves for every plan that `validate` accepts, every total, every hour of
booking and every policy:

| Theorem | Statement |
|---|---|
| `AlwaysGenerated` | `Spec => []IInv` |
| `TypeCorrect` | `Spec => []TypeOK` |
| `NoCentLost` | `Spec => []SumIsTotal` |
| `FairParts` | `Spec => []InstallmentsFair` |
| `RefundShrinks` | `Spec => RefundNeverGrows` |

The rows are always those `generate_rows` gives for the total at some hour (`IInv`); the rest
is arithmetic about that function: a deposit by percentage lies between zero and the total,
quotient and remainder of the division by the number of parts make up the remainder of the
total, moving a due date to noon keeps it within the deadline, and the first tier a number
of days falls into gives no less than a later one.

**Sums.** `SumIsTotal` is about `SumFunction` of the community modules, which is defined by
recursion on a finite set. The provers at hand cannot use an induction theorem with an operator as
parameter, so the proof argues from a least counterexample instead: the natural numbers are well
founded, so among finite sets for which a claim fails there is one that is smallest
(`SmallestSet`). That gives the existence and the uniqueness of the recursive sum, that an element may
be taken out of it (`SumWithout`), and with it everything the two modules that count need.
The lemmas are in `PaymentPlanProofs`, and as far as counting seats needs them in
`OrderLifecycleProofs` again.

### Orders and seats

`OrderLifecycleProofs` proves for every set of orders, lines, products, dates and tiers, every
capacity, every number of handlers and restarts (`LifecycleAssumption`). Handlers of
one order overlap and die in all of them; the last three speak of the orders whose own did not:

| Theorem | Statement |
|---|---|
| `Invariance` | `Spec => []IInv` |
| `TypeCorrect` | `Spec => []TypeOK` (with it, stock is never negative) |
| `NoOvercount` | `Spec => []CountersWithinCapacity` |
| `CollectedConfirmed` | `Spec => []CollectedIsConfirmed` |
| `AlwaysSerial` | `Spec => [](IInv /\ Serial)` |
| `ArtefactsFollow` | `Spec => []ArtefactsFollowSales` |
| `SeatsAreCounted` | `Spec => []SeatsCounted` |

**Counters.** `CountersWithinCapacity` is inductive once a handler's steps are known to be
about its own lines (`Tasks`): every increment carries its predicate (`TakeGood`), a
give-back lowers a counter by a natural number, and a clamp writes zero.

**Collected money.** `CollectedIsConfirmed` speaks of orders at rest and is not
inductive. The strengthening `Owed` says that an order collected but still draft or expired,
without a `confirm_error` and of which no handler was killed, has a handler that will read
it to confirm it, is about to write its status, or has the failure to record. It is
preserved because the reconciler confirms after it collects (`StepOrder`, from the order of
the stages), whatever raises in its confirmation leads to the record, an order the confirmation
returns as it is is in neither of the two statuses, every status a handler writes is
another, and the cleanup job leaves collected orders alone. Of an order at rest nothing is owed.

**Sales, tickets and blocks.** The last three are about orders whose own handlers came one
after another and of which none was killed (`Clean`); `order_lifecycle_oversold` is what
happens otherwise. `Serial` states what it states for *every* set of such orders, so the
others drop out of it when their handlers overlap or die, and go on working on the same
dates, tiers and stock. A handler goes through phases, and for
each of them the invariant says how far its order has come: `Waiting` (paid, not read yet),
`Opening` and `Selling` (a confirmation before and after its sales record), `Closing` and
`Undoing` (a cancellation before and after its reversal, or without one), `Finishing`, and
the record of a failure. An order that no handler is about
is at `Rest`: `Full`, with a ticket for every seat and every date
blocked, or `Bare`. The plan's limit ends a confirmation in `Opening` and a cancellation in
`Closing`, after the status and the stock, so a confirmed order may be bare. That
such an order is cancelled later without a reversal of sales it never had rests on the limit:
rows that count against the plan never become fewer, so the cancellation is stopped there too
(`OverStays`).

**Seats.** `Tally` says that a counter of a place where only orders of the set have lines is, at
any moment, the sum of the rows `Counted` at its place: all rows of it except those whose
handler has not taken their seats yet, or has given them back and not deleted the row. Each step
either moves one row in or out of that set with its quantity (`CountOneMore`, `CountOneLess`),
or neither the set nor the counter. It follows that a give-back never makes a counter negative,
and so that `Clamp` changes nothing.

### The gate

| Theorem | Statement |
|---|---|
| `TypeCorrect` | `Spec => []TypeOK` |
| `OrdersOnce` | `Spec => []AtMostOnce` |
| `AnswersTrue` | `Spec => []AnswerTellsTheTruth` |

A record, once there, is never removed (`ClaimStands`), so the insert that found none is
the only one that succeeds for its key (`OneWinner`): whoever runs the handler under a
claim, has placed an order or carries an answer of its own is that one request. What a
record, a task or a call knows as a success is then the answer of the winner, and a
refusal the client gives up on is that of a winner that placed nothing
(`RecordAnswers`, `CallAnswers`).

### The calendar

| Theorem | Statement |
|---|---|
| `TypeCorrect` | `Spec => []TypeOK` |
| `NeverDoubleBooked` | `Spec => []NoDoubleBooking` |
| `DraftsHoldTheirSlots` | `Spec => []DraftHoldsItsSlot` |
| `RefusedHoldNothing` | `Spec => []RefusedHoldsNothing` |

`Standing` says that a row whose comparison is over has no older overlapping row beside it
but those it is in `unseen` with. A row that is inserted later and stamped later is compared,
or was, and gave way. One that is stamped earlier either finds the younger still to compare, or
is put in `unseen` with it; a comparison that raises puts there what it overlaps. Pairs are never
taken out, and an id in one of them is not given again. Rental days are exclusive by their key
(`OneRentalADay`), and the post-pass compares them with everything else.

For the last two: a row is deleted by its own
id by the process that lost, or by its order by one that cancels or gives up; ids are never
given twice (`OwnInv`), so no undo meets a row of another request. `Reserved` says for each
order how many of its windows have their row: all of them for a draft, none for an order refused, and
as many as its process has passed while it is being placed.

### The cart

| Theorem | Statement |
|---|---|
| `TypeCorrect` | `Spec => []TypeOK` |
| `BoundHolds` | `Spec => []NeverMoreThanAsked` |
| `RowsDistinct` | no choice on request implies `Spec => []RowsStayDistinct` |
| `TabsAligned` | `Spec => []TabsStayAligned` |
| `OrdersAsShown` | `Spec => []OrderAsShown` |

**The bound.** Every list of rows there is, in a cart, a copy, a call, an answer or an order, belongs to
`Held(asked)`: none of its rows has more than was asked for of its line. A step that asks
for nothing new moves lists about within this set, and one that asks for one more
enlarges it. Added to this are the facts that carts and calls refer to carts that exist.

**Rows.** The same argument with another set: the lists with one row per signature
(`Standard`). `addItem` looks the row up by its signature, and the other edits keep the
line of a row. They do not keep the mark of a request (`updateItemQuantity` and
`persistAttendeesInCart` send the row without `service_custom_request`), after which it
may be the second standard row of its slot; hence the assumption.

**One shopper.** While `calm`, at most one edit, login or checkout is on its way, beside at most
one load of each tab, of a cart he was told of (`Orderly`). Every list in a cart, a drawer or a
call is then the one that edit has sent or one he may expect (`Shared`, `Aligned`), and their
quantities are in `wanted`. If he knows the outcome of his edits there is one list he may
expect; an edit that ends in an error adds the list it sent, and one that succeeds leaves only
that. At rest that is `TabsStayAligned`, and an order whose outcome he knew has the rows of its
modal (`Alike`: `persistAttendeesInCart` leaves out the chosen extras, and if its answer is lost
the modal still shows them). The invariant is `calm => Steady`: an add on request, a load that
fails or overtakes and a second thing at a time end `calm` in the step that does them, and
nothing makes it true again. No assumption on the choices is needed, as none of the rows is on
request as long as `calm` (`Unrequested`).

### The event lock

| Theorem | Statement |
|---|---|
| `TypeCorrect` | `Spec => []TypeOK` |
| `HandledByOne` | `Spec => []HandledAlone` |
| `TakesEffectOnce` | `Spec => []AppliedOnce` |
| `AckIsHandled` | `Spec => []AckedWasHandled` |

The argument is one of time. A delivery that is in time has taken its clock less than the
window ago, and its claim bears that clock; a record that is stale to somebody else is
nobody's claim any more. So a claim is alone (`Quick`), and what was done under claims can
be counted against what was recorded. If Stripe is patient, a delivery is alone on its
event from the start, and finds no record but a processed or a stale one (`Patient`).

### The plan and its subscription

| Theorem | Statement |
|---|---|
| `TypeCorrect` | `Spec => []TypeOK` |
| `OnePaid` | `Spec => []OneLiveSub` |
| `PlanPaidFor` | `Spec => []PlanIsPaid` |
| `PayerServed` | `Spec => []LiveSubIsServed` |
| `RowsOfPlan` | `Spec => []RowsMatchPlan` |
| `GrantedNotBilled` | `Spec => []GrantEndsBilling` |

**Types.** That a new row gets an id of its own needs more than the set of rows: a handler
keeps the ids of the rows it is about to clear (`Typed`).

**One that is paid for.** Of two active subscriptions, one is found by the search of a
checkout that is still to be handled, or has been found by a handler that will cancel it
(`Orphans`). A restart gives the checkout back to be delivered again. This holds
whatever is hasty; it ends with the first renewal that fails.

**Until something is hasty.** The other four say `~hasty`, and the invariant says what it
says under `~hasty` (`Calm`). Afterwards they are false: section 6 says what a second
checkout, a stalled verification or an event of an earlier subscription does. Before that there is
everything the server does by itself: handlers lost in a restart and delivered again at
each of their steps, success pages that verify beside a webhook, checkouts that are opened
at any time, and renewals, requests, sweeps and assignments that come after one another. A
step that begins something where `~hasty` holds afterwards found all quiet (`BeginsQuiet`). A
subscription bought then meets none that stands, so at most one stands
(`OneStands`), no two requests are under way (`OneAsks`), and there are two sorts of state:

- `Alive(c)`: every event is about `c`, with the plan and the status Stripe has for it, and
  every handler that may still write is about it too. The organization has `c`,
  or an event or a handler that a restart does not lose will see to it. Every row that is
  not of its plan is in the list of the handler that clears it. A request that has not
  reached Stripe yet finds what it found when it was made (`AliveAsked`).
- `Dead`: none is live. Every event and handler on its way takes the plan away, assigns an
  administrator's or changes nothing, and an event that takes it away is still owed as long as
  the organization has a subscription or a plan from Stripe.

Each step leads from one of them to one of them: a payment from `Dead` to `Alive`, a
cancellation back, all others stay. Once everything is handled, `Dead` leaves no plan from
Stripe and `Alive(c)` says that the organization has `c` (`Settled`), which is the four
properties. `PInv` adds two facts that hold throughout: an organization is an administrator's
only after an assignment (`NoAdmin`), and the organization has a row unless a restart took it
(`HasRow`).

### Only model-checked

All liveness: TLAPS reaches neither fairness nor ENABLED. Every other property of a passing
run is a theorem.

## 6. Where the code and its documents disagree

Each is a run whose counterexample is the scenario.

| Run | Property | What happens |
|---|---|---|
| `order_lifecycle_oversold` | `NeverOversold` | An order is cancelled between its reservation row and its increment; the release gives back a seat of another order, and the date is sold beyond its capacity. `event_capacity.py` says the scheme "will never overbook new sales" |
| `booking_holiday` | `AllOrNothing` | A block made by hand has a string as `created_at`; comparing it with a reservation raises, and what was reserved so far stays in the calendar for an order that is never made. `booking_availability.py` calls the reservation "all-or-nothing" |
| `plan_admin_override` | `AdminPlanStands` | An administrator assigns a plan to a paying organization; the event of the subscription that the assignment cancelled resets it to the free plan. The guard "skip if plan was manually assigned by admin" reads a field its query never returns |

Met while modelling, without a run of their own.

Ledger and orders:

- A handler whose copy predates a payment moves another row and writes the paid row back
  as it was; the comment at the guard (`payment_schedule_service.py:492`) says that a
  concurrent writer "perde pulita invece di sovrascrivere".
- The scan writes the t-0 mark in the store and then moves the same row with the copy it
  read before: the mark is gone and the next scan mails again
  (`payment_dunning_service.py:139`). No concurrency is needed.
- A restart between the record of the event and the transition of the row: the
  redelivery is skipped and the row stays payable (`payment_checkout_service.py:935`).
- Webhook and verification both confirm an order and both issue its tickets
  (`ticket_service.py:99`).
- A decrement of stock is refused, the order is confirmed all the same, and its
  cancellation restores what was never taken (`stock_service.py:195`).
- A confirmation that finds three order numbers taken raises before its status is written
  (`order_service.py:647`); the reconciler records the error and returns success, so the
  webhook is not sent again, and the order stays a draft whose money is collected.
- The plan's limit stops a cancellation after it has written the status; seats, tickets
  and block stay, and a second cancellation does nothing (`order_service.py:1238`).
- Cancelling an order from the order page leaves its rows payable (only a refund closes
  them). A Checkout Session of a row registered as paid outside the platform can still be
  paid. A small balance in many instalments gives rows below the minimum charge.
  `complete_order` sets `payment_status` to paid whatever the rows say, which is why
  `SettledOrderIsClosed` speaks of confirmed orders only.

Calendar:

- A row is stamped before it is sent; if an older one arrives later, each finds itself
  the older or alone, and both stay (`booking_availability.py:26`).
- The key of a slot has no unique index (`database.py:1419`), so two upserts may insert two rows.
- A reservation that fails at confirmation is only logged (`commerce_rules.py:390`).
- A restart between the rows of a draft and its document leaves the rows to nobody.

Client and gate:

- A claim is never released after an answer other than 2xx, nor after a restart: every
  retry of the call is told 409 until the record expires, though the comment at
  `idempotency.py:465` calls it retryable. The client's comment has the digest as key,
  path and body; it is organization, path and key.
- Two loads answered out of order leave a tab with the older cart. Two adds at once from one
  copy lose one.
- `updateItemQuantity` drops the mark of a customized request, `persistAttendeesInCart` that
  and the chosen extras. `loadPersistedCart` forgets the cart on any error. A cart that
  has become an order can still be edited. In request mode the id stays in the storage.

Stripe and plans:

- An event delivered again within sixty seconds is answered 200, "in_flight"; if the first
  delivery then fails, nobody delivers it again (`routers/billing.py:967`).
- `applica_evento` in `sound_piu.py` takes the same lock and answers 200 even for an error.
- The event of a deleted subscription resets the organization whichever subscription it
  now has. Two checkouts paid before the first webhook each cancel the other's. The guard on
  Stripe's side of `create_checkout_session` never runs (`stripe_service.py:228`).
- A verification that is stalled while its subscription is deleted restores an unpaid
  plan. A restart inside a deprovisioning after its reset leaves an organization without
  row, and its retry is skipped.
- The search for orphans lists active subscriptions only (`_cancel_orphan_subs_for_customer`,
  `stripe_service.py:449`). One that is past due, and that the organization no longer has,
  survives the checkout of another, and if its renewal succeeds both are paid.
- A subscription given up as unpaid stands at Stripe until somebody cancels it. Its event then
  resets the organization that has bought another one since.

## 7. What is not modelled

- **Most of the source by volume.** Of the roughly 205,000 lines of JavaScript and
  TypeScript the repository has, all but a few thousand are React pages and components, admin
  screens, sound and directory pages, and the generated bundles of the widget
  (`frontend/public/embed/`). A page renders the answer of a call and keeps no state that
  another page or the server relies on. The part of the client that does is modelled:
  `client.ts`, `cart-drawer.ts`, `checkout-button.ts` and the success page of
  `BillingSection.js`. The protocols themselves are in the backend, which is Python.
- **Carts without a plan** and the plan of one full payment: their sessions are
  reconciled by the same function on a path that touches no row. `OrderLifecycle`'s `Webhook`
  stands for every paid session, with or without rows.
- **Stripe's other events** (`charge.refunded`, disputes): they do not move rows.
- **The cascade over a cancelled occurrence**: it calls `refund_order` for each order.
- **Pay tokens**: `ensure_row_pay_tokens` rewrites the rows of schedules older than the
  tokens without a guard; the model's rows have their tokens.
- **Order creation as a whole, coupons, scheduler leases, the fee ledger**: next in the plan.
- **Availability rules, batches of blocks and `reservation_availability.py`**: they decide
  which slots are offered, not who gets them.
- **In the cart**: prices, coupons and shipping, validation of fields, clearing, expiry.
- **In the plans**: trials, cancellation at the end of a period and its revocation, add-ons,
  plans of several modules, stores, events out of order or beside one another, failing
  calls to Stripe where the code logs and goes on.
- **Editing drafts and capacities, fulfilment, check-in, the other issued artefacts**: the
  order's own fields, or the pattern of tickets again.
- **Authentication, mail delivery, pages, analytics**: request-local or presentation.

## 8. Plan

Done: the ledger, orders, slots, cart, gate, event lock and plans, with the proofs of
section 5. Next, in the order of their weight:

1. **`SchedulerLease`**: the job's lease, never renewed, in the idiom of `StripeEvents`.
   **`CouponUse`**: `used_count` against the orders that hold a coupon. The fee ledger.
2. **Compositions**: order creation with its reservations (compensation of partial
   failures; abstract specification: all of it or nothing), and the reconciler with order,
   schedule and seats.
3. **Trials and scheduled cancellations** in `PlanSubscription`.

For the ledger itself: an instance with three rows of instalments, and the refund
distribution against the loop of the code over bounded inputs.
