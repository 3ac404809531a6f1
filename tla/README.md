# PixEcom v2 in TLA+

TLA+ modules of the parts of PixEcom v2 where several actors share state: how a
cart becomes an order, how an order is paid, confirmed, refunded and shipped,
how an e-mail gets from the API to the customer and a change of an order to the
seller's endpoints, how the tabs of a browser keep one session, and how
campaigns in the database and at Meta keep in step. TLC checks them on small
instances; TLAPS proves the safety properties that matter most for every value
of the constants. Paths below are relative to the repository; `api/` is
`apps/api/src/` and `worker/` is `apps/worker/src/`.

## 1. Inventory

The system is a NestJS API, a BullMQ worker and two Next.js front ends over one
PostgreSQL database (Prisma) and one Redis. The API is one Node process: a
handler runs alone between two awaits, and any other request may run at each of
them. Queries outside `$transaction` commit one by one.

| component | state | operations | talks to |
|---|---|---|---|
| Storefront checkout (`api/storefront`) | Order, OrderItem, OrderEvent, ProductVariant.stockQuantity, Discount.uses, a payment at the gateway | checkout, applyDiscountCode, confirmPayment | Stripe and PayPal, discount codes, e-mail |
| Discount codes (`api/email-marketing`) | DiscountCode.usedCount | validateCode, applyCode | checkout |
| Webhooks (`api/webhooks`) | Order, OrderEvent, stock | confirmOrder, refundOrder, handleStatusUpdate | Stripe, PayPal, the fulfilment service |
| Orders (`api/orders`) | Order.status, OrderEvent | updateOrderStatus, bulkUpdateStatus, delay notice, export, import | the seller, e-mail, outbound webhooks |
| Stock (`api/admin`, and the orders' handlers) | ProductVariant.stockQuantity | updateVariant, bulkUpdateVariants write a number; confirmations and refunds move it | the administrator |
| E-mail, API side (`api/email-marketing`) | EmailJob | queueEmail, cancelPendingEmails, SendGrid events, tracking links | the worker, through the table only |
| E-mail, worker side (`worker/processors`) | EmailJob, BullMQ jobs | e-mail scheduler, lifecycle scheduler, send processor | SendGrid |
| Outbound webhooks (`api/webhook-outbound`) | WebhookEndpoint, WebhookDelivery, attempts in memory | dispatchOrderEvent, deliverToEndpoint, edits of endpoints | whoever changes an order, sellers' endpoints |
| Auth (`api/auth`), with the tabs' `apiClient.ts` and `authStore.ts` | RefreshToken, User; in the browser one cookie, and in each tab an access token and a refresh lock | register, login, refresh, logout, ssoLogin; boot, retry after 401, forced logout | the browser's tabs |
| Campaigns, ads manager, Meta client (`api/campaigns`, `api/ads-manager`, `api/meta`) | Campaign, Adset, Ad, rate-limit windows in memory | launch and its background push, pause, resume, bulkStatus, bulkBudget, syncFromMeta | Meta |
| Statistics (worker) | AdStatsRaw, AdStatsDaily, SellpageStatsDaily | stats-sync, storefront-stats | Meta |
| Cart tracker (worker) | AbandonedCart | detect, recover, expire | e-mail scheduler |
| Catalogue, sell pages, domains, media, assets, creatives, ad units, reviews, sellers, the rest of admin | one row per edit | create, read, update, delete | object storage, DNS |
| Web portal, storefront UI | browser state | | the API |

What is hard, and what makes a component correct:

* **Checkout.** Stock, codes and discounts are compared in one query and
  counted in another, and a gateway call lies between two writes. Correct: no
  reduction goes uncounted, the limits are overrun by no more than concurrency
  explains, and nobody is asked to pay for an order that does not exist.
* **Confirmation and refund.** The browser, a webhook delivered at least once
  and a crash race for one order, and the browser may name any payment, not only
  the order's own. Correct: stock is taken once and only against a payment that
  was collected, a capture does not confirm order after order, stock is refunded
  once and kept in step with the status; the customer is told once; a paid order
  does not stay PENDING.
* **Status changes.** Sellers and carriers write a status they checked earlier,
  unconditionally. Correct: no such write moves stock or money, and none makes
  an order PROCESSING that was never CONFIRMED.
* **E-mail.** Two schedulers push the same rows, BullMQ runs a job again when
  its worker dies, SendGrid's answer may be lost, the API cancels rows at any
  moment. Correct: one copy per run of a mail, none while it is cancelled, rows
  that tell the truth where there is a SendGrid key, no mail forgotten.
* **Sessions.** Every tab refreshes with the one cookie they share, the old
  token is deleted two awaits before the new one is stored, and a tab may give
  up or be reloaded at any moment. Correct: a login never has two refresh
  tokens, racing tabs leave the browser a cookie that can be exchanged, and a
  page that loads ends at its content or at the login form.
* **Outbound webhooks.** Nobody awaits a report; it reads the order later, and
  its attempts live in memory. Correct: no payload is older than the change it
  reports, a row that says success is true, an endpoint gets a copy too many
  only for a lost answer, and an active endpoint learns of the latest change.
* **Ads.** A row and an object at Meta are changed one after the other, either
  first; a call whose answer is lost is repeated although Meta may have created
  something; the ad sets and ads are pushed after the answer. Correct: a row is
  linked to its own object under its parent's, a campaign is created once, the
  inline pause is at Meta before it is in the row, a campaign that delivers is
  not shown as paused for ever, and the push reaches every ad that has a page.

`PROJECT.json` lists every component with its status and every hazard with its
line and the properties that look at it.

## 2. Plan

| step | module | what it adds | state |
|---|---|---|---|
| 1 | `Checkout` | checkout and codes, crashes; owns the shared rows and request slots | done |
| 2 | `OrderLifecycle`, extends `Checkout` | payment, webhooks, seller, carrier | done |
| 3 | `OrderContract` | the abstract specification `OrderLifecycle` implements | done |
| 4 | `Order*Proofs` | types, confirmations, money and mail, stages, refinement | done |
| 5 | `EmailQueue`, `EmailQueueProofs` | e-mail from API and worker to SendGrid | done |
| 6 | `Sessions`, `SessionsProofs` | rotation of refresh tokens from several tabs, lost answers, crashes | done |
| 7 | `OutboundWebhooks`, `OutboundWebhooksProofs` | attempts in memory, payload read after the change, retries, restarts | done |
| 8 | `AdsSync`, `AdsSyncProofs` | launch, pause, bulk status and both syncs against Meta, retries, crashes | done |
| 9 | `CheckoutProofs` | payment after order, and the two counts of reductions | done |
| 10 | `Order*Proofs` | captures that confirm once; refunds, their e-mails and stock by status while payments alone move an order | done |
| 11 | `CheckoutContract`, `SessionContract`, `MailContract`, `ReportContract`, `LinkContract` | what each component promises with no requests, failures or retries in it, and the refinements | done |
| 12 | `AdsSync` | bulkBudget beside the stats sync; the rate limiter's window with a clock | open |

Every component has an abstract specification that it is checked (TLC) and
proved (TLAPS) to implement. That of the ads, `LinkContract`, is about links
only: the code keeps no status that rows and Meta agree on, only the weaker
promises of section 1.

## 3. Modules

### Checkout

`req[s]` is the request that slot `s` of the API executes: a record whose `pc`
says at which await it stands and whose other fields are what the handler
carries across it. Starting a handler is `Enter`, going on is `Continue`;
`CheckoutFail` is a call that throws at any await, and `CheckoutCrash` empties
every slot and leaves the rows and the provider.

| action | code |
|---|---|
| CheckoutStart, CheckoutItem | storefront.service.ts:489-594, an item priced and its stock compared at a time |
| CheckoutDiscount, CheckoutUseCode | 613-664 with discount-code.service.ts validateCode and applyCode: the code first, the sellpage discount if no code was sent |
| CheckoutCreate | the transaction that writes the order, its items, CREATED and `uses + 1` |
| CheckoutPay, CheckoutStore | the gateway call; `order.update({paymentId})` |
| ApplyStart, ApplyUse | the public apply-discount endpoint, which counts a use without an order |

Prices are abstracted to what reduced them (`reduced`), amounts are left out.
An unused code or discount may be turned away at any time, which stands for
expiry and the active flag. Stock is compared line by line: the largest line of
a variant decides (`LargestLine`), though the order takes all of them (`Cart`).
One checkout per order identifier: a browser that
submits twice makes two orders, which are two identifiers here.

### CheckoutContract

What the checkout promises with no requests in it: `Count` (a use of a code),
`Place` (an order, its price settled for ever), `Charge`, `Name` (the order
names its payment). A code reduces no more orders than it was counted for, and
limits are passed by `Late` at most. `Checkout` refines it with `Late` read as
the other slots, `Cardinality(Slot) - 1`, and `charged` and `named` as the
orders with a payment at the provider and with its id in their row. That a
limit is kept to the letter is not promised; single_use_code shows why.

### OrderLifecycle

The same slots execute the other handlers. `net` holds the provider's events
that have not been answered 200; an event stays there until its handler ends,
so a crash leads to a new delivery, and `ProviderResends` repeats an answered
one. `transactionId` is the order's column of that name: the payment it was
confirmed with. `taken` and `restored` count how often an order's stock moved,
`mailed` and `refundMailed` the notices started. They are counters of what
happened (the code keeps no such columns), except that paidAt is set whenever
`taken` grows.

The browser's confirmation carries a payment: the one it names or else the
order's own. Nothing compares whose order that payment was made for, so
`ClientVerifyStripe` accepts any Stripe payment that succeeded and
`ClientCapture` captures any approved PayPal payment. The webhooks name the
order themselves.

| action | code |
|---|---|
| CustomerPays, CustomerApproves, ProviderRefunds, ProviderResends | the customer and the providers |
| ClientConfirm, ClientVerifyStripe, ClientCapture, ClientConfirmTx, ClientNotify, ClientFails | confirmPayment, storefront.service.ts:796-939 |
| HookConfirm, HookConfirmTx, HookConfirmNotify | WebhookService.confirmOrder, webhook.service.ts:32-142 |
| HookRefund, HookRefundTx, HookRefundNotify | refundOrder, 148-248; the notices follow even if the transaction found nothing to do |
| HookError | a refused transaction: logged, answered 200 (stripe-webhook.controller.ts:88-98) |
| SellerUpdate, SellerWrite | updateOrderStatus: checked at the read, written unconditionally |
| BulkUpdate, BulkRead, BulkWrite, BulkDone | bulkUpdateStatus, one order after the other |
| CarrierReport, CarrierWrite | handleStatusUpdate: any order in any status |
| DelayNotice | sendOrderDelayNotification: a PROCESSING event for an order in any status, orders.service.ts:729-737 |
| AdminSetsStock | updateVariant and bulkUpdateVariants: a number written over the stock, admin.service.ts:692 and 781 |
| WriteFails | a refused transaction of a seller or a carrier; a bulk update goes on |

A transaction is one action: its first statement is an update conditional on
the status (or the only write); a rolled-back one is `HookError`, `ClientFails`
or `WriteFails`. The orders' handlers move stock by `increment` and
`decrement`, so `MoveStock` reads it in the same step; the administrator's
handlers do not read it at all.

### OrderContract

What the API promises with no requests, retries or crashes in it: `Place`,
`Collect`, `Confirm` (PENDING to CONFIRMED, naming a payment of the order's
method that was collected: stock leaves), `Refund` (stock comes back), `Write`
(any other status, no stock) and `Adjust` (an administrator's number).
`OrderLifecycle` refines it with `paid` read as the orders whose payment is paid
or refunded, and `transaction` as `transactionId`. It does not promise the
transition table, nor that the payment an order names was made for it: the code
keeps neither (section 6).

### EmailQueue

`job` is EmailJob.status, `bull` the BullMQ job of each row (its id is made of
the row's), `proc` where the send processor stands with it, `dispatch` and
`life` the runs of the two schedulers, `tasks` the calls the API started
without awaiting them. External behaviour, modelled as the code relies on it:
`Add` ignores a job id BullMQ knows (also one that is completed: no queue sets
removeOnComplete), a job whose worker died runs once more (maxStalledCount 1),
SendGrid accepts, refuses, or accepts with a lost answer. `keyed` says whether
the worker has a SENDGRID_API_KEY, which no step changes; without one `DryRun`
takes the place of `Send`: the row is made SENT and nothing is handed over
(email-send.processor.ts:217-229). All rows belong to one customer of one
seller, which is the hardest case for cancellation.

### MailContract

`Write` (the row), `Run` (at most twice, never before the row), `Accept`
(SendGrid has a copy: once per run, and never while the row says cancelled),
`Miss` (runs that end without), `Say` (the row, "sent" only of a mail SendGrid
has) and `DryRun` (a run without a key, after which the row may say sent).
`EmailQueue` refines it: `runs` are the stalled runs of a mail's job and
the one under way or ended, `unsent` the mails whose processor has not come
past SendGrid.

### Sessions

One user, one browser, several tabs. `row[k]` is the RefreshToken row of token
`k`, as the number of the login it goes back to; `cookie` what the browser
holds, `tab[t]` the page, its access token and the request it awaits, `req[s]`
where a request stands. A request whose tab gave up runs on; its answer is
dropped and its cookie is not stored.

| action | code |
|---|---|
| BootRefresh, BootMe | ensureSession, authStore.ts:175-237 |
| Unauthorized, Answered, GiveUp | the 401 path of apiClient.ts:177-243, one refresh for all calls of a tab |
| SignIn, SignOut, Reload | the login form, logout, the browser |
| RefreshFind, RefreshPurge, RefreshDelete, RefreshLook, RefreshNoSeller, GenerateTokens | AuthService.refresh, auth.service.ts:196-242, and generateTokens, one query each; `delete` of a row that is gone throws |
| CheckPassword, FindUser, CreateUser, Revoke | login, register, ssoLogin, logout |
| Crash, TokenExpires, Deactivate, QueryFails | a restart, seven days, an administrator, the database |

### SessionContract

`Open` (a login), `Issue` (its first token or the next, which nobody else
has), `Exchange` (the token is gone in one step), `End` (sessions that are
refused, expire, or die with the request that was to store their token). A
session that ended gets no token again. `Sessions` refines it: the open
sessions are the logins with a row or with a request that will store one, the
tokens of a session its rows.

### OutboundWebhooks

The order is the number of its changes (`version`). `run[d]` is a call of
dispatchOrderEvent with the change it reports and the payload it read,
`del[d][p]` its delivery to one endpoint, `log[d][p]` what the WebhookDelivery
rows say and `accepted[d][p]` how often the endpoint took it (a counter of what
happened, no column).

| action | code |
|---|---|
| Change, ChangeSilently, Repeat | the callers after their transactions; the fulfilment webhook, which reports nothing; a refund that found nothing to do and reports it |
| Find, Read, QueryFails | webhook-outbound.service.ts:18-125 |
| Post, PostFails, Log, LogFails | deliverToEndpoint, 133-239; a time-out may hide a delivery that was taken |
| Switch, Delete | webhook-outbound.controller.ts:75-102; an endpoint with rows cannot be deleted (the foreign key restricts it) |
| Crash | nothing of a call survives |

### ReportContract

`Change`, `Tell` (a report of the last change), `Show` (the order as it is at
one moment since, the same at every attempt), `Take` (at most MaxAttempts
times, and not once a row says success), `Note` (a row; success only of a
report that was taken). `OutboundWebhooks` refines it with the event and the
payload of a call for `told` and `shown`.

### AdsSync

`row[e]` is the status and external id of a campaign, ad set or ad, `meta[o]`
an object at Meta with its owner, status and parent, `req[s]` a handler of the
API, `worker` what the stats sync has read and not yet written. `alone` and
`solo` are history: they name the requests that ran with nobody else at work,
which is what two of the properties are about.

| action | code |
|---|---|
| Launch, CallCreate, Store | launchCampaign, campaigns.service.ts:603-720 |
| PushNext, PushDone | pushAdsetsAndAds, 816-920: an ad set before its ads; what could not be created is left out with what belongs to it |
| PushSkip, PushFails | pushSingleAd, 927-1134: an ad whose post has no page takes the campaign's status and is not created (`Pageless`); one whose video or creative did not reach Meta, or whose query fails, is left as it is |
| Toggle, CallPost, Write | the inline pause and resume of campaigns, ad sets and ads |
| Bulk, BulkUpdate, BulkNext, BulkDone | bulkStatus, ads-manager-action.service.ts:56-126: rows first, then Meta one by one |
| CallFails, CallRefused, Again, GaveUp | MetaService.requestWithRetry, meta.service.ts:166-227, and what each caller makes of a failure |
| Sync, SyncList, SyncFind, SyncLevelDone | syncFromMeta, 195-303 |
| WorkerList, WorkerWrite | the campaign status of the stats sync, stats-sync.processor.ts:541-602 |
| EditUnit, EditAtMeta | ad-units' updateAdset and updateAd, which do not tell Meta; the seller on Meta's page |

`LinkContract` is its contract: `MakeCampaign` and `MakeUnit` (an object for
one row, under an object of the row's parent, once the parent is linked) and
`Link` (a row to an object made for it; never unlinked). `AdsSync` refines it
with the owner and the parent of each object at Meta and the external id of
each row, and leaves statuses out.

Two handlers are left in the code in two versions between merge markers, and
neither side has both of what the module needs. launchCampaign is modelled on
the HEAD side (campaigns.service.ts:633-662). The stats-sync worker is modelled
on the feature side, which calls statsSyncProcessor; the HEAD side of
worker/main.ts:166-182 is a stub that does nothing. `DeliveryIsSeen` therefore
holds of a merge that keeps the feature side of the worker, and with the stub
no sync would ever repair a row.

## 4. Runs

| run | what it asks | configuration |
|---|---|---|
| checkout | four checkouts on two slots share a single-use code and a discount of limit one, one crash | `MCCheckout.cfg` |
| all_parties | one Stripe order; customer, provider, seller (single, bulk and delay notice), carrier, administrator, refused transactions, one crash | `MCAllParties.cfg` |
| named_payments | three PayPal orders, any of whose browsers names any of the three payments, one crash | `MCNamedPayments.cfg` |
| payments | a Stripe and a PayPal order for the last unit of one variant, one crash; with fairness | `MCPayments.cfg` |
| emails | an order confirmation and a lifecycle mail one at a time, on a worker with a key and on one without, lost answers, a database error, a crash; with fairness | `MCEmailQueue.cfg` |
| sessions | one login on two tabs and two request slots, one fault (lost answer, crash, expiry, deactivation); with fairness | `MCSessions.cfg` |
| webhooks | two reports of two changes to two endpoints, two attempts, an edit, two faults; with fairness | `MCWebhooks.cfg` |
| ads | a campaign, its ad set, an ad with a page and one without; two requests, both syncs, edits, one fault; with fairness | `MCAds.cfg` |

Four more runs each show one thing the documentation, a comment or a test says
and the code does not keep:

| run | said | what happens |
|---|---|---|
| single_use_code | discount-code.service.ts:37 "Single use" | two checkouts validate before either counts |
| refund_applied | stripe-webhook.controller.ts:20 | a refund handled before the confirmation commits is dropped and answered 200 |
| email_batch | email-scheduler.processor.ts:134, email-send.processor.ts:309 | a failed row stays QUEUED behind a kept job and fills the batch |
| email_cancel | webhook.service.ts:131 | cancelling recovery mail cancels the order confirmation too |

What the properties say, beyond their comments in the modules:

* `EveryReductionIsCounted`, `OverrunBounded`: the checks before the counters
  do not hold the limits, but the error is one-sided and bounded by the
  requests in flight.
* `StockTakenOnce`, `MailedOnlyIfConfirmed`: the conditional `updateMany` is the
  only thing between two confirmations; the mutants without it fail here.
* `StockTakenOnlyIfCollected`: whichever payment the browser named, and though
  it is verified in another step than the one that takes the stock, the payment
  that `transactionId` names was collected by the order's provider. That it was
  made for the order, or confirms no other, does not hold, and needs several
  orders to show: the run has three, all PayPal's, which `CaptureConfirmsOnce`
  needs; for Stripe's, and for a mix, there is the theorem `TakenIsCollected`.
* `CaptureConfirmsOnce`: what limits PayPal is that a capture happens once. A
  payment confirms at most one order besides its own, which its webhook may
  still confirm. There is no such bound for Stripe, where a payment once
  succeeded verifies any number of orders.
* `ProcessedWasConfirmed` is about the status. The PROCESSING event proves
  nothing, for a delay notice writes one for an order in any status.
* `StockMatchesStatus`: each unit of each order that holds stock counts as an
  element of a set, so that a lost update shows as a number. It is about the
  payment parties only: a seller who confirms by hand takes no stock, and an
  administrator writes a number over whatever was moved since the page showed
  it.
* `PaidIsProcessed`: the webhook is the safety net for a browser that never
  returns and for a crash. It is checked without refused transactions: those
  are answered 200 and lost, and the property fails with them.
* `SentOncePerRun`, `NeverSentWhileCancelled`, `RunLeavesVerdict`,
  `EveryMailIsRun`: see the e-mail paragraph of section 1.
* `OneTokenPerLogin`, `CookieIsLive`: the `delete` that throws is the only lock
  between two tabs with one token; with `deleteMany` one login grows tokens.
  The browser keeps its session through a race as long as nothing fails.
* `BootEnds` holds through every fault: no path leaves a tab's refresh lock
  held.
* `PayloadNotOlder`, `LatestIsKnown`: reports may overtake each other, but each
  reads the order after its change, so the last change reaches an endpoint by
  whichever report comes. `LatestIsKnown` and `ReportIsTaken` exclude the
  failures the code has no recovery for.
* `CopiesBounded`: what three attempts with lost answers may do.
* `CheckoutKept`, `ContractKept`, `MailsKept`, `SessionsKept`, `ReportsKept`,
  `LinksKept`: each component implements its contract. They say more than the
  invariants beside them, for they bind every step: a price or a link may not
  change back between two states that are both fine. What follows from a
  contract has no check of its own: `SentWasAccepted` (of a worker with a key)
  from `MailsKept`, `LogIsTrue` and `SuccessIsFinal` from `ReportsKept`. These
  are proved.
* `LinkedIsOwn`, `LaunchedOnce`: a repeated create leaves objects at Meta that
  no row knows, but never one that two rows share; a campaign is created twice
  only by overlapping launches, or after something failed.
* `MetaFirst` is about campaigns only: the inline pause of an ad set or ad
  swallows Meta's failure and writes the row.
* `DeliveryIsSeen`: local and remote status drift apart in many ways; the one
  direction that costs money is repaired by the stats sync, and only that one,
  because the worker reads only accounts that have statistics.
* `PushCompletes`: every ad set of a launched campaign, and every ad that has a
  page, reaches Meta while nothing fails. Ads without a page are passed over by
  design, and an upload that failed takes its ad with it.

What the passing runs do not show, because the code has no recovery and a
property would not hold: that a transaction the provider's event ran into, and
that was refused, is tried again; that a late fulfilment report leaves a final
status alone; that a mail that failed is sent again, or a row leaves SENDING
after a run that was cut short; that a push, or a retry of a report, survives a
restart; that a stale report does not arrive after a newer one; that an
administrator's stock keeps what was sold meanwhile. The steps themselves are
in the models; `PROJECT.json` says at each hazard what covers it.

### Bounds

| constant | value | why it is enough |
|---|---|---|
| Slot | 2 | every race in these handlers is between two requests for one row; the proofs hold for any number |
| Order, Variant | 1 to 3, 1 | orders meet in the stock of a variant, in a bulk update, and in a payment that a browser names for another order; CaptureConfirmsOnce needs the payment's own order and two others |
| InitStock | 1 | two orders for the last unit |
| StockLevels, DelayedOrders | one level and the one order in all_parties, none elsewhere | the administrator's number may come at any moment; the other runs ask about the payment parties |
| MaxCrashes | 1 | a second crash finds the same durable states as the first |
| MaxRefundMails | 1 to 3 | bounds repeated refund deliveries; with two slots a third mail would already break RefundMailsBounded |
| MaxUses, UsageLimit | 1 | the first overrun needs the limit to be met once |
| MaxAttempts | 2 or 3 | one failure that is not the last, and one that is; in email_batch the failed row must stay QUEUED |
| BatchSize | 2, and 1 in email_batch | 100 in the code; what matters is whether the failed rows fill it |
| Concurrency | 1 | 3 in the code; the processors of two rows share nothing but the worker's places, and with one place a mail must wait for another, the harder case for progress; the proofs hold for any number |
| MaxErrors, Reports | 1, OPENED | one database error at any query; other events write other statuses by the same action |
| Tab, Slot, Token (Sessions) | 2, 2, 4 | two tabs race for one cookie; four tokens are one per request, cookie and row, so that a new one is always free |
| MaxSessions, MaxFaults (Sessions) | 1, 1 | logins share nothing but the cookie; each fault alone is the case the code has to survive |
| MaxCalls, MaxChanges, Endpoint | 2 each | one report overtakes another; one endpoint fails beside one that works |
| MaxAttempts (webhooks, ads) | 2 | 3 and 4 in the code: one that is repeated and one that is the last |
| MaxEdits, MaxFaults (webhooks) | 1, 2 | two faults exhaust both attempts |
| `keyed` (EmailQueue) | both | a worker with SendGrid's key and one without, each from its start |
| Campaign, Unit, Slot (AdsSync) | 1, 3, 2 | a campaign, its ad set and two ads, one of them `Pageless`, have every kind of parent; campaigns share nothing but the account's list |
| Obj, MaxRequests, MaxFaults (AdsSync) | 6, 2, 1 | two launches create at most three objects each; a third request would only repeat a pair. The run has 333298 states |

### Fairness

`OrderLifecycle`: weak fairness of each slot's `Progress` (an async handler
goes on unless the process dies) and strong fairness of delivering each event
(the provider repeats an unanswered event, and Node accepts any number of
requests: that all slots are taken is a bound of the model). Customers,
sellers, carriers, refunds and repeated deliveries are not fair.
`EmailQueue`: weak fairness of the worker's schedulers (repeatable jobs), of
taking a waiting job and of running what was taken. The API's calls, SendGrid,
the customer and the clock are not fair.
`Sessions`: weak fairness of every handler, of the delivery of an answer and of
`BootMe`; strong fairness of a tab's boot or retry getting a slot, since that
slots run out is a bound of the model. Users, faults and clocks are not fair.
`OutboundWebhooks`: weak fairness of each call's `Progress`. The ten-second
time-out makes an attempt end; it is cleared once the headers are there, so an
endpoint that never ends its body would hold a delivery, and that is assumed
away. `AdsSync`: weak fairness of each slot's `Progress`, of the worker's
reading an account in which something delivers (`WorkerDue`: the job is
repeatable, and an account without statistics is skipped) and of its writes.

Runs say CHECK_DEADLOCK FALSE because the system may stop: every order settled,
every mail run, no bound left.

## 5. Proofs

The proofs hold for every value of the constants that meets the assumptions,
whatever the sizes of the sets: orders, variants, mails, tabs, tokens,
endpoints and objects may be infinite. `CheckoutAssumption`,
`LifecycleAssumption`, `EmailAssumption`, `SessionsAssumption`,
`WebhooksAssumption` and `AdsAssumption` type the constants and keep the "none"
values apart; `SlotsAssumption` makes the request slots finite, which counting
requests needs: in `CheckoutProofs`, and for the refund mails.

* `CheckoutProofs`: `CheckoutTypes` and `PaymentIsOrdered` (a payment at the
  gateway belongs to an order: a request about to pay already has its row, and
  rows are never removed). The counts rest on `CountInv`. The orders a code
  reduced and the requests that hold its reduction together are no more than
  its uses; the uses and the requests that have passed its check and not yet
  counted together exceed the limit by at most the other slots; a discount
  likewise. Each step moves at most one slot into or out of these sets, and
  their sizes follow from the theorems on finite sets. It gives
  `ReductionsAreCounted` and `OverrunIsBounded`.
  `CheckoutIsKept` shows each step to be one of `CheckoutContract`'s or to
  leave what it speaks of. What the contract's guards ask is in these
  invariants, with `Own`: a request that is to count or to reduce names the
  code or the discount it does so by.
* `OrderLifecycleProofs`: `TypeCorrect` (LifecycleTypeOK is inductive once the
  status a request is about to write is known to be one a transition leads to).
  `StepIsStatusStep` shows each step to create, confirm, write or refund one
  order, or none; with it `Ledger` is inductive: before CONFIRMED nothing was
  taken, afterwards at most once, and nothing returns to PENDING. It gives
  `StockIsTakenOnce`, which alone is not inductive: it must know why a PENDING
  order has not been confirmed before. For what follows, `StockLedger` accounts
  for stock where no administrator sets it. By `OneMore` one more of an order
  adds the units of its cart to the set of those that moved, whose size is only
  known while it is finite: that is `Moved`, the inductive half. Both serve only
  as a step to `StockIsByStatus`.
* `OrderPaymentProofs`: `Money` and `Mail`, proved together. Each handler
  checks a payment one await before it takes the stock, so `Money` says of
  every request on that way that the payment it names is collected and of the
  order's method, of every event in the net that its order is paid, and that a
  request about to create a payment is the only one for its order; `Mail` that
  a request about to send the notice is the only one and that nothing was sent
  yet. They give `TakenIsCollected` and `MailedIsConfirmed`.
  `CaptureIsConfirmedOnce` rests on `Once`: of a PayPal payment one request at
  most is about to confirm, none if an order not its own was confirmed with it
  already, since a capture that succeeds finds the payment uncaptured, and so,
  by `Money`, nobody who claims it. `RestoredIsTaken`, `RefundMailsAreBounded`
  and `StockIsByStatus` have the hypothesis `PaymentsOnly`, no seller, no
  carrier and no administrator: a stale write or a fulfilment report revives a
  REFUNDED order, and the next refund event then restores its stock again
  (section 6). The hypothesis is that of the `payments` run. Under it `PInv` is
  inductive: the status tells how often an order's stock was taken and
  restored, and of a REFUNDED order the mails sent and the requests still to
  send one are together no more than the slots, since none begins once it is
  REFUNDED.
* `OrderContractProofs`: `Stage` first. Events are never removed, so what a
  stale write saw (CONFIRMED before PROCESSING) stays true of the events though
  no longer of the status. It gives `ProcessedIsConfirmed`. Then
  `ContractIsKept`. From `Money` and `Stage`, each step
  of `OrderLifecycle` is a step of `OrderContract` or leaves status, paid and
  stock alone (`StepIsContractStep`).
* `EmailQueueProofs`: `IInv` is the type invariant with `RowsFirst` (only a row
  that exists is pushed), `Runs` (one run at a time; a job that waits or has
  not reached SendGrid leaves room for one more copy), `Verdicts` (what the row
  says while the processor is at work) and `SentWasAccepted` (a row says SENT
  or later only of a mail SendGrid has, unless the worker has no key). It gives
  all safety properties of the `emails` run, `NeverSentWhileCancelled` as an
  action property, and `MailsAreKept`.
* `SessionsProofs`: `RotationInvariant` says that a request that will store a
  row is the only one for its login, and that the login has no row meanwhile.
  `OneTokenPerLogin` is not inductive without it: that no second row appears
  rests on the delete that came before. It gives `OneToken`. For `CookieLives`
  a second invariant (`QInv`) describes the state before anything has failed:
  every request has a tab that waits for it, and a new token is in one answer.
  `SessionsAreKept` needs only the first: the login of a request that is to
  store a row is open and has none, so what it stores is an `Issue`, and what
  ends in between, a crash with several requests among them, is one `End`.
* `OutboundWebhooksProofs`: `DeliveryInvariant` says that what a delivery
  believes of its endpoint is so, and that an acceptance it does not know of is
  a fault. It gives `PayloadIsCurrent`, `LogTellsTruth` and
  `CopiesAreBounded`, and `SuccessEndsIt`: a delivery whose rows say success is
  done. For `ReportsAreKept` a second invariant (`Attempted`) says that a
  delivery under way has a payload and was not taken more often than it was
  tried.
* `AdsSyncProofs`: `LinkInvariant` for what rows and handlers know of Meta's
  objects (an id in a handler is of that handler's entity, under its parent's
  object), which gives `LinksAreOwn`; a second invariant, for requests that ran
  alone, says that what they read is still true, and gives `CreatedOnce` and
  `MetaIsFirst`. `LinksAreKept` adds `Stored`: an id that a request knows is of
  a row that is linked, and stays so, which is why an ad set created from an
  old read is still made under an object of its campaign.

Only model-checked: the liveness properties (`PaidIsProcessed`,
`EveryMailIsRun`, `BootEnds`, `ReportIsTaken`, `LatestIsKnown`,
`DeliveryIsSeen`, `PushCompletes`), because the prover does not do fairness.
Every safety property and every refinement that a passing run checks is also
proved.

## 6. Not modelled

`PROJECT.json` gives the reason for each component. In short: row edits,
queries, uploads and analytics have one actor and nothing to interleave;
signatures, encryption and password hashing are libraries; the cart-recovery
mails cannot happen today (an abandoned cart never gets an address, and every
recovery step asks for one); `EmailSendService.processEmailJob` and
`deactivateExpired` have no caller. Order import changes tracking numbers, not
statuses.

By lines of code the modules stand for a small part of the repository. Two
thirds of it are React pages, form handling, queries, field mapping, seeds and
DTOs; what is left of the API and the worker is mostly create-read-update-delete
of single rows. The lines that are modelled are those where two actors meet.

Left out of modelled components: of sessions, the re-activation of a user, the
audit log and roles; of outbound webhooks, an endpoint created while a call
runs and a database error when a delivery row is written (logged and
swallowed); of ads, budgets, creatives, media, the archived and deleted
statuses, the sixty-second cooldown of syncFromMeta and the rate limiter's
window (its refusals are `CallRefused`); of the push, the calls for videos and
creatives, of which only the failure shows (`PushFails`).

Seen in the code while modelling, without a run of their own:

* a confirmation names a payment that need not be the order's own
  (storefront.service.ts:832 and 844): neither its metadata nor its amount is
  compared, so one Stripe payment that succeeded confirms any PENDING order it
  is named for;
* an administrator's stock is an absolute number (admin.service.ts:692 and 781):
  what was sold or given back since the page was read is lost;
* a delay notice writes a PROCESSING event for an order in any status
  (orders.service.ts:734), so an order's history may say PROCESSING before it
  was confirmed;
* without a SENDGRID_API_KEY every mail is reported SENT
  (email-send.processor.ts:217);
* two lines of one variant are compared with the stock one by one
  (storefront.service.ts:549);
* an ad without a page, or whose video could not be uploaded, is passed over by
  the push, with a line in the log (campaigns.service.ts:954 and 1029);
* a bulk update "validates status transitions" (orders-bulk.service.ts:35), but
  its write (line 81) lands on a status that moved after the check;
* refundOrder calls itself idempotent (webhook.service.ts:145), but a fulfilment
  report revives a REFUNDED order (fulfillment-webhook.controller.ts:86) and a
  repeated refund event then restores its stock again;
* logout revokes nothing: the cookie's path is /api/auth/refresh, so the call
  carries no token (auth.controller.ts:181-202), and its row lives for seven
  days. A refresh answered after the logout sets the cookie again;
* a restart, a refusal or a reload between the delete and the new cookie ends
  the session (auth.service.ts:218); expired rows are removed only when they
  are presented; ssoLogin issues tokens to an inactive user, whose every call
  is then refused;
* reports of one order may arrive out of order, and retries are lost with a
  restart (webhook-outbound.service.ts:140); the fulfilment webhook reports
  nothing;
* ad sets and ads are created ACTIVE at Meta while their rows get the
  campaign's status; those added after the launch are never pushed, and a push
  that failed is not resumed (campaigns.service.ts:709); the syncs read
  only the first page of Meta's lists, and an unknown status becomes PAUSED;
* a fulfilment report moves CANCELLED and REFUNDED orders
  (fulfillment-webhook.controller.ts:86; orders-status.spec.ts:107 and 115 treat
  both as final);
* a seller's CONFIRMED takes no stock and a seller's REFUNDED restores none
  (orders.service.ts:426; pixecom-instruction.md:227 says "decremented on
  CONFIRMED, restored on REFUNDED");
* the last unit can be sold twice, and the stock goes negative
  (storefront.service.ts:549; pixecom-instruction.md:186);
* two deliveries racing for one refund both send its e-mail
  (webhook.service.ts:231);
* a database error in a webhook is answered 200, so the event is not repeated
  (stripe-webhook.controller.ts:97; pixecom-instruction.md:208 calls the webhook
  a "redundant safety net");
* a lifecycle mail's optimal send time (send-time.ts:10) is stored and then
  ignored: its job is added without a delay;
* several files hold unresolved merge markers, among them
  storefront.service.ts, paypal.service.ts, paypal-webhook.controller.ts,
  campaigns.service.ts and the worker's main.ts. In the API's modelled code they
  choose between gateway URLs, settings and the status a campaign is created
  with; in the worker they choose between a statistics sync and none (section 3,
  AdsSync).

## 7. Running

    tlc -workers 2 -config MCPayments.cfg MCOrderLifecycle
    tlc -workers 2 -config MCSessions.cfg Sessions
    tlapm AdsSyncProofs.tla

`PROJECT.json` names the module and configuration of every run, a mutant for
every property (an operator defined beside the one it replaces), and the lines
each definition stands for.
