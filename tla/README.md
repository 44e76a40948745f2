# The Adyen payment plugin for Magento 2 in TLA+

TLA+ modules for the parts of the plugin that have a state of their own, TLC
configurations that check them on small instances, and TLAPS proofs for every
size. Paths are those of the repository.

Contents: [the system](#the-system) · [the modules](#the-modules) ·
[NotificationPipeline](#notificationpipeline) · [WebhookOrder](#webhookorder) ·
[Storefront](#storefront) · [Giftcards](#giftcards) · [Multishipping](#multishipping) ·
[CheckoutData](#checkoutdata) · [the runs](#the-runs) · [findings](#findings) · [proofs](#proofs) · [only model-checked](#only-model-checked) ·
[not modelled](#not-modelled) · [plan](#plan)

## The system

Adyen tells a shop what becomes of a payment by *webhooks*: HTTP requests that
carry one or more notifications (a payment was authorised, captured, refunded,
refused, ...). They arrive in any order, more than once, and some time before
or after the shopper comes back from the payment page. The plugin stores them in
the table `adyen_notification` and works them off later.

On the other side is the shopper's browser: the checkout page has a script for
every payment method, which shows a form, places the order, carries out what
the payment asks for (a challenge, a redirect), and leads to the success page.
The scripts share the page, and their calls to the server take their time.

| component | state it keeps | operations | works with |
|---|---|---|---|
| Webhook receiver (`Controller/Webhook/Index.php`) | none but the rows it inserts | check a request, drop duplicates, insert, answer | `adyen_notification`, rate limiter, IP cache |
| Webhook processing (`Cron/WebhookProcessor.php`, `Helper/Webhook.php`, `Model/Notification.php`, its collection; `Console/Command/WebhookProcessorCommand.php`) | `processing`, `done`, `error_count` of a row; fields of `Helper/Webhook` that outlive a notification | load the waiting rows, skip duplicates and delayed ones, process a row, record an error | handlers, queue, orders |
| Webhook queue (`Model/Queue/Notification`) | messages that carry a copy of a row | publish, consume | processing |
| Notification grid (`Ui/Component/Listing/Column/NotificationColumn.php`, `Controller/Adminhtml/Notifications/WebhookReprocess.php`) | none | show a status, reprocess a row by hand | processing |
| Webhook removal (`Cron/RemoveProcessedWebhooks.php`, its provider, `Model/AdyenNotificationRepository.php`) | ids selected for deletion | select, delete | `adyen_notification` |
| Webhook handlers and order helper (`Helper/Webhook/*.php`, `Helper/Order.php`) | order state and status, last event, transactions | one handler per event code | order payments, invoices, credit memos, case management |
| Order payments (`Helper/AdyenOrderPayment.php`) | `adyen_order_payment`: amount, captured and refunded totals, capture status per authorisation | create, capture, refund, sum up | handlers, capture gateway |
| Invoices and manual capture (`Helper/Invoice.php`, `Observer/InvoiceObserver.php`, `Gateway/Http/Client/TransactionCapture.php`) | `adyen_invoice`: pending or successful captures, linked to Magento invoices | capture online or by webhook, link, pay | order payments, handlers |
| Refunds (`Helper/Creditmemo.php`, `Observer/CreditmemoObserver.php`, `Gateway/Http/Client/TransactionRefund.php`) | `adyen_creditmemo` | refund online or by webhook, link | order payments, handlers |
| Checkout payment (`Gateway/Http/Client/TransactionPayment.php`, `Helper/GiftcardPayment.php`, `Helper/OrdersApi.php`) | remaining amount, responses stored, Adyen order | create an order, pay by gift cards, pay the rest | Adyen's API |
| Response, return, details (`Helper/PaymentResponseHandler.php`, `Helper/PaymentsDetails.php`, `Controller/Return/Index.php`) | order, quote | store the result, keep or cancel the order, restore the cart | the webhooks, concurrently |
| State data (`Helper/StateData.php`, `Cron/StateDataCleanUp.php`) | rows per quote | save, remove, clean up | checkout |
| Rate limiter, IP cache (`Helper/RateLimiter.php`, `Helper/IpAddress.php`, `Cron/ServerIpAddress.php`) | cache entries with a lifetime | count failures, verify an address | receiver |
| Pay by link (`Cron/CancelOrders.php`, its provider) | failure count on the payment, expiry date | cancel expired orders | failed authorisations |
| Renderers of the checkout page (`view/frontend/web/js/view/payment/method-renderer/*.js`: new cards, stored cards, other methods and wallets, Amazon Pay, PayPal, Cash App, terminals) | the component built, validity last reported, `orderId`, flag of the button | select, mount, edit, place the order, ask its status, carry out an action, send its details, cancel, fail | the page's loader, dialogs and each other; the server's order and cart |
| Gift cards of the page (`adyen-giftcard-method.js`, `giftcard-summary.js`, totals mixins) | redeemed cards, balance, controls shown, summary | list, add, check the balance, redeem, remove, place the order | rows of state data |
| Several addresses (`method-renderer/multishipping/*.js`, `payment-mixin.js`) | template rendered, component, listener of *Continue*, hidden field of state data | select, render, mount, edit, continue | each other, through the page |
| Shared services (`model/adyen-payment-service.js`, `adyen-checkout.js`, `adyen-payment-modal.js`, `payment-component-states.js`, `installments.js`, `helper/*.js`) | flags of the buttons, the dialog | requests, library, dialog, split of a street, minor units | all of the above |
| Vault, amounts, payment methods, configuration, POS, GraphQL and REST entry points, admin blocks, setup patches | see `PROJECT.json` | | |

What is hard here:

* **Interleaving.** The table is read into PHP objects and written back later
  without locks or transactions: concurrent requests, a cron run that overlaps
  the console command, several queue consumers, an administrator who
  reprocesses a row, and the removal.
* **Failure.** The order and the notification are saved one after the other; a
  process can be killed between any two accesses. A row that fails is tried
  again until it has used up `Notification::MAX_ERROR_COUNT` attempts.
* **Order and time.** Rows are worked off by creation time and event code; some
  kinds wait ten minutes to let others overtake them; rows older than five
  days are not loaded at all.
* **Amounts.** An order may be paid, captured and refunded in parts.
* **The page.** A script's turn ends at every call; until the answer the
  shopper clicks, other scripts' callbacks run, answers overtake each other or
  get lost. What keeps the shopper from paying twice is a counter of loaders, a
  dialog and a flag per button, which every path has to hand over and to undo.

The hazards at their lines are listed in `PROJECT.json`, with the properties
that cover them.

## The modules

| module | what it is |
|---|---|
| `NotificationPipeline` | the life of a notification from the request to the removal of its row |
| `NotificationStatus` | abstract specification: the status column the administrator is shown |
| `MCNotificationPipeline` | instances of `NotificationPipeline` for TLC |
| `NotificationPipeline_proofs` | theorems about it |
| `WebhookOrder` | what the notifications of its payments make of one order |
| `OrderLife` | abstract specification: an order is open until it is paid or cancelled |
| `MCWebhookOrder` | instances of `WebhookOrder` for TLC |
| `WebhookOrder_proofs` | theorems about it |
| `StorefrontPage` | what the renderers share: loader, dialogs, flags, attempts to pay, and the server that answers |
| `CardRenderer`, `VaultRenderer`, `MethodRenderer`, `PosRenderer` | the renderers of new cards, stored cards, other methods with those that extend them, and terminals |
| `Storefront` | the checkout page: the renderers together, with its properties |
| `MCStorefront`, `Storefront_proofs`, `StorefrontCover_proofs` | instances for TLC, theorems |
| `Giftcards`, `MCGiftcards`, `Giftcards_proofs` | gift cards of the page and the server's rows of state data |
| `Multishipping`, `MCMultishipping`, `Multishipping_proofs` | the billing page of an order to several addresses |
| `CheckoutData`, `MCCheckoutData`, `CheckoutData_proofs` | streets, amounts and installments: pure functions, with the state of the card form |
| `FiniteSums` | lemmas about sums over finite sets, which the proofs share |

`NotificationPipeline` leaves to one step, `Apply`, what a handler does to the
order; `WebhookOrder` takes this step apart, and reduces in turn the way of a
notification to its handler to `Arrive` and `Load`. In `Storefront` the server is
reduced to what it may answer (`PlaceOutcomes`, `DetailsOutcomes`, `PosOutcomes`), and gift
cards, which are paid beside the other methods, are a module of their own.

## NotificationPipeline

### State

| variable | code |
|---|---|
| `table` | the rows of `adyen_notification`: the item received, age in minutes, `done`, `processing`, `error_count`; a slot is `free` before the insert, `removed` after the deletion |
| `applied` | history: how often the changes of a handler were saved with the order for this row |
| `body`, `todo`, `checked` | locals of `Webhook/Index::execute`: items of the request, those left, the one that passed `isDuplicate` |
| `accepted` | history: items that were answered with `[accepted]` |
| `pc`, `obj`, `batch`, `msg` | a process: where it is, the `Notification` object it works on, the rest of the loaded collection, the unacknowledged message |
| `queue` | messages of topic `adyen.notification`, each a whole `Notification` |
| `doomed` | ids that `ProcessedWebhooksProvider::provide` returned and `deleteByIds` has not deleted yet |
| `due` | in a punctual schedule: the minute's cron job has not started yet |

A `Notification` object is a copy of the columns `done`, `processing` and
`errors` with the set `dirty` of the columns its next save writes. Magento
writes the columns that differ from the stored data an object was loaded with;
objects built from a collection or decoded from a message have no stored data,
so that their first save writes *every* column, which is how an old copy can
overwrite a newer row. An UPDATE of a deleted row changes nothing. This is
`Save`; it stands for framework code and is marked external.

### Actions

An action is one database access with the code around it, so that every
interleaving of two processes at their database accesses is a behaviour.

| action | code |
|---|---|
| `Post`, `CheckItem`, `SaveItem`, `Accept`, `Refuse` | `Index::execute` and `processNotification`: `isDuplicate` and `save` are two accesses; `Refuse` is any of the checks that end a request (or an exception) |
| `StartRun`, `SkipDuplicate`, `SkipDelayed`, `Take`, `EndRun` | `WebhookProcessor::doProcessWebhook` |
| `MarkQueued`, `Publish` | `Publisher::execute` |
| `Receive`, `Acknowledge` | `Consumer::execute` and the framework around it |
| `ViewLink`, `FollowLink` | the grid's reprocess link and `WebhookReprocess::execute` |
| `RejectUnidentified`, `Claim`, `GiveUp`, `LeaveForRetry`, `LeaveUnhandled`, `Apply`, `MarkDone`, `RecordError`, `Finish` | `Webhook::processNotification`; `GiveUp` is a missing order or `InvalidDataException`, `LeaveForRetry` any other exception, `Apply` the save of the order; when `MarkDone` throws behind its write the error is recorded too |
| `Crash` | a process ends between two accesses (killed, or an error that is not caught); a message may be delivered again when the broker does so |
| `SelectProcessed`, `DeleteSelected` | `RemoveProcessedWebhooks::execute` |
| `Tick` | a minute passes |

What a handler does to the order is the single step `Apply` here. Whether it
succeeds is a free choice: `GiveUp`, `LeaveForRetry`, `LeaveUnhandled` and
`Apply` are all enabled in `claimed`.

### Fairness

`FairSpec` assumes that cron starts the runner again and again
(`etc/crontab.xml` runs `adyen_payment_process_notification` every minute),
that Magento keeps the consumers running, that a process that was started goes
on, and that time passes. Nothing is assumed of requests, administrators,
crashes or the removal. With `Punctual` the work due in a minute is also done
in this minute; this is a bound on the load, needed for the deadline
`SettledInTime`, and without it no deadline can hold (a row that waits longer
than five days is not loaded any more).

### Bounds

* `Ids` is the number of rows that are ever stored (1 to 3): two rows are what
  it takes for a duplicate, for an order of processing and for an effect of one
  row on another.
* `Items` has two items per run, chosen per question: a payment and its capture
  (same reference), a delayed refusal, an item without merchant reference.
* Minutes are scaled: `MinAge = 1` is the code's value; the ten minutes of
  `DelayAge` and the five days of `MaxAge` become the next larger numbers, and
  ages beyond `AgeCap` are not told apart. Only their order matters to the guards.
  Rows are ordered by their age in minutes; of rows of the same minute any may come first
  (the code orders by the second, then by event code).
* `MaxErrors` is 1 to 3 instead of 5; counts stop at `ErrorCap = MaxErrors + 1`.
* Two `Slots` in the queue; `Publish` waits when they are full.

## WebhookOrder

### State

| variable | code |
|---|---|
| `rows`, `errors` | the notification's row: absent, waiting, in progress or done, and its `error_count` |
| `order` | the stored order: its state, `adyen_notification_event_code`, whether its items are invoiced |
| `stored` | rows of `adyen_order_payment` per authorisation (the code never stores more than one) |
| `refunded` | payments marked as fully refunded by ORDER_CLOSED |
| `invoices` | invoices stored for the order |
| `pc`, `current`, `object` | where `processNotification` is, the notification, and the order object it loaded, changes, and saves at the end |

The difference between `order` and `object` is what makes the module: payments,
transactions and invoices are written while the object is changed, the order is
written last. After an exception the order is saved all the same, with a
comment, in whatever state the handler left the object
(`addNotificationErrorComment`).

### Actions

One process works on the notifications, one at a time (`NotificationPipeline` is
about several). `Load` chooses *any* waiting notification, since Adyen sends
them in any order, and a delayed or failed one is overtaken by others.

| action | code |
|---|---|
| `Arrive` | the notification's row is inserted |
| `Load` | `processNotification` up to the handler: the row is marked, the order loaded, its last event set |
| `LeaveUnhandled` | the order's state is not in `WEBHOOK_ORDER_STATE_MAPPING` |
| `RecordPayment`, `AwaitRemainder`, `SaveTransaction`, `LeaveToCapture`, `CreateInvoice` | `handleSuccessfulAuthorisation`, a step per write to the database |
| `RefuseAuthorisation`, `IgnoreAuthorisation` | `handleFailedAuthorisation`; an authorisation of a cancelled order |
| `CloseOffer`, `CloseOrder`, `Cancel`, `AcceptReview` | the handlers of OFFER_CLOSED, ORDER_CLOSED, CANCELLATION, MANUAL_REVIEW_ACCEPT |
| `SaveOrder`, `MarkDone` | the handler returned |
| `RecordError`, `SaveComment` | it threw an exception |
| `Crash` | the process is killed, or the last save throws |

What `NotificationPipeline` tells apart in a row, its two saves after an
exception for instance, is one step here.

`Faults` names what may go wrong: `crash`; an exception while the payment, the transaction
or the invoice is saved (the first is swallowed, `AdyenOrderPayment.php:225`), the gateway is asked to cancel, or the order is saved;
`comment`, when saving the order fails again after an error. `Saved`,
`CanCancel`, `CanInvoice`, `CanHold` are the framework's rules for orders,
`Transition` is the decision of the library `adyen/php-webhook-module`; they
are marked external.

### Fairness

`FairSpec`: the process goes on while there is something to do, and takes every
waiting notification some time (`SF` of each `Load`: the runner loads *all*
waiting rows each minute). Nothing is assumed of arrivals or crashes.

### Bounds

* The amounts are 1 and 2 with `Total = 2`: a gift card and a card that pay the
  order together, or one payment of the whole. Whether a payment is captured
  automatically depends on its method, so that one order may have both kinds. Sums matter only as being, or
  not being, the total.
* `PaidState` is the state that the status *payment authorized* leads to: `processing`, or
  empty when no status is set or it belongs to no state that may be chosen (virtual orders
  and boleto have statuses of their own). The runs have `processing`, the proofs both.
* Three to five notifications come together (two in the finding); `Deliveries` names the
  sets of them, since not all may: Adyen closes an order as failed when its parts did
  not add up (`MCWebhookOrder`).
* `MaxErrors` is 2: a first failure, a retry, the row given up.
* `stored` and `invoices` stop at 2, which stands for *more than one*.

## Storefront

### State

| variable | code |
|---|---|
| `listed`, `started`, `checked` | the renderers of the page, those whose script has run, the selected one |
| `sheets` | wallets whose own button has opened a window, in which the shopper confirms later |
| `answered`, `refreshing` | the payment methods have come (`adyenPaymentService.getPaymentMethods()` is an observable), or are being asked for |
| `session` | the URL holds an `amazonCheckoutSessionId` |
| `building`, `lib`, `fields`, `reported` | pending calls of the library, `checkoutComponent`, the mounted form, the validity its `onChange` reported last |
| `loader` | the counter of the framework's full screen loader: `startLoader` adds one, `stopLoader` takes one away but never goes below zero |
| `modal`, `flag` | open dialogs; whether a Place Order button may be used. New cards and every other method have a flag of their own, stored cards and terminals share the framework's |
| `attempts` | attempts to pay in the order they were made: who makes it, where it is, and what the server knows of its order |
| `orderId` | the one order a renderer remembers |
| `cart` | the server's quote is active |
| `page`, `landed` | where the browser is; history: the order whose handler led to the success page |
| `crossed` | history: a callback that looks at neither loader nor dialog has come to a covered page |

An attempt is `placing` (the order is being placed), `asking` (its status),
`acting` (an action is shown), `sending` (the details of the action), `declining`
(Amazon's decline flow), and ends as `failed` or `landed`, or `dropped`.

*Dropped* is an attempt whose handler the code leaves half-way, so that nothing
else can be expected of it. The properties about what an attempt leaves behind
except it. These are all the cases:

* the call of `getOrderPaymentStatus` of new and stored cards has no handler of a
  failure (`adyen-cc-method.js:349`);
* an answer that is neither final nor carries an action (*Pending*), or an action
  that cannot be mounted, makes `handleAction` throw (`adyen-cc-method.js:257`);
  in `renderActionComponent` the dialog is open then and has no close button (`adyen-pm-method.js:397`);
* PayPal's `handleOnFailure` calls `isPlaceOrderAllowed`, which no renderer has (`adyen-paypal-method.js:83`);
* the timer for a busy terminal calls `placeOrderPos` on the window (`adyen-pos-cloud-method.js:118`);
* Amazon Pay mounts its component anew and leaves the loader of the attempt (`adyen-amazonpay-method.js:142`).

### Actions

JavaScript runs one turn at a time: a click, a callback of the component or the
continuation of an awaited call is one action, with all the calls of
`stopLoader`, `closeModal` and the flags it makes. A call is sent in one turn and
answered in another. A wallet's window is confirmed (`MethodSubmit`) or fails (`MethodErrorIdle`) in a
turn of its own, whatever is going on in the page by then, and a script may be loaded after the
methods have come (`Initialize`). The server's part is done with the answer; an answer may be
lost on its way back, in which case the order has changed and the page sees a failure.

| action | code |
|---|---|
| `AskMethods`, `MethodsArrive` | `set-shipping-information-mixin.js` and the observers of the payment methods; `Unbalanced` are the renderers that stop a loader they have not started |
| `Initialize` | `initialize` of a script that is loaded: after the methods have come, it takes them at once and stops a loader |
| `CardSelect`, `VaultSelect`, `MethodSelect`, `PosSelect` | `selectPaymentMethod` and `createCheckoutComponent` up to the library |
| `CardBuilt`, `VaultBuilt`, `MethodBuilt`, `AmazonBuilt` | what follows when the library has come; with a session the component of Amazon Pay submits at once |
| `CardEdit`, `VaultEdit`, `MethodEdit` | the component's `onChange` |
| `CardPlace`, `VaultPlace`, `MethodPlace`, `PosPlace` | `placeOrder` by the page's button |
| `OpenSheet`, `MethodSubmit` | a wallet's own button opens its window; `handleOnSubmit` when it is confirmed there |
| `...PlaceFails`, `...PlaceDone` | the answer of the framework's `placeOrderAction` |
| `...Status`, `...StatusFails`, `PosPay`, `PosPayFails` | the answer of `getOrderPaymentStatus`, of `posPayment` |
| `CardAction`, `VaultAction`, `RenderAction`, `RenderPopup` | the action is mounted: in a dialog, a window, or the browser is redirected |
| `...Report`, `MethodCancel`, `PaypalError` | `handleOnAdditionalDetails`, `handleOnCancel`, PayPal's `handleOnError`: the call `paymentDetails` |
| `...DetailsDone`, `...DetailsFails` | its answer |
| `MethodError`, `MethodErrorIdle`, `AmazonRemount`, `AmazonDecline`, `Redirect` | the component's other callbacks |

### Fairness

`FairSpec`: the payment methods are answered or their call fails, and *some* call that is under
way is answered or some component's callback comes. The framework's storage has
a timeout, and a challenge expires. Nothing is assumed of the shopper.

### Bounds

`MCStorefront` takes pages of two renderers: new and stored cards, and a terminal
with each of the others, since a terminal's button looks at no flag and thus
meets every gap of the others' cover. `MaxAttempts` is 2: the attempt that goes wrong and the one that
comes of it. `MaxChallenges` is 1: an action after an action. `MaxBuilds` is 2 for
Amazon Pay, which builds its component by force while another build is pending.
Two scripts, a stored card's and a method's, may be loaded late
(`Latecomers`): one of each kind that stops a loader. `PosOrder` is TRUE: the terminal is used after the order was placed (the other
setting is covered by the proof). All faults of `FaultKinds` are on.

### What it shows

* The success page follows only an accepted payment (`SuccessEarned`), for new and
  stored cards and terminals; the other methods lead there after any answer of the
  details call, a pending one included (`adyen-pm-method.js:242`).
* While an attempt is under way no other begins, and the shopper pays once
  (`SingleAttempt`, `PaidOnce`), and each details call is about the renderer's own
  order (`DetailsOfOwnOrder`), although loaders are stopped that were not
  started. Excepted are pages with an attempt in a window of its own or by a
  redirect, which really leaves the page free (`Loose`): as soon as one exists, others
  can begin beside it, and these can be any renderer's. Excepted, too, is a page that was
  *crossed*: a wallet's window that is confirmed or fails (`adyen-pm-method.js:218`, `:147`), or a
  script that is loaded late (`:77`, `adyen-cc-vault-method.js:79`), while the page was covered.
  These look at nothing: with the exception left out TLC finds two attempts at once, and a second payment.
* Every way to end an attempt gives the page back, and in time (`CoverExplained`,
  `ButtonRestored`, `CoverLifts`).

Seen on the way, and part of the model: stored cards are preselected by comparing
with the code of new cards (`adyen-cc-vault-method.js:111`); the validity of a stored
card's form is remembered when the form is built anew (`:214`).

## Giftcards

State: the server's `rows`, `total` and `cart`; the page's `redeemed`, `balance`,
`summary`, the controls `canAdd`, `picking`, `single`, `offered` (the four observables that
show or hide buttons), the mounted `component`, the `loader`; the `calls` under way, an
unordered set. `latest`, `told`, `due` and `disturbed` are history: the list
that is shown, the list the summary is of, the list that was asked for last, and which faults there
were. `due` is undefined once a placed order has deleted rows, or an answer after which a list
is asked for was lost: no list is asked for then.

Actions: `Handle` is the server's part of a call and `Answer` the page's, so that
a call may be handled before another and answered after it. A payment deletes all rows of the quote
(`Gateway/Response/StateDataHandler.php`, in the chain of the gateway's handlers), also when its order
then needs an action or could not be placed (`RowsLeft`). `ChangeTotal`,
`AddNewGiftcard`, `RemoveSingleGiftcard`, `CheckBalance`, `PlaceOrder`, `RemoveGiftcard`,
`GiftcardOnSelect` are the shopper's clicks, the others the continuations of calls, each named
for its function or for the call it continues.

Fairness: some call that is under way is handled, answered, or fails.

Bounds: two cards, neither of which covers the higher total alone, one with a transaction
limit below its balance; rows of an earlier visit; six calls, after which the
shopper rests. Six are enough to redeem a card, remove it and change the total with
the lists of each still under way.

It shows that the order is offered to be paid by gift cards only when what is
redeemed covers it, that the summary tells what is redeemed, that no sequence of
steps leaves the shopper without a control to go on with, and that the loader
ends. `OfferBacked` and `SummaryMatches` hold once the list that was asked for last is shown. Until
then, when it got lost or was overtaken by the one before, and after a payment that deleted the
rows while the page stays (an action is not carried out here, an answer may be lost), the page
goes on offering and showing what it did: the code has nothing against it. `saveStateData` has no handler of a failure
(`adyen-giftcard-method.js:239`), `CanGoOn` leaves it out.

## Multishipping

State as in the table of the system; `isTemplateRendered` is an observable of the
*prototype*, one for all renderers of a kind. `waiting` are selections that subscribe to it,
`creating` those that wait for the library. `early` is history: methods selected before their own
template was rendered.

Actions: `SelectPaymentMethod`, `SetIsTemplateRendered`, `LibraryArrives` and `LibraryFails`,
`OnChange`, `Continue` (`_validatePaymentMethod`), `MethodsArrive`. `Initialized` is what
follows a resolved promise: the component is mounted, its data stored, the
listener of Continue replaced.

Fairness: templates are rendered, methods and libraries come or fail.

Bounds: up to three renderers of both kinds, so that two share an observable.

It shows that Continue validates the selected method whenever the page can be
used, in whatever order libraries come, and never another's; a method that was selected before its own
template was rendered may have no component to validate; that the hidden field holds the data of
a form that still has it (a card's is mounted anew and may be empty:
`DataCurrent` excepts it); and that a selection does not cover the page for
ever. Seen on the way: as the observable is shared, a selection goes on when the
template of *another* method is rendered and mounts into nothing, although comments
say that the component is mounted only if the template is rendered, and that the listener is assigned
when it is mounted (`multishipping/adyen-pm-method.js:45`, `:65`): without its exception `HandlerMatches` is
violated; and Continue accepts the state data of any method.

## CheckoutData

The functions of the page that tell the component and the server something:
the split of a street in both places that do it (`adyen-pm-method.js`,
`configHelper.js`), minor units and installments. They are operators; a small state
holds the street, the currency, the total in it and in the base currency, the settings and the card
form, whose installments depend on what was entered before (`BuildCard`, `OnBrand`). The reference
definitions are the server's: `Data::originalAmount`, and `InstallmentValidator` with the amount in the
charged currency (`ChargedCurrency::getQuoteAmountCurrency`). How the server takes a street apart
(`Helper/Address.php`, with other expressions) is left out.

A street is a sequence of lines, a line one of tokens, of which only the kind
counts that the regular expressions tell apart. Amounts are in thousandths. The instance has
streets of one to three lines with tokens of each kind, house number lines 0 to 2,
currencies of 0, 2 and 3 decimals and of those the two tables differ about, totals on both sides of an installment's
least amount, and every state is checked.

It shows that no token of a street is lost or used twice, that amounts survive the way to
minor units and back to within half a minor unit, and that what is offered is accepted. Amounts of IQD, MRO, BYR
and GHC do not survive: the tables of `currencyHelper.js` and `Data::originalAmount` differ. What
is offered by the total the page shows may be refused when the server charges less, be it that the charged
currency is the base currency, or that the cart has changed since (`OffersAccepted` excepts it).

## The runs

| run | instance | checks |
|---|---|---|
| `pipeline_inline` | one cron job, inline, killed at any point, orders in unhandled states, removal | `TypeOK`, `ErrorBudget`, `AppliedOnce`, refinement of `NotificationStatus` |
| `pipeline_duplicates` | two overlapping requests with common items | `AcceptedStored`, `AppliedOncePerItem` |
| `pipeline_queue` | one runner and two consumers, messages lost by crashes | `AppliedOnce` |
| `pipeline_timely` | the schedule of `etc/crontab.xml`, no faults, weak fairness | `SettledInTime`, `EventuallySettled` |
| `pipeline_reprocess` | an administrator reprocesses rows while cron works | `DoneExplained` |
| `order_partial` | three part-payments, one of them captured by hand, an expired offer, the closing of the order; processes killed anywhere with reprocessing, failing transactions; an order closed as failed after a part-payment; cancelled orders put on hold | `PaidInFull`, `PaidIsInvoiced`, `PaidNotCancelled`, refinement of `OrderLife` |
| `order_settles` | a payment of the whole that may be put under review, a refused attempt, an order closed as failed, a cancellation, the acceptance of a review; exceptions in handlers and saves, fairness | `InvoicedOnce`, `CancelIsFinal`, `PaidIsProcessed` |
| `storefront` | checkout pages of two methods, all faults, scripts loaded late, fairness | `TypeOK`, `SuccessEarned`, `SingleAttempt`, `PaidOnce`, `DetailsOfOwnOrder`, `CoverExplained`, `ButtonRestored`, `CoverLifts` |
| `giftcards` | two gift cards, a total that changes, lost answers, a library and icons that fail, fairness | `TypeOK`, `OfferBacked`, `SummaryMatches`, `CanGoOn`, `LoaderReleased` |
| `multishipping` | two or three methods, templates and libraries in any order, fairness | `HandlerMatches`, `DataCurrent`, `LoaderReleased` |
| `checkout_data` | all combinations of settings, streets, currencies, amounts and cards of the instance | `StreetKept`, `AmountRestored`, `OffersAccepted` |
| `finding_refused_attempt` | an authorisation captured by hand and a refused attempt | `PaidNotCancelled`, which is violated |

The type invariants of `WebhookOrder`, `Multishipping` and `CheckoutData` are proved
for every value of the constants, so no run repeats them.

`CHECK_DEADLOCK` stays on for `NotificationPipeline` (a minute can always pass,
or work is due) and for `CheckoutData`. It is off for `WebhookOrder`, which really
stops once all of a run's notifications were delivered and worked off, and for
the pages, which stop when the browser has left them, or stay covered.

What the runs of `NotificationPipeline` show:

* A single cron job is safe wherever it is killed: a row's changes reach the
  order at most once (a crash between the save of the order and the save of the
  row leaves the row *in progress*, which no later run loads), and the error budget
  is kept.
* The race of two requests does store duplicate rows (see below), but one
  cron job does not apply them twice: `Notification::isDuplicate(true)` looks
  again when the row's turn comes. This needs the removal to be off (the
  default, `etc/config.xml:37`) or its time to be far beyond the five days in
  which a row may be loaded; the run has it off.
* In queue mode a row is still applied at most once, since its flag keeps it
  from being published again, as long as one process publishes and the broker
  does not deliver again.

Limits found while the instances were chosen. Some of them differ from what a
comment says:

* "If notification is already saved ignore it" (`Controller/Webhook/Index.php:360`): check
  and insert are two accesses and the table has no unique key, so that two
  overlapping requests store the item twice.
* "Set processing=true to skip adding duplicate queue entries"
  (`Model/Queue/Notification/Publisher.php:39`): the flag is tested when a collection
  is loaded only, so that a cron job and a console command both queue the row.
* "see if there are any unprocessed ones that have been created more than 10
  minutes ago" (`Collection.php:28`): a row left in progress by an unhandled order state is
  not counted.

Others are no claims of the code: with two runners or a reprocessing administrator an
old copy of a row can take back `done` or an error count, and a row that was selected for removal may be
open again when it is deleted; a row left *in progress*, by a crash or by an unhandled order state, stays so until
an administrator follows the link the grid offers; in queue mode the
row is released before its error is recorded, so that it can be published with
the old count; a consumer does not look for duplicates again, so that duplicate
rows are both applied in queue mode; a row stays in progress for ever when
`publish` fails. The documentation (`README.md:91`, `Collection.php:44`) says that a
row waits two minutes; the code subtracts one, and the model has one.

What the runs of `WebhookOrder` show:

* An order goes into processing only when its payments add up, however often a
  notification is retried: the unique reference in `adyen_order_payment` and the
  swallowed exception keep an amount from being counted twice.
* A part-payment protects the order from a late OFFER_CLOSED, and an invoice
  protects it from ORDER_CLOSED and CANCELLATION. Nothing protects it from a
  refused attempt (finding below).
* A cancelled order stays cancelled, since an authorisation that arrives
  afterwards is ignored and never stored.

Limits, again found while the instances were chosen and no claims of the code;
the runs leave out the fault named, or the notification:

* An exception while the invoice is saved leaves the order's items registered
  as invoiced in the object, which is saved with the error comment, in processing
  when its pre-authorized status leads there: the retry makes no invoice, and the
  order goes into processing without one (`PaidIsInvoiced` is checked without the
  fault `invoice`).
* A process killed between the save of the invoice and that of the order, or
  two failing saves of the order in a row, lead to a second invoice when the
  row is processed again (`InvoicedOnce` is checked without `crash` and `comment`).
* Processing the notification that completed an order again (after a crash
  behind the save of the order) sets the order back to the status of
  *payment_pre_authorized* before it is finalized; when the transaction then
  fails it is saved like this. `order_partial` has this status unset.
* A refused attempt after an automatic capture does not cancel the order, which
  is invoiced, but moves it from processing back to new, and so does a review
  (both are left out of the run that checks `OrderLife`, and excepted in
  `PaidIsProcessed`).
* An order that was paid in full, but whose process was killed before the order
  was saved, can be cancelled, and MANUAL_REVIEW_ACCEPT then revives it, or moves
  it to processing without an invoice (`CancelIsFinal` is checked without the
  faults `crash` and `transaction`, `PaidIsInvoiced` without the acceptance).
* Payments that add up to more than the total (a gift card, then the full
  amount) never finalize the order.

What the runs of the pages show, and the limits met there, is told with
[Storefront](#storefront), [Giftcards](#giftcards), [Multishipping](#multishipping) and
[CheckoutData](#checkoutdata).

## Findings

A finding is a claim of a comment or a document about the code that TLC refutes.

| run | claim | what the code does |
|---|---|---|
| `finding_refused_attempt` | the delay of ten minutes is "to ensure they won't close any order which has an AUTHORISED notification arrived a bit later" (`Model/Notification.php:88-91`), and an order whose previous event was `AUTHORISATION : TRUE` is not cancelled (`AuthorisationWebhookHandler.php:170-173`) | the event compared was just replaced by the refused attempt's own (`Webhook.php:318`): with manual capture the refused attempt cancels the authorised order |

## Proofs

Every invariant and action property that a run checks, and both refinements, are
proved, all but liveness; what a theorem assumes of the constants is in its table. Each assumption
is named in the module of the theorem and met by the instance of the run that checks the
property.

`NotificationPipeline_proofs` proves for any numbers of rows, items, requests
and consumers, any ages and any error budget:

| theorem | says | assumes |
|---|---|---|
| `TypeCorrect` | `TypeOK` | nothing |
| `AcceptedAreStored` | `AcceptedStored` | nothing |
| `ErrorsAreBounded` | `ErrorBudget` | `OneRunner` |
| `NeverAppliedTwice` | `AppliedOnce` | `OneRunner` |
| `QueuedAreAppliedOnce` | `AppliedOnce` | `OneQueue` |
| `StatusIsImplemented` | the pipeline implements `NotificationStatus` | `OneRunner` |
| `AppliedOnceEach` | `AppliedOncePerItem` | `OneRunner`, `NoCrash`, `RowsStay`, `OriginalsTold` |
| `ProcessedForAReason` | `DoneExplained` | `NoCrash` |
| `SettledByTheDeadline` | `SettledInTime` | `OneRunner`, `OnTime`, `DuplicatesStay` |

* `OneRunner`: the queue is off, no administrator reprocesses, and a single
  process runs `WebhookProcessor` (what `etc/crontab.xml` sets up by default).
  The limits above show that it is needed.
* `OneQueue`: the queue is on, a single process publishes, nobody reprocesses, and the
  broker does not deliver a message again. Any number of consumers, any of them killed.
* `NoCrash`: no process is killed. A row whose order was saved by a killed process is
  left in progress, and its duplicate is processed; a process killed between its two saves
  leaves a row done, and no error that tells why.
* `RowsStay`: the removal is off, or later than the model's ages.
* `OriginalsTold`: of two items each is a duplicate of the other, or neither is
  (the event code, reference and success of both are compared, and the original
  reference when there is one).
* `OnTime`: each minute's work is done in the minute, nothing is killed or
  unhandled, and from the age at which an item is first processed
  there is time for `MaxErrors` attempts until `MaxAge`.
* `DuplicatesStay`: a processed duplicate settles a row only as long as it is there.
  Either rows stay, or there is no duplicate, since requests come one by one.

**Types.** `TypeOK` is not inductive: a step of `processNotification` needs
that its process holds an object. `TypeInv` adds `HoldsObject`.

**Accepted items.** `RequestInv` says that every item of a request in progress
is still to do or stored. It is kept because a row's item never changes and
rows are never freed (`RowsKept`, `StepKeepsRows`).

**One runner.** The properties are not inductive, since the table is written
from copies. `SoleInv` says that the copies are right: everybody but the runner
is idle (`OthersIdle`); an object still in the batch equals its row, which is
neither done nor in progress (`BatchInv`); the object being worked on agrees
with its row as far as its next save leaves columns out (`ObjInv`); a row that
is not in progress and not done was not applied, one that was applied is in
progress or done, and its errors stay within the budget (`RowInv`); rows
selected for deletion are done and stay so (`DoomedInv`). The lemma
`WriteThrough` says that under these conditions a save of a copy writes what a
save of the whole row would have written. `SoleStep` goes through the actions.

**Steps.** The refinement follows from
a classification of steps, `RowStep`: every step keeps all rows' columns, or
lets one row arrive, or works on one row in one of the allowed ways, or removes
processed rows.

**Duplicates.** `ItemInv` adds that a row that changed its order is done or about to be
marked, and that while a row is between its check and its save no duplicate of it is done. The
check is in the step that takes the row from the batch, and a single runner does not finish another
row in between.

**The queue.** A consumer releases the row before it counts the error, so that the row may be
published again while the first consumer still holds an object of it. `QueueInv` says
why this does no harm: a row has at most one copy *that may still be
applied* (`LoneCopies`: in the batch, in a message, or with a worker up to its claim); the row of a
copy that was published is in progress (`CopiesInv`), so that no run loads it again;
a row that was applied has no such copy, and is in progress or done (`AppliedInv`); and an
object whose error is being counted was saved just before, so that this save
does not write `processing`, and `done` only to set it. `QueueWrite` and `QueueDrop` treat all steps of a worker
that saves its row, or lets go of it.

**A reason to be done.** Any processes may run here, in any mode. `ExplainInv` says
that an object that was never saved writes every column, so that it cannot set `done` alone; that an
object past its order belongs to an applied row; and that a done row was applied, has an error
counted, or has a process that is about to count it. The proof failed at first,
at `SetNotificationError`: the model left the column `errors` alone when the
count stood at the bound `ErrorCap`, whereas the real count has no bound and is
always written. The model now writes it always.

**The deadline.** `TimeInv` has three parts: duplicates stay (`StayInv`); when a minute's run is
still to come the runner is idle, and only the row it works on is in progress (`ScheduleInv`); and a
row that is not settled is no older than the errors it has collected allow, and younger by a minute
once the minute's run has passed it (`BudgetInv`).

`WebhookOrder_proofs` proves for any finite set of notifications, any amounts, settings
and error budget:

| theorem | says | assumes |
|---|---|---|
| `TypeCorrect` | `TypeOK` | nothing |
| `InvoicedAtMostOnce` | `InvoicedOnce` | `NeverKilled`: no process is killed, and the order can be saved with the error's comment |
| `OnlyPaidInFull` | `PaidInFull` | `ReviewsWait`: no review is accepted where the accepted status is *payment authorized* |
| `ProcessedIsInvoiced` | `PaidIsInvoiced` | `InvoicesMade`: the invoice can be saved, and no review is accepted |
| `PaidStays` | `PaidNotCancelled` | `CancelsUnpaid`: a refused attempt, a cancellation or an order closed as failed does not come with payments of the whole total |
| `CancelledForGood` | `CancelIsFinal` | `NothingRevived`: accepted reviews are of payments captured by hand, or all are captured automatically, no handler is killed or stopped before the invoice, and the total is not zero |
| `OrderLives` | the order implements `OrderLife` | `PlainPayments`: no attempt is refused or reviewed, the invoice can be saved, no status for authorised orders is set |

The limits above tell what happens without most of them. Without `ReviewsWait` an accepted
review calls an order authorised that still waits for the rest of its payments; without
`CancelsUnpaid` a refused attempt cancels a paid order, which is the [finding](#findings).

**Sums.** The properties compare the total with a sum over the stored payments, a fold.
`FiniteSums` proves what a fold over a finite set computes: `SumIsFold` takes it to a recursive
function on the subsets, and `FiniteInduction`, an induction with the predicate given as a set,
gives what adding or removing an element does to the sum. `PaymentInv` says that every payment stored was
notified, and is stored once under its reference, so that the sum can only grow by a new payment.

**One invoice.** `InvoicedOnce` is not inductive, since the invoice is stored
before the order knows of it. `InvoiceInv` says that an invoice is known to the
order or to the object that is about to be saved, and that an object knows what
its order knows; `CanInvoice` then refuses a second one. The first part is what
a killed process breaks.

**Paid in full, and invoiced.** `FullInv` extends the claim from the order to the
object, and to an object that the framework's next save moves to processing (`inProcess`), and
to the handler that has found the payments complete. `InvoicesInv` does so for
invoices; it needs `OpenInv`, that a payment is not worked on with a cancelled or
held order.

**Not cancelled.** `GoneInv` says that as long as only notifications came that leave an order with a
payment alone (`Keeps`), an order or object that is cancelled or held has no payment stored.
When another one comes, `CancelsUnpaid` bounds what the payments can add up to.

**Cancelled for good.** `CancelInv` says that the object is cancelled when its
order is, and that no payment is recorded then. Only an accepted review could take it
further. When the reviewed payment is captured automatically `PaidInv` is needed: an order paid
in full is invoiced, and thereby can no longer be cancelled, so that a cancelled
order is never found paid in full.

**The order's life.** `LifeInv` says that the object worked on is as far as its order is, and
that both have an invoice and a payment when they are in processing. Every
step then leaves the order's status or goes on from *Open*.

`Storefront_proofs` and `StorefrontCover_proofs` prove, for any renderers and pages, any numbers
of attempts, builds and challenges, both settings of the terminal and all faults:

| theorem | says | assumes |
|---|---|---|
| `SuccessIsEarned` | `SuccessEarned` | nothing |
| `TypeCorrect` | `TypeOK` | nothing |
| `StepsHaveShapes` | every step is of one of six shapes | nothing |
| `OneAtATime` | `SingleAttempt` | nothing |
| `PaysOnce` | `PaidOnce` | nothing |
| `OwnDetails` | `DetailsOfOwnOrder` | nothing |
| `CoverIsExplained` | `CoverExplained` | nothing |
| `ButtonsReturn` | `ButtonRestored` | nothing |

**Success.** The invariant is `AttemptsTyped /\ SuccessEarned`: an attempt's order is one that the
server may have answered with. Each of the server's answers gets a lemma
(`PlaceOutcomesType`, `DetailsOutcomesType`, `PosOutcomesType`: an answer that is no
error is final or open), and a step concerns the attempts in one of four ways, each a lemma: it
leaves them (`Rests`), begins one, moves one on, or lands.

**Shapes.** The four renderers have some forty actions, but to loaders, dialogs, buttons and
attempts each does one of six things: it leaves them alone (`Looks`), stops loaders
without looking (`Stops`, which crosses a covered page), asks for the payment methods
(`Asks`), receives them (`Arrives`), begins an attempt (`Starts`), or moves one
attempt to its next phase (`Turns`) with the stops of the loader, the dialog and the button that belong to
the two phases. One lemma per action shows its shape; everything else is proved from
the shapes.

**One attempt at a time.** The code has no such rule; it follows from what covers the page. `SingleInv`
says that an attempt has two loaders while its order is placed, one while its status
is asked, and a dialog while its action is shown, that at most one is under way, and none
while the methods are asked for. A loader that is stopped without having been started
must not take one away from an attempt: this is where *none while the methods
are asked for* is needed. It holds as long as the page was not crossed and no attempt leaves it
free (`Tight`), and `PhaseInv` says which can. `PaidInv` (a paid order has closed the cart) and `OwnInv` (a
renderer remembers the order of its attempt) are proved under the same condition.

**The cover lifts.** `CoverInv` says that the loader was not started more often than the calls under
way account for, as a sum over the attempts of a weight for their phase (`FiniteSums`
again), and that a dialog belongs to an attempt that shows one. `ButtonInv` says
that a button that may not be used waits for an attempt of a renderer that shares it.

`Giftcards_proofs` proves for any cards, balances, limits, totals, rows of earlier
visits and number of calls:

| theorem | says | assumes |
|---|---|---|
| `TypeCorrect` | `TypeOK` | nothing |
| `OfferIsBacked` | `OfferBacked` | nothing |
| `SummaryIsTrue` | `SummaryMatches` | nothing |
| `NeverStuck` | `CanGoOn` | nothing |

Calls are numbered as they are made (`NumbersInv`). `ListInv` says that, when no change is under way,
the list that is due is made of the rows and the total of now, be it still to come or
shown, unless none is due. Why this is kept: every change is answered by a call for a new list, later
than all the others. `GoOnInv` says that a control is shown, or an answer that brings one is under way.

`Multishipping_proofs` proves for any methods:

| theorem | says | assumes |
|---|---|---|
| `TypeCorrect` | `TypeOK` | finitely many methods |
| `HandlerIsSelected` | `HandlerMatches` | the same |
| `DataIsCurrent` | `DataCurrent` | the same |

`HandlerMatches` is not inductive: why should the library that comes be that of the
selected method? `OneSelection` says that a selection that waits is the selected one, is the only one,
and is covered by exactly one loader, so that no other can be made before
it is there; and that the handler is the selected method's when nothing waits, or none's if it was selected early. `Unrendered` and
`Components` say that nothing is built before a template of its kind is rendered, and that
there is no form without a component.

`CheckoutData_proofs` proves for any streets, terms, totals and settings:

| theorem | says | assumes |
|---|---|---|
| `TypeCorrect` | `TypeOK` | nothing |
| `OffersAreAccepted` | `OffersAccepted` | nothing |
| `StreetsKept` | `StreetKept` | nothing |
| `AmountsSurvive` | `AmountRestored` | nothing |

`PlansOfType` is the invariant behind the second: the installments shown are the plans
of the present card type for the total they were offered for, or none. A charged total that is no
less meets the least amount of each. `StreetsKept` says of streets
of any number of lines that splitting them loses no token and uses none twice. It is about
`FlattenSeq`, which is recursive: lemmas show by induction over the number of lines what it
computes (`FlattenAppend`, `FlattenConcat`) and thus how often a token occurs in it (`CountConcat`);
`RegexKeeps` and `RemovedLineKeeps` then treat the two ways a house number is taken.
`StreetsKept` and `AmountsSurvive` are about functions of the state alone.

The modules declare what the proofs need of the constants: notifications are
finitely many and the total is a number (`NotesAssumption`), as are the rows of earlier
visits (`GiftcardAssumption`) and the renderers of a page (`PageAssumption`), and `NoObj`, which
stands for *no object*, is none (`NoObjAssumption`).

## Only model-checked

* Liveness (`EventuallySettled`, `PaidIsProcessed`, `CoverLifts`, both `LoaderReleased`), which
  depends on fairness, out of reach of the prover.
* That the claim of `finding_refused_attempt` is refuted, by its nature.

## Not modelled

Of the page: the scripts that only add fields to a component's configuration
(Affirm, boleto, Facily Pay, RatePay), the validators and agreements, names,
gender and other personal data, titles and icons, the combo card and the wish to
store a card, the installments of stored cards and terminals, the routes and
parameters of requests, Amazon Pay's address details, the amount of a balance check. The component
library, the framework's loader, and `mage/storage` are external and modelled by
what the scripts rely on.

Authentication, IP and HMAC checks of a request are one choice (`Refuse`). Test notifications of Adyen's
customer area are stored like others, and an item with a field `done` (`Controller/Webhook/Index.php:326`),
of which Adyen sends none, is left out. In `WebhookOrder` the states *complete* and *closed* (shipments
and credit memos lead to them), changes by the shop's staff, the sort order of
payments, the failure count of pay-by-link orders and mails are left out, and
the settings of order states are constants. Formatting, logging, e-mail, rendering and settings are left
out. Parts of the system without a module are listed with the reason in
`PROJECT.json`.

## Plan

Done: `NotificationPipeline` and `NotificationStatus`; `WebhookOrder` and
`OrderLife` as far as authorisations, cancellations and reviews go; the pages of
the storefront. What is left, in this order:

1. `ManualCapture`: the capture gateway, `InvoiceObserver` and the CAPTURE
   notification, which may overtake each other. Abstract specification: an
   invoice is open, then captured. Properties: captured never exceeds
   authorised; an invoice is paid only when its captures succeeded.
2. `Refund`: credit memos online and by notification. Properties: refunded
   never exceeds captured; a retried notification refunds once.
3. `PaymentFlow`: gift cards charged one after the other, the payment call, the return page
   against the webhook; `StorefrontPage`'s answers are its abstract specification.
   Properties: no charge without an order or its reversal.
4. MANUAL_REVIEW_REJECT and the dispute handlers in `WebhookOrder`.
5. Small ones: `RateLimiter`, `IpAddressCache`, the clean-up of `StateData`, `PayByLink`,
   `WebhookContext` (fields of `Helper/Webhook` that outlive a notification).
