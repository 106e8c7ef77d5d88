# Radif in TLA+

Radif is an order helper for shops that sell in direct messages: an operator creates an
order, the customer opens a secret link, enters an address and uploads a picture of the
bank receipt, and the operator brings the order through payment, preparation and
shipping. The program is one Go process (echo, gorm) with PostgreSQL at READ COMMITTED
and a directory of image files, and a React front end. There is no queue and no cache:
what is hard in the server lies in the steps between a read without a lock, a file
operation and a transaction, in retries of requests whose answer was lost, and in a
background cleanup that works on the same rows as everybody else. What is hard in the
browser lies in handlers that run on after the page, the shop, the order or the session
they were started for has gone, in what is kept in the browser's storage over a failure,
and in answers that arrive in another order than they were asked for.

This directory holds TLA+ models of that program, the TLC configurations that check them
on small instances, and proofs, checked by TLAPS, that their safety, action and refinement
properties hold for every value of the constants. Paths below are relative to the root of the
repository.

## How to run

    tlc -config OrderLifecycle_one.cfg MCOrderLifecycle      # and so on, see "Runs"
    tlapm OrderLifecycle_proofs.tla                          # and the other *_proofs;
                                                             # MCForms_proofs and
                                                             # MCOrderPages_proofs take minutes

## The system: inventory

| Component | State it keeps | Operations | What is hard |
| --- | --- | --- | --- |
| Order lifecycle (`orders.go`, `customer.go`, `installment_payments.go`) | order row, status history, customer link token | update, rotate link, request and confirm the final payment, submit details, submit final receipt | two customer requests, the operator and the cleanup meet on one row; customer handlers read before they lock |
| Stale-order cancellation (`orders.go`, `main.go`) | one transaction over many orders | read candidates, update one by one, commit, hourly | the list is stale when used; one failure rolls all back; it must still finish some day |
| Order creation (`orders.go`, `historical_orders.go`) | creation key and fingerprint in the order row | create, import | lookup, transaction and second lookup are separate; identical and different requests race under a key; retries follow crashes |
| Receipt storage (`images.go`, used by three handlers) | temporary and final files | prepare, commit (rename), discard | the file system is not part of the transaction |
| Products, their images, logos (`products.go`, `auth.go`) | rows and image files | create, update, archive, activate, upload a logo | a file is replaced, the old one removed after the commit; logos without a lock |
| Payment cards (`payment_cards.go`) | cards; the active one repeated in the shop's row | add, update, activate | the copy stays equal to the card under concurrent changes |
| Login limiter (`auth.go`) | failures per address, in memory | allow, fail, clear | separate critical sections around a slow password check |
| Codes, signup, password reset, first shop (`password_auth.go`, `signup.go`) with `LoginPage.tsx` | challenges, accounts, sessions, shops; the form's steps | identify, issue, verify, log in, sign up, reset, create the shop | one code and one trial under concurrent and repeated requests; a form of several requests each of which may fail |
| Subscriptions (`subscriptions.go`) | trial and paid-through dates of a shop | `shopSubscription`, two middlewares | checked before the transaction of the handler behind them |
| Session in the browser (`App.tsx`, `AdminApp.tsx`, `AccountPage.tsx`) | "loading", "guest" or "ready" with a copy of the admin's shops | session check, login, logout, switch of shop, settings | answers merge into the copy they were rendered with |
| Product pages (`ProductsPage.tsx`, `ProductFormPage.tsx`) | list, form, image editor | archive, restore, add, change, crop | a list read before a change arrives after it; crops that were given up |
| Creation form (`CreateOrderPage.tsx`, `DeliveryDateSelect.tsx`, `components.tsx`, `shared.ts`) | creation key in session storage, fields, created order | edit, submit, retry, correct the date, create another | the key must survive exactly the failures after which the order may exist; fields that follow one another |
| Form for existing orders (`HistoricalOrderPage.tsx`) | key, form, review, image | fill, prepare the image, review, submit, reset | an image is prepared in the background |
| Customer page (`PublicOrderPage.tsx`) | order as last told, draft in local storage | load, type, choose an image, submit, pay the rest, copy | draft, form and order in different places, several tabs, never asks again |
| Operator's order page (`AdminOrderPage.tsx`) | record as last told, fields of its forms | load, edit, save, rotate the link, final payment, copy | the history changes the route under the mounted page |
| Order list (`orders.go`, `OrdersPage.tsx`) | address, list, pages | search, filter, sort, further pages | answers of older questions; pages by offset |
| Report (`reports.go`, `ReportPage.tsx`) | none; the page's report | three queries | no transaction around them |
| Pilot events, start-up, migrations, seed, scripts, landing page | event rows; none | record; run once | see "Not modelled" |

They meet in the database: the cleanup and the operator through the row locks of an
order and, because every event row refers to its shop, of the shop; creation and
subscriptions through the shop row; creation and the browser through the creation key;
all uploads through the order row they lock and the file they own. In the browser the
pages meet in `AdminApp`, which shows one page at a time and keeps the navigation guard,
and in the storage the tabs share.

## Modules

| Module | What it models |
| --- | --- |
| `OrderLifecycle` | orders, histories, links, the split payment, both customer uploads, the cleanup |
| `OrderCreation` | the keyed creation protocol of a new order and of an import, step by step |
| `OnceByKey` | what order creation promises to its callers; `OrderCreation` implements it |
| `ReceiptUpload` | the receipt file against the row that names it, for the three handlers that store one |
| `ProductImages` | images that are replaced: products under a lock, logos without one |
| `PaymentCards` | the cards of a shop and the copy of the active one |
| `LoginLimiter` | the limiter for one address: asked, told and cleared in separate sections |
| `LoginFlow` | the login page in several tabs over codes, accounts, sessions and the first shop |
| `AdminSession` | the session the browser keeps and the settings page that edits its copy of the shops |
| `ProductPages` | the list of products, the form and the image editor over the stored catalogue |
| `CreateOrderPage` | the creation key over failures, tabs and navigation, the created page |
| `OrderDraft` | the fields of the creation form and the body they come to |
| `ImportOrderForm` | the form for existing orders with its review and its image picker |
| `CustomerPage` | the customer's page of one order in the tabs of one device |
| `OrderWorkbench` | the operator's page of an order, along the browser's history |
| `OrderList` | the list of orders over search, filter, sort and pages of the server |
| `ShopReport` | the report's three queries while orders change, and its page |
| `MC...` | instances for TLC |
| `..._proofs` | theorems of the module of that name; `MCShop_proofs`, `MCLogin_proofs`, `MCForms_proofs` and `MCOrderPages_proofs` have those of all the models they compose, and of the compositions |

The server's models cut the program along its transactions. `OrderLifecycle` takes a
creation as one step (its commit) and an image as a name; `OrderCreation` opens the
creation up and treats the order as a body that is compared as a whole; `ReceiptUpload`
opens the upload up and keeps of the order only the place where its receipt is recorded.
What one model assumes another shows: that a key makes one order and a token is fresh is
the guard of `CreateOrder` in the first and a theorem of the second; that an accepted
upload has its file is a theorem of the third. The browser's models hold the page in
full and of the server only what the page depends on: `CreateOrderPage` and
`ImportOrderForm` stand on the promise of `OnceByKey`, `CustomerPage` and
`OrderWorkbench` on the checks of `OrderLifecycle`.

`MCShop`, `MCLogin`, `MCForms` and `MCOrderPages` each hold several of these models and
check them in one run. They are sums, not products: `part` is chosen in the initial state
and only that part ever takes a step. Where a model is explored for two kinds of operator
or of order, the kind is a variable that is chosen at the beginning and never changes
(`careful` in `CreateOrderPage`, `patient` in `ProductPages`, `split` in `CustomerPage`);
`OrderWorkbench` is instantiated once, with a parameter: `Bench(c)` is the page of an
order in setting `c`, a record with the values of its constants, so that the theorems of
`MCOrderPages_proofs` are about any set of settings and the run about three. The sums lose
nothing, because the parts share no state but the database rows each of them already has
steps of others for, and `AdminApp` mounts one page at a time; what does cross from page
to page (the guard, the storage, the shop that is chosen, late answers) is in the models
of the pages. Their properties are conjunctions of the properties of their parts, which
the modules state one by one.

Definitions marked "Variant" are used by no specification: each is the mutated form of
the definition after it, kept here to show which mistake in the code each property would
notice.

### OrderLifecycle

*State and code.* `order[o]` is the committed row: status, `secret_token`, whether
`initial_payment_amount`, `customer_submitted_at`, `final_payment_requested_at` and
`final_payment_confirmed_at` are set, and both receipt paths, an upload standing for the
name of its file. `history[o]` are its `order_status_histories` rows in the order the
pages show. `upload[u]` is one multipart request; `sweep` is the cleanup's open
transaction: candidates not yet reached, and rows updated and not yet committed.

*Steps.* An operator handler locks order and shop with its first statement, checks and
writes in the same transaction and is one action: `UpdateOrder`, `RotateCustomerLink`,
`RequestFinalPayment`, `ConfirmFinalPayment`. A customer handler is two:
`ReadPublicOrder` is the read by token (and the early 409 of `submitCustomerDetails`),
after which the image is stored; the transaction then locks by id and token and is
`SubmitCustomerDetails`, `SubmitFinalReceipt` or `RefuseUpload`. A commit that carries a
receipt is `accepted` or, if the client is told of an error or of nothing although
PostgreSQL has committed, `unheard`; `FailUpload` is the error that rolls back. The
other transactions keep no trace of what was answered, so there a commit that is not
heard is the same step. The cleanup is
`StartSweep`, a `SweepOrder` for each candidate, and `CommitSweep` or `AbortSweep`.
Between its conditional update and its commit it holds the row lock of the order and,
through the foreign key of the event it inserts, a key-share lock on the shop:
`OrderFree` keeps customers away from such an order, `ShopFree` keeps operators away
from all orders of the shop, because their `FOR UPDATE` on the join locks the shop row,
too. Candidates are taken in any order: the query has no ORDER BY. A deadlock victim is
one of the failures.

*Left out.* The descriptive fields `updateOrder` edits (dates, tracking code, notes,
customer corrections), which none of these handlers' guards reads; the payment-profile
snapshots; events, except as rows whose insertion can fail; the subscription check in
front of operator routes. A request refused before it changes anything is not a step.
`final_payment` idempotence (a second request or confirmation answers 200 and changes
nothing) is therefore also not a step.

*Properties.* `StatusCoherent`: status and customer record agree.
`HistoryExplainsStatus`: the history is a chain that starts at the creation and ends at
the current status, although three handlers append to it and the cleanup writes a
constant as the previous status. `OnlyOperatorsDecide`: without an admin only
`waiting_info` is left, for `waiting_payment` or `cancelled`. `FinalPaymentChain`:
confirmation, final receipt, request and first payment rest on each other.
`AcceptedIsRecorded`: what was answered with success is recorded, and what is recorded
was answered with success or is a commit that was not heard of.
`SweepHoldsOnlyUnsubmitted`: nobody gets between the cleanup's update and its commit.
`PaymentFactsPermanent`, `OldLinkPowerless`, `CancelledIsClosed` say what a step may
never do. `StaleEventuallyResolved` and `UploadsAnswered` are the liveness properties.

A remark on `FinalPaymentChain`: the history may hold "paid" from before the customer
submitted anything (an operator can set any status by hand), so "paid at some time" is
all that `requestFinalPayment` establishes, and all that is claimed.

### OrderCreation and OnceByKey

*State and code.* `orders` are the committed rows with key, fingerprint (the whole
`body`) and the request that inserted them. `request[q]` is one POST: its input and how
far its handler is. `day` is the date in Tehran, `sellable` the bodies whose shop is
active and paid for and whose products are active.

*Steps.* `Receive` (validation up to the date check), `LookUp` (the key, joined with the
admin's shops), `LockShop` (`lockedActiveShop` and the products), `Insert` (ON CONFLICT
DO NOTHING: it waits for an uncommitted row with its key, then inserts or loses),
`Commit`, `Respond`, and `LookUpAgain` for the loser. `Fail` is an error before the
commit, `CommitUnheard` a commit whose answer is lost, `Crash` the end of the process; a
retry is simply another request. `Midnight` and `ShopChanges` go on meanwhile. An import
differs in that its date is not compared with today. The validation of fields, amounts
and items has no effect but 400 and is left out.

*Promise.* `OnceByKey` says what a caller may rely on without a word about locks,
conflicts, failures or days: only a pending request whose key is free makes an order,
and a request is granted only the order of its own key and contents. `KeepsPromise` is
refinement under the mapping `Outcome`.

*Properties.* `OneOrderPerKey`, `CreatedIsRecorded` (retries agree, changed data is
never passed off as created), `OwnShopsOnly` (keys are shared by all shops, orders are
not), `TakenByAnother` (409 is only said where it is true, so the loser of two identical
requests gets the winner's order), `RepeatedIsGranted` (a retry does not fail for the
subscription, the products or the key).

### ReceiptUpload

*State and code.* `recorded[s]` is the receipt path of a place: a receipt column of an
existing order, or the keyed order an import is about to make. `temporary` and `stored`
are the files by the upload that owns them; names are random, so no two uploads share
one. `upload[u]` is the request.

*Steps.* `Read`, `Store` and `Examine` (`prepareImage`), then for the two customer
handlers `Lock`, `Rename`, `Write`, `Commit`, and for an import, which holds nothing
until its insertion, `Rename`, `Write`, `Commit`. An error sends the request to
`Discard`, the deferred removal of both names. `CommitUnheard` is the commit that
succeeds while `db.Transaction` returns an error, and `Crash` forgets all transactions
and no file.

*Properties.* `AcceptedIsStored`, `MissingOnlyUnheard` (the only way a record loses its
file), `FilesAccounted` (nothing is left behind but by a crash), `NeverReplaced`,
`UploadsEnd`.

### LoginLimiter

*State and code.* `attempt` is the entry of one address in the limiter's map, `log` the
failures since the last success, which the code does not keep. `Allow`, `Fail` and the
clearing after a success each take the mutex by themselves, so any number of requests
may be between asking and telling; verifying a code only tells (`Verify`). `Tick` is the
clock, `Restart` the end of the process, with which the map is gone.

*Properties.* `BlockJustified`: who is blocked has failed as often as the limit says
within one window, with no success among the failures. It needs `EntryMatchesLog`, what
the entry counts in terms of the log. That a late failure can drop a block that is in
force (it opens a new window, `auth.go:74`) does not contradict either; it is how the
code works.

### LoginFlow

*State and code.* `password`, `shops`, `challenges` are the rows of the accounts, `used`
says of each code that was sent to the phone how often it was accepted, `cookie` the browser's session, `tab[t]` one login
page: its step, its fields, and whether a task is pending. A task of the form is a chain
of requests (verify, then create the account, then `me`, then the shop): `GoOn` sends
the next one, `Finish` ends it, an error of any link sends the form where
`StepAfterError` says. `issue` sends the message before it stores the challenge, so a
failure in between leaves the person with a code that is unknown. Verification and the
shop's creation take their row locks as steps of their own (`TakeChallenge`,
`LockAdmin`). Wrong codes change nothing: the increment of the counter
(`password_auth.go:150`) is rolled back by the error the same transaction returns.

*Properties.* `CodeUsedOnce`, `OneTrial`, `StepFits` (what the form asks for suits the
account it names) and, as liveness, that no task stays pending.

### PaymentCards

*State and code.* `card` and `shop` are the rows, `req` the handlers. Changing and
activating lock the shop's row, read both rows and write; adding locks nothing.
`ActiveMirrored`: the payment details in the shop's row, which orders copy, are those of
the card with its number.

### ProductImages

Like `ReceiptUpload`, for images that have a predecessor: `old` is what the row named
when it was locked (a product) or when the middleware read it (a logo), and `RemoveOld`
comes after the commit. `MissingOnlyUnheard`: a row's file is there but for a commit
whose answer was lost. `ProductFilesAccounted`: no image of a product is left but by a
crash or such a commit. For logos that does not hold, see "Disagreements".

### AdminSession

*State and code.* `session` is the state of `App.tsx` with the copy `me`; `route`,
`shopID` and `page` the mounted page with its spinners; `row`, `live`, `cookie` the
server's side. A request carries the `me` and the shop its handler closed over, and
answers are `Deliver`ed in any order, to a page that may be another.

*Properties.* `CopyIsOwn`, whatever overlaps, is lost or is chosen meanwhile: the copy of
a shop shows nothing that was written to another shop, and its active card has a text.
`CopyCurrent`: once all is answered, and if no two requests overlapped and no answer was
lost, the copies are the shops the database has. The condition excludes a real case: two
answers that overlap are each merged into the `me` of their own sender, so one of the two
changes is missing from the copy until the next load, and a change made after a lost
answer is shown without the lost one. Nothing is shown that was not stored, which is what
`CopyIsOwn` says of that case. `PageBusy`: the page has at most one change of a card or of
the contacts in flight, whose spinner turns exactly while it is, and no other spinner
without a request. `LoadingEnds`.

### ProductPages

*State and code.* `rows` is the catalogue, `tab` the page: list or form, what it shows,
the image editor (`source`, `area`, `working`) and its flags. `wanted` is the image the
operator settled on last. *Properties.* `ListIsCatalogue`, `SentIsWanted`, and that
loading, saving and crops end.

### CreateOrderPage and OrderDraft

*State and code.* `storage[t]` is the key in a tab's `sessionStorage`, `page[t]` the
page with key, form, flags and the created order, `creating[t]` the guard of `AdminApp`.
`Open` reads or draws the key, `Submit` sends it, `CreateEnds` is the end of the
handler, whether the page is still there or not, `CorrectionEnds` the end of
`saveDeliveryDate`, which closes over the order it was called for. `OrderDraft` has the
fields: products, amount, split, first payment, the date and the working days it was
counted from, which follow one another until they are overridden, and days that pass
while the form is open.

*Properties.* `NoDuplicate` and `BusyWhilePending` for an operator who stays on the page
while it is busy (`careful`), `CreatedIsStored` for any. `KeyOutlives`: a step gives up a
key only when its order is stored. `SubmittedIsAcceptable`: the checks of the form are as
strict as those of the server, but for the number of distinct products (`FewItems`), which
only the server limits. `PromiseCounted`, `HalfFollowsProducts`.

### ImportOrderForm

The same key protocol with an image. `preparing` are the images being prepared; a
finished one is handed to the form even when its picker has gone. *Properties.*
`NoDuplicate`, `ReviewedIsStored`, `OwnReceipt`, and that the form does not stay pending.

### CustomerPage

*State and code.* `order` is the row, `storage` the device's draft, `tab[t]` a page. The
operator's steps are cut down to what the customer's checks depend on. "Try again" takes
the form and its picker away and mounts new ones; an image the old picker was preparing
(`late`) is still handed to the form when it is ready (`PreparedLate`), next to one the
new picker prepares. *Properties.* `AcceptedTogether`, `ShownIsRegistered`,
`DraftRecovered` (one tab), `AmountMatchesCard` (amount and card that are offered for
copying belong to one payment), and that loading, submission and the final receipt end.

### OrderWorkbench

*State and code.* `page` keeps the record and, apart from it, the fields of the forms; a
value is written with the order it was entered for, which the code cannot see. `Go` is a
step of the browser's history: the page stays mounted and asks for another order. The
answer of a load is dropped if the route has changed (the effect's abort), the answer of
a change is not.

*Properties.* `SavingMatches`, `ShippedIsWarned` and `OfferedIsGranted` for any operator,
`RecordIsOwn` for one who waits for what is being saved (`Patient`); that loading and
saving end for any operator.

### OrderList and ShopReport

`OrderList`: the address, the search that is asked for a render later, the list with its
ticket, requests for lists and further pages, and the server's filter, sorts and offset.
`ListExact`: while no order changes, what is shown is a prefix of the one listing that
is asked for, and "more" is offered exactly when there is more. `Before` is the ORDER BY
of a sort and `Listing` puts each order in the place that as many others come before as
there are places; that this is a sequence of all that match is a theorem (`ListSorted`).
Orders have an amount of their own (`Amount`), by which the fourth sort puts the largest
first; in the run two have the same, so that the creation date decides. The run cuts
orders into pages of one, where the code has 20; the proof is for any size.

`ShopReport`: three queries between which orders are created and change.
`PartsDriftApart`: the parts differ by no more than what changed meanwhile. `TopIsBest`:
the list of products is that of one moment.

## Runs

| Run | Instance | Shows |
| --- | --- | --- |
| `one` | 1 order, 2 tokens, 3 uploads, histories up to 4 entries; or 2 orders of a shop with one upload and 2 entries each; 1 failure; 854,512 states up to symmetry | all safety and action properties of `OrderLifecycle` |
| `live` | 1 order, 2 tokens, 2 uploads, 3 entries, 2 failures, fairness; 320,570 states | the liveness properties of `OrderLifecycle` |
| `race` | 2 requests of any kind under 2 keys, or 3 for new orders under one; 2 admins, 2 shops, 2 days, 1 failure; 355,120 states up to symmetry | all safety properties of `OrderCreation` and the refinement of `OnceByKey` |
| `files` | 3 uploads, a place of each kind, 2 failures, 1 lost answer, fairness; 174,464 states | all safety properties of `ReceiptUpload`; uploads end |
| `images` | 3 requests for 2 products (one to be created) and a logo, 2 failures, 1 lost answer; 129,466 states up to symmetry | rows name images that are there, products leave none behind |
| `shop` | `PaymentCards` with 3 requests and 2 cards; `AdminSession` with 2 shops and 4 requests; `ProductPages` with a patient operator and another; 445,348 states | copies are of their own shop and, where no requests overlapped, agree with the database; whoever waits is released |
| `login` | `LoginLimiter` with 5 requests; `LoginFlow` opened once with 6 requests, or twice with 4 at most; 634,118 states | blocks are justified, a code counts once, one trial, no task stays pending |
| `forms` | `CreateOrderPage` in one tab with a careful operator, in two with another, `OrderDraft`, `ImportOrderForm`, `CustomerPage` of a split order in one tab, of a whole one in two; 221,447 states | what is sent is stored once and as it was shown; neither the creation form, the form for existing orders nor the customer's two forms stay pending |
| `pages` | `OrderWorkbench` in three settings, `OrderList`, `ShopReport`; 299,140 states | each page shows what was asked for, none waits for ever |
| `midnight` | as `race` | violated: `IdenticalRetryReturnsOrder` |
| `lost_answer` | 2 uploads | violated: `RecordedIsStored` |
| `duplicate` | `CreateOrderPage`, one tab, a careful operator, 3 orders, 1 correction of a date, 1 loss | violated: `NoDuplicate` |

*Bounds of the server's models.* `MaxHistory` bounds only status changes by the
operator; four entries allow creation, submission, and two changes, or a submission
followed by paid and then any other status, so that the final payment chain can be
completed and the order cancelled after it. Two tokens allow one rotation between the
read and the transaction of an upload. Three uploads allow a first receipt, a final
receipt and one that loses. `MaxFailures` bounds failures, which otherwise would only
repeat. Three requests for a key allow an insertion, a wait, and a wait for the one that
took its place. `SmallSpec` in `MCOrderLifecycle` and `MCOrderCreation` keeps a run to
the union of two instances, as the table says: steps out of it are not taken. For the
properties proved below, no bound is relied on.

*Bounds of the browser's models.* Requests, lost answers, visits and mounts are bounded
by constants that every module names. Each is large enough for the shortest hazard it is
there for and one step more: for the creation page two sales, three keys, a lost answer
and its repetition, and a page that is opened again; for the login page the whole way
from a number to the first shop (six requests) with one loss and one failure; for the
customer's page a load, a submission, its repetition and the final payment; for the
order page an order opened, left and opened again while one change is being saved, with
one step of another actor, and, for the final payment, the four requests and three steps
of others it takes to come to a record that is current up to the confirmation; for the
list two lists and two further pages; for the report two changes among its queries.
`LastDay`, `FirstDay` and the holiday of `OrderDraft` put a weekend and a holiday after
it into the counted days.

*Deadlock* is checked in `one`, `live`, `race` and `midnight`: the operator, the days or
the shop can always move. The other runs come to their end when all their requests are
used up, and say so.

*Symmetry* is used in safety runs only, over sets whose members the modules treat alike.

*Fairness.* `live`: `main.go` starts a cleanup at startup and every hour while the
process lives, and the loop goes on after an error: weak fairness of `StartSweep`,
`SweepOrder` and `CommitSweep`. PostgreSQL grants a row lock that has become free and
the handler then runs on: weak fairness of the answer of each upload. Failures are not
fair and are bounded, that is, they stop some day. `files`: a request runs to its end
while the process lives. In the browser's models (`shop`, `login`, `forms`, `pages`): a
request is answered or fails, because `fetch` settles, and its handler then runs,
because the event loop takes what is ready; a crop ends, because the decoder calls back.
Weak fairness of both, for each request where several may wait. Nothing is assumed of
operators, customers, clocks or other actors in any run.

## Disagreements found

Three have a run of their own:

1. `midnight`. `createOrder` compares the delivery date with today (`orders.go:96`)
   before it looks the key up (`orders.go:143`). A request whose order was committed and
   whose answer was lost is refused with 400 when it is repeated after midnight of its
   delivery date, against PRODUCT.md:163 ("A browser-held creation key makes identical
   retries return the same order and rejects reuse with changed data."). With a new date
   the same key is refused with 409, so the form stays where it is until the key is
   dropped. The import has no such check.
2. `lost_answer`. If the connection breaks after PostgreSQL has committed, the handler
   takes the upload for aborted and its deferred `discard` removes the stored file
   (`customer.go:158`, `installment_payments.go:104`, `historical_orders.go:184`): the
   record names a file that is not there, against PRODUCT.md:208 ("Customer details and
   exactly one receipt are accepted together or not at all."). The order cannot be
   submitted again. `MissingOnlyUnheard` shows that this is the only way; a crash, of
   which CODEMAP.md:126 says that rename and transaction are not atomic, can only leave
   a file without a row.
3. `duplicate`. `saveDeliveryDate` (`CreateOrderPage.tsx:214`) puts the order it was
   called for back on the page when its answer arrives. If the operator has pressed
   "create another" and sent the next sale meanwhile, the old order covers the pending
   form; "create another" then draws a new key, and if the answer of the pending sale
   was lost its retry is stored a second time, against PRODUCT.md:329 ("Every order
   creation request uses retry protection so network uncertainty cannot silently create
   duplicates.").

The others are reproduced by a configuration that is kept beside the runs (`tlc -config
X.cfg M`); each checks one property and TLC finds it violated:

| Configuration, module | Property | What happens |
| --- | --- | --- |
| `AdminSession_guest`, `MCAdminSession` | `LogoutIsFinal` | A settings answer that arrives after the logout sets the session to "ready" again with the `me` it was rendered with (`App.tsx:68`), against PRODUCT.md:125. |
| `CreateOrderPage_guard`, `CreateOrderPage` | `BusyWhilePending` | A page that was left with the Back button switches off the guard of the page that followed when its request ends (`CreateOrderPage.tsx:197`), against PRODUCT.md:164. |
| `CreateOrderPage_message`, `CreateOrderPage` | `MessageMatchesOrder` | The message to copy has the amount of the form, which can be edited while the order is being sent (`CreateOrderPage.tsx:98`), against PRODUCT.md:161. |
| `CustomerPage_overwritten`, `CustomerPage` | `DraftRecovered` | A second tab whose order arrives later stores its empty form over what was typed in the first (`PublicOrderPage.tsx:82`), against PRODUCT.md:205. |
| `CustomerPage_left`, `CustomerPage` | `DraftRemoved` | The draft stays on the device when the answer to an accepted submission is lost (`PublicOrderPage.tsx:143`), against CODEMAP.md:195. |
| `ImportOrderForm_review`, `MCImportOrderForm` | `ReviewedIsStored` | An image still being prepared when its picker goes replaces, later, the one that was reviewed (`components.tsx:177`), against PRODUCT.md:177. |
| `OrderWorkbench_link`, `OrderWorkbench` | `CopiedIsOwn` | A new customer link that arrives after a jump in the history is put on the other order, and copied into its message (`AdminOrderPage.tsx:124`), against PRODUCT.md:332. |
| `OrderWorkbench_form`, `OrderWorkbench` | `SavedIsOwn` | A final-payment answer that arrives after a jump replaces the record but not the forms, which are then saved to it (`AdminOrderPage.tsx:187`), against PRODUCT.md:243. |
| `OrderPages_skipped`, `MCOrderPages` | `NothingSkipped` | An order that leaves the listing between two pages moves the next one past the offset; it is on no page (`OrdersPage.tsx:108`), against PRODUCT.md:226. |
| `LoginFlow_typed`, `LoginFlow` | `StepFits` | The identifier is edited while the server looks the old one up; the step suits the old one (`LoginPage.tsx:57`), against CODEMAP.md:86. |
| `ProductImages_logo`, `MCProductImages` | `ReplacedLogoIsRemoved` | Two uploads of a logo remove the same old file; the first one's stays on the disk (`auth.go:306`), against `auth_test.go:147`. |

Two more follow from the models with other constants and have no configuration: the
creation form counts no products, and sends orders of more distinct ones than the
server's 50 (`components.tsx:58`: without its hypothesis `FewItems`,
`SubmittedIsAcceptable` fails once `MaxItems` is below the number of products;
PRODUCT.md:152); and with an operator who does not wait, the retry
button of one product's error loads the list while another change is under way, so an
older list may stay (`ProductsPage.tsx:21`, `ListIsCatalogue` without its hypothesis
`patient`; PRODUCT.md:138).

The runs therefore take from the operator what the properties need: `careful` (stays on
the creation page while it is busy), `patient` or `Patient` (leaves the identifier, the
products, the images, the order or the list alone until the page has its answer). Without
them the configurations above show what happens.

## What is proved

The safety, action and refinement properties of every passing run are theorems for every
value of the constants, from the constants' assumptions: that the special values differ
from the ordinary ones, that bounds, limit and window are naturals, that functions such as
`ShopOf` are total. A set must be finite where something is added up, counted or ranked:
`Products` and `Holidays` of `OrderDraft`, the orders of `OrderList`, the orders and
products of `ShopReport`. Bounds on requests, visits and changes are arbitrary numbers; at
least one visit and one request is assumed where a page begins with one. Where a
composition bounds a part by an action constraint (`Small`, `FewEdits`,
`StayingBounds`), the theorem about the part alone (`FlowCorrect`, `ProductsCorrect`,
`CreationSafety`) does without it, but for what needs the constraint: one tab and no
corrected date for `NoDuplicate` and `KeyOutlives`, one tab for `DraftRecovered`.

*OrderLifecycle.* The inductive invariant is `TypeOK`; for each order `RowInv`, the
conjunction of `Coherent`, `Explains`, `Attributed` and `Chained`; `UploadsHaveOrders`;
`AcceptedIsRecorded`; and `SweepHoldsOnlyUnsubmitted`. The parts need each other: the
cleanup's constant "waiting_info" continues the chain only because staged orders are
still in that status, which holds because customers and operators are locked out; that a
submission never meets an order with a final receipt follows from `Chained` and
`Coherent`; that its commit, heard or not, keeps `AcceptedIsRecorded` needs that the
place was empty, which is again `Coherent`. Row-level facts are proved as lemmas on a single row
and history, without state, so the step proof has one case for each action and quotes
them. The action properties follow from the invariant and one lemma each.

*OrderCreation.* The invariant is `TypeOK`, `OneOrderPerKey`, `InsertsApart` (two
transactions that have inserted have different keys, and no committed row has the key of
either: the meaning of the unique index before the commit), `CommitsRecorded` (a
committed request's row is there until it is answered) and, for every request, `Sound`:
what it was told is true of `orders`. `orders` only grows, so `Sound` survives the steps
of others. The refinement maps each step to `Ask`, `Make`, `Grant`, `Deny` or a stutter;
`Crash` is a `Deny` of many requests at once, and `CommitUnheard` a `Make` that is
denied.

*ReceiptUpload.* The invariant is `TypeOK`; `FilesFollow` (which files a request in each
phase has); `RecordsFollow` (a record was written by an upload for that place, and what
has become of it); and `Exclusive` (two uploads never hold a place together, and the
place of one that holds it is empty until it commits).

*ProductImages.* The invariant adds to that of `ReceiptUpload` what `old` means: under
the lock it is what the row names (`OldFollows`), so that of two replacements the later
one has the earlier one's image as its old one. `RowsFollow` says which request wrote a
row, `KindFollows` keeps logos and products apart.

*PaymentCards.* `Lock1`: one handler at a time holds the shop's row. `Lock2`: what it
has read is still so. With both, `ActiveMirrored` is inductive; a card that is added
leaves the read ones alone, because it has a number of its own.

*AdminSession.* A request carries the copy of the shops that the page had when it was sent
(`Carried`), and each spinner has its request (`Spinners`). `Attributed`, for any
overlaps: there is one assignment of request numbers to shops with which rows, session,
the `me` a request carries and the one an answer tells all agree; two shops therefore
never show the same number, which is `CopyIsOwn`. While no two requests overlap and no
answer is lost (`diverged` is FALSE), `OneAtATime` holds: the copy is the server's row, but for the one
setting whose change is in flight, so the answer makes them equal again.

*ProductPages.* `Listing` is sorted by an order that every set of rows has exactly one
sequence of (`SortedList`); that is what makes "the list is the catalogue" a fact about
sets. With an operator who waits, what the page shows is the listing of some catalogue
that differs from the stored one by the changes that are answered and not yet told
(`ShownFits`). The image that is sent is the one wanted last because the editor shows no
other and a crop that was given up is not taken any more (`EditorFits`).

*LoginLimiter.* `TypeOK` and `EntryMatchesLog` are inductive: the entry counts a suffix
of the log, within one window from its first. `BlockJustified` follows.

*LoginFlow.* A code whose challenge is valid has not been accepted, and one request holds
its row (`CodesFresh`); one request holds the account for which it creates a shop
(`OneCreates`), and the shop it counted is not there yet; a page that waits shows what it
asked about (`Waiting`, `RequestFits`), so the answer's step fits.

*CreateOrderPage.* What a request, an answer and a page say of an order is true of the
stored one (`RequestFits`, `CreatedIsStored`); the request of a careful operator has its
page, which waits for it and for no other (`Attended`). That no sale is stored twice needs
one tab more: of the stored orders, only the one under the tab's key is not yet seen
created (`SalesFit`), and the key goes only with the order that is then seen (`KeyFits`).
A corrected date breaks just this (`duplicate`).

*OrderDraft.* `SubmittedIsAcceptable` is what `MaySubmit` and `Acceptable` have in common,
and rests on two facts about functions. The sum of the products, a fold over a set, is
taken from one product and a smaller set (`TotalSums`); so it is a natural number, and
zero for an empty choice. The count of working days, a recursive function, ends: among
seven days after the last holiday there is a working one (`EnoughWorkingDays`), so it comes
to a day with the promised number of them before it (`PromiseKept`). Both are inductions
over the natural numbers, made by the smallest case that fails (`Least`), which needs no
induction theorem. `HalfFollowsProducts` follows from what half of an integer is.

*ImportOrderForm.* Forms, keys and sales are related as above. The image needs a patient
operator, who chooses none while one is prepared: then the page waits for the only one, an
image of the sale in the form (`OneImage`), a review begins when it is there, and what was
reviewed is what is sent (`ReceiptFits`).

*CustomerPage.* A request for details has a valid text and an image (`RequestFits`), so
what the server stores is complete; and an order that is told as submitted has the shop's
text and receipt, which nothing replaces (`Agrees`). `DraftRecovered` adds, for one tab,
that the draft is what was typed last, if anything was (`AloneInv`).

*OrderWorkbench.* Of one visit to a page at most one change is under way, the one the page
shows as saving (`Changes`, `SavingMatches`): every change starts only while none is, and
its answer ends it. This is why `FieldsThere` can say that forms are there whenever an
answer may come. `ShippedIsWarned` rests on `ConfirmedStays`: a confirmation is never taken
back, so a record that shows one is right however old it is, and a request to ship a split
order was either sent from such a record or warned about. `LinksFollow` bounds the versions
of a link by the requests that have been answered. With an operator who stays
(`Patient`), `OwnInv` is inductive: record, fields and the requests of the page all belong
to the order of the route, which needs that loads of an earlier visit of the route are
dropped and that changes cannot outlive it. Without `Patient` this is what the
configuration `OrderWorkbench_link` breaks.

*OrderList.* Each sort is a strict total order of any set of orders (`ListBefore`), so
ranking by it gives a sequence of all that match, once each (`ListSorted`, from `Ranks`: in
a finite strict order every place is taken by exactly one). Hence the page after `k` orders is
what comes next in the same sequence, and `hasMore` says whether anything is left
(`ListAnswer`, `NextPage`). `Awaited`: of the requests in flight at most one has the
current ticket, and it asks for what the address asks for now (`Asked`), from where the
list ends. `PageFits`: what the list holds is then the beginning of that listing. Both are
stated while a status that is chosen is one of the view or something is searched for
(`Steady`). Otherwise a list may be asked for without the status and stay the page's list
when typing makes the status valid, because the effect's key is the deferred search and not
the typed one; a new list follows with the deferred search. `Cleared` shows that emptying
the search does not lead there.

*ShopReport.* A request has, after each query, parts that are right for the moments they
were read in (`Gathered`), and the drift counts the changes since; a change moves each
number by one at most (`ReportMoves`), so `PartsDriftApart` follows step by step. At a
single moment the bars add up: a sum over statuses of the sizes of disjoint sets is the
size of their union (`SumOfSizes`, `ReportCounts`), the average lies between two amounts
(`SumBetween`, `ReportSummary`) and the products listed are the best sold (`ReportTop`).
Sums are folds over sets, of which `ReportSum` shows what `TotalSums` shows in `OrderDraft`:
one element and the sum of the others.

Proving the listing showed a mistake in an earlier form of this model: `Before` was a CASE
whose arms could both be true, so that TLA+ left open which one counts where the code's
ORDER BY takes the first; TLC takes the first, too, and could not notice. It is a chain of
conditions now.

*Only model-checked:* the liveness properties (`live`, the `...End` properties of the other
runs), because liveness under fairness is out of the prover's reach here. The reproductions
and the runs that expect a violation are TLC's by nature.

## Not modelled, and why

- *Pilot events.* Inside order transactions an event is part of the modelled step, also
  as one that fails. What is counted about the use of the pages serves no operation of
  the program; that the cap on failure events (`pilot_events.go:161`) counts and inserts
  in two statements may let a few more in.
- *Which PostgreSQL lock waits for which.* The cleanup takes row locks in the order of
  an unsorted query and the shop's through a foreign key, an operator both in one
  statement (`orders.go:269`). A deadlock's victim is one of the failures `AbortSweep`
  stands for.
- *Check before use in front of operator routes.* The middleware reads the subscription
  before the handler's transaction (`subscriptions.go:57`); what may slip through is one
  change by an admin whose period ended a moment ago. Creation checks again under the
  lock, and that is modelled.
- *Read, modify, write of the share template* (`auth.go:258`): only for a client that
  leaves the template out, which the settings page never does.
- *The descriptive fields `updateOrder` edits* are in `OrderWorkbench` as sections with
  a version, and in no guard of `OrderLifecycle`. Two operators who save one order at
  once overwrite each other by design.
- *Amounts.* The overflow guards of the sum of prices (`orders.go:187`) are arithmetic
  of one function without interleaving.
- *Codes:* the resend window (checked before the message is sent; codes may be asked for
  at any time in `LoginFlow`, so nothing depends on it) and the number of attempts
  (which the code does not keep, see above).
- *The browser's storage* is assumed to work where the code asks it to; forms, products
  and report are mounted anew for each shop (`key={selected.id}`), and a change of the
  token within one mounted customer page, which no link makes, is left out.
- *Start-up, configuration, migrations, seed, deployment and backup scripts* run before
  or beside the server, one step after the other. *Landing page, entry point, styles and
  layout* have no state.
