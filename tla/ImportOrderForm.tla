---------------------------- MODULE ImportOrderForm ----------------------------
(* The form for existing orders (HistoricalOrderPage.tsx) with its image picker
   (ReceiptPicker in components.tsx), in one tab.  The operator fills it, reviews
   it, and sends it; a success stores a new key and empties the form.  An image that
   was chosen is prepared in the background and handed to the form when it is ready;
   the picker is mounted only while a product is chosen and no review is shown, but
   an image it has begun is handed over without it.

   The server keeps one order per key and compares a repeated request, image
   included, with it (OrderCreation).  *)
EXTENDS Naturals, FiniteSets

CONSTANTS
    Keys,
    Sales,        \* the orders to enter, each once
    ImagesOf,     \* the images of each sale's receipt, right or wrong
    None,
    Patient,      \* the operator leaves the products alone while an image is prepared
    MaxRequests,  \* bound: orders sent
    MaxLosses,    \* bound: failed connections
    MaxChoices,   \* bound: images chosen
    MaxMounts     \* bound: times the page is opened

\* What the constants of every instance satisfy.
ImportAssumption ==
    /\ None \notin Keys /\ None \notin Sales
    /\ Patient \in BOOLEAN
    /\ MaxRequests \in Nat /\ MaxLosses \in Nat /\ MaxChoices \in Nat /\ MaxMounts \in Nat

VARIABLES
    stored,     \* the orders, by key
    storage,    \* the tab's key in sessionStorage
    page,       \* the page
    creating,   \* AdminApp's guard
    preparing,  \* images being prepared, by the page that began them
    requests,   \* orders in flight
    drawn,      \* keys drawn so far
    seen,       \* sales the operator has seen registered; the code keeps no such set
    sent, lost, chosen, mounts

vars == <<stored, storage, page, creating, preparing, requests, drawn, seen, sent, lost, chosen,
          mounts>>
counts == <<sent, lost, chosen, mounts>>

-----------------------------------------------------------------------------
(* Data *)

Receipts == UNION {ImagesOf[s] : s \in Sales}

\* reviewed: the image the review was opened with, which the code does not keep.
Order == [sale : Sales, receipt : Receipts \cup {None}, reviewed : Receipts \cup {None}]
NoOrder == [sale |-> None, receipt |-> None, reviewed |-> None]

\* items: whether a product is chosen; picker: images chosen in the mounted picker.
Page == [n : 0..MaxMounts, key : Keys \cup {None}, sale : Sales \cup {None}, items : BOOLEAN,
         receipt : Receipts \cup {None}, busy : BOOLEAN, optimizing : 0..MaxChoices,
         reviewing : BOOLEAN, reviewed : Receipts \cup {None}, pending : BOOLEAN]

NoPage == [n |-> 0, key |-> None, sale |-> None, items |-> FALSE, receipt |-> None, busy |-> FALSE,
           optimizing |-> 0, reviewing |-> FALSE, reviewed |-> None, pending |-> FALSE]

Request == [n : 1..MaxMounts, id : 1..MaxRequests, key : Keys, order : Order,
            answer : {"none", "ok", "conflict", "lost"}]

Init ==
    /\ stored = [k \in Keys |-> NoOrder]
    /\ storage = None
    /\ page = NoPage
    /\ creating = FALSE
    /\ preparing = {} /\ requests = {}
    /\ drawn = {} /\ seen = {}
    /\ sent = 0 /\ lost = 0 /\ chosen = 0 /\ mounts = 0

-----------------------------------------------------------------------------
(* The page *)

\* newHistoricalCreateKey
Open(k) ==
    /\ page.n = 0 /\ mounts < MaxMounts
    /\ IF storage # None THEN k = storage ELSE k \notin drawn
    /\ mounts' = mounts + 1
    /\ storage' = k
    /\ drawn' = drawn \cup {k}
    /\ page' = [NoPage EXCEPT !.n = mounts + 1, !.key = k]
    /\ UNCHANGED <<stored, creating, preparing, requests, seen, sent, lost, chosen>>

\* The operator heeds the guard while an order is sent.
Leave ==
    /\ page.n # 0 /\ ~creating
    /\ page' = NoPage
    /\ UNCHANGED <<stored, storage, creating, preparing, requests, drawn, seen, counts>>

Editable == page.n # 0 /\ ~page.reviewing

\* The fields of a sale that the operator has not yet seen registered.
Fill(sale) ==
    /\ Editable /\ page.sale = None /\ sale \notin seen
    /\ page' = [page EXCEPT !.sale = sale, !.items = TRUE]
    /\ UNCHANGED <<stored, storage, creating, preparing, requests, drawn, seen, counts>>

\* The last product is taken out, which unmounts the rest of the form, or the first
\* is put back.
ToggleItems ==
    /\ Editable /\ page.sale # None
    /\ Patient => page.optimizing = 0
    /\ page' = [page EXCEPT !.items = ~@, !.optimizing = 0]
    /\ UNCHANGED <<stored, storage, creating, preparing, requests, drawn, seen, counts>>

\* The picker's choose.  While it is optimizing it shows no button to choose again.
Choose(image) ==
    /\ Editable /\ page.items /\ page.optimizing = 0
    /\ image \in ImagesOf[page.sale]
    /\ chosen < MaxChoices
    /\ chosen' = chosen + 1
    /\ preparing' = preparing \cup {[n |-> page.n, id |-> chosen + 1, image |-> image]}
    /\ page' = [page EXCEPT !.receipt = None, !.busy = TRUE, !.optimizing = chosen + 1]
    /\ UNCHANGED <<stored, storage, creating, requests, drawn, seen, sent, lost, mounts>>

\* Variant: the setters reach a page that has gone.
HereOrNot(job) == TRUE

Here(job) == page.n = job.n

\* The rest of choose: the form's setters are called even if the picker has gone.
Prepared(job) ==
    /\ preparing' = preparing \ {job}
    /\ page' = IF ~Here(job) THEN page
               ELSE [page EXCEPT !.receipt = job.image, !.busy = FALSE,
                                 !.optimizing = IF @ = job.id THEN 0 ELSE @]
    /\ UNCHANGED <<stored, storage, creating, requests, drawn, seen, counts>>

Remove ==
    /\ Editable /\ page.items /\ page.optimizing = 0 /\ page.receipt # None
    /\ page' = [page EXCEPT !.receipt = None]
    /\ UNCHANGED <<stored, storage, creating, preparing, requests, drawn, seen, counts>>

\* Variant: the review does not wait for the image.
ReadyAnyway == TRUE

\* if (receiptBusy) ...
ReceiptReady == ~page.busy

OpenReview ==
    /\ Editable /\ page.items
    /\ ReceiptReady
    /\ page' = [page EXCEPT !.reviewing = TRUE, !.reviewed = page.receipt]
    /\ UNCHANGED <<stored, storage, creating, preparing, requests, drawn, seen, counts>>

\* Back to the form, with a new picker.
Correct ==
    /\ page.reviewing /\ ~page.pending
    /\ page' = [page EXCEPT !.reviewing = FALSE, !.reviewed = None, !.optimizing = 0]
    /\ UNCHANGED <<stored, storage, creating, preparing, requests, drawn, seen, counts>>

Submit ==
    /\ page.reviewing /\ ~page.pending /\ ReceiptReady
    /\ sent < MaxRequests
    /\ sent' = sent + 1
    /\ requests' = requests \cup
          {[n |-> page.n, id |-> sent + 1, key |-> page.key,
            order |-> [sale |-> page.sale, receipt |-> page.receipt, reviewed |-> page.reviewed],
            answer |-> "none"]}
    /\ page' = [page EXCEPT !.pending = TRUE]
    /\ creating' = TRUE
    /\ UNCHANGED <<stored, storage, preparing, drawn, seen, lost, chosen, mounts>>

-----------------------------------------------------------------------------
(* The server and the network *)

Answer(r, answer) == requests' = (requests \ {r}) \cup {[r EXCEPT !.answer = answer]}

\* Sale and image; what the review showed is not sent.
SameOrder(o, r) == o.sale = r.order.sale /\ o.receipt = r.order.receipt

Serve(r) ==
    /\ r.answer = "none"
    /\ IF stored[r.key] = NoOrder
       THEN /\ stored' = [stored EXCEPT ![r.key] = r.order]
            /\ Answer(r, "ok")
       ELSE /\ Answer(r, IF SameOrder(stored[r.key], r) THEN "ok" ELSE "conflict")
            /\ UNCHANGED stored
    /\ UNCHANGED <<storage, page, creating, preparing, drawn, seen, counts>>

Lose(r) ==
    /\ r.answer # "lost" /\ lost < MaxLosses
    /\ lost' = lost + 1
    /\ Answer(r, "lost")
    /\ UNCHANGED <<stored, storage, page, creating, preparing, drawn, seen, sent, chosen, mounts>>

\* Variant: a failure empties the form too.
ResetWhatever(r) == TRUE

\* Whether the answer leads to reset.
Registered(r) == r.answer = "ok"

\* Variant: a failure leaves the form waiting.
PendingUntilRegistered(r) == ~Registered(r)

PendingAfter(r) == FALSE

\* Variant: the image stays in the form.
KeepReceipt == [NoPage EXCEPT !.receipt = page.receipt]

\* The fields reset empties.
EmptyForm == NoPage

\* The rest of submit.  reset draws and stores the next key; the form stays on the
\* page, empty, and the review is closed.
SubmitEnds(r, k) ==
    /\ r.answer # "none"
    /\ requests' = requests \ {r}
    /\ creating' = FALSE
    /\ IF Registered(r)
       THEN /\ k \notin drawn
            /\ drawn' = drawn \cup {k} /\ storage' = k
            /\ seen' = IF r.answer = "ok" THEN seen \cup {r.order.sale} ELSE seen
            /\ page' = IF page.n # r.n THEN page
                       ELSE [EmptyForm EXCEPT !.n = page.n, !.key = k, !.busy = page.busy]
       ELSE /\ k = r.key
            /\ page' = IF page.n # r.n THEN page ELSE [page EXCEPT !.pending = PendingAfter(r)]
            /\ UNCHANGED <<drawn, storage, seen>>
    /\ UNCHANGED <<stored, preparing, counts>>

-----------------------------------------------------------------------------

Next ==
    \/ \E k \in Keys : Open(k) \/ \E r \in requests : SubmitEnds(r, k)
    \/ Leave \/ ToggleItems \/ Remove \/ OpenReview \/ Correct \/ Submit
    \/ \E sale \in Sales : Fill(sale)
    \/ \E image \in Receipts : Choose(image)
    \/ \E job \in preparing : Prepared(job)
    \/ \E r \in requests : Serve(r) \/ Lose(r)

Spec == Init /\ [][Next]_vars

\* The order in flight is answered or fails, and the page hears of it.
Fairness ==
    /\ WF_vars(\E r \in requests : Serve(r))
    /\ WF_vars(\E r \in requests, k \in Keys : SubmitEnds(r, k))

FairSpec == Spec /\ Fairness

-----------------------------------------------------------------------------
(* Properties *)

TypeOK ==
    /\ stored \in [Keys -> Order \cup {NoOrder}]
    /\ storage \in Keys \cup {None}
    /\ page \in Page /\ (page.n = 0 => page = NoPage)
    /\ creating \in BOOLEAN
    /\ preparing \subseteq [n : 1..MaxMounts, id : 1..MaxChoices, image : Receipts]
    /\ requests \subseteq Request
    /\ drawn \subseteq Keys /\ seen \subseteq Sales
    /\ sent \in 0..MaxRequests /\ lost \in 0..MaxLosses
    /\ chosen \in 0..MaxChoices /\ mounts \in 0..MaxMounts

\* A sale is registered once, although the operator enters and sends it again until
\* it is seen registered (PRODUCT.md, retry-safe review and creation).
NoDuplicate ==
    \A j, k \in Keys : stored[j] # NoOrder /\ stored[j].sale = stored[k].sale => j = k

\* The image an order is registered with, which can never be corrected, is the one
\* that was attached when the operator opened its review (openReview refuses while an
\* image is being prepared).
ReviewedIsStored == \A k \in Keys : stored[k].receipt = stored[k].reviewed

\* An order has an image of its own receipt and never one left from the order before
\* (reset).
OwnReceipt ==
    \A k \in Keys : stored[k].receipt # None => stored[k].receipt \in ImagesOf[stored[k].sale]

-----------------------------------------------------------------------------
(* Inductive invariant *)

\* The one request in flight is that of the review on the page, under the tab's key.
RequestFits(r) ==
    /\ r.n = page.n /\ r.key = page.key /\ r.order.sale = page.sale
    /\ page.pending
    /\ r.answer = "ok" => stored[r.key].sale = r.order.sale
    /\ \A s \in requests : s = r

\* The page has the tab's key; while it waits for an answer the guard is set, a review
\* shows a sale, and no sale on the page is seen registered.
PageFits ==
    /\ page.n <= mounts /\ (page.n # 0 => storage = page.key /\ page.key # None)
    /\ storage # None => storage \in drawn
    /\ page.pending = creating /\ (page.pending => page.reviewing)
    /\ page.reviewing => page.items
    /\ page.items => page.sale # None
    /\ page.sale \notin seen

\* Of the registered sales only the one under the tab's key is not yet seen.
SalesFit ==
    \A k \in Keys : stored[k] # NoOrder =>
        k \in drawn /\ (stored[k].sale \in seen <=> storage # k)

\* A patient operator's page prepares one image at a time, of the sale it shows, and a
\* review begins when the image is there.
OneImage ==
    /\ \A job \in preparing :
          /\ job.id <= chosen /\ job.n <= mounts
          /\ Here(job) => page.optimizing = job.id /\ page.busy
          /\ Here(job) => page.sale # None /\ job.image \in ImagesOf[page.sale]
          /\ \A other \in preparing : other.id = job.id => other = job
    /\ page.busy => \E job \in preparing : Here(job)

\* An image is one of the sale's own receipt.
OwnImage(order) ==
    order.receipt # None => order.sale # None /\ order.receipt \in ImagesOf[order.sale]

\* What a patient operator reviews is what is sent and stored.
ReceiptFits ==
    /\ OwnImage(page)
    /\ page.reviewing => ~page.busy /\ page.receipt = page.reviewed
    /\ \A r \in requests : OwnImage(r.order) /\ r.order.receipt = r.order.reviewed

IInv ==
    /\ TypeOK /\ PageFits /\ SalesFit /\ NoDuplicate
    /\ \A r \in requests : RequestFits(r)
    /\ Patient => OneImage /\ ReceiptFits /\ ReviewedIsStored /\ OwnReceipt
=============================================================================
