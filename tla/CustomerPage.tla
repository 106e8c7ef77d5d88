------------------------------ MODULE CustomerPage ------------------------------
(* The customer's page of one order (PublicOrderPage.tsx, with the image picker of
   components.tsx).  Each tab shows the order as the server last told it and keeps
   the form's text as a draft in localStorage, which the device's tabs share.  The
   page never asks again by itself, so the operator's steps (OrderLifecycle has them
   in full) leave it behind; the server judges every submission by the order's row.

   A text stands for all fields of the form; the texts of Valid pass both checks.  *)
EXTENDS Naturals

CONSTANTS
    Tabs,
    Texts, Valid,  \* what the customer may type; Empty is the empty form
    Empty,
    Images,
    None,
    MaxRequests,   \* bound: requests the tabs send
    MaxLosses,     \* bound: failed connections
    MaxVisits      \* bound: times the link is opened

\* What the constants of every instance satisfy.
CustomerAssumption ==
    /\ Valid \subseteq Texts /\ Empty \in Texts \ Valid
    /\ None \notin Texts /\ None \notin Images
    /\ MaxRequests \in Nat /\ MaxLosses \in Nat /\ MaxVisits \in Nat

VARIABLES
    split,     \* whether the order is paid in two stages
    order,     \* the server's row
    storage,   \* the device's draft
    tab,       \* the tabs
    requests,  \* requests in flight
    typed,     \* what the customer typed last; the code has no such variable
    sent, lost, visits

vars == <<split, order, storage, tab, requests, typed, sent, lost, visits>>

-----------------------------------------------------------------------------
(* Data *)

Status == {"waiting_info", "waiting_payment", "paid", "cancelled"}

Row == [status : Status, details : Texts \cup {None}, receipt : Images \cup {None},
        accepted : BOOLEAN, requested : BOOLEAN, final : Images \cup {None}, confirmed : BOOLEAN]

NewRow == [status |-> "waiting_info", details |-> None, receipt |-> None, accepted |-> FALSE,
           requested |-> FALSE, final |-> None, confirmed |-> FALSE]

\* The page before an answer.
NoOrder == [NewRow EXCEPT !.status = "none"]

Submitted(o) == o.details # None

\* customerSubmissionAllowed
Allowed(o) == o.status = "waiting_info" /\ ~Submitted(o)

\* The image picker: a chosen image is prepared before it is handed to the form. late:
\* images that a picker which has gone is still preparing, and how many times each.
Picker == [file : Images \cup {None}, preparing : Images \cup {None}, late : [Images -> Nat]]
NoFile == [file |-> None, preparing |-> None, late |-> [image \in Images |-> 0]]

\* The picker leaves the page and a new one comes: what it prepares it still hands over.
Remounted(picker) ==
    IF picker.preparing = None THEN picker
    ELSE [picker EXCEPT !.preparing = None, !.late[picker.preparing] = @ + 1]

Closed == [n |-> 0, order |-> NoOrder, loading |-> FALSE, error |-> FALSE, draft |-> Empty,
           receipt |-> NoFile, final |-> NoFile, pending |-> FALSE, finalPending |-> FALSE]

Page == [n : 0..MaxVisits, order : Row \cup {NoOrder}, loading : BOOLEAN, error : BOOLEAN,
         draft : Texts, receipt : Picker, final : Picker, pending : BOOLEAN,
         finalPending : BOOLEAN]

Request == [id : 1..MaxRequests, kind : {"load", "details", "final"}, tab : Tabs,
            n : 1..MaxVisits, text : Texts \cup {None}, image : Images \cup {None},
            answer : {"none", "ok", "refused", "lost"}, told : Row \cup {NoOrder}]

Init ==
    /\ split \in BOOLEAN
    /\ order = NewRow
    /\ storage = None
    /\ tab = [t \in Tabs |-> Closed]
    /\ requests = {}
    /\ typed = Empty
    /\ sent = 0 /\ lost = 0 /\ visits = 0

-----------------------------------------------------------------------------
(* The page *)

Send(t, n, kind, text, image) ==
    /\ sent < MaxRequests
    /\ sent' = sent + 1
    /\ requests' = requests \cup
          {[id |-> sent + 1, kind |-> kind, tab |-> t, n |-> n, text |-> text, image |-> image,
            answer |-> "none", told |-> NoOrder]}

\* readCustomerDraft
Draft == IF storage = None THEN Empty ELSE storage

\* Opening or refreshing the link: the page starts again from the stored draft.
Visit(t) ==
    /\ visits < MaxVisits
    /\ visits' = visits + 1
    /\ tab' = [tab EXCEPT ![t] = [Closed EXCEPT !.n = visits + 1, !.loading = TRUE, !.draft = Draft]]
    /\ Send(t, visits + 1, "load", None, None)
    /\ UNCHANGED <<split, order, storage, typed, lost>>

\* The browser closes the tab at any time.
Close(t) ==
    /\ tab[t].n # 0
    /\ tab' = [tab EXCEPT ![t] = Closed]
    /\ UNCHANGED <<split, order, storage, requests, typed, sent, lost, visits>>

\* "Try again" beside an error: the order is forgotten, its form with it, and asked for
\* again.
Reload(t) ==
    /\ tab[t].n # 0 /\ tab[t].error
    /\ tab' = [tab EXCEPT ![t].loading = TRUE, ![t].error = FALSE, ![t].order = NoOrder,
                           ![t].receipt = Remounted(@)]
    /\ Send(t, tab[t].n, "load", None, None)
    /\ UNCHANGED <<split, order, storage, typed, lost, visits>>

FormShown(t) == Allowed(tab[t].order)

\* Variant: the draft is stored when the form is sent.
StoredLater(text) == storage

\* The effect of draft and order, while the shown order is not submitted.
Stored(text) == text

\* updateDraft and the effect that stores the draft.
Type(t, text) ==
    /\ FormShown(t) /\ text # tab[t].draft
    /\ tab' = [tab EXCEPT ![t].draft = text]
    /\ storage' = Stored(text)
    /\ typed' = text
    /\ UNCHANGED <<split, order, requests, sent, lost, visits>>

\* ReceiptPicker's choose: the previous image is gone at once.  A picker that prepares
\* an image shows no button; one that was mounted since shows it.
Choose(t, image) ==
    /\ FormShown(t) /\ tab[t].receipt.preparing = None
    /\ tab' = [tab EXCEPT ![t].receipt.file = None, ![t].receipt.preparing = image]
    /\ UNCHANGED <<split, order, storage, requests, typed, sent, lost, visits>>

Remove(t) ==
    /\ FormShown(t) /\ tab[t].receipt.preparing = None /\ tab[t].receipt.file # None
    /\ tab' = [tab EXCEPT ![t].receipt.file = None]
    /\ UNCHANGED <<split, order, storage, requests, typed, sent, lost, visits>>

\* optimizeReceipt returns, whether the picker is still shown or not.
Prepared(t) ==
    /\ tab[t].receipt.preparing # None
    /\ tab' = [tab EXCEPT ![t].receipt.file = tab[t].receipt.preparing,
                           ![t].receipt.preparing = None]
    /\ UNCHANGED <<split, order, storage, requests, typed, sent, lost, visits>>

\* What a picker that has gone prepared is handed over to the form all the same.
HandedOver(picker, image) == [picker EXCEPT !.file = image, !.late[image] = @ - 1]

PreparedLate(t, image) ==
    /\ tab[t].receipt.late[image] > 0
    /\ tab' = [tab EXCEPT ![t].receipt = HandedOver(@, image)]
    /\ UNCHANGED <<split, order, storage, requests, typed, sent, lost, visits>>

\* Variant: the image may be missing.
TextComplete(t) == tab[t].draft \in Valid

\* The checks of submitDetails.
Complete(t) == tab[t].draft \in Valid /\ tab[t].receipt.file # None

SubmitDetails(t) ==
    /\ FormShown(t) /\ ~tab[t].pending
    /\ Complete(t)
    /\ tab' = [tab EXCEPT ![t].pending = TRUE, ![t].error = FALSE]
    /\ Send(t, tab[t].n, "details", tab[t].draft, tab[t].receipt.file)
    /\ UNCHANGED <<split, order, storage, typed, lost, visits>>

-----------------------------------------------------------------------------
(* Payments *)

\* initialPaymentActive and finalPaymentActive
FirstActive(o) == split /\ ~Submitted(o) /\ Allowed(o)
FinalActive(o) ==
    /\ split /\ Submitted(o) /\ o.requested
    /\ o.final = None /\ ~o.confirmed /\ o.status # "cancelled"

\* Where the button that copies the amount is shown.
AmountShown(o) == o # NoOrder /\ (split => FirstActive(o) \/ FinalActive(o))

\* Variant: the amount follows the first payment until the final receipt is there.
AmountUntilReceipt(o) ==
    IF ~split THEN "whole" ELSE IF o.final # None THEN "final" ELSE "first"

\* copyPaymentAmount
AmountOf(o) ==
    IF ~split THEN "whole" ELSE IF Submitted(o) /\ o.requested THEN "final" ELSE "first"

\* The card section, and whose card copyPaymentCardNumber takes.
CardShown(o) == o # NoOrder /\ (~split \/ ~Submitted(o) \/ FinalActive(o))
CardOf(o) == IF Submitted(o) /\ o.requested THEN "final" ELSE "first"

\* The picker of the final receipt; its image is prepared in the same step.
ChooseFinal(t, image) ==
    /\ FinalActive(tab[t].order)
    /\ tab' = [tab EXCEPT ![t].final.file = image]
    /\ UNCHANGED <<split, order, storage, requests, typed, sent, lost, visits>>

SubmitFinalReceipt(t) ==
    /\ FinalActive(tab[t].order) /\ ~tab[t].finalPending /\ tab[t].final.file # None
    /\ tab' = [tab EXCEPT ![t].finalPending = TRUE]
    /\ Send(t, tab[t].n, "final", None, tab[t].final.file)
    /\ UNCHANGED <<split, order, storage, typed, lost, visits>>

-----------------------------------------------------------------------------
(* The server, the operator and the network *)

\* Variant: a second submission replaces the first.
NotCancelled == order.status # "cancelled"

DetailsAllowed == Allowed(order)

FinalReceiptAllowed ==
    Submitted(order) /\ order.requested /\ order.final = None /\ ~order.confirmed
      /\ order.status # "cancelled"

Answer(r, answer, told) ==
    requests' = (requests \ {r}) \cup {[r EXCEPT !.answer = answer, !.told = told]}

Serve(r) ==
    /\ r.answer = "none"
    /\ \/ /\ r.kind = "load"
          /\ Answer(r, "ok", order)
          /\ UNCHANGED order
       \/ /\ r.kind = "details" /\ DetailsAllowed
          /\ order' = [order EXCEPT !.status = "waiting_payment", !.details = r.text,
                                    !.receipt = r.image]
          /\ Answer(r, "ok", order')
       \/ /\ r.kind = "final" /\ FinalReceiptAllowed
          /\ order' = [order EXCEPT !.final = r.image]
          /\ Answer(r, "ok", order')
       \/ /\ \/ r.kind = "details" /\ ~DetailsAllowed
             \/ r.kind = "final" /\ ~FinalReceiptAllowed
          /\ Answer(r, "refused", NoOrder)
          /\ UNCHANGED order
    /\ UNCHANGED <<split, storage, tab, typed, sent, lost, visits>>

\* The connection fails, before or after the server has done its part.
Lose(r) ==
    /\ r.answer # "lost" /\ lost < MaxLosses
    /\ lost' = lost + 1
    /\ Answer(r, "lost", NoOrder)
    /\ UNCHANGED <<split, order, storage, tab, typed, sent, visits>>

\* The operator's steps that the page shows.
Operate ==
    /\ \/ /\ order.status = "waiting_payment"
          /\ order' = [order EXCEPT !.status = "paid", !.accepted = TRUE]
       \/ /\ order.status # "cancelled"
          /\ order' = [order EXCEPT !.status = "cancelled"]
       \/ /\ split /\ order.accepted /\ order.status = "paid" /\ ~order.requested
          /\ order' = [order EXCEPT !.requested = TRUE]
       \/ /\ order.final # None /\ ~order.confirmed /\ order.status # "cancelled"
          /\ order' = [order EXCEPT !.confirmed = TRUE]
    /\ UNCHANGED <<split, storage, tab, requests, typed, sent, lost, visits>>

-----------------------------------------------------------------------------
(* Answers *)

\* Variant: the answer goes to whatever the tab shows.
TabOf(r) == TRUE

\* Whether the page that sent r is still there.
Mounted(r) == tab[r.tab].n = r.n

Accepted(r) == r.answer = "ok"

\* An order that is not submitted stores the draft beside it.
StorageWith(o, draft) == IF Submitted(o) THEN storage ELSE Stored(draft)

\* Variant: only a success ends the loading screen.
LoadingUntilLoaded(r) == ~Accepted(r)

LoadingAfter(r) == FALSE

\* A page that has gone has aborted its question.
LoadEnds(r) ==
    /\ r.kind = "load" /\ r.answer # "none"
    /\ requests' = requests \ {r}
    /\ IF ~Mounted(r) THEN UNCHANGED <<tab, storage>>
       ELSE /\ tab' = [tab EXCEPT ![r.tab].loading = LoadingAfter(r),
                                  ![r.tab].error = ~Accepted(r),
                                  ![r.tab].order = r.told]
            /\ storage' = IF Accepted(r) THEN StorageWith(r.told, tab[r.tab].draft) ELSE storage
    /\ UNCHANGED <<split, order, typed, sent, lost, visits>>

\* Variant: the draft is removed whatever the answer was.
DraftDropped(r) == None

\* localStorage.removeItem, after a success only.
DraftAfter(r) == IF Accepted(r) THEN None ELSE storage

\* Variant: a failed submission keeps the spinner.
PendingUntilAccepted(r) == ~Accepted(r)

PendingAfter(r) == FALSE

\* The rest of submitDetails: the draft is removed before the order is replaced.
DetailsEnds(r) ==
    /\ r.kind = "details" /\ r.answer # "none"
    /\ requests' = requests \ {r}
    /\ IF ~Mounted(r) THEN UNCHANGED <<tab, storage>>
       ELSE /\ storage' = DraftAfter(r)
            /\ tab' = [tab EXCEPT ![r.tab].pending = PendingAfter(r),
                                  ![r.tab].error = ~Accepted(r),
                                  ![r.tab].order = IF Accepted(r) THEN r.told ELSE @,
                                  ![r.tab].receipt.file = IF Accepted(r) THEN None ELSE @]
    /\ UNCHANGED <<split, order, typed, sent, lost, visits>>

FinalEnds(r) ==
    /\ r.kind = "final" /\ r.answer # "none"
    /\ requests' = requests \ {r}
    /\ tab' = IF ~Mounted(r) THEN tab
              ELSE [tab EXCEPT ![r.tab].finalPending = PendingAfter(r),
                               ![r.tab].order = IF Accepted(r) THEN r.told ELSE @,
                               ![r.tab].final.file = IF Accepted(r) THEN None ELSE @]
    /\ UNCHANGED <<split, order, storage, typed, sent, lost, visits>>

-----------------------------------------------------------------------------

Next ==
    \/ \E t \in Tabs :
          \/ Visit(t) \/ Close(t) \/ Reload(t)
          \/ \E text \in Texts : Type(t, text)
          \/ \E image \in Images :
                Choose(t, image) \/ PreparedLate(t, image) \/ ChooseFinal(t, image)
          \/ Remove(t) \/ Prepared(t) \/ SubmitDetails(t) \/ SubmitFinalReceipt(t)
    \/ \E r \in requests : Serve(r) \/ Lose(r) \/ LoadEnds(r) \/ DetailsEnds(r) \/ FinalEnds(r)
    \/ Operate

Spec == Init /\ [][Next]_vars

\* A request is answered or fails, and the page hears of it.
Fairness ==
    \A i \in 1..MaxRequests :
        /\ WF_vars(\E r \in requests : r.id = i /\ Serve(r))
        /\ WF_vars(\E r \in requests : r.id = i /\ (LoadEnds(r) \/ DetailsEnds(r) \/ FinalEnds(r)))

FairSpec == Spec /\ Fairness

-----------------------------------------------------------------------------
(* Properties *)

TypeOK ==
    /\ order \in Row
    /\ storage \in Texts \cup {None}
    /\ tab \in [Tabs -> Page]
    /\ \A t \in Tabs : tab[t].n = 0 => tab[t] = Closed
    /\ requests \subseteq Request
    /\ typed \in Texts
    /\ sent \in 0..MaxRequests /\ lost \in 0..MaxLosses /\ visits \in 0..MaxVisits

\* What the customer typed is not lost before the shop has it: a page opened after a
\* refresh, a crash or a failed submission finds it (PRODUCT.md, local text draft
\* recovery; the effect of PublicOrderPage).
DraftRecovered == ~Submitted(order) /\ typed # Empty => storage = typed

\* The customer's details and the receipt are accepted together, and are those of a
\* form that was complete when it was sent, although the image may still be being
\* prepared or be exchanged meanwhile.
AcceptedTogether ==
    /\ Submitted(order) => order.details \in Valid /\ order.receipt # None
    /\ ~Submitted(order) => order.receipt = None

\* A tab that shows the registered-order state shows what the shop has, and no tab
\* can change it any more: the first submission stands.
ShownIsRegistered ==
    \A t \in Tabs : Submitted(tab[t].order) =>
        /\ tab[t].order.details = order.details
        /\ tab[t].order.receipt = order.receipt

\* The amount and the card that the page offers to copy belong to one payment.
AmountMatchesCard ==
    \A t \in Tabs :
        LET o == tab[t].order
        IN split /\ AmountShown(o) => CardShown(o) /\ AmountOf(o) = CardOf(o)

\* The draft is removed after submission (CODEMAP.md): a page that shows the order as
\* submitted, with nothing in flight, leaves no text on the device.
DraftRemoved ==
    (\E t \in Tabs : Submitted(tab[t].order)) /\ requests = {} => storage = None

-----------------------------------------------------------------------------
(* Inductive invariants *)

\* What is told of a submitted order is what the shop has.
Agrees(o) == Submitted(o) => o.details = order.details /\ o.receipt = order.receipt

\* What is sent was complete, and an accepted submission is the order's.
RequestFits(r) ==
    /\ r.kind = "details" => r.text \in Valid /\ r.image # None
    /\ r.kind = "details" /\ r.answer = "ok" => Submitted(order)
    /\ Agrees(r.told)

IInv ==
    /\ TypeOK /\ AcceptedTogether /\ ShownIsRegistered
    /\ \A r \in requests : RequestFits(r)

\* Only tab t is open, and until the order is submitted it shows what was typed last,
\* which is stored unless it is nothing.
AloneInv(t) ==
    /\ \A u \in Tabs \ {t} : tab[u] = Closed
    /\ ~Submitted(order) =>
          /\ tab[t].n # 0 => tab[t].draft = typed
          /\ storage = typed \/ (storage = None /\ typed = Empty)

-----------------------------------------------------------------------------
(* Liveness *)

\* The loading screen gives way to the order or to an error.
LoadingEnds == \A t \in Tabs : tab[t].loading ~> ~tab[t].loading

\* A submission that is sent is answered, on the page or without it.
SubmissionEnds == \A t \in Tabs : tab[t].pending ~> ~tab[t].pending
=============================================================================
