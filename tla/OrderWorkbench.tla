----------------------------- MODULE OrderWorkbench -----------------------------
(* The operator's page of one order (AdminOrderPage.tsx).  The route names the order;
   the browser's history may change the route under the page, which stays mounted and
   loads the other order.  The page keeps the record it was last told and, apart from
   it, the fields of its forms: a load or a saved form sets both, the final-payment
   buttons set the record alone and link rotation sets the record's link alone.

   A value is written <<order, version>>: it names the order it was entered for,
   which the code cannot see.  The server's steps are those of OrderLifecycle, cut
   down to what the page depends on.  *)
EXTENDS Naturals, FiniteSets

CONSTANTS
    Orders,
    Split,        \* the orders paid in two stages
    Imported,     \* the orders that were imported, paid and without a receipt
    Statuses,     \* the statuses in use
    Sections,     \* of "date", "tracking", "customer", "internal"
    Versions,     \* of a section's contents
    None,
    Patient,      \* the operator does not leave for another order while one is saved
    MaxRequests,  \* bound: requests sent
    MaxLosses,    \* bound: failed connections
    MaxOthers,    \* bound: steps of the customer and of other operators
    MaxVisits     \* bound: orders opened

Kinds == {"load", "save", "link", "requestFinal", "confirmFinal"}

\* What the constants of every instance satisfy.
WorkbenchAssumption ==
    /\ Split \subseteq Orders /\ Imported \subseteq Orders
    /\ {"waiting_info", "paid"} \subseteq Statuses
    /\ Sections \subseteq {"date", "tracking", "customer", "internal"}
    /\ 0 \in Versions /\ None \notin Orders \cup Kinds \cup Sections
    /\ Patient \in BOOLEAN
    /\ MaxRequests \in Nat /\ MaxLosses \in Nat /\ MaxOthers \in Nat /\ MaxVisits \in Nat

VARIABLES
    row,        \* the orders in the database
    page,       \* the page
    clipboard,  \* the order named by the message copied last, and the link in it
    requests,   \* requests in flight
    warned,     \* orders the operator was warned about; the code keeps no such set
    early,      \* orders this page shipped before their final payment; likewise
    sent, lost, others, visits

vars == <<row, page, clipboard, requests, warned, early, sent, lost, others, visits>>

-----------------------------------------------------------------------------
(* Data *)

Value == Orders \X Versions
Link == Orders \X (0..MaxOthers + MaxRequests)

Row == [status : Statuses, paid : BOOLEAN, values : [Sections -> Value], link : Link,
        submitted : BOOLEAN, receipt : BOOLEAN, requested : BOOLEAN, final : BOOLEAN,
        confirmed : BOOLEAN]

FirstRow(o) ==
    [status |-> IF o \in Imported THEN "paid" ELSE "waiting_info", paid |-> o \in Imported,
     values |-> [s \in Sections |-> <<o, 0>>], link |-> <<o, 0>>, submitted |-> o \in Imported,
     receipt |-> FALSE, requested |-> FALSE, final |-> FALSE, confirmed |-> FALSE]

\* What the page knows of an order, and the fields of its forms.
Record(o, r) == [id |-> o, row |-> r]
NoRecord == [id |-> None, row |-> None]
Form(r) == [status |-> r.status, values |-> r.values]

Fields == [status : Statuses, values : [Sections -> Value]]
Page == [n : 0..MaxVisits, at : Orders \cup {None}, loading : BOOLEAN,
         order : [id : Orders, row : Row] \cup {NoRecord}, form : Fields \cup {None},
         editing : SUBSET Sections, saving : Kinds \cup {None}]
Closed == [n |-> 0, at |-> None, loading |-> FALSE, order |-> NoRecord, form |-> None,
           editing |-> {}, saving |-> None]

Init ==
    /\ row = [o \in Orders |-> FirstRow(o)]
    /\ page = Closed
    /\ clipboard = NoRecord
    /\ requests = {}
    /\ warned = {} /\ early = {}
    /\ sent = 0 /\ lost = 0 /\ others = 0 /\ visits = 0

Send(kind, order, section, value) ==
    /\ sent < MaxRequests
    /\ sent' = sent + 1
    /\ requests' = requests \cup
          {[id |-> sent + 1, n |-> page'.n, visit |-> visits', kind |-> kind, order |-> order,
            section |-> section, value |-> value, answer |-> "none", told |-> None]}

-----------------------------------------------------------------------------
(* What is offered and what is allowed *)

Later == {"paid", "preparing", "shipped"}

StatusOffered(r, status) ==
    /\ status = "waiting_info" => ~r.submitted
    /\ status = "waiting_payment" => r.receipt

\* Variant: the button looks at the history alone.
OfferedOncePaid(o, r) == o \in Split /\ ~r.requested /\ r.submitted /\ r.receipt /\ r.paid

\* finalRequestAllowed
FinalRequestOffered(o, r) ==
    o \in Split /\ ~r.requested /\ r.submitted /\ r.receipt /\ r.paid /\ r.status \in Later

FinalConfirmOffered(o, r) ==
    o \in Split /\ r.requested /\ r.final /\ ~r.confirmed /\ r.status # "cancelled"

\* The server's conditions; a change that is already made is granted again.
StatusAllowed(r, status) ==
    /\ status = "waiting_info" => ~r.submitted \/ r.status = "waiting_info"
    /\ status = "waiting_payment" => r.receipt \/ r.status = "waiting_payment"

FinalRequestAllowed(o, r) ==
    o \in Split /\ (r.requested \/ (r.submitted /\ r.receipt /\ r.status \in Later /\ r.paid))

FinalConfirmAllowed(o, r) ==
    o \in Split /\ (r.confirmed \/ (r.requested /\ r.final /\ r.status # "cancelled"))

-----------------------------------------------------------------------------
(* The page *)

\* The route changes to another order: a new page, or the same one, whose effect
\* forgets the record and asks for the other.
Go(o) ==
    /\ visits < MaxVisits /\ o # page.at
    /\ Patient => page.saving = None
    /\ visits' = visits + 1
    /\ page' = IF page.n = 0 THEN [Closed EXCEPT !.n = visits + 1, !.at = o, !.loading = TRUE]
               ELSE [page EXCEPT !.at = o, !.loading = TRUE, !.order = NoRecord]
    /\ Send("load", o, None, None)
    /\ UNCHANGED <<row, clipboard, warned, early, lost, others>>

Leave ==
    /\ page.n # 0
    /\ page' = Closed
    /\ UNCHANGED <<row, clipboard, requests, warned, early, sent, lost, others, visits>>

Shown == page.n # 0 /\ ~page.loading /\ page.order # NoRecord

Edit(s) ==
    /\ Shown /\ s \in {"customer", "internal"} \cap Sections /\ s \notin page.editing
    /\ s = "customer" => page.order.row.submitted
    /\ page' = [page EXCEPT !.editing = @ \cup {s}]
    /\ UNCHANGED <<row, clipboard, requests, warned, early, sent, lost, others, visits>>

\* cancelCustomerEdit, cancelInternalEdit
CancelEdit(s) ==
    /\ Shown /\ s \in page.editing
    /\ page' = [page EXCEPT !.editing = @ \ {s}, !.form.values[s] = page.order.row.values[s]]
    /\ UNCHANGED <<row, clipboard, requests, warned, early, sent, lost, others, visits>>

\* Fields stay open while the page is saving.
Type(s, v) ==
    /\ Shown
    /\ s \in {"customer", "internal"} => s \in page.editing
    /\ page' = [page EXCEPT !.form.values[s] = <<page.order.id, v>>]
    /\ UNCHANGED <<row, clipboard, requests, warned, early, sent, lost, others, visits>>

SelectStatus(status) ==
    /\ Shown /\ StatusOffered(page.order.row, status)
    /\ page' = [page EXCEPT !.form.status = status]
    /\ UNCHANGED <<row, clipboard, requests, warned, early, sent, lost, others, visits>>

\* Variant: a receipt that nobody confirmed is enough.
WarnedUntilReceipt(status) == status = "shipped" /\ page.order.id \in Split /\ ~page.order.row.final

\* Shipping needs a confirmation of its own.
Warns(status) == status = "shipped" /\ page.order.id \in Split /\ ~page.order.row.confirmed

Start(kind, section, value) ==
    /\ Shown /\ page.saving = None
    /\ page' = [page EXCEPT !.saving = kind]
    /\ UNCHANGED <<row, clipboard, early, lost, others, visits>>
    /\ Send(kind, page.order.id, section, value)

SaveStatus ==
    /\ Shown /\ page.form.status # page.order.row.status
    /\ Start("save", "status", page.form.status)
    /\ warned' = IF Warns(page.form.status) THEN warned \cup {page.order.id} ELSE warned

\* saveChanges for a date or a tracking code, which must differ, or an open form.
SaveSection(s) ==
    /\ Shown
    /\ s \in {"date", "tracking"} => page.form.values[s] # page.order.row.values[s]
    /\ s \in {"customer", "internal"} => s \in page.editing
    /\ s = "customer" => page.order.row.submitted
    /\ Start("save", s, page.form.values[s])
    /\ UNCHANGED warned

RotateLink == Start("link", None, None) /\ UNCHANGED warned

RequestFinal ==
    /\ Shown /\ FinalRequestOffered(page.order.id, page.order.row)
    /\ Start("requestFinal", None, None) /\ UNCHANGED warned

ConfirmFinal ==
    /\ Shown /\ FinalConfirmOffered(page.order.id, page.order.row)
    /\ Start("confirmFinal", None, None) /\ UNCHANGED warned

\* The order's message or, once requested, the message for the final payment.
Message(record) == [id |-> record.id, row |-> record.row.link]

CopyMessage ==
    /\ Shown
    /\ clipboard' = Message(page.order)
    /\ UNCHANGED <<row, page, requests, warned, early, sent, lost, others, visits>>

-----------------------------------------------------------------------------
(* The server and the network *)

WithStatus(r, status) == [r EXCEPT !.status = status, !.paid = @ \/ status = "paid"]

Granted(r) ==
    CASE r.kind = "save" /\ r.section = "status" -> StatusAllowed(row[r.order], r.value)
      [] r.kind = "save" /\ r.section = "customer" -> row[r.order].submitted
      [] r.kind = "requestFinal" -> FinalRequestAllowed(r.order, row[r.order])
      [] r.kind = "confirmFinal" -> FinalConfirmAllowed(r.order, row[r.order])
      [] OTHER -> TRUE

RowAfter(r) ==
    CASE r.kind = "save" /\ r.section = "status" -> WithStatus(row[r.order], r.value)
      [] r.kind = "save" /\ r.section # "status" ->
            [row[r.order] EXCEPT !.values[r.section] = r.value]
      [] r.kind = "link" -> [row[r.order] EXCEPT !.link = <<r.order, @[2] + 1>>]
      [] r.kind = "requestFinal" -> [row[r.order] EXCEPT !.requested = TRUE]
      [] r.kind = "confirmFinal" -> [row[r.order] EXCEPT !.confirmed = TRUE]
      [] OTHER -> row[r.order]

\* The handler and the record it reads for its answer.
Serve(r) ==
    /\ r.answer = "none"
    /\ IF Granted(r)
       THEN /\ row' = [row EXCEPT ![r.order] = RowAfter(r)]
            /\ requests' = (requests \ {r}) \cup {[r EXCEPT !.answer = "ok", !.told = RowAfter(r)]}
       ELSE /\ requests' = (requests \ {r}) \cup {[r EXCEPT !.answer = "refused"]}
            /\ UNCHANGED row
    /\ early' = IF /\ r.section = "status" /\ r.value = "shipped" /\ r.order \in Split
                   /\ row[r.order].status # "shipped" /\ ~row[r.order].confirmed
                THEN early \cup {r.order} ELSE early
    /\ UNCHANGED <<page, clipboard, warned, sent, lost, others, visits>>

Lose(r) ==
    /\ r.answer # "lost" /\ lost < MaxLosses
    /\ lost' = lost + 1
    /\ requests' = (requests \ {r}) \cup {[r EXCEPT !.answer = "lost"]}
    /\ UNCHANGED <<row, page, clipboard, warned, early, sent, others, visits>>

\* The customer, other operators and the hourly cleanup.
Others(o) ==
    /\ others < MaxOthers
    /\ others' = others + 1
    /\ \/ /\ row[o].status = "waiting_info" /\ ~row[o].submitted
          /\ "waiting_payment" \in Statuses
          /\ row' = [row EXCEPT ![o].status = "waiting_payment", ![o].submitted = TRUE,
                                ![o].receipt = TRUE]
       \/ /\ row[o].requested /\ ~row[o].final /\ row[o].status # "cancelled"
          /\ row' = [row EXCEPT ![o].final = TRUE]
       \/ \E status \in Statuses \ {row[o].status} :
             StatusAllowed(row[o], status) /\ row' = [row EXCEPT ![o] = WithStatus(@, status)]
       \/ \E s \in Sections, v \in Versions :
             /\ s = "customer" => row[o].submitted
             /\ row' = [row EXCEPT ![o].values[s] = <<o, v>>]
       \/ row' = [row EXCEPT ![o].link = <<o, @[2] + 1>>]
    /\ UNCHANGED <<page, clipboard, requests, warned, early, sent, lost, visits>>

-----------------------------------------------------------------------------
(* Answers *)

\* Variant: the effect does not abort its request.
LoadedByThisPage(r) == page.n = r.n

\* Leaving the order aborts its load.
NotAborted(r) == page.n = r.n /\ visits = r.visit

\* Variant: only a record ends the loading.
LoadingUntilLoaded(r) == r.answer # "ok"

LoadingAfter(r) == FALSE

LoadEnds(r) ==
    /\ r.kind = "load" /\ r.answer # "none"
    /\ requests' = requests \ {r}
    /\ page' = IF ~NotAborted(r) THEN page
               ELSE IF r.answer = "ok"
               THEN [page EXCEPT !.loading = LoadingAfter(r), !.order = Record(r.order, r.told),
                                 !.form = Form(r.told)]
               ELSE [page EXCEPT !.loading = LoadingAfter(r)]
    /\ UNCHANGED <<row, clipboard, warned, early, sent, lost, others, visits>>

\* Variant: an error keeps the buttons disabled.
SavingUntilSaved(r) == IF r.answer = "ok" THEN None ELSE page.saving

SavingAfter(r) == None

\* What an answer does to the page that sent it, whatever order that page shows now.
Saved(r) ==
    CASE r.kind = "save" ->
            [page EXCEPT !.saving = SavingAfter(r), !.order = Record(r.order, r.told),
                         !.form = Form(r.told),
                         !.editing = @ \ ({r.section} \cap {"customer", "internal"})]
      [] r.kind = "link" ->
            [page EXCEPT !.saving = SavingAfter(r),
                         !.order = IF @ = NoRecord THEN @ ELSE [@ EXCEPT !.row.link = r.told.link]]
      [] OTHER -> [page EXCEPT !.saving = SavingAfter(r), !.order = Record(r.order, r.told)]

\* Variant: an answer reaches a page that has gone.
MountedOrNot(r) == TRUE

Mounted(r) == page.n = r.n

SaveEnds(r) ==
    /\ r.kind # "load" /\ r.answer # "none"
    /\ requests' = requests \ {r}
    /\ page' = IF ~Mounted(r) THEN page
               ELSE IF r.answer = "ok" THEN Saved(r)
               ELSE [page EXCEPT !.saving = SavingAfter(r)]
    \* copyFinalPaymentMessage(response), whatever page is open
    /\ clipboard' = IF r.kind = "requestFinal" /\ r.answer = "ok"
                    THEN Message(Record(r.order, r.told)) ELSE clipboard
    /\ UNCHANGED <<row, warned, early, sent, lost, others, visits>>

-----------------------------------------------------------------------------

Next ==
    \/ \E o \in Orders : Go(o) \/ Others(o)
    \/ Leave \/ SaveStatus \/ RotateLink \/ RequestFinal \/ ConfirmFinal \/ CopyMessage
    \/ \E s \in Sections :
          Edit(s) \/ CancelEdit(s) \/ SaveSection(s) \/ \E v \in Versions : Type(s, v)
    \/ \E status \in Statuses : SelectStatus(status)
    \/ \E r \in requests : Serve(r) \/ Lose(r) \/ LoadEnds(r) \/ SaveEnds(r)

Spec == Init /\ [][Next]_vars

\* Requests are answered or fail, and the page handles what comes.
Fairness ==
    /\ WF_vars(\E r \in requests : Serve(r))
    /\ WF_vars(\E r \in requests : LoadEnds(r) \/ SaveEnds(r))

FairSpec == Spec /\ Fairness

-----------------------------------------------------------------------------
(* Properties *)

TypeOK ==
    /\ row \in [Orders -> Row]
    /\ page \in Page /\ page.n <= visits /\ (page.n = 0 => page = Closed)
    /\ clipboard \in [id : Orders, row : Link] \cup {NoRecord}
    /\ \A r \in requests :
          /\ r.id \in 1..sent /\ r.n \in 1..visits /\ r.visit \in 1..visits /\ r.kind \in Kinds /\ r.order \in Orders
          /\ r.answer \in {"none", "ok", "refused", "lost"}
          /\ r.told = None \/ r.told \in Row
    /\ warned \subseteq Orders /\ early \subseteq Orders
    /\ sent \in 0..MaxRequests /\ lost \in 0..MaxLosses
    /\ others \in 0..MaxOthers /\ visits \in 0..MaxVisits

\* The record, its link and every field of the forms belong to the order of the route,
\* whichever loads were left behind (the effect's abort) and whatever is being saved.
RecordIsOwn ==
    Shown => /\ page.order.id = page.at
             /\ page.order.row.link[1] = page.at
             /\ \A s \in Sections : page.form.values[s][1] = page.at

\* No order was shipped from the page before its final payment was confirmed without
\* the operator's being warned (saveChanges), although the page may be behind.
ShippedIsWarned == early \subseteq warned

\* While a change is under way its page has the buttons disabled, and only then: two
\* changes of one page never cross.
SavingMatches ==
    page.n # 0 =>
      Cardinality({r \in requests : r.n = page.n /\ r.kind # "load"})
          = IF page.saving = None THEN 0 ELSE 1

\* On a current record, the final-payment buttons and the status list offer what the
\* server would grant and nothing else (finalRequestAllowed, requestFinalPayment).
OfferedIsGranted ==
    \A o \in Orders :
       /\ ~row[o].requested =>
             (FinalRequestOffered(o, row[o]) <=> FinalRequestAllowed(o, row[o]))
       /\ ~row[o].confirmed =>
             (FinalConfirmOffered(o, row[o]) <=> FinalConfirmAllowed(o, row[o]))
       /\ \A status \in Statuses \ {row[o].status} :
             StatusOffered(row[o], status) <=> StatusAllowed(row[o], status)

\* A message to a customer carries the link of the order it names (PRODUCT.md, rule 5).
CopiedIsOwn == clipboard # NoRecord => clipboard.row[1] = clipboard.id

\* What is stored for an order was entered for that order.
SavedIsOwn == \A o \in Orders, s \in Sections : row[o].values[s][1] = o

\* Loading ends, and so does saving.
LoadingEnds == page.loading ~> ~page.loading
SavingEnds == page.saving # None ~> page.saving = None
-----------------------------------------------------------------------------
(* What the proofs show together with the properties *)

\* Requests of this page for a change.
Changes == {r \in requests : r.n = page.n /\ r.kind # "load"}

\* What a request says can be stored, and what it was told was.
RequestFits(r) ==
    /\ r = [id |-> r.id, n |-> r.n, visit |-> r.visit, kind |-> r.kind, order |-> r.order,
            section |-> r.section, value |-> r.value, answer |-> r.answer, told |-> r.told]
    /\ r.kind = "save" =>
          \/ r.section = "status" /\ r.value \in Statuses
          \/ r.section \in Sections /\ r.value \in Value
    /\ r.kind # "save" => r.section = None /\ r.value = None
    /\ r.answer = "ok" => r.told \in Row

\* There are fields with a record, and where one may come.
FieldsThere == page.n # 0 /\ (page.order # NoRecord \/ Changes # {}) => page.form \in Fields

\* A link has been renewed as often as requests and others did.
LinksFollow ==
    /\ IsFiniteSet(requests)
    /\ \A o \in Orders :
          row[o].link[2] + Cardinality({r \in requests : r.answer = "none"}) <= others + sent

\* A confirmed final payment stays confirmed; an order that is shipped by a request was
\* confirmed, or the operator was warned.
ConfirmedStays ==
    /\ page.order # NoRecord /\ page.order.row.confirmed => row[page.order.id].confirmed
    /\ \A r \in requests :
          /\ r.answer = "ok" /\ r.told.confirmed => row[r.order].confirmed
          /\ r.section = "status" /\ r.value = "shipped" /\ r.order \in Split =>
                row[r.order].confirmed \/ r.order \in warned

IsOwn(r, o) == r.link[1] = o /\ \A s \in Sections : r.values[s][1] = o

\* While the operator stays, everything belongs to the order it is of.
OwnInv ==
    /\ page.saving # None => page.order # NoRecord
    /\ page.n # 0 /\ page.order # NoRecord =>
          /\ page.order.id = page.at /\ IsOwn(page.order.row, page.at)
          /\ \A s \in Sections : page.form.values[s][1] = page.at
    /\ \A o \in Orders : IsOwn(row[o], o)
    /\ \A r \in requests :
          /\ r.answer = "ok" => IsOwn(r.told, r.order)
          /\ r.section \in Sections => r.value[1] = r.order
          /\ r.n = page.n /\ (r.kind # "load" \/ r.visit = visits) => r.order = page.at

IInv ==
    /\ TypeOK /\ FieldsThere /\ LinksFollow /\ ConfirmedStays /\ SavingMatches /\ ShippedIsWarned
    /\ \A r \in requests : RequestFits(r)
    /\ Patient => OwnInv

=============================================================================
