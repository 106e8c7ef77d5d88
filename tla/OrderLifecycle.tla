--------------------------- MODULE OrderLifecycle ---------------------------
(* One order of a shop from creation to archive, as orders.go, customer.go,
   installment_payments.go and historical_orders.go drive it: the operator's
   updates, the customer's two uploads, the rotation of the customer link and
   the automatic cancellation of stale orders, all running concurrently
   against PostgreSQL at READ COMMITTED.

   Every operator handler locks the order row (and the shop row) with FOR
   UPDATE, checks and writes in one transaction, and is one action here.  The
   customer's handlers read the order without a lock, write the image to a
   temporary file, and only then open their transaction: two actions.  The
   cleanup is one transaction over many orders: it reads the candidates, then
   takes their row locks one by one and commits them together.

   A request that is refused before it changes anything is not a step.

   A transaction that carries an image can commit although db.Transaction returns
   an error, or the process can end before it answers: the row stays written and
   the client hears of a failure.  The operator's other commits and the cleanup's
   keep no trace of what was answered, so heard or not they are the same step.  *)
EXTENDS Naturals, Sequences, FiniteSets

CONSTANTS
    Orders,      \* identities of order rows
    Shops,       \* identities of shop rows
    ShopOf,      \* orders.shop_id
    Tokens,      \* values newOpaqueToken can return
    Uploads,     \* multipart requests carrying an image, one per request
    NoUpload,    \* an empty receipt path
    NoToken,     \* the link of an order that is not there yet
    NoOrder,     \* the target of an upload that has not read its order yet
    MaxHistory,  \* bound: status history entries an operator can bring an order to
    MaxFailures  \* bound: failed requests and failed cleanups

ASSUME ShopOfAssumption == ShopOf \in [Orders -> Shops]
ASSUME NoneAssumption ==
    /\ NoUpload \notin Uploads
    /\ NoToken \notin Tokens
    /\ NoOrder \notin Orders
ASSUME BoundAssumption == MaxHistory \in Nat /\ MaxFailures \in Nat

VARIABLES
    order,    \* the committed row of each order
    history,  \* its order_status_history rows, by created_at, id
    issued,   \* tokens newOpaqueToken has returned
    aged,     \* orders whose created_at is 72 hours back or more
    upload,   \* the request state of each upload
    sweep,    \* the cleanup transaction: candidates left, rows updated
    failures  \* failures so far

vars == <<order, history, issued, aged, upload, sweep, failures>>

-----------------------------------------------------------------------------
(* Data *)

Statuses ==
    {"waiting_info", "waiting_payment", "paid", "preparing", "shipped", "cancelled"}

\* What a client can put in the status field: one of the six, or anything else.
RequestedStatuses == Statuses \cup {"unknown"}

\* Variant: the status map is not consulted.
AnyStatus(s) == TRUE

ValidStatus(s) == s \in Statuses

Row ==
    [status       : Statuses \cup {"absent"},
     token        : Tokens \cup {NoToken},
     split        : BOOLEAN,                  \* initial_payment_amount is set
     submitted    : BOOLEAN,                  \* customer_submitted_at is set
     receipt      : Uploads \cup {NoUpload},  \* receipt_file_path
     requested    : BOOLEAN,                  \* final_payment_requested_at is set
     finalReceipt : Uploads \cup {NoUpload},  \* final_receipt_file_path
     confirmed    : BOOLEAN]                  \* final_payment_confirmed_at is set

\* byAdmin: changed_by_admin_id is set. The first entry has no previous status.
HistoryEntry ==
    [from : Statuses \cup {""}, to : Statuses, byAdmin : BOOLEAN]

Entry(from, to, byAdmin) == [from |-> from, to |-> to, byAdmin |-> byAdmin]

WithStatus(row, s) == [row EXCEPT !.status = s]

\* How a transaction that committed ended for its client: the success was answered,
\* or the answer was an error or none.
Commits == {"accepted", "unheard"}

UploadState ==
    [phase : {"idle", "prepared", "refused"} \cup Commits,
     kind  : {"details", "final", "import"},
     order : Orders \cup {NoOrder},
     token : Tokens \cup {NoToken}]

AbsentRow ==
    [status |-> "absent", token |-> NoToken, split |-> FALSE,
     submitted |-> FALSE, receipt |-> NoUpload, requested |-> FALSE,
     finalReceipt |-> NoUpload, confirmed |-> FALSE]

Exists(o) == order[o].status # "absent"

\* The count of history rows with new_status "paid" is not zero.
EverPaid(h) == \E i \in DOMAIN h : h[i].to = "paid"

Init ==
    /\ order = [o \in Orders |-> AbsentRow]
    /\ history = [o \in Orders |-> << >>]
    /\ issued = {}
    /\ aged = {}
    /\ upload = [u \in Uploads |->
                    [phase |-> "idle", kind |-> "details",
                     order |-> NoOrder, token |-> NoToken]]
    /\ sweep = [running |-> FALSE, picked |-> {}, staged |-> {}]
    /\ failures = 0

-----------------------------------------------------------------------------
\* The answer to a commit; one that is not heard is a failure.
Answer(commit) ==
    \/ commit = "accepted" /\ UNCHANGED failures
    \/ commit = "unheard" /\ failures < MaxFailures /\ failures' = failures + 1

-----------------------------------------------------------------------------
(* Row locks. The cleanup keeps the row lock of every order it has updated
   until it ends, and, through the foreign key of the pilot event it writes for
   it, a key-share lock on that order's shop. A customer transaction needs the
   order row; an operator transaction needs the order row and the shop row. *)

OrderFree(o) == o \notin sweep.staged

ShopFree(o) == \A p \in sweep.staged : ShopOf[p] # ShopOf[o]

-----------------------------------------------------------------------------
(* Creation. The keyed, retried creation is OrderCreation's business; here an
   order appears with the commit of its insertion. *)

CreatedRow(t, split) ==
    [AbsentRow EXCEPT !.status = "waiting_info", !.token = t, !.split = split]

CreateOrder(o, t, split) ==
    /\ ~ Exists(o)
    /\ t \notin issued
    /\ order' = [order EXCEPT ![o] = CreatedRow(t, split)]
    /\ history' = [history EXCEPT
          ![o] = << Entry("", "waiting_info", TRUE) >>]
    /\ issued' = issued \cup {t}
    /\ UNCHANGED <<aged, upload, sweep, failures>>

ImportAllowed(s, r) ==
    /\ ValidStatus(s)
    /\ s # "waiting_info"
    /\ s = "waiting_payment" => r # NoUpload

\* A historical order: details already given, with or without a receipt r.
ImportedRow(t, s, r) ==
    [AbsentRow EXCEPT !.status = s, !.token = t, !.submitted = TRUE, !.receipt = r]

ImportHistoricalOrder(o, t, s, r, commit) ==
    /\ ~ Exists(o)
    /\ t \notin issued
    /\ ImportAllowed(s, r)
    /\ r # NoUpload => upload[r].phase = "idle"
    /\ order' = [order EXCEPT ![o] = ImportedRow(t, s, r)]
    /\ history' = [history EXCEPT
          ![o] = << Entry("", s, TRUE) >>]
    /\ issued' = issued \cup {t}
    /\ upload' = [u \in Uploads |->
          IF u = r
          THEN [phase |-> commit, kind |-> "import", order |-> o, token |-> t]
          ELSE upload[u]]
    /\ Answer(commit)
    /\ UNCHANGED <<aged, sweep>>

\* Seventy-two hours have passed since created_at.
Age(o) ==
    /\ Exists(o)
    /\ o \notin aged
    /\ aged' = aged \cup {o}
    /\ UNCHANGED <<order, history, issued, upload, sweep, failures>>

-----------------------------------------------------------------------------
(* The operator *)

\* Variant: a submitted order may go back to waiting_info.
StatusChangeUnguarded(row, s) == s = "waiting_payment" => row.receipt # NoUpload

StatusChangeAllowed(row, s) ==
    /\ s = "waiting_info" => ~ row.submitted
    /\ s = "waiting_payment" => row.receipt # NoUpload

\* updateOrder with a status different from the stored one.
UpdateOrder(o, s) ==
    /\ Exists(o)
    /\ ShopFree(o)
    /\ ValidStatus(s)
    /\ s # order[o].status
    /\ StatusChangeAllowed(order[o], s)
    /\ Len(history[o]) < MaxHistory
    /\ order' = [order EXCEPT ![o] = WithStatus(@, s)]
    /\ history' = [history EXCEPT ![o] = Append(@,
          Entry(order[o].status, s, TRUE))]
    /\ UNCHANGED <<issued, aged, upload, sweep, failures>>

RotateCustomerLink(o, t) ==
    /\ Exists(o)
    /\ ShopFree(o)
    /\ t \notin issued
    /\ order' = [order EXCEPT ![o].token = t]
    /\ issued' = issued \cup {t}
    /\ UNCHANGED <<history, aged, upload, sweep, failures>>

\* Variant: the current status alone is taken as proof of the first payment.
FinalRequestUnpaid(row, h) ==
    /\ row.split
    /\ ~ row.requested
    /\ row.submitted
    /\ row.receipt # NoUpload
    /\ row.status \in {"paid", "preparing", "shipped"}

FinalRequestAllowed(row, h) ==
    /\ row.split
    /\ ~ row.requested
    /\ row.submitted
    /\ row.receipt # NoUpload
    /\ row.status \in {"paid", "preparing", "shipped"}
    /\ EverPaid(h)

RequestFinalPayment(o) ==
    /\ Exists(o)
    /\ ShopFree(o)
    /\ FinalRequestAllowed(order[o], history[o])
    /\ order' = [order EXCEPT ![o].requested = TRUE]
    /\ UNCHANGED <<history, issued, aged, upload, sweep, failures>>

\* Variant: a cancelled order is not excluded.
FinalConfirmCancelled(row) ==
    /\ ~ row.confirmed
    /\ row.split
    /\ row.requested
    /\ row.finalReceipt # NoUpload

FinalConfirmAllowed(row) ==
    /\ ~ row.confirmed
    /\ row.split
    /\ row.requested
    /\ row.finalReceipt # NoUpload
    /\ row.status # "cancelled"

ConfirmFinalPayment(o) ==
    /\ Exists(o)
    /\ ShopFree(o)
    /\ FinalConfirmAllowed(order[o])
    /\ order' = [order EXCEPT ![o].confirmed = TRUE]
    /\ UNCHANGED <<history, issued, aged, upload, sweep, failures>>

-----------------------------------------------------------------------------
(* The customer. Each upload is one request: it reads the order by the token in
   its URL without a lock, stores the image in a temporary file, and then locks
   the row it has read, provided the row still has that token. *)

\* The early answer of submitCustomerDetails; submitFinalReceipt has none.
ReadAllowed(kind, row) == kind = "details" => ~ row.submitted

ReadPublicOrder(u, kind, o) ==
    /\ upload[u].phase = "idle"
    /\ Exists(o)
    /\ ReadAllowed(kind, order[o])
    /\ upload' = [upload EXCEPT ![u] =
          [phase |-> "prepared", kind |-> kind, order |-> o, token |-> order[o].token]]
    /\ UNCHANGED <<order, history, issued, aged, sweep, failures>>

\* Variant: the row is locked by its id alone.
AnyToken(u) == TRUE

\* FOR UPDATE ... WHERE id = order AND secret_token = token finds the row.
TokenCurrent(u) == order[upload[u].order].token = upload[u].token

\* Variant: the status is not checked again under the lock.
DetailsAnyStatus(row) == ~ row.submitted

DetailsAllowed(row) == ~ row.submitted /\ row.status = "waiting_info"

\* Variant: a second final receipt replaces the first.
FinalReceiptReplaces(row) ==
    /\ row.split
    /\ row.requested
    /\ row.status # "cancelled"

FinalReceiptAllowed(row) ==
    /\ row.split
    /\ row.requested
    /\ row.status # "cancelled"
    /\ row.finalReceipt = NoUpload
    /\ ~ row.confirmed

UploadAllowed(u) ==
    /\ TokenCurrent(u)
    /\ upload[u].kind = "details" => DetailsAllowed(order[upload[u].order])
    /\ upload[u].kind = "final" => FinalReceiptAllowed(order[upload[u].order])

\* Variant: a row that no longer has the token is waited for, not answered 404.
LockedIfCurrent(u) ==
    /\ upload[u].phase = "prepared"
    /\ OrderFree(upload[u].order)
    /\ TokenCurrent(u)

\* The upload holds the lock of the row it has read.
Locked(u) ==
    /\ upload[u].phase = "prepared"
    /\ OrderFree(upload[u].order)

SubmittedRow(row, u) ==
    [row EXCEPT !.submitted = TRUE, !.receipt = u, !.status = "waiting_payment"]

SubmitCustomerDetails(u, commit) ==
    LET o == upload[u].order IN
    /\ Locked(u)
    /\ upload[u].kind = "details"
    /\ UploadAllowed(u)
    /\ order' = [order EXCEPT ![o] = SubmittedRow(@, u)]
    /\ history' = [history EXCEPT ![o] = Append(@,
          Entry(order[o].status, "waiting_payment", FALSE))]
    /\ upload' = [upload EXCEPT ![u].phase = commit]
    /\ Answer(commit)
    /\ UNCHANGED <<issued, aged, sweep>>

SubmitFinalReceipt(u, commit) ==
    LET o == upload[u].order IN
    /\ Locked(u)
    /\ upload[u].kind = "final"
    /\ UploadAllowed(u)
    /\ order' = [order EXCEPT ![o].finalReceipt = u]
    /\ upload' = [upload EXCEPT ![u].phase = commit]
    /\ Answer(commit)
    /\ UNCHANGED <<history, issued, aged, sweep>>

\* 404 or 409 from inside the transaction.
RefuseUpload(u) ==
    /\ Locked(u)
    /\ ~ UploadAllowed(u)
    /\ upload' = [upload EXCEPT ![u].phase = "refused"]
    /\ UNCHANGED <<order, history, issued, aged, sweep, failures>>

\* A storage or database error that rolls the transaction back, or the process
\* ends before the commit.
FailUpload(u) ==
    /\ upload[u].phase = "prepared"
    /\ failures < MaxFailures
    /\ upload' = [upload EXCEPT ![u].phase = "refused"]
    /\ failures' = failures + 1
    /\ UNCHANGED <<order, history, issued, aged, sweep>>

-----------------------------------------------------------------------------
(* The cleanup: cancelStaleWaitingInfoOrders, at startup and every hour. *)

Stale(o) == o \in aged /\ order[o].status = "waiting_info"

\* Variant: only orders nobody has touched are looked for.
UntouchedCandidates == {o \in Orders : Stale(o) /\ Len(history[o]) = 1}

Candidates == {o \in Orders : Stale(o)}

StartSweep ==
    /\ ~ sweep.running
    /\ sweep' = [running |-> TRUE, picked |-> Candidates, staged |-> {}]
    /\ UNCHANGED <<order, history, issued, aged, upload, failures>>

\* Variant: the update names the id alone.
UpdateById(o) == TRUE

\* The row still meets the condition of the candidate's UPDATE.
StillStale(o) == Stale(o)

\* The conditional update of one candidate: RowsAffected is 0 or 1.
SweepOrder(o) ==
    /\ sweep.running
    /\ o \in sweep.picked
    /\ sweep' = [sweep EXCEPT
          !.picked = @ \ {o},
          !.staged = IF StillStale(o) THEN @ \cup {o} ELSE @]
    /\ UNCHANGED <<order, history, issued, aged, upload, failures>>

CommitSweep ==
    /\ sweep.running
    /\ sweep.picked = {}
    /\ order' = [o \in Orders |->
          IF o \in sweep.staged
          THEN WithStatus(order[o], "cancelled") ELSE order[o]]
    /\ history' = [o \in Orders |->
          IF o \in sweep.staged
          THEN Append(history[o],
                 Entry("waiting_info", "cancelled", FALSE))
          ELSE history[o]]
    /\ sweep' = [running |-> FALSE, picked |-> {}, staged |-> {}]
    /\ UNCHANGED <<issued, aged, upload, failures>>

\* An error on any statement, a deadlock victim or the end of the process.
AbortSweep ==
    /\ sweep.running
    /\ failures < MaxFailures
    /\ sweep' = [running |-> FALSE, picked |-> {}, staged |-> {}]
    /\ failures' = failures + 1
    /\ UNCHANGED <<order, history, issued, aged, upload>>

-----------------------------------------------------------------------------

Creation(o) ==
    \E t \in Tokens :
        \/ \E split \in BOOLEAN : CreateOrder(o, t, split)
        \/ \E s \in RequestedStatuses, r \in Uploads \cup {NoUpload}, commit \in Commits :
              ImportHistoricalOrder(o, t, s, r, commit)

Operator(o) ==
    \/ \E s \in RequestedStatuses : UpdateOrder(o, s)
    \/ \E t \in Tokens : RotateCustomerLink(o, t)
    \/ RequestFinalPayment(o)
    \/ ConfirmFinalPayment(o)

AnswerUpload(u) ==
    \/ SubmitCustomerDetails(u, "accepted")
    \/ SubmitFinalReceipt(u, "accepted")
    \/ RefuseUpload(u)

LoseUpload(u) ==
    \/ SubmitCustomerDetails(u, "unheard")
    \/ SubmitFinalReceipt(u, "unheard")
    \/ FailUpload(u)

Customer(u) ==
    \/ \E o \in Orders, kind \in {"details", "final"} : ReadPublicOrder(u, kind, o)
    \/ AnswerUpload(u)
    \/ LoseUpload(u)

Sweep ==
    \/ StartSweep
    \/ \E o \in Orders : SweepOrder(o)
    \/ CommitSweep
    \/ AbortSweep

Next ==
    \/ \E o \in Orders : Creation(o) \/ Age(o) \/ Operator(o)
    \/ \E u \in Uploads : Customer(u)
    \/ Sweep

Spec == Init /\ [][Next]_vars

(* The ticker loop starts a cleanup again and again and each one works through
   its candidates; an upload whose row is free gets its lock and its answer. *)
Fairness ==
    /\ WF_vars(StartSweep)
    /\ WF_vars(\E o \in Orders : SweepOrder(o))
    /\ WF_vars(CommitSweep)
    /\ \A u \in Uploads : WF_vars(AnswerUpload(u))

FairSpec == Spec /\ Fairness

-----------------------------------------------------------------------------
(* Properties *)

(* Every variable has its type; a history holds only the six statuses, whatever
   a client has put in the status field. *)
TypeOK ==
    /\ order \in [Orders -> Row]
    /\ history \in [Orders -> Seq(HistoryEntry)]
    /\ issued \subseteq Tokens
    /\ aged \subseteq Orders
    /\ upload \in [Uploads -> UploadState]
    /\ sweep \in [running : BOOLEAN, picked : SUBSET Orders, staged : SUBSET Orders]
    /\ failures \in Nat

(* The status agrees with what the customer has given: waiting_info means no
   details and no receipt, waiting_payment means both, and a receipt is never
   there without details, whatever mix of operator updates, submissions and
   cleanups led here (updateOrder, submitCustomerDetails, importHistoricalOrder). *)
Coherent(row) ==
    /\ row.status \in {"absent", "waiting_info"} => ~ row.submitted
    /\ row.status = "waiting_payment" => row.submitted /\ row.receipt # NoUpload
    /\ row.receipt # NoUpload => row.submitted

StatusCoherent == \A o \in Orders : Coherent(order[o])

(* The history explains the status: it starts with the creation, every entry
   leaves from where the one before it arrived, none is a non-change, and the
   last one arrived at the current status, although three handlers append to it
   and one of them writes a constant as the previous status. *)
Explains(h, s) ==
    /\ s # "absent" <=> h # << >>
    /\ h # << >> => h[1].from = "" /\ h[Len(h)].to = s
    /\ \A i \in 2 .. Len(h) : h[i].from = h[i - 1].to /\ h[i].from # h[i].to

HistoryExplainsStatus == \A o \in Orders : Explains(history[o], order[o].status)

(* Only an operator decides that an order is paid, prepared or shipped: an entry
   without an admin leaves waiting_info, for waiting_payment by the customer or
   for cancelled by the cleanup, so a late upload never reopens an order and a
   late cleanup never cancels one that has moved on. *)
Attributed(h) ==
    \A i \in DOMAIN h :
        ~ h[i].byAdmin =>
            h[i].from = "waiting_info" /\ h[i].to \in {"waiting_payment", "cancelled"}

OnlyOperatorsDecide == \A o \in Orders : Attributed(history[o])

(* The second payment is built on the first: confirmed only with a final receipt,
   a final receipt only on request, and a request only on a split order whose
   first receipt is there and that has been paid at some time. *)
Chained(row, h) ==
    /\ row.confirmed => row.finalReceipt # NoUpload
    /\ row.finalReceipt # NoUpload => row.requested
    /\ row.requested =>
          row.split /\ row.submitted /\ row.receipt # NoUpload /\ EverPaid(h)

FinalPaymentChain == \A o \in Orders : Chained(order[o], history[o])

(* A request that has read an order refers to an order that is there. *)
UploadsHaveOrders ==
    \A u \in Uploads : upload[u].phase # "idle" =>
        upload[u].order \in Orders /\ Exists(upload[u].order)

(* Accepted means recorded: an upload that was answered with success is the
   receipt of the order it read, and every recorded receipt is an upload that read
   this order and was answered with success, or whose commit was not heard of.
   Two uploads of the same kind for an order are therefore never both accepted,
   one that was refused or rolled back is nowhere recorded, and a customer who was
   told of an error may still have succeeded. *)
AcceptedIsRecorded ==
    /\ \A u \in Uploads : upload[u].phase \in Commits =>
          LET r == order[upload[u].order] IN
          IF upload[u].kind = "final" THEN r.finalReceipt = u ELSE r.receipt = u
    /\ \A o \in Orders : \A u \in Uploads :
          u \in {order[o].receipt, order[o].finalReceipt} =>
              upload[u].phase \in Commits /\ upload[u].order = o

(* Every order the cleanup has updated and not yet committed is still stale and
   still has no customer details: nobody gets in between its update and its
   commit. *)
SweepHoldsOnlyUnsubmitted ==
    \A o \in sweep.staged : Stale(o) /\ ~ order[o].submitted

(* What is recorded about payments is never taken back or replaced: the split,
   the submission, both receipts, the request and the confirmation. *)
Keeps(old, new) ==
    /\ new.status # "absent"
    /\ new.split = old.split
    /\ old.submitted => new.submitted
    /\ old.receipt # NoUpload => new.receipt = old.receipt
    /\ old.requested => new.requested
    /\ old.finalReceipt # NoUpload => new.finalReceipt = old.finalReceipt
    /\ old.confirmed => new.confirmed

PaymentFactsPermanent ==
    [][\A o \in Orders : Exists(o) => Keeps(order[o], order'[o])]_vars

(* A replaced link stops working at once: an upload that read the order under an
   older token is not committed after the rotation, however long ago it read and
   whatever is heard of it. *)
OldLinkPowerless ==
    [][\A u \in Uploads :
         upload[u].phase = "prepared" /\ upload'[u].phase \in Commits =>
             order[upload[u].order].token = upload[u].token]_vars

(* While an order is cancelled its payment record stands still. *)
CancelledIsClosed ==
    [][\A o \in Orders :
         order[o].status = "cancelled" /\ order'[o].status = "cancelled" =>
             order'[o] = [order[o] EXCEPT !.token = order'[o].token]]_vars

(* An old order in waiting_info does not stay there for ever, also when an
   operator has moved it back and although a cleanup may fail. *)
StaleEventuallyResolved ==
    \A o \in Orders : Stale(o) ~> order[o].status # "waiting_info"

(* Every upload that reaches its transaction ends, and but for a failure with an
   answer: the row lock it waits for is released. *)
UploadsAnswered ==
    \A u \in Uploads :
        upload[u].phase = "prepared" ~> upload[u].phase \in Commits \cup {"refused"}
=============================================================================
