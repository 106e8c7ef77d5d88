----------------------- MODULE OrderLifecycle_proofs -----------------------
(* Proofs about OrderLifecycle, for any sets of orders, shops, tokens and
   uploads and any bounds. *)
EXTENDS OrderLifecycle, SequenceTheorems, TLAPS

USE DEF vars

\* A sequence of one element.
LEMMA OneElement ==
    ASSUME NEW S, NEW e \in S
    PROVE  /\ << e >> \in Seq(S)
           /\ << e >> # << >>
           /\ Len(<< e >>) = 1
           /\ << e >>[1] = e
           /\ DOMAIN << e >> = {1}
           /\ 2 .. Len(<< e >>) = {}
<1>1. << e >> \in Seq(S) /\ << e >> # << >> /\ << e >>[1] = e
  OBVIOUS
<1>2. Len(<< e >>) = 1
  OBVIOUS
<1>3. DOMAIN << e >> = {1}
  OBVIOUS
<1>4. \A n \in Nat : n = 1 => 2 .. n = {}
  OBVIOUS
<1> QED BY <1>1, <1>2, <1>3, <1>4

\* Appending keeps what was there and adds one entry at the end.
LEMMA Appended ==
    ASSUME NEW h \in Seq(HistoryEntry), NEW e \in HistoryEntry
    PROVE  /\ Append(h, e) \in Seq(HistoryEntry)
           /\ Append(h, e) # << >>
           /\ Len(Append(h, e)) = Len(h) + 1
           /\ DOMAIN Append(h, e) = 1 .. Len(h) + 1
           /\ \A i \in 1 .. Len(h) : Append(h, e)[i] = h[i]
           /\ Append(h, e)[Len(h) + 1] = e
  OBVIOUS

\* Every column update of a handler takes a row to a row.
LEMMA RowUpdates ==
    ASSUME NEW r \in Row
    PROVE  /\ \A s \in Statuses : WithStatus(r, s) \in Row
           /\ \A t \in Tokens : [r EXCEPT !.token = t] \in Row
           /\ [r EXCEPT !.requested = TRUE] \in Row
           /\ [r EXCEPT !.confirmed = TRUE] \in Row
           /\ \A u \in Uploads : [r EXCEPT !.finalReceipt = u] \in Row
           /\ \A u \in Uploads : SubmittedRow(r, u) \in Row
<1>1. \A s \in Statuses : WithStatus(r, s) \in Row
  BY DEF WithStatus, Row
<1>2. \A t \in Tokens : [r EXCEPT !.token = t] \in Row
  BY DEF Row
<1>3. [r EXCEPT !.requested = TRUE] \in Row
  BY DEF Row
<1>4. [r EXCEPT !.confirmed = TRUE] \in Row
  BY DEF Row
<1>5. \A u \in Uploads : [r EXCEPT !.finalReceipt = u] \in Row
  BY DEF Row
<1>6. \A u \in Uploads : SubmittedRow(r, u) \in Row
  BY DEF SubmittedRow, Row, Statuses
<1> QED BY <1>1, <1>2, <1>3, <1>4, <1>5, <1>6

\* A request that is not there yet, waits or was refused has committed nothing.
LEMMA Uncommitted ==
    "idle" \notin Commits /\ "prepared" \notin Commits /\ "refused" \notin Commits
  BY DEF Commits

\* An answer, heard or not, leaves a count of failures.
LEMMA AnswerType ==
    ASSUME TypeOK, NEW commit, Answer(commit)
    PROVE  failures' \in Nat
  BY DEF Answer, TypeOK

\* What one upload may do: a commit, heard or not, a refusal, a failure or a read.
LEMMA CustomerCases ==
    ASSUME NEW u \in Uploads, Customer(u)
    PROVE  \/ \E commit \in Commits :
                SubmitCustomerDetails(u, commit) \/ SubmitFinalReceipt(u, commit)
           \/ RefuseUpload(u) \/ FailUpload(u)
           \/ \E o \in Orders, kind \in {"details", "final"} : ReadPublicOrder(u, kind, o)
<1>1. "accepted" \in Commits /\ "unheard" \in Commits
  BY DEF Commits
<1> QED BY <1>1 DEF Customer, AnswerUpload, LoseUpload

\* Every step keeps the types.
LEMMA TypeStep ==
    ASSUME TypeOK, [Next]_vars
    PROVE  TypeOK'
<1> USE TypeOK DEF TypeOK
<1>1. ASSUME NEW o \in Orders, NEW t \in Tokens, NEW split \in BOOLEAN,
             CreateOrder(o, t, split)
      PROVE  TypeOK'
  <2>1. CreatedRow(t, split) \in Row
    BY DEF CreatedRow, AbsentRow, Row, Statuses
  <2> DEFINE e == Entry("", "waiting_info", TRUE)
  <2>a. e \in HistoryEntry
    BY DEF Entry, HistoryEntry, Statuses
  <2>2. << e >> \in Seq(HistoryEntry)
    <3> HIDE DEF e
    <3> QED BY <2>a, OneElement
  <2> QED BY <1>1, <2>1, <2>2 DEF CreateOrder
<1>2. ASSUME NEW o \in Orders, NEW t \in Tokens, NEW s \in RequestedStatuses,
             NEW r \in Uploads \cup {NoUpload}, NEW commit \in Commits,
             ImportHistoricalOrder(o, t, s, r, commit)
      PROVE  TypeOK'
  <2>1. s \in Statuses
    BY <1>2 DEF ImportHistoricalOrder, ImportAllowed, ValidStatus
  <2>2. ImportedRow(t, s, r) \in Row
    BY <2>1 DEF ImportedRow, AbsentRow, Row
  <2> DEFINE e == Entry("", s, TRUE)
  <2>a. e \in HistoryEntry
    BY <2>1 DEF Entry, HistoryEntry
  <2>3. << e >> \in Seq(HistoryEntry)
    <3> HIDE DEF e
    <3> QED BY <2>a, OneElement
  <2>4. [phase |-> commit, kind |-> "import", order |-> o, token |-> t] \in UploadState
    BY DEF UploadState, Commits
  <2>5. order' \in [Orders -> Row] /\ history' \in [Orders -> Seq(HistoryEntry)]
    BY <1>2, <2>2, <2>3 DEF ImportHistoricalOrder
  <2>6. upload' \in [Uploads -> UploadState]
    BY <1>2, <2>4 DEF ImportHistoricalOrder
  <2>7. issued' \subseteq Tokens /\ UNCHANGED <<aged, sweep>> /\ failures' \in Nat
    BY <1>2, AnswerType DEF ImportHistoricalOrder
  <2> QED BY <2>5, <2>6, <2>7
<1>3. ASSUME NEW o \in Orders, Age(o) PROVE TypeOK'
  BY <1>3 DEF Age
<1>4. ASSUME NEW o \in Orders, NEW s \in RequestedStatuses, UpdateOrder(o, s)
      PROVE  TypeOK'
  <2>1. s \in Statuses /\ order[o].status \in Statuses
    BY <1>4 DEF UpdateOrder, ValidStatus, Exists, Row
  <2>2. WithStatus(order[o], s) \in Row
    BY <2>1, RowUpdates
  <2>3. Entry(order[o].status, s, TRUE) \in HistoryEntry
    BY <2>1 DEF Entry, HistoryEntry
  <2>4. Append(history[o], Entry(order[o].status, s, TRUE)) \in Seq(HistoryEntry)
    BY <2>3, Appended
  <2> QED BY <1>4, <2>2, <2>4 DEF UpdateOrder
<1>5. ASSUME NEW o \in Orders, NEW t \in Tokens, RotateCustomerLink(o, t)
      PROVE  TypeOK'
  <2>1. [order[o] EXCEPT !.token = t] \in Row
    BY RowUpdates
  <2> QED BY <1>5, <2>1 DEF RotateCustomerLink
<1>6. ASSUME NEW o \in Orders, RequestFinalPayment(o) PROVE TypeOK'
  <2>1. [order[o] EXCEPT !.requested = TRUE] \in Row
    BY RowUpdates
  <2> QED BY <1>6, <2>1 DEF RequestFinalPayment
<1>7. ASSUME NEW o \in Orders, ConfirmFinalPayment(o) PROVE TypeOK'
  <2>1. [order[o] EXCEPT !.confirmed = TRUE] \in Row
    BY RowUpdates
  <2> QED BY <1>7, <2>1 DEF ConfirmFinalPayment
<1>8. ASSUME NEW u \in Uploads, NEW o \in Orders, NEW kind \in {"details", "final"},
             ReadPublicOrder(u, kind, o)
      PROVE  TypeOK'
  <2>1. [phase |-> "prepared", kind |-> kind, order |-> o,
         token |-> order[o].token] \in UploadState
    BY DEF UploadState, Commits, Row
  <2> QED BY <1>8, <2>1 DEF ReadPublicOrder
<1>9. ASSUME NEW u \in Uploads, NEW commit \in Commits,
             SubmitCustomerDetails(u, commit) PROVE TypeOK'
  <2> DEFINE o == upload[u].order
  <2>1. order' \in [Orders -> Row]
    <3>1. o \in Orders => SubmittedRow(order[o], u) \in Row
      BY RowUpdates
    <3>2. order' = [order EXCEPT ![o] = SubmittedRow(order[o], u)]
      BY <1>9 DEF SubmitCustomerDetails
    <3> HIDE DEF o
    <3> QED BY <3>1, <3>2
  <2>2. history' \in [Orders -> Seq(HistoryEntry)]
    <3> DEFINE e == Entry(order[o].status, "waiting_payment", FALSE)
    <3>1. order[o].status = "waiting_info"
      BY <1>9 DEF SubmitCustomerDetails, UploadAllowed, DetailsAllowed
    <3>2. e \in HistoryEntry
      BY <3>1 DEF Entry, HistoryEntry, Statuses
    <3>3. history' = [history EXCEPT ![o] = Append(history[o], e)]
      BY <1>9 DEF SubmitCustomerDetails
    <3> HIDE DEF o, e
    <3>4. o \in Orders => Append(history[o], e) \in Seq(HistoryEntry)
      BY <3>2
    <3> QED BY <3>3, <3>4
  <2>3. upload' \in [Uploads -> UploadState]
    <3>1. [upload[u] EXCEPT !.phase = commit] \in UploadState
      BY ZenonT(60) DEF UploadState, Commits
    <3> QED BY <1>9, <3>1 DEF SubmitCustomerDetails
  <2>4. UNCHANGED <<issued, aged, sweep>> /\ failures' \in Nat
    BY <1>9, AnswerType DEF SubmitCustomerDetails
  <2> QED BY <2>1, <2>2, <2>3, <2>4
<1>10. ASSUME NEW u \in Uploads, NEW commit \in Commits,
             SubmitFinalReceipt(u, commit) PROVE TypeOK'
  <2> DEFINE o == upload[u].order
  <2>1. order' \in [Orders -> Row]
    <3>1. o \in Orders => [order[o] EXCEPT !.finalReceipt = u] \in Row
      BY RowUpdates
    <3>2. order' = [order EXCEPT ![o].finalReceipt = u]
      BY <1>10 DEF SubmitFinalReceipt
    <3> HIDE DEF o
    <3> QED BY <3>1, <3>2
  <2>2. upload' \in [Uploads -> UploadState]
    <3>1. [upload[u] EXCEPT !.phase = commit] \in UploadState
      BY DEF UploadState, Commits
    <3> QED BY <1>10, <3>1 DEF SubmitFinalReceipt
  <2>3. /\ history' = history /\ issued' = issued /\ aged' = aged
        /\ sweep' = sweep /\ failures' \in Nat
    BY <1>10, AnswerType DEF SubmitFinalReceipt
  <2> QED BY <2>1, <2>2, <2>3
<1>11. ASSUME NEW u \in Uploads, RefuseUpload(u) \/ FailUpload(u) PROVE TypeOK'
  <2>1. [upload[u] EXCEPT !.phase = "refused"] \in UploadState
    BY ZenonT(60) DEF UploadState, Commits
  <2>2. CASE RefuseUpload(u)
    BY <2>1, <2>2 DEF RefuseUpload
  <2>3. CASE FailUpload(u)
    BY <2>1, <2>3 DEF FailUpload
  <2> QED BY <1>11, <2>2, <2>3
<1>12. CASE StartSweep
  BY <1>12 DEF StartSweep, Candidates
<1>13. ASSUME NEW o \in Orders, SweepOrder(o) PROVE TypeOK'
  BY <1>13 DEF SweepOrder
<1>14. CASE CommitSweep
  <2>1. \A o \in Orders : WithStatus(order[o], "cancelled") \in Row
    BY RowUpdates DEF Statuses
  <2>2. Entry("waiting_info", "cancelled", FALSE) \in HistoryEntry
    BY DEF Entry, HistoryEntry, Statuses
  <2>3. \A o \in Orders :
           Append(history[o], Entry("waiting_info", "cancelled", FALSE)) \in Seq(HistoryEntry)
    BY <2>2, Appended
  <2>4. order' \in [Orders -> Row]
    BY <1>14, <2>1 DEF CommitSweep
  <2>5. history' \in [Orders -> Seq(HistoryEntry)]
    BY <1>14, <2>3 DEF CommitSweep
  <2> QED BY <1>14, <2>4, <2>5 DEF CommitSweep
<1>15. CASE AbortSweep
  BY <1>15 DEF AbortSweep
<1>16. CASE UNCHANGED vars
  BY <1>16
<1>17. ASSUME NEW u \in Uploads, Customer(u) PROVE TypeOK'
  BY <1>8, <1>9, <1>10, <1>11, <1>17, CustomerCases
<1> QED
  BY <1>1, <1>2, <1>3, <1>4, <1>5, <1>6, <1>7,
     <1>12, <1>13, <1>14, <1>15, <1>16, <1>17
     DEF Next, Creation, Operator, Sweep

(* Every handler keeps the rows, their history and the requests well formed: in
   particular the status column only ever holds one of the six statuses although
   the client chooses the value (updateOrder, importHistoricalOrder). *)
THEOREM TypeCorrect == Spec => []TypeOK
<1>1. Init => TypeOK
  BY DEF Init, TypeOK, AbsentRow, Row, UploadState, Commits
<1>2. TypeOK /\ [Next]_vars => TypeOK'
  BY TypeStep
<1> QED BY <1>1, <1>2, PTL DEF Spec

-----------------------------------------------------------------------------
(* The inductive invariant. It is a statement about each row and its history,
   one about uploads and rows together, and one about the cleanup. *)

RowInv(r, h) ==
    /\ r \in Row
    /\ h \in Seq(HistoryEntry)
    /\ Coherent(r)
    /\ Explains(h, r.status)
    /\ Attributed(h)
    /\ Chained(r, h)

Inv ==
    /\ TypeOK
    /\ \A o \in Orders : RowInv(order[o], history[o])
    /\ UploadsHaveOrders
    /\ AcceptedIsRecorded
    /\ SweepHoldsOnlyUnsubmitted

\* A row r may become n, with history g: n is sound and keeps what r had recorded.
StepSound(r, n, g) ==
    /\ RowInv(n, g)
    /\ r.status # "absent" => Keeps(r, n)

\* A history that explains s, continued by an entry from s, explains its target.
LEMMA ExplainsAppend ==
    ASSUME NEW h \in Seq(HistoryEntry), NEW e \in HistoryEntry, NEW s,
           s # "absent", Explains(h, s), e.from = s, e.to # s
    PROVE  Explains(Append(h, e), e.to)
<1> DEFINE g == Append(h, e)
<1>0. h # << >> /\ h[1].from = "" /\ h[Len(h)].to = s
  BY DEF Explains
<1>1. Len(h) \in Nat \ {0}
  BY <1>0, EmptySeq
<1>2. /\ g # << >> /\ Len(g) = Len(h) + 1
      /\ \A i \in 1 .. Len(h) : g[i] = h[i]
      /\ g[Len(h) + 1] = e
  BY Appended
<1>3. e.to # "absent"
  BY DEF HistoryEntry, Statuses
<1> HIDE DEF g
<1>4. g[1].from = ""
  <2>1. 1 \in 1 .. Len(h)
    BY <1>1
  <2> QED BY <1>0, <1>2, <2>1
<1>5. ASSUME NEW i \in 2 .. Len(g)
      PROVE  g[i].from = g[i - 1].to /\ g[i].from # g[i].to
  <2>0. i \in Nat /\ i >= 2 /\ i <= Len(h) + 1
    BY <1>1, <1>2
  <2>1. CASE i = Len(h) + 1
    <3>1. i - 1 = Len(h) /\ Len(h) \in 1 .. Len(h)
      BY <1>1, <2>1
    <3>2. g[i] = e /\ g[i - 1] = h[Len(h)]
      BY <1>2, <2>1, <3>1
    <3> QED BY <1>0, <3>2
  <2>2. CASE i # Len(h) + 1
    <3>1. i \in 2 .. Len(h) /\ i \in 1 .. Len(h) /\ i - 1 \in 1 .. Len(h)
      BY <1>1, <2>0, <2>2
    <3>2. h[i].from = h[i - 1].to /\ h[i].from # h[i].to
      BY <3>1 DEF Explains
    <3>3. g[i] = h[i] /\ g[i - 1] = h[i - 1]
      BY <1>2, <3>1
    <3> QED BY <3>2, <3>3
  <2> QED BY <2>1, <2>2
<1>6. Explains(g, e.to)
  <2>1. g[Len(g)].to = e.to
    BY <1>2
  <2> QED BY <1>2, <1>3, <1>4, <1>5, <2>1 DEF Explains
<1> QED BY <1>6 DEF g

\* A history of one entry, by an admin, explains the status it arrives at.
LEMMA FirstEntry ==
    ASSUME NEW e \in HistoryEntry, e.from = "", e.byAdmin
    PROVE  Explains(<< e >>, e.to) /\ Attributed(<< e >>)
<1> DEFINE h == << e >>
<1>1. h # << >> /\ Len(h) = 1 /\ h[1] = e /\ DOMAIN h = {1} /\ 2 .. Len(h) = {}
  BY OneElement
<1>2. e.to # "absent"
  BY DEF HistoryEntry, Statuses
<1> HIDE DEF h
<1>3. Explains(h, e.to)
  BY <1>1, <1>2, Zenon DEF Explains
<1>4. Attributed(h)
  BY <1>1, Zenon DEF Attributed
<1> QED BY <1>3, <1>4 DEF h

\* An entry that may stand without an admin, or has one, keeps the attribution.
LEMMA AttributedAppend ==
    ASSUME NEW h \in Seq(HistoryEntry), NEW e \in HistoryEntry, Attributed(h),
           ~ e.byAdmin => /\ e.from = "waiting_info"
                          /\ e.to \in {"waiting_payment", "cancelled"}
    PROVE  Attributed(Append(h, e))
<1> DEFINE g == Append(h, e)
<1>1. /\ DOMAIN g = 1 .. Len(h) + 1
      /\ \A i \in 1 .. Len(h) : g[i] = h[i]
      /\ g[Len(h) + 1] = e
      /\ Len(h) \in Nat /\ DOMAIN h = 1 .. Len(h)
  BY Appended
<1> HIDE DEF g
<1>2. ASSUME NEW i \in DOMAIN g
      PROVE  ~ g[i].byAdmin =>
                g[i].from = "waiting_info" /\ g[i].to \in {"waiting_payment", "cancelled"}
  <2>1. CASE i = Len(h) + 1
    BY <1>1, <2>1
  <2>2. CASE i # Len(h) + 1
    <3>1. i \in DOMAIN h /\ g[i] = h[i]
      BY <1>1, <2>2
    <3> QED BY <3>1 DEF Attributed
  <2> QED BY <2>1, <2>2
<1>3. Attributed(g)
  BY <1>2 DEF Attributed
<1> QED BY <1>3 DEF g

\* An order that has been paid stays one that has been paid.
LEMMA EverPaidAppend ==
    ASSUME NEW h \in Seq(HistoryEntry), NEW e \in HistoryEntry, EverPaid(h)
    PROVE  EverPaid(Append(h, e))
<1>1. PICK i \in DOMAIN h : h[i].to = "paid"
  BY DEF EverPaid
<1>2. i \in DOMAIN Append(h, e) /\ Append(h, e)[i] = h[i]
  BY Appended
<1> QED BY <1>1, <1>2 DEF EverPaid

-----------------------------------------------------------------------------
(* What each handler writes to a row keeps the row and its history sound. *)

(* A row that CreateOrder inserts, with its first history entry, is sound. *)
LEMMA CreatedSound ==
    ASSUME NEW t \in Tokens, NEW split \in BOOLEAN
    PROVE  RowInv(CreatedRow(t, split),
                  << Entry("", "waiting_info", TRUE) >>)
<1> DEFINE r == CreatedRow(t, split)
           e == Entry("", "waiting_info", TRUE)
<1>1. /\ r \in Row
      /\ r.status = "waiting_info" /\ r.submitted = FALSE
      /\ r.receipt = NoUpload /\ r.finalReceipt = NoUpload
      /\ r.requested = FALSE /\ r.confirmed = FALSE
  BY DEF CreatedRow, AbsentRow, Row, Statuses
<1>2. /\ e \in HistoryEntry
      /\ e.from = "" /\ e.to = "waiting_info" /\ e.byAdmin = TRUE
  BY DEF Entry, HistoryEntry, Statuses
<1> HIDE DEF r, e
<1>3. << e >> \in Seq(HistoryEntry)
  BY <1>2, OneElement
<1>4. Explains(<< e >>, e.to) /\ Attributed(<< e >>)
  BY <1>2, FirstEntry
<1>5. Coherent(r) /\ Chained(r, << e >>)
  BY <1>1 DEF Coherent, Chained
<1>6. RowInv(r, << e >>)
  BY <1>1, <1>2, <1>3, <1>4, <1>5 DEF RowInv
<1> QED BY <1>6 DEF r, e

(* So is a row that an import inserts in any status it allows. *)
LEMMA ImportedSound ==
    ASSUME NEW t \in Tokens, NEW s, NEW u \in Uploads \cup {NoUpload},
           ImportAllowed(s, u)
    PROVE  RowInv(ImportedRow(t, s, u),
                  << Entry("", s, TRUE) >>)
<1> DEFINE r == ImportedRow(t, s, u)
           e == Entry("", s, TRUE)
<1>1. /\ s \in Statuses /\ s # "waiting_info"
      /\ s = "waiting_payment" => u # NoUpload
  BY DEF ImportAllowed, ValidStatus
<1>2. /\ r \in Row
      /\ r.status = s /\ r.submitted = TRUE
      /\ r.receipt = u /\ r.finalReceipt = NoUpload
      /\ r.requested = FALSE /\ r.confirmed = FALSE
  BY <1>1 DEF ImportedRow, AbsentRow, Row
<1>3. e \in HistoryEntry /\ e.from = "" /\ e.to = s /\ e.byAdmin = TRUE
  BY <1>1 DEF Entry, HistoryEntry
<1>4. s # "absent"
  BY <1>1 DEF Statuses
<1> HIDE DEF r, e
<1>5. << e >> \in Seq(HistoryEntry)
  BY <1>3, OneElement
<1>6. Explains(<< e >>, e.to) /\ Attributed(<< e >>)
  BY <1>3, FirstEntry
<1>7. Coherent(r) /\ Chained(r, << e >>)
  BY <1>1, <1>2, <1>4 DEF Coherent, Chained
<1>8. RowInv(r, << e >>)
  BY <1>2, <1>3, <1>5, <1>6, <1>7 DEF RowInv
<1> QED BY <1>8 DEF r, e

\* A status change by the operator, or the cleanup's of an order it found stale.
LEMMA StatusChangeSound ==
    ASSUME NEW r, NEW h, RowInv(r, h), NEW s \in Statuses, NEW b,
           r.status # "absent", s # r.status, StatusChangeAllowed(r, s),
           \/ b = TRUE
           \/ b = FALSE /\ r.status = "waiting_info" /\ s = "cancelled"
    PROVE  StepSound(r, WithStatus(r, s),
                     Append(h, Entry(r.status, s, b)))
<1> DEFINE q == WithStatus(r, s)
           e == Entry(r.status, s, b)
<1>1. /\ r \in Row /\ h \in Seq(HistoryEntry)
      /\ Coherent(r) /\ Explains(h, r.status) /\ Attributed(h) /\ Chained(r, h)
  BY DEF RowInv
<1>2. /\ q \in Row
      /\ q.status = s /\ q.split = r.split /\ q.submitted = r.submitted
      /\ q.receipt = r.receipt /\ q.requested = r.requested
      /\ q.finalReceipt = r.finalReceipt /\ q.confirmed = r.confirmed
  BY <1>1 DEF WithStatus, Row
<1>3. /\ e \in HistoryEntry
      /\ e.from = r.status /\ e.to = s /\ e.byAdmin = b
  BY <1>1 DEF Entry, HistoryEntry, Row
<1>4. s # "absent"
  BY DEF Statuses
<1>5. Coherent(q)
  BY <1>1, <1>2, <1>4 DEF Coherent, StatusChangeAllowed
<1> HIDE DEF q, e
<1>6. Append(h, e) \in Seq(HistoryEntry) /\ Explains(Append(h, e), e.to)
  BY <1>1, <1>3, Appended, ExplainsAppend
<1>7. Attributed(Append(h, e))
  BY <1>1, <1>3, AttributedAppend
<1>8. EverPaid(h) => EverPaid(Append(h, e))
  BY <1>1, <1>3, EverPaidAppend
<1>9. Chained(q, Append(h, e))
  BY <1>1, <1>2, <1>8 DEF Chained
<1>10. StepSound(r, q, Append(h, e))
  BY <1>2, <1>4, <1>3, <1>5, <1>6, <1>7, <1>9 DEF RowInv, StepSound, Keeps
<1> QED BY <1>10 DEF q, e

(* So does a customer's submission under DetailsAllowed. *)
LEMMA SubmittedSound ==
    ASSUME NEW r, NEW h, RowInv(r, h), NEW u \in Uploads, DetailsAllowed(r)
    PROVE  StepSound(r, SubmittedRow(r, u),
                     Append(h, Entry(r.status, "waiting_payment", FALSE)))
<1> DEFINE q == SubmittedRow(r, u)
           e == Entry(r.status, "waiting_payment", FALSE)
<1>1. /\ r \in Row /\ h \in Seq(HistoryEntry)
      /\ Coherent(r) /\ Explains(h, r.status) /\ Attributed(h) /\ Chained(r, h)
  BY DEF RowInv
<1>2. ~ r.submitted /\ r.status = "waiting_info"
  BY DEF DetailsAllowed
<1>a. q \in Row
  BY <1>1, RowUpdates
<1>3. /\ q \in Row
      /\ q.status = "waiting_payment" /\ q.submitted = TRUE /\ q.receipt = u
      /\ q.split = r.split
      /\ q.requested = r.requested
      /\ q.finalReceipt = r.finalReceipt /\ q.confirmed = r.confirmed
  BY <1>1, <1>a DEF SubmittedRow, Row
<1>4. /\ e \in HistoryEntry
      /\ e.from = r.status /\ e.to = "waiting_payment" /\ e.byAdmin = FALSE
  BY <1>2 DEF Entry, HistoryEntry, Statuses
<1> HIDE DEF q, e
<1>5. Append(h, e) \in Seq(HistoryEntry) /\ Explains(Append(h, e), e.to)
  BY <1>1, <1>2, <1>4, Appended, ExplainsAppend
<1>6. Attributed(Append(h, e))
  BY <1>1, <1>2, <1>4, AttributedAppend
<1>7. u # NoUpload
  BY NoneAssumption
<1>8. Coherent(q)
  BY <1>3, <1>7 DEF Coherent
<1>9. Chained(q, Append(h, e))
  BY <1>1, <1>2, <1>3 DEF Chained
<1>10. Keeps(r, q)
  BY <1>1, <1>2, <1>3 DEF Keeps, Coherent
<1>11. StepSound(r, q, Append(h, e))
  BY <1>3, <1>4, <1>5, <1>6, <1>8, <1>9, <1>10 DEF RowInv, StepSound
<1> QED BY <1>11 DEF q, e

(* So does a new link. *)
LEMMA RotatedSound ==
    ASSUME NEW r, NEW h, RowInv(r, h), NEW t \in Tokens
    PROVE  StepSound(r, [r EXCEPT !.token = t], h)
<1>1. r \in Row
  BY DEF RowInv
<1>2. [r EXCEPT !.token = t] \in Row
  BY <1>1, RowUpdates
<1> QED BY <1>1, <1>2 DEF RowInv, StepSound, Keeps, Coherent, Chained, Row

(* So does the request for the remainder under FinalRequestAllowed. *)
LEMMA RequestedSound ==
    ASSUME NEW r, NEW h, RowInv(r, h), FinalRequestAllowed(r, h)
    PROVE  StepSound(r, [r EXCEPT !.requested = TRUE], h)
<1>1. r \in Row
  BY DEF RowInv
<1>2. [r EXCEPT !.requested = TRUE] \in Row
  BY <1>1, RowUpdates
<1> QED BY <1>1, <1>2 DEF RowInv, StepSound, Keeps, Coherent, Chained, FinalRequestAllowed, Row

(* So does a final receipt under FinalReceiptAllowed. *)
LEMMA FinalReceiptSound ==
    ASSUME NEW r, NEW h, RowInv(r, h), NEW u \in Uploads, FinalReceiptAllowed(r)
    PROVE  StepSound(r, [r EXCEPT !.finalReceipt = u], h)
<1>1. r \in Row
  BY DEF RowInv
<1>2. [r EXCEPT !.finalReceipt = u] \in Row
  BY <1>1, RowUpdates
<1> QED BY <1>1, <1>2, NoneAssumption
       DEF RowInv, StepSound, Keeps, Coherent, Chained, FinalReceiptAllowed, Row

(* So does the confirmation under FinalConfirmAllowed. *)
LEMMA ConfirmedSound ==
    ASSUME NEW r, NEW h, RowInv(r, h), FinalConfirmAllowed(r)
    PROVE  StepSound(r, [r EXCEPT !.confirmed = TRUE], h)
<1>1. r \in Row
  BY DEF RowInv
<1>2. [r EXCEPT !.confirmed = TRUE] \in Row
  BY <1>1, RowUpdates
<1> QED BY <1>1, <1>2 DEF RowInv, StepSound, Keeps, Coherent, Chained, FinalConfirmAllowed, Row

\* A row that is left alone stays as it is.
LEMMA SameSound ==
    ASSUME NEW r, NEW h, RowInv(r, h)
    PROVE  StepSound(r, r, h)
  BY DEF StepSound, Keeps

-----------------------------------------------------------------------------
(* The inductive invariant is preserved: rows and histories first, then the
   uploads, then the cleanup. *)

(* Every step, seen from any one order, is sound: the row and its history stay
   sound and what is recorded about payments is kept. *)
LEMMA RowsStep ==
    ASSUME Inv, [Next]_vars
    PROVE  \A p \in Orders : StepSound(order[p], order'[p], history'[p])
<1> SUFFICES ASSUME NEW p \in Orders PROVE StepSound(order[p], order'[p], history'[p])
  OBVIOUS
<1>0. RowInv(order[p], history[p]) /\ TypeOK
  BY DEF Inv
<1>1. ASSUME UNCHANGED <<order, history>> PROVE StepSound(order[p], order'[p], history'[p])
  BY <1>0, <1>1, SameSound
<1>2. ASSUME NEW o \in Orders, NEW t \in Tokens, NEW split \in BOOLEAN,
             CreateOrder(o, t, split)
      PROVE  StepSound(order[p], order'[p], history'[p])
  <2>1. CASE p = o
    <3>1. /\ order[p].status = "absent"
          /\ order'[p] = CreatedRow(t, split)
          /\ history'[p] = << Entry("", "waiting_info", TRUE) >>
      BY <1>0, <1>2, <2>1 DEF CreateOrder, Exists, TypeOK
    <3> QED BY <3>1, CreatedSound DEF StepSound
  <2>2. CASE p # o
    <3>1. order'[p] = order[p] /\ history'[p] = history[p]
      BY <1>0, <1>2, <2>2 DEF CreateOrder, TypeOK
    <3> QED BY <1>0, <3>1, SameSound
  <2> QED BY <2>1, <2>2
<1>3. ASSUME NEW o \in Orders, NEW t \in Tokens, NEW s \in RequestedStatuses,
             NEW u \in Uploads \cup {NoUpload}, NEW commit \in Commits,
             ImportHistoricalOrder(o, t, s, u, commit)
      PROVE  StepSound(order[p], order'[p], history'[p])
  <2>1. CASE p = o
    <3>1. /\ ImportAllowed(s, u) /\ order[p].status = "absent"
          /\ order'[p] = ImportedRow(t, s, u)
          /\ history'[p] = << Entry("", s, TRUE) >>
      BY <1>0, <1>3, <2>1 DEF ImportHistoricalOrder, Exists, TypeOK
    <3> QED BY <3>1, ImportedSound DEF StepSound
  <2>2. CASE p # o
    <3>1. order'[p] = order[p] /\ history'[p] = history[p]
      BY <1>0, <1>3, <2>2 DEF ImportHistoricalOrder, TypeOK
    <3> QED BY <1>0, <3>1, SameSound
  <2> QED BY <2>1, <2>2
<1>4. ASSUME NEW o \in Orders, NEW s \in RequestedStatuses, UpdateOrder(o, s)
      PROVE  StepSound(order[p], order'[p], history'[p])
  <2>1. CASE p = o
    <3>1. /\ s \in Statuses /\ s # order[p].status
          /\ order[p].status # "absent" /\ StatusChangeAllowed(order[p], s)
          /\ order'[p] = WithStatus(order[p], s)
          /\ history'[p] = Append(history[p],
                Entry(order[p].status, s, TRUE))
      BY <1>0, <1>4, <2>1 DEF UpdateOrder, Exists, ValidStatus, TypeOK
    <3>2. StepSound(order[p], WithStatus(order[p], s),
                    Append(history[p], Entry(order[p].status, s, TRUE)))
      BY <1>0, <3>1, StatusChangeSound
    <3> QED BY <3>1, <3>2
  <2>2. CASE p # o
    <3>1. order'[p] = order[p] /\ history'[p] = history[p]
      BY <1>0, <1>4, <2>2 DEF UpdateOrder, TypeOK
    <3> QED BY <1>0, <3>1, SameSound
  <2> QED BY <2>1, <2>2
<1>5. ASSUME NEW o \in Orders, NEW t \in Tokens, RotateCustomerLink(o, t)
      PROVE  StepSound(order[p], order'[p], history'[p])
  <2>1. CASE p = o
    <3>1. order'[p] = [order[p] EXCEPT !.token = t] /\ history'[p] = history[p]
      BY <1>0, <1>5, <2>1 DEF RotateCustomerLink, TypeOK
    <3> QED BY <1>0, <3>1, RotatedSound
  <2>2. CASE p # o
    <3>1. order'[p] = order[p] /\ history'[p] = history[p]
      BY <1>0, <1>5, <2>2 DEF RotateCustomerLink, TypeOK
    <3> QED BY <1>0, <3>1, SameSound
  <2> QED BY <2>1, <2>2
<1>6. ASSUME NEW o \in Orders, RequestFinalPayment(o)
      PROVE  StepSound(order[p], order'[p], history'[p])
  <2>1. CASE p = o
    <3>1. /\ FinalRequestAllowed(order[p], history[p])
          /\ order'[p] = [order[p] EXCEPT !.requested = TRUE]
          /\ history'[p] = history[p]
      BY <1>0, <1>6, <2>1 DEF RequestFinalPayment, TypeOK
    <3> QED BY <1>0, <3>1, RequestedSound
  <2>2. CASE p # o
    <3>1. order'[p] = order[p] /\ history'[p] = history[p]
      BY <1>0, <1>6, <2>2 DEF RequestFinalPayment, TypeOK
    <3> QED BY <1>0, <3>1, SameSound
  <2> QED BY <2>1, <2>2
<1>7. ASSUME NEW o \in Orders, ConfirmFinalPayment(o)
      PROVE  StepSound(order[p], order'[p], history'[p])
  <2>1. CASE p = o
    <3>1. /\ FinalConfirmAllowed(order[p])
          /\ order'[p] = [order[p] EXCEPT !.confirmed = TRUE]
          /\ history'[p] = history[p]
      BY <1>0, <1>7, <2>1 DEF ConfirmFinalPayment, TypeOK
    <3> QED BY <1>0, <3>1, ConfirmedSound
  <2>2. CASE p # o
    <3>1. order'[p] = order[p] /\ history'[p] = history[p]
      BY <1>0, <1>7, <2>2 DEF ConfirmFinalPayment, TypeOK
    <3> QED BY <1>0, <3>1, SameSound
  <2> QED BY <2>1, <2>2
<1>8. ASSUME NEW u \in Uploads, NEW commit \in Commits,
             SubmitCustomerDetails(u, commit)
      PROVE  StepSound(order[p], order'[p], history'[p])
  <2> DEFINE o == upload[u].order
  <2>1. /\ DetailsAllowed(order[o])
        /\ order' = [order EXCEPT ![o] = SubmittedRow(order[o], u)]
        /\ history' = [history EXCEPT ![o] = Append(history[o],
              Entry(order[o].status, "waiting_payment", FALSE))]
    BY <1>8 DEF SubmitCustomerDetails, UploadAllowed
  <2> HIDE DEF o
  <2>2. CASE p = o
    <3>1. /\ order'[p] = SubmittedRow(order[p], u)
          /\ history'[p] = Append(history[p],
                Entry(order[p].status, "waiting_payment", FALSE))
      BY <1>0, <2>1, <2>2 DEF TypeOK
    <3>2. DetailsAllowed(order[p])
      BY <2>1, <2>2
    <3> QED BY <1>0, <3>1, <3>2, SubmittedSound
  <2>3. CASE p # o
    <3>1. order'[p] = order[p] /\ history'[p] = history[p]
      BY <1>0, <2>1, <2>3 DEF TypeOK
    <3> QED BY <1>0, <3>1, SameSound
  <2> QED BY <2>2, <2>3
<1>9. ASSUME NEW u \in Uploads, NEW commit \in Commits,
             SubmitFinalReceipt(u, commit)
      PROVE  StepSound(order[p], order'[p], history'[p])
  <2> DEFINE o == upload[u].order
  <2>1. /\ FinalReceiptAllowed(order[o])
        /\ order' = [order EXCEPT ![o].finalReceipt = u]
        /\ history' = history
    BY <1>9 DEF SubmitFinalReceipt, UploadAllowed
  <2> HIDE DEF o
  <2>2. CASE p = o
    <3>1. order'[p] = [order[p] EXCEPT !.finalReceipt = u]
      BY <1>0, <2>1, <2>2 DEF TypeOK
    <3>2. FinalReceiptAllowed(order[p])
      BY <2>1, <2>2
    <3> QED BY <1>0, <2>1, <3>1, <3>2, FinalReceiptSound
  <2>3. CASE p # o
    <3>1. order'[p] = order[p] /\ history'[p] = history[p]
      BY <1>0, <2>1, <2>3 DEF TypeOK
    <3> QED BY <1>0, <3>1, SameSound
  <2> QED BY <2>2, <2>3
<1>10. CASE CommitSweep
  <2>1. CASE p \in sweep.staged
    <3>1. order[p].status = "waiting_info" /\ ~ order[p].submitted
      BY <2>1 DEF Inv, SweepHoldsOnlyUnsubmitted, Stale
    <3>2. /\ order'[p] = WithStatus(order[p], "cancelled")
          /\ history'[p] = Append(history[p],
                Entry(order[p].status, "cancelled", FALSE))
      BY <1>10, <2>1, <3>1 DEF CommitSweep
    <3>3. StatusChangeAllowed(order[p], "cancelled") /\ "cancelled" \in Statuses
      BY DEF StatusChangeAllowed, Statuses
    <3> QED BY <1>0, <3>1, <3>2, <3>3, StatusChangeSound
  <2>2. CASE p \notin sweep.staged
    <3>1. order'[p] = order[p] /\ history'[p] = history[p]
      BY <1>10, <2>2 DEF CommitSweep
    <3> QED BY <1>0, <3>1, SameSound
  <2> QED BY <2>1, <2>2
<1>11. ASSUME NEW o \in Orders, Age(o) \/ SweepOrder(o)
       PROVE  UNCHANGED <<order, history>>
  BY <1>11 DEF Age, SweepOrder
<1>12. ASSUME NEW u \in Uploads,
              \/ RefuseUpload(u) \/ FailUpload(u)
              \/ \E o \in Orders, kind \in {"details", "final"} : ReadPublicOrder(u, kind, o)
       PROVE  UNCHANGED <<order, history>>
  BY <1>12 DEF RefuseUpload, FailUpload, ReadPublicOrder
<1>13. CASE StartSweep \/ AbortSweep \/ UNCHANGED vars
  BY <1>1, <1>13 DEF StartSweep, AbortSweep
<1> QED
  BY <1>1, <1>2, <1>3, <1>4, <1>5, <1>6, <1>7, <1>8, <1>9, <1>10, <1>11, <1>12, <1>13, CustomerCases
     DEF Next, Creation, Operator, Sweep

\* A step that accepts no upload and records no new receipt keeps the two agreed.
LEMMA NothingAccepted ==
    ASSUME Inv, [Next]_vars,
           \A u \in Uploads : upload[u].phase \in Commits => upload'[u] = upload[u],
           \A u \in Uploads : upload'[u].phase \in Commits => upload[u].phase \in Commits,
           \A o \in Orders :
               /\ order'[o].receipt \in {order[o].receipt, NoUpload}
               /\ order'[o].finalReceipt \in {order[o].finalReceipt, NoUpload}
    PROVE  AcceptedIsRecorded'
<1>1. ASSUME NEW u \in Uploads, upload'[u].phase \in Commits
      PROVE  LET r == order'[upload'[u].order] IN
             IF upload'[u].kind = "final" THEN r.finalReceipt = u ELSE r.receipt = u
  <2> DEFINE o == upload[u].order
  <2>1. upload[u].phase \in Commits /\ upload'[u] = upload[u]
    BY <1>1
  <2>2. o \in Orders /\ order[o].status # "absent"
    BY <2>1, Uncommitted DEF Inv, UploadsHaveOrders, Exists
  <2>3. IF upload[u].kind = "final" THEN order[o].finalReceipt = u ELSE order[o].receipt = u
    BY <2>1 DEF Inv, AcceptedIsRecorded
  <2>4. Keeps(order[o], order'[o])
    BY <2>2, RowsStep DEF StepSound
  <2> QED BY <2>1, <2>3, <2>4, NoneAssumption DEF Keeps
<1>2. ASSUME NEW o \in Orders, NEW u \in Uploads,
             u \in {order'[o].receipt, order'[o].finalReceipt}
      PROVE  upload'[u].phase \in Commits /\ upload'[u].order = o
  <2>1. u \in {order[o].receipt, order[o].finalReceipt}
    BY <1>2, NoneAssumption
  <2>2. upload[u].phase \in Commits /\ upload[u].order = o
    BY <2>1 DEF Inv, AcceptedIsRecorded
  <2> QED BY <2>2
<1> QED BY <1>1, <1>2 DEF AcceptedIsRecorded

\* The step that accepts u for o records it there and nothing else anywhere.
LEMMA OneAccepted ==
    ASSUME Inv, [Next]_vars, NEW u \in Uploads, NEW o \in Orders,
           upload[u].phase \notin Commits,
           upload'[u].phase \in Commits, upload'[u].order = o,
           \A v \in Uploads \ {u} : upload'[v] = upload[v],
           \A p \in Orders \ {o} : order'[p] = order[p],
           IF upload'[u].kind = "final"
           THEN /\ order'[o].finalReceipt = u
                /\ order'[o].receipt = order[o].receipt
           ELSE /\ order'[o].receipt = u
                /\ order'[o].finalReceipt \in {order[o].finalReceipt, NoUpload}
    PROVE  AcceptedIsRecorded'
<1>1. ASSUME NEW v \in Uploads, upload'[v].phase \in Commits
      PROVE  LET r == order'[upload'[v].order] IN
             IF upload'[v].kind = "final" THEN r.finalReceipt = v ELSE r.receipt = v
  <2>1. CASE v = u
    BY <2>1
  <2>2. CASE v # u
    <3> DEFINE p == upload[v].order
    <3>1. upload[v].phase \in Commits /\ upload'[v] = upload[v]
      BY <1>1, <2>2
    <3>2. p \in Orders /\ order[p].status # "absent"
      BY <3>1, Uncommitted DEF Inv, UploadsHaveOrders, Exists
    <3>3. IF upload[v].kind = "final" THEN order[p].finalReceipt = v ELSE order[p].receipt = v
      BY <3>1 DEF Inv, AcceptedIsRecorded
    <3>4. Keeps(order[p], order'[p])
      BY <3>2, RowsStep DEF StepSound
    <3> QED BY <3>1, <3>3, <3>4, NoneAssumption DEF Keeps
  <2> QED BY <2>1, <2>2
<1>2. ASSUME NEW p \in Orders, NEW v \in Uploads,
             v \in {order'[p].receipt, order'[p].finalReceipt}
      PROVE  upload'[v].phase \in Commits /\ upload'[v].order = p
  <2>1. CASE v \in {order[p].receipt, order[p].finalReceipt}
    <3>1. upload[v].phase \in Commits /\ upload[v].order = p
      BY <2>1 DEF Inv, AcceptedIsRecorded
    <3> QED BY <3>1
  <2>2. CASE v \notin {order[p].receipt, order[p].finalReceipt}
    <3>1. v = u /\ p = o
      BY <1>2, <2>2, NoneAssumption
    <3> QED BY <3>1
  <2> QED BY <2>1, <2>2
<1> QED BY <1>1, <1>2 DEF AcceptedIsRecorded

(* Every step keeps what is known of the uploads: a request has read an order
   that exists, and accepted means recorded. *)
LEMMA UploadsStep ==
    ASSUME Inv, [Next]_vars
    PROVE  UploadsHaveOrders' /\ AcceptedIsRecorded'
<1>0. TypeOK
  BY DEF Inv
<1>a. \A o \in Orders : order[o].status # "absent" => order'[o].status # "absent"
  BY RowsStep DEF StepSound, Keeps
<1>b. ASSUME \A u \in Uploads : upload'[u].phase # "idle" =>
                upload[u].phase # "idle" /\ upload'[u].order = upload[u].order
      PROVE  UploadsHaveOrders'
  BY <1>a, <1>b DEF Inv, UploadsHaveOrders, Exists
<1>1. ASSUME UNCHANGED upload,
             \A o \in Orders :
               /\ order'[o].receipt \in {order[o].receipt, NoUpload}
               /\ order'[o].finalReceipt \in {order[o].finalReceipt, NoUpload}
      PROVE  UploadsHaveOrders' /\ AcceptedIsRecorded'
  BY <1>b, <1>1, NothingAccepted
<1>2. ASSUME NEW o \in Orders, NEW t \in Tokens, NEW split \in BOOLEAN,
             CreateOrder(o, t, split)
      PROVE  UploadsHaveOrders' /\ AcceptedIsRecorded'
  <2>1. CreatedRow(t, split).receipt = NoUpload /\ CreatedRow(t, split).finalReceipt = NoUpload
    BY DEF CreatedRow, AbsentRow
  <2>2. UNCHANGED upload /\ order' = [order EXCEPT ![o] = CreatedRow(t, split)]
    BY <1>2 DEF CreateOrder
  <2>3. ASSUME NEW p \in Orders
        PROVE  /\ order'[p].receipt \in {order[p].receipt, NoUpload}
               /\ order'[p].finalReceipt \in {order[p].finalReceipt, NoUpload}
    <3>1. CASE p = o
      BY <1>0, <2>1, <2>2, <3>1 DEF TypeOK
    <3>2. CASE p # o
      BY <1>0, <2>2, <3>2 DEF TypeOK
    <3> QED BY <3>1, <3>2
  <2> QED BY <1>1, <2>2, <2>3
<1>3. ASSUME NEW o \in Orders, NEW t \in Tokens, NEW s \in RequestedStatuses,
             NEW r \in Uploads \cup {NoUpload}, NEW commit \in Commits,
             ImportHistoricalOrder(o, t, s, r, commit)
      PROVE  UploadsHaveOrders' /\ AcceptedIsRecorded'
  <2>1. ImportedRow(t, s, r).receipt = r /\ ImportedRow(t, s, r).finalReceipt = NoUpload
    BY DEF ImportedRow, AbsentRow
  <2>2. /\ order' = [order EXCEPT ![o] = ImportedRow(t, s, r)]
        /\ r # NoUpload => upload[r].phase = "idle"
        /\ upload' = [u \in Uploads |->
              IF u = r
              THEN [phase |-> commit, kind |-> "import", order |-> o, token |-> t]
              ELSE upload[u]]
    BY <1>3 DEF ImportHistoricalOrder
  <2>3. order'[o] = ImportedRow(t, s, r) /\ \A p \in Orders \ {o} : order'[p] = order[p]
    BY <1>0, <2>2 DEF TypeOK
  <2>4. CASE r = NoUpload
    <3>1. UNCHANGED upload
      BY <1>0, <2>2, <2>4, NoneAssumption DEF TypeOK
    <3>2. ASSUME NEW p \in Orders
          PROVE  /\ order'[p].receipt \in {order[p].receipt, NoUpload}
                 /\ order'[p].finalReceipt \in {order[p].finalReceipt, NoUpload}
      BY <2>1, <2>3, <2>4
    <3> QED BY <1>1, <3>1, <3>2
  <2>5. CASE r \in Uploads
    <3>1. /\ upload'[r] = [phase |-> commit, kind |-> "import", order |-> o, token |-> t]
          /\ \A v \in Uploads \ {r} : upload'[v] = upload[v]
      BY <2>2, <2>5
    <3>2. upload'[r].phase \in Commits /\ upload'[r].order = o /\ upload'[r].kind = "import"
      BY <3>1
    <3>3. upload[r].phase \notin Commits
      BY <2>2, <2>5, Uncommitted, NoneAssumption
    <3>4. AcceptedIsRecorded'
      BY <2>1, <2>3, <2>5, <3>1, <3>2, <3>3, OneAccepted
    <3>5. order'[o].status # "absent"
      <4>1. s \in Statuses /\ ImportedRow(t, s, r).status = s
        BY <1>3 DEF ImportHistoricalOrder, ImportAllowed, ValidStatus, ImportedRow, AbsentRow
      <4> QED BY <2>3, <4>1 DEF Statuses
    <3>6. UploadsHaveOrders'
      <4> SUFFICES ASSUME NEW v \in Uploads, upload'[v].phase # "idle"
                   PROVE  upload'[v].order \in Orders
                          /\ order'[upload'[v].order].status # "absent"
        BY DEF UploadsHaveOrders, Exists
      <4>1. CASE v = r
        BY <3>2, <3>5, <4>1
      <4>2. CASE v # r
        BY <1>a, <3>1, <4>2 DEF Inv, UploadsHaveOrders, Exists
      <4> QED BY <4>1, <4>2
    <3> QED BY <3>4, <3>6
  <2> QED BY <2>4, <2>5
<1>4. ASSUME NEW o \in Orders,
             \/ \E s \in RequestedStatuses : UpdateOrder(o, s)
             \/ \E t \in Tokens : RotateCustomerLink(o, t)
             \/ RequestFinalPayment(o)
             \/ ConfirmFinalPayment(o)
      PROVE  UploadsHaveOrders' /\ AcceptedIsRecorded'
  <2>1. UNCHANGED upload
    BY <1>4 DEF UpdateOrder, RotateCustomerLink, RequestFinalPayment, ConfirmFinalPayment
  <2>2. ASSUME NEW p \in Orders
        PROVE  /\ order'[p].receipt = order[p].receipt
               /\ order'[p].finalReceipt = order[p].finalReceipt
    <3>1. order[p] \in Row
      BY <1>0 DEF TypeOK
    <3>2. CASE p # o
      BY <1>0, <1>4, <3>2
         DEF TypeOK, UpdateOrder, RotateCustomerLink, RequestFinalPayment, ConfirmFinalPayment
    <3>3. ASSUME NEW s \in RequestedStatuses, UpdateOrder(o, s), p = o
          PROVE  /\ order'[p].receipt = order[p].receipt
                 /\ order'[p].finalReceipt = order[p].finalReceipt
      <4>1. order'[p] = WithStatus(order[p], s)
        BY <1>0, <3>3 DEF TypeOK, UpdateOrder
      <4> QED BY <3>1, <4>1 DEF WithStatus, Row
    <3>4. ASSUME NEW t \in Tokens, RotateCustomerLink(o, t), p = o
          PROVE  /\ order'[p].receipt = order[p].receipt
                 /\ order'[p].finalReceipt = order[p].finalReceipt
      <4>1. order'[p] = [order[p] EXCEPT !.token = t]
        BY <1>0, <3>4 DEF TypeOK, RotateCustomerLink
      <4> QED BY <3>1, <4>1 DEF Row
    <3>5. CASE RequestFinalPayment(o) /\ p = o
      <4>1. order'[p] = [order[p] EXCEPT !.requested = TRUE]
        BY <1>0, <3>5 DEF TypeOK, RequestFinalPayment
      <4> QED BY <3>1, <4>1 DEF Row
    <3>6. CASE ConfirmFinalPayment(o) /\ p = o
      <4>1. order'[p] = [order[p] EXCEPT !.confirmed = TRUE]
        BY <1>0, <3>6 DEF TypeOK, ConfirmFinalPayment
      <4> QED BY <3>1, <4>1 DEF Row
    <3> QED BY <1>4, <3>2, <3>3, <3>4, <3>5, <3>6
  <2> QED BY <1>1, <2>1, <2>2
<1>5. ASSUME NEW u \in Uploads, NEW o \in Orders, NEW kind \in {"details", "final"},
             ReadPublicOrder(u, kind, o)
      PROVE  UploadsHaveOrders' /\ AcceptedIsRecorded'
  <2>1. /\ upload[u].phase = "idle"
        /\ upload'[u] = [phase |-> "prepared", kind |-> kind, order |-> o,
                         token |-> order[o].token]
        /\ \A v \in Uploads \ {u} : upload'[v] = upload[v]
        /\ order' = order /\ order[o].status # "absent"
    BY <1>0, <1>5 DEF TypeOK, ReadPublicOrder, Exists
  <2>2. upload'[u].phase = "prepared" /\ upload'[u].order = o
    BY <2>1
  <2>3. AcceptedIsRecorded'
    BY <2>1, <2>2, Uncommitted, NothingAccepted
  <2>4. UploadsHaveOrders'
    <3> SUFFICES ASSUME NEW v \in Uploads, upload'[v].phase # "idle"
                 PROVE  upload'[v].order \in Orders
                        /\ order'[upload'[v].order].status # "absent"
      BY DEF UploadsHaveOrders, Exists
    <3>1. CASE v = u
      BY <2>1, <2>2, <3>1
    <3>2. CASE v # u
      BY <2>1, <3>2 DEF Inv, UploadsHaveOrders, Exists
    <3> QED BY <3>1, <3>2
  <2> QED BY <2>3, <2>4
<1>6. ASSUME NEW u \in Uploads, RefuseUpload(u) \/ FailUpload(u)
      PROVE  UploadsHaveOrders' /\ AcceptedIsRecorded'
  <2>1. /\ upload[u].phase = "prepared"
        /\ upload' = [upload EXCEPT ![u].phase = "refused"]
        /\ order' = order
    BY <1>6 DEF RefuseUpload, FailUpload, Locked
  <2>2. upload[u] \in UploadState
    BY <1>0 DEF TypeOK
  <2>3. upload'[u] = [upload[u] EXCEPT !.phase = "refused"]
        /\ \A v \in Uploads \ {u} : upload'[v] = upload[v]
    BY <1>0, <2>1 DEF TypeOK
  <2>4. upload'[u].phase = "refused" /\ upload'[u].order = upload[u].order
    BY <2>2, <2>3 DEF UploadState, Commits
  <2>5. AcceptedIsRecorded'
    BY <2>1, <2>3, <2>4, Uncommitted, NothingAccepted
  <2>6. UploadsHaveOrders'
    BY <1>b, <2>1, <2>3, <2>4
  <2> QED BY <2>5, <2>6
<1>7. ASSUME NEW u \in Uploads, NEW commit \in Commits,
             SubmitCustomerDetails(u, commit) \/ SubmitFinalReceipt(u, commit)
      PROVE  UploadsHaveOrders' /\ AcceptedIsRecorded'
  <2> DEFINE o == upload[u].order
  <2>1. /\ upload[u].phase = "prepared"
        /\ upload' = [upload EXCEPT ![u].phase = commit]
    BY <1>7 DEF SubmitCustomerDetails, SubmitFinalReceipt, Locked
  <2>2. upload[u] \in UploadState /\ o \in Orders
    BY <1>0, <2>1 DEF TypeOK, Inv, UploadsHaveOrders
  <2>3. order[o] \in Row
    BY <1>0, <2>2 DEF TypeOK
  <2>4. upload'[u] = [upload[u] EXCEPT !.phase = commit]
        /\ \A v \in Uploads \ {u} : upload'[v] = upload[v]
    BY <1>0, <2>1 DEF TypeOK
  <2>5. /\ upload'[u].phase \in Commits /\ upload'[u].order = o
        /\ upload'[u].kind = upload[u].kind
    BY <2>2, <2>4 DEF UploadState, Commits
  <2>6. UploadsHaveOrders'
    BY <1>b, <2>1, <2>4, <2>5
  <2>7. CASE SubmitCustomerDetails(u, commit)
    <3>1. /\ upload[u].kind = "details"
          /\ order' = [order EXCEPT ![o] = SubmittedRow(order[o], u)]
      BY <2>7 DEF SubmitCustomerDetails
    <3>2. /\ SubmittedRow(order[o], u).receipt = u
          /\ SubmittedRow(order[o], u).finalReceipt = order[o].finalReceipt
      BY <2>3 DEF SubmittedRow, Row
    <3> HIDE DEF o
    <3>3. order'[o] = SubmittedRow(order[o], u) /\ \A p \in Orders \ {o} : order'[p] = order[p]
      BY <1>0, <2>2, <3>1 DEF TypeOK
    <3>4. AcceptedIsRecorded'
      BY <2>1, <2>2, <2>4, <2>5, <3>1, <3>2, <3>3, Uncommitted, OneAccepted
    <3> QED BY <2>6, <3>4
  <2>8. CASE SubmitFinalReceipt(u, commit)
    <3>1. /\ upload[u].kind = "final"
          /\ order' = [order EXCEPT ![o].finalReceipt = u]
      BY <2>8 DEF SubmitFinalReceipt
    <3> HIDE DEF o
    <3>2. /\ order'[o] = [order[o] EXCEPT !.finalReceipt = u]
          /\ \A p \in Orders \ {o} : order'[p] = order[p]
      BY <1>0, <2>2, <3>1 DEF TypeOK
    <3>3. order'[o].finalReceipt = u /\ order'[o].receipt = order[o].receipt
      BY <2>3, <3>2 DEF Row
    <3>4. AcceptedIsRecorded'
      BY <2>1, <2>2, <2>4, <2>5, <3>1, <3>2, <3>3, Uncommitted, OneAccepted
    <3> QED BY <2>6, <3>4
  <2> QED BY <1>7, <2>7, <2>8
<1>8. ASSUME NEW o \in Orders, Age(o) \/ SweepOrder(o)
      PROVE  UploadsHaveOrders' /\ AcceptedIsRecorded'
  BY <1>1, <1>8 DEF Age, SweepOrder
<1>9. CASE CommitSweep
  <2>1. UNCHANGED upload
    BY <1>9 DEF CommitSweep
  <2>2. ASSUME NEW p \in Orders
        PROVE  /\ order'[p].receipt = order[p].receipt
               /\ order'[p].finalReceipt = order[p].finalReceipt
    <3>1. order[p] \in Row
      BY <1>0 DEF TypeOK
    <3>2. order'[p] = order[p] \/ order'[p] = WithStatus(order[p], "cancelled")
      BY <1>9 DEF CommitSweep
    <3> QED BY <3>1, <3>2 DEF WithStatus, Row
  <2> QED BY <1>1, <2>1, <2>2
<1>10. CASE StartSweep \/ AbortSweep \/ UNCHANGED vars
  BY <1>1, <1>10 DEF StartSweep, AbortSweep
<1> QED
  BY <1>2, <1>3, <1>4, <1>5, <1>6, <1>7, <1>8, <1>9, <1>10, CustomerCases
     DEF Next, Creation, Operator, Sweep

(* Every step leaves the orders that the cleanup has updated stale. *)
LEMMA SweepStep ==
    ASSUME Inv, [Next]_vars
    PROVE  SweepHoldsOnlyUnsubmitted'
<1>0. /\ TypeOK
      /\ \A p \in sweep.staged :
            p \in Orders /\ p \in aged /\ order[p].status = "waiting_info"
            /\ ~ order[p].submitted
  BY DEF Inv, TypeOK, SweepHoldsOnlyUnsubmitted, Stale
<1>a. ASSUME sweep'.staged = sweep.staged, aged \subseteq aged',
             \A p \in sweep.staged : order'[p].status = "waiting_info" /\ ~ order'[p].submitted
      PROVE  SweepHoldsOnlyUnsubmitted'
  BY <1>0, <1>a DEF SweepHoldsOnlyUnsubmitted, Stale
<1>1. ASSUME UNCHANGED <<order, sweep>>, aged \subseteq aged'
      PROVE  SweepHoldsOnlyUnsubmitted'
  BY <1>0, <1>1, <1>a
<1>2. ASSUME NEW o, o \notin sweep.staged, UNCHANGED <<aged, sweep>>,
             \A p \in Orders \ {o} : order'[p] = order[p]
      PROVE  SweepHoldsOnlyUnsubmitted'
  BY <1>0, <1>2, <1>a
<1>3. ASSUME NEW o \in Orders, Creation(o) PROVE SweepHoldsOnlyUnsubmitted'
  <2>1. order[o].status = "absent" /\ UNCHANGED <<aged, sweep>>
    BY <1>3 DEF Creation, CreateOrder, ImportHistoricalOrder, Exists
  <2>2. \A p \in Orders \ {o} : order'[p] = order[p]
    BY <1>0, <1>3 DEF TypeOK, Creation, CreateOrder, ImportHistoricalOrder
  <2>3. o \notin sweep.staged
    BY <1>0, <2>1
  <2> QED BY <1>2, <2>1, <2>2, <2>3
<1>4. ASSUME NEW o \in Orders, Operator(o) PROVE SweepHoldsOnlyUnsubmitted'
  <2>1. ShopFree(o) /\ UNCHANGED <<aged, sweep>>
    BY <1>4 DEF Operator, UpdateOrder, RotateCustomerLink, RequestFinalPayment,
                ConfirmFinalPayment
  <2>2. \A p \in Orders \ {o} : order'[p] = order[p]
    BY <1>0, <1>4 DEF TypeOK, Operator, UpdateOrder, RotateCustomerLink,
                      RequestFinalPayment, ConfirmFinalPayment
  <2>3. o \notin sweep.staged
    BY <2>1 DEF ShopFree
  <2> QED BY <1>2, <2>1, <2>2, <2>3
<1>5. ASSUME NEW u \in Uploads, NEW commit \in Commits,
             SubmitCustomerDetails(u, commit) \/ SubmitFinalReceipt(u, commit)
      PROVE  SweepHoldsOnlyUnsubmitted'
  <2> DEFINE o == upload[u].order
  <2>1. o \notin sweep.staged /\ UNCHANGED <<aged, sweep>>
    BY <1>5 DEF SubmitCustomerDetails, SubmitFinalReceipt, Locked, OrderFree
  <2>2. \A p \in Orders \ {o} : order'[p] = order[p]
    <3>1. CASE SubmitCustomerDetails(u, commit)
      <4>1. order' = [order EXCEPT ![o] = SubmittedRow(order[o], u)]
        BY <3>1 DEF SubmitCustomerDetails
      <4> QED BY <1>0, <4>1 DEF TypeOK
    <3>2. CASE SubmitFinalReceipt(u, commit)
      <4>1. order' = [order EXCEPT ![o].finalReceipt = u]
        BY <3>2 DEF SubmitFinalReceipt
      <4> QED BY <1>0, <4>1 DEF TypeOK
    <3> QED BY <1>5, <3>1, <3>2
  <2> QED BY <1>2, <2>1, <2>2
<1>6. ASSUME NEW o \in Orders, SweepOrder(o) PROVE SweepHoldsOnlyUnsubmitted'
  <2>1. UNCHANGED <<order, aged>>
    BY <1>6 DEF SweepOrder
  <2>2. sweep'.staged = IF Stale(o) THEN sweep.staged \cup {o} ELSE sweep.staged
    BY <1>0, <1>6 DEF TypeOK, SweepOrder, StillStale
  <2>3. Stale(o) => ~ order[o].submitted
    BY DEF Inv, RowInv, Coherent, Stale
  <2>4. ASSUME NEW p \in sweep'.staged
        PROVE  p \in aged /\ order[p].status = "waiting_info" /\ ~ order[p].submitted
    BY <1>0, <2>2, <2>3 DEF Stale
  <2> QED BY <2>1, <2>4 DEF SweepHoldsOnlyUnsubmitted, Stale
<1>7. CASE StartSweep \/ CommitSweep \/ AbortSweep
  <2>1. sweep'.staged = {}
    <3>1. CASE StartSweep
      BY <3>1 DEF StartSweep
    <3>2. CASE CommitSweep
      BY <3>2 DEF CommitSweep
    <3>3. CASE AbortSweep
      BY <3>3 DEF AbortSweep
    <3> QED BY <1>7, <3>1, <3>2, <3>3
  <2> QED BY <2>1 DEF SweepHoldsOnlyUnsubmitted
<1>8. ASSUME NEW u \in Uploads,
             \/ RefuseUpload(u) \/ FailUpload(u)
             \/ \E o \in Orders, kind \in {"details", "final"} : ReadPublicOrder(u, kind, o)
      PROVE  SweepHoldsOnlyUnsubmitted'
  BY <1>1, <1>8 DEF RefuseUpload, FailUpload, ReadPublicOrder
<1>9. ASSUME NEW o \in Orders, Age(o) PROVE SweepHoldsOnlyUnsubmitted'
  BY <1>1, <1>9 DEF Age
<1>10. CASE UNCHANGED vars
  BY <1>1, <1>10
<1> QED
  BY <1>3, <1>4, <1>5, <1>6, <1>7, <1>8, <1>9, <1>10, CustomerCases
     DEF Next, Sweep

-----------------------------------------------------------------------------
(* The theorems *)

(* The invariant holds initially. *)
LEMMA InvInit == Init => Inv
<1> SUFFICES ASSUME Init PROVE Inv
  OBVIOUS
<1>1. TypeOK
  BY DEF Init, TypeOK, AbsentRow, Row, UploadState, Commits
<1>2. ASSUME NEW o \in Orders PROVE RowInv(order[o], history[o])
  <2>1. order[o] = AbsentRow /\ history[o] = << >> /\ order[o] \in Row
    BY <1>1, <1>2 DEF Init, TypeOK
  <2>2. Coherent(AbsentRow) /\ Chained(AbsentRow, << >>) /\ AbsentRow.status = "absent"
    BY DEF AbsentRow, Coherent, Chained
  <2>3. << >> \in Seq(HistoryEntry) /\ Attributed(<< >>)
    BY DEF Attributed
  <2>4. Explains(<< >>, "absent")
    BY EmptySeq DEF Explains
  <2> QED BY <2>1, <2>2, <2>3, <2>4 DEF RowInv
<1>3. UploadsHaveOrders
  BY DEF Init, UploadsHaveOrders
<1>4. AcceptedIsRecorded
  BY Uncommitted, NoneAssumption DEF Init, AcceptedIsRecorded, AbsentRow
<1>5. SweepHoldsOnlyUnsubmitted
  BY DEF Init, SweepHoldsOnlyUnsubmitted
<1> QED BY <1>1, <1>2, <1>3, <1>4, <1>5 DEF Inv

(* Every step keeps the invariant. *)
LEMMA InvStep == Inv /\ [Next]_vars => Inv'
<1> SUFFICES ASSUME Inv, [Next]_vars PROVE Inv'
  OBVIOUS
<1>1. TypeOK'
  BY TypeStep DEF Inv
<1>2. \A o \in Orders : RowInv(order'[o], history'[o])
  BY RowsStep DEF StepSound
<1> QED BY <1>1, <1>2, UploadsStep, SweepStep DEF Inv

(* The inductive invariant holds in every reachable state. *)
LEMMA Invariance == Spec => []Inv
  BY InvInit, InvStep, PTL DEF Spec

(* In every reachable state the status column agrees with the submission and the
   receipt: waiting_info has neither, waiting_payment has both. *)
THEOREM StatusCoherence == Spec => []StatusCoherent
<1>1. Inv => StatusCoherent
  BY DEF Inv, RowInv, StatusCoherent
<1> QED BY <1>1, Invariance, PTL

(* The history of every order is an unbroken chain from its creation to its
   current status. *)
THEOREM HistoryCorrect == Spec => []HistoryExplainsStatus
<1>1. Inv => HistoryExplainsStatus
  BY DEF Inv, RowInv, HistoryExplainsStatus
<1> QED BY <1>1, Invariance, PTL

(* No upload and no cleanup ever decides a status that is the operator's. *)
THEOREM OperatorsDecide == Spec => []OnlyOperatorsDecide
<1>1. Inv => OnlyOperatorsDecide
  BY DEF Inv, RowInv, OnlyOperatorsDecide
<1> QED BY <1>1, Invariance, PTL

(* The parallel payment state is always a prefix of: split, first receipt and
   payment, request, final receipt, confirmation. *)
THEOREM PaymentChain == Spec => []FinalPaymentChain
<1>1. Inv => FinalPaymentChain
  BY DEF Inv, RowInv, FinalPaymentChain
<1> QED BY <1>1, Invariance, PTL

(* Every accepted upload is the recorded receipt of its order: no acceptance is lost
   to a concurrent one. A recorded receipt was accepted, or its commit was not heard
   of: none of an upload that was refused or rolled back is ever recorded. *)
THEOREM AcceptanceRecorded == Spec => []AcceptedIsRecorded
<1>1. Inv => AcceptedIsRecorded
  BY DEF Inv
<1> QED BY <1>1, Invariance, PTL

(* The rows a running cleanup has updated stay stale and unsubmitted until it
   commits: its row locks are enough. *)
THEOREM SweepIsolated == Spec => []SweepHoldsOnlyUnsubmitted
<1>1. Inv => SweepHoldsOnlyUnsubmitted
  BY DEF Inv
<1> QED BY <1>1, Invariance, PTL

(* No step of any handler takes back or replaces a recorded payment fact. *)
THEOREM PaymentFactsKept == Spec => PaymentFactsPermanent
<1>1. Inv /\ [Next]_vars => [\A o \in Orders : Exists(o) => Keeps(order[o], order'[o])]_vars
  BY RowsStep DEF StepSound, Exists
<1> QED BY <1>1, Invariance, PTL DEF Spec, PaymentFactsPermanent

(* An upload is only ever committed under the token the row has at that moment. *)
THEOREM RotationTakesEffect == Spec => OldLinkPowerless
<1>1. TypeOK /\ [Next]_vars =>
        [\A u \in Uploads :
           upload[u].phase = "prepared" /\ upload'[u].phase \in Commits =>
               order[upload[u].order].token = upload[u].token]_vars
  <2> SUFFICES ASSUME TypeOK, Next, NEW u \in Uploads,
                      upload[u].phase = "prepared", upload'[u].phase \in Commits
               PROVE  order[upload[u].order].token = upload[u].token
    OBVIOUS
  <2>1. ASSUME NEW v \in Uploads, NEW commit \in Commits,
             SubmitCustomerDetails(v, commit) \/ SubmitFinalReceipt(v, commit)
        PROVE  order[upload[u].order].token = upload[u].token
    <3>1. upload' = [upload EXCEPT ![v].phase = commit] /\ TokenCurrent(v)
      BY <2>1 DEF SubmitCustomerDetails, SubmitFinalReceipt, UploadAllowed
    <3>2. CASE u = v
      BY <3>1, <3>2 DEF TokenCurrent
    <3>3. CASE u # v
      <4>1. upload'[u] = upload[u]
        BY <3>1, <3>3 DEF TypeOK
      <4> QED BY <4>1, Uncommitted
    <3> QED BY <3>2, <3>3
  <2>2. ASSUME NEW v \in Uploads,
               \/ RefuseUpload(v) \/ FailUpload(v)
               \/ \E o \in Orders, kind \in {"details", "final"} : ReadPublicOrder(v, kind, o)
        PROVE  FALSE
    <3>1. ASSUME NEW x, upload' = [upload EXCEPT ![v] = x], x.phase \notin Commits
          PROVE  FALSE
      BY <3>1, Uncommitted DEF TypeOK
    <3>2. CASE RefuseUpload(v) \/ FailUpload(v)
      <4>1. upload[v] \in UploadState
        BY DEF TypeOK
      <4>2. upload' = [upload EXCEPT ![v] = [upload[v] EXCEPT !.phase = "refused"]]
        BY <3>2 DEF RefuseUpload, FailUpload
      <4>3. [upload[v] EXCEPT !.phase = "refused"].phase = "refused"
        BY <4>1 DEF UploadState, Commits
      <4> QED BY <3>1, <4>2, <4>3, Uncommitted
    <3>3. ASSUME NEW o \in Orders, NEW kind \in {"details", "final"}, ReadPublicOrder(v, kind, o)
          PROVE  FALSE
      BY <3>1, <3>3, Uncommitted DEF ReadPublicOrder
    <3> QED BY <2>2, <3>2, <3>3
  <2>3. ASSUME NEW o \in Orders, Creation(o) PROVE FALSE
    <3>1. ASSUME NEW t \in Tokens, NEW s \in RequestedStatuses,
                 NEW r \in Uploads \cup {NoUpload}, NEW commit \in Commits,
             ImportHistoricalOrder(o, t, s, r, commit)
          PROVE  FALSE
      <4>1. /\ r # NoUpload => upload[r].phase = "idle"
            /\ u # r => upload'[u] = upload[u]
        BY <3>1 DEF ImportHistoricalOrder
      <4> QED BY <4>1, Uncommitted, NoneAssumption
    <3> QED BY <2>3, <3>1, Uncommitted DEF Creation, CreateOrder
  <2>4. ASSUME UNCHANGED upload PROVE FALSE
    BY <2>4, Uncommitted
  <2>5. ASSUME NEW o \in Orders, Age(o) \/ Operator(o) \/ SweepOrder(o) PROVE FALSE
    BY <2>4, <2>5 DEF Age, Operator, UpdateOrder, RotateCustomerLink, RequestFinalPayment,
                      ConfirmFinalPayment, SweepOrder
  <2>6. CASE StartSweep \/ CommitSweep \/ AbortSweep
    BY <2>4, <2>6 DEF StartSweep, CommitSweep, AbortSweep
  <2> QED BY <2>1, <2>2, <2>3, <2>5, <2>6, CustomerCases DEF Next, Sweep
<1> QED BY <1>1, TypeCorrect, PTL DEF Spec, OldLinkPowerless

(* While an order is cancelled nothing but its link changes: every handler that
   writes a payment column refuses a cancelled order under the lock, and the
   cleanup holds only orders in waiting_info. *)
THEOREM CancelledStandsStill == Spec => CancelledIsClosed
<1>1. ASSUME NEW r \in Row PROVE r = [r EXCEPT !.token = r.token]
  BY DEF Row
<1>2. ASSUME NEW r \in Row, NEW s \in Statuses PROVE WithStatus(r, s).status = s
  BY DEF Row, WithStatus
<1>3. Inv /\ [Next]_vars =>
        [\A o \in Orders :
           order[o].status = "cancelled" /\ order'[o].status = "cancelled" =>
               order'[o] = [order[o] EXCEPT !.token = order'[o].token]]_vars
  <2> SUFFICES ASSUME Inv, Next, NEW o \in Orders,
                      order[o].status = "cancelled", order'[o].status = "cancelled"
               PROVE  order'[o] = [order[o] EXCEPT !.token = order'[o].token]
    OBVIOUS
  <2>0. order \in [Orders -> Row] /\ SweepHoldsOnlyUnsubmitted
    BY DEF Inv, TypeOK
  <2>1. ASSUME order'[o] = order[o]
        PROVE  order'[o] = [order[o] EXCEPT !.token = order'[o].token]
    BY <1>1, <2>0, <2>1
  <2>2. ASSUME NEW p \in Orders, Creation(p) PROVE order'[o] = order[o]
    <3>1. order[p].status = "absent" /\ \E r : order' = [order EXCEPT ![p] = r]
      BY <2>2 DEF Creation, CreateOrder, ImportHistoricalOrder, Exists
    <3> QED BY <2>0, <3>1
  <2>3. ASSUME NEW p \in Orders, NEW s \in RequestedStatuses, UpdateOrder(p, s)
        PROVE  order'[o] = order[o]
    <3>1. /\ s \in Statuses /\ s # order[p].status
          /\ order' = [order EXCEPT ![p] = WithStatus(order[p], s)]
      BY <2>3 DEF UpdateOrder, ValidStatus
    <3>2. p # o
      BY <1>2, <2>0, <3>1
    <3> QED BY <2>0, <3>1, <3>2
  <2>4. ASSUME NEW p \in Orders, NEW t \in Tokens, RotateCustomerLink(p, t)
        PROVE  order'[o] = [order[o] EXCEPT !.token = order'[o].token]
    <3>1. order' = [order EXCEPT ![p] = [order[p] EXCEPT !.token = t]]
      BY <2>4 DEF RotateCustomerLink
    <3>2. CASE p = o
      <4>1. order'[o] = [order[o] EXCEPT !.token = t]
        BY <2>0, <3>1, <3>2
      <4>2. [order[o] EXCEPT !.token = t].token = t
        BY <2>0 DEF Row
      <4> QED BY <4>1, <4>2
    <3>3. CASE p # o
      BY <2>0, <2>1, <3>1, <3>3
    <3> QED BY <3>2, <3>3
  <2>5. ASSUME NEW p \in Orders, RequestFinalPayment(p) \/ ConfirmFinalPayment(p)
        PROVE  order'[o] = order[o]
    <3>1. order[p].status # "cancelled" /\ \E r : order' = [order EXCEPT ![p] = r]
      BY <2>5 DEF RequestFinalPayment, ConfirmFinalPayment, FinalRequestAllowed,
                  FinalConfirmAllowed
    <3> QED BY <2>0, <3>1
  <2>6. ASSUME NEW u \in Uploads, NEW commit \in Commits,
             SubmitCustomerDetails(u, commit) \/ SubmitFinalReceipt(u, commit)
        PROVE  order'[o] = order[o]
    <3>1. order[upload[u].order].status # "cancelled"
          /\ \E r : order' = [order EXCEPT ![upload[u].order] = r]
      BY <2>6 DEF SubmitCustomerDetails, SubmitFinalReceipt, UploadAllowed,
                  DetailsAllowed, FinalReceiptAllowed
    <3> QED BY <2>0, <3>1
  <2>7. ASSUME NEW u \in Uploads, Customer(u) PROVE order'[o] = order[o]
    BY <2>6, <2>7, CustomerCases DEF ReadPublicOrder, RefuseUpload, FailUpload
  <2>8. CASE CommitSweep
    <3>1. o \notin sweep.staged
      BY <2>0 DEF SweepHoldsOnlyUnsubmitted, Stale
    <3> QED BY <2>1, <2>8, <3>1 DEF CommitSweep
  <2>9. ASSUME NEW p \in Orders, Age(p) PROVE order'[o] = order[o]
    BY <2>9 DEF Age
  <2>10. CASE StartSweep \/ (\E p \in Orders : SweepOrder(p)) \/ AbortSweep
    BY <2>1, <2>10 DEF StartSweep, SweepOrder, AbortSweep
  <2>11. ASSUME NEW p \in Orders, Operator(p)
         PROVE  order'[o] = [order[o] EXCEPT !.token = order'[o].token]
    BY <2>1, <2>3, <2>4, <2>5, <2>11 DEF Operator
  <2> QED BY <2>1, <2>2, <2>7, <2>8, <2>9, <2>10, <2>11 DEF Next, Sweep
<1> QED BY <1>3, Invariance, PTL DEF Spec, CancelledIsClosed
=============================================================================
