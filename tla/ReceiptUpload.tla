---------------------------- MODULE ReceiptUpload ----------------------------
(* The receipt file and the row that names it, as images.go, customer.go,
   installment_payments.go and historical_orders.go bring them together.  The
   file system takes no part in the transaction: the image goes to a temporary
   file first, is renamed to its final name inside the transaction, and is
   removed again by a deferred discard unless the handler has heard that the
   commit succeeded.  Uploads for one place compete; any of them can fail at any
   step, the process can end anywhere, and the answer of a commit can be lost. *)
EXTENDS FiniteSets, Naturals

CONSTANTS
    Uploads,      \* requests carrying an image; also the names of their files
    Places,       \* receipt columns of orders, or keyed orders about to be imported
    KindOf,       \* "details", "final" or "import": the handler each place belongs to
    None,         \* no upload
    MaxFailures,  \* bound: errors inside a transaction and crashes
    MaxUnheard    \* bound: commits whose answer is lost

ASSUME PlaceAssumption == KindOf \in [Places -> {"details", "final", "import"}]
ASSUME NoneAssumption == None \notin Uploads \cup Places
ASSUME BoundAssumption == MaxFailures \in Nat /\ MaxUnheard \in Nat

VARIABLES
    recorded,   \* the committed receipt path of each place
    temporary,  \* uploads whose .upload-* file exists
    stored,     \* uploads whose file exists under its final name
    upload,     \* the state of each request
    unheard,    \* uploads whose commit was not acknowledged
    failures    \* failures so far

vars == <<recorded, temporary, stored, upload, unheard, failures>>

-----------------------------------------------------------------------------

InTransaction == {"locked", "renamed", "written"}

Running == {"read", "storing", "prepared", "aborted"} \cup InTransaction

Upload ==
    [phase : {"idle"}, place : {None}]
    \cup
    [phase : {"accepted", "refused", "lost"} \cup Running, place : Places]

Init ==
    /\ recorded = [s \in Places |-> None]
    /\ temporary = {}
    /\ stored = {}
    /\ upload = [u \in Uploads |-> [phase |-> "idle", place |-> None]]
    /\ unheard = {}
    /\ failures = 0

Reach(u, p) == upload' = [upload EXCEPT ![u].phase = p]

Import(u) == KindOf[upload[u].place] = "import"

\* Variant: the emptiness is not checked again under the lock.
EmptyWhenRead(u) == TRUE

\* No receipt is recorded where u wants to record one.
Empty(u) == recorded[upload[u].place] = None

\* Variant: an import holds its key before it has inserted it.
HoldsEarly(u) == upload[u].phase \in InTransaction

\* FOR UPDATE on the order from the start, or the creation key from its insertion.
Holds(u) ==
    \/ upload[u].phase = "written"
    \/ upload[u].phase \in InTransaction /\ ~ Import(u)

\* No other transaction holds the place of u.
Free(u) ==
    \A v \in Uploads \ {u} : upload[v].place = upload[u].place => ~ Holds(v)

-----------------------------------------------------------------------------
(* Before the transaction *)

\* The unlocked read: a place that is taken is answered at once, except by
\* submitFinalReceipt, which looks only under the lock.
Read(u, s) ==
    /\ upload[u].phase = "idle"
    /\ KindOf[s] \in {"details", "import"} => recorded[s] = None
    /\ upload' = [upload EXCEPT ![u] = [phase |-> "read", place |-> s]]
    /\ UNCHANGED <<recorded, temporary, stored, unheard, failures>>

\* CreateTemp and the copy.
Store(u) ==
    /\ upload[u].phase = "read"
    /\ temporary' = temporary \cup {u}
    /\ Reach(u, "storing")
    /\ UNCHANGED <<recorded, stored, unheard, failures>>

\* Size and type are as required, or the file is cleaned up and refused.
Examine(u) ==
    /\ upload[u].phase = "storing"
    /\ \/ Reach(u, "prepared") /\ UNCHANGED temporary
       \/ Reach(u, "refused") /\ temporary' = temporary \ {u}
    /\ UNCHANGED <<recorded, stored, unheard, failures>>

-----------------------------------------------------------------------------
(* The transaction *)

\* submitCustomerDetails and submitFinalReceipt lock and check first.
Lock(u) ==
    /\ upload[u].phase = "prepared"
    /\ ~ Import(u)
    /\ Free(u)
    /\ Reach(u, IF Empty(u) THEN "locked" ELSE "aborted")
    /\ UNCHANGED <<recorded, temporary, stored, unheard, failures>>

\* Variant: the temporary file is copied.
CopyToFinal(u) ==
    /\ \/ upload[u].phase = "locked"
       \/ upload[u].phase = "prepared" /\ Import(u)
    /\ stored' = stored \cup {u}
    /\ Reach(u, "renamed")
    /\ UNCHANGED <<recorded, temporary, unheard, failures>>

\* An import renames before it knows whether its key is free.
Rename(u) ==
    /\ \/ upload[u].phase = "locked"
       \/ upload[u].phase = "prepared" /\ Import(u)
    /\ temporary' = temporary \ {u}
    /\ stored' = stored \cup {u}
    /\ Reach(u, "renamed")
    /\ UNCHANGED <<recorded, unheard, failures>>

\* The conditional UPDATE, or INSERT ... ON CONFLICT DO NOTHING. An import that
\* loses its key aborts, too, and is then answered from the order that has it.
Write(u) ==
    /\ upload[u].phase = "renamed"
    /\ Free(u)
    /\ Reach(u, IF Empty(u) THEN "written" ELSE "aborted")
    /\ UNCHANGED <<recorded, temporary, stored, unheard, failures>>

\* COMMIT is acknowledged: receipt = nil, so discard finds nothing to do.
Commit(u) ==
    /\ upload[u].phase = "written"
    /\ recorded' = [recorded EXCEPT ![upload[u].place] = u]
    /\ Reach(u, "accepted")
    /\ UNCHANGED <<temporary, stored, unheard, failures>>

\* The database commits, and the handler is told of a lost connection.
CommitUnheard(u) ==
    /\ upload[u].phase = "written"
    /\ Cardinality(unheard) < MaxUnheard
    /\ recorded' = [recorded EXCEPT ![upload[u].place] = u]
    /\ unheard' = unheard \cup {u}
    /\ Reach(u, "aborted")
    /\ UNCHANGED <<temporary, stored, failures>>

\* Variant: only the temporary file is removed.
DiscardTemporary(u) ==
    /\ upload[u].phase = "aborted"
    /\ temporary' = temporary \ {u}
    /\ Reach(u, "refused")
    /\ UNCHANGED <<recorded, stored, unheard, failures>>

\* Variant: without receipt = nil the discard runs after a success, too.
DiscardAlways(u) ==
    /\ upload[u].phase \in {"aborted", "accepted"}
    /\ temporary' = temporary \ {u}
    /\ stored' = stored \ {u}
    /\ Reach(u, IF upload[u].phase = "accepted" THEN "accepted" ELSE "refused")
    /\ UNCHANGED <<recorded, unheard, failures>>

\* The deferred discard, after the transaction has returned an error.
Discard(u) ==
    /\ upload[u].phase = "aborted"
    /\ temporary' = temporary \ {u}
    /\ stored' = stored \ {u}
    /\ Reach(u, "refused")
    /\ UNCHANGED <<recorded, unheard, failures>>

\* Variant: an error after the commit counts as an abort, too.
FailLate(u) ==
    /\ upload[u].phase \in {"prepared", "accepted"} \cup InTransaction
    /\ failures < MaxFailures
    /\ Reach(u, "aborted")
    /\ failures' = failures + 1
    /\ UNCHANGED <<recorded, temporary, stored, unheard>>

\* A statement or the rename fails; the transaction is rolled back.
Fail(u) ==
    /\ upload[u].phase \in {"prepared"} \cup InTransaction
    /\ failures < MaxFailures
    /\ Reach(u, "aborted")
    /\ failures' = failures + 1
    /\ UNCHANGED <<recorded, temporary, stored, unheard>>

\* The process ends: rows of open transactions are gone, files are not.
Crash ==
    /\ failures < MaxFailures
    /\ upload' = [u \in Uploads |->
          IF upload[u].phase \in Running
          THEN [upload[u] EXCEPT !.phase = "lost"] ELSE upload[u]]
    /\ failures' = failures + 1
    /\ UNCHANGED <<recorded, temporary, stored, unheard>>

-----------------------------------------------------------------------------

Work(u) ==
    \/ Store(u)
    \/ Examine(u)
    \/ Lock(u)
    \/ Rename(u)
    \/ Write(u)
    \/ Commit(u)
    \/ Discard(u)

Next ==
    \/ \E u \in Uploads :
          \/ \E s \in Places : Read(u, s)
          \/ Work(u)
          \/ CommitUnheard(u)
          \/ Fail(u)
    \/ Crash

Spec == Init /\ [][Next]_vars

\* A request runs to its end: no step of it waits for ever while the process lives.
FairSpec == Spec /\ \A u \in Uploads : WF_vars(Work(u))

-----------------------------------------------------------------------------
(* Properties *)

(* Every variable has its type, and no file is both temporary and stored. *)
TypeOK ==
    /\ recorded \in [Places -> Uploads \cup {None}]
    /\ temporary \subseteq Uploads
    /\ stored \subseteq Uploads \ temporary
    /\ upload \in [Uploads -> Upload]
    /\ unheard \subseteq Uploads
    /\ failures \in 0 .. MaxFailures

(* A success is a record with its file: whoever was told that the receipt was
   accepted finds it recorded in the place it was sent to, and stored. *)
AcceptedIsStored ==
    \A u \in Uploads : upload[u].phase = "accepted" =>
        recorded[upload[u].place] = u /\ u \in stored

(* A recorded receipt lacks its file only where the answer of the commit was
   lost and the handler discarded what it took for an aborted upload; neither
   an error at any other step nor a crash at any step has that effect. *)
MissingOnlyUnheard ==
    \A s \in Places : recorded[s] # None =>
        recorded[s] \in stored \cup unheard

(* Every file belongs to somebody: to a request at work, to the record that
   names it, or to a request that a crash has cut short.  A refused upload, in
   particular one that lost the race for its place, leaves nothing behind. *)
FilesAccounted ==
    \A u \in temporary \cup stored :
        \/ upload[u].phase \in Running \cup {"lost"}
        \/ recorded[upload[u].place] = u

(* A recorded receipt is never replaced, although every upload decides on what
   it reads and the rename happens before the row is written. *)
NeverReplaced ==
    [][\A s \in Places : recorded[s] # None => recorded'[s] = recorded[s]]_vars

(* Every upload comes to its end and keeps nobody waiting: of several uploads
   for one place, each is accepted, refused or cut short. *)
UploadsEnd ==
    \A u \in Uploads :
        upload[u].phase = "read" ~> upload[u].phase \in {"accepted", "refused", "lost"}

(* Details and receipt are accepted together or not at all (PRODUCT.md, "Atomic
   submission"): a record never names a file that is not there. *)
RecordedIsStored ==
    \A s \in Places : recorded[s] # None => recorded[s] \in stored
=============================================================================
