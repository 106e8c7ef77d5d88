----------------------------- MODULE CreateOrderPage -----------------------------
(* The life of the creation key in the browser (CreateOrderPage.tsx).  A tab keeps
   one key per shop in sessionStorage.  The page reads it when it is mounted, sends
   it with the order, and removes it from storage when an order has been created;
   "create another" draws a new one.  The server stores one order per key and
   answers a repeated request with it (OnceByKey, which OrderCreation implements).

   A handler runs on after its page has gone: it still touches the storage, and the
   navigation guard of AdminApp.  The form stays editable while an order is sent.
   What the form holds is one of the sales the operator has agreed on.  *)
EXTENDS Naturals

CONSTANTS
    Tabs,
    Keys,         \* keys to draw
    Sales,        \* what the operator wants to enter, each once
    None,
    MaxRequests,  \* bound: orders sent
    MaxLosses,    \* bound: failed connections
    MaxUpdates,   \* bound: corrections of the delivery date
    MaxMounts     \* bound: times the page is opened

\* What the constants of every instance satisfy.
BoundAssumption ==
    /\ None \notin Keys /\ None \notin Sales
    /\ MaxRequests \in Nat /\ MaxLosses \in Nat /\ MaxUpdates \in Nat /\ MaxMounts \in Nat

VARIABLES
    careful,    \* whether the operator stays on the page while it says it is busy
    stored,     \* the orders: by key, the sale and whether its date was corrected
    storage,    \* each tab's sessionStorage
    page,       \* each tab's page: mount number (0: none), key, form, flags, created order
    creating,   \* AdminApp's guard of each tab
    requests,   \* orders and corrections in flight
    clipboard,  \* the message copied last: whose link, and which amount
    drawn,      \* keys drawn so far
    seen,       \* sales the operator has seen created; the code keeps no such set
    sent, lost, mounts

vars == <<careful, stored, storage, page, creating, requests, clipboard, drawn, seen, sent, lost,
          mounts>>
counts == <<sent, lost, mounts>>

-----------------------------------------------------------------------------
(* Data *)

Order == [sale : Sales, corrected : BOOLEAN]
NoOrder == [sale |-> None, corrected |-> FALSE]

\* The order a created page shows.
Created == [key : Keys, corrected : BOOLEAN]
NotCreated == [key |-> None, corrected |-> FALSE]

NoPage == [n |-> 0, key |-> None, form |-> None, pending |-> FALSE, created |-> NotCreated,
           updating |-> FALSE]

Page == [n : 0..MaxMounts, key : Keys \cup {None}, form : Sales \cup {None}, pending : BOOLEAN,
         created : Created \cup {NotCreated}, updating : BOOLEAN]

Request == [id : Nat, kind : {"create", "correct"}, tab : Tabs, n : 1..MaxMounts, key : Keys,
            form : Sales \cup {None}, created : Created \cup {NotCreated},
            answer : {"none", "ok", "conflict", "lost"}]

Init ==
    /\ careful \in BOOLEAN
    /\ stored = [k \in Keys |-> NoOrder]
    /\ storage = [t \in Tabs |-> None]
    /\ page = [t \in Tabs |-> NoPage]
    /\ creating = [t \in Tabs |-> FALSE]
    /\ requests = {}
    /\ clipboard = [key |-> None, amountOf |-> None]
    /\ drawn = {}
    /\ seen = {}
    /\ sent = 0 /\ lost = 0 /\ mounts = 0

-----------------------------------------------------------------------------
(* The page *)

\* Variant: every visit draws a key.
FreshKey(t, k) == k \notin drawn

\* newCreateKey: the tab's key, or a new one that is stored at once.
NewCreateKey(t, k) == IF storage[t] # None THEN k = storage[t] ELSE k \notin drawn

Open(t, k) ==
    /\ page[t].n = 0 /\ mounts < MaxMounts
    /\ NewCreateKey(t, k)
    /\ mounts' = mounts + 1
    /\ storage' = [storage EXCEPT ![t] = k]
    /\ drawn' = drawn \cup {k}
    /\ page' = [page EXCEPT ![t] = [NoPage EXCEPT !.n = mounts + 1, !.key = k]]
    /\ UNCHANGED <<careful, stored, creating, requests, clipboard, seen, sent, lost>>

\* Navigation within the application, Back and reload.  The effect's clean-up
\* releases the guard; handlers in flight go on.
Leave(t) ==
    /\ page[t].n # 0
    /\ careful => ~page[t].pending /\ ~creating[t]
    /\ page' = [page EXCEPT ![t] = NoPage]
    /\ creating' = [creating EXCEPT ![t] = FALSE]
    /\ UNCHANGED <<careful, stored, storage, requests, clipboard, drawn, seen, counts>>

\* The fields, which no flag disables.  The operator enters a sale not yet seen
\* created.
Fill(t, sale) ==
    /\ page[t].n # 0 /\ page[t].created = NotCreated
    /\ sale # page[t].form /\ sale \notin seen
    /\ page' = [page EXCEPT ![t].form = sale]
    /\ UNCHANGED <<careful, stored, storage, creating, requests, clipboard, drawn, seen, counts>>

Sent(t, kind) ==
    /\ sent < MaxRequests + MaxUpdates
    /\ sent' = sent + 1
    /\ requests' = requests \cup
          {[id |-> sent + 1, kind |-> kind, tab |-> t, n |-> page[t].n, key |-> page[t].key,
            form |-> page[t].form, created |-> page[t].created, answer |-> "none"]}

\* Variant: the guard of the whole application is forgotten.
Unguarded(t) == creating

\* onBusyChange(true)
Guarded(t) == [creating EXCEPT ![t] = TRUE]

Submit(t) ==
    /\ page[t].form # None /\ page[t].created = NotCreated /\ ~page[t].pending
    /\ page' = [page EXCEPT ![t].pending = TRUE]
    /\ creating' = Guarded(t)
    /\ Sent(t, "create")
    /\ UNCHANGED <<careful, stored, storage, clipboard, drawn, seen, lost, mounts>>

\* copyMessage: the link of the created order, the amount in the form.
CopyMessage(t) ==
    /\ page[t].created # NotCreated
    /\ clipboard' = [key |-> page[t].created.key, amountOf |-> page[t].form]
    /\ UNCHANGED <<careful, stored, storage, page, creating, requests, drawn, seen, counts>>

SaveDeliveryDate(t) ==
    /\ page[t].created # NotCreated /\ ~page[t].updating
    /\ MaxUpdates > 0
    /\ page' = [page EXCEPT ![t].updating = TRUE]
    /\ Sent(t, "correct")
    /\ UNCHANGED <<careful, stored, storage, creating, clipboard, drawn, seen, lost, mounts>>

\* "Create another": an empty form under a new key.
Reset(t, k) ==
    /\ page[t].created # NotCreated /\ ~page[t].pending
    /\ k \notin drawn
    /\ drawn' = drawn \cup {k}
    /\ storage' = [storage EXCEPT ![t] = k]
    /\ page' = [page EXCEPT ![t] = [@ EXCEPT !.form = None, !.created = NotCreated, !.key = k]]
    /\ UNCHANGED <<careful, stored, creating, requests, clipboard, seen, counts>>

-----------------------------------------------------------------------------
(* The server and the network *)

\* The order as the server tells it.
Told(r) == IF r.kind = "create" THEN [key |-> r.key, corrected |-> stored[r.key].corrected]
           ELSE [r.created EXCEPT !.corrected = TRUE]

Answer(r, answer) ==
    requests' = (requests \ {r}) \cup
        {[r EXCEPT !.answer = answer, !.created = IF answer = "ok" THEN Told(r) ELSE @]}

\* Variant: the contents are not compared.
AnySale(r) == TRUE

\* order.CreateFingerprint = createFingerprint
SameSale(r) == stored[r.key].sale = r.form

\* One order per key; the same key with other contents is refused.
Serve(r) ==
    /\ r.answer = "none"
    /\ \/ /\ r.kind = "create" /\ stored[r.key] = NoOrder
          /\ stored' = [stored EXCEPT ![r.key] = [sale |-> r.form, corrected |-> FALSE]]
          /\ Answer(r, "ok")
       \/ /\ r.kind = "create" /\ stored[r.key] # NoOrder
          /\ Answer(r, IF SameSale(r) THEN "ok" ELSE "conflict")
          /\ UNCHANGED stored
       \/ /\ r.kind = "correct"
          /\ stored' = [stored EXCEPT ![r.created.key].corrected = TRUE]
          /\ Answer(r, "ok")
    /\ UNCHANGED <<careful, storage, page, creating, clipboard, drawn, seen, counts>>

\* The connection fails before or after the order is stored.
Lose(r) ==
    /\ r.answer # "lost" /\ lost < MaxLosses
    /\ lost' = lost + 1
    /\ Answer(r, "lost")
    /\ UNCHANGED <<careful, stored, storage, page, creating, clipboard, drawn, seen, sent, mounts>>

\* Variant: the answer is shown wherever the operator is.
MountedOrNot(r) == TRUE

\* Whether the page that sent r is still there.
Mounted(r) == page[r.tab].n = r.n

Accepted(r) == r.answer = "ok"

\* Variant: the key is dropped whatever the answer was.
NoKey(r) == None

\* sessionStorage.removeItem, after a success only.
KeyAfter(r) == IF Accepted(r) THEN None ELSE storage[r.tab]

\* Variant: only a success stops the spinner.
PendingUntilCreated(r) == ~Accepted(r)

\* setPending(false) in the finally.
PendingAfter(r) == FALSE

\* The rest of submit.  A success removes the key from storage, shows the order and
\* copies its message from the submitted form; a failure keeps the key.  Either way
\* the page is no longer pending and the guard is released.
CreateEnds(r) ==
    /\ r.kind = "create" /\ r.answer # "none"
    /\ requests' = requests \ {r}
    /\ creating' = [creating EXCEPT ![r.tab] = FALSE]
    /\ storage' = [storage EXCEPT ![r.tab] = KeyAfter(r)]
    /\ clipboard' = IF Accepted(r) THEN [key |-> r.key, amountOf |-> r.form] ELSE clipboard
    /\ IF Mounted(r)
       THEN /\ page' = [page EXCEPT ![r.tab].pending = PendingAfter(r),
                                    ![r.tab].created = IF Accepted(r) THEN r.created ELSE @]
            /\ seen' = IF Accepted(r) THEN seen \cup {r.form} ELSE seen
       ELSE UNCHANGED <<page, seen>>
    /\ UNCHANGED <<careful, stored, drawn, counts>>

\* The rest of saveDeliveryDate: the order the handler had is shown with its new date.
CorrectionEnds(r) ==
    /\ r.kind = "correct" /\ r.answer # "none"
    /\ requests' = requests \ {r}
    /\ page' = IF ~Mounted(r) THEN page
               ELSE [page EXCEPT ![r.tab].updating = FALSE,
                                 ![r.tab].created = IF r.answer = "ok" THEN r.created ELSE @]
    /\ UNCHANGED <<careful, stored, storage, creating, clipboard, drawn, seen, counts>>

-----------------------------------------------------------------------------

Next ==
    \/ \E t \in Tabs :
          \/ \E k \in Keys : Open(t, k) \/ Reset(t, k)
          \/ \E sale \in Sales : Fill(t, sale)
          \/ Leave(t) \/ Submit(t) \/ CopyMessage(t) \/ SaveDeliveryDate(t)
    \/ \E r \in requests : Serve(r) \/ Lose(r) \/ CreateEnds(r) \/ CorrectionEnds(r)

\* A request is answered or fails, and its handler runs on.
Fairness ==
    \A i \in 1..MaxRequests + MaxUpdates :
        /\ WF_vars(\E r \in requests : r.id = i /\ Serve(r))
        /\ WF_vars(\E r \in requests : r.id = i /\ (CreateEnds(r) \/ CorrectionEnds(r)))

Spec == Init /\ [][Next]_vars
FairSpec == Spec /\ Fairness

-----------------------------------------------------------------------------
(* Properties *)

TypeOK ==
    /\ stored \in [Keys -> Order \cup {NoOrder}]
    /\ storage \in [Tabs -> Keys \cup {None}]
    /\ page \in [Tabs -> Page]
    /\ \A t \in Tabs : page[t].n = 0 => page[t] = NoPage
    /\ creating \in [Tabs -> BOOLEAN]
    /\ requests \subseteq Request
    /\ clipboard \in [key : Keys \cup {None}, amountOf : Sales \cup {None}]
    /\ drawn \subseteq Keys /\ seen \subseteq Sales
    /\ sent \in 0..MaxRequests + MaxUpdates /\ lost \in 0..MaxLosses /\ mounts \in 0..MaxMounts

\* With an operator who stays a sale is stored once, although it is sent again until it
\* is seen created (PRODUCT.md, rule 3).
NoDuplicate ==
    careful => \A j, k \in Keys : stored[j] # NoOrder /\ stored[j].sale = stored[k].sale => j = k

\* A created page shows an order that is stored, with the sale the operator sent
\* and no correction that is not.
CreatedIsStored ==
    \A t \in Tabs : page[t].created # NotCreated =>
        LET c == page[t].created
        IN /\ stored[c.key] # NoOrder /\ stored[c.key].sale \in seen
           /\ c.corrected => stored[c.key].corrected

\* A tab gives up a key only when an order has been stored under it, so an answer
\* that never came can be asked for again.
KeyOutlives ==
    \A t \in Tabs : storage[t] # None /\ storage'[t] # storage[t] => stored[storage[t]] # NoOrder

\* The same of every step: no failure, reload or second tab costs the key of a sale
\* whose answer is outstanding (newCreateKey, submit).
KeyOutlivesFailure == [][KeyOutlives]_vars

\* While a page sends an order, the shop switcher and the navigation are disabled.
BusyWhilePending == \A t \in Tabs : page[t].pending => creating[t]

\* The copied message names the amount of the order whose link it carries.
MessageMatchesOrder == clipboard.key # None => clipboard.amountOf = stored[clipboard.key].sale

-----------------------------------------------------------------------------
(* Inductive invariants *)

\* What an answer or a page says of an order is true of the one that is stored.
IsStored(c) == stored[c.key] # NoOrder /\ (c.corrected => stored[c.key].corrected)

\* An answer tells of the order stored under the request's key; a correction is of an
\* order the operator has seen created.
RequestFits(r) ==
    /\ r.kind = "create" => r.form # None
    /\ r.kind = "create" /\ r.answer = "ok" =>
          IsStored(r.created) /\ r.created.key = r.key /\ stored[r.key].sale = r.form
    /\ r.kind = "correct" =>
          r.created # NotCreated /\ IsStored(r.created) /\ stored[r.created.key].sale \in seen

\* A careful operator waits on the page that sent the order, which sends no other.
Attended ==
    \A r \in requests : r.kind = "create" =>
        /\ Mounted(r) /\ page[r.tab].pending /\ creating[r.tab]
        /\ \A s \in requests : s.kind = "create" /\ s.tab = r.tab => s = r

IInv ==
    /\ TypeOK /\ CreatedIsStored
    /\ \A t \in Tabs : page[t].n # 0 => page[t].key # None
    /\ \A r \in requests : RequestFits(r)
    /\ careful => Attended /\ BusyWhilePending

\* Only tab t is used.
Only(t) ==
    /\ \A u \in Tabs \ {t} : page[u] = NoPage /\ storage[u] = None
    /\ \A r \in requests : r.tab = t

\* The tab's key is that of the sale it is about to send, and is gone once the order is
\* created; a request in flight was sent under it.
KeyFits(t) ==
    /\ storage[t] # None => storage[t] \in drawn
    /\ page[t].n # 0 /\ page[t].created = NotCreated => storage[t] = page[t].key
    /\ page[t].created # NotCreated => storage[t] = None /\ ~page[t].pending
    /\ \A r \in requests : r.key = page[t].key

\* Of the stored orders only the one under the tab's key is not yet seen created, and
\* what is entered or under way is not seen either.
SalesFit(t) ==
    /\ \A k \in Keys : stored[k] # NoOrder =>
          k \in drawn /\ (stored[k].sale \in seen <=> storage[t] # k)
    /\ page[t].created = NotCreated => page[t].form \notin seen
    /\ \A r \in requests : r.form \notin seen

\* A careful operator in one tab who corrects no date.
AloneInv(t) ==
    /\ careful /\ Only(t) /\ KeyFits(t) /\ SalesFit(t)
    /\ \A r \in requests : r.kind = "create"
    /\ NoDuplicate

-----------------------------------------------------------------------------
(* Liveness *)

\* An order that is sent is answered, on the page or without it.
PendingEnds == \A t \in Tabs : page[t].pending ~> ~page[t].pending
=============================================================================
