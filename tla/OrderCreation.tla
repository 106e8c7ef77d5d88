---------------------------- MODULE OrderCreation ----------------------------
(* Creation of orders under a client-chosen key, as createOrder (orders.go) and
   importHistoricalOrder (historical_orders.go) do it.  The browser keeps its
   key until it hears of success and sends the same key again after an error,
   so identical requests overlap, follow each other across a crash, a midnight
   or the end of a subscription, and different requests meet under one key.

   A handler validates its input, looks the key up without a lock, and only then
   opens the transaction that locks the shop and the products, inserts with
   ON CONFLICT (create_key) DO NOTHING and commits; a conflict rolls back and is
   answered from a second lookup.  Between any two of these steps anything can
   happen.  Both handlers share this shape; they differ in the date check.  *)
EXTENDS Naturals

CONSTANTS
    Requests,     \* POST /api/orders and POST /api/orders/import
    Keys,         \* createKey
    Admins,
    Bodies,       \* everything the fingerprint covers: shop, items, amount, date...
    Shops,
    ShopOf,       \* the shop of each body
    Access,       \* admin_shops: pairs of an admin and a shop
    Historical,   \* the bodies that are imports
    DeliveryDay,  \* the estimated delivery date of each body
    None,         \* nothing yet
    LastDay,      \* bound: days that pass, counted from 0
    MaxFailures   \* bound: failed requests and crashes

ASSUME BodyAssumption ==
    /\ ShopOf \in [Bodies -> Shops]
    /\ Access \subseteq Admins \X Shops
    /\ Historical \subseteq Bodies
    /\ DeliveryDay \in [Bodies -> Nat]
ASSUME NoneAssumption ==
    None \notin Requests \cup Keys \cup Admins \cup Bodies
ASSUME BoundAssumption == LastDay \in Nat /\ MaxFailures \in Nat

VARIABLES
    orders,    \* the committed rows
    request,   \* the state of each request
    day,       \* the current day in Tehran
    sellable,  \* bodies whose shop is active and paid for and whose products are active
    failures   \* failures so far

vars == <<orders, request, day, sellable, failures>>

-----------------------------------------------------------------------------
(* Data *)

\* An order row is identified by the request that has inserted it.
OrderRow == [key : Keys, body : Bodies, by : Requests]

Waiting == {"received", "cleared", "locked", "inserted", "conflict", "committed"}

Answers == {"created", "taken", "past", "unavailable", "failed"}

(* retry: when the request came in, an order with its key and its contents was
   there for its admin to see.  The code keeps no such flag. *)
Request ==
    [phase : {"idle"}, key : {None}, admin : {None}, body : {None},
     order : {None}, retry : {FALSE}]
    \cup
    [phase : (Waiting \cup Answers \cup {"lost"}) \ {"created"},
     key : Keys, admin : Admins, body : Bodies, order : {None}, retry : BOOLEAN]
    \cup
    [phase : {"created"}, key : Keys, admin : Admins, body : Bodies,
     order : Requests, retry : BOOLEAN]

Init ==
    /\ orders = {}
    /\ request = [q \in Requests |->
          [phase |-> "idle", key |-> None, admin |-> None, body |-> None,
           order |-> None, retry |-> FALSE]]
    /\ day = 0
    /\ sellable = Bodies
    /\ failures = 0

\* Variant: rows of every shop are looked up.
VisibleToAll(a, r) == TRUE

\* The lookup joins the order's shop with the shops of the admin.
Visible(a, r) == <<a, ShopOf[r.body]>> \in Access

\* Variant: the fingerprint is not compared.
AnyContents(q, r) == TRUE

\* order.CreateFingerprint = createFingerprint
SameContents(q, r) == r.body = request[q].body

Found(q) ==
    {r \in orders : r.key = request[q].key /\ Visible(request[q].admin, r)}

\* Today or later for a new order, any date for an import.
ValidDeliveryDate(b) == b \in Historical \/ DeliveryDay[b] >= day

InRow(q) == [key |-> request[q].key, body |-> request[q].body, by |-> q]

\* Request q moves on to phase p.
Reach(q, p) == request' = [request EXCEPT ![q].phase = p]

-----------------------------------------------------------------------------
(* The handler, step by step *)

Receive(q, k, a, b) ==
    /\ request[q].phase = "idle"
    /\ request' = [request EXCEPT ![q] =
          [phase |-> IF ValidDeliveryDate(b) THEN "received" ELSE "past",
           key |-> k, admin |-> a, body |-> b, order |-> None,
           retry |-> \E r \in orders : r.key = k /\ r.body = b /\ Visible(a, r)]]
    /\ UNCHANGED <<orders, day, sellable, failures>>

\* Variant: the order is named in the refusal, too.
RespondWithOrder(q, r) ==
    request' = [request EXCEPT
        ![q].phase = IF SameContents(q, r) THEN "created" ELSE "taken",
        ![q].order = r.by]

\* The order found under the key is the answer if its contents are the same.
RespondExisting(q, r) ==
    request' = [request EXCEPT
        ![q].phase = IF SameContents(q, r) THEN "created" ELSE "taken",
        ![q].order = IF SameContents(q, r) THEN r.by ELSE None]

\* Variant: the early lookup is left to the unique index.
LookUpNothing(q) ==
    /\ request[q].phase = "received"
    /\ Reach(q, "cleared")
    /\ UNCHANGED <<orders, day, sellable, failures>>

LookUp(q) ==
    /\ request[q].phase = "received"
    /\ \/ \E r \in Found(q) : RespondExisting(q, r)
       \/ Found(q) = {} /\ Reach(q, "cleared")
    /\ UNCHANGED <<orders, day, sellable, failures>>

\* lockedActiveShop and the locked products, inside the transaction.
LockShop(q) ==
    /\ request[q].phase = "cleared"
    /\ Reach(q, IF /\ <<request[q].admin, ShopOf[request[q].body]>> \in Access
                   /\ request[q].body \in sellable
                THEN "locked" ELSE "unavailable")
    /\ UNCHANGED <<orders, day, sellable, failures>>

\* Variant: an insert does not wait for an uncommitted one.
KeyNeverHeld(q) == FALSE

\* Another transaction has inserted the key and has not ended: the insert waits.
KeyHeld(q) ==
    \E p \in Requests : request[p].phase = "inserted" /\ request[p].key = request[q].key

\* Variant: no unique constraint on create_key.
KeyAlwaysFree(q) == TRUE

KeyFree(q) == \A r \in orders : r.key # request[q].key

\* INSERT ... ON CONFLICT (create_key) DO NOTHING
Insert(q) ==
    /\ request[q].phase = "locked"
    /\ ~ KeyHeld(q)
    /\ Reach(q, IF KeyFree(q) THEN "inserted" ELSE "conflict")
    /\ UNCHANGED <<orders, day, sellable, failures>>

\* Items, first history entry, pilot event, COMMIT.
Commit(q) ==
    /\ request[q].phase = "inserted"
    /\ orders' = orders \cup {InRow(q)}
    /\ Reach(q, "committed")
    /\ UNCHANGED <<day, sellable, failures>>

Respond(q) ==
    /\ request[q].phase = "committed"
    /\ request' = [request EXCEPT ![q].phase = "created", ![q].order = q]
    /\ UNCHANGED <<orders, day, sellable, failures>>

\* Variant: a conflict is answered 409 at once.
ConflictRefused(q) ==
    /\ request[q].phase = "conflict"
    /\ Reach(q, "taken")
    /\ UNCHANGED <<orders, day, sellable, failures>>

\* errOrderAlreadyCreated: the key is looked up again after the rollback.
LookUpAgain(q) ==
    /\ request[q].phase = "conflict"
    /\ \/ \E r \in Found(q) : RespondExisting(q, r)
       \/ Found(q) = {} /\ Reach(q, "taken")
    /\ UNCHANGED <<orders, day, sellable, failures>>

-----------------------------------------------------------------------------
(* What goes wrong, and what goes on meanwhile *)

\* A database or storage error; an open transaction is rolled back.
Fail(q) ==
    /\ request[q].phase \in Waiting \ {"committed"}
    /\ failures < MaxFailures
    /\ Reach(q, "failed")
    /\ failures' = failures + 1
    /\ UNCHANGED <<orders, day, sellable>>

\* The database commits and the connection is lost before it says so.
CommitUnheard(q) ==
    /\ request[q].phase = "inserted"
    /\ failures < MaxFailures
    /\ orders' = orders \cup {InRow(q)}
    /\ Reach(q, "failed")
    /\ failures' = failures + 1
    /\ UNCHANGED <<day, sellable>>

\* The process ends: nobody is answered, open transactions are rolled back.
Crash ==
    /\ failures < MaxFailures
    /\ request' = [q \in Requests |->
          IF request[q].phase \in Waiting
          THEN [request[q] EXCEPT !.phase = "lost"] ELSE request[q]]
    /\ failures' = failures + 1
    /\ UNCHANGED <<orders, day, sellable>>

Midnight ==
    /\ day < LastDay
    /\ day' = day + 1
    /\ UNCHANGED <<orders, request, sellable, failures>>

\* A subscription ends or is renewed, a product is archived or activated.
ShopChanges(b) ==
    /\ sellable' = IF b \in sellable THEN sellable \ {b} ELSE sellable \cup {b}
    /\ UNCHANGED <<orders, request, day, failures>>

-----------------------------------------------------------------------------

Step(q) ==
    \/ LookUp(q)
    \/ LockShop(q)
    \/ Insert(q)
    \/ Commit(q)
    \/ Respond(q)
    \/ LookUpAgain(q)

Handle(q) ==
    \/ \E k \in Keys, a \in Admins, b \in Bodies : Receive(q, k, a, b)
    \/ Step(q)
    \/ Fail(q)
    \/ CommitUnheard(q)

Next ==
    \/ \E q \in Requests : Handle(q)
    \/ Crash
    \/ Midnight
    \/ \E b \in Bodies : ShopChanges(b)

Spec == Init /\ [][Next]_vars

-----------------------------------------------------------------------------
(* Properties *)

(* Every variable has its type; an order is named in a success and nowhere else. *)
TypeOK ==
    /\ orders \subseteq OrderRow
    /\ request \in [Requests -> Request]
    /\ day \in 0 .. LastDay
    /\ sellable \subseteq Bodies
    /\ failures \in 0 .. MaxFailures

(* A key never makes two orders, however many requests carry it at once and
   wherever a failure or a crash falls (ON CONFLICT DO NOTHING in createOrder
   and importHistoricalOrder). *)
OneOrderPerKey ==
    \A r, s \in orders : r.key = s.key => r = s

(* A success names a committed order that was made under the request's own key
   and with its own contents: retries agree on the order, and changed data is
   never passed off as created (respondExisting, orderCreatedResponse). *)
CreatedIsRecorded ==
    \A q \in Requests : request[q].phase = "created" =>
        \E r \in orders :
            /\ r.by = request[q].order
            /\ r.key = request[q].key
            /\ r.body = request[q].body

(* An admin is told only of orders in shops of his own, although keys are shared
   by all shops: the lookups join admin_shops, and so does lockedActiveShop. *)
OwnShopsOnly ==
    \A q \in Requests : request[q].phase = "created" =>
        <<request[q].admin, ShopOf[request[q].body]>> \in Access

(* 409 is given only where the key belongs to an order with other contents or
   in a shop the admin does not see: of two identical requests that race, the
   loser is given the winner's order. *)
TakenByAnother ==
    \A q \in Requests : request[q].phase = "taken" =>
        \E r \in orders :
            /\ r.key = request[q].key
            /\ r.body # request[q].body \/ ~ Visible(request[q].admin, r)

(* A request that repeats an order already committed is given that order, also
   when the shop has lost its subscription or a product has been archived since;
   the date check and failures aside. *)
RepeatedIsGranted ==
    \A q \in Requests :
        request[q].retry =>
            request[q].phase \notin {"taken", "unavailable"}

(* The same with nothing set aside but failures: identical retries return the
   same order (PRODUCT.md, "Creation retry protection"). *)
IdenticalRetryReturnsOrder ==
    \A q \in Requests :
        request[q].retry =>
            request[q].phase \notin {"taken", "unavailable", "past"}

(* A request as its sender sees it. *)
Outcome(r) ==
    [state    |-> CASE r.phase = "idle" -> "none"
                    [] r.phase \in Waiting -> "pending"
                    [] r.phase = "created" -> "granted"
                    [] OTHER -> "denied",
     key      |-> r.key,
     contents |-> r.body,
     order    |-> r.order]

Promise == INSTANCE OnceByKey WITH
    Contents <- Bodies, ask <- [q \in Requests |-> Outcome(request[q])]

(* Creation implements what OnceByKey promises to its callers: whatever the
   locks, conflicts, failures and crashes, only a request with a free key makes
   an order, and only the order of its own key and contents is granted to it. *)
KeepsPromise == Promise!Spec
=============================================================================
