------------------------- MODULE OrderCreation_proofs -------------------------
(* Proofs about OrderCreation for any number of requests, keys, admins, shops,
   days and failures.

   What a request knows is kept in Sound(r, O): a condition on the record r of
   one request and the set O of committed rows.  A row is never removed, so
   every part of Sound but one survives what other requests do; the exception,
   that the key of an uncommitted insertion is still free, is kept by
   InsertsApart.  *)
EXTENDS OrderCreation, TLAPS

\* An order that repeats r: same key and contents, and visible to r's admin.
Repeats(row, r) ==
    /\ row.key = r.key
    /\ row.body = r.body
    /\ <<r.admin, ShopOf[row.body]>> \in Access

Sound(r, O) ==
    /\ r.phase \in {"locked", "inserted", "committed", "created"} =>
          <<r.admin, ShopOf[r.body]>> \in Access
    /\ r.phase = "inserted" => \A row \in O : row.key # r.key
    /\ r.phase = "conflict" => \E row \in O : row.key = r.key
    /\ r.phase = "created" =>
          \E row \in O : row.by = r.order /\ row.key = r.key /\ row.body = r.body
    /\ r.phase = "taken" =>
          \E row \in O : row.key = r.key /\ ~ Repeats(row, r)
    /\ r.retry =>
          /\ \E row \in O : Repeats(row, r)
          /\ r.phase \in {"received", "created", "past", "failed", "lost"}

InsertsApart ==
    \A p, q \in Requests :
        request[p].phase = "inserted" /\ request[q].phase = "inserted"
          /\ request[p].key = request[q].key => p = q

CommitsRecorded ==
    \A q \in Requests : request[q].phase = "committed" => InRow(q) \in orders

Inv ==
    /\ TypeOK
    /\ OneOrderPerKey
    /\ InsertsApart
    /\ CommitsRecorded
    /\ \A q \in Requests : Sound(request[q], orders)

-----------------------------------------------------------------------------
(* A request under way moves on without an order of its own. *)
LEMMA Moves ==
    ASSUME NEW r \in Request, r.phase \in Waiting,
           NEW p \in (Waiting \cup Answers \cup {"lost"}) \ {"created"}
    PROVE  LET m == [r EXCEPT !.phase = p] IN
           /\ m \in Request
           /\ m.phase = p /\ m.key = r.key /\ m.admin = r.admin
           /\ m.body = r.body /\ m.order = r.order /\ m.retry = r.retry
           /\ m.order = None
<1>1. r \in [phase : (Waiting \cup Answers \cup {"lost"}) \ {"created"},
             key : Keys, admin : Admins, body : Bodies, order : {None}, retry : BOOLEAN]
  BY DEF Request, Waiting
<1> QED BY <1>1 DEF Request

(* A request under way is granted an order. *)
LEMMA Granted ==
    ASSUME NEW r \in Request, r.phase \in Waiting, NEW o \in Requests
    PROVE  LET m == [r EXCEPT !.phase = "created", !.order = o] IN
           /\ m \in Request
           /\ m.phase = "created" /\ m.key = r.key /\ m.admin = r.admin
           /\ m.body = r.body /\ m.order = o /\ m.retry = r.retry
<1>1. r \in [phase : (Waiting \cup Answers \cup {"lost"}) \ {"created"},
             key : Keys, admin : Admins, body : Bodies, order : {None}, retry : BOOLEAN]
  BY DEF Request, Waiting
<1> QED BY <1>1 DEF Request

(* A request under way has a key, an admin and contents, and its row is a row. *)
LEMMA UnderWay ==
    ASSUME TypeOK, NEW q \in Requests, request[q].phase \in Waiting
    PROVE  /\ request[q] \in Request
           /\ request[q].key \in Keys /\ request[q].admin \in Admins
           /\ request[q].body \in Bodies /\ request[q].retry \in BOOLEAN
           /\ request[q].order = None
           /\ InRow(q) \in OrderRow
           /\ InRow(q).key = request[q].key
           /\ InRow(q).body = request[q].body
           /\ InRow(q).by = q
<1>1. request[q] \in Request
  BY DEF TypeOK
<1>2. request[q] \in [phase : (Waiting \cup Answers \cup {"lost"}) \ {"created"},
             key : Keys, admin : Admins, body : Bodies, order : {None}, retry : BOOLEAN]
  BY <1>1 DEF Request, Waiting
<1> QED BY <1>1, <1>2 DEF InRow, OrderRow

(* Sound is not lost when rows are added, the free key of an insertion aside. *)
LEMMA SoundKept ==
    ASSUME NEW r, NEW O, NEW P, Sound(r, O), O \subseteq P,
           r.phase = "inserted" => \A row \in P : row.key # r.key
    PROVE  Sound(r, P)
BY DEF Sound

(* A step of one request that adds no row keeps the invariant if the request is
   sound after it. *)
LEMMA OneMoves ==
    ASSUME Inv, NEW q \in Requests, NEW m \in Request,
           request' = [request EXCEPT ![q] = m],
           UNCHANGED <<orders, day, sellable>>,
           failures' \in 0 .. MaxFailures,
           Sound(m, orders),
           m.phase = "inserted" => ~ KeyHeld(q) /\ m.key = request[q].key,
           m.phase = "committed" => [key |-> m.key, body |-> m.body, by |-> q] \in orders
    PROVE  Inv'
<1>1. \A p \in Requests : request'[p] = IF p = q THEN m ELSE request[p]
  BY DEF Inv, TypeOK
<1>2. TypeOK'
  BY DEF Inv, TypeOK
<1>3. OneOrderPerKey'
  BY DEF Inv, OneOrderPerKey
<1>4. InsertsApart'
  <2> SUFFICES ASSUME NEW a \in Requests, NEW b \in Requests,
                      request'[a].phase = "inserted", request'[b].phase = "inserted",
                      request'[a].key = request'[b].key
               PROVE  a = b
    BY DEF InsertsApart
  <2>1. CASE a # q /\ b # q
    BY <1>1, <2>1 DEF Inv, InsertsApart
  <2>2. CASE a = q /\ b # q
    BY <1>1, <2>2 DEF KeyHeld
  <2>3. CASE a # q /\ b = q
    BY <1>1, <2>3 DEF KeyHeld
  <2> QED BY <2>1, <2>2, <2>3
<1>5. CommitsRecorded'
  BY <1>1 DEF Inv, CommitsRecorded, InRow
<1>6. \A p \in Requests : Sound(request[p], orders)'
  BY <1>1 DEF Inv
<1> QED BY <1>2, <1>3, <1>4, <1>5, <1>6 DEF Inv

(* An insertion that commits adds the first row of its key. *)
LEMMA RowAdded ==
    ASSUME Inv, NEW q \in Requests, request[q].phase = "inserted",
           NEW p \in {"committed", "failed"}, Reach(q, p),
           orders' = orders \cup {InRow(q)},
           UNCHANGED <<day, sellable>>,
           failures' \in 0 .. MaxFailures
    PROVE  Inv'
<1> DEFINE m == [request[q] EXCEPT !.phase = p]
<1>1. /\ request[q].phase \in Waiting
      /\ p \in (Waiting \cup Answers \cup {"lost"}) \ {"created"}
  BY DEF Waiting, Answers
<1>2. /\ request[q] \in Request
      /\ InRow(q) \in OrderRow
      /\ InRow(q).key = request[q].key
      /\ InRow(q).body = request[q].body
      /\ InRow(q).by = q
  BY <1>1, UnderWay DEF Inv
<1>3. /\ m \in Request /\ m.phase = p
      /\ m.key = request[q].key /\ m.body = request[q].body
      /\ m.admin = request[q].admin /\ m.retry = request[q].retry
  <2> HIDE DEF m
  <2>1. \A r \in Request : r.phase \in Waiting =>
          LET n == [r EXCEPT !.phase = p] IN
          /\ n \in Request /\ n.phase = p /\ n.key = r.key /\ n.body = r.body
          /\ n.admin = r.admin /\ n.retry = r.retry
    BY <1>1, Moves
  <2> QED BY <1>1, <1>2, <2>1 DEF m
<1>4. \A a \in Requests : request'[a] = IF a = q THEN m ELSE request[a]
  BY DEF Inv, TypeOK, Reach
<1>5. request' = [request EXCEPT ![q] = m]
  BY DEF Reach, Inv, TypeOK
<1> HIDE DEF m
<1>6. TypeOK'
  BY <1>2, <1>3, <1>5 DEF Inv, TypeOK
<1>7. Sound(request[q], orders)
  BY DEF Inv
<1>8. \A row \in orders : row.key # InRow(q).key
  BY <1>2, <1>7 DEF Sound
<1>9. OneOrderPerKey'
  BY <1>8 DEF Inv, OneOrderPerKey
<1>10. InsertsApart'
  BY <1>3, <1>4 DEF Inv, InsertsApart
<1>11. CommitsRecorded'
  <2> SUFFICES ASSUME NEW a \in Requests, request'[a].phase = "committed"
               PROVE  InRow(a)' \in orders'
    BY DEF CommitsRecorded
  <2>1. request'[a].key = request[a].key /\ request'[a].body = request[a].body
    BY <1>3, <1>4
  <2>2. InRow(a)' = InRow(a)
    BY <2>1 DEF InRow
  <2>3. CASE a = q
    BY <2>2, <2>3
  <2>4. CASE a # q
    BY <1>4, <2>2, <2>4 DEF Inv, CommitsRecorded
  <2> QED BY <2>3, <2>4
<1>12. ASSUME NEW a \in Requests PROVE Sound(request'[a], orders')
  <2>1. CASE a = q
    <3>1. <<request[q].admin, ShopOf[request[q].body]>> \in Access /\ ~ request[q].retry
      BY <1>7 DEF Sound
    <3> QED BY <1>3, <1>4, <2>1, <3>1 DEF Sound
  <2>2. CASE a # q
    <3>1. request'[a] = request[a] /\ Sound(request[a], orders)
      BY <1>4, <2>2 DEF Inv
    <3>2. request[a].phase = "inserted" => request[a].key # InRow(q).key
      BY <1>2, <2>2 DEF Inv, InsertsApart
    <3>3. request[a].phase = "inserted" => \A row \in orders' : row.key # request[a].key
      BY <3>1, <3>2 DEF Sound
    <3> QED BY <3>1, <3>3, SoundKept
  <2> QED BY <2>1, <2>2
<1> QED BY <1>6, <1>9, <1>10, <1>11, <1>12 DEF Inv

(* m continues the request r: all but the phase and the order are the same. *)
Continues(m, r) ==
    /\ m \in Request
    /\ m.key = r.key /\ m.admin = r.admin /\ m.body = r.body /\ m.retry = r.retry

(* Reaching a phase other than a success or a commit keeps the invariant if
   whatever continues the request in that phase is sound. *)
LEMMA ReachKeeps ==
    ASSUME Inv, NEW q \in Requests, request[q].phase \in Waiting,
           NEW p \in (Waiting \cup Answers \cup {"lost"}) \ {"created", "committed"},
           Reach(q, p),
           UNCHANGED <<orders, day, sellable>>,
           failures' \in 0 .. MaxFailures,
           p = "inserted" => ~ KeyHeld(q),
           \A m : Continues(m, request[q]) /\ m.phase = p => Sound(m, orders)
    PROVE  Inv'
<1> DEFINE m == [request[q] EXCEPT !.phase = p]
<1>1. request[q] \in Request
  BY UnderWay DEF Inv
<1>2. Continues(m, request[q]) /\ m.phase = p
  <2>1. \A r \in Request : r.phase \in Waiting =>
          LET n == [r EXCEPT !.phase = p] IN
          /\ n \in Request /\ n.phase = p /\ n.key = r.key /\ n.body = r.body
          /\ n.admin = r.admin /\ n.retry = r.retry
    BY Moves
  <2> QED BY <1>1, <2>1 DEF Continues
<1>3. request' = [request EXCEPT ![q] = m]
  BY DEF Reach, Inv, TypeOK
<1> HIDE DEF m
<1> QED BY <1>2, <1>3, OneMoves DEF Continues

(* Answering from an order that was found under the key keeps the invariant. *)
LEMMA FoundKeeps ==
    ASSUME Inv, NEW q \in Requests, request[q].phase \in Waiting,
           NEW row \in Found(q), RespondExisting(q, row),
           UNCHANGED <<orders, day, sellable, failures>>
    PROVE  Inv'
<1>1. /\ request[q] \in Request /\ request[q].order = None
      /\ Sound(request[q], orders)
      /\ row \in orders /\ row.by \in Requests
      /\ row.key = request[q].key /\ Visible(request[q].admin, row)
  BY UnderWay DEF Inv, TypeOK, OrderRow, Found
<1>2. CASE SameContents(q, row)
  <2> DEFINE m == [request[q] EXCEPT !.phase = "created", !.order = row.by]
  <2>1. Continues(m, request[q]) /\ m.phase = "created" /\ m.order = row.by
    BY <1>1, Granted DEF Continues
  <2>2. request' = [request EXCEPT ![q] = m]
    BY <1>2 DEF RespondExisting, Inv, TypeOK
  <2> HIDE DEF m
  <2>3. Sound(m, orders)
    BY <1>1, <1>2, <2>1 DEF Sound, Continues, SameContents, Visible, Repeats
  <2>4. failures' \in 0 .. MaxFailures
    BY DEF Inv, TypeOK
  <2> QED BY <2>1, <2>2, <2>3, <2>4, OneMoves DEF Continues
<1>3. CASE ~ SameContents(q, row)
  <2> DEFINE m == [request[q] EXCEPT !.phase = "taken", !.order = None]
             n == [request[q] EXCEPT !.phase = "taken"]
  <2>1. "taken" \in (Waiting \cup Answers \cup {"lost"}) \ {"created"}
    BY DEF Answers
  <2>2. n \in Request /\ n.phase = "taken" /\ n.key = request[q].key
        /\ n.admin = request[q].admin /\ n.body = request[q].body
        /\ n.retry = request[q].retry /\ n.order = None
    BY <1>1, <2>1, Moves
  <2>3. m = n
    BY <1>1 DEF Request
  <2>4. Continues(m, request[q]) /\ m.phase = "taken"
    BY <2>2, <2>3 DEF Continues
  <2>5. request' = [request EXCEPT ![q] = m]
    BY <1>3 DEF RespondExisting, Inv, TypeOK
  <2> HIDE DEF m
  <2>6. ~ request[q].retry
    <3> SUFFICES ASSUME request[q].retry PROVE FALSE
      OBVIOUS
    <3>1. PICK other \in orders : Repeats(other, request[q])
      BY <1>1 DEF Sound
    <3>2. other = row
      BY <1>1, <3>1 DEF Inv, OneOrderPerKey, Repeats
    <3> QED BY <1>3, <3>1, <3>2 DEF Repeats, SameContents
  <2>7. Sound(m, orders)
    BY <1>1, <1>3, <2>4, <2>6 DEF Sound, Continues, SameContents, Repeats
  <2>8. failures' \in 0 .. MaxFailures
    BY DEF Inv, TypeOK
  <2> QED BY <2>4, <2>5, <2>7, <2>8, OneMoves DEF Continues
<1> QED BY <1>2, <1>3

-----------------------------------------------------------------------------
(* The invariant holds initially. *)
LEMMA InvInit == Init => Inv
<1> SUFFICES ASSUME Init PROVE Inv
  OBVIOUS
<1>1. 0 \in 0 .. LastDay /\ 0 \in 0 .. MaxFailures
  BY BoundAssumption
<1>2. TypeOK
  BY <1>1 DEF Init, TypeOK, Request
<1>3. OneOrderPerKey /\ InsertsApart /\ CommitsRecorded
  BY DEF Init, OneOrderPerKey, InsertsApart, CommitsRecorded
<1>4. \A q \in Requests : Sound(request[q], orders)
  BY DEF Init, Sound
<1> QED BY <1>2, <1>3, <1>4 DEF Inv

(* A request that comes in is sound. *)
LEMMA ReceiveKeeps ==
    ASSUME Inv, NEW q \in Requests, NEW k \in Keys, NEW a \in Admins, NEW b \in Bodies,
           Receive(q, k, a, b)
    PROVE  Inv'
<1> DEFINE again == \E r \in orders : r.key = k /\ r.body = b /\ Visible(a, r)
           m == [phase |-> IF ValidDeliveryDate(b) THEN "received" ELSE "past",
                 key |-> k, admin |-> a, body |-> b, order |-> None, retry |-> again]
<1>1. again \in BOOLEAN
  OBVIOUS
<1>2. request' = [request EXCEPT ![q] = m] /\ UNCHANGED <<orders, day, sellable, failures>>
  BY DEF Receive
<1>3. again => \E r \in orders : r.key = k /\ r.body = b /\ <<a, ShopOf[r.body]>> \in Access
  BY DEF Visible
<1> HIDE DEF again
<1>4. m \in Request
  BY <1>1 DEF Request, Waiting, Answers
<1>5. Sound(m, orders) /\ m.phase \in {"received", "past"}
  BY <1>3 DEF Sound, Repeats
<1>6. failures' \in 0 .. MaxFailures
  BY <1>2 DEF Inv, TypeOK
<1> HIDE DEF m
<1> QED BY <1>2, <1>4, <1>5, <1>6, OneMoves

(* Every step of a handler keeps the invariant. *)
LEMMA StepKeeps ==
    ASSUME Inv, NEW q \in Requests, Step(q)
    PROVE  Inv'
<1>1. failures \in 0 .. MaxFailures /\ Sound(request[q], orders)
  BY DEF Inv, TypeOK
<1>2. CASE LookUp(q)
  <2>1. CASE \E r \in Found(q) : RespondExisting(q, r)
    BY <1>2, <2>1, FoundKeeps DEF LookUp, Waiting
  <2>2. CASE Found(q) = {} /\ Reach(q, "cleared")
    <3>1. ~ request[q].retry
      BY <1>1, <2>2 DEF Sound, Found, Visible, Repeats
    <3>2. ASSUME NEW m, Continues(m, request[q]), m.phase = "cleared"
          PROVE  Sound(m, orders)
      BY <3>1, <3>2 DEF Sound, Continues
    <3> QED BY <1>1, <1>2, <2>2, <3>2, ReachKeeps DEF LookUp, Waiting
  <2> QED BY <1>2, <2>1, <2>2 DEF LookUp
<1>3. CASE LockShop(q)
  <2>1. request[q].phase = "cleared" /\ UNCHANGED <<orders, day, sellable, failures>>
    BY <1>3 DEF LockShop
  <2>2. ~ request[q].retry
    BY <1>1, <2>1 DEF Sound
  <2>3. CASE /\ <<request[q].admin, ShopOf[request[q].body]>> \in Access
             /\ request[q].body \in sellable
    <3>1. ASSUME NEW m, Continues(m, request[q]), m.phase = "locked"
          PROVE  Sound(m, orders)
      BY <2>2, <2>3, <3>1 DEF Sound, Continues
    <3>2. Reach(q, "locked")
      BY <1>3, <2>3 DEF LockShop
    <3> QED BY <1>1, <2>1, <3>1, <3>2, ReachKeeps DEF Waiting
  <2>4. CASE ~ (/\ <<request[q].admin, ShopOf[request[q].body]>> \in Access
                /\ request[q].body \in sellable)
    <3>1. ASSUME NEW m, Continues(m, request[q]), m.phase = "unavailable"
          PROVE  Sound(m, orders)
      BY <2>2, <3>1 DEF Sound, Continues
    <3>2. Reach(q, "unavailable")
      BY <1>3, <2>4 DEF LockShop
    <3> QED BY <1>1, <2>1, <3>1, <3>2, ReachKeeps DEF Waiting, Answers
  <2> QED BY <2>3, <2>4
<1>4. CASE Insert(q)
  <2>1. request[q].phase = "locked" /\ ~ KeyHeld(q)
        /\ UNCHANGED <<orders, day, sellable, failures>>
    BY <1>4 DEF Insert
  <2>2. ~ request[q].retry
        /\ <<request[q].admin, ShopOf[request[q].body]>> \in Access
    BY <1>1, <2>1 DEF Sound
  <2>3. CASE KeyFree(q)
    <3>1. ASSUME NEW m, Continues(m, request[q]), m.phase = "inserted"
          PROVE  Sound(m, orders)
      BY <2>2, <2>3, <3>1 DEF Sound, Continues, KeyFree
    <3>2. Reach(q, "inserted")
      BY <1>4, <2>3 DEF Insert
    <3> QED BY <1>1, <2>1, <3>1, <3>2, ReachKeeps DEF Waiting
  <2>4. CASE ~ KeyFree(q)
    <3>1. ASSUME NEW m, Continues(m, request[q]), m.phase = "conflict"
          PROVE  Sound(m, orders)
      BY <2>2, <2>4, <3>1 DEF Sound, Continues, KeyFree
    <3>2. Reach(q, "conflict")
      BY <1>4, <2>4 DEF Insert
    <3> QED BY <1>1, <2>1, <3>1, <3>2, ReachKeeps DEF Waiting
  <2> QED BY <2>3, <2>4
<1>5. CASE Commit(q)
  BY <1>1, <1>5, RowAdded DEF Commit
<1>6. CASE Respond(q)
  <2> DEFINE m == [request[q] EXCEPT !.phase = "created", !.order = q]
  <2>1. request[q].phase \in Waiting /\ request[q].phase = "committed"
        /\ UNCHANGED <<orders, day, sellable, failures>>
        /\ request[q] \in Request
    BY <1>6 DEF Respond, Waiting, Inv, TypeOK
  <2>2. Continues(m, request[q]) /\ m.phase = "created" /\ m.order = q
    BY ZenonT(60), <2>1, Granted DEF Continues
  <2>3. request' = [request EXCEPT ![q] = m]
    BY <1>6 DEF Respond, Inv, TypeOK
  <2>4. InRow(q) \in orders /\ InRow(q).key = request[q].key
        /\ InRow(q).body = request[q].body /\ InRow(q).by = q
    BY <2>1, UnderWay DEF Inv, CommitsRecorded
  <2> HIDE DEF m
  <2>5. Sound(m, orders)
    BY <1>1, <2>1, <2>2, <2>4 DEF Sound, Continues
  <2> QED BY <1>1, <2>1, <2>2, <2>3, <2>5, OneMoves DEF Continues
<1>7. CASE LookUpAgain(q)
  <2>1. CASE \E r \in Found(q) : RespondExisting(q, r)
    BY <1>7, <2>1, FoundKeeps DEF LookUpAgain, Waiting
  <2>2. CASE Found(q) = {} /\ Reach(q, "taken")
    <3>1. request[q].phase = "conflict" /\ UNCHANGED <<orders, day, sellable, failures>>
      BY <1>7 DEF LookUpAgain
    <3>2. ~ request[q].retry
          /\ \E row \in orders : row.key = request[q].key /\ ~ Repeats(row, request[q])
      BY <1>1, <2>2, <3>1 DEF Sound, Found, Visible, Repeats
    <3>3. ASSUME NEW m, Continues(m, request[q]), m.phase = "taken"
          PROVE  Sound(m, orders)
      BY <3>2, <3>3 DEF Sound, Continues, Repeats
    <3> QED BY <1>1, <2>2, <3>1, <3>3, ReachKeeps DEF Waiting, Answers
  <2> QED BY <1>7, <2>1, <2>2 DEF LookUpAgain
<1> QED BY <1>2, <1>3, <1>4, <1>5, <1>6, <1>7 DEF Step

(* A failure keeps the invariant, also one that follows an unheard commit. *)
LEMMA FailureKeeps ==
    ASSUME Inv, NEW q \in Requests, Fail(q) \/ CommitUnheard(q)
    PROVE  Inv'
<1>1. failures' \in 0 .. MaxFailures
  BY BoundAssumption DEF Inv, TypeOK, Fail, CommitUnheard
<1>2. CASE Fail(q)
  <2>1. request[q].phase \in Waiting /\ Reach(q, "failed")
        /\ UNCHANGED <<orders, day, sellable>> /\ Sound(request[q], orders)
    BY <1>2 DEF Fail, Inv
  <2>2. ASSUME NEW m, Continues(m, request[q]), m.phase = "failed"
        PROVE  Sound(m, orders)
    BY <2>1, <2>2 DEF Sound, Continues, Repeats
  <2> QED BY <1>1, <2>1, <2>2, ReachKeeps DEF Answers
<1>3. CASE CommitUnheard(q)
  BY <1>1, <1>3, RowAdded DEF CommitUnheard
<1> QED BY <1>2, <1>3

(* A crash keeps the invariant: what it cuts short has told nobody anything. *)
LEMMA CrashKeeps ==
    ASSUME Inv, Crash
    PROVE  Inv'
<1>1. failures' \in 0 .. MaxFailures
  BY BoundAssumption DEF Inv, TypeOK, Crash
<1>2. UNCHANGED <<orders, day, sellable>>
  BY DEF Crash
<1>3. ASSUME NEW q \in Requests, request[q].phase \in Waiting
      PROVE  Continues(request'[q], request[q]) /\ request'[q].phase = "lost"
  <2>1. request'[q] = [request[q] EXCEPT !.phase = "lost"]
    BY <1>3 DEF Crash
  <2>2. request[q] \in Request
    BY DEF Inv, TypeOK
  <2> QED BY <1>3, <2>1, <2>2, Moves DEF Continues
<1>4. ASSUME NEW q \in Requests, request[q].phase \notin Waiting
      PROVE  request'[q] = request[q]
  BY <1>4 DEF Crash
<1>5. request' = [q \in Requests |-> request'[q]]
  BY DEF Crash
<1>6. ASSUME NEW q \in Requests PROVE request'[q] \in Request
  BY <1>3, <1>4 DEF Continues, Inv, TypeOK
<1>7. TypeOK'
  BY <1>1, <1>2, <1>5, <1>6 DEF Inv, TypeOK
<1>8. OneOrderPerKey'
  BY <1>2 DEF Inv, OneOrderPerKey
<1>9. ASSUME NEW q \in Requests
      PROVE  request'[q].phase \notin {"inserted", "committed"}
  BY <1>3, <1>4 DEF Waiting
<1>10. InsertsApart' /\ CommitsRecorded'
  BY <1>9 DEF InsertsApart, CommitsRecorded
<1>11. ASSUME NEW q \in Requests PROVE Sound(request'[q], orders')
  <2>1. Sound(request[q], orders)
    BY DEF Inv
  <2>2. CASE request[q].phase \in Waiting
    BY <1>2, <1>3, <2>1, <2>2 DEF Sound, Continues, Repeats
  <2> QED BY <1>2, <1>4, <2>1, <2>2
<1> QED BY <1>7, <1>8, <1>10, <1>11 DEF Inv

(* Every step keeps the invariant. *)
LEMMA InvStep == Inv /\ [Next]_vars => Inv'
<1> SUFFICES ASSUME Inv, [Next]_vars PROVE Inv'
  OBVIOUS
<1>1. ASSUME NEW q \in Requests, Handle(q) PROVE Inv'
  BY <1>1, ReceiveKeeps, StepKeeps, FailureKeeps DEF Handle
<1>2. CASE Crash
  BY <1>2, CrashKeeps
<1>3. ASSUME UNCHANGED <<orders, request, failures>>,
             day' \in 0 .. LastDay, sellable' \subseteq Bodies
      PROVE  Inv'
  <2>1. TypeOK'
    BY <1>3 DEF Inv, TypeOK
  <2>2. OneOrderPerKey' /\ InsertsApart' /\ CommitsRecorded'
    BY <1>3 DEF Inv, OneOrderPerKey, InsertsApart, CommitsRecorded, InRow
  <2>3. \A q \in Requests : Sound(request'[q], orders')
    BY <1>3 DEF Inv
  <2> QED BY <2>1, <2>2, <2>3 DEF Inv
<1>4. CASE Midnight
  <2>1. day' \in 0 .. LastDay
    BY <1>4, BoundAssumption DEF Midnight, Inv, TypeOK
  <2> QED BY <1>3, <1>4, <2>1 DEF Midnight, Inv, TypeOK
<1>5. CASE \E b \in Bodies : ShopChanges(b)
  BY <1>3, <1>5 DEF ShopChanges, Inv, TypeOK
<1>6. CASE UNCHANGED vars
  BY <1>3, <1>6 DEF vars, Inv, TypeOK
<1> QED BY <1>1, <1>2, <1>4, <1>5, <1>6 DEF Next

(* The inductive invariant holds in every reachable state. *)
LEMMA Invariance == Spec => []Inv
BY InvInit, InvStep, PTL DEF Spec

-----------------------------------------------------------------------------
(* Types: every variable of creation has its type, and an order is named in a
   success and in no other answer. *)
THEOREM TypeCorrect == Spec => []TypeOK
<1>1. Inv => TypeOK
  BY DEF Inv
<1> QED BY <1>1, Invariance, PTL

(* No key ever makes two orders, for any number of requests and crashes. *)
THEOREM KeysMakeOneOrder == Spec => []OneOrderPerKey
<1>1. Inv => OneOrderPerKey
  BY DEF Inv
<1> QED BY <1>1, Invariance, PTL

(* A success names a committed order of the request's own key and contents. *)
THEOREM SuccessIsRecorded == Spec => []CreatedIsRecorded
<1>1. Inv => CreatedIsRecorded
  BY DEF Inv, Sound, CreatedIsRecorded
<1> QED BY <1>1, Invariance, PTL

(* An admin is told only of orders in shops of his own. *)
THEOREM SuccessIsOwn == Spec => []OwnShopsOnly
<1>1. Inv => OwnShopsOnly
  BY DEF Inv, Sound, OwnShopsOnly
<1> QED BY <1>1, Invariance, PTL

(* A request is told that its key is taken only if it does not repeat the order
   that has it. *)
THEOREM TakenIsTrue == Spec => []TakenByAnother
<1>1. Inv => TakenByAnother
  BY DEF Inv, Sound, TakenByAnother, Repeats, Visible
<1> QED BY <1>1, Invariance, PTL

(* A request that repeats a committed order is never told that the key is taken
   or the shop not available. *)
THEOREM RepetitionIsGranted == Spec => []RepeatedIsGranted
<1>1. Inv => RepeatedIsGranted
  BY DEF Inv, Sound, RepeatedIsGranted
<1> QED BY <1>1, Invariance, PTL

-----------------------------------------------------------------------------
(* Refinement. The abstract orders are the committed rows; ask is Outcome. *)

Seen == [q \in Requests |-> Outcome(request[q])]

(* What a sender sees of a request, by its phase. *)
LEMMA OutcomeOf ==
    ASSUME NEW r
    PROVE  /\ Outcome(r).key = r.key /\ Outcome(r).contents = r.body
           /\ Outcome(r).order = r.order
           /\ r.phase = "idle" => Outcome(r).state = "none"
           /\ r.phase \in Waiting => Outcome(r).state = "pending"
           /\ r.phase = "created" => Outcome(r).state = "granted"
           /\ r.phase \in {"taken", "past", "unavailable", "failed", "lost"} =>
                 Outcome(r).state = "denied"
           /\ Outcome(r) = [state |-> Outcome(r).state, key |-> r.key,
                            contents |-> r.body, order |-> r.order]
BY DEF Outcome, Waiting

(* A step that moves one request shows as a change of its outcome alone. *)
LEMMA OneSeen ==
    ASSUME TypeOK, NEW q \in Requests, NEW m, request' = [request EXCEPT ![q] = m]
    PROVE  Seen' = [Seen EXCEPT ![q] = Outcome(m)]
BY DEF TypeOK, Seen

(* Requests under way that end without an order are denied, together. *)
LEMMA DenialSeen ==
    ASSUME NEW Q \in SUBSET Requests, UNCHANGED orders,
           \A q \in Q :
               /\ request[q].phase \in Waiting
               /\ request'[q].phase \in {"taken", "past", "unavailable", "failed", "lost"}
               /\ request'[q].key = request[q].key
               /\ request'[q].body = request[q].body
               /\ request'[q].order = request[q].order,
           \A q \in Requests \ Q : request'[q] = request[q]
    PROVE  Promise!Deny(Q)
<1>1. ASSUME NEW q \in Q PROVE Outcome(request[q]).state = "pending"
  BY <1>1, OutcomeOf
<1>2. ASSUME NEW q \in Q
      PROVE  Outcome(request'[q]) = [Outcome(request[q]) EXCEPT !.state = "denied"]
  <2>1. Outcome(request'[q]) =
          [state |-> "denied", key |-> request[q].key,
           contents |-> request[q].body, order |-> request[q].order]
    <3>1. \A r : Outcome(r) = [state |-> Outcome(r).state, key |-> r.key,
                              contents |-> r.body, order |-> r.order]
      BY OutcomeOf
    <3>2. Outcome(request'[q]).state = "denied"
      <4>1. \A r : r.phase \in {"taken", "past", "unavailable", "failed", "lost"} =>
                 Outcome(r).state = "denied"
        BY OutcomeOf
      <4> QED BY <4>1
    <3> QED BY <3>1, <3>2
  <2>2. Outcome(request[q]) =
          [state |-> Outcome(request[q]).state, key |-> request[q].key,
           contents |-> request[q].body, order |-> request[q].order]
    BY OutcomeOf
  <2> QED BY <2>1, <2>2
<1>3. Seen' = [q \in Requests |-> Outcome(request'[q])]
  BY DEF Seen, Outcome
<1>4. Seen' = [q \in Requests |->
                 IF q \in Q THEN [Seen[q] EXCEPT !.state = "denied"] ELSE Seen[q]]
  BY <1>2, <1>3 DEF Seen
<1> QED BY <1>1, <1>4 DEF Promise!Deny, Seen

(* A request under way that is told of an order of its own key and contents is
   granted it. *)
LEMMA GrantSeen ==
    ASSUME TypeOK, NEW q \in Requests, request[q].phase \in Waiting,
           NEW row \in orders, row.key = request[q].key, row.body = request[q].body,
           request' = [request EXCEPT ![q].phase = "created", ![q].order = row.by],
           UNCHANGED orders
    PROVE  Promise!Grant(q)
<1> DEFINE m == [request[q] EXCEPT !.phase = "created", !.order = row.by]
<1>1. request[q] \in Request
  BY DEF TypeOK
<1>2. row.by \in Requests
  BY DEF TypeOK, OrderRow
<1>3. m.phase = "created" /\ m.key = request[q].key /\ m.body = request[q].body
      /\ m.order = row.by
  BY <1>1, <1>2, Granted
<1>4. request' = [request EXCEPT ![q] = m]
  BY DEF TypeOK
<1> HIDE DEF m
<1>5. Seen' = [Seen EXCEPT ![q] = Outcome(m)]
  BY <1>4, OneSeen
<1>6. Outcome(m) = [state |-> "granted", key |-> request[q].key,
                    contents |-> request[q].body, order |-> row.by]
  BY <1>3, OutcomeOf
<1>7. Outcome(request[q]) =
        [state |-> "pending", key |-> request[q].key,
         contents |-> request[q].body, order |-> request[q].order]
  BY OutcomeOf
<1>8. Seen \in [Requests -> {Outcome(request[p]) : p \in Requests}]
      /\ Seen[q] = Outcome(request[q])
  BY DEF Seen
<1>9. Seen[q].state = "pending" /\ row.key = Seen[q].key /\ row.body = Seen[q].contents
  BY <1>7, <1>8
<1>10. Seen' = [Seen EXCEPT ![q] =
          [state |-> "granted", key |-> row.key, contents |-> row.body, order |-> row.by]]
  BY <1>5, <1>6
<1> QED BY <1>9, <1>10 DEF Promise!Grant, Seen

(* A request that stays under way shows no change. *)
LEMMA ProgressUnseen ==
    ASSUME TypeOK, NEW q \in Requests, request[q].phase \in Waiting,
           NEW p \in Waiting, Reach(q, p)
    PROVE  Seen' = Seen
<1> DEFINE m == [request[q] EXCEPT !.phase = p]
<1>1. request[q] \in Request /\ p \in (Waiting \cup Answers \cup {"lost"}) \ {"created"}
  BY DEF TypeOK, Waiting
<1>2. m.phase = p /\ m.key = request[q].key /\ m.body = request[q].body
      /\ m.order = request[q].order
  <2>1. \A r \in Request : r.phase \in Waiting =>
          LET n == [r EXCEPT !.phase = p] IN
          n.phase = p /\ n.key = r.key /\ n.body = r.body /\ n.order = r.order
    BY <1>1, Moves
  <2> QED BY <1>1, <2>1
<1>3. request' = [request EXCEPT ![q] = m]
  BY DEF TypeOK, Reach
<1> HIDE DEF m
<1>4. Seen' = [Seen EXCEPT ![q] = Outcome(m)]
  BY <1>3, OneSeen
<1>5. Outcome(m) = Outcome(request[q])
  <2>1. Outcome(m) = [state |-> "pending", key |-> request[q].key,
                      contents |-> request[q].body, order |-> request[q].order]
    BY <1>2, OutcomeOf
  <2>2. Outcome(request[q]) = [state |-> "pending", key |-> request[q].key,
                      contents |-> request[q].body, order |-> request[q].order]
    BY OutcomeOf
  <2> QED BY <2>1, <2>2
<1> QED BY <1>4, <1>5 DEF Seen

(* The outcomes at the start are those of requests that have asked nothing. *)
LEMMA InitSeen == Init => Promise!Init
<1> SUFFICES ASSUME Init PROVE Promise!Init
  OBVIOUS
<1>1. ASSUME NEW q \in Requests
      PROVE  Outcome(request[q]) =
               [state |-> "none", key |-> None, contents |-> None, order |-> None]
  BY OutcomeOf DEF Init
<1> QED BY <1>1 DEF Init, Promise!Init

(* Coming in is asking; the date check may deny the request at once. *)
LEMMA ReceiveSeen ==
    ASSUME Inv, NEW q \in Requests, NEW k \in Keys, NEW a \in Admins, NEW b \in Bodies,
           Receive(q, k, a, b)
    PROVE  Promise!Ask(q)
<1> DEFINE m == request'[q]
<1>1. request[q].phase = "idle" /\ request' = [request EXCEPT ![q] = m] /\ UNCHANGED orders
  BY DEF Receive, Inv, TypeOK
<1>2. m.phase \in {"received", "past"} /\ m.key = k /\ m.body = b /\ m.order = None
  BY DEF Receive, Inv, TypeOK
<1> HIDE DEF m
<1>3. Seen' = [Seen EXCEPT ![q] = Outcome(m)]
  BY <1>1, OneSeen DEF Inv
<1>4. \E s \in {"pending", "denied"} :
        Outcome(m) = [state |-> s, key |-> k, contents |-> b, order |-> None]
  BY <1>2, OutcomeOf DEF Waiting
<1>5. Seen[q].state = "none"
  BY <1>1, OutcomeOf DEF Seen
<1>6. PICK s \in {"pending", "denied"} :
        Outcome(m) = [state |-> s, key |-> k, contents |-> b, order |-> None]
  BY <1>4
<1>7. Seen' = [Seen EXCEPT ![q] = [state |-> s, key |-> k, contents |-> b, order |-> None]]
  BY <1>3, <1>6
<1> QED BY <1>1, <1>5, <1>7 DEF Promise!Ask, Seen

(* A commit makes the order; an unheard one makes it for a request denied. *)
LEMMA CommitSeen ==
    ASSUME Inv, NEW q \in Requests, request[q].phase = "inserted",
           NEW p \in {"committed", "failed"}, Reach(q, p),
           orders' = orders \cup {InRow(q)}
    PROVE  Promise!Make(q)
<1> DEFINE m == [request[q] EXCEPT !.phase = p]
<1>1. /\ request[q] \in Request /\ request[q].phase \in Waiting
      /\ p \in (Waiting \cup Answers \cup {"lost"}) \ {"created"}
  BY DEF Inv, TypeOK, Waiting, Answers
<1>2. m.phase = p /\ m.key = request[q].key /\ m.body = request[q].body
      /\ m.order = request[q].order
  <2>1. \A r \in Request : r.phase \in Waiting =>
          LET n == [r EXCEPT !.phase = p] IN
          n.phase = p /\ n.key = r.key /\ n.body = r.body /\ n.order = r.order
    BY <1>1, Moves
  <2> QED BY <1>1, <2>1
<1>3. request' = [request EXCEPT ![q] = m]
  BY DEF Inv, TypeOK, Reach
<1> HIDE DEF m
<1>4. Seen' = [Seen EXCEPT ![q] = Outcome(m)]
  BY <1>3, OneSeen DEF Inv
<1> DEFINE s == [state |-> "pending", key |-> request[q].key,
                 contents |-> request[q].body, order |-> request[q].order]
<1>5. Seen[q] = s
  BY <1>1, OutcomeOf DEF Seen
<1>6. Seen' \in {Seen, [Seen EXCEPT ![q].state = "denied"]}
  <2>1. CASE p = "committed"
    <3>1. Outcome(m) = s
      BY <1>2, <2>1, OutcomeOf DEF Waiting
    <3> QED BY ZenonT(60), <1>4, <1>5, <3>1 DEF Seen
  <2>2. CASE p = "failed"
    <3>1. Outcome(m) = [state |-> "denied", key |-> request[q].key,
                        contents |-> request[q].body, order |-> request[q].order]
      BY <1>2, <2>2, OutcomeOf
    <3>2. Outcome(m) = [Seen[q] EXCEPT !.state = "denied"]
      BY <1>5, <3>1
    <3> QED BY <1>4, <3>2 DEF Seen
  <2> QED BY <2>1, <2>2
<1>7. \A r \in orders : r.key # Seen[q].key
  <2>1. Sound(request[q], orders)
    BY DEF Inv
  <2> QED BY <1>5, <2>1 DEF Sound
<1>8. InRow(q) = [key |-> Seen[q].key, body |-> Seen[q].contents, by |-> q]
  BY <1>5 DEF InRow
<1>9. Seen[q].state = "pending"
  BY <1>5
<1> HIDE DEF s
<1> QED BY <1>6, <1>7, <1>8, <1>9 DEF Promise!Make, Seen

(* Reaching a refusal is a denial of that request. *)
LEMMA RefusalSeen ==
    ASSUME TypeOK, NEW q \in Requests, request[q].phase \in Waiting,
           NEW p \in {"taken", "past", "unavailable", "failed", "lost"},
           Reach(q, p), UNCHANGED orders
    PROVE  Promise!Deny({q})
<1>1. request[q] \in Request /\ p \in (Waiting \cup Answers \cup {"lost"}) \ {"created"}
  BY DEF TypeOK, Answers
<1>2. request'[q] = [request[q] EXCEPT !.phase = p]
      /\ \A r \in Requests \ {q} : request'[r] = request[r]
  BY DEF TypeOK, Reach
<1>3. \A r \in Request : r.phase \in Waiting =>
        LET n == [r EXCEPT !.phase = p] IN
        n.phase = p /\ n.key = r.key /\ n.body = r.body /\ n.order = r.order
  BY <1>1, Moves
<1>4. request'[q].phase = p /\ request'[q].key = request[q].key
      /\ request'[q].body = request[q].body /\ request'[q].order = request[q].order
  BY <1>1, <1>2, <1>3
<1> QED BY <1>2, <1>4, DenialSeen

(* An answer from an order found under the key grants it or denies the request. *)
LEMMA ExistingSeen ==
    ASSUME TypeOK, NEW q \in Requests, request[q].phase \in Waiting,
           NEW row \in Found(q), RespondExisting(q, row), UNCHANGED orders
    PROVE  Promise!Grant(q) \/ Promise!Deny({q})
<1>1. row \in orders /\ row.key = request[q].key
  BY DEF Found
<1>2. CASE SameContents(q, row)
  BY <1>1, <1>2, GrantSeen DEF RespondExisting, SameContents
<1>3. CASE ~ SameContents(q, row)
  <2>1. request[q].order = None
    BY UnderWay
  <2>2. request'[q] = [request[q] EXCEPT !.phase = "taken", !.order = None]
        /\ \A r \in Requests \ {q} : request'[r] = request[r]
    BY <1>3 DEF TypeOK, RespondExisting
  <2>3. request[q] \in [phase : (Waiting \cup Answers \cup {"lost"}) \ {"created"},
             key : Keys, admin : Admins, body : Bodies, order : {None}, retry : BOOLEAN]
    BY DEF TypeOK, Request, Waiting
  <2>4. request'[q].phase = "taken" /\ request'[q].key = request[q].key
        /\ request'[q].body = request[q].body /\ request'[q].order = None
    BY <2>2, <2>3
  <2> QED BY <2>1, <2>2, <2>4, DenialSeen
<1> QED BY <1>2, <1>3

(* Every step of creation is a step of its promise, or shows nothing. *)
LEMMA StepSeen ==
    Inv /\ [Next]_vars => Promise!Next \/ UNCHANGED <<orders, Seen>>
<1> SUFFICES ASSUME Inv, [Next]_vars
             PROVE  Promise!Next \/ UNCHANGED <<orders, Seen>>
  OBVIOUS
<1> USE DEF Inv
<1>1. ASSUME NEW q \in Requests,
             \/ Promise!Ask(q) \/ Promise!Make(q) \/ Promise!Grant(q) \/ Promise!Deny({q})
      PROVE  Promise!Next
  <2>1. {q} \in SUBSET Requests
    OBVIOUS
  <2> QED BY <1>1, <2>1 DEF Promise!Next
<1>2. ASSUME NEW q \in Requests,
             \E k \in Keys, a \in Admins, b \in Bodies : Receive(q, k, a, b)
      PROVE  Promise!Next
  BY <1>1, <1>2, ReceiveSeen
<1>3. ASSUME NEW q \in Requests, Step(q)
      PROVE  Promise!Next \/ UNCHANGED <<orders, Seen>>
  <2>1. CASE LookUp(q) \/ LookUpAgain(q)
    <3>1. request[q].phase \in Waiting /\ UNCHANGED orders
      BY <2>1 DEF LookUp, LookUpAgain, Waiting
    <3>2. CASE \E r \in Found(q) : RespondExisting(q, r)
      BY <1>1, <3>1, <3>2, ExistingSeen
    <3>3. CASE Reach(q, "cleared")
      BY <3>1, <3>3, ProgressUnseen DEF Waiting
    <3>4. CASE Reach(q, "taken")
      BY <1>1, <3>1, <3>4, RefusalSeen
    <3> QED BY <2>1, <3>2, <3>3, <3>4 DEF LookUp, LookUpAgain
  <2>2. CASE LockShop(q)
    <3>1. request[q].phase \in Waiting /\ UNCHANGED orders
          /\ (Reach(q, "locked") \/ Reach(q, "unavailable"))
      BY <2>2 DEF LockShop, Waiting
    <3>2. CASE Reach(q, "locked")
      BY <3>1, <3>2, ProgressUnseen DEF Waiting
    <3>3. CASE Reach(q, "unavailable")
      BY <1>1, <3>1, <3>3, RefusalSeen
    <3> QED BY <3>1, <3>2, <3>3
  <2>3. CASE Insert(q)
    <3>1. request[q].phase \in Waiting /\ UNCHANGED orders
          /\ (Reach(q, "inserted") \/ Reach(q, "conflict"))
      BY <2>3 DEF Insert, Waiting
    <3> QED BY <3>1, ProgressUnseen DEF Waiting
  <2>4. CASE Commit(q)
    BY <1>1, <2>4, CommitSeen DEF Commit
  <2>5. CASE Respond(q)
    <3>1. request[q].phase \in Waiting /\ request[q].phase = "committed" /\ UNCHANGED orders
      BY <2>5 DEF Respond, Waiting
    <3>2. InRow(q) \in orders /\ InRow(q).key = request[q].key
          /\ InRow(q).body = request[q].body /\ InRow(q).by = q
      BY <3>1, UnderWay DEF CommitsRecorded
    <3>3. request' = [request EXCEPT ![q].phase = "created", ![q].order = InRow(q).by]
      BY <2>5, <3>2 DEF Respond
    <3> QED BY <1>1, <3>1, <3>2, <3>3, GrantSeen
  <2> QED BY <1>3, <2>1, <2>2, <2>3, <2>4, <2>5 DEF Step
<1>4. ASSUME NEW q \in Requests, Fail(q) PROVE Promise!Next
  BY <1>1, <1>4, RefusalSeen DEF Fail
<1>5. ASSUME NEW q \in Requests, CommitUnheard(q) PROVE Promise!Next
  BY <1>1, <1>5, CommitSeen DEF CommitUnheard
<1>6. CASE Crash
  <2> DEFINE Q == {q \in Requests : request[q].phase \in Waiting}
  <2>1. UNCHANGED orders /\ \A q \in Requests \ Q : request'[q] = request[q]
    BY <1>6 DEF Crash
  <2>2. ASSUME NEW q \in Q
        PROVE  /\ request[q].phase \in Waiting
               /\ request'[q].phase = "lost"
               /\ request'[q].key = request[q].key
               /\ request'[q].body = request[q].body
               /\ request'[q].order = request[q].order
    <3>1. request'[q] = [request[q] EXCEPT !.phase = "lost"] /\ request[q] \in Request
      BY <1>6 DEF Crash, TypeOK
    <3>2. "lost" \in (Waiting \cup Answers \cup {"lost"}) \ {"created"}
      OBVIOUS
    <3> QED BY <3>1, <3>2, Moves
  <2>3. Q \in SUBSET Requests
    OBVIOUS
  <2> HIDE DEF Q
  <2>4. Promise!Deny(Q)
    BY <2>1, <2>2, <2>3, DenialSeen
  <2> QED BY <2>3, <2>4 DEF Promise!Next
<1>7. CASE UNCHANGED <<orders, request>>
  BY <1>7 DEF Seen, Outcome
<1>8. CASE Midnight \/ (\E b \in Bodies : ShopChanges(b)) \/ UNCHANGED vars
  BY <1>7, <1>8 DEF Midnight, ShopChanges, vars
<1>9. ASSUME NEW q \in Requests, Handle(q)
      PROVE  Promise!Next \/ UNCHANGED <<orders, Seen>>
  BY <1>2, <1>3, <1>4, <1>5, <1>9 DEF Handle
<1> QED BY <1>6, <1>8, <1>9 DEF Next

(* Creation keeps its promise: every behaviour of the handlers, with all their
   races, failures and crashes, is one that OnceByKey allows. *)
THEOREM CreationKeepsPromise == Spec => KeepsPromise
<1>1. Inv /\ [Next]_vars => [Promise!Next]_<<orders, Seen>>
  BY StepSeen
<1> QED BY <1>1, InitSeen, Invariance, PTL DEF Spec, KeepsPromise, Promise!Spec, Seen
=============================================================================
