------------------------------ MODULE MCShop_proofs ------------------------------
(* Proofs about a shop's settings and products (MCShop), for any number of requests,
   admins, shops, cards and products:

   - PaymentCards: the lock makes what a handler has read true until it writes (Lock1,
     Lock2); with that, every write keeps the shop's row and its active card equal.

   - AdminSession: each request carries the copy of the shops it was sent from, and each
     spinner has its request (Carried, Spinners).  While requests do not overlap the copy
     is what the server has, but for the one setting in flight (OneAtATime).

   - ProductPages: a list is sorted by one order that every set of products has (SortedList);
     an operator who waits has in flight what the page shows (Settled), so the list differs
     from the catalogue by the changes that are answered and not yet told.

   A step of a page is first put into the words of its effects (StepIs, DeliverStep,
   PageStep); the invariants are proved about those.  *)
EXTENDS MCShop, FiniteSetTheorems, FunctionTheorems, SequenceTheorems, TLAPS

-----------------------------------------------------------------------------
(* The payment cards (PaymentCards) *)

\* Handlers that hold the lock of the shop's row.
Holding(q) == q.phase \in {"locked", "read"}

\* A card that is there has texts; None is no text.
LEMMA CardThere == ASSUME NEW c \in CardRow PROVE c # NoCard
BY NoneAssumption DEF CardRow, NoCard

\* At the beginning there are no cards and no requests.
LEMMA InitInv == Init => IInv
<1> SUFFICES ASSUME Init PROVE IInv
  OBVIOUS
<1>1. /\ card \in [Numbers -> CardRow \cup {NoCard}]
      /\ shop \in ShopRow /\ shop.number = None
      /\ req \in [Handlers -> Request]
      /\ \A h \in Handlers : req[h] = Idle
  BY DEF Init, ShopRow, Request, Idle
<1>2. Idle.kind = "none" /\ Idle.phase = "idle"
  BY DEF Idle
<1> QED BY <1>1, <1>2 DEF IInv, TypeOK, RequestOK, Lock1, Lock2, ActiveMirrored

\* A step that changes one request alone, and neither row, keeps the invariant if the
\* new request is in order and holds no lock it did not hold.
LEMMA RequestStep ==
    ASSUME IInv, NEW h \in Handlers, NEW q \in Request, RequestOK(q),
           req' = [req EXCEPT ![h] = q], UNCHANGED <<card, shop>>,
           Holding(q) => \A k \in Handlers \ {h} : ~Holding(req[k]),
           Holding(q) => q.active = (shop.number = q.number),
           q.phase = "read" => q.read = card[q.number]
    PROVE  IInv'
<1>1. /\ req \in [Handlers -> Request] /\ req'[h] = q /\ req' \in [Handlers -> Request]
      /\ \A k \in Handlers \ {h} : req'[k] = req[k]
  BY DEF IInv, TypeOK
<1>2. TypeOK'
  BY <1>1 DEF IInv, TypeOK, ShopRow
<1>3. Lock1'
  BY <1>1 DEF IInv, Lock1, Holding
<1>4. Lock2'
  BY <1>1 DEF IInv, Lock2, Holding
<1>5. ActiveMirrored'
  BY DEF IInv, ActiveMirrored
<1> QED BY <1>2, <1>3, <1>4, <1>5 DEF IInv

\* Adding a card touches no card that somebody has read, and not the active one.
LEMMA CreateStep ==
    ASSUME IInv, NEW h \in Handlers, NEW n \in Numbers, NEW i \in Texts, NEW b \in Texts,
           CreatePaymentCard(h, n, i, b)
    PROVE  IInv'
<1> DEFINE q == [req[h] EXCEPT !.phase = IF card[n] = NoCard THEN "done" ELSE "refused"]
<1>1. /\ req \in [Handlers -> Request] /\ req[h].phase = "idle" /\ shop' = shop
      /\ req' = [req EXCEPT ![h] = q] /\ q \in Request /\ RequestOK(req[h])
  BY DEF IInv, TypeOK, CreatePaymentCard, Request
<1>2. /\ req'[h] = q /\ \A k \in Handlers \ {h} : req'[k] = req[k]
      /\ req' \in [Handlers -> Request] /\ ~Holding(q) /\ q.phase # "read" /\ RequestOK(q)
  BY <1>1 DEF Request, RequestOK, Holding
<1>3. /\ card \in [Numbers -> CardRow \cup {NoCard}] /\ card' \in [Numbers -> CardRow \cup {NoCard}]
      /\ \A m \in Numbers : card[m] # NoCard => card'[m] = card[m]
  <2>1. [instructions |-> i, iban |-> b] \in CardRow
    BY DEF CardRow
  <2> QED BY <2>1 DEF IInv, TypeOK, CreatePaymentCard
<1>4. TypeOK'
  BY <1>1, <1>2, <1>3 DEF IInv, TypeOK
<1>5. Lock1'
  BY <1>1, <1>2 DEF IInv, Lock1, Holding
<1>6. ASSUME NEW k \in Handlers
      PROVE  /\ Holding(req'[k]) => req'[k].active = (shop'.number = req'[k].number)
             /\ req'[k].phase = "read" => req'[k].read = card'[req'[k].number]
  <2>1. CASE k = h
    BY <1>2, <2>1
  <2>2. CASE k # h
    <3>1. req'[k] = req[k]
      BY <1>2, <2>2
    <3>2. ASSUME req[k].phase = "read"
          PROVE  req[k].read = card'[req[k].number]
      <4>1. /\ req[k].read = card[req[k].number] /\ req[k].read \in CardRow
            /\ req[k].number \in Numbers
        BY <3>2 DEF IInv, TypeOK, RequestOK, Lock2
      <4> QED BY <1>3, <4>1, CardThere
    <3> QED BY <1>1, <3>1, <3>2 DEF IInv, Lock2, Holding
  <2> QED BY <2>1, <2>2
<1>7. Lock2'
  BY <1>6 DEF Lock2, Holding
<1>8. ActiveMirrored'
  <2>1. shop.number \in Numbers \cup {None}
    BY DEF IInv, TypeOK, ShopRow
  <2> QED BY <1>1, <1>3, <2>1 DEF IInv, ActiveMirrored
<1> QED BY <1>4, <1>5, <1>7, <1>8 DEF IInv

\* What the holder of the lock writes leaves the other requests as they are: none of
\* them holds it.
LEMMA WriteStep ==
    ASSUME IInv, NEW h \in Handlers, req[h].phase = "read",
           req' = [req EXCEPT ![h].phase = "done"]
    PROVE  /\ req' \in [Handlers -> Request] /\ \A k \in Handlers : RequestOK(req'[k])
           /\ \A k \in Handlers : ~Holding(req'[k])
<1>1. /\ req \in [Handlers -> Request] /\ \A k \in Handlers : RequestOK(req[k])
  BY DEF IInv, TypeOK
<1>2. /\ req'[h] = [req[h] EXCEPT !.phase = "done"]
      /\ \A k \in Handlers \ {h} : req'[k] = req[k] /\ ~Holding(req[k])
  BY <1>1 DEF IInv, Lock1, Holding
<1>3. req'[h] \in Request /\ RequestOK(req'[h]) /\ ~Holding(req'[h])
  BY <1>1, <1>2 DEF Request, RequestOK, Holding
<1>4. req' \in [Handlers -> Request]
  BY <1>1, <1>2, <1>3
<1> QED BY <1>1, <1>2, <1>3, <1>4

\* Changing a card changes the shop's row with it where it is the active one.
LEMMA UpdateStep ==
    ASSUME IInv, NEW h \in Handlers, UpdatePaymentCard(h)
    PROVE  IInv'
<1> DEFINE q == req[h]
           n == q.number
           new == [instructions |-> q.instructions, iban |-> IbanOr(h, card[n].iban)]
<1>1. /\ q.phase = "read" /\ q.kind = "update" /\ q \in Request /\ RequestOK(q)
      /\ n \in Numbers /\ q.instructions \in Texts /\ q.iban \in Texts \cup {None}
      /\ q.read \in CardRow /\ card[n] \in CardRow /\ q.active = (shop.number = n)
  BY DEF UpdatePaymentCard, IInv, TypeOK, RequestOK, Request, Lock2
<1>2. /\ card \in [Numbers -> CardRow \cup {NoCard}] /\ shop \in ShopRow
      /\ card' = [card EXCEPT ![n] = new] /\ req' = [req EXCEPT ![h].phase = "done"]
  BY DEF UpdatePaymentCard, IInv, TypeOK
<1>3. new \in CardRow /\ IbanOr(h, card[n].iban) \in Texts
  BY <1>1 DEF IbanOr, CardRow
<1>4. /\ req' \in [Handlers -> Request] /\ \A k \in Handlers : RequestOK(req'[k])
      /\ \A k \in Handlers : ~Holding(req'[k])
  BY <1>1, <1>2, WriteStep
<1>5. CASE shop.number = n
  <2>1. shop' = [shop EXCEPT !.instructions = q.instructions, !.iban = IbanOr(h, shop.iban)]
    BY <1>1, <1>5 DEF UpdatePaymentCard
  <2>2. card[n] = [instructions |-> shop.instructions, iban |-> shop.iban]
    BY <1>1, <1>5, NoneAssumption DEF IInv, ActiveMirrored
  <2>3. card[n].iban = shop.iban
    BY <2>2
  <2>4. /\ shop' \in ShopRow /\ shop'.number = n
        /\ shop'.instructions = q.instructions /\ shop'.iban = IbanOr(h, card[n].iban)
    BY <1>1, <1>2, <1>3, <1>5, <2>1, <2>3 DEF ShopRow
  <2>5. card'[n] = new /\ card' \in [Numbers -> CardRow \cup {NoCard}]
    BY <1>1, <1>2, <1>3
  <2>6. new # NoCard
    BY <1>3, CardThere
  <2>7. TypeOK' /\ Lock1' /\ Lock2'
    BY <1>4, <2>4, <2>5 DEF TypeOK, Lock1, Lock2, Holding
  <2>8. ActiveMirrored'
    BY <2>4, <2>5, <2>6 DEF ActiveMirrored
  <2> QED BY <2>7, <2>8 DEF IInv
<1>6. CASE shop.number # n
  <2>1. shop' = shop
    BY <1>1, <1>6 DEF UpdatePaymentCard
  <2>2. card' \in [Numbers -> CardRow \cup {NoCard}]
        /\ \A m \in Numbers : m # n => card'[m] = card[m]
    BY <1>1, <1>2, <1>3
  <2>3. TypeOK' /\ Lock1' /\ Lock2'
    BY <1>2, <1>4, <2>1, <2>2 DEF TypeOK, Lock1, Lock2, Holding
  <2>4. ActiveMirrored'
    BY <1>2, <1>6, <2>1, <2>2 DEF IInv, ActiveMirrored, ShopRow
  <2> QED BY <2>3, <2>4 DEF IInv
<1> QED BY <1>5, <1>6

\* Activating a card copies what the lock has kept true.
LEMMA ActivateStep ==
    ASSUME IInv, NEW h \in Handlers, ActivatePaymentCard(h)
    PROVE  IInv'
<1> DEFINE q == req[h]
<1>1. /\ q.phase = "read" /\ q.kind = "activate" /\ q.number \in Numbers
      /\ q.read \in CardRow /\ q.read = card[q.number]
  BY DEF ActivatePaymentCard, IInv, TypeOK, RequestOK, Lock2
<1>2. /\ shop' = [number |-> q.number, instructions |-> q.read.instructions, iban |-> q.read.iban]
      /\ req' = [req EXCEPT ![h].phase = "done"] /\ card' = card
  BY DEF ActivatePaymentCard
<1>3. /\ req' \in [Handlers -> Request] /\ \A k \in Handlers : RequestOK(req'[k])
      /\ \A k \in Handlers : ~Holding(req'[k])
  BY <1>1, <1>2, WriteStep
<1>4. shop' \in ShopRow
  BY <1>1, <1>2 DEF ShopRow, CardRow
<1>5. card'[shop'.number] = [instructions |-> shop'.instructions, iban |-> shop'.iban]
      /\ card'[shop'.number] # NoCard
  <2>1. q.read = [instructions |-> q.read.instructions, iban |-> q.read.iban]
    BY <1>1 DEF CardRow
  <2> QED BY <1>1, <1>2, <2>1, CardThere
<1>6. TypeOK' /\ Lock1' /\ Lock2'
  BY <1>2, <1>3, <1>4 DEF IInv, TypeOK, Lock1, Lock2, Holding
<1> QED BY <1>5, <1>6 DEF IInv, ActiveMirrored

\* Every step keeps the invariant.
LEMMA StepInv == IInv /\ [Next]_vars => IInv'
<1> SUFFICES ASSUME IInv, [Next]_vars PROVE IInv'
  OBVIOUS
<1>1. ASSUME NEW h \in Handlers, NEW n \in Numbers, NEW i \in Texts, NEW b \in Texts,
             CreatePaymentCard(h, n, i, b)
      PROVE  IInv'
  BY <1>1, CreateStep
<1>2. ASSUME NEW h \in Handlers, NEW kind \in {"update", "activate"}, NEW n \in Numbers,
             NEW i \in Texts \cup {None}, NEW b \in Texts \cup {None},
             kind = "update" => i \in Texts, Send(h, kind, n, i, b)
      PROVE  IInv'
  <2> DEFINE q == [Idle EXCEPT !.phase = "sent", !.kind = kind, !.number = n,
                               !.instructions = i, !.iban = b]
  <2>1. /\ q \in Request /\ RequestOK(q) /\ ~Holding(q) /\ q.phase # "read"
    BY <1>2 DEF Request, RequestOK, Holding, Idle
  <2>2. req' = [req EXCEPT ![h] = q] /\ UNCHANGED <<card, shop>>
    BY <1>2 DEF Send
  <2> HIDE DEF q
  <2> QED BY <2>1, <2>2, RequestStep
<1>3. ASSUME NEW h \in Handlers, LockShop(h) PROVE IInv'
  <2> DEFINE q == [req[h] EXCEPT !.phase = "locked", !.active = (shop.number = req[h].number)]
  <2>1. /\ req \in [Handlers -> Request] /\ RequestOK(req[h]) /\ req[h].phase = "sent"
    BY <1>3 DEF IInv, TypeOK, LockShop
  <2>2. /\ q \in Request /\ RequestOK(q) /\ q.phase = "locked"
        /\ q.active = (shop.number = q.number)
    BY ZenonT(60), <2>1 DEF Request, RequestOK
  <2>3. req' = [req EXCEPT ![h] = q] /\ UNCHANGED <<card, shop>>
    BY <1>3, <2>1 DEF LockShop
  <2>4. \A k \in Handlers : ~Holding(req[k])
    BY <1>3 DEF LockShop, ShopUnlocked, Holding
  <2> HIDE DEF q
  <2> QED BY <2>2, <2>3, <2>4, RequestStep
<1>4. ASSUME NEW h \in Handlers, ReadCard(h) PROVE IInv'
  <2> DEFINE c == card[req[h].number]
             q == [req[h] EXCEPT !.phase = IF c = NoCard THEN "refused" ELSE "read", !.read = c]
  <2>1. /\ req \in [Handlers -> Request] /\ RequestOK(req[h]) /\ req[h].phase = "locked"
        /\ req[h].number \in Numbers /\ c \in CardRow \cup {NoCard}
        /\ req[h].active = (shop.number = req[h].number)
    BY <1>4 DEF IInv, TypeOK, ReadCard, RequestOK, Lock2
  <2>2. /\ q \in Request /\ RequestOK(q) /\ q.active = (shop.number = q.number)
        /\ q.phase = "read" => q.read = card[q.number]
    BY ZenonT(60), <2>1 DEF Request, RequestOK
  <2>3. req' = [req EXCEPT ![h] = q] /\ UNCHANGED <<card, shop>>
    BY <1>4, <2>1 DEF ReadCard
  <2>4. \A k \in Handlers \ {h} : ~Holding(req[k])
    BY <2>1 DEF IInv, Lock1, Holding
  <2> HIDE DEF q
  <2> QED BY <2>2, <2>3, <2>4, RequestStep
<1>5. ASSUME NEW h \in Handlers, UpdatePaymentCard(h) PROVE IInv'
  BY <1>5, UpdateStep
<1>6. ASSUME NEW h \in Handlers, ActivatePaymentCard(h) PROVE IInv'
  BY <1>6, ActivateStep
<1>7. ASSUME NEW h \in Handlers, Fail(h) PROVE IInv'
  <2> DEFINE q == [req[h] EXCEPT !.phase = "refused"]
  <2>1. /\ req \in [Handlers -> Request] /\ RequestOK(req[h])
    BY DEF IInv, TypeOK
  <2>2. /\ q \in Request /\ RequestOK(q) /\ ~Holding(q) /\ q.phase # "read"
    BY <2>1 DEF Request, RequestOK, Holding
  <2>3. req' = [req EXCEPT ![h] = q] /\ UNCHANGED <<card, shop>>
    BY <1>7, <2>1 DEF Fail
  <2> HIDE DEF q
  <2> QED BY <2>2, <2>3, RequestStep
<1>8. CASE UNCHANGED vars
  BY <1>8 DEF vars, IInv, TypeOK, Lock1, Lock2, ActiveMirrored
<1> QED BY <1>1, <1>2, <1>3, <1>4, <1>5, <1>6, <1>7, <1>8 DEF Next

\* The strengthened invariant: types, one holder of the lock, and what it has read.
THEOREM Inductive == Spec => []IInv
BY InitInv, StepInv, PTL DEF Spec

\* Rows and requests have their types, for every set of cards and requests.
THEOREM TypeCorrect == Spec => []TypeOK
<1>1. IInv => TypeOK
  BY DEF IInv
<1> QED BY <1>1, Inductive, PTL

\* The shop's row repeats the active card in every interleaving of any number of
\* requests (updatePaymentCard, activatePaymentCard).
THEOREM MirrorKept == Spec => []ActiveMirrored
<1>1. IInv => ActiveMirrored
  BY DEF IInv
<1> QED BY <1>1, Inductive, PTL

-----------------------------------------------------------------------------
(* The session (AdminSession) *)

\* A copy of an admin's shops is of one admin, and whatever is of one is a copy.
LEMMA MeIs ==
  /\ \A m \in Session!Me :
        /\ m = [admin |-> m.admin, shops |-> m.shops]
        /\ m.admin \in Admins /\ m.shops \in [ShopsOf[m.admin] -> Session!ShopCopy]
  /\ \A a \in Admins : \A c \in [ShopsOf[a] -> Session!ShopCopy] :
        [admin |-> a, shops |-> c] \in Session!Me
<1>1. ASSUME NEW m \in Session!Me
      PROVE  /\ m = [admin |-> m.admin, shops |-> m.shops]
             /\ m.admin \in Admins /\ m.shops \in [ShopsOf[m.admin] -> Session!ShopCopy]
  <2>1. PICK a \in Admins : m \in [admin : {a}, shops : [ShopsOf[a] -> Session!ShopCopy]]
    BY DEF Session!Me
  <2> QED BY <2>1
<1>2. ASSUME NEW a \in Admins, NEW c \in [ShopsOf[a] -> Session!ShopCopy]
      PROVE  [admin |-> a, shops |-> c] \in Session!Me
  <2>1. [admin |-> a, shops |-> c] \in [admin : {a}, shops : [ShopsOf[a] -> Session!ShopCopy]]
    OBVIOUS
  <2> QED BY <2>1 DEF Session!Me
<1> QED BY <1>1, <1>2

\* The shop that is shown is one of the admin's (AdminApp.tsx).
LEMMA SelectedType ==
  ASSUME NEW m \in Session!Me
  PROVE  Session!Selected(m) \in ShopsOf[m.admin] /\ Session!Selected(m) \in Shops
<1>1. m.admin \in Admins
  BY MeIs
<1>2. ShopsOf[m.admin] # {} /\ ShopsOf[m.admin] \subseteq Shops
  BY <1>1, ShopAssumption DEF Session!SessionAssumption
<1> QED BY <1>2 DEF Session!Selected

\* What the database tells of an admin is a copy of the admin's shops (me).
LEMMA MeOfType ==
  ASSUME row \in [Shops -> Session!ShopCopy], NEW a \in Admins
  PROVE  /\ Session!MeOf(a) \in Session!Me
         /\ Session!MeOf(a).admin = a
         /\ Session!MeOf(a).shops = [s \in ShopsOf[a] |-> row[s]]
<1>1. ShopsOf[a] \subseteq Shops
  BY ShopAssumption DEF Session!SessionAssumption
<1>2. [s \in ShopsOf[a] |-> row[s]] \in [ShopsOf[a] -> Session!ShopCopy]
  BY <1>1
<1> QED BY <1>2, MeIs DEF Session!MeOf

\* The page and the server change a shop into a shop, and alike when the request is
\* granted (updateCards; createPaymentCard, updatePaymentCard, activatePaymentCard).
LEMMA SettingType ==
  ASSUME NEW c \in Session!ShopCopy, NEW r \in Session!Request,
         r.kind \in Session!SettingKinds,
         r.kind \in Session!CardKinds => r.card \in Cards
  PROVE  /\ Session!ShopWith(c, r) \in Session!ShopCopy
         /\ Session!RowWith(c, r) \in Session!ShopCopy
         /\ (r.kind \in {"edit", "activate"} => c.text[r.card] # 0) =>
               Session!ShopWith(c, r) = Session!RowWith(c, r)
<1>1. /\ r.n \in 0..MaxRequests /\ c.text \in [Cards -> 0..MaxRequests]
      /\ c.active \in Cards \cup {None} /\ c.logo \in 0..MaxRequests /\ c.support \in 0..MaxRequests
      /\ c = [text |-> c.text, active |-> c.active, logo |-> c.logo, support |-> c.support]
  BY DEF Session!ShopCopy, Session!Request
<1>2. CASE r.kind = "add"
  BY <1>1, <1>2 DEF Session!ShopWith, Session!RowWith, Session!ShopCopy, Session!CardKinds
<1>3. CASE r.kind = "edit"
  BY <1>1, <1>3 DEF Session!ShopWith, Session!RowWith, Session!ShopCopy, Session!CardKinds
<1>4. CASE r.kind = "activate"
  BY <1>1, <1>4 DEF Session!ShopWith, Session!RowWith, Session!ShopCopy, Session!CardKinds
<1>5. CASE r.kind = "support"
  BY <1>1, <1>5 DEF Session!ShopWith, Session!RowWith, Session!ShopCopy
<1>6. CASE r.kind = "logo"
  BY <1>1, <1>6 DEF Session!ShopWith, Session!RowWith, Session!ShopCopy
<1> QED BY <1>2, <1>3, <1>4, <1>5, <1>6 DEF Session!SettingKinds, Session!CardKinds

\* Merging an answer into the copy it was sent with gives a copy (onShopUpdated).
LEMMA MergedType ==
  ASSUME NEW r \in Session!Request, Session!RequestFits(r), r.kind \in Session!SettingKinds
  PROVE  /\ Session!Merged(r) \in Session!Me
         /\ Session!Merged(r).admin = r.me.admin
         /\ Session!Merged(r).shops =
               [r.me.shops EXCEPT ![r.shop] = Session!ShopWith(r.me.shops[r.shop], r)]
<1> DEFINE with == Session!ShopWith(r.me.shops[r.shop], r)
<1>1. /\ r.me \in Session!Me /\ r.shop \in ShopsOf[r.me.admin]
      /\ r.kind \in Session!CardKinds => r.card \in Cards
  BY DEF Session!RequestFits
<1>2. /\ r.me.admin \in Admins /\ r.me.shops \in [ShopsOf[r.me.admin] -> Session!ShopCopy]
      /\ r.me = [admin |-> r.me.admin, shops |-> r.me.shops]
  BY <1>1, MeIs
<1>3. with \in Session!ShopCopy
  BY <1>1, <1>2, SettingType
<1> HIDE DEF with
<1>4. [r.me.shops EXCEPT ![r.shop] = with] \in [ShopsOf[r.me.admin] -> Session!ShopCopy]
  BY <1>1, <1>2, <1>3
<1>5. Session!Merged(r) = [admin |-> r.me.admin, shops |-> [r.me.shops EXCEPT ![r.shop] = with]]
  BY <1>2 DEF Session!Merged, with
<1> QED BY <1>2, <1>4, <1>5, MeIs DEF with

\* A request q is sent by the mounted page (api).
Sent(q, kind, sh, cd) ==
    /\ q \in Session!Request /\ requests' = requests \cup {q} /\ q.n = sent + 1
    /\ sent < MaxRequests /\ sent' = sent + 1
    /\ q.kind = kind /\ q.shop = sh /\ q.card = cd
    /\ q.me = session.me /\ q.page = page.n /\ q.answer = "none"
    /\ diverged' = (diverged \/ requests # {})

\* Sending adds one request (api).
LEMMA SendStep ==
  ASSUME Session!TypeOK, NEW kind \in Session!Kinds, NEW sh \in Shops \cup {None},
         NEW cd \in Cards \cup {None}, NEW login \in 0..MaxLogins,
         Session!Send(kind, sh, cd, login, requests)
  PROVE  \E q : Sent(q, kind, sh, cd)
<1> DEFINE q == [n |-> sent + 1, kind |-> kind, session |-> login, shop |-> sh, card |-> cd,
                 me |-> session.me, page |-> page.n, answer |-> "none", told |-> None]
<1>1. q \in Session!Request
  BY ShopAssumption DEF Session!SessionAssumption, Session!TypeOK, Session!Send, Session!Request
<1>2. Sent(q, kind, sh, cd)
  BY <1>1 DEF Sent, Session!Send
<1> QED BY <1>2

\* A request r is replaced by what it was answered, q.
Answered(q, r) ==
    /\ q \in Session!Request /\ requests' = (requests \ {r}) \cup {q}
    /\ q.n = r.n /\ q.kind = r.kind /\ q.session = r.session /\ q.shop = r.shop
    /\ q.card = r.card /\ q.me = r.me /\ q.page = r.page

\* An answer replaces the request by the one that has it (api).
LEMMA AnswerStep ==
  ASSUME Session!TypeOK, NEW r \in requests, NEW told \in Session!Me \cup {None},
         NEW answer \in {"ok", "refused", "unauthorized", "lost"},
         Session!Answer(r, answer, told)
  PROVE  \E q : Answered(q, r) /\ q.answer = answer /\ q.told = told
<1> DEFINE q == [r EXCEPT !.answer = answer, !.told = told]
<1>1. r \in Session!Request
  BY DEF Session!TypeOK
<1>2. q \in Session!Request
  BY <1>1 DEF Session!Request
<1>3. Answered(q, r) /\ q.answer = answer /\ q.told = told
  BY <1>1, <1>2 DEF Answered, Session!Answer, Session!Request
<1> QED BY <1>3

\* What TypeOK says of the server and of the tab.
ServerOK ==
    /\ row \in [Shops -> Session!ShopCopy]
    /\ owner \in [1..MaxLogins -> Admins \cup {None}]
    /\ live \subseteq {n \in 1..MaxLogins : owner[n] # None}

\* The account page, with bounds on its numbers that the actions keep.
PageRecord == [n : 0..MaxRequests + 1, cardPending : BOOLEAN, saving : BOOLEAN,
               logoSaving : BOOLEAN, leaving : BOOLEAN]

\* The browser: the cookie, the session, the route, the shop and the page.
TabOK ==
    /\ cookie \in 0..MaxLogins
    /\ \/ session.state \in {"loading", "guest"} /\ session.me = None
       \/ session.state = "ready" /\ session.me \in Session!Me
    /\ route \in {"public", "private", "account"}
    /\ route = "account" => session.state = "ready" /\ page.n # 0
    /\ shopID \in Shops \cup {None}
    /\ page \in PageRecord

\* The requests in flight.
SentOK == requests \subseteq Session!Request /\ sent \in 0..MaxRequests /\ diverged \in BOOLEAN

\* The type invariant is these three parts.
LEMMA TypeParts == Session!TypeOK <=> ServerOK /\ TabOK /\ SentOK
BY DEF Session!TypeOK, ServerOK, TabOK, SentOK, PageRecord

\* So it is after a step.
LEMMA TypePartsNext == Session!TypeOK' <=> ServerOK' /\ TabOK' /\ SentOK'
BY DEF Session!TypeOK, ServerOK, TabOK, SentOK, PageRecord

\* A page that is mounted is of its type (AccountPage).
LEMMA FreshType ==
  \A n \in 0..MaxRequests + 1 : Session!Fresh(n) \in PageRecord /\ Session!Fresh(n).n = n
BY DEF Session!Fresh, PageRecord

\* Opening, leaving and switching keep the types (App.tsx, AdminApp.tsx).
LEMMA NavigationType ==
  ASSUME Session!TypeOK,
         \/ Session!Visit \/ Session!LeaveSite \/ Session!OpenAccount \/ Session!LeaveAccount
         \/ \E a \in Admins : Session!LogIn(a)
         \/ \E n \in 1..MaxLogins : Session!Expire(n)
         \/ \E s \in Shops : Session!ChangeShop(s)
  PROVE  Session!TypeOK'
<1> USE ShopAssumption DEF Session!SessionAssumption
<1>0. /\ row \in [Shops -> Session!ShopCopy] /\ sent \in 0..MaxRequests
      /\ Session!Fresh(0) \in PageRecord /\ ServerOK /\ TabOK /\ SentOK
  BY TypeParts, FreshType DEF ServerOK, SentOK
<1>1. CASE Session!Visit
  <2>1. PICK q : Sent(q, "me", None, None)
    BY <1>1, SendStep DEF Session!Visit, Session!TypeOK, Session!Kinds
  <2> QED BY <1>0, <1>1, <2>1, TypePartsNext
     DEF Session!Visit, Sent, ServerOK, TabOK, SentOK, Session!server
<1>2. CASE Session!LeaveSite
  BY <1>0, <1>2, TypePartsNext DEF Session!LeaveSite, ServerOK, TabOK, SentOK, Session!server
<1>3. CASE Session!OpenAccount
  <2>1. sent + 1 \in 0..MaxRequests + 1 /\ sent + 1 # 0
    BY <1>0
  <2> QED BY <1>0, <1>3, <2>1, FreshType, TypePartsNext
     DEF Session!OpenAccount, ServerOK, TabOK, SentOK, Session!server
<1>4. CASE Session!LeaveAccount
  BY <1>0, <1>4, TypePartsNext DEF Session!LeaveAccount, ServerOK, TabOK, SentOK, Session!server
<1>5. ASSUME NEW a \in Admins, Session!LogIn(a) PROVE Session!TypeOK'
  <2>1. PICK n \in 1..MaxLogins :
           /\ owner[n] = None /\ owner' = [owner EXCEPT ![n] = a] /\ live' = live \cup {n}
           /\ cookie' = n /\ Session!Send("enter", None, None, n, requests)
    BY <1>5 DEF Session!LogIn
  <2>2. n \in 0..MaxLogins
    OBVIOUS
  <2>3. PICK q : Sent(q, "enter", None, None)
    BY <2>1, <2>2, SendStep DEF Session!Kinds
  <2>4. ServerOK'
    BY <1>0, <1>5, <2>1 DEF Session!LogIn, ServerOK
  <2> QED BY <1>0, <1>5, <2>1, <2>3, <2>4, TypePartsNext DEF Session!LogIn, Sent, TabOK, SentOK
<1>6. ASSUME NEW n \in 1..MaxLogins, Session!Expire(n) PROVE Session!TypeOK'
  BY <1>0, <1>6, TypePartsNext DEF Session!Expire, ServerOK, TabOK, SentOK
<1>7. ASSUME NEW s \in Shops, Session!ChangeShop(s) PROVE Session!TypeOK'
  BY <1>0, <1>7, TypePartsNext DEF Session!ChangeShop, ServerOK, TabOK, SentOK, Session!server
<1> QED BY <1>1, <1>2, <1>3, <1>4, <1>5, <1>6, <1>7

\* What a button of the account page does: a setting is sent, and a spinner turns.
Pressed(q) ==
    /\ route = "account" /\ q.kind \in Session!SettingKinds \cup {"logout"}
    /\ Sent(q, q.kind, Session!Selected(session.me), q.card)
    /\ q.kind \in Session!CardKinds => q.card \in Cards
    /\ UNCHANGED <<row, owner, live, cookie, session, route, shopID>>
    /\ page' \in PageRecord /\ page'.n = page.n
    /\ page'.cardPending = (page.cardPending \/ q.kind \in Session!CardKinds)
    /\ page'.saving = (page.saving \/ q.kind = "support")
    /\ page'.logoSaving = (page.logoSaving \/ q.kind = "logo")
    /\ page'.leaving = (page.leaving \/ q.kind = "logout")
    /\ q.kind # "logout" => ~page.cardPending /\ ~page.saving

\* The buttons of the account page send one request each and show a spinner for it.
LEMMA PageStep ==
  ASSUME Session!TypeOK, Session!Page
  PROVE  \E q : Pressed(q)
<1> DEFINE chosen == Session!Selected(session.me)
<1>0. route = "account" => chosen \in Shops
  BY SelectedType DEF Session!TypeOK
<1>1. ASSUME NEW kind \in Session!Kinds, NEW cd \in Cards \cup {None}, Session!SendSetting(kind, cd)
      PROVE  \E q : /\ Sent(q, kind, chosen, cd) /\ route = "account"
                    /\ UNCHANGED <<row, owner, live, cookie, session, route, shopID>>
  <2>1. cookie \in 0..MaxLogins /\ chosen \in Shops \cup {None}
    BY <1>0, <1>1 DEF Session!TypeOK, Session!SendSetting
  <2> QED BY <1>1, <2>1, SendStep DEF Session!SendSetting, Session!server
<1>2. page \in PageRecord
  BY TypeParts DEF TabOK
<1> USE DEF Session!SettingKinds, Session!CardKinds, Session!Kinds, Session!Busy, PageRecord
<1>3. ASSUME NEW c \in Cards, Session!AddPaymentCard(c) PROVE \E q : Pressed(q)
  <2>1. PICK q : /\ Sent(q, "add", chosen, c) /\ route = "account"
                 /\ UNCHANGED <<row, owner, live, cookie, session, route, shopID>>
    BY <1>1, <1>3 DEF Session!AddPaymentCard
  <2>2. Pressed(q)
    BY <1>2, <1>3, <2>1 DEF Pressed, Sent, Session!AddPaymentCard
  <2> QED BY <2>2
<1>4. ASSUME NEW c \in Cards, Session!SavePaymentCard(c) PROVE \E q : Pressed(q)
  <2>1. PICK q : /\ Sent(q, "edit", chosen, c) /\ route = "account"
                 /\ UNCHANGED <<row, owner, live, cookie, session, route, shopID>>
    BY <1>1, <1>4 DEF Session!SavePaymentCard
  <2>2. Pressed(q)
    BY <1>2, <1>4, <2>1 DEF Pressed, Sent, Session!SavePaymentCard
  <2> QED BY <2>2
<1>5. ASSUME NEW c \in Cards, Session!ActivateCard(c) PROVE \E q : Pressed(q)
  <2>1. PICK q : /\ Sent(q, "activate", chosen, c) /\ route = "account"
                 /\ UNCHANGED <<row, owner, live, cookie, session, route, shopID>>
    BY <1>1, <1>5 DEF Session!ActivateCard
  <2>2. Pressed(q)
    BY <1>2, <1>5, <2>1 DEF Pressed, Sent, Session!ActivateCard
  <2> QED BY <2>2
<1>6. ASSUME Session!SaveSupport PROVE \E q : Pressed(q)
  <2>1. PICK q : /\ Sent(q, "support", chosen, None) /\ route = "account"
                 /\ UNCHANGED <<row, owner, live, cookie, session, route, shopID>>
    BY <1>1, <1>6 DEF Session!SaveSupport
  <2>2. Pressed(q)
    BY <1>2, <1>6, <2>1 DEF Pressed, Sent, Session!SaveSupport
  <2> QED BY <2>2
<1>7. ASSUME Session!SaveLogo PROVE \E q : Pressed(q)
  <2>1. PICK q : /\ Sent(q, "logo", chosen, None) /\ route = "account"
                 /\ UNCHANGED <<row, owner, live, cookie, session, route, shopID>>
    BY <1>1, <1>7 DEF Session!SaveLogo
  <2>2. Pressed(q)
    BY <1>2, <1>7, <2>1 DEF Pressed, Sent, Session!SaveLogo
  <2> QED BY <2>2
<1>8. ASSUME Session!LogOut PROVE \E q : Pressed(q)
  <2>1. PICK q : /\ Sent(q, "logout", chosen, None) /\ route = "account"
                 /\ UNCHANGED <<row, owner, live, cookie, session, route, shopID>>
    BY <1>1, <1>8 DEF Session!LogOut
  <2>2. Pressed(q)
    BY <1>2, <1>8, <2>1 DEF Pressed, Sent, Session!LogOut
  <2> QED BY <2>2
<1> QED BY <1>3, <1>4, <1>5, <1>6, <1>7, <1>8 DEF Session!Page

\* The buttons keep the types.
LEMMA PressedType ==
  ASSUME Session!TypeOK, NEW q, Pressed(q)
  PROVE  Session!TypeOK'
<1>1. ServerOK /\ TabOK /\ SentOK
  BY TypeParts
<1>2. ServerOK' /\ TabOK'
  BY <1>1 DEF Pressed, ServerOK, TabOK
<1>3. SentOK'
  BY <1>1, ShopAssumption DEF Pressed, Sent, SentOK, Session!SessionAssumption
<1> QED BY <1>2, <1>3, TypePartsNext

\* What the server makes of request r: q is r with its answer (a handler of the server).
Handled(q, r) ==
    /\ Answered(q, r) /\ r.answer = "none"
    /\ \/ /\ r.kind = "logout" /\ q.answer = "ok"
          /\ live' = live \ {r.session} /\ UNCHANGED row
       \/ /\ r.kind # "logout" /\ q.answer = "unauthorized" /\ UNCHANGED <<row, live>>
       \/ /\ r.kind \in {"me", "enter"} /\ q.answer = "ok"
          /\ \E a \in Admins : q.told = Session!MeOf(a)
          /\ UNCHANGED <<row, live>>
       \/ /\ r.kind \in Session!SettingKinds /\ q.answer = "refused" /\ UNCHANGED <<row, live>>
       \/ /\ r.kind \in Session!SettingKinds /\ q.answer = "ok" /\ Session!Grantable(r)
          /\ row' = [row EXCEPT ![r.shop] = Session!RowWith(@, r)] /\ UNCHANGED live
    /\ UNCHANGED <<owner, cookie, session, route, shopID, page, sent, diverged>>

\* The server handles a request: it answers it and writes what it is granted.
LEMMA HandleStep ==
  ASSUME Session!TypeOK, NEW r \in requests, Session!Handle(r)
  PROVE  \E q : Handled(q, r)
<1>0. None \in Session!Me \cup {None}
  OBVIOUS
<1>1. ASSUME r.session \in live
      PROVE  owner[r.session] \in Admins /\ Session!MeOf(owner[r.session]) \in Session!Me
  BY <1>1, MeOfType DEF Session!TypeOK
<1>2. CASE r.kind = "logout" /\ live' = live \ {r.session} /\ Session!Answer(r, "ok", None)
           /\ UNCHANGED row
  <2>1. PICK q : Answered(q, r) /\ q.answer = "ok" /\ q.told = None
    BY <1>0, <1>2, AnswerStep
  <2>2. Handled(q, r)
    BY <1>2, <2>1 DEF Handled, Session!Handle
  <2> QED BY <2>2
<1>3. CASE r.kind # "logout" /\ Session!Answer(r, "unauthorized", None) /\ UNCHANGED <<row, live>>
  <2>1. PICK q : Answered(q, r) /\ q.answer = "unauthorized" /\ q.told = None
    BY <1>0, <1>3, AnswerStep
  <2>2. Handled(q, r)
    BY <1>3, <2>1 DEF Handled, Session!Handle
  <2> QED BY <2>2
<1>4. CASE r.kind \in {"me", "enter"} /\ r.session \in live
           /\ Session!Answer(r, "ok", Session!MeOf(owner[r.session])) /\ UNCHANGED <<row, live>>
  <2> DEFINE told == Session!MeOf(owner[r.session])
  <2>0. told \in Session!Me \cup {None}
    BY <1>1, <1>4
  <2>1. PICK q : Answered(q, r) /\ q.answer = "ok" /\ q.told = told
    <3> HIDE DEF told
    <3> QED BY <1>4, <2>0, AnswerStep DEF told
  <2>2. Handled(q, r)
    BY <1>1, <1>4, <2>1 DEF Handled, Session!Handle
  <2> QED BY <2>2
<1>5. CASE r.kind \in Session!SettingKinds /\ Session!Answer(r, "refused", None)
           /\ UNCHANGED <<row, live>>
  <2>1. PICK q : Answered(q, r) /\ q.answer = "refused" /\ q.told = None
    BY <1>0, <1>5, AnswerStep
  <2>2. Handled(q, r)
    BY <1>5, <2>1 DEF Handled, Session!Handle
  <2> QED BY <2>2
<1>6. CASE r.kind \in Session!SettingKinds /\ Session!Grantable(r)
           /\ row' = [row EXCEPT ![r.shop] = Session!RowWith(@, r)]
           /\ Session!Answer(r, "ok", None) /\ UNCHANGED live
  <2>1. PICK q : Answered(q, r) /\ q.answer = "ok" /\ q.told = None
    BY <1>0, <1>6, AnswerStep
  <2>2. Handled(q, r)
    BY <1>6, <2>1 DEF Handled, Session!Handle
  <2> QED BY <2>2
<1> QED BY <1>2, <1>3, <1>4, <1>5, <1>6 DEF Session!Handle

\* A connection that fails answers its request for the page (api).
Lost(q, r) ==
    /\ Answered(q, r) /\ q.answer = "lost"
    /\ diverged' = (diverged \/ r.answer = "ok")
    /\ UNCHANGED <<row, owner, live, cookie, session, route, shopID, page, sent>>

\* A connection that fails is an answer too.
LEMMA LoseStep ==
  ASSUME Session!TypeOK, NEW r \in requests, Session!Lose(r)
  PROVE  \E q : Lost(q, r)
<1>1. PICK q : Answered(q, r) /\ q.answer = "lost" /\ q.told = None
  BY AnswerStep DEF Session!Lose
<1>2. Lost(q, r)
  BY <1>1 DEF Lost, Session!Lose, Session!server
<1> QED BY <1>2

\* A handler that ends stops the spinner of its page, no other (the finally of each).
Stopped(r) ==
    /\ page' \in PageRecord /\ page'.n = page.n
    /\ page'.cardPending => page.cardPending
    /\ page'.saving => page.saving
    /\ page'.logoSaving => page.logoSaving
    /\ page'.leaving => page.leaving
    /\ r.page = page.n =>
          /\ page'.cardPending = (page.cardPending /\ r.kind \notin Session!CardKinds)
          /\ page'.saving = (page.saving /\ r.kind # "support")
          /\ page'.logoSaving => r.kind # "logo"
          /\ page'.leaving => r.kind # "logout"
    /\ r.page # page.n => page'.cardPending = page.cardPending /\ page'.saving = page.saving

\* What an answer does to the tab: the session becomes ready with m, or ends, or stays.
EntersWith(m, r) ==
    /\ session' = Session!Ready(m) /\ m \in Session!Me /\ Stopped(r) /\ UNCHANGED <<cookie, route>>
    /\ \/ r.kind \in {"me", "enter"} /\ m = r.told
       \/ r.kind \in Session!SettingKinds /\ m = Session!Merged(r)

\* The session ends: the browser shows the entry page.
Ends == Session!BecomeGuest /\ cookie' \in {0, cookie}

\* Without the answer to anybody who waits for it nothing happens.
Stays(r) ==
    /\ Stopped(r) /\ UNCHANGED <<session, route>> /\ cookie' \in {0, cookie}
    /\ r.answer # "ok"

\* What an answer that comes back does: a session is entered, ended or stays.
Delivered(r) ==
    /\ requests' = requests \ {r}
    /\ (r.answer = "ok" /\ r.kind # "logout" /\ \E m : EntersWith(m, r)) \/ Ends \/ Stays(r)
    /\ Session!Written(r) => \E m : EntersWith(m, r)
    /\ UNCHANGED <<row, owner, live, shopID, sent, diverged>>

\* A page whose request is over is a page.
LEMMA FinishedType ==
  ASSUME page \in PageRecord, NEW r,
         \/ page' = Session!Finished(r)
         \/ page' = [Session!Finished(r) EXCEPT !.logoSaving = FALSE]
  PROVE  Stopped(r)
<1>1. CASE r.page # page.n
  BY <1>1 DEF Stopped, Session!Finished, PageRecord
<1>2. CASE r.page = page.n
  <2>1. Session!Finished(r) =
          [n |-> page.n, cardPending |-> page.cardPending /\ r.kind \notin Session!CardKinds,
           saving |-> page.saving /\ r.kind # "support",
           logoSaving |-> page.logoSaving /\ r.kind # "logo",
           leaving |-> page.leaving /\ r.kind # "logout"]
    BY <1>2 DEF Session!Finished, PageRecord
  <2> DEFINE F == Session!Finished(r)
  <2>2. /\ F \in PageRecord /\ F.n = page.n
        /\ F.cardPending = (page.cardPending /\ r.kind \notin Session!CardKinds)
        /\ F.saving = (page.saving /\ r.kind # "support")
        /\ F.logoSaving = (page.logoSaving /\ r.kind # "logo")
        /\ F.leaving = (page.leaving /\ r.kind # "logout")
    BY <2>1 DEF PageRecord
  <2> HIDE DEF F
  <2>3. CASE page' = F
    BY <1>2, <2>2, <2>3 DEF Stopped
  <2>4. CASE page' = [F EXCEPT !.logoSaving = FALSE]
    <3>1. /\ page' \in PageRecord /\ page'.n = F.n /\ page'.cardPending = F.cardPending
          /\ page'.saving = F.saving /\ page'.logoSaving = FALSE /\ page'.leaving = F.leaving
      BY <2>2, <2>4 DEF PageRecord
    <3> QED BY <1>2, <2>2, <3>1 DEF Stopped
  <2> QED BY <2>3, <2>4 DEF F
<1> QED BY <1>1, <1>2

\* An answer that comes back is handled in one of these ways (App.tsx, AccountPage.tsx).
LEMMA DeliverStep ==
  ASSUME Session!TypeOK, NEW r \in requests, Session!RequestFits(r), Session!Deliver(r)
  PROVE  Delivered(r)
<1>0. /\ page \in PageRecord /\ r \in Session!Request
      /\ requests' = requests \ {r} /\ UNCHANGED <<row, owner, live, shopID, sent, diverged>>
  BY TypeParts DEF TabOK, Session!Deliver, Session!server, Session!TypeOK
<1>1. ASSUME NEW m \in Session!Me, Session!Enter(m, r), UNCHANGED cookie, r.answer = "ok",
             \/ r.kind \in {"me", "enter"} /\ m = r.told
             \/ r.kind \in Session!SettingKinds /\ m = Session!Merged(r)
      PROVE  Delivered(r)
  <2>1. EntersWith(m, r)
    BY <1>0, <1>1, FinishedType DEF EntersWith, Session!Enter
  <2>2. r.kind # "logout"
    BY <1>1 DEF Session!SettingKinds, Session!CardKinds
  <2> QED BY <1>0, <1>1, <2>1, <2>2 DEF Delivered
<1>2. CASE r.answer = "ok" /\ r.kind \in {"me", "enter"} /\ Session!Enter(r.told, r)
           /\ UNCHANGED cookie
  BY <1>1, <1>2 DEF Session!RequestFits
<1>3. CASE r.answer = "ok" /\ r.kind \in Session!SettingKinds
           /\ Session!Enter(Session!Merged(r), r) /\ UNCHANGED cookie
  BY <1>0, <1>1, <1>3, MergedType
<1>4. CASE r.answer = "ok" /\ r.kind = "logout" /\ Session!BecomeGuest /\ cookie' = 0
  BY <1>0, <1>4 DEF Delivered, Ends, Session!Written, Session!SettingKinds, Session!CardKinds
<1>5. CASE r.answer # "ok" /\ cookie' \in {0, cookie} /\ Session!BecomeGuest
  BY <1>0, <1>5 DEF Delivered, Ends, Session!Written
<1>6. CASE /\ r.answer # "ok" /\ cookie' \in {0, cookie}
           /\ page' = Session!Finished(r) /\ UNCHANGED <<session, route>>
  <2>1. Stays(r)
    BY <1>0, <1>6, FinishedType DEF Stays
  <2> QED BY <1>0, <1>6, <2>1 DEF Delivered, Session!Written
<1> QED BY <1>2, <1>3, <1>4, <1>5, <1>6 DEF Session!Deliver

\* Handling, losing and coming back keep the types.
LEMMA AnswersType ==
  ASSUME Session!TypeOK, NEW r \in requests, Session!RequestFits(r),
         Session!Handle(r) \/ Session!Lose(r) \/ Session!Deliver(r)
  PROVE  Session!TypeOK'
<1>0. ServerOK /\ TabOK /\ SentOK /\ r \in Session!Request
  BY TypeParts DEF Session!TypeOK
<1>1. CASE Session!Handle(r)
  <2>1. PICK q : Handled(q, r)
    BY <1>1, HandleStep
  <2>2. row' \in [Shops -> Session!ShopCopy]
    <3>1. CASE UNCHANGED row
      BY <1>0, <3>1 DEF ServerOK
    <3>2. CASE r.kind \in Session!SettingKinds
               /\ row' = [row EXCEPT ![r.shop] = Session!RowWith(@, r)]
      <4>1. r.kind \in Session!CardKinds => r.card \in Cards
        BY DEF Session!RequestFits
      <4>2. r.shop \in Shops
        BY <3>2, MeIs, ShopAssumption DEF Session!RequestFits, Session!SessionAssumption
      <4>3. row[r.shop] \in Session!ShopCopy
        BY <1>0, <4>2 DEF ServerOK
      <4>4. Session!RowWith(row[r.shop], r) \in Session!ShopCopy
        BY <1>0, <3>2, <4>1, <4>3, SettingType
      <4> QED BY <1>0, <3>2, <4>4 DEF ServerOK
    <3> QED BY <2>1, <3>1, <3>2 DEF Handled
  <2>3. ServerOK'
    BY <1>0, <2>1, <2>2 DEF Handled, ServerOK
  <2>4. TabOK' /\ SentOK'
    BY <1>0, <2>1 DEF Handled, Answered, TabOK, SentOK
  <2> QED BY <2>3, <2>4, TypePartsNext
<1>2. CASE Session!Lose(r)
  <2>1. PICK q : Lost(q, r)
    BY <1>2, LoseStep
  <2>2. ServerOK' /\ TabOK' /\ SentOK'
    BY <1>0, <2>1 DEF Lost, Answered, ServerOK, TabOK, SentOK
  <2> QED BY <2>2, TypePartsNext
<1>3. CASE Session!Deliver(r)
  <2>1. Delivered(r)
    BY <1>3, DeliverStep
  <2>2. ServerOK' /\ SentOK'
    BY <1>0, <2>1 DEF Delivered, ServerOK, SentOK
  <2>3. TabOK'
    <3>1. CASE \E m : EntersWith(m, r)
      <4>1. PICK m : EntersWith(m, r)
        BY <3>1
      <4> QED BY <1>0, <2>1, <4>1 DEF EntersWith, Stopped, TabOK, Delivered, Session!Ready
    <3>2. CASE Ends
      BY <1>0, <2>1, <3>2, FreshType, ShopAssumption
      DEF Ends, Session!BecomeGuest, TabOK, Delivered, Session!Guest, Session!SessionAssumption
    <3>3. CASE Stays(r)
      <4>1. shopID' = shopID
        BY <2>1 DEF Delivered
      <4>2. /\ session' = session /\ route' = route /\ cookie' \in {0, cookie}
            /\ page' \in PageRecord /\ page'.n = page.n
        BY <3>3 DEF Stays, Stopped
      <4> QED BY <1>0, <4>1, <4>2, ShopAssumption DEF TabOK, Session!SessionAssumption
    <3> QED BY <2>1, <3>1, <3>2, <3>3 DEF Delivered
  <2> QED BY <2>2, <2>3, TypePartsNext
<1> QED BY <1>1, <1>2, <1>3

\* Moves between pages either ask who is logged in, off the account page, ...
Asked(q) ==
    /\ q.kind \in {"me", "enter"} /\ Sent(q, q.kind, None, None)
    /\ route' = "private" /\ UNCHANGED <<row, session, page>>

\* ... or send nothing, and drop at most that question; an account page is then the one
\* that was there or a new one.
Moved ==
    /\ requests' \subseteq requests /\ \A r \in requests \ requests' : r.kind = "me"
    /\ UNCHANGED <<row, session, sent, diverged>>
    /\ \/ route' # "account" /\ page' = Session!Fresh(0)
       \/ route' = "account" /\ page' = Session!Fresh(sent + 1)
       \/ UNCHANGED <<requests, route, page>>

\* A step of navigation moves, or asks who is logged in.
LEMMA NavigationStep ==
  ASSUME Session!TypeOK,
         \/ Session!Visit \/ Session!LeaveSite \/ Session!OpenAccount \/ Session!LeaveAccount
         \/ \E a \in Admins : Session!LogIn(a)
         \/ \E n \in 1..MaxLogins : Session!Expire(n)
         \/ \E s \in Shops : Session!ChangeShop(s)
  PROVE  Moved \/ \E q : Asked(q)
<1>1. CASE Session!Visit
  <2>1. PICK q : Sent(q, "me", None, None)
    BY <1>1, SendStep DEF Session!Visit, Session!TypeOK, Session!Kinds
  <2>2. Asked(q)
    BY <1>1, <2>1 DEF Session!Visit, Session!server, Asked, Sent
  <2> QED BY <2>2
<1>2. CASE Session!LeaveSite
  BY <1>2 DEF Session!LeaveSite, Session!server, Moved
<1>3. CASE Session!OpenAccount
  BY <1>3 DEF Session!OpenAccount, Session!server, Moved
<1>4. CASE Session!LeaveAccount
  BY <1>4 DEF Session!LeaveAccount, Session!server, Moved
<1>5. ASSUME NEW a \in Admins, Session!LogIn(a) PROVE \E q : Asked(q)
  <2>1. PICK n \in 1..MaxLogins : Session!Send("enter", None, None, n, requests)
    BY <1>5 DEF Session!LogIn
  <2>2. n \in 0..MaxLogins
    OBVIOUS
  <2>3. PICK q : Sent(q, "enter", None, None)
    BY <2>1, <2>2, SendStep DEF Session!Kinds
  <2>4. Asked(q)
    BY <1>5, <2>3 DEF Session!LogIn, Asked, Sent
  <2> QED BY <2>4
<1>6. ASSUME NEW n \in 1..MaxLogins, Session!Expire(n) PROVE Moved
  BY <1>6 DEF Session!Expire, Moved
<1>7. ASSUME NEW s \in Shops, Session!ChangeShop(s) PROVE Moved
  BY <1>7 DEF Session!ChangeShop, Session!server, Moved
<1> QED BY <1>1, <1>2, <1>3, <1>4, <1>5, <1>6, <1>7

\* The requests carry what fits, and no page has a number that is still to come.
Carried == page.n <= sent + 1 /\ \A r \in requests : Session!RequestFits(r)

\* Every spinner of the account page is held as long as it should be, and no longer.
Spinners == Session!PageBusy

\* The inductive invariant is the types, the requests, the spinners, and the copies.
LEMMA InvParts ==
  Session!IInv <=>
    Session!TypeOK /\ Carried /\ Spinners /\ Session!OneAtATime /\ Session!Attributed
BY DEF Session!IInv, Carried, Spinners

\* So it is after a step.
LEMMA InvPartsNext ==
  Session!IInv' <=>
    Session!TypeOK' /\ Carried' /\ Spinners' /\ Session!OneAtATime' /\ Session!Attributed'
BY DEF Session!IInv, Carried, Spinners

\* What fits keeps fitting, as long as the count of requests does not go back.
LEMMA FitsKept ==
  ASSUME NEW r, Session!RequestFits(r), r.page \in Nat, sent \in Nat, sent' \in Nat, sent <= sent'
  PROVE  Session!RequestFits(r)'
BY DEF Session!RequestFits

\* What requests carry goes on to fit.
LEMMA CarriedStep ==
  ASSUME Session!TypeOK, Carried, Session!TypeOK',
         \/ Moved
         \/ \E q : Asked(q)
         \/ \E q : Pressed(q)
         \/ \E r \in requests : \E q : Handled(q, r) \/ Lost(q, r)
         \/ \E r \in requests : Delivered(r)
  PROVE  Carried'
<1>0. /\ sent \in 0..MaxRequests /\ sent' \in 0..MaxRequests /\ page \in PageRecord /\ MaxRequests \in Nat
      /\ \A r \in requests : r \in Session!Request /\ r.page \in Nat /\ Session!RequestFits(r)
      /\ page' \in PageRecord
  BY TypeParts, TypePartsNext, ShopAssumption
  DEF TabOK, SentOK, Carried, Session!Request, Session!SessionAssumption
<1>1. ASSUME sent <= sent', page'.n <= sent' + 1,
             \A r \in requests' : r \in requests \/ Session!RequestFits(r)'
      PROVE  Carried'
  <2>1. \A r \in requests : Session!RequestFits(r)'
    BY <1>0, <1>1, FitsKept
  <2> QED BY <1>1, <2>1 DEF Carried
<1>2. CASE Moved
  <2>1. requests' \subseteq requests /\ sent' = sent
    BY <1>2 DEF Moved
  <2>2. page'.n <= sent + 1
    BY <1>0, <1>2, FreshType DEF Moved, Carried, Session!Fresh
  <2> QED BY <1>0, <1>1, <2>1, <2>2
<1>3. ASSUME NEW q, Asked(q) PROVE Carried'
  <2>1. /\ requests' = requests \cup {q} /\ sent' = sent + 1 /\ page' = page /\ q.page = page.n
        /\ q.kind \in {"me", "enter"} /\ q.answer = "none"
    BY <1>3 DEF Asked, Sent
  <2>2. page.n \in Nat /\ page.n <= sent + 1
    BY <1>0 DEF Carried, PageRecord
  <2>3. Session!RequestFits(q)'
    BY <2>1, <2>2 DEF Session!RequestFits, Session!SettingKinds, Session!CardKinds
  <2> QED BY <1>0, <1>1, <2>1, <2>2, <2>3
<1>4. ASSUME NEW q, Pressed(q) PROVE Carried'
  <2>1. /\ requests' = requests \cup {q} /\ sent' = sent + 1 /\ page'.n = page.n /\ q.page = page.n
        /\ q.kind \in Session!SettingKinds \cup {"logout"} /\ q.answer = "none"
        /\ q.shop = Session!Selected(session.me) /\ q.me = session.me
        /\ q.kind \in Session!CardKinds => q.card \in Cards
        /\ route = "account"
    BY <1>4 DEF Pressed, Sent
  <2>2. page.n \in Nat /\ page.n <= sent + 1
    BY <1>0 DEF Carried, PageRecord
  <2>3. session.me \in Session!Me
    BY <2>1 DEF Session!TypeOK
  <2>4. Session!RequestFits(q)'
    BY <2>1, <2>2, <2>3, SelectedType DEF Session!RequestFits
  <2> QED BY <1>0, <1>1, <2>1, <2>2, <2>4
<1>5. ASSUME NEW r \in requests, NEW q, Handled(q, r) \/ Lost(q, r) PROVE Carried'
  <2>1. /\ requests' = (requests \ {r}) \cup {q} /\ sent' = sent /\ page' = page
        /\ q.kind = r.kind /\ q.me = r.me /\ q.shop = r.shop /\ q.card = r.card /\ q.page = r.page
        /\ q \in Session!Request
    BY <1>5 DEF Handled, Lost, Answered
  <2>2. q.answer = "ok" /\ q.kind \in {"me", "enter"} => q.told \in Session!Me
    <3> SUFFICES ASSUME q.answer = "ok", q.kind \in {"me", "enter"} PROVE q.told \in Session!Me
      OBVIOUS
    <3>1. q.kind # "logout" /\ q.kind \notin Session!SettingKinds
      BY DEF Session!SettingKinds, Session!CardKinds
    <3>2. PICK a \in Admins : q.told = Session!MeOf(a)
      BY <1>5, <2>1, <3>1 DEF Handled, Lost
    <3>3. row \in [Shops -> Session!ShopCopy]
      BY DEF Session!TypeOK
    <3> QED BY <3>2, <3>3, MeOfType
  <2>3. Session!RequestFits(q)'
    BY <1>0, <2>1, <2>2 DEF Session!RequestFits
  <2>4. page'.n <= sent' + 1
    BY <2>1 DEF Carried
  <2> QED BY <1>0, <1>1, <2>1, <2>3, <2>4
<1>6. ASSUME NEW r \in requests, Delivered(r) PROVE Carried'
  <2>1. requests' \subseteq requests /\ sent' = sent
    BY <1>6 DEF Delivered
  <2>2. page'.n = page.n \/ page' = Session!Fresh(0)
    BY <1>6 DEF Delivered, EntersWith, Ends, Stays, Stopped, Session!BecomeGuest
  <2>3. page'.n <= sent' + 1
    BY <1>0, <2>1, <2>2, FreshType DEF Carried, PageRecord
  <2> QED BY <1>0, <1>1, <2>1, <2>3
<1> QED BY <1>2, <1>3, <1>4, <1>5, <1>6

\* The spinners of the page and the requests behind them, of a set R of requests.
Turns(p, R) ==
    /\ \A q, r \in R :
          q.page = p.n /\ r.page = p.n /\ q.kind \in Session!CardKinds \cup {"support"}
          /\ r.kind \in Session!CardKinds \cup {"support"} => q = r
    /\ p.cardPending => \E r \in R : r.page = p.n /\ r.kind \in Session!CardKinds
    /\ p.saving => \E r \in R : r.page = p.n /\ r.kind = "support"
    /\ p.logoSaving => \E r \in R : r.page = p.n /\ r.kind = "logo"
    /\ p.leaving => \E r \in R : r.page = p.n /\ r.kind = "logout"
    /\ \A r \in R : r.page = p.n =>
          (r.kind \in Session!CardKinds => p.cardPending) /\ (r.kind = "support" => p.saving)

\* What the spinners say, of the pages and requests of a state.
LEMMA SpinnersAre ==
  /\ Spinners <=> (route = "account" => Turns(page, requests))
  /\ Spinners' <=> (route' = "account" => Turns(page', requests'))
BY DEF Spinners, Session!PageBusy, Turns

\* A page with a spinner has one request behind it, and no request is another's (pending).
LEMMA SpinnersStep ==
  ASSUME Session!TypeOK, Carried, Spinners, Session!TypeOK',
         \/ Moved
         \/ \E q : Asked(q)
         \/ \E q : Pressed(q)
         \/ \E r \in requests : \E q : Handled(q, r) \/ Lost(q, r)
         \/ \E r \in requests : Delivered(r)
  PROVE  Spinners'
<1>0. /\ sent \in 0..MaxRequests /\ page \in PageRecord /\ page' \in PageRecord
      /\ \A r \in requests : r \in Session!Request /\ r.page <= sent /\ r.page \in Nat
      /\ route = "account" => Turns(page, requests)
      /\ MaxRequests \in Nat
  BY TypeParts, TypePartsNext, SpinnersAre, ShopAssumption
  DEF TabOK, SentOK, Carried, Session!RequestFits, Session!Request, Session!SessionAssumption
<1> SUFFICES ASSUME route' = "account" PROVE Turns(page', requests')
  BY SpinnersAre
<1>1. CASE Moved
  <2>1. CASE UNCHANGED <<requests, route, page>>
    BY <1>0, <2>1
  <2>2. CASE page' = Session!Fresh(sent + 1)
    <3>1. /\ page'.n = sent + 1 /\ ~page'.cardPending /\ ~page'.saving /\ ~page'.logoSaving
          /\ ~page'.leaving
      BY <2>2 DEF Session!Fresh
    <3>2. \A r \in requests' : r.page # page'.n
      BY <1>0, <1>1, <3>1 DEF Moved
    <3> QED BY <3>1, <3>2 DEF Turns
  <2> QED BY <1>1, <2>1, <2>2 DEF Moved
<1>2. ASSUME NEW q, Asked(q) PROVE FALSE
  BY <1>2 DEF Asked
<1>3. ASSUME NEW q, Pressed(q) PROVE Turns(page', requests')
  <2>1. /\ requests' = requests \cup {q} /\ page'.n = page.n /\ q.page = page.n
        /\ Turns(page, requests)
    BY <1>0, <1>3 DEF Pressed, Sent
  <2>2. /\ page'.cardPending = (page.cardPending \/ q.kind \in Session!CardKinds)
        /\ page'.saving = (page.saving \/ q.kind = "support")
        /\ page'.logoSaving = (page.logoSaving \/ q.kind = "logo")
        /\ page'.leaving = (page.leaving \/ q.kind = "logout")
        /\ q.kind # "logout" => ~page.cardPending /\ ~page.saving
    BY <1>3 DEF Pressed
  <2>3. q.kind \in Session!CardKinds \cup {"support"} => q.kind # "logout"
    BY DEF Session!CardKinds
  <2>4. ASSUME NEW x \in requests', NEW y \in requests', x.page = page'.n, y.page = page'.n,
               x.kind \in Session!CardKinds \cup {"support"},
               y.kind \in Session!CardKinds \cup {"support"}
        PROVE  x = y
    <3>1. CASE x # q /\ y # q
      BY <2>1, <2>4, <3>1 DEF Turns
    <3>2. CASE x = q \/ y = q
      <4>1. ~page.cardPending /\ ~page.saving
        BY <2>2, <2>3, <2>4, <3>2
      <4>2. \A z \in requests : z.page = page.n => z.kind \notin Session!CardKinds \cup {"support"}
        BY <2>1, <4>1 DEF Turns
      <4> QED BY <2>1, <2>4, <4>2
    <3> QED BY <3>1, <3>2
  <2>5. page'.cardPending => \E x \in requests' : x.page = page'.n /\ x.kind \in Session!CardKinds
    BY <2>1, <2>2 DEF Turns
  <2>6. page'.saving => \E x \in requests' : x.page = page'.n /\ x.kind = "support"
    BY <2>1, <2>2 DEF Turns
  <2>7. page'.logoSaving => \E x \in requests' : x.page = page'.n /\ x.kind = "logo"
    BY <2>1, <2>2 DEF Turns
  <2>8. page'.leaving => \E x \in requests' : x.page = page'.n /\ x.kind = "logout"
    BY <2>1, <2>2 DEF Turns
  <2>9. ASSUME NEW x \in requests', x.page = page'.n
        PROVE  (x.kind \in Session!CardKinds => page'.cardPending)
               /\ (x.kind = "support" => page'.saving)
    BY <2>1, <2>2, <2>9 DEF Turns
  <2> QED BY <2>4, <2>5, <2>6, <2>7, <2>8, <2>9 DEF Turns
<1>4. ASSUME NEW r \in requests, NEW q, Handled(q, r) \/ Lost(q, r) PROVE Turns(page', requests')
  <2>1. /\ requests' = (requests \ {r}) \cup {q} /\ page' = page /\ Turns(page, requests)
        /\ q.page = r.page /\ q.kind = r.kind
    BY <1>0, <1>4 DEF Handled, Lost, Answered
  <2> QED BY <2>1 DEF Turns
<1>5. ASSUME NEW r \in requests, Delivered(r) PROVE Turns(page', requests')
  <2>1. requests' = requests \ {r}
    BY <1>5 DEF Delivered
  <2>2. Stopped(r) /\ route' = route
    BY <1>5 DEF Delivered, EntersWith, Ends, Stays, Session!BecomeGuest
  <2>3. Turns(page, requests) /\ page'.n = page.n
    BY <1>0, <2>2 DEF Stopped
  <2>4. \A x, y \in requests' :
          x.page = page'.n /\ y.page = page'.n /\ x.kind \in Session!CardKinds \cup {"support"}
          /\ y.kind \in Session!CardKinds \cup {"support"} => x = y
    BY <2>1, <2>3 DEF Turns
  <2>5. page'.cardPending => \E x \in requests' : x.page = page'.n /\ x.kind \in Session!CardKinds
    BY <2>1, <2>2, <2>3 DEF Turns, Stopped
  <2>6. page'.saving => \E x \in requests' : x.page = page'.n /\ x.kind = "support"
    BY <2>1, <2>2, <2>3 DEF Turns, Stopped
  <2>7. page'.logoSaving => \E x \in requests' : x.page = page'.n /\ x.kind = "logo"
    BY <2>1, <2>2, <2>3 DEF Turns, Stopped
  <2>8. page'.leaving => \E x \in requests' : x.page = page'.n /\ x.kind = "logout"
    BY <2>1, <2>2, <2>3 DEF Turns, Stopped
  <2>9. ASSUME NEW x \in requests', x.page = page'.n
        PROVE  (x.kind \in Session!CardKinds => page'.cardPending)
               /\ (x.kind = "support" => page'.saving)
    BY ZenonT(60), <2>1, <2>2, <2>3, <2>9 DEF Turns, Stopped, Session!CardKinds
  <2> QED BY <2>4, <2>5, <2>6, <2>7, <2>8, <2>9 DEF Turns
<1> QED BY <1>1, <1>2, <1>3, <1>4, <1>5

\* Where neither the rows nor the session change, what was current stays so.
LEMMA CurrentKept ==
  ASSUME row' = row, session' = session, NEW r, Session!Current(r)
  PROVE  Session!Current(r)'
BY ZenonT(60) DEF Session!Current, Session!Written, Session!MeOf, Session!Merged, Session!ShopWith

\* A granted setting is merged into the copy as the server has written it
\* (updateCards, saveSupport, saveLogo).
LEMMA MergedIsRow ==
  ASSUME Session!TypeOK, NEW r \in requests, Session!RequestFits(r),
         r.kind \in Session!SettingKinds, Session!Grantable(r),
         r.me = Session!MeOf(r.me.admin),
         row' = [row EXCEPT ![r.shop] = Session!RowWith(@, r)]
  PROVE  Session!Merged(r) = Session!MeOf(r.me.admin)'
<1> DEFINE a == r.me.admin
<1>1. /\ r \in Session!Request /\ row \in [Shops -> Session!ShopCopy]
      /\ r.me \in Session!Me /\ a \in Admins /\ r.shop \in ShopsOf[a]
      /\ r.kind \in Session!CardKinds => r.card \in Cards
  BY MeIs DEF Session!TypeOK, Session!RequestFits
<1>2. ShopsOf[a] \subseteq Shops
  BY <1>1, ShopAssumption DEF Session!SessionAssumption
<1>3. r.me.shops = [s \in ShopsOf[a] |-> row[s]]
  BY <1>1, MeOfType
<1>4. r.me.shops[r.shop] = row[r.shop] /\ row[r.shop] \in Session!ShopCopy
  BY <1>1, <1>2, <1>3
<1>5. r.kind \in {"edit", "activate"} => row[r.shop].text[r.card] # 0
  BY DEF Session!Grantable
<1>6. Session!ShopWith(row[r.shop], r) = Session!RowWith(row[r.shop], r)
  BY <1>1, <1>4, <1>5, SettingType
<1>7. Session!Merged(r).shops = [r.me.shops EXCEPT ![r.shop] = Session!RowWith(row[r.shop], r)]
  BY <1>1, <1>4, <1>6, MergedType
<1>8. Session!Merged(r) \in Session!Me /\ Session!Merged(r).admin = a
  BY <1>1, MergedType
<1> DEFINE new == Session!RowWith(row[r.shop], r)
<1>9. [r.me.shops EXCEPT ![r.shop] = new] = [s \in ShopsOf[a] |-> row'[s]]
  <2>1. row' = [row EXCEPT ![r.shop] = new]
    OBVIOUS
  <2> HIDE DEF new
  <2> QED BY <1>1, <1>2, <1>3, <2>1
<1>10. Session!Merged(r) = [admin |-> a, shops |-> [s \in ShopsOf[a] |-> row'[s]]]
  BY <1>7, <1>8, <1>9, MeIs
<1> QED BY <1>10 DEF Session!MeOf

\* The copy of a session that is ready is what the database has.
Whole == session.state = "ready" => session.me = Session!MeOf(session.me.admin)

\* The copy is what the rows are, but for one request.
LEMMA CurrentStep ==
  ASSUME Session!TypeOK, Carried, Session!OneAtATime, Session!TypeOK',
         \/ Moved
         \/ \E q : Asked(q)
         \/ \E q : Pressed(q)
         \/ \E r \in requests : \E q : Handled(q, r) \/ Lost(q, r)
         \/ \E r \in requests : Delivered(r)
  PROVE  Session!OneAtATime'
<1> SUFFICES ASSUME ~diverged' PROVE Session!OneAtATime'
  BY DEF Session!OneAtATime
<1>9. ASSUME \A q, r \in requests' : q = r, \A r \in requests' : Session!Current(r)',
             (\A r \in requests' : ~Session!Written(r)) => Whole'
      PROVE  Session!OneAtATime'
  BY <1>9 DEF Session!OneAtATime, Session!Written, Whole
<1>0. /\ \A r \in requests : r \in Session!Request /\ Session!RequestFits(r)
      /\ ~diverged =>
           /\ \A q, r \in requests : q = r
           /\ \A r \in requests : Session!Current(r)
           /\ (\A r \in requests : ~Session!Written(r)) => Whole
      /\ diverged \in BOOLEAN
  BY DEF Session!TypeOK, Carried, Session!OneAtATime, Whole
<1>1. CASE Moved
  <2>1. /\ requests' \subseteq requests /\ ~diverged /\ row' = row /\ session' = session
        /\ \A r \in requests \ requests' : r.kind = "me"
    BY <1>1 DEF Moved
  <2>2. \A r \in requests \ requests' : ~Session!Written(r)
    BY <2>1 DEF Session!Written, Session!SettingKinds, Session!CardKinds
  <2>3. \A r \in requests' : Session!Current(r)'
    BY <1>0, <2>1, CurrentKept
  <2>4. (\A r \in requests' : ~Session!Written(r)) => Whole'
    BY <1>0, <2>1, <2>2 DEF Session!MeOf, Whole
  <2> QED BY <1>0, <1>9, <2>1, <2>3, <2>4
<1>2. ASSUME NEW q, Asked(q) \/ Pressed(q) PROVE Session!OneAtATime'
  <2>1. /\ requests = {} /\ ~diverged /\ requests' = {q} /\ row' = row /\ session' = session
        /\ q.answer = "none" /\ q.me = session.me
    BY <1>0, <1>2 DEF Asked, Pressed, Sent
  <2>2. q.kind \in Session!SettingKinds => session.state = "ready"
    <3> SUFFICES ASSUME q.kind \in Session!SettingKinds PROVE session.state = "ready"
      OBVIOUS
    <3>1. q.kind \notin {"me", "enter"}
      BY DEF Session!SettingKinds, Session!CardKinds
    <3> QED BY <1>2, <3>1 DEF Asked, Pressed, Session!TypeOK
  <2>3. Session!Current(q)
    BY <2>1, <2>2 DEF Session!Current, Session!Written
  <2>4. Session!Current(q)'
    BY <2>1, <2>3, CurrentKept
  <2>5. Whole'
    BY <1>0, <2>1 DEF Session!MeOf, Whole
  <2> QED BY <1>9, <2>1, <2>4, <2>5
<1>3. ASSUME NEW r \in requests, NEW q, Handled(q, r) PROVE Session!OneAtATime'
  <2>1. /\ ~diverged /\ requests = {r} /\ requests' = {q} /\ session' = session
        /\ q.kind = r.kind /\ q.me = r.me /\ q.shop = r.shop /\ q.card = r.card /\ q.n = r.n
        /\ r.answer = "none"
    BY <1>0, <1>3 DEF Handled, Answered
  <2>2. Session!Current(r) /\ Whole /\ Session!RequestFits(r)
    BY <1>0, <2>1 DEF Session!Written
  <2>3. q.kind \in Session!SettingKinds =>
           session.state = "ready" /\ session.me = q.me /\ q.me = Session!MeOf(q.me.admin)
    BY <2>1, <2>2 DEF Session!Current, Whole
  <2>4. Session!Written(q) => Session!Merged(r) = Session!MeOf(r.me.admin)'
    <3> SUFFICES ASSUME q.kind \in Session!SettingKinds, q.answer = "ok"
                 PROVE  Session!Merged(r) = Session!MeOf(r.me.admin)'
      BY DEF Session!Written
    <3>1. q.kind # "logout" /\ q.kind \notin {"me", "enter"}
      BY DEF Session!SettingKinds, Session!CardKinds
    <3>2. Session!Grantable(r) /\ row' = [row EXCEPT ![r.shop] = Session!RowWith(@, r)]
      BY <1>3, <2>1, <3>1 DEF Handled
    <3> QED BY <2>1, <2>2, <2>3, <3>2, MergedIsRow
  <2>5. Session!Merged(q) = Session!Merged(r)
    BY <2>1 DEF Session!Merged, Session!ShopWith
  <2>6. ~Session!Written(q) => row' = row
    BY <1>3 DEF Handled, Session!Written, Answered
  <2>7. q.answer = "ok" /\ q.kind \in {"me", "enter"} => q.told = Session!MeOf(q.told.admin)'
    <3> SUFFICES ASSUME q.answer = "ok", q.kind \in {"me", "enter"}
                 PROVE  q.told = Session!MeOf(q.told.admin)'
      OBVIOUS
    <3>1. q.kind \notin Session!SettingKinds \cup {"logout"}
      BY DEF Session!SettingKinds, Session!CardKinds
    <3>2. row' = row /\ \E a \in Admins : q.told = Session!MeOf(a)
      BY SMTT(60), <1>3, <2>1, <3>1 DEF Handled
    <3> QED BY <3>2 DEF Session!MeOf
  <2>8. Session!Current(q)'
    BY ZenonT(60), <2>1, <2>3, <2>4, <2>5, <2>7
    DEF Session!Current, Session!Written, Session!Merged, Session!ShopWith
  <2>9. ~Session!Written(q) => Whole'
    BY <2>1, <2>2, <2>6 DEF Session!MeOf, Whole
  <2> QED BY <1>9, <2>1, <2>8, <2>9
<1>4. ASSUME NEW r \in requests, NEW q, Lost(q, r) PROVE Session!OneAtATime'
  <2>1. /\ ~diverged /\ r.answer # "ok" /\ requests = {r} /\ requests' = {q}
        /\ session' = session /\ row' = row /\ q.kind = r.kind /\ q.me = r.me
        /\ q.answer = "lost"
    BY <1>0, <1>4 DEF Lost, Answered
  <2>2. Session!Current(r) /\ Whole
    BY <1>0, <2>1 DEF Session!Written
  <2>3. Session!Current(q)
    BY <2>1, <2>2 DEF Session!Current, Session!Written
  <2>4. Session!Current(q)'
    BY <2>1, <2>3, CurrentKept
  <2>5. Whole'
    BY <2>1, <2>2 DEF Session!MeOf, Whole
  <2> QED BY <1>9, <2>1, <2>4, <2>5
<1>5. ASSUME NEW r \in requests, Delivered(r) PROVE Session!OneAtATime'
  <2>1. ~diverged /\ requests = {r} /\ requests' = {} /\ row' = row
    BY <1>0, <1>5 DEF Delivered
  <2>2. Session!Current(r) /\ (~Session!Written(r) => Whole)
    BY <1>0, <2>1
  <2>3. session'.state = "ready" => session'.me = Session!MeOf(session'.me.admin)
    <3>1. ASSUME NEW m, EntersWith(m, r), r.answer = "ok"
          PROVE  session'.me = Session!MeOf(session'.me.admin)
      <4>1. session'.me = m
        BY <3>1 DEF EntersWith, Session!Ready
      <4>2. CASE r.kind \in {"me", "enter"} /\ m = r.told
        BY <2>2, <3>1, <4>1, <4>2 DEF Session!Current
      <4>3. CASE r.kind \in Session!SettingKinds /\ m = Session!Merged(r)
        <5>1. Session!Merged(r).admin = r.me.admin
          BY <1>0, <4>3, MergedType
        <5> QED BY <2>2, <3>1, <4>1, <4>3, <5>1 DEF Session!Current, Session!Written
      <4> QED BY <3>1, <4>2, <4>3 DEF EntersWith
    <3>2. CASE Ends
      BY <3>2 DEF Ends, Session!BecomeGuest, Session!Guest
    <3>3. CASE Stays(r)
      BY <2>2, <3>3 DEF Stays, Session!Written, Whole
    <3> QED BY <1>5, <3>1, <3>2, <3>3 DEF Delivered
  <2>4. Whole'
    BY <2>1, <2>3 DEF Session!MeOf, Whole
  <2> QED BY <1>9, <2>1, <2>4
<1> QED BY <1>1, <1>2, <1>3, <1>4, <1>5

\* A shop keeps what is its own when a setting that was for it is written or merged.
LEMMA BelongsWith ==
  ASSUME NEW c \in Session!ShopCopy, NEW r \in Session!Request, NEW s, NEW of,
         r.kind \in Session!SettingKinds, r.kind \in Session!CardKinds => r.card \in Cards,
         Session!Belongs(c, s, of), r.n \in DOMAIN of, of[r.n] = s
  PROVE  /\ Session!Belongs(Session!ShopWith(c, r), s, of)
         /\ (r.kind = "activate" => c.text[r.card] # 0) =>
               Session!Belongs(Session!RowWith(c, r), s, of)
<1>1. /\ r.n \in 1..MaxRequests /\ c.text \in [Cards -> 0..MaxRequests]
      /\ c.active \in Cards \cup {None} /\ c.logo \in 0..MaxRequests /\ c.support \in 0..MaxRequests
      /\ c = [text |-> c.text, active |-> c.active, logo |-> c.logo, support |-> c.support]
  BY DEF Session!ShopCopy, Session!Request
<1>2. /\ c.active # None => c.text[c.active] # 0
      /\ \A n \in Session!Origins(c) : n \in DOMAIN of /\ of[n] = s
  BY DEF Session!Belongs
<1>3. ASSUME NEW d, d.active # None => d.text[d.active] # 0,
             Session!Origins(d) \subseteq Session!Origins(c) \cup {r.n}
      PROVE  Session!Belongs(d, s, of)
  BY <1>2, <1>3 DEF Session!Belongs
<1>4. CASE r.kind \in {"add", "edit"}
  <2>1. ASSUME NEW x \in {0, r.n}, c.text[r.card] # 0 => x # 0
        PROVE  Session!Belongs([c EXCEPT !.text[r.card] = x], s, of)
    <3> DEFINE d == [c EXCEPT !.text[r.card] = x]
               new == [c.text EXCEPT ![r.card] = x]
    <3>1. d.text = new /\ d.active = c.active /\ d.logo = c.logo /\ d.support = c.support
      BY <1>1
    <3>2. \A k \in Cards : new[k] = IF k = r.card THEN x ELSE c.text[k]
      BY <1>1
    <3> HIDE DEF d, new
    <3>3. Session!Origins(d) \subseteq Session!Origins(c) \cup {r.n}
      BY <2>1, <3>1, <3>2 DEF Session!Origins
    <3>4. d.active # None => d.text[d.active] # 0
      BY <1>1, <1>2, <2>1, <3>1, <3>2
    <3> QED BY <1>3, <3>3, <3>4 DEF d
  <2>2. Session!RowWith(c, r) = [c EXCEPT !.text[r.card] = r.n]
    BY <1>4 DEF Session!RowWith
  <2>3. \E x \in {0, r.n} : /\ c.text[r.card] # 0 => x # 0
                            /\ Session!ShopWith(c, r) = [c EXCEPT !.text[r.card] = x]
    BY <1>1, <1>4 DEF Session!ShopWith
  <2> QED BY <1>1, <2>1, <2>2, <2>3
<1>5. CASE r.kind = "activate"
  <2>1. ASSUME NEW x \in Cards \cup {None}, x # None => c.text[x] # 0
        PROVE  Session!Belongs([c EXCEPT !.active = x], s, of)
    <3> DEFINE d == [c EXCEPT !.active = x]
    <3>1. d.text = c.text /\ d.active = x /\ d.logo = c.logo /\ d.support = c.support
      BY <1>1
    <3> HIDE DEF d
    <3> QED BY <1>3, <2>1, <3>1 DEF Session!Origins, d
  <2>2. r.card \in Cards
    BY <1>5 DEF Session!CardKinds
  <2> QED BY <1>5, <2>1, <2>2 DEF Session!ShopWith, Session!RowWith
<1>6. CASE r.kind = "support"
  <2> DEFINE d == [c EXCEPT !.support = r.n]
  <2>1. d.text = c.text /\ d.active = c.active /\ d.logo = c.logo /\ d.support = r.n
    BY <1>1
  <2>2. Session!ShopWith(c, r) = d /\ Session!RowWith(c, r) = d
    BY <1>6 DEF Session!ShopWith, Session!RowWith
  <2> HIDE DEF d
  <2> QED BY <1>2, <1>3, <2>1, <2>2 DEF Session!Origins
<1>7. CASE r.kind = "logo"
  <2> DEFINE d == [c EXCEPT !.logo = r.n]
  <2>1. d.text = c.text /\ d.active = c.active /\ d.logo = r.n /\ d.support = c.support
    BY <1>1
  <2>2. Session!ShopWith(c, r) = d /\ Session!RowWith(c, r) = d
    BY <1>7 DEF Session!ShopWith, Session!RowWith
  <2> HIDE DEF d
  <2> QED BY <1>2, <1>3, <2>1, <2>2 DEF Session!Origins
<1> QED BY <1>4, <1>5, <1>6, <1>7 DEF Session!SettingKinds, Session!CardKinds

\* What the rows, the session and the requests say of a function of shops.
RowsBelong(of) == \A s \in Shops : Session!Belongs(row[s], s, of)
ReadyBelongs(of) == session.state = "ready" => Session!AllBelong(session.me, of)
RequestBelongs(r, of) ==
    /\ r.n \in DOMAIN of /\ of[r.n] = r.shop
    /\ r.kind \in Session!SettingKinds => Session!AllBelong(r.me, of)
    /\ r.answer = "ok" /\ r.kind \in {"me", "enter"} => Session!AllBelong(r.told, of)

\* The invariant in these words.
LEMMA AttributedIs ==
  /\ Session!Attributed <=>
       \E of \in [1..sent -> Shops \cup {None}] :
          RowsBelong(of) /\ ReadyBelongs(of) /\ \A r \in requests : RequestBelongs(r, of)
  /\ Session!Attributed' <=>
       \E of \in [1..sent' -> Shops \cup {None}] :
          RowsBelong(of)' /\ ReadyBelongs(of)' /\ \A r \in requests' : RequestBelongs(r, of)
BY DEF Session!Attributed, RowsBelong, ReadyBelongs, RequestBelongs

\* One request more takes nothing away from what belonged.
LEMMA BelongsLater ==
  ASSUME NEW of, NEW f, DOMAIN of \subseteq DOMAIN f, \A n \in DOMAIN of : f[n] = of[n]
  PROVE  /\ \A c, s : Session!Belongs(c, s, of) => Session!Belongs(c, s, f)
         /\ \A m : Session!AllBelong(m, of) => Session!AllBelong(m, f)
         /\ \A r : RequestBelongs(r, of) => RequestBelongs(r, f)
<1>1. \A c, s : Session!Belongs(c, s, of) => Session!Belongs(c, s, f)
  BY DEF Session!Belongs
<1>2. \A m : Session!AllBelong(m, of) => Session!AllBelong(m, f)
  BY <1>1 DEF Session!AllBelong
<1> QED BY <1>1, <1>2 DEF RequestBelongs

\* What the database tells of an admin belongs where its rows do.
LEMMA ToldBelongs ==
  ASSUME row \in [Shops -> Session!ShopCopy], NEW of, RowsBelong(of), NEW a \in Admins
  PROVE  Session!AllBelong(Session!MeOf(a), of)
<1>1. ShopsOf[a] \subseteq Shops
  BY ShopAssumption DEF Session!SessionAssumption
<1>2. /\ Session!MeOf(a).admin = a
      /\ \A s \in ShopsOf[a] : Session!MeOf(a).shops[s] = row[s]
  BY Zenon DEF Session!MeOf
<1>3. \A s \in ShopsOf[a] : Session!Belongs(row[s], s, of)
  BY <1>1 DEF RowsBelong
<1> QED BY <1>2, <1>3 DEF Session!AllBelong

\* The copies stay each shop's own, whatever overlaps (onShopUpdated).
LEMMA AttributedStep ==
  ASSUME Session!TypeOK, Carried, Session!Attributed,
         \/ Moved
         \/ \E q : Asked(q)
         \/ \E q : Pressed(q)
         \/ \E r \in requests : \E q : Handled(q, r) \/ Lost(q, r)
         \/ \E r \in requests : Delivered(r)
  PROVE  Session!Attributed'
<1>1. PICK of \in [1..sent -> Shops \cup {None}] :
         RowsBelong(of) /\ ReadyBelongs(of) /\ \A r \in requests : RequestBelongs(r, of)
  BY AttributedIs
<1>2. /\ row \in [Shops -> Session!ShopCopy] /\ sent \in Nat
      /\ \A r \in requests : r \in Session!Request /\ Session!RequestFits(r)
  BY DEF Session!TypeOK, Carried
<1>3. CASE Moved
  <2>1. requests' \subseteq requests /\ UNCHANGED <<row, session, sent>>
    BY <1>3 DEF Moved
  <2>2. RowsBelong(of)' /\ ReadyBelongs(of)'
    BY <1>1, <2>1 DEF RowsBelong, ReadyBelongs
  <2> QED BY <1>1, <2>1, <2>2, AttributedIs
<1>4. ASSUME NEW q, Asked(q) \/ Pressed(q) PROVE Session!Attributed'
  <2>1. /\ requests' = requests \cup {q} /\ q.n = sent + 1 /\ sent' = sent + 1
        /\ q.me = session.me /\ q.answer = "none" /\ q.shop \in Shops \cup {None}
        /\ UNCHANGED <<row, session>>
    BY <1>4 DEF Asked, Pressed, Sent, Session!Request
  <2>2. q.kind \in Session!SettingKinds => session.state = "ready"
    <3>1. "me" \notin Session!SettingKinds /\ "enter" \notin Session!SettingKinds
      BY DEF Session!SettingKinds, Session!CardKinds
    <3> QED BY <1>4, <3>1 DEF Asked, Pressed, Session!TypeOK
  <2>0. PICK f : f = [n \in 1..sent + 1 |-> IF n = sent + 1 THEN q.shop ELSE of[n]]
    OBVIOUS
  <2>3. f \in [1..sent' -> Shops \cup {None}]
    BY <1>2, <2>0, <2>1
  <2>4. /\ DOMAIN of \subseteq DOMAIN f /\ \A n \in DOMAIN of : f[n] = of[n]
        /\ q.n \in DOMAIN f /\ f[q.n] = q.shop
    BY <1>2, <2>0, <2>1
  <2>5. RowsBelong(f)' /\ ReadyBelongs(f)'
    BY <1>1, <2>1, <2>4, BelongsLater DEF RowsBelong, ReadyBelongs
  <2>6. RequestBelongs(q, f)
    BY <1>1, <2>1, <2>2, <2>4, BelongsLater DEF RequestBelongs, ReadyBelongs
  <2>7. \A r \in requests' : RequestBelongs(r, f)
    BY <1>1, <2>1, <2>4, <2>6, BelongsLater
  <2> QED BY <2>3, <2>5, <2>7, AttributedIs
<1>5. ASSUME NEW r \in requests, NEW q, Handled(q, r) \/ Lost(q, r) PROVE Session!Attributed'
  <2>1. /\ requests' = (requests \ {r}) \cup {q} /\ UNCHANGED <<session, sent>>
        /\ q.n = r.n /\ q.kind = r.kind /\ q.shop = r.shop /\ q.me = r.me
    BY <1>5 DEF Handled, Lost, Answered
  <2>2. RowsBelong(of)'
    <3>1. CASE UNCHANGED row
      BY <1>1, <3>1 DEF RowsBelong
    <3>2. CASE /\ r.kind \in Session!SettingKinds /\ Session!Grantable(r)
               /\ row' = [row EXCEPT ![r.shop] = Session!RowWith(@, r)]
      <4>1. r.shop \in Shops
        BY <1>2, <3>2, MeIs, ShopAssumption DEF Session!RequestFits, Session!SessionAssumption
      <4>2. /\ row[r.shop] \in Session!ShopCopy /\ Session!Belongs(row[r.shop], r.shop, of)
            /\ r.kind \in Session!CardKinds => r.card \in Cards
            /\ r.n \in DOMAIN of /\ of[r.n] = r.shop
            /\ r.kind = "activate" => row[r.shop].text[r.card] # 0
        BY <1>1, <1>2, <3>2, <4>1
        DEF RowsBelong, RequestBelongs, Session!RequestFits, Session!Grantable
      <4>3. Session!Belongs(Session!RowWith(row[r.shop], r), r.shop, of)
        BY <1>2, <3>2, <4>2, BelongsWith
      <4>4. \A s \in Shops : row'[s] = IF s = r.shop THEN Session!RowWith(row[r.shop], r) ELSE row[s]
        BY <1>2, <3>2, <4>1
      <4>5. \A s \in Shops : Session!Belongs(row'[s], s, of)
        BY <1>1, <4>3, <4>4 DEF RowsBelong
      <4> QED BY <4>5 DEF RowsBelong
    <3> QED BY <1>5, <3>1, <3>2 DEF Handled, Lost
  <2>3. q.answer = "ok" /\ q.kind \in {"me", "enter"} => Session!AllBelong(q.told, of)
    <3> SUFFICES ASSUME q.answer = "ok", q.kind \in {"me", "enter"}
                 PROVE  Session!AllBelong(q.told, of)
      OBVIOUS
    <3>1. q.kind # "logout" /\ q.kind \notin Session!SettingKinds
      BY DEF Session!SettingKinds, Session!CardKinds
    <3>2. PICK a \in Admins : q.told = Session!MeOf(a)
      BY <1>5, <2>1, <3>1 DEF Handled, Lost
    <3> QED BY <1>1, <1>2, <3>2, ToldBelongs
  <2>4. RequestBelongs(q, of)
    BY <1>1, <2>1, <2>3 DEF RequestBelongs
  <2>5. ReadyBelongs(of)'
    BY <1>1, <2>1 DEF ReadyBelongs
  <2> QED BY <1>1, <2>1, <2>2, <2>4, <2>5, AttributedIs
<1>6. ASSUME NEW r \in requests, Delivered(r) PROVE Session!Attributed'
  <2>1. requests' = requests \ {r} /\ UNCHANGED <<row, sent>>
    BY <1>6 DEF Delivered
  <2>2. RowsBelong(of)'
    BY <1>1, <2>1 DEF RowsBelong
  <2>3. ASSUME NEW m, EntersWith(m, r), r.answer = "ok"
        PROVE  session'.me = m /\ Session!AllBelong(m, of)
    <3>1. session'.me = m
      BY <2>3 DEF EntersWith, Session!Ready
    <3>2. CASE r.kind \in {"me", "enter"} /\ m = r.told
      BY <1>1, <2>3, <3>1, <3>2 DEF RequestBelongs
    <3>3. CASE r.kind \in Session!SettingKinds /\ m = Session!Merged(r)
      <4>1. /\ r \in Session!Request /\ Session!RequestFits(r) /\ RequestBelongs(r, of)
            /\ r.me \in Session!Me /\ r.shop \in ShopsOf[r.me.admin]
            /\ r.kind \in Session!CardKinds => r.card \in Cards
        BY <1>1, <1>2, <3>3 DEF Session!RequestFits
      <4>2. /\ r.me.shops \in [ShopsOf[r.me.admin] -> Session!ShopCopy]
            /\ r.me.shops[r.shop] \in Session!ShopCopy
        BY <4>1, MeIs
      <4>3. \A s \in ShopsOf[r.me.admin] : Session!Belongs(r.me.shops[s], s, of)
        BY <3>3, <4>1 DEF RequestBelongs, Session!AllBelong
      <4> DEFINE new == Session!ShopWith(r.me.shops[r.shop], r)
      <4>4. Session!Belongs(new, r.shop, of)
        BY <3>3, <4>1, <4>2, <4>3, BelongsWith DEF RequestBelongs
      <4>5. m.admin = r.me.admin /\ m.shops = [r.me.shops EXCEPT ![r.shop] = new]
        BY <3>3, <4>1, MergedType
      <4> HIDE DEF new
      <4>6. \A s \in ShopsOf[r.me.admin] : m.shops[s] = IF s = r.shop THEN new ELSE r.me.shops[s]
        BY <4>1, <4>2, <4>5
      <4>7. \A s \in ShopsOf[r.me.admin] : Session!Belongs(m.shops[s], s, of)
        BY <4>3, <4>4, <4>6
      <4> QED BY <3>1, <4>5, <4>7 DEF Session!AllBelong
    <3> QED BY <2>3, <3>2, <3>3 DEF EntersWith
  <2>4. CASE Ends
    <3>1. ~(session'.state = "ready")
      BY <2>4 DEF Ends, Session!BecomeGuest, Session!Guest
    <3> QED BY <1>1, <2>1, <2>2, <3>1, AttributedIs DEF ReadyBelongs
  <2>5. CASE Stays(r)
    <3>1. ReadyBelongs(of)'
      BY <1>1, <2>5 DEF Stays, ReadyBelongs
    <3> QED BY <1>1, <2>1, <2>2, <3>1, AttributedIs
  <2>6. ASSUME NEW m, EntersWith(m, r), r.answer = "ok" PROVE Session!Attributed'
    <3>1. ReadyBelongs(of)'
      BY <2>3, <2>6 DEF ReadyBelongs
    <3> QED BY <1>1, <2>1, <2>2, <3>1, AttributedIs
  <2> QED BY <1>6, <2>4, <2>5, <2>6 DEF Delivered
<1> QED BY <1>3, <1>4, <1>5, <1>6

\* A copy of one shop and the row of another have no number in common.
LEMMA OwnCopies ==
  ASSUME Session!TypeOK, Session!Attributed
  PROVE  Session!CopyIsOwn
<1>1. PICK of \in [1..sent -> Shops \cup {None}] : RowsBelong(of) /\ ReadyBelongs(of)
  BY AttributedIs
<1> SUFFICES ASSUME session.state = "ready", NEW s \in ShopsOf[session.me.admin]
             PROVE  LET copy == session.me.shops[s]
                    IN /\ copy.active # None => copy.text[copy.active] # 0
                       /\ \A t \in Shops \ {s} :
                             Session!Origins(copy) \cap Session!Origins(row[t]) = {}
  BY DEF Session!CopyIsOwn
<1>2. Session!Belongs(session.me.shops[s], s, of)
  BY <1>1 DEF ReadyBelongs, Session!AllBelong
<1>3. \A t \in Shops : Session!Belongs(row[t], t, of)
  BY <1>1 DEF RowsBelong
<1> QED BY <1>2, <1>3 DEF Session!Belongs

\* At the beginning nobody is logged in and nothing is in flight.
LEMMA SessionInit == Session!Init => Session!IInv
<1> SUFFICES ASSUME Session!Init PROVE Session!IInv
  OBVIOUS
<1> USE ShopAssumption DEF Session!SessionAssumption
<1>1. ServerOK
  <2>1. [text |-> [c \in Cards |-> 0], active |-> None, logo |-> 0, support |-> 0]
           \in Session!ShopCopy
    BY DEF Session!ShopCopy
  <2> QED BY <2>1 DEF Session!Init, ServerOK
<1>2. TabOK /\ SentOK
  <2>1. Session!Fresh(0) \in PageRecord /\ 0 \in 0..MaxLogins /\ 0 \in 0..MaxRequests
    BY FreshType
  <2> QED BY <2>1 DEF Session!Init, TabOK, SentOK
<1>3. Carried /\ Spinners /\ Session!OneAtATime
  BY FreshType DEF Session!Init, Carried, Spinners, Session!PageBusy, Session!OneAtATime
<1>4. Session!Attributed
  <2> DEFINE of == [n \in 1..sent |-> None]
  <2>1. of \in [1..sent -> Shops \cup {None}]
    OBVIOUS
  <2> HIDE DEF of
  <2>2. /\ RowsBelong(of) /\ requests = {} /\ ~(session.state = "ready")
    BY DEF Session!Init, RowsBelong, Session!Belongs, Session!Origins
  <2> QED BY <2>1, <2>2, AttributedIs DEF ReadyBelongs
<1> QED BY <1>1, <1>2, <1>3, <1>4, TypeParts, InvParts

\* Every step of the session keeps the invariant.
LEMMA SessionStep == Session!IInv /\ [Session!Next]_sessionVars => Session!IInv'
<1> SUFFICES ASSUME Session!IInv, [Session!Next]_sessionVars PROVE Session!IInv'
  OBVIOUS
<1>0. Session!TypeOK /\ Carried /\ Spinners /\ Session!OneAtATime /\ Session!Attributed
  BY InvParts
<1> DEFINE Shape == \/ Moved
                    \/ \E q : Asked(q)
                    \/ \E q : Pressed(q)
                    \/ \E r \in requests : \E q : Handled(q, r) \/ Lost(q, r)
                    \/ \E r \in requests : Delivered(r)
<1>1. ASSUME Session!TypeOK', Shape PROVE Session!IInv'
  BY <1>0, <1>1, CarriedStep, SpinnersStep, CurrentStep, AttributedStep, InvPartsNext
<1> HIDE DEF Shape
<1>2. ASSUME \/ Session!Visit \/ Session!LeaveSite \/ Session!OpenAccount \/ Session!LeaveAccount
             \/ \E a \in Admins : Session!LogIn(a)
             \/ \E n \in 1..MaxLogins : Session!Expire(n)
             \/ \E s \in Shops : Session!ChangeShop(s)
      PROVE  Session!IInv'
  <2>1. Shape
    BY <1>0, <1>2, NavigationStep DEF Shape
  <2>2. Session!TypeOK'
    BY <1>0, <1>2, NavigationType
  <2> QED BY <1>1, <2>1, <2>2
<1>3. CASE Session!Page
  <2>1. PICK q : Pressed(q)
    BY <1>0, <1>3, PageStep
  <2> QED BY <1>0, <1>1, <2>1, PressedType DEF Shape
<1>4. ASSUME NEW r \in requests, Session!Handle(r) \/ Session!Lose(r) \/ Session!Deliver(r)
      PROVE  Session!IInv'
  <2>1. Session!RequestFits(r)
    BY <1>0 DEF Carried
  <2>2. Session!TypeOK'
    BY <1>0, <1>4, <2>1, AnswersType
  <2>3. CASE Session!Handle(r)
    BY <1>0, <1>1, <2>2, <2>3, HandleStep DEF Shape
  <2>4. CASE Session!Lose(r)
    BY <1>0, <1>1, <2>2, <2>4, LoseStep DEF Shape
  <2>5. CASE Session!Deliver(r)
    BY <1>0, <1>1, <2>1, <2>2, <2>5, DeliverStep DEF Shape
  <2> QED BY <1>4, <2>3, <2>4, <2>5
<1>5. CASE UNCHANGED sessionVars
  <2>1. /\ UNCHANGED <<row, owner, live, cookie, session, route, shopID, page, requests, sent,
                       diverged>>
    BY <1>5 DEF sessionVars
  <2>2. ServerOK' /\ TabOK' /\ SentOK'
    BY <1>0, <2>1, TypeParts DEF ServerOK, TabOK, SentOK
  <2>3. Moved
    BY <2>1 DEF Moved
  <2> QED BY <1>1, <2>2, <2>3, TypePartsNext DEF Shape
<1> QED BY <1>2, <1>3, <1>4, <1>5 DEF Session!Next

\* Whatever requests overlap or are lost, each shop's copy shows its own settings alone and
\* the page's spinners fit its requests; and the copy is the database's once every request
\* has been answered, if no two overlapped and no answer was lost (AccountPage.tsx).
THEOREM SessionCorrect ==
  Session!Spec =>
    []Session!TypeOK /\ []Session!CopyIsOwn /\ []Session!CopyCurrent /\ []Session!PageBusy
<1>1. Session!IInv =>
        Session!TypeOK /\ Session!CopyIsOwn /\ Session!CopyCurrent /\ Session!PageBusy
  BY OwnCopies DEF Session!IInv, Session!OneAtATime, Session!CopyCurrent
<1>2. Session!IInv /\ [Session!Next]_Session!vars => Session!IInv'
  BY SessionStep DEF Session!vars, sessionVars
<1> QED BY <1>1, <1>2, SessionInit, PTL DEF Session!Spec

-----------------------------------------------------------------------------
(* Sorted lists (ProductPages) *)

\* A set of natural numbers has a least element.
LEMMA Least ==
  ASSUME NEW T \in SUBSET Nat, T # {}
  PROVE \E x \in T : \A y \in T : x <= y
<1>1. PICK x \in T : \A y \in T : ~ (<<y, x>> \in OpToRel(<, Nat))
  BY NatLessThanWellFounded, WFMin
<1>2. \A y \in T : ~(y < x)
  BY <1>1 DEF OpToRel
<1> QED BY <1>2

\* The products of a page, in sets where none is twice.
Catalogue(S) ==
  IsFiniteSet(S) /\ S \subseteq Products!Shown /\ \A p, q \in S : p.id = q.id => p = q

\* Of such products one is the last (sortProducts).
LEMMA LastOne ==
  ASSUME NEW S, Catalogue(S), S # {}
  PROVE  \E m \in S : \A p \in S \ {m} : Products!Before(p, m)
<1> DEFINE A == {p \in S : ~p.active}
           B == IF A # {} THEN A ELSE S
           I == {p.id : p \in B}
<1>1. B \subseteq S /\ B # {} /\ \A p \in S : p.id \in Nat /\ p.active \in BOOLEAN
  BY DEF Catalogue, Products!Shown, Products!Ids
<1>2. I \subseteq Nat /\ I # {}
  BY <1>1
<1>3. PICK n \in I : \A k \in I : n <= k
  BY <1>2, Least
<1>4. PICK m \in B : n = m.id
  OBVIOUS
<1>5. ASSUME NEW p \in S \ {m} PROVE Products!Before(p, m)
  <2>1. p.id # m.id
    BY <1>1, <1>4 DEF Catalogue
  <2>2. CASE p \in B
    BY <1>1, <1>3, <1>4, <2>1, <2>2 DEF Products!Before
  <2>3. CASE p \notin B
    BY <1>1, <1>4, <2>3 DEF Products!Before
  <2> QED BY <2>2, <2>3
<1> QED BY <1>1, <1>4, <1>5

\* The list is in order.
InOrder(list, S) ==
    /\ list \in [1..Cardinality(S) -> S]
    /\ \A i, j \in DOMAIN list : i < j => Products!Before(list[i], list[j])

\* Products can be put in order: a smallest set that could not has a last one, and the
\* others can (sortProducts).
LEMMA SortedExists ==
  ASSUME NEW S, Catalogue(S)
  PROVE  \E list : InOrder(list, S)
<1> DEFINE Bad == {n \in Nat : \E T : Catalogue(T) /\ Cardinality(T) = n /\ \A list : ~InOrder(list, T)}
<1> SUFFICES ASSUME \A list : ~InOrder(list, S) PROVE FALSE
  OBVIOUS
<1>1. Cardinality(S) \in Bad
  BY FS_CardinalityType DEF Catalogue
<1>2. PICK n \in Bad : \A k \in Bad : n <= k
  BY <1>1, Least
<1>3. PICK T : Catalogue(T) /\ Cardinality(T) = n /\ \A list : ~InOrder(list, T)
  BY <1>2
<1>4. CASE T = {}
  <2>1. Cardinality(T) = 0
    BY <1>4, FS_EmptySet
  <2>2. InOrder(<<>>, T)
    BY <1>4, <2>1 DEF InOrder
  <2> QED BY <1>3, <2>2
<1>5. CASE T # {}
  <2>1. PICK m \in T : \A p \in T \ {m} : Products!Before(p, m)
    BY <1>3, <1>5, LastOne
  <2> DEFINE R == T \ {m}
  <2>2. Catalogue(R) /\ Cardinality(R) = n - 1
    BY <1>3, FS_RemoveElement DEF Catalogue
  <2>3. n \in Nat /\ n - 1 \in Nat
    BY <1>2, <2>2, FS_CardinalityType DEF Catalogue
  <2>4. PICK rest : InOrder(rest, R)
    BY <1>2, <2>2, <2>3
  <2> DEFINE list == [i \in 1..n |-> IF i = n THEN m ELSE rest[i]]
  <2>5. /\ rest \in [1..n-1 -> R]
        /\ \A i, j \in 1..n-1 : i < j => Products!Before(rest[i], rest[j])
    BY <2>2, <2>4 DEF InOrder
  <2>6. list \in [1..n -> T]
    BY <2>3, <2>5
  <2>8. \A i, j \in 1..n : i < j => Products!Before(list[i], list[j])
    BY <2>1, <2>3, <2>5
  <2>9. InOrder(list, T)
    BY <1>3, <2>6, <2>8 DEF InOrder
  <2> QED BY <1>3, <2>9
<1> QED BY <1>4, <1>5

\* The number of products is that of the library.
LEMMA SameCardinality == \A S : Products!Cardinality(S) = Cardinality(S)
BY DEF Products!Cardinality, Cardinality

\* Sorting a set of products gives a list of just these products (sortProducts).
LEMMA SortedList ==
  ASSUME NEW S, Catalogue(S)
  PROVE  /\ Products!Sorted(S) \in Seq(Products!Shown)
         /\ Products!Range(Products!Sorted(S)) = S
<1> DEFINE list == Products!Sorted(S)
           n == Cardinality(S)
<1>1. InOrder(list, S)
  <2> DEFINE D == [1..n -> S]
             Fits(x) == \A i, j \in DOMAIN x : i < j => Products!Before(x[i], x[j])
  <2>1. \E x \in D : Fits(x)
    BY SortedExists, Zenon DEF InOrder
  <2>2. list = CHOOSE x \in D : Fits(x)
    BY SameCardinality, Zenon DEF Products!Sorted
  <2>3. list \in D /\ Fits(list)
    <3> HIDE DEF D, Fits, list
    <3> QED BY <2>1, <2>2
  <2> QED BY <2>3 DEF InOrder
<1> HIDE DEF list
<1>2. n \in Nat /\ IsFiniteSet(S) /\ list \in [1..n -> S]
  BY <1>1, FS_CardinalityType DEF InOrder, Catalogue
<1>8. ASSUME NEW i \in 1..n, NEW j \in 1..n, list[i] = list[j] PROVE i = j
  <2>1. list[i] \in Products!Shown /\ ~Products!Before(list[i], list[i])
    BY <1>2 DEF Catalogue, Products!Before, Products!Shown, Products!Ids
  <2> QED BY <1>1, <1>2, <1>8, <2>1 DEF InOrder
<1>3. IsFiniteSet(1..n) /\ Cardinality(1..n) = n
  BY <1>2, FS_Interval
<1>4. list \in Injection(1..n, S)
  BY <1>2, <1>8, Fun_IsInj
<1>5. list \in Surjection(1..n, S)
  BY <1>2, <1>3, <1>4, FS_Injection
<1>6. Range(list) = S
  BY <1>5, Fun_SurjectionProperties
<1>7. list \in Seq(S)
  BY <1>2
<1> QED BY <1>6, <1>7 DEF list, Catalogue, Products!Range, Range

\* What a sorted list has, in Range and in its type (sortProducts).
LEMMA SortedUnrepeated ==
  ASSUME NEW S, Catalogue(S)
  PROVE  Products!Unrepeated(Products!Sorted(S))
BY SortedList DEF Products!Unrepeated, Catalogue

\* The products as they are stored, with other choices of what is archived.
Entries(active) ==
    {[id |-> p, text |-> rows[p].text, image |-> rows[p].image, active |-> active[p]] :
        p \in 1..Len(rows)}

\* The stored products.
RowsOK == rows \in Seq(Products!Row) /\ Len(rows) <= MaxProducts

\* No entry is there twice.
LEMMA EntriesCatalogue ==
  ASSUME RowsOK, NEW active \in [1..Len(rows) -> BOOLEAN]
  PROVE  Catalogue(Entries(active))
<1> DEFINE n == Len(rows)
           entry == [p \in 1..n |-> [id |-> p, text |-> rows[p].text, image |-> rows[p].image,
                                     active |-> active[p]]]
<1>1. n \in Nat /\ MaxProducts \in Nat /\ n <= MaxProducts
  BY ShopAssumption DEF RowsOK, Products!ProductAssumption
<1>2. \A p \in 1..n : rows[p] \in Products!Row
  BY DEF RowsOK
<1>3. \A p \in 1..n : entry[p] \in Products!Shown
  BY <1>1, <1>2 DEF Products!Row, Products!Shown, Products!Ids
<1>4. Entries(active) = {entry[p] : p \in 1..n}
  BY DEF Entries
<1>5. entry \in Surjection(1..n, Entries(active))
  <2>1. entry \in [1..n -> Entries(active)]
    BY DEF Entries
  <2>2. \A e \in Entries(active) : \E p \in 1..n : entry[p] = e
    BY DEF Entries
  <2> HIDE DEF entry
  <2> QED BY <2>1, <2>2, Fun_IsSurj
<1>6. IsFiniteSet(Entries(active))
  <2> HIDE DEF entry
  <2> QED BY <1>1, <1>5, FS_Interval, FS_Surjection
<1>7. Entries(active) \subseteq Products!Shown
  BY <1>3, <1>4
<1>8. \A p, q \in Entries(active) : p.id = q.id => p = q
  BY DEF Entries
<1> QED BY <1>6, <1>7, <1>8 DEF Catalogue

\* The list of such entries is of its type and has every entry (products).
LEMMA ListedIs ==
  ASSUME RowsOK, NEW active \in [1..Len(rows) -> BOOLEAN]
  PROVE  /\ Products!ListedWith(active) \in Seq(Products!Shown)
         /\ Products!Range(Products!ListedWith(active)) = Entries(active)
         /\ Products!Unrepeated(Products!ListedWith(active))
<1>1. Products!ListedWith(active) = Products!Sorted(Entries(active))
  BY DEF Products!ListedWith, Entries, Products!Stored
<1> QED BY <1>1, EntriesCatalogue, SortedList, SortedUnrepeated

\* What is archived.
Archived == [p \in 1..Len(rows) |-> rows[p].active]

\* The list that the server sends is that of what is archived (products).
LEMMA ListingIs ==
  ASSUME RowsOK
  PROVE  /\ Archived \in [1..Len(rows) -> BOOLEAN]
         /\ Products!Listing = Products!ListedWith(Archived)
         /\ Products!Listing \in Seq(Products!Shown)
         /\ Products!Unrepeated(Products!Listing)
<1>1. Archived \in [1..Len(rows) -> BOOLEAN]
  <2>1. \A p \in 1..Len(rows) : rows[p] \in Products!Row
    BY DEF RowsOK
  <2>2. \A p \in 1..Len(rows) : rows[p].active \in BOOLEAN
    BY <2>1 DEF Products!Row
  <2> QED BY <2>2 DEF Archived
<1>2. {[id |-> p, text |-> rows[p].text, image |-> rows[p].image, active |-> rows[p].active] :
          p \in Products!Stored} = Entries(Archived)
  BY DEF Entries, Archived, Products!Stored
<1>3. Products!Listing = Products!Sorted(Entries(Archived))
  BY <1>2, Zenon DEF Products!Listing
<1>4. Products!ListedWith(Archived) = Products!Sorted(Entries(Archived))
  BY DEF Products!ListedWith, Entries, Products!Stored
<1> QED BY <1>1, <1>3, <1>4, ListedIs

\* The products of a list, with that of a change as it is told (changeActive).
Retold(list, r) ==
    {IF p.id = r.product THEN [p EXCEPT !.active = r.kind = "activate"] ELSE p :
        p \in Products!Range(list)}

\* No product is in it twice.
LEMMA RetoldCatalogue ==
  ASSUME NEW list \in Seq(Products!Shown), Products!Unrepeated(list), NEW r
  PROVE  Catalogue(Retold(list, r))
<1> DEFINE n == Len(list)
           told == [i \in 1..n |-> IF list[i].id = r.product
                                   THEN [list[i] EXCEPT !.active = r.kind = "activate"]
                                   ELSE list[i]]
<1>1. n \in Nat /\ list \in [1..n -> Products!Shown]
  OBVIOUS
<1>2. Products!Range(list) = {list[i] : i \in 1..n}
  BY <1>1 DEF Products!Range
<1>3. \A i \in 1..n : told[i] \in Products!Shown /\ told[i].id = list[i].id
  BY <1>1 DEF Products!Shown
<1>4. Retold(list, r) = {told[i] : i \in 1..n}
  BY <1>2 DEF Retold
<1>5. told \in Surjection(1..n, Retold(list, r))
  <2>1. told \in [1..n -> Retold(list, r)]
    BY <1>4
  <2>2. \A e \in Retold(list, r) : \E i \in 1..n : told[i] = e
    BY <1>4
  <2> HIDE DEF told
  <2> QED BY <2>1, <2>2, Fun_IsSurj
<1>6. IsFiniteSet(Retold(list, r))
  <2> HIDE DEF told
  <2> QED BY <1>1, <1>5, FS_Interval, FS_Surjection
<1>7. Retold(list, r) \subseteq Products!Shown
  BY <1>3, <1>4
<1>8. ASSUME NEW i \in 1..n, NEW j \in 1..n, told[i].id = told[j].id PROVE told[i] = told[j]
  <2>1. list[i].id = list[j].id
    BY <1>3, <1>8
  <2>2. list[i] = list[j]
    BY <1>2, <2>1 DEF Products!Unrepeated
  <2> QED BY <2>2
<1>9. \A p, q \in Retold(list, r) : p.id = q.id => p = q
  <2> HIDE DEF told
  <2> QED BY <1>4, <1>8
<1> QED BY <1>6, <1>7, <1>9 DEF Catalogue
-----------------------------------------------------------------------------
(* Types *)

\* The types of the variables.
Types ==
    /\ patient \in BOOLEAN /\ RowsOK
    /\ tab \in Products!TabRecord /\ asked \subseteq Products!RequestRecord
    /\ askedSoFar \in Nat
    /\ lost \in 0..MaxLosses /\ refused \in 0..MaxRefusals /\ visits \in 0..MaxVisits

\* What Mount does to the page: a fresh one of the kind asked for.
Fresh(at, id) ==
    /\ tab' \in Products!TabRecord
    /\ tab'.n = tab.n + 1 /\ tab'.at = at /\ tab'.id = (IF at = "new" THEN None ELSE id)
    /\ tab'.loading = (at # "new")
    /\ tab'.shown = <<>> /\ ~tab'.error /\ tab'.changing = None /\ ~tab'.found /\ ~tab'.pending
    /\ tab'.text = None /\ tab'.image = None /\ tab'.source = None /\ tab'.wanted = None
    /\ tab'.working = None

\* That page as a record.
FreshTab(at, id, loading) ==
    [n |-> tab.n + 1, at |-> at, id |-> id, shown |-> <<>>, loading |-> loading, error |-> FALSE,
     changing |-> None, found |-> FALSE, text |-> None, image |-> None, source |-> None,
     area |-> FALSE, working |-> None, pending |-> FALSE, wanted |-> None]

\* The question a fresh page asks for its products.
FirstQuestion(id) == Products!Request("load", tab.n + 1, id, None, None)

\* What Mount does to the requests.
Asking(at, id, others) ==
    LET kept == {r \in others : ~(r.kind = "load" /\ tab.at = "edit")}
    IN IF at = "new" THEN asked' = kept /\ askedSoFar' = askedSoFar
       ELSE asked' = kept \cup {FirstQuestion(id)} /\ askedSoFar' = askedSoFar + 1

\* The fields of a new request (request).
LEMMA RequestType ==
  ASSUME Types, NEW kind \in {"load", "create", "update", "archive", "activate"}, NEW n \in Nat,
         NEW id \in Products!Ids \cup {None}, NEW text \in ProductTexts \cup {None},
         NEW image \in Files \cup {None}
  PROVE  Products!Request(kind, n, id, text, image) \in Products!RequestRecord
<1>1. tab.wanted \in Files \cup {None} /\ tab.shown \in Seq(Products!Shown)
  BY DEF Types, Products!TabRecord
<1>2. askedSoFar + 1 \in Nat /\ <<>> \in Seq(Products!Shown)
  BY DEF Types
<1> QED BY <1>1, <1>2 DEF Products!Request, Products!RequestRecord

\* A page that is opened is fresh and asks for its products (useEffect).
LEMMA MountIs ==
  ASSUME Types, NEW at \in {"list", "new", "edit"}, NEW id \in Products!Ids \cup {None},
         NEW others \in SUBSET asked, Products!Mount(at, id, others)
  PROVE  /\ Fresh(at, id) /\ Asking(at, id, others)
         /\ asked' \subseteq Products!RequestRecord /\ askedSoFar' \in Nat
<1>0. tab.n \in Nat /\ tab.n + 1 \in Nat /\ askedSoFar \in Nat
  BY DEF Types, Products!TabRecord
<1>1. <<>> \in Seq(Products!Shown)
  OBVIOUS
<1>2. Fresh(at, id)
  <2>1. CASE at = "new"
    <3>1. tab' = [Products!Closed EXCEPT !.n = tab.n + 1, !.at = at]
      BY <2>1 DEF Products!Mount
    <3>2. tab' = FreshTab(at, None, FALSE)
      BY <3>1 DEF Products!Closed, FreshTab
    <3> QED BY <1>0, <1>1, <2>1, <3>2 DEF FreshTab, Fresh, Products!TabRecord
  <2>2. CASE at # "new"
    <3>1. tab' = [Products!Closed EXCEPT !.n = tab.n + 1, !.at = at, !.id = id, !.loading = TRUE]
      BY <2>2 DEF Products!Mount
    <3>2. tab' = FreshTab(at, id, TRUE)
      BY <3>1 DEF Products!Closed, FreshTab
    <3> QED BY <1>0, <1>1, <2>2, <3>2 DEF FreshTab, Fresh, Products!TabRecord
  <2> QED BY <2>1, <2>2
<1>3. Asking(at, id, others)
  BY DEF Products!Mount, Asking, FirstQuestion
<1>4. FirstQuestion(id) \in Products!RequestRecord
  BY <1>0, RequestType DEF FirstQuestion
<1>5. asked' \subseteq Products!RequestRecord /\ askedSoFar' \in Nat
  BY <1>0, <1>3, <1>4 DEF Asking, Types
<1> QED BY <1>2, <1>3, <1>5
\* What the server and the network leave of a request: the same one with its answer.
Told(r, s) ==
    /\ s \in Products!RequestRecord
    /\ s.kind = r.kind /\ s.n = r.n /\ s.product = r.product
    /\ s.text = r.text /\ s.image = r.image /\ s.wanted = r.wanted /\ s.waits = r.waits
    /\ s.answer \in {"ok", "refused"} /\ (r.kind # "load" => s.list = r.list)

\* It takes the place of the request, if anybody waits for it.
ReplacedBy(r, s) == asked' = (asked \ {r}) \cup IF r.waits THEN {s} ELSE {}

\* What is stored then.
Refusal(r, s) == s.answer = "refused" /\ r.kind # "load" /\ rows' = rows
ListSent(r, s) == r.kind = "load" /\ s.answer = "ok" /\ s.list = Products!Listing /\ rows' = rows
Created(r) ==
    /\ r.kind = "create" /\ Len(rows) < MaxProducts
    /\ rows' = Append(rows, [text |-> r.text, image |-> r.image, active |-> TRUE])
Updated(r) ==
    /\ r.kind = "update"
    /\ rows' = [rows EXCEPT ![r.product].text = r.text,
                            ![r.product].image = IF r.image = None THEN @ ELSE r.image]
Switched(r, s) ==
    /\ Products!Change(r) /\ s.answer = "ok"
    /\ rows' = [rows EXCEPT ![r.product].active = r.kind = "activate"]

\* One of these.
StoredFor(r, s) ==
    Refusal(r, s) \/ ListSent(r, s) \/ Created(r) \/ Updated(r) \/ Switched(r, s)

\* The rows are rows after every request (createProduct, updateProduct, setProductActive).
LEMMA RowsStep ==
  ASSUME RowsOK, NEW r \in Products!RequestRecord, Products!RequestFits(r), NEW s, StoredFor(r, s)
  PROVE  RowsOK'
<1>0. RowsOK' <=> rows' \in Seq(Products!Row) /\ Len(rows') <= MaxProducts
  BY DEF RowsOK
<1> DEFINE n == Len(rows)
<1>1. n \in Nat /\ MaxProducts \in Nat /\ rows \in [1..n -> Products!Row] /\ n <= MaxProducts
  BY ShopAssumption DEF RowsOK, Products!ProductAssumption
<1>2. CASE rows' = rows
  BY <1>0, <1>2 DEF RowsOK
<1>3. r.text \in ProductTexts \cup {None} /\ r.image \in Files \cup {None}
  BY DEF Products!RequestRecord
<1>4. CASE Created(r)
  <2>1. r.text \in ProductTexts /\ r.image \in Files
    BY <1>3, <1>4 DEF Created, Products!RequestFits
  <2> DEFINE new == [text |-> r.text, image |-> r.image, active |-> TRUE]
  <2>2. new \in Products!Row
    BY <2>1 DEF Products!Row
  <2>3. rows' = Append(rows, new) /\ n < MaxProducts
    BY <1>4 DEF Created
  <2> HIDE DEF new
  <2> QED BY <1>0, <1>1, <2>2, <2>3 DEF RowsOK
<1>5. CASE Updated(r)
  <2>1. r.text \in ProductTexts
    BY <1>3, <1>5 DEF Updated, Products!RequestFits
  <2> DEFINE image(x) == IF r.image = None THEN x ELSE r.image
             new(x) == [x EXCEPT !.text = r.text, !.image = image(x.image)]
  <2>2. \A x \in Products!Row : new(x) \in Products!Row
    BY <1>3, <2>1 DEF Products!Row
  <2>3. \A p \in 1..n : rows'[p] = IF p = r.product THEN new(rows[p]) ELSE rows[p]
    BY <1>1, <1>5 DEF Updated, Products!Row
  <2>4. DOMAIN rows' = 1..n /\ rows' = [p \in 1..n |-> rows'[p]]
    BY <1>1, <1>5 DEF Updated
  <2> HIDE DEF new
  <2>5. rows' \in [1..n -> Products!Row]
    BY <1>1, <2>2, <2>3, <2>4
  <2> QED BY <1>0, <1>1, <2>5
<1>6. CASE Switched(r, s)
  <2> DEFINE new(x) == [x EXCEPT !.active = r.kind = "activate"]
  <2>1. \A x \in Products!Row : new(x) \in Products!Row
    BY DEF Products!Row
  <2>2. rows' = [rows EXCEPT ![r.product] = new(rows[r.product])]
    BY <1>6 DEF Switched
  <2> HIDE DEF new
  <2>3. rows' \in [1..n -> Products!Row]
    BY <1>1, <2>1, <2>2
  <2> QED BY <1>0, <1>1, <2>3
<1> QED BY <1>2, <1>4, <1>5, <1>6 DEF StoredFor, Refusal, ListSent

\* What the server leaves alone.
Untouched == tab' = tab /\ askedSoFar' = askedSoFar /\ patient' = patient /\ lost' = lost

\* The server answers r by s.
ServedFor(r, s) ==
    Told(r, s) /\ ReplacedBy(r, s) /\ StoredFor(r, s) /\ Untouched /\ r.answer = "none"

\* A request that is served or refused is told so and changes what is stored.
LEMMA ServeIs ==
  ASSUME Types, NEW r \in asked, Products!RequestFits(r), Products!Serve(r) \/ Products!Refuse(r)
  PROVE  /\ Types'
         /\ \E s : ServedFor(r, s)
<1>0. r \in Products!RequestRecord
  BY DEF Types
<1>1. r.kind \in {"load", "create", "update", "archive", "activate"} /\ r.list \in Seq(Products!Shown)
  BY <1>0 DEF Products!RequestRecord
<1>2. Untouched /\ r.answer = "none" /\ visits' = visits /\ refused' \in 0..MaxRefusals
  <2>1. CASE Products!Serve(r)
    BY <2>1 DEF Products!Serve, Products!rest, Types, Untouched
  <2>2. CASE Products!Refuse(r)
    <3>1. MaxRefusals \in Nat
      BY ShopAssumption DEF Products!ProductAssumption
    <3> QED BY <2>2, <3>1 DEF Products!Refuse, Types, Untouched
  <2> QED BY <2>1, <2>2
<1> DEFINE ok == [r EXCEPT !.answer = "ok"]
           no == [r EXCEPT !.answer = "refused"]
           listed == [r EXCEPT !.answer = "ok", !.list = Products!Listing]
<1>3. \E s : Told(r, s) /\ ReplacedBy(r, s) /\ StoredFor(r, s)
  <2>1. Told(r, ok) /\ ok.answer = "ok"
    BY <1>0 DEF Told, Products!RequestRecord
  <2>2. Told(r, no) /\ no.answer = "refused"
    BY <1>0 DEF Told, Products!RequestRecord
  <2>3. r.kind = "load" => /\ Told(r, listed) /\ listed.answer = "ok"
                             /\ listed.list = Products!Listing
    <3>1. Products!Listing \in Seq(Products!Shown)
      BY ListingIs DEF Types
    <3> HIDE DEF Products!Listing
    <3> QED BY <1>0, <3>1 DEF Told, Products!RequestRecord
  <2>4. ASSUME NEW s, Products!Answer(r, s) PROVE ReplacedBy(r, s)
    BY <2>4 DEF Products!Answer, ReplacedBy
  <2> HIDE DEF ok, no, listed
  <2>5. CASE Products!Refuse(r)
    <3>1. Products!Answer(r, no) /\ Refusal(r, no)
      BY <2>2, <2>5 DEF Products!Refuse, Refusal, no
    <3> QED BY <2>2, <2>4, <3>1 DEF StoredFor
  <2>6. CASE Products!Serve(r)
    <3>1. CASE r.kind = "load"
      <4>1. Products!Answer(r, listed) /\ rows' = rows
        BY <2>6, <3>1 DEF Products!Serve, listed
      <4> QED BY <2>3, <2>4, <3>1, <4>1 DEF StoredFor, ListSent
    <3>2. CASE Products!Save(r) /\ ~Products!NameFree(r)
      <4>1. Products!Answer(r, no) /\ Refusal(r, no)
        BY <2>2, <2>6, <3>2 DEF Products!Serve, Products!Save, Refusal, no
      <4> QED BY <2>2, <2>4, <4>1 DEF StoredFor
    <3>3. CASE r.kind = "create" /\ Products!NameFree(r)
      <4>1. Products!Answer(r, ok) /\ Created(r)
        BY <2>6, <3>3 DEF Products!Serve, Created, ok
      <4> QED BY <2>1, <2>4, <4>1 DEF StoredFor
    <3>4. CASE r.kind = "update" /\ Products!NameFree(r)
      <4>1. Products!Answer(r, ok) /\ Updated(r)
        BY <2>6, <3>4 DEF Products!Serve, Updated, ok
      <4> QED BY <2>1, <2>4, <4>1 DEF StoredFor
    <3>5. CASE Products!Change(r)
      <4>1. Products!Answer(r, ok) /\ Switched(r, ok)
        BY <2>1, <2>6, <3>5 DEF Products!Serve, Products!Change, Switched, ok
      <4> QED BY <2>1, <2>4, <4>1 DEF StoredFor
    <3> QED BY <1>1, <3>1, <3>2, <3>3, <3>4, <3>5 DEF Products!Save, Products!Change
  <2> QED BY <2>5, <2>6
<1>4. PICK s : Told(r, s) /\ ReplacedBy(r, s) /\ StoredFor(r, s)
  BY <1>3
<1>5. RowsOK'
  BY <1>0, <1>4, RowsStep DEF Types
<1>6. asked' \subseteq Products!RequestRecord
  BY <1>4 DEF ReplacedBy, Told, Types
<1> QED BY <1>2, <1>4, <1>5, <1>6 DEF Types, Untouched, ServedFor
\* What a page keeps when an answer comes.
PageSame == tab'.n = tab.n /\ tab'.at = tab.at /\ tab'.id = tab.id
EditorSame ==
    /\ tab'.source = tab.source /\ tab'.area = tab.area /\ tab'.working = tab.working
    /\ tab'.image = tab.image /\ tab'.wanted = tab.wanted

\* A page that is told of a failure, a list, its product, a change.
FailureShown(r) ==
    /\ tab'.error /\ tab'.shown = tab.shown
    /\ tab'.loading = (tab.loading /\ r.kind # "load")
    /\ tab'.pending = (tab.pending /\ ~Products!Save(r))

\* The list is shown as it was loaded.
ListShown(r) ==
    /\ r.answer = "ok" /\ r.kind = "load" /\ tab.at = "list"
    /\ tab'.shown = r.list /\ ~tab'.loading /\ tab'.pending = tab.pending

\* A form shows its product, or that there is none.
ProductShown(r) ==
    /\ r.answer = "ok" /\ r.kind = "load" /\ tab.at # "list"
    /\ tab'.shown = tab.shown /\ ~tab'.loading /\ tab'.pending = tab.pending

\* The list is shown with the change.
ChangeShown(r) ==
    /\ r.answer = "ok" /\ Products!Change(r)
    /\ tab'.shown = Products!Sorted(Retold(tab.shown, r))
    /\ tab'.loading = tab.loading /\ tab'.error = tab.error /\ tab'.pending = tab.pending

\* A page that is told of no failure by the connection.
Success(r) == ListShown(r) \/ ProductShown(r) \/ ChangeShown(r)

\* What a page does with an answer.
Heard(r) ==
    /\ tab' \in Products!TabRecord /\ PageSame /\ EditorSame
    /\ FailureShown(r) \/ Success(r)

\* A failure changes the page just so (request's catch).
LEMMA FailedIs ==
  ASSUME Types, NEW r \in asked, tab' = Products!Failed(r)
  PROVE  Heard(r) /\ FailureShown(r)
<1>1. r.kind \in {"load", "create", "update", "archive", "activate"}
  BY DEF Types, Products!RequestRecord
<1>2. tab \in Products!TabRecord
  BY DEF Types
<1>3. CASE r.kind = "load"
  <2>1. tab' = [tab EXCEPT !.error = TRUE, !.loading = FALSE]
    BY <1>3 DEF Products!Failed, Products!LoadingAfter
  <2>2. tab' \in Products!TabRecord /\ PageSame /\ EditorSame
    BY ZenonT(60), <1>2, <2>1 DEF PageSame, EditorSame, Products!TabRecord
  <2>3. /\ tab'.error = TRUE /\ tab'.shown = tab.shown
        /\ tab'.loading = FALSE /\ tab'.pending = tab.pending
    BY <1>2, <2>1 DEF Products!TabRecord
  <2>4. tab.loading \in BOOLEAN /\ tab.pending \in BOOLEAN
    BY <1>2 DEF Products!TabRecord
  <2>5. FailureShown(r)
    BY <1>3, <2>3, <2>4 DEF FailureShown, Products!Change, Products!Save
  <2> QED BY <2>2, <2>5 DEF Heard
<1>4. CASE Products!Change(r)
  <2>1. tab' = [tab EXCEPT !.error = TRUE, !.changing = None]
    BY <1>4 DEF Products!Failed, Products!Change
  <2>2. tab' \in Products!TabRecord /\ PageSame /\ EditorSame
    BY ZenonT(60), <1>2, <2>1 DEF PageSame, EditorSame, Products!TabRecord
  <2>3. /\ tab'.error = TRUE /\ tab'.shown = tab.shown
        /\ tab'.loading = tab.loading /\ tab'.pending = tab.pending
    BY <1>2, <2>1 DEF Products!TabRecord
  <2>4. tab.loading \in BOOLEAN /\ tab.pending \in BOOLEAN
    BY <1>2 DEF Products!TabRecord
  <2>5. FailureShown(r)
    BY <1>4, <2>3, <2>4 DEF FailureShown, Products!Change, Products!Save
  <2> QED BY <2>2, <2>5 DEF Heard
<1>5. CASE Products!Save(r)
  <2>1. tab' = [tab EXCEPT !.error = TRUE, !.pending = FALSE]
    BY <1>5 DEF Products!Failed, Products!PendingAfter, Products!Save
  <2>2. tab' \in Products!TabRecord /\ PageSame /\ EditorSame
    BY ZenonT(60), <1>2, <2>1 DEF PageSame, EditorSame, Products!TabRecord
  <2>3. /\ tab'.error = TRUE /\ tab'.shown = tab.shown
        /\ tab'.loading = tab.loading /\ tab'.pending = FALSE
    BY <1>2, <2>1 DEF Products!TabRecord
  <2>4. tab.loading \in BOOLEAN /\ tab.pending \in BOOLEAN
    BY <1>2 DEF Products!TabRecord
  <2>5. FailureShown(r)
    BY <1>5, <2>3, <2>4 DEF FailureShown, Products!Change, Products!Save
  <2> QED BY <2>2, <2>5 DEF Heard
<1> QED BY <1>1, <1>3, <1>4, <1>5 DEF Products!Change, Products!Save

\* What is loaded changes the page just so (loadProducts, ProductFormPage).
LEMMA LoadedIs ==
  ASSUME Types, NEW r \in asked, r.kind = "load", r.answer = "ok", tab' = Products!Loaded(r)
  PROVE  Heard(r) /\ Success(r)
<1>1. tab \in Products!TabRecord /\ r.list \in Seq(Products!Shown)
  BY DEF Types, Products!RequestRecord
<1>2. CASE tab.at = "list"
  <2>1. tab' = [tab EXCEPT !.shown = r.list, !.loading = FALSE]
    BY <1>2 DEF Products!Loaded, Products!LoadingAfter
  <2> QED
    BY ZenonT(60), <1>1, <1>2, <2>1 DEF Heard, Success, ListShown, PageSame, EditorSame, Products!TabRecord
<1>3. CASE tab.at # "list"
  <2> DEFINE mine == {p \in Products!Range(r.list) : p.id = tab.id}
             one == CHOOSE p \in mine : TRUE
  <2>1. CASE mine = {}
    <3>1. tab' = [tab EXCEPT !.error = TRUE, !.loading = FALSE]
      BY <1>3, <2>1 DEF Products!Loaded, Products!LoadingAfter
    <3> QED
      BY ZenonT(60), <1>1, <1>3, <3>1 DEF Heard, Success, ProductShown, PageSame, EditorSame, Products!TabRecord
  <2>2. CASE mine # {}
    <3>1. tab' = [tab EXCEPT !.found = TRUE, !.text = one.text, !.loading = FALSE]
      BY <1>3, <2>2 DEF Products!Loaded, Products!LoadingAfter
    <3>2. one \in Products!Range(r.list)
      BY <2>2
    <3>3. one.text \in ProductTexts
      <4>1. \A i \in DOMAIN r.list : r.list[i] \in Products!Shown
        BY <1>1
      <4> QED BY <3>2, <4>1 DEF Products!Range, Products!Shown
    <3> HIDE DEF one
    <3> QED
      BY ZenonT(60), <1>1, <1>3, <3>1, <3>3 DEF Heard, Success, ProductShown, PageSame, EditorSame, Products!TabRecord
  <2> QED BY <2>1, <2>2
<1> QED BY <1>2, <1>3

\* The list with a change as it is told (changeActive).
LEMMA RetoldIs ==
  ASSUME Types, Products!Unrepeated(tab.shown), NEW r
  PROVE  /\ Products!WithChanged(r) = Products!Sorted(Retold(tab.shown, r))
         /\ Products!Sorted(Retold(tab.shown, r)) \in Seq(Products!Shown)
         /\ Products!Unrepeated(Products!Sorted(Retold(tab.shown, r)))
<1>1. tab.shown \in Seq(Products!Shown)
  BY DEF Types, Products!TabRecord
<1>2. Products!WithChanged(r) = Products!Sorted(Retold(tab.shown, r))
  BY DEF Products!WithChanged, Products!AsShown, Retold
<1> QED BY <1>1, <1>2, RetoldCatalogue, SortedList, SortedUnrepeated

\* A saved form goes to the list; what else is answered is heard by the page that asked.
Returned(r) ==
    /\ Products!Save(r) /\ r.answer = "ok"
    /\ Fresh("list", None) /\ Asking("list", None, asked \ {r})

\* An answer that nobody waits for changes nothing.
TurnedTo(r) ==
    /\ asked' = asked \ {r} /\ askedSoFar' = askedSoFar
    /\ \/ tab' = tab /\ ~Products!Here(r)
       \/ Heard(r) /\ Products!Here(r) /\ (r.answer = "ok" => Success(r))

\* What receiving an answer does.
ReceivedFrom(r) ==
    /\ Returned(r) \/ TurnedTo(r)
    /\ r.answer # "none" /\ rows' = rows /\ patient' = patient /\ lost' = lost

\* Receiving an answer is one of these and keeps the types (request, submit).
LEMMA ReceiveIs ==
  ASSUME Types, Products!Unrepeated(tab.shown), NEW r \in asked, Products!Receive(r)
  PROVE  Types' /\ ReceivedFrom(r)
<1>1. /\ r.answer # "none" /\ rows' = rows /\ patient' = patient /\ lost' = lost
      /\ refused' = refused /\ visits' = visits
  BY DEF Products!Receive, Products!rest
<1>2. CASE Products!Save(r) /\ r.answer = "ok"
  <2>1. Products!Mount("list", None, asked \ {r})
    BY <1>2 DEF Products!Receive, Products!Save
  <2>2. /\ Fresh("list", None) /\ Asking("list", None, asked \ {r})
        /\ asked' \subseteq Products!RequestRecord /\ askedSoFar' \in Nat
    BY <2>1, MountIs
  <2>3. tab' \in Products!TabRecord
    BY <2>2 DEF Fresh
  <2> QED BY <1>1, <1>2, <2>2, <2>3 DEF Types, RowsOK, ReceivedFrom, Returned
<1>3. CASE ~(Products!Save(r) /\ r.answer = "ok")
  <2>1. asked' = asked \ {r} /\ askedSoFar' = askedSoFar
    BY <1>3 DEF Products!Receive, Products!Save
  <2>2. \/ tab' = tab /\ ~Products!Here(r)
        \/ Heard(r) /\ Products!Here(r) /\ (r.answer = "ok" => Success(r))
    <3>1. CASE ~Products!Here(r)
      <4>1. tab' = tab
        BY <1>3, <3>1 DEF Products!Receive, Products!Save
      <4> QED BY <3>1, <4>1
    <3>2. CASE Products!Here(r) /\ r.answer # "ok"
      <4>1. tab' = Products!Failed(r)
        BY <1>3, <3>2 DEF Products!Receive, Products!Save
      <4> QED BY <3>2, <4>1, FailedIs
    <3>3. CASE Products!Here(r) /\ r.answer = "ok" /\ r.kind = "load"
      <4>1. tab' = Products!Loaded(r)
        BY <1>3, <3>3 DEF Products!Receive, Products!Save
      <4> QED BY <3>3, <4>1, LoadedIs
    <3>4. CASE Products!Here(r) /\ r.answer = "ok" /\ r.kind # "load"
      <4>1. tab' = [tab EXCEPT !.shown = Products!WithChanged(r), !.changing = None]
        BY <1>3, <3>4 DEF Products!Receive, Products!Save
      <4>2. r.kind \in {"load", "create", "update", "archive", "activate"}
        BY DEF Types, Products!RequestRecord
      <4>3. Products!Change(r)
        BY <1>3, <3>4, <4>2 DEF Products!Change, Products!Save
      <4> DEFINE told == Products!Sorted(Retold(tab.shown, r))
      <4>4. told \in Seq(Products!Shown) /\ tab' = [tab EXCEPT !.shown = told, !.changing = None]
        BY <4>1, RetoldIs
      <4>5. tab \in Products!TabRecord
        BY DEF Types
      <4>6. told = Products!Sorted(Retold(tab.shown, r))
        OBVIOUS
      <4> HIDE DEF told
      <4>7. tab' \in Products!TabRecord /\ PageSame /\ EditorSame
        BY <4>4, <4>5 DEF Products!TabRecord, PageSame, EditorSame
      <4>8. /\ tab'.shown = told /\ tab'.loading = tab.loading
            /\ tab'.error = tab.error /\ tab'.pending = tab.pending
        BY <4>4, <4>5 DEF Products!TabRecord
      <4> QED BY <3>4, <4>3, <4>6, <4>7, <4>8 DEF Heard, Success, ChangeShown
    <3> QED BY <3>1, <3>2, <3>3, <3>4
  <2>3. tab' \in Products!TabRecord
    BY <2>2 DEF Types, Heard
  <2> QED BY <1>1, <2>1, <2>2, <2>3 DEF Types, RowsOK, ReceivedFrom, TurnedTo
<1> QED BY <1>2, <1>3

\* A request that is lost still arrives, or has arrived; its page hears of the failure.
Dropped(r) ==
    /\ r.waits /\ lost' # 0 /\ rows' = rows /\ patient' = patient /\ askedSoFar' = askedSoFar
    /\ \/ asked' = asked \ {r}
       \/ \E s \in Products!RequestRecord :
             /\ asked' = (asked \ {r}) \cup {s} /\ ~s.waits
             /\ s.kind = r.kind /\ s.n = r.n /\ s.product = r.product /\ s.text = r.text
             /\ s.image = r.image /\ s.wanted = r.wanted /\ s.list = r.list
    /\ \/ tab' = tab /\ ~Products!Here(r)
       \/ Heard(r) /\ FailureShown(r) /\ Products!Here(r)

\* Losing a connection is just this and keeps the types.
LEMMA LoseIs ==
  ASSUME Types, NEW r \in asked, Products!Lose(r)
  PROVE  Types' /\ Dropped(r)
<1>1. /\ r.waits /\ lost < MaxLosses /\ lost' = lost + 1
      /\ patient' = patient /\ rows' = rows /\ askedSoFar' = askedSoFar
      /\ refused' = refused /\ visits' = visits
  BY DEF Products!Lose
<1>2. lost' \in 0..MaxLosses /\ lost' # 0
  BY <1>1, ShopAssumption DEF Types, Products!ProductAssumption
<1>3. r \in Products!RequestRecord
  BY DEF Types
<1> DEFINE s == [r EXCEPT !.waits = FALSE]
<1>4. /\ s \in Products!RequestRecord /\ ~s.waits
      /\ s.kind = r.kind /\ s.n = r.n /\ s.product = r.product /\ s.text = r.text
      /\ s.image = r.image /\ s.wanted = r.wanted /\ s.list = r.list
  BY <1>3 DEF Products!RequestRecord
<1>5. asked' = asked \ {r} \/ asked' = (asked \ {r}) \cup {s}
  BY DEF Products!Lose
<1> HIDE DEF s
<1>6. \/ tab' = tab /\ ~Products!Here(r)
      \/ Heard(r) /\ FailureShown(r) /\ Products!Here(r)
  <2>1. CASE Products!Here(r)
    <3>1. tab' = Products!Failed(r)
      BY <2>1 DEF Products!Lose
    <3> QED BY <2>1, <3>1, FailedIs
  <2>2. CASE ~Products!Here(r)
    BY <2>2 DEF Products!Lose
  <2> QED BY <2>1, <2>2
<1>7. tab' \in Products!TabRecord
  BY <1>6 DEF Types, Heard
<1>8. asked' \subseteq Products!RequestRecord
  BY <1>4, <1>5 DEF Types
<1> QED BY <1>1, <1>2, <1>4, <1>5, <1>6, <1>7, <1>8 DEF Types, RowsOK, Dropped
\* What stays when the operator works on a page.
Standing == rows' = rows /\ patient' = patient /\ lost' = lost

\* A page is opened (a link, the history).
Opened(at, id) ==
    /\ Standing /\ Fresh(at, id) /\ Asking(at, id, asked)
    /\ patient => Products!Changes = {} /\ ~tab.pending

\* Opening a page is just this and keeps the types.
LEMMA OpenIs ==
  ASSUME Types, NEW at \in {"list", "new", "edit"}, NEW id \in Products!Ids \cup {None},
         Products!Open(at, id)
  PROVE  Types' /\ Opened(at, id)
<1>1. /\ Products!Mount(at, id, asked) /\ Standing /\ refused' = refused
      /\ visits < MaxVisits /\ visits' = visits + 1
      /\ patient => Products!Changes = {} /\ ~tab.pending
  BY DEF Products!Open, Standing
<1>2. /\ Fresh(at, id) /\ Asking(at, id, asked)
      /\ asked' \subseteq Products!RequestRecord /\ askedSoFar' \in Nat
  BY <1>1, MountIs
<1>3. visits' \in 0..MaxVisits
  BY <1>1, ShopAssumption DEF Types, Products!ProductAssumption
<1>4. tab' \in Products!TabRecord
  BY <1>2 DEF Fresh
<1> QED BY <1>1, <1>2, <1>3, <1>4 DEF Types, RowsOK, Standing, Opened

\* A button of the page sends a request.
Posted(kind, id, text, image) ==
    /\ Standing /\ askedSoFar' = askedSoFar + 1
    /\ asked' = asked \cup {Products!Request(kind, tab.n, id, text, image)}

\* Sending a request is just this and keeps the types.
LEMMA AskIs ==
  ASSUME Types, NEW kind \in {"load", "create", "update", "archive", "activate"},
         NEW id \in Products!Ids \cup {None}, NEW text \in ProductTexts \cup {None},
         NEW image \in Files \cup {None}, Products!Ask(kind, id, text, image),
         tab' \in Products!TabRecord
  PROVE  Types' /\ Posted(kind, id, text, image)
<1>1. /\ Posted(kind, id, text, image) /\ refused' = refused /\ visits' = visits
  BY DEF Products!Ask, Products!rest, Standing, Posted
<1>2. tab.n \in Nat /\ askedSoFar + 1 \in Nat
  BY DEF Types, Products!TabRecord
<1>3. asked' \subseteq Products!RequestRecord
  BY <1>1, <1>2, RequestType DEF Posted, Types
<1> QED BY <1>1, <1>2, <1>3 DEF Types, RowsOK, Standing, Posted

\* The list is loaded again, a product archived or restored, the form sent.
Retried ==
    /\ tab.at = "list" /\ tab.error /\ (patient => Products!Changes = {})
    /\ PageSame /\ EditorSame /\ tab'.shown = tab.shown /\ tab'.pending = tab.pending
    /\ tab'.loading /\ ~tab'.error
    /\ Posted("load", None, None, None)

\* A product of the list is archived or restored.
ChangeAsked(p) ==
    /\ tab.at = "list" /\ p \in Products!Shown
    /\ patient => ~tab.loading /\ \A r \in Products!Changes : r.product # p.id
    /\ PageSame /\ EditorSame /\ tab'.shown = tab.shown /\ tab'.pending = tab.pending
    /\ tab'.loading = tab.loading /\ ~tab'.error
    /\ Posted(IF p.active THEN "archive" ELSE "activate", p.id, None, None)

\* The form is sent.
Submitted ==
    /\ Products!Form /\ Products!SubmitAllowed
    /\ PageSame /\ EditorSame /\ tab'.shown = tab.shown /\ tab'.loading = tab.loading
    /\ tab'.pending
    /\ Posted(IF tab.at = "new" THEN "create" ELSE "update", tab.id, tab.text, tab.image)

\* The button of the error message does just this (loadProducts).
LEMMA RetryIs == ASSUME Types, Products!Retry PROVE Types' /\ Retried
<1>1. /\ tab.at = "list" /\ tab.error /\ (patient => Products!Changes = {})
      /\ tab' = [tab EXCEPT !.loading = TRUE, !.error = FALSE]
      /\ Products!Ask("load", None, None, None)
  BY DEF Products!Retry
<1>2. tab' \in Products!TabRecord /\ PageSame /\ EditorSame
  BY <1>1 DEF Types, Products!TabRecord, PageSame, EditorSame
<1>3. tab'.shown = tab.shown /\ tab'.pending = tab.pending /\ tab'.loading /\ ~tab'.error
  BY <1>1 DEF Types, Products!TabRecord
<1> QED BY <1>1, <1>2, <1>3, AskIs DEF Retried

\* The button of a product does just this (changeActive).
LEMMA ChangeIs ==
  ASSUME Types, NEW p \in Products!Range(tab.shown), Products!ChangeActive(p)
  PROVE  Types' /\ ChangeAsked(p)
<1>1. /\ tab.at = "list"
      /\ patient => ~tab.loading /\ \A r \in Products!Changes : r.product # p.id
      /\ tab' = [tab EXCEPT !.changing = p.id, !.error = FALSE]
      /\ Products!Ask(IF p.active THEN "archive" ELSE "activate", p.id, None, None)
  BY DEF Products!ChangeActive
<1>2. p \in Products!Shown /\ p.id \in Products!Ids
  <2>1. tab.shown \in Seq(Products!Shown)
    BY DEF Types, Products!TabRecord
  <2>2. \A i \in DOMAIN tab.shown : tab.shown[i] \in Products!Shown
    BY <2>1
  <2>3. p \in Products!Shown
    BY <2>2 DEF Products!Range
  <2> QED BY <2>3 DEF Products!Shown
<1>3. tab' \in Products!TabRecord /\ PageSame /\ EditorSame
  BY <1>1, <1>2 DEF Types, Products!TabRecord, PageSame, EditorSame
<1>4. /\ tab'.shown = tab.shown /\ tab'.pending = tab.pending
      /\ tab'.loading = tab.loading /\ ~tab'.error
  BY <1>1 DEF Types, Products!TabRecord
<1>5. /\ Types'
      /\ Posted(IF p.active THEN "archive" ELSE "activate", p.id, None, None)
  BY <1>1, <1>2, <1>3, AskIs
<1> QED BY <1>1, <1>2, <1>3, <1>4, <1>5 DEF ChangeAsked

\* The button of the form does just this (submit).
LEMMA SubmitIs == ASSUME Types, Products!Submit PROVE Types' /\ Submitted
<1>1. /\ Products!Form /\ Products!SubmitAllowed
      /\ tab' = [tab EXCEPT !.pending = TRUE, !.error = FALSE]
      /\ Products!Ask(IF tab.at = "new" THEN "create" ELSE "update", tab.id, tab.text, tab.image)
  BY DEF Products!Submit
<1>2. tab.id \in Products!Ids \cup {None} /\ tab.text \in ProductTexts \cup {None}
      /\ tab.image \in Files \cup {None}
  BY DEF Types, Products!TabRecord
<1>3. tab' \in Products!TabRecord /\ PageSame /\ EditorSame
  BY <1>1 DEF Types, Products!TabRecord, PageSame, EditorSame
<1>4. tab'.shown = tab.shown /\ tab'.loading = tab.loading /\ tab'.pending
  BY <1>1 DEF Types, Products!TabRecord
<1>5. /\ Types'
      /\ Posted(IF tab.at = "new" THEN "create" ELSE "update", tab.id, tab.text, tab.image)
  BY <1>1, <1>2, <1>3, AskIs
<1> QED BY <1>1, <1>3, <1>4, <1>5 DEF Submitted

\* A crop at work is that of the file in the editor.
Cropping == tab.working # None => tab.source = tab.working /\ tab.area

\* The steps of a form that send nothing.
Edit ==
    \/ \E text \in ProductTexts : Products!EditText(text)
    \/ \E file \in Files : Products!Choose(file)
    \/ Products!Position \/ Products!FinishCrop \/ Products!CancelCrop \/ Products!KeepCurrent
    \/ Products!Cropped(TRUE) \/ Products!Cropped(FALSE)

\* They change the text and the editor, which go on to fit.
Edited ==
    /\ Standing /\ asked' = asked /\ askedSoFar' = askedSoFar
    /\ tab.at # "list" /\ PageSame
    /\ tab'.shown = tab.shown /\ tab'.loading = tab.loading /\ tab'.pending = tab.pending
    /\ Cropping /\ Products!EditorFits => Cropping' /\ Products!EditorFits'

\* A page that differs from another one in what the editor shows only.
EditedFrom(s, r) ==
    /\ s.n = r.n /\ s.at = r.at /\ s.id = r.id
    /\ s.shown = r.shown /\ s.loading = r.loading /\ s.pending = r.pending

\* Each field of the editor can be changed alone.
LEMMA OneEdit ==
  ASSUME NEW r \in Products!TabRecord, NEW v \in Files \cup {None}, NEW area \in BOOLEAN
  PROVE  /\ [r EXCEPT !.image = v] \in Products!TabRecord /\ EditedFrom([r EXCEPT !.image = v], r)
         /\ [r EXCEPT !.source = v] \in Products!TabRecord /\ EditedFrom([r EXCEPT !.source = v], r)
         /\ [r EXCEPT !.area = area] \in Products!TabRecord /\ EditedFrom([r EXCEPT !.area = area], r)
         /\ [r EXCEPT !.working = v] \in Products!TabRecord /\ EditedFrom([r EXCEPT !.working = v], r)
         /\ [r EXCEPT !.wanted = v] \in Products!TabRecord /\ EditedFrom([r EXCEPT !.wanted = v], r)
<1>1. [r EXCEPT !.image = v] \in Products!TabRecord /\ EditedFrom([r EXCEPT !.image = v], r)
  BY DEF EditedFrom, Products!TabRecord
<1>2. [r EXCEPT !.source = v] \in Products!TabRecord /\ EditedFrom([r EXCEPT !.source = v], r)
  BY DEF EditedFrom, Products!TabRecord
<1>3. [r EXCEPT !.area = area] \in Products!TabRecord /\ EditedFrom([r EXCEPT !.area = area], r)
  BY DEF EditedFrom, Products!TabRecord
<1>4. [r EXCEPT !.working = v] \in Products!TabRecord /\ EditedFrom([r EXCEPT !.working = v], r)
  BY DEF EditedFrom, Products!TabRecord
<1>5. [r EXCEPT !.wanted = v] \in Products!TabRecord /\ EditedFrom([r EXCEPT !.wanted = v], r)
  BY DEF EditedFrom, Products!TabRecord
<1> QED BY <1>1, <1>2, <1>3, <1>4, <1>5

\* Working on a form does just this (ImageEditor).
LEMMA EditIs == ASSUME Types, Edit PROVE Types' /\ Edited
<1>a. tab \in Products!TabRecord /\ None \notin Files
  BY ShopAssumption DEF Types, Products!ProductAssumption
<1>b. /\ tab.source \in Files \cup {None} /\ tab.image \in Files \cup {None}
      /\ tab.working \in Files \cup {None}
  BY <1>a DEF Products!TabRecord
<1>0. /\ tab \in Products!TabRecord /\ None \notin Files
      /\ tab.source \in Files \cup {None} /\ tab.image \in Files \cup {None}
      /\ tab.working \in Files \cup {None} /\ None \in Files \cup {None}
  BY <1>a, <1>b
<1>1. /\ Standing /\ asked' = asked /\ askedSoFar' = askedSoFar /\ tab.at # "list"
      /\ refused' = refused /\ visits' = visits
  BY DEF Edit, Standing, Products!Form, Products!EditText, Products!Choose, Products!Position,
         Products!FinishCrop, Products!CancelCrop, Products!KeepCurrent, Products!Cropped,
         Products!rest
<1> DEFINE Kept ==
             /\ tab' \in Products!TabRecord /\ PageSame
             /\ tab'.shown = tab.shown /\ tab'.loading = tab.loading /\ tab'.pending = tab.pending
           Fit == Cropping /\ Products!EditorFits => Cropping' /\ Products!EditorFits'
<1>2. ASSUME NEW text \in ProductTexts, Products!EditText(text) PROVE Kept /\ Fit
  <2>1. tab' = [tab EXCEPT !.text = text]
    BY <1>2 DEF Products!EditText
  <2>2. Kept
    BY <1>0, <2>1 DEF Products!TabRecord, PageSame
  <2>3. /\ tab'.source = tab.source /\ tab'.area = tab.area /\ tab'.working = tab.working
        /\ tab'.image = tab.image /\ tab'.wanted = tab.wanted
    BY <1>0, <2>1 DEF Products!TabRecord
  <2>4. Fit
    BY <1>0, <2>1, <2>3 DEF Cropping, Products!EditorFits
  <2> QED BY <2>2, <2>4
<1>3. ASSUME NEW file \in Files, Products!Choose(file) PROVE Kept /\ Fit
  <2>1. tab' = [tab EXCEPT !.source = file, !.area = FALSE] /\ tab.source = None
    BY <1>3 DEF Products!Choose
  <2>2. Kept
    <3>1. PICK first : first = [tab EXCEPT !.source = file]
      OBVIOUS
    <3>2. first \in Products!TabRecord /\ EditedFrom(first, tab)
      BY <1>0, <3>1, OneEdit
    <3>3. tab' = [first EXCEPT !.area = FALSE]
      BY <2>1, <3>1
    <3>4. tab' \in Products!TabRecord /\ EditedFrom(tab', first)
      BY <1>0, <3>2, <3>3, OneEdit
    <3> QED BY <3>2, <3>4 DEF EditedFrom, PageSame
  <2>3. /\ tab'.source = file /\ tab'.area = FALSE /\ tab'.working = tab.working
        /\ tab'.image = tab.image /\ tab'.wanted = tab.wanted
    BY <1>0, <2>1 DEF Products!TabRecord
  <2>4. Fit
    BY <1>0, <2>1, <2>3 DEF Cropping, Products!EditorFits
  <2> QED BY <2>2, <2>4
<1>4. ASSUME Products!Position PROVE Kept /\ Fit
  <2>1. tab' = [tab EXCEPT !.area = TRUE]
    BY <1>4 DEF Products!Position
  <2>2. Kept
    <3>1. tab' \in Products!TabRecord /\ EditedFrom(tab', tab)
      BY <1>0, <2>1, OneEdit
    <3> QED BY <3>1 DEF EditedFrom, PageSame
  <2>3. /\ tab'.source = tab.source /\ tab'.area = TRUE /\ tab'.working = tab.working
        /\ tab'.image = tab.image /\ tab'.wanted = tab.wanted
    BY <1>0, <2>1 DEF Products!TabRecord
  <2>4. Fit
    BY <1>0, <2>1, <2>3 DEF Cropping, Products!EditorFits
  <2> QED BY <2>2, <2>4
<1>5. ASSUME Products!FinishCrop PROVE Kept /\ Fit
  <2>1. tab' = [tab EXCEPT !.working = tab.source, !.wanted = tab.source]
        /\ tab.source # None /\ tab.area
    BY <1>5 DEF Products!FinishCrop
  <2>2. Kept
    <3>1. PICK first : first = [tab EXCEPT !.working = tab.source]
      OBVIOUS
    <3>2. first \in Products!TabRecord /\ EditedFrom(first, tab)
      BY <1>0, <3>1, OneEdit
    <3>3. tab' = [first EXCEPT !.wanted = tab.source]
      BY <2>1, <3>1
    <3>4. tab' \in Products!TabRecord /\ EditedFrom(tab', first)
      BY <1>0, <3>2, <3>3, OneEdit
    <3> QED BY <3>2, <3>4 DEF EditedFrom, PageSame
  <2>3. /\ tab'.source = tab.source /\ tab'.area = tab.area /\ tab'.working = tab.source
        /\ tab'.image = tab.image /\ tab'.wanted = tab.source
    BY <1>0, <2>1 DEF Products!TabRecord
  <2>4. Fit
    BY <1>0, <2>1, <2>3 DEF Cropping, Products!EditorFits
  <2> QED BY <2>2, <2>4
<1>6. ASSUME Products!CancelCrop PROVE Kept /\ Fit
  <2>1. tab' = [tab EXCEPT !.source = None, !.wanted = tab.image] /\ tab.working = None
    BY <1>6 DEF Products!CancelCrop, Products!CancelAllowed
  <2>2. Kept
    <3>1. PICK first : first = [tab EXCEPT !.source = None]
      OBVIOUS
    <3>2. first \in Products!TabRecord /\ EditedFrom(first, tab)
      BY <1>0, <3>1, OneEdit
    <3>3. tab' = [first EXCEPT !.wanted = tab.image]
      BY <2>1, <3>1
    <3>4. tab' \in Products!TabRecord /\ EditedFrom(tab', first)
      BY <1>0, <3>2, <3>3, OneEdit
    <3> QED BY <3>2, <3>4 DEF EditedFrom, PageSame
  <2>3. /\ tab'.source = None /\ tab'.area = tab.area /\ tab'.working = tab.working
        /\ tab'.image = tab.image /\ tab'.wanted = tab.image
    BY <1>0, <2>1 DEF Products!TabRecord
  <2>4. Fit
    BY <1>0, <2>1, <2>3 DEF Cropping, Products!EditorFits
  <2> QED BY <2>2, <2>4
<1>7. ASSUME Products!KeepCurrent PROVE Kept /\ Fit
  <2>1. tab' = [tab EXCEPT !.image = None, !.wanted = None] /\ tab.source = None
    BY <1>7 DEF Products!KeepCurrent
  <2>2. Kept
    <3>1. PICK first : first = [tab EXCEPT !.image = None]
      OBVIOUS
    <3>2. first \in Products!TabRecord /\ EditedFrom(first, tab)
      BY <1>0, <3>1, OneEdit
    <3>3. tab' = [first EXCEPT !.wanted = None]
      BY <2>1, <3>1
    <3>4. tab' \in Products!TabRecord /\ EditedFrom(tab', first)
      BY <1>0, <3>2, <3>3, OneEdit
    <3> QED BY <3>2, <3>4 DEF EditedFrom, PageSame
  <2>3. /\ tab'.source = tab.source /\ tab'.area = tab.area /\ tab'.working = tab.working
        /\ tab'.image = None /\ tab'.wanted = None
    BY <1>0, <2>1 DEF Products!TabRecord
  <2>4. Fit
    BY <1>0, <2>1, <2>3 DEF Cropping, Products!EditorFits
  <2> QED BY <2>2, <2>4
<1>8. ASSUME Products!Cropped(TRUE) PROVE Kept /\ Fit
  <2>1. tab' = [tab EXCEPT !.image = tab.working, !.source = None, !.working = None]
        /\ tab.working # None
    BY <1>8 DEF Products!Cropped, Products!WorkingAfter
  <2>2. Kept
    <3>1. PICK first : first = [tab EXCEPT !.image = tab.working]
      OBVIOUS
    <3>2. first \in Products!TabRecord /\ EditedFrom(first, tab)
      BY <1>0, <3>1, OneEdit
    <3>3. PICK second : second = [first EXCEPT !.source = None]
      OBVIOUS
    <3>4. second \in Products!TabRecord /\ EditedFrom(second, first)
      BY <1>0, <3>2, <3>3, OneEdit
    <3>5. tab' = [second EXCEPT !.working = None]
      BY <2>1, <3>1, <3>3
    <3>6. tab' \in Products!TabRecord /\ EditedFrom(tab', second)
      BY <1>0, <3>4, <3>5, OneEdit
    <3> QED BY <3>2, <3>4, <3>6 DEF EditedFrom, PageSame
  <2>3. /\ tab'.source = None /\ tab'.area = tab.area /\ tab'.working = None
        /\ tab'.image = tab.working /\ tab'.wanted = tab.wanted
    BY <1>0, <2>1 DEF Products!TabRecord
  <2>4. Fit
    BY <1>0, <2>1, <2>3 DEF Cropping, Products!EditorFits
  <2> QED BY <2>2, <2>4
<1>9. ASSUME Products!Cropped(FALSE) PROVE Kept /\ Fit
  <2>1. tab' = [tab EXCEPT !.working = None, !.wanted = tab.image] /\ tab.working # None
    BY <1>9 DEF Products!Cropped, Products!WorkingAfter
  <2>2. Kept
    <3>1. PICK first : first = [tab EXCEPT !.working = None]
      OBVIOUS
    <3>2. first \in Products!TabRecord /\ EditedFrom(first, tab)
      BY <1>0, <3>1, OneEdit
    <3>3. tab' = [first EXCEPT !.wanted = tab.image]
      BY <2>1, <3>1
    <3>4. tab' \in Products!TabRecord /\ EditedFrom(tab', first)
      BY <1>0, <3>2, <3>3, OneEdit
    <3> QED BY <3>2, <3>4 DEF EditedFrom, PageSame
  <2>3. /\ tab'.source = tab.source /\ tab'.area = tab.area /\ tab'.working = None
        /\ tab'.image = tab.image /\ tab'.wanted = tab.image
    BY <1>0, <2>1 DEF Products!TabRecord
  <2>4. Fit
    BY <1>0, <2>1, <2>3 DEF Cropping, Products!EditorFits
  <2> QED BY <2>2, <2>4
<1>10. Kept /\ Fit
  <2> HIDE DEF Kept, Fit
  <2> QED BY <1>2, <1>3, <1>4, <1>5, <1>6, <1>7, <1>8, <1>9 DEF Edit
<1> QED BY <1>1, <1>10 DEF Types, RowsOK, Standing, Edited
-----------------------------------------------------------------------------
(* The inductive invariant *)

\* A form that is pending waits for the answer to its save.
Saving == tab.pending => \E r \in asked : Products!Here(r) /\ Products!Save(r) /\ r.waits

\* Every request fits, and a form for an existing product knows which.
AllFit == \A r \in asked : Products!RequestFits(r)
FormHasId == tab.at = "edit" => tab.id # None

\* The parts of the invariant that need no operator who waits.
Sound ==
    /\ Types /\ Cropping /\ Saving /\ Products!EditorFits /\ Products!SentIsWanted
    /\ Products!Unrepeated(tab.shown) /\ AllFit /\ FormHasId

\* The type invariant is these parts.
LEMMA TypeIs == Products!TypeOK <=> Types /\ Cropping /\ Saving
BY DEF Products!TypeOK, Types, Cropping, Saving, RowsOK, Products!Save

\* What a step of the pages, the server or the network is.
OpenedStep == \E at \in {"list", "new", "edit"}, id \in Products!Ids \cup {None} :
    Opened(at, id) /\ (at = "edit" => id # None)
WorkStep == Retried \/ (\E p \in Products!Range(tab.shown) : ChangeAsked(p)) \/ Submitted
ServedStep == \E r \in asked : \E s : ServedFor(r, s)
ReceivedStep == \E r \in asked : ReceivedFrom(r)
DroppedStep == \E r \in asked : Dropped(r)

\* Every step is one of these and keeps the types.
LEMMA StepIs ==
  ASSUME Sound, Products!Next
  PROVE  /\ Types'
         /\ OpenedStep \/ WorkStep \/ Edited \/ ServedStep \/ ReceivedStep \/ DroppedStep
<1>0. Types /\ Products!Unrepeated(tab.shown) /\ \A r \in asked : Products!RequestFits(r)
  BY DEF Sound, AllFit
<1>1. None \notin Products!Ids /\ Products!Stored \subseteq Products!Ids
  BY <1>0, ShopAssumption
  DEF Products!ProductAssumption, Products!Ids, Products!Stored, Types, RowsOK
<1> DEFINE Goal ==
             /\ Types'
             /\ OpenedStep \/ WorkStep \/ Edited \/ ServedStep \/ ReceivedStep \/ DroppedStep
<1>2. ASSUME NEW at \in {"list", "new"}, Products!Open(at, None) PROVE Goal
  BY <1>0, <1>2, OpenIs DEF OpenedStep
<1>3. ASSUME NEW p \in Products!Stored, Products!Open("edit", p) PROVE Goal
  BY <1>0, <1>1, <1>3, OpenIs DEF OpenedStep
<1>4. ASSUME Products!Retry PROVE Goal
  BY <1>0, <1>4, RetryIs DEF WorkStep
<1>5. ASSUME NEW p \in Products!Range(tab.shown), Products!ChangeActive(p) PROVE Goal
  BY <1>0, <1>5, ChangeIs DEF WorkStep
<1>6. ASSUME Products!Submit PROVE Goal
  BY <1>0, <1>6, SubmitIs DEF WorkStep
<1>7. ASSUME Edit PROVE Goal
  BY <1>0, <1>7, EditIs
<1>8. ASSUME NEW r \in asked, Products!Serve(r) \/ Products!Refuse(r) PROVE Goal
  BY <1>0, <1>8, ServeIs DEF ServedStep
<1>9. ASSUME NEW r \in asked, Products!Receive(r) PROVE Goal
  BY <1>0, <1>9, ReceiveIs DEF ReceivedStep
<1>10. ASSUME NEW r \in asked, Products!Lose(r) PROVE Goal
  BY <1>0, <1>10, LoseIs DEF DroppedStep
<1> HIDE DEF Goal
<1>11. Goal
  BY <1>2, <1>3, <1>4, <1>5, <1>6, <1>7, <1>8, <1>9, <1>10
  DEF Products!Next, Products!Operate, Products!Proceed, Edit
<1> QED BY <1>11 DEF Goal

\* A request keeps what fits it, on a page that is no older.
LEMMA FitsLater ==
  ASSUME NEW q, NEW r, Products!RequestFits(r), tab.n \in Nat, tab'.n \in Nat, tab.n <= tab'.n,
         r.n \in Nat,
         q.kind = r.kind, q.n = r.n, q.product = r.product, q.text = r.text, q.image = r.image,
         Products!Unrepeated(q.list)
  PROVE  Products!RequestFits(q)'
BY DEF Products!RequestFits

\* No product is in the empty list.
LEMMA EmptyList == Products!Range(<<>>) = {} /\ Products!Unrepeated(<<>>)
BY DEF Products!Range, Products!Unrepeated

\* A new request fits the page that sends it.
LEMMA NewFits ==
  ASSUME NEW kind, NEW id, NEW text, NEW image, NEW n, n <= tab'.n,
         kind \in {"create", "update"} => text # None,
         kind = "create" => image # None,
         kind \in {"update", "archive", "activate"} => id # None,
         NEW q, q = Products!Request(kind, n, id, text, image)
  PROVE  Products!RequestFits(q)'
<1>1. /\ q.kind = kind /\ q.n = n /\ q.product = id /\ q.text = text /\ q.image = image
      /\ q.list = <<>>
  BY DEF Products!Request
<1>2. Products!Unrepeated(q.list)
  BY <1>1, EmptyList
<1> QED BY <1>1, <1>2 DEF Products!RequestFits

\* Pages are numbered upwards, and requests by the page that sent them.
LEMMA PageNumbers ==
  ASSUME Sound, Types'
  PROVE  tab.n \in Nat /\ tab'.n \in Nat /\ \A r \in asked : r.n \in Nat /\ r.n <= tab.n
BY DEF Sound, AllFit, Types, Products!TabRecord, Products!RequestRecord, Products!RequestFits

\* Opening a page keeps it all.
LEMMA MountSound ==
  ASSUME Sound, Types', NEW at \in {"list", "new", "edit"}, NEW id, at = "edit" => id # None,
         NEW others \in SUBSET asked, Fresh(at, id), Asking(at, id, others)
  PROVE  Sound'
<1>0. tab.n \in Nat /\ tab'.n = tab.n + 1 /\ \A r \in asked : r.n \in Nat /\ r.n <= tab.n
  BY PageNumbers DEF Fresh
<1>1. \A r \in asked' : r \in asked \/ r = FirstQuestion(id)
  BY DEF Asking
<1>2. Cropping' /\ Saving' /\ Products!EditorFits' /\ FormHasId'
  BY DEF Fresh, Cropping, Saving, Products!EditorFits, FormHasId
<1>3. Products!SentIsWanted'
  <2>1. \A r : r = FirstQuestion(id) => r.kind = "load"
    BY DEF FirstQuestion, Products!Request
  <2>2. Products!SentIsWanted
    BY DEF Sound
  <2> QED BY <1>1, <2>1, <2>2 DEF Products!SentIsWanted
<1>4. Products!Unrepeated(tab.shown)'
  BY EmptyList DEF Fresh, Products!Unrepeated
<1>5. AllFit'
  <2>1. ASSUME NEW r \in asked' PROVE Products!RequestFits(r)'
    <3>1. CASE r \in asked
      <4>1. Products!RequestFits(r) /\ Products!Unrepeated(r.list)
        BY <3>1 DEF Sound, AllFit, Products!RequestFits
      <4> QED BY <1>0, <3>1, <4>1, FitsLater
    <3>2. CASE r = FirstQuestion(id)
      <4>1. r = Products!Request("load", tab.n + 1, id, None, None)
        BY <3>2 DEF FirstQuestion
      <4> QED BY <1>0, <4>1, NewFits
    <3> QED BY <1>1, <3>1, <3>2
  <2> QED BY <2>1 DEF AllFit
<1> QED BY <1>2, <1>3, <1>4, <1>5 DEF Sound

\* Opening a page from a link keeps it all.
LEMMA OpenedSound == ASSUME Sound, Types', OpenedStep PROVE Sound'
<1>1. PICK at \in {"list", "new", "edit"}, id \in Products!Ids \cup {None} :
          Opened(at, id) /\ (at = "edit" => id # None)
  BY DEF OpenedStep
<1> QED BY <1>1, MountSound DEF Opened

\* What the page sends fits it (submit, changeActive).
LEMMA PostedSound ==
  ASSUME Sound, Types', NEW kind, NEW id, NEW text, NEW image,
         Posted(kind, id, text, image), PageSame, EditorSame, tab'.shown = tab.shown,
         kind \in {"create", "update"} => text # None /\ image = tab.wanted,
         kind = "create" => image # None,
         kind \in {"update", "archive", "activate"} => id # None,
         Saving'
  PROVE  Sound'
<1>0. /\ tab.n \in Nat /\ tab'.n = tab.n /\ tab'.n \in Nat
      /\ \A r \in asked : r.n \in Nat /\ r.n <= tab.n
  BY PageNumbers DEF PageSame
<1>1. \A r \in asked' : r \in asked \/ r = Products!Request(kind, tab.n, id, text, image)
  BY DEF Posted
<1>2. Cropping' /\ Products!EditorFits' /\ FormHasId'
  BY DEF Sound, EditorSame, PageSame, Cropping, Products!EditorFits, FormHasId
<1>3. Products!SentIsWanted'
  <2>1. \A r : r = Products!Request(kind, tab.n, id, text, image) =>
          r.kind = kind /\ r.image = image /\ r.wanted = tab.wanted
    BY DEF Products!Request
  <2>2. Products!SentIsWanted
    BY DEF Sound
  <2> QED BY <1>1, <2>1, <2>2 DEF Products!SentIsWanted
<1>4. Products!Unrepeated(tab.shown)'
  BY DEF Sound, Products!Unrepeated
<1>5. AllFit'
  <2>1. ASSUME NEW r \in asked' PROVE Products!RequestFits(r)'
    <3>1. CASE r \in asked
      <4>1. Products!RequestFits(r) /\ Products!Unrepeated(r.list)
        BY <3>1 DEF Sound, AllFit, Products!RequestFits
      <4> QED BY <1>0, <3>1, <4>1, FitsLater
    <3>2. CASE r = Products!Request(kind, tab.n, id, text, image)
      BY <1>0, <3>2, NewFits
    <3> QED BY <1>1, <3>1, <3>2
  <2> QED BY <2>1 DEF AllFit
<1> QED BY <1>2, <1>3, <1>4, <1>5 DEF Sound

\* Every request of a page keeps it all.
LEMMA WorkSound == ASSUME Sound, Types', WorkStep PROVE Sound'
<1>0. Saving /\ Types /\ FormHasId /\ Products!EditorFits /\ tab \in Products!TabRecord
  BY DEF Sound, Types
<1>a. tab'.n = tab.n /\ tab'.pending = tab.pending /\ asked \subseteq asked' => Saving'
  BY <1>0 DEF Saving, Products!Here, Products!Save
<1>1. CASE Retried
  BY <1>1, <1>a, PostedSound DEF Retried, PageSame, Posted
<1>2. ASSUME NEW p \in Products!Range(tab.shown), ChangeAsked(p) PROVE Sound'
  <2>1. p.id # None
    BY <1>2, ShopAssumption DEF ChangeAsked, Products!Shown, Products!Ids, Products!ProductAssumption
  <2>2. /\ PageSame /\ EditorSame /\ tab'.shown = tab.shown /\ tab'.pending = tab.pending
        /\ Posted(IF p.active THEN "archive" ELSE "activate", p.id, None, None)
    BY <1>2 DEF ChangeAsked
  <2>3. Saving'
    BY <1>a, <2>2 DEF PageSame, Posted
  <2> QED BY <2>1, <2>2, <2>3, PostedSound
<1>3. CASE Submitted
  <2> DEFINE kind == IF tab.at = "new" THEN "create" ELSE "update"
             q == Products!Request(kind, tab.n, tab.id, tab.text, tab.image)
  <2>1. /\ PageSame /\ EditorSame /\ tab'.shown = tab.shown
        /\ Posted(kind, tab.id, tab.text, tab.image)
    BY <1>3 DEF Submitted
  <2>2. /\ tab.at # "list" /\ tab.source = None /\ tab.text # None
        /\ tab.at = "new" => tab.image # None
    BY <1>3 DEF Submitted, Products!Form, Products!SubmitAllowed
  <2>3. tab.image = tab.wanted
    BY <1>0, <2>2 DEF Products!EditorFits
  <2>4. tab.at = "edit" \/ tab.at = "new"
    BY <1>0, <2>2 DEF Products!TabRecord
  <2>5. Saving'
    <3>1. q \in asked' /\ tab'.n = tab.n
      BY <2>1 DEF Posted, PageSame
    <3>2. q.n = tab.n /\ q.kind \in {"create", "update"} /\ q.waits
      BY DEF Products!Request
    <3> QED BY <3>1, <3>2 DEF Saving, Products!Here, Products!Save
  <2> QED BY <1>0, <2>1, <2>2, <2>3, <2>4, <2>5, PostedSound DEF FormHasId
<1> QED BY <1>1, <1>2, <1>3 DEF WorkStep

\* Working on a form keeps it all.
LEMMA EditedSound == ASSUME Sound, Types', Edited PROVE Sound'
<1>0. tab'.n = tab.n /\ tab.n \in Nat /\ \A r \in asked : r.n \in Nat /\ r.n <= tab.n
  BY PageNumbers DEF Edited, PageSame
<1>1. Cropping' /\ Products!EditorFits'
  BY DEF Sound, Edited
<1>2. Saving'
  BY DEF Sound, Edited, PageSame, Saving, Products!Here, Products!Save
<1>3. Products!SentIsWanted' /\ Products!Unrepeated(tab.shown)' /\ FormHasId'
  BY DEF Sound, Edited, PageSame, Products!SentIsWanted, Products!Unrepeated, FormHasId
<1>4. AllFit'
  BY <1>0 DEF Sound, Edited, AllFit, Products!RequestFits
<1> QED BY <1>1, <1>2, <1>3, <1>4 DEF Sound

\* So does the server.
LEMMA ServedSound == ASSUME Sound, Types', ServedStep PROVE Sound'
<1>0. PICK r \in asked : \E s : ServedFor(r, s)
  BY DEF ServedStep
<1>1. PICK s : ServedFor(r, s)
  BY <1>0
<1>2. /\ Told(r, s) /\ ReplacedBy(r, s) /\ StoredFor(r, s) /\ tab' = tab
      /\ s.kind = r.kind /\ s.n = r.n /\ s.product = r.product /\ s.text = r.text
      /\ s.image = r.image /\ s.wanted = r.wanted /\ s.waits = r.waits
  BY <1>1 DEF ServedFor, Told, Untouched
<1>3. /\ tab.n \in Nat /\ \A q \in asked : q.n \in Nat /\ q.n <= tab.n
  BY PageNumbers
<1>4. \A q \in asked' : q \in asked \/ q = s
  BY <1>2 DEF ReplacedBy
<1>5. Cropping' /\ Products!EditorFits' /\ Products!Unrepeated(tab.shown)' /\ FormHasId'
  BY <1>2 DEF Sound, Cropping, Products!EditorFits, Products!Unrepeated, FormHasId
<1>6. Saving'
  <2>1. CASE tab.pending
    <3>1. PICK q \in asked : Products!Here(q) /\ Products!Save(q) /\ q.waits
      BY <2>1 DEF Sound, Saving
    <3>2. CASE q = r
      BY <1>2, <3>1, <3>2 DEF ReplacedBy, Saving, Products!Here, Products!Save
    <3>3. CASE q # r
      BY <1>2, <3>1, <3>3 DEF ReplacedBy, Saving, Products!Here, Products!Save
    <3> QED BY <3>2, <3>3
  <2> QED BY <1>2, <2>1 DEF Saving
<1>7. Products!SentIsWanted'
  <2>1. Products!SentIsWanted
    BY DEF Sound
  <2> QED BY <1>2, <1>4, <2>1 DEF Products!SentIsWanted
<1>8. Products!Unrepeated(s.list)
  <2>1. Products!Unrepeated(r.list)
    BY DEF Sound, AllFit, Products!RequestFits
  <2>2. CASE r.kind = "load"
    <3>1. s.list = Products!Listing
      BY <1>2, <2>2
      DEF StoredFor, Refusal, ListSent, Created, Updated, Switched, Products!Change
    <3> QED BY <3>1, ListingIs DEF Sound, Types
  <2>3. CASE r.kind # "load"
    BY <1>2, <2>1, <2>3 DEF Told
  <2> QED BY <2>2, <2>3
<1>9. AllFit'
  <2>1. ASSUME NEW q \in asked' PROVE Products!RequestFits(q)'
    <3>1. Products!RequestFits(r)
      BY DEF Sound, AllFit
    <3>2. CASE q = s
      BY <1>2, <1>3, <1>8, <3>1, <3>2, FitsLater
    <3>3. CASE q \in asked
      <4>1. Products!RequestFits(q) /\ Products!Unrepeated(q.list)
        BY <3>3 DEF Sound, AllFit, Products!RequestFits
      <4> QED BY <1>2, <1>3, <3>3, <4>1, FitsLater
    <3> QED BY <1>4, <3>2, <3>3
  <2> QED BY <2>1 DEF AllFit
<1> QED BY <1>5, <1>6, <1>7, <1>9 DEF Sound

\* What a page hears keeps its editor, and unless it is a list, its list.
LEMMA HeardSound ==
  ASSUME Sound, Types', NEW r \in asked, Heard(r)
  PROVE  /\ Cropping' /\ Products!EditorFits' /\ FormHasId'
         /\ Products!Unrepeated(tab.shown)'
<1>1. Cropping' /\ Products!EditorFits' /\ FormHasId'
  BY DEF Sound, Heard, PageSame, EditorSame, Cropping, Products!EditorFits, FormHasId
<1>2. Products!Unrepeated(tab.shown) /\ Products!Unrepeated(r.list)
  BY DEF Sound, AllFit, Products!RequestFits
<1>3. Products!Unrepeated(Products!Sorted(Retold(tab.shown, r)))
  BY <1>2, RetoldIs DEF Sound
<1>4. \/ tab'.shown = tab.shown \/ tab'.shown = r.list
      \/ tab'.shown = Products!Sorted(Retold(tab.shown, r))
  BY DEF Heard, Success, FailureShown, ListShown, ProductShown, ChangeShown
<1>5. \A l : tab'.shown = l /\ Products!Unrepeated(l) => Products!Unrepeated(tab.shown)'
  BY DEF Products!Unrepeated
<1> QED BY <1>1, <1>2, <1>3, <1>4, <1>5

\* So does an answer.
LEMMA ReceivedSound == ASSUME Sound, Types', ReceivedStep PROVE Sound'
<1>0. PICK r \in asked : ReceivedFrom(r)
  BY DEF ReceivedStep
<1>1. CASE Returned(r)
  BY <1>1, MountSound DEF Returned
<1>2. CASE TurnedTo(r)
  <2>0. /\ asked' = asked \ {r}
        /\ \/ tab' = tab /\ ~Products!Here(r)
           \/ Heard(r) /\ Products!Here(r)
    BY <1>2 DEF TurnedTo
  <2>1. tab'.n = tab.n /\ tab.n \in Nat /\ \A q \in asked : q.n \in Nat /\ q.n <= tab.n
    BY <2>0, PageNumbers DEF Heard, PageSame
  <2>2. /\ Cropping' /\ Products!EditorFits' /\ FormHasId'
        /\ Products!Unrepeated(tab.shown)'
    <3>1. CASE tab' = tab
      BY <3>1 DEF Sound, Cropping, Products!EditorFits, Products!Unrepeated, FormHasId
    <3>2. CASE Heard(r)
      BY <3>2, HeardSound
    <3> QED BY <2>0, <3>1, <3>2
  <2>3. Saving'
    <3>1. ASSUME tab'.pending PROVE tab.pending /\ (Products!Here(r) => ~Products!Save(r))
      <4>1. CASE ~Products!Here(r)
        BY <2>0, <3>1, <4>1
      <4>2. CASE Products!Here(r)
        <5>1. Heard(r)
          BY <2>0, <4>2
        <5>2. CASE FailureShown(r)
          BY <3>1, <5>2 DEF FailureShown
        <5>3. CASE ~FailureShown(r)
          BY <3>1, <5>1, <5>3
          DEF Heard, Success, ListShown, ProductShown, ChangeShown, Products!Change, Products!Save
        <5> QED BY <5>2, <5>3
      <4> QED BY <4>1, <4>2
    <3>2. ASSUME tab'.pending
          PROVE  \E q \in asked' : Products!Here(q)' /\ Products!Save(q) /\ q.waits
      <4>1. PICK q \in asked : Products!Here(q) /\ Products!Save(q) /\ q.waits
        BY <3>1, <3>2 DEF Sound, Saving
      <4>2. q # r
        BY <3>1, <3>2, <4>1
      <4> QED BY <2>0, <2>1, <4>1, <4>2 DEF Products!Here
    <3> QED BY <3>2 DEF Saving, Products!Save
  <2>4. Products!SentIsWanted'
    BY <2>0 DEF Sound, Products!SentIsWanted
  <2>5. AllFit'
    BY <2>0, <2>1 DEF Sound, AllFit, Products!RequestFits
  <2> QED BY <2>2, <2>3, <2>4, <2>5 DEF Sound
<1> QED BY <1>0, <1>1, <1>2 DEF ReceivedFrom

\* So does a lost connection.
LEMMA DroppedSound == ASSUME Sound, Types', DroppedStep PROVE Sound'
<1>0. PICK r \in asked : Dropped(r)
  BY DEF DroppedStep
<1> DEFINE Late(s) ==
             /\ asked' = (asked \ {r}) \cup {s} /\ ~s.waits
             /\ s.kind = r.kind /\ s.n = r.n /\ s.product = r.product /\ s.text = r.text
             /\ s.image = r.image /\ s.wanted = r.wanted /\ s.list = r.list
<1>1. asked' = asked \ {r} \/ \E s : Late(s)
  BY <1>0 DEF Dropped
<1>2. /\ tab.n \in Nat /\ tab'.n = tab.n /\ \A q \in asked : q.n \in Nat /\ q.n <= tab.n
  BY <1>0, PageNumbers DEF Dropped, Heard, PageSame
<1>3. /\ Cropping' /\ Products!EditorFits' /\ FormHasId'
      /\ Products!Unrepeated(tab.shown)'
  <2>1. CASE tab' = tab
    BY <2>1 DEF Sound, Cropping, Products!EditorFits, Products!Unrepeated, FormHasId
  <2>2. CASE Heard(r)
    BY <2>2, HeardSound
  <2> QED BY <1>0, <2>1, <2>2 DEF Dropped
<1>4. Saving'
  <2>1. ASSUME tab'.pending
        PROVE  \E q \in asked' : Products!Here(q)' /\ Products!Save(q) /\ q.waits
    <3>1. tab.pending /\ (Products!Here(r) => ~Products!Save(r))
      BY <1>0, <2>1 DEF Dropped, FailureShown
    <3>2. PICK q \in asked : Products!Here(q) /\ Products!Save(q) /\ q.waits
      BY <3>1 DEF Sound, Saving
    <3>3. q # r
      BY <3>1, <3>2
    <3> QED BY <1>1, <1>2, <3>2, <3>3 DEF Products!Here
  <2> QED BY <2>1 DEF Saving, Products!Save
<1>5. Products!SentIsWanted'
  BY <1>1 DEF Sound, Products!SentIsWanted
<1>6. AllFit'
  <2>1. ASSUME NEW q \in asked' PROVE Products!RequestFits(q)'
    <3>1. CASE q \in asked
      <4>1. Products!RequestFits(q) /\ Products!Unrepeated(q.list)
        BY <3>1 DEF Sound, AllFit, Products!RequestFits
      <4> QED BY <1>2, <3>1, <4>1, FitsLater
    <3>2. CASE q \notin asked
      <4>1. Products!RequestFits(r) /\ Products!Unrepeated(r.list)
        BY DEF Sound, AllFit, Products!RequestFits
      <4>2. Late(q)
        BY <1>1, <3>2
      <4> QED BY <1>2, <4>1, <4>2, FitsLater
    <3> QED BY <3>1, <3>2
  <2> QED BY <2>1 DEF AllFit
<1> QED BY <1>3, <1>4, <1>5, <1>6 DEF Sound

\* Every step keeps the types, the editor, the images sent and the lists without repetitions.
LEMMA SoundStep == Sound /\ [Products!Next]_productVars => Sound'
<1> SUFFICES ASSUME Sound, [Products!Next]_productVars PROVE Sound'
  OBVIOUS
<1>1. CASE Products!Next
  BY <1>1, StepIs, OpenedSound, WorkSound, EditedSound, ServedSound, ReceivedSound, DroppedSound
<1>2. CASE UNCHANGED productVars
  BY <1>2
  DEF productVars, Sound, Types, RowsOK, Cropping, Saving, Products!EditorFits,
      Products!SentIsWanted, Products!Unrepeated, AllFit, FormHasId, Products!RequestFits,
      Products!Here, Products!Save
<1> QED BY <1>1, <1>2

\* The page that is not opened yet, and the first products.
LEMMA SoundInit == Products!Init => Sound
<1> SUFFICES ASSUME Products!Init PROVE Sound
  OBVIOUS
<1>0. /\ FirstRows \in Seq([text : ProductTexts, image : Files, active : BOOLEAN])
      /\ Len(FirstRows) <= MaxProducts /\ MaxLosses \in Nat /\ MaxRefusals \in Nat
      /\ MaxVisits \in Nat
  BY ShopAssumption DEF Products!ProductAssumption
<1>1. RowsOK
  BY <1>0 DEF Products!Init, RowsOK, Products!Row
<1>2. /\ tab = Products!Closed /\ asked = {} /\ patient \in BOOLEAN
      /\ askedSoFar = 0 /\ lost = 0 /\ refused = 0 /\ visits = 0
  BY DEF Products!Init
<1>3. <<>> \in Seq(Products!Shown)
  OBVIOUS
<1>4. tab \in Products!TabRecord
  BY <1>2, <1>3 DEF Products!Closed, Products!TabRecord
<1>5. Types
  BY <1>0, <1>1, <1>2, <1>4 DEF Types
<1>6. Cropping /\ Saving /\ Products!EditorFits /\ FormHasId
  BY <1>2 DEF Products!Closed, Cropping, Saving, Products!EditorFits, FormHasId
<1>7. Products!Unrepeated(tab.shown)
  BY <1>2, EmptyList DEF Products!Closed
<1>8. Products!SentIsWanted /\ AllFit
  BY <1>2 DEF Products!SentIsWanted, AllFit
<1> QED BY <1>5, <1>6, <1>7, <1>8 DEF Sound
-----------------------------------------------------------------------------
(* An operator who waits *)

\* What is archived in the list on the screen, and which changes explain the difference.
Explains(active) ==
    /\ active \in [1..Len(rows) -> BOOLEAN] /\ tab.shown = Products!ListedWith(active)
    /\ \A p \in 1..Len(rows) : active[p] # rows[p].active =>
          \E r \in asked : Products!Change(r) /\ r.product = p /\ r.answer = "ok"

\* A change in flight is of a product that is stored, and once answered it is stored.
ChangesTold ==
    \A r \in asked : Products!Change(r) =>
        /\ r.product \in 1..Len(rows)
        /\ r.answer = "ok" => rows[r.product].active = (r.kind = "activate")

\* A list is on the screen.
Showing == tab.at = "list" /\ tab.n # 0 /\ ~tab.loading

\* ShownFits in these words.
LEMMA ShownIs == Products!ShownFits <=> (Showing => (\E active : Explains(active)) /\ ChangesTold)
BY DEF Products!ShownFits, Showing, Explains, ChangesTold, Products!Stored

\* So it is after a step.
LEMMA ShownIsNext ==
  Products!ShownFits' <=> (Showing' => (\E active : Explains(active)') /\ ChangesTold')
BY DEF Products!ShownFits, Showing, Explains, ChangesTold, Products!Stored

\* What holds of an operator who waits.
Settled == Products!InFlight /\ Products!LoadFits /\ Products!ShownFits

\* The inductive invariant is these two parts.
LEMMA InvIs == Products!IInv <=> Sound /\ (Products!Undisturbed => Settled)
BY TypeIs DEF Products!IInv, Sound, AllFit, FormHasId, Settled, Types, Cropping, Saving

\* So it is after a step.
LEMMA InvIsNext == Products!IInv' <=> Sound' /\ (Products!Undisturbed' => Settled')
BY InvIs, PTL

\* A list of other choices of what is archived follows the rows, and not their flags.
LEMMA ListedSame ==
  ASSUME NEW active, Len(rows') = Len(rows),
         \A p \in 1..Len(rows) : rows'[p].text = rows[p].text /\ rows'[p].image = rows[p].image
  PROVE  Products!ListedWith(active)' = Products!ListedWith(active)
<1>1. /\ Products!ListedWith(active) = Products!Sorted(Entries(active))
      /\ Products!ListedWith(active)' = Products!Sorted(Entries(active)')
  BY DEF Products!ListedWith, Entries, Products!Stored
<1>2. Entries(active)' = Entries(active)
  BY DEF Entries
<1> QED BY <1>1, <1>2

\* Nothing is listed anew when no row has changed.
LEMMA ListingSame == rows' = rows => Products!Listing' = Products!Listing
BY DEF Products!Listing, Products!Stored

\* An operator who waits opens no page with a change or a save in flight.
LEMMA MountSettled ==
  ASSUME Sound, NEW at \in {"list", "new", "edit"}, NEW id, NEW others \in SUBSET asked,
         \A r \in others : r.kind = "load" /\ r.waits, Fresh(at, id), Asking(at, id, others)
  PROVE  Settled'
<1>1. \A r \in asked' : \/ r \in others
                        \/ at # "new" /\ r = FirstQuestion(id) /\ FirstQuestion(id) \in asked'
  BY DEF Asking
<1>2. \A r : r = FirstQuestion(id) =>
          r.kind = "load" /\ r.waits /\ r.n = tab.n + 1 /\ r.answer = "none"
  BY DEF FirstQuestion, Products!Request
<1>3. /\ tab.n \in Nat /\ tab'.n = tab.n + 1
      /\ \A r \in others : r.n \in Nat /\ r.n <= tab.n
  BY DEF Fresh, Sound, AllFit, Types, Products!TabRecord, Products!RequestRecord,
         Products!RequestFits
<1>4. Products!InFlight'
  BY <1>1, <1>2 DEF Products!InFlight, Products!Change, Products!Save
<1>5. Products!LoadFits'
  <2>1. CASE at # "list"
    BY <2>1 DEF Fresh, Products!LoadFits
  <2>2. CASE at = "list"
    <3>1. tab'.loading /\ ~tab'.error /\ FirstQuestion(id) \in asked'
      BY <2>2 DEF Fresh, Asking
    <3>2. \A r \in asked' : r.n = tab'.n <=> r = FirstQuestion(id)
      BY <1>1, <1>2, <1>3
    <3> QED BY <1>2, <3>1, <3>2 DEF Products!LoadFits, Products!Question, Products!Here
  <2> QED BY <2>1, <2>2
<1>6. Products!ShownFits'
  BY ShownIsNext DEF Fresh, Showing
<1> QED BY <1>4, <1>5, <1>6 DEF Settled

\* A link is followed with nothing but questions in flight.
LEMMA OpenedSettled == ASSUME Sound, Settled, patient, OpenedStep PROVE Settled'
<1>1. PICK at \in {"list", "new", "edit"}, id \in Products!Ids \cup {None} : Opened(at, id)
  BY DEF OpenedStep
<1>2. Products!Changes = {} /\ ~tab.pending
  BY <1>1 DEF Opened
<1>3. \A r \in asked : r.kind = "load" /\ r.waits
  <2>1. ASSUME NEW r \in asked PROVE r.kind = "load" /\ r.waits
    <3>1. r.kind \in {"load", "create", "update", "archive", "activate"}
      BY DEF Sound, Types, Products!RequestRecord
    <3>2. ~Products!Change(r) /\ ~Products!Save(r) /\ r.waits
      BY <1>2 DEF Settled, Products!InFlight, Products!Changes, Products!Change
    <3> QED BY <3>1, <3>2 DEF Products!Change, Products!Save
  <2> QED BY <2>1
<1> QED BY <1>1, <1>3, MountSettled DEF Opened
\* A change that is sent is of a product that is listed and has no other in flight.
LEMMA ChangeSettled ==
  ASSUME Sound, Settled, patient, NEW p \in Products!Range(tab.shown), ChangeAsked(p)
  PROVE  Settled'
<1> DEFINE kind == IF p.active THEN "archive" ELSE "activate"
<1>1. PICK q : q = Products!Request(kind, tab.n, p.id, None, None)
  OBVIOUS
<1>2. /\ q.kind = kind /\ q.n = tab.n /\ q.product = p.id /\ q.waits /\ q.answer = "none"
  BY <1>1 DEF Products!Request
<1>3. /\ tab.at = "list" /\ ~tab.loading /\ rows' = rows /\ asked' = asked \cup {q}
      /\ tab'.n = tab.n /\ tab'.at = tab.at /\ tab'.loading = tab.loading
      /\ tab'.shown = tab.shown /\ \A r \in Products!Changes : r.product # p.id
  BY <1>1 DEF ChangeAsked, Posted, PageSame, Standing
<1>4. Products!Change(q) /\ ~Products!Save(q) /\ q.kind # "load"
  BY <1>2 DEF Products!Change, Products!Save
<1>5. \A r \in asked : Products!Change(r) => r.product # p.id
  BY <1>3 DEF Settled, Products!InFlight, Products!Changes, Products!Change
<1> HIDE DEF kind
<1>6. Products!InFlight'
  BY <1>2, <1>3, <1>4, <1>5
  DEF Settled, Products!InFlight, Products!Here, Products!Change, Products!Save
<1>7. Products!LoadFits'
  <2>1. \A r \in asked' : ~Products!Question(r)'
    BY <1>3, <1>4 DEF Settled, Products!LoadFits, Products!Question, Products!Here
  <2> QED BY <1>3, <2>1 DEF Products!LoadFits
<1>8. Products!ShownFits'
  <2>1. CASE tab.n = 0
    BY <1>3, <2>1, ShownIsNext DEF Showing
  <2>2. CASE tab.n # 0
    <3>1. (\E active : Explains(active)) /\ ChangesTold
      BY <1>3, <2>2, ShownIs DEF Showing, Settled
    <3>2. PICK active : Explains(active)
      BY <3>1
    <3>3. Products!ListedWith(active)' = Products!ListedWith(active)
      BY <1>3, ListedSame
    <3>4. Explains(active)'
      BY <1>3, <3>2, <3>3 DEF Explains
    <3>5. p.id \in 1..Len(rows)
      <4>1. p \in Entries(active)
        BY <3>2, ListedIs DEF Explains, Sound, Types
      <4> QED BY <4>1 DEF Entries
    <3>6. ChangesTold'
      BY <1>2, <1>3, <3>1, <3>5 DEF ChangesTold
    <3> QED BY <3>4, <3>6, ShownIsNext
  <2> QED BY <2>1, <2>2
<1> QED BY <1>6, <1>7, <1>8 DEF Settled

\* The list is asked for again when there is an error, so no question about it is in flight.
LEMMA RetrySettled == ASSUME Sound, Settled, patient, Retried PROVE Settled'
<1>1. PICK q : q = Products!Request("load", tab.n, None, None, None)
  OBVIOUS
<1>2. q.kind = "load" /\ q.n = tab.n /\ q.waits /\ q.answer = "none"
  BY <1>1 DEF Products!Request
<1>3. /\ tab.at = "list" /\ tab.error /\ Products!Changes = {} /\ rows' = rows
      /\ asked' = asked \cup {q} /\ tab'.n = tab.n /\ tab'.at = tab.at
      /\ tab'.loading /\ ~tab'.error
  BY <1>1 DEF Retried, Posted, PageSame, Standing
<1>4. \A r \in asked : ~Products!Change(r) /\ ~Products!Save(r) /\ r.waits
  BY <1>3 DEF Settled, Products!InFlight, Products!Changes, Products!Change
<1>5. \A r \in asked : ~Products!Question(r)
  BY <1>3 DEF Settled, Products!LoadFits
<1>6. Products!InFlight'
  BY <1>2, <1>3, <1>4 DEF Products!InFlight, Products!Change, Products!Save
<1>7. \A r \in asked' : Products!Question(r)' <=> r = q
  BY <1>2, <1>3, <1>5 DEF Products!Question, Products!Here
<1>8. Products!LoadFits'
  BY <1>2, <1>3, <1>7 DEF Products!LoadFits
<1>9. Products!ShownFits'
  BY <1>3, ShownIsNext DEF Showing
<1> QED BY <1>6, <1>8, <1>9 DEF Settled

\* On a form only its save matters.
LEMMA SubmitSettled == ASSUME Sound, Settled, patient, Submitted PROVE Settled'
<1> DEFINE kind == IF tab.at = "new" THEN "create" ELSE "update"
<1>1. PICK q : q = Products!Request(kind, tab.n, tab.id, tab.text, tab.image)
  OBVIOUS
<1>2. q.kind = kind /\ q.n = tab.n /\ q.waits
  BY <1>1 DEF Products!Request
<1>3. /\ tab.at # "list" /\ ~tab.pending /\ asked' = asked \cup {q}
      /\ tab'.n = tab.n /\ tab'.at = tab.at /\ tab'.pending
  BY <1>1 DEF Submitted, Posted, PageSame, Products!Form, Products!SubmitAllowed
<1>4. \A r \in asked : ~Products!Change(r) /\ ~Products!Save(r) /\ r.waits
  BY <1>3 DEF Settled, Products!InFlight
<1>5. Products!Save(q) /\ ~Products!Change(q)
  BY <1>2 DEF Products!Change, Products!Save
<1> HIDE DEF kind
<1>6. Products!InFlight'
  BY <1>2, <1>3, <1>4, <1>5
  DEF Products!InFlight, Products!Here, Products!Change, Products!Save
<1>7. Products!LoadFits' /\ Products!ShownFits'
  BY <1>3, ShownIsNext DEF Products!LoadFits, Showing
<1> QED BY <1>6, <1>7 DEF Settled

\* Working on a form touches no list.
LEMMA EditedSettled == ASSUME Sound, Settled, patient, Edited PROVE Settled'
<1>1. /\ asked' = asked /\ tab.at # "list" /\ tab'.n = tab.n /\ tab'.at = tab.at
      /\ tab'.loading = tab.loading /\ tab'.pending = tab.pending
  BY DEF Edited, PageSame
<1>2. Products!InFlight'
  BY <1>1 DEF Settled, Products!InFlight, Products!Here, Products!Change, Products!Save
<1>3. Products!LoadFits' /\ Products!ShownFits'
  BY <1>1, ShownIsNext DEF Products!LoadFits, Showing
<1> QED BY <1>2, <1>3 DEF Settled
\* A request that is served: the list on the screen differs by what it switched.
LEMMA ServedSettled == ASSUME Sound, Settled, patient, ServedStep PROVE Settled'
<1>0. PICK r \in asked : \E s : ServedFor(r, s)
  BY DEF ServedStep
<1>1. PICK s : ServedFor(r, s)
  BY <1>0
<1>2. /\ s.kind = r.kind /\ s.n = r.n /\ s.product = r.product /\ s.waits = r.waits
      /\ s.answer \in {"ok", "refused"} /\ r.answer = "none" /\ StoredFor(r, s) /\ tab' = tab
  BY <1>1 DEF ServedFor, Told, Untouched
<1>3. r.waits /\ s.waits
  BY <1>2 DEF Settled, Products!InFlight
<1>4. asked' = (asked \ {r}) \cup {s}
  BY <1>1, <1>3 DEF ServedFor, ReplacedBy
<1>5. Products!InFlight'
  BY <1>2, <1>3, <1>4
  DEF Settled, Products!InFlight, Products!Here, Products!Change, Products!Save
<1>6. r.kind = "load" => rows' = rows /\ s.answer = "ok" /\ s.list = Products!Listing
  BY <1>2 DEF StoredFor, Refusal, ListSent, Created, Updated, Switched, Products!Change
<1>7. Products!LoadFits'
  <2>1. CASE \A q \in asked : ~Products!Question(q)
    <3>1. \A q \in asked' : ~Products!Question(q)'
      BY <1>2, <1>4, <2>1 DEF Products!Question, Products!Here
    <3>2. tab.at = "list" => ~tab.loading
      BY <2>1 DEF Settled, Products!LoadFits
    <3> QED BY <1>2, <3>1, <3>2 DEF Products!LoadFits
  <2>2. CASE tab.at = "list" /\ \E q \in asked : Products!Question(q)
    <3>1. PICK q \in asked : Products!Question(q)
      BY <2>2
    <3>2. /\ tab.loading /\ ~tab.error
          /\ q.answer = "none" \/ (q.answer = "ok" /\ q.list = Products!Listing)
          /\ \A x \in asked : Products!Question(x) => x = q
      BY <2>2, <3>1 DEF Settled, Products!LoadFits
    <3>3. r.kind = "load"
      <4>1. r.kind \in {"load", "create", "update", "archive", "activate"}
        BY DEF Sound, Types, Products!RequestRecord
      <4>2. ~Products!Change(r) /\ ~Products!Save(r)
        BY <2>2, <3>2 DEF Settled, Products!InFlight
      <4> QED BY <4>1, <4>2 DEF Products!Change, Products!Save
    <3>4. Products!Listing' = Products!Listing
      BY <1>6, <3>3, ListingSame
    <3>5. CASE q = r
      <4>1. \A x \in asked' : Products!Question(x)' <=> x = s
        BY <1>2, <1>4, <3>1, <3>2, <3>5 DEF Products!Question, Products!Here
      <4> QED BY <1>2, <1>4, <1>6, <3>2, <3>3, <3>4, <4>1 DEF Products!LoadFits
    <3>6. CASE q # r
      <4>1. q \in asked' /\ \A x \in asked' : Products!Question(x)' <=> x = q
        BY <1>2, <1>4, <3>1, <3>2, <3>6 DEF Products!Question, Products!Here
      <4> QED BY <1>2, <3>2, <3>4, <4>1 DEF Products!LoadFits
    <3> QED BY <3>5, <3>6
  <2>3. CASE tab.at # "list"
    BY <1>2, <2>3 DEF Products!LoadFits
  <2> QED BY <2>1, <2>2, <2>3
<1>8. Products!ShownFits'
  <2>1. CASE ~Showing
    BY <1>2, <2>1, ShownIsNext DEF Showing
  <2>2. CASE Showing
    <3>1. (\E active : Explains(active)) /\ ChangesTold
      BY <2>2, ShownIs DEF Settled
    <3>2. PICK active : Explains(active)
      BY <3>1
    <3>3. ~Products!Save(r)
      BY <2>2 DEF Settled, Products!InFlight, Showing
    <3>4. CASE rows' = rows
      <4>1. Products!ListedWith(active)' = Products!ListedWith(active)
        BY <3>4, ListedSame
      <4>2. Explains(active)'
        BY <1>2, <1>4, <3>2, <3>4, <4>1 DEF Explains
      <4>3. ~(Products!Change(r) /\ s.answer = "ok") \/ Switched(r, s)
        BY <1>2, <3>3
        DEF StoredFor, Refusal, ListSent, Created, Updated, Products!Change, Products!Save
      <4>4. Products!Change(s) /\ s.answer = "ok" =>
              rows[s.product].active = (s.kind = "activate")
        <5>1. CASE Products!Change(s) /\ s.answer = "ok"
          <6>1. Switched(r, s) /\ r.product \in 1..Len(rows)
            BY <1>2, <3>1, <4>3, <5>1 DEF ChangesTold, Products!Change
          <6>2. rows \in [1..Len(rows) -> Products!Row]
            BY DEF Sound, Types, RowsOK
          <6>3. rows'[r.product].active = (r.kind = "activate")
            BY <6>1, <6>2 DEF Switched, Products!Row
          <6> QED BY <1>2, <3>4, <6>3
        <5> QED BY <5>1
      <4>5. ChangesTold'
        BY <1>2, <1>4, <3>1, <3>4, <4>4 DEF ChangesTold, Products!Change
      <4> QED BY <4>2, <4>5, ShownIsNext
    <3>5. CASE Switched(r, s)
      <4>0. /\ Products!Change(r) /\ Products!Change(s) /\ s.answer = "ok"
            /\ r.product \in 1..Len(rows)
            /\ \A q \in asked : Products!Change(q) /\ q.product = r.product => q = r
        BY <1>2, <3>1, <3>5
        DEF Switched, ChangesTold, Products!Change, Settled, Products!InFlight
      <4>1. rows \in [1..Len(rows) -> Products!Row] /\ Len(rows) \in Nat
        BY DEF Sound, Types, RowsOK
      <4>2. rows' = [rows EXCEPT ![r.product] =
                       [rows[r.product] EXCEPT !.active = (r.kind = "activate")]]
        BY <3>5 DEF Switched
      <4>3. /\ Len(rows') = Len(rows)
            /\ \A p \in 1..Len(rows) :
                  /\ rows'[p].text = rows[p].text /\ rows'[p].image = rows[p].image
                  /\ p # r.product => rows'[p] = rows[p]
            /\ rows'[r.product].active = (r.kind = "activate")
        BY <4>0, <4>1, <4>2 DEF Products!Row
      <4>4. Products!ListedWith(active)' = Products!ListedWith(active)
        BY <4>3, ListedSame
      <4>5. ASSUME NEW p \in 1..Len(rows), active[p] # rows'[p].active
            PROVE  \E q \in asked' : Products!Change(q) /\ q.product = p /\ q.answer = "ok"
        <5>1. CASE p = r.product
          BY <1>2, <1>4, <4>0, <5>1
        <5>2. CASE p # r.product
          <6>1. PICK q \in asked : Products!Change(q) /\ q.product = p /\ q.answer = "ok"
            BY <3>2, <4>3, <4>5, <5>2 DEF Explains
          <6> QED BY <1>2, <1>4, <6>1
        <5> QED BY <5>1, <5>2
      <4>6. Explains(active)'
        BY <1>2, <3>2, <4>3, <4>4, <4>5 DEF Explains, Products!Change
      <4>7. ASSUME NEW q \in asked', Products!Change(q)
            PROVE  /\ q.product \in 1..Len(rows')
                   /\ q.answer = "ok" => rows'[q.product].active = (q.kind = "activate")
        <5>1. CASE q = s
          BY <1>2, <4>0, <4>3, <5>1
        <5>2. CASE q # s
          <6>1. q \in asked /\ q # r
            BY <1>4, <4>7, <5>2
          <6>2. q.product # r.product
            BY <4>0, <4>7, <6>1
          <6> QED BY <3>1, <4>3, <4>7, <6>1, <6>2 DEF ChangesTold
        <5> QED BY <5>1, <5>2
      <4>8. ChangesTold'
        BY <4>7 DEF ChangesTold, Products!Change
      <4> QED BY <4>6, <4>8, ShownIsNext
    <3> QED
      BY <1>2, <3>3, <3>4, <3>5
      DEF StoredFor, Refusal, ListSent, Created, Updated, Products!Save
  <2> QED BY <2>1, <2>2
<1> QED BY <1>5, <1>7, <1>8 DEF Settled
\* The products of a list that is told a change are those with the change made.
LEMMA RetoldEntries ==
  ASSUME NEW active \in [1..Len(rows) -> BOOLEAN], NEW list, NEW r, r.product \in 1..Len(rows),
         Products!Range(list) = Entries(active)
  PROVE  Retold(list, r) = Entries([active EXCEPT ![r.product] = (r.kind = "activate")])
<1> DEFINE told == [active EXCEPT ![r.product] = (r.kind = "activate")]
           old(p) == [id |-> p, text |-> rows[p].text, image |-> rows[p].image, active |-> active[p]]
           new(p) == [id |-> p, text |-> rows[p].text, image |-> rows[p].image, active |-> told[p]]
           change(e) == IF e.id = r.product THEN [e EXCEPT !.active = r.kind = "activate"] ELSE e
<1>1. \A p \in 1..Len(rows) : change(old(p)) = new(p)
  OBVIOUS
<1>2. Entries(active) = {old(p) : p \in 1..Len(rows)} /\ Entries(told) = {new(p) : p \in 1..Len(rows)}
  BY DEF Entries
<1>3. Retold(list, r) = {change(e) : e \in Entries(active)}
  BY DEF Retold
<1> HIDE DEF old, new, change
<1>4. {change(e) : e \in Entries(active)} = {new(p) : p \in 1..Len(rows)}
  BY <1>1, <1>2
<1> QED BY <1>2, <1>3, <1>4

\* An answer is handled by the page that waits for it, or by none.
LEMMA TurnedSettled ==
  ASSUME Sound, Settled, NEW r \in asked, TurnedTo(r), rows' = rows, r.answer # "none"
  PROVE  Settled'
<1>1. /\ asked' = asked \ {r}
      /\ tab' = tab \/ Heard(r)
      /\ Products!Here(r) => Heard(r) /\ (r.answer = "ok" => Success(r))
      /\ ~Products!Here(r) => tab' = tab
  BY DEF TurnedTo
<1>2. tab'.n = tab.n /\ tab'.at = tab.at
  BY <1>1 DEF Heard, PageSame
<1>k. /\ r.kind \in {"load", "create", "update", "archive", "activate"}
      /\ r.answer \in {"none", "ok", "refused"}
  BY DEF Sound, Types, Products!RequestRecord
<1>3. CASE ~Products!Here(r)
  <2>1. tab' = tab
    BY <1>1, <1>3
  <2>2. ~Products!Change(r) /\ ~Products!Save(r) /\ ~Products!Question(r)
    BY <1>3 DEF Settled, Products!InFlight, Products!Question
  <2>3. Products!InFlight'
    BY <1>1, <2>1 DEF Settled, Products!InFlight, Products!Here, Products!Change, Products!Save
  <2>4. Products!LoadFits'
    <3>1. Products!Listing' = Products!Listing
      BY ListingSame
    <3>2. \A q \in asked : Products!Question(q) => q \in asked'
      BY <1>1, <2>2
    <3>3. \A q \in asked' : q \in asked /\ Products!Question(q)' = Products!Question(q)
      BY <1>1, <2>1 DEF Products!Question, Products!Here
    <3> QED BY <2>1, <3>1, <3>2, <3>3 DEF Settled, Products!LoadFits
  <2>5. Products!ShownFits'
    <3>1. CASE ~Showing
      BY <2>1, <3>1, ShownIsNext DEF Showing
    <3>2. CASE Showing
      <4>1. (\E active : Explains(active)) /\ ChangesTold
        BY <3>2, ShownIs DEF Settled
      <4>2. PICK active : Explains(active)
        BY <4>1
      <4>3. Products!ListedWith(active)' = Products!ListedWith(active)
        BY ListedSame
      <4>4. Explains(active)'
        BY <1>1, <2>1, <2>2, <4>2, <4>3 DEF Explains
      <4>5. ChangesTold'
        BY <1>1, <4>1 DEF ChangesTold, Products!Change
      <4> QED BY <4>4, <4>5, ShownIsNext
    <3> QED BY <3>1, <3>2
  <2> QED BY <2>3, <2>4, <2>5 DEF Settled
<1>4. CASE Products!Here(r) /\ r.kind = "load" /\ tab.at = "list"
  <2>1. /\ Products!Question(r) /\ tab.loading /\ r.answer = "ok" /\ r.list = Products!Listing
        /\ \A q \in asked : Products!Question(q) => q = r
    BY <1>4 DEF Settled, Products!LoadFits, Products!Question
  <2>2. ListShown(r)
    BY <1>1, <1>4, <2>1 DEF Success, ListShown, ProductShown, ChangeShown, Products!Change
  <2>3. \A q \in asked : ~Products!Change(q) /\ ~Products!Save(q) /\ q.waits
    BY <1>4, <2>1 DEF Settled, Products!InFlight
  <2>4. Products!InFlight'
    BY <1>1, <2>3 DEF Products!InFlight, Products!Change, Products!Save
  <2>5. Products!LoadFits'
    <3>1. \A q \in asked' : ~Products!Question(q)'
      BY <1>1, <1>2, <2>1 DEF Products!Question, Products!Here
    <3> QED BY <2>2, <3>1 DEF Products!LoadFits, ListShown
  <2>6. Products!ShownFits'
    <3>1. RowsOK
      BY DEF Sound, Types
    <3>2. /\ Archived \in [1..Len(rows) -> BOOLEAN]
          /\ Products!Listing = Products!ListedWith(Archived)
      BY <3>1, ListingIs
    <3>3. PICK active : active = Archived
      OBVIOUS
    <3>4. Products!ListedWith(active)' = Products!ListedWith(active)
      BY ListedSame
    <3>5. tab'.shown = Products!ListedWith(active)
      BY <2>1, <2>2, <3>2, <3>3 DEF ListShown
    <3>6. Explains(active)'
      BY <3>2, <3>3, <3>4, <3>5 DEF Explains, Archived
    <3>7. ChangesTold'
      BY <1>1, <2>3 DEF ChangesTold, Products!Change
    <3> QED BY <3>6, <3>7, ShownIsNext
  <2> QED BY <2>4, <2>5, <2>6 DEF Settled
<1>5. CASE Products!Here(r) /\ Products!Change(r)
  <2>1. /\ tab.at = "list" /\ ~tab.loading
        /\ \A q \in asked : Products!Change(q) /\ q.product = r.product => q = r
        /\ \A q \in asked : ~Products!Question(q) /\ ~Products!Save(q)
    BY <1>5 DEF Settled, Products!InFlight, Products!LoadFits
  <2>2. /\ FailureShown(r) \/ ChangeShown(r)
        /\ r.answer = "ok" => ChangeShown(r)
    BY <1>1, <1>5, <2>1
    DEF Heard, Success, ListShown, ProductShown, Products!Change
  <2>3. ~tab'.loading
    BY <2>1, <2>2 DEF FailureShown, ChangeShown
  <2>4. Products!InFlight'
    BY <1>1, <1>2, <2>1, <2>3
    DEF Settled, Products!InFlight, Products!Here, Products!Change, Products!Save
  <2>5. Products!LoadFits'
    <3>1. \A q \in asked' : ~Products!Question(q)'
      BY <1>1, <1>2, <2>1 DEF Products!Question, Products!Here
    <3> QED BY <2>3, <3>1 DEF Products!LoadFits
  <2>6. Products!ShownFits'
    <3>0. CASE tab.n = 0
      BY <1>2, <3>0, ShownIsNext DEF Showing
    <3>1. CASE tab.n # 0
      <4>1. (\E active : Explains(active)) /\ ChangesTold
        BY <2>1, <3>1, ShownIs DEF Settled, Showing
      <4>2. PICK active : Explains(active)
        BY <4>1
      <4>3. ChangesTold'
        BY <1>1, <4>1 DEF ChangesTold, Products!Change
      <4>4. CASE r.answer # "ok"
        <5>1. tab'.shown = tab.shown
          BY <2>2, <4>4 DEF FailureShown, ChangeShown
        <5>2. Products!ListedWith(active)' = Products!ListedWith(active)
          BY ListedSame
        <5>3. Explains(active)'
          BY <1>1, <4>2, <4>4, <5>1, <5>2 DEF Explains, Products!Change
        <5> QED BY <4>3, <5>3, ShownIsNext
      <4>5. CASE r.answer = "ok"
        <5>1. PICK told : told = [active EXCEPT ![r.product] = (r.kind = "activate")]
          OBVIOUS
        <5>2. /\ active \in [1..Len(rows) -> BOOLEAN] /\ tab.shown = Products!ListedWith(active)
              /\ r.product \in 1..Len(rows) /\ rows[r.product].active = (r.kind = "activate")
          BY <1>5, <4>1, <4>2, <4>5 DEF Explains, ChangesTold
        <5>3. told \in [1..Len(rows) -> BOOLEAN]
          BY <5>1, <5>2
        <5>4. Products!Range(tab.shown) = Entries(active)
          BY <5>2, ListedIs DEF Sound, Types
        <5>5. Retold(tab.shown, r) = Entries(told)
          BY ZenonT(60), <5>1, <5>2, <5>4, RetoldEntries
        <5>6. tab'.shown = Products!ListedWith(told)
          BY <2>2, <4>5, <5>5 DEF ChangeShown, Products!ListedWith, Entries, Products!Stored
        <5>7. Products!ListedWith(told)' = Products!ListedWith(told)
          BY ListedSame
        <5>8. ASSUME NEW p \in 1..Len(rows), told[p] # rows[p].active
              PROVE  \E q \in asked' : Products!Change(q) /\ q.product = p /\ q.answer = "ok"
          <6>1. p # r.product /\ active[p] # rows[p].active
            BY <5>1, <5>2, <5>8
          <6>2. PICK q \in asked : Products!Change(q) /\ q.product = p /\ q.answer = "ok"
            BY <4>2, <6>1 DEF Explains
          <6> QED BY <1>1, <6>1, <6>2
        <5>9. Explains(told)'
          BY <5>3, <5>6, <5>7, <5>8 DEF Explains, Products!Change
        <5> QED BY <4>3, <5>9, ShownIsNext
      <4> QED BY <4>4, <4>5
    <3> QED BY <3>0, <3>1
  <2> QED BY <2>4, <2>5, <2>6 DEF Settled
<1>6. CASE Products!Here(r) /\ tab.at # "list" /\ ~Products!Change(r)
  <2>1. \A q \in asked : q.waits /\ ~Products!Change(q)
    BY <1>6 DEF Settled, Products!InFlight
  <2>2. tab'.pending = (tab.pending /\ ~Products!Save(r)) \/ tab'.pending = tab.pending
    BY <1>1, <1>6 DEF Heard, Success, FailureShown, ListShown, ProductShown, ChangeShown
  <2>3. Products!InFlight'
    <3>1. CASE Products!Save(r)
      <4>1. \A q \in asked' : ~Products!Save(q)
        BY <1>1, <3>1 DEF Settled, Products!InFlight
      <4> QED BY <1>1, <2>1, <4>1 DEF Products!InFlight, Products!Change, Products!Save
    <3>2. CASE ~Products!Save(r)
      <4>1. tab.pending => tab'.pending
        BY <2>2, <3>2
      <4> QED
        BY <1>1, <1>2, <2>1, <4>1
        DEF Settled, Products!InFlight, Products!Here, Products!Change, Products!Save
    <3> QED BY <3>1, <3>2
  <2>4. Products!LoadFits' /\ Products!ShownFits'
    BY <1>2, <1>6, ShownIsNext DEF Products!LoadFits, Showing
  <2> QED BY <2>3, <2>4 DEF Settled
<1>7. Products!Save(r) => tab.at # "list" /\ ~Products!Change(r)
  BY DEF Settled, Products!InFlight, Products!Save, Products!Change
<1> QED BY <1>k, <1>3, <1>4, <1>5, <1>6, <1>7 DEF Products!Save, Products!Change

\* An answer is handled, or a saved form goes to the list.
LEMMA ReceivedSettled == ASSUME Sound, Settled, patient, ReceivedStep PROVE Settled'
<1>0. PICK r \in asked : ReceivedFrom(r)
  BY DEF ReceivedStep
<1>1. CASE TurnedTo(r)
  BY <1>0, <1>1, TurnedSettled DEF ReceivedFrom
<1>2. CASE Returned(r)
  <2>1. Products!Save(r)
    BY <1>2 DEF Returned
  <2>2. \A q \in asked \ {r} : q.waits /\ ~Products!Save(q) /\ ~Products!Change(q)
    BY <2>1 DEF Settled, Products!InFlight
  <2>3. \A q \in asked \ {r} : q.kind = "load" /\ q.waits
    BY <2>2 DEF Sound, Types, Products!RequestRecord, Products!Save, Products!Change
  <2> QED BY <1>2, <2>3, MountSettled DEF Returned
<1> QED BY <1>0, <1>1, <1>2 DEF ReceivedFrom

\* Every step of the catalogue keeps its invariant.
LEMMA ProductsStep == Products!IInv /\ [Products!Next]_productVars => Products!IInv'
<1> SUFFICES ASSUME Products!IInv, [Products!Next]_productVars PROVE Products!IInv'
  OBVIOUS
<1>0. Sound /\ (Products!Undisturbed => Settled)
  BY InvIs
<1>1. Sound'
  BY <1>0, SoundStep
<1>2. ASSUME Products!Undisturbed' PROVE Settled'
  <2>1. CASE UNCHANGED productVars
    <3>1. Settled /\ rows' = rows /\ tab' = tab /\ asked' = asked
      BY <1>0, <1>2, <2>1 DEF productVars, Products!Undisturbed
    <3>2. Products!InFlight'
      BY <3>1 DEF Settled, Products!InFlight, Products!Change, Products!Save, Products!Here
    <3>3. Products!LoadFits'
      BY <3>1, ListingSame DEF Settled, Products!LoadFits, Products!Question, Products!Here
    <3>4. Products!ShownFits'
      <4>1. CASE ~Showing
        BY <3>1, <4>1, ShownIsNext DEF Showing
      <4>2. CASE Showing
        <5>1. (\E active : Explains(active)) /\ ChangesTold
          BY <3>1, <4>2, ShownIs DEF Settled
        <5>2. PICK active : Explains(active)
          BY <5>1
        <5>3. Products!ListedWith(active)' = Products!ListedWith(active)
          BY <3>1, ListedSame
        <5>4. Explains(active)' /\ ChangesTold'
          BY <3>1, <5>1, <5>2, <5>3 DEF Explains, ChangesTold, Products!Change
        <5> QED BY <5>4, ShownIsNext
      <4> QED BY <4>1, <4>2
    <3> QED BY <3>2, <3>3, <3>4 DEF Settled
  <2>2. CASE Products!Next
    <3>1. OpenedStep \/ WorkStep \/ Edited \/ ServedStep \/ ReceivedStep \/ DroppedStep
      BY <1>0, <2>2, StepIs
    <3>2. ~DroppedStep
      BY <1>2 DEF DroppedStep, Dropped, Products!Undisturbed
    <3>3. patient' = patient /\ lost' = lost
      BY <3>1, <3>2
      DEF OpenedStep, WorkStep, ServedStep, ReceivedStep, Opened, Retried, ChangeAsked, Submitted,
          Edited, Posted, Standing, ServedFor, Untouched, ReceivedFrom
    <3>4. patient /\ Settled
      BY <1>0, <1>2, <3>3 DEF Products!Undisturbed
    <3> QED
      BY <1>0, <3>1, <3>2, <3>4, OpenedSettled, ChangeSettled, RetrySettled, SubmitSettled,
         EditedSettled, ServedSettled, ReceivedSettled DEF WorkStep
  <2> QED BY <2>1, <2>2
<1>3. Products!IInv' <=> Sound' /\ (Products!Undisturbed' => Settled')
  BY InvIsNext
<1> QED BY <1>1, <1>2, <1>3

\* At the beginning no page is open.
LEMMA ProductsInit == Products!Init => Products!IInv
<1> SUFFICES ASSUME Products!Init PROVE Products!IInv
  OBVIOUS
<1>1. Sound
  BY SoundInit
<1>2. asked = {} /\ ~tab.loading /\ tab.n = 0
  BY DEF Products!Init, Products!Closed
<1>3. Products!InFlight /\ Products!LoadFits /\ Products!ShownFits
  BY <1>2 DEF Products!InFlight, Products!LoadFits, Products!ShownFits
<1> QED BY <1>1, <1>3, InvIs DEF Settled

\* The list is the catalogue once nothing is in flight.
LEMMA ListSettled == Products!IInv => Products!ListIsCatalogue
<1> SUFFICES ASSUME Products!IInv, patient, lost = 0, tab.at = "list", tab.n # 0, asked = {}
             PROVE  tab.shown = Products!Listing
  BY DEF Products!ListIsCatalogue
<1>1. Sound /\ Settled
  BY InvIs DEF Products!Undisturbed
<1>2. ~tab.loading
  BY <1>1 DEF Settled, Products!LoadFits
<1>3. PICK active : Explains(active)
  BY <1>1, <1>2, ShownIs DEF Settled, Showing
<1>4. /\ active \in [1..Len(rows) -> BOOLEAN] /\ tab.shown = Products!ListedWith(active)
      /\ \A p \in 1..Len(rows) : active[p] = rows[p].active
  BY <1>3 DEF Explains
<1>5. active = Archived
  BY <1>4 DEF Archived
<1> QED BY <1>1, <1>4, <1>5, ListingIs DEF Sound, Types

(* The catalogue's pages in any behaviour of their own: types, the list that is the
   catalogue, and forms that send the image that is wanted.  *)
THEOREM ProductsCorrect ==
  Products!Spec => []Products!TypeOK /\ []Products!ListIsCatalogue /\ []Products!SentIsWanted
<1>1. [Products!Next]_Products!vars => [Products!Next]_productVars
  BY DEF Products!vars, productVars
<1>2. Products!IInv => Products!TypeOK /\ Products!SentIsWanted
  BY DEF Products!IInv
<1> QED BY <1>1, <1>2, ProductsInit, ProductsStep, ListSettled, PTL DEF Products!Spec

-----------------------------------------------------------------------------
(* The shop *)

\* The parts of the model begin with their invariants and keep them.
ShopInv == IInv /\ Session!IInv /\ Products!IInv

\* Every part begins in order.
LEMMA ShopInit == MCInit => ShopInv
BY InitInv, SessionInit, ProductsInit DEF MCInit, ShopInv

\* A step of one part leaves the others alone.
LEMMA ShopStep ==
  ShopInv /\ [MCNext]_<<part, vars, sessionVars, productVars>> => ShopInv'
<1> SUFFICES ASSUME ShopInv, [MCNext]_<<part, vars, sessionVars, productVars>> PROVE ShopInv'
  OBVIOUS
<1>1. [Next]_vars /\ [Session!Next]_sessionVars /\ [Products!Next]_productVars
  BY DEF MCNext, Products!Next
<1> QED BY <1>1, StepInv, SessionStep, ProductsStep DEF ShopInv

\* Where the three parts stand in any behaviour of the shop.
THEOREM ShopInvariant == MCSpec => []ShopInv
BY ShopInit, ShopStep, PTL DEF MCSpec

(* The shop's row repeats the active card in every interleaving of any number of
   requests (updatePaymentCard, activatePaymentCard).  *)
THEOREM ShopMirrored == MCSpec => []ActiveMirrored
<1>1. ShopInv => ActiveMirrored
  BY DEF ShopInv, IInv
<1> QED BY <1>1, ShopInvariant, PTL

(* Whatever requests overlap, the operator sees in each shop its own settings alone, and
   the shops the database has once all are answered, if none overlapped and no answer was
   lost; the account page has at most one change of a card or of the contacts in flight,
   and no spinner without its request (AccountPage.tsx).  *)
THEOREM ShopSessionAgrees == MCSpec => []SessionAgrees
<1>1. ShopInv => SessionAgrees
  BY OwnCopies DEF ShopInv, SessionAgrees, Session!IInv, Session!OneAtATime, Session!CopyCurrent
<1> QED BY <1>1, ShopInvariant, PTL

(* Once nothing is under way the list of products is the catalogue as it is stored, if the
   operator waits; every form sends the image the operator settled on (ProductsPage.tsx,
   ProductFormPage.tsx).  *)
THEOREM ShopCatalogueAgrees == MCSpec => []CatalogueAgrees
<1>1. Products!IInv => CatalogueAgrees
  BY ListSettled DEF CatalogueAgrees, Products!IInv
<1>2. ShopInv => CatalogueAgrees
  BY <1>1 DEF ShopInv
<1> QED BY <1>2, ShopInvariant, PTL
=============================================================================
