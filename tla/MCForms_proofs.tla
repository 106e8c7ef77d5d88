------------------------------ MODULE MCForms_proofs ------------------------------
(* Proofs about the forms orders come from (MCForms), for any number of tabs, sales, keys,
   products, amounts, images and requests:

   - CreateOrderPage: what a request, a page and an answer say of an order is true of the
     stored one (RequestFits).  The page a careful operator used is still there and waits
     for its only request (Attended); if it is the only tab, the stored orders are those seen
     created and the one under the tab's key (AloneInv), so none is stored twice.

   - OrderDraft: the amount of the products is the sum, taken from any product, of what each
     costs (TotalSums); the count of working days ends, since seven days after the last
     holiday hold at least one, and it ends where it should (PromiseKept).  Both are shown by
     the smallest case that fails (Least).

   - ImportOrderForm: a patient operator has one image in preparation at most (OneImage), the
     form's own; so the request has the reviewed one.

   - CustomerPage: the request for details has valid ones (RequestFits); in one tab what is
     stored as draft is what was typed last (AloneInv).

   A behaviour is of one part, and its steps leave the other parts alone (FormsStep).  *)
EXTENDS MCForms, FiniteSetTheorems, FunctionTheorems, NaturalsInduction, WellFoundedInduction, TLAPS

-----------------------------------------------------------------------------
(* The creation page (CreateOrderPage) *)

\* The forms' constants satisfy what the creation page assumes.
LEMMA CreationConstants == Creation!BoundAssumption
BY FormsAssumption

\* A missing order, page or created order is told from an existing one.
LEMMA CreationNothing ==
    /\ Creation!NoOrder.sale = None /\ Creation!NotCreated.key = None
    /\ \A o \in Creation!Order : o # Creation!NoOrder /\ o.sale \in Sales /\ o.sale # None /\ o.corrected \in BOOLEAN
    /\ \A c \in Creation!Created : c # Creation!NotCreated /\ c.key \in Keys /\ c.corrected \in BOOLEAN
    /\ Creation!NoPage \in Creation!Page /\ Creation!NoPage.n = 0 /\ Creation!NoPage.key = None
    /\ Creation!NoPage.form = None /\ Creation!NoPage.pending = FALSE
    /\ Creation!NoPage.created = Creation!NotCreated
<1>1. 0 \in 0..MaxMounts
  BY CreationConstants DEF Creation!BoundAssumption
<1>2. \A c \in Creation!Created : c.key \in Keys /\ c.corrected \in BOOLEAN
  BY DEF Creation!Created
<1>3. \A o \in Creation!Order : o.sale \in Sales /\ o.corrected \in BOOLEAN
  BY DEF Creation!Order
<1>4. Creation!NoOrder.sale = None /\ Creation!NotCreated.key = None
  BY DEF Creation!NoOrder, Creation!NotCreated
<1>5. None \notin Keys /\ None \notin Sales
  BY CreationConstants DEF Creation!BoundAssumption
<1>6. /\ Creation!NoPage \in Creation!Page /\ Creation!NoPage.n = 0 /\ Creation!NoPage.key = None
      /\ Creation!NoPage.form = None /\ Creation!NoPage.pending = FALSE
      /\ Creation!NoPage.created = Creation!NotCreated
  BY <1>1 DEF Creation!NoPage, Creation!Page
<1> QED BY <1>2, <1>3, <1>4, <1>5, <1>6

\* The fields of a page and of a request.
LEMMA CreationFields ==
    ASSUME NEW g \in Creation!Page
    PROVE  /\ g.n \in 0..MaxMounts /\ g.key \in Keys \cup {None} /\ g.form \in Sales \cup {None}
           /\ g.pending \in BOOLEAN /\ g.created \in Creation!Created \cup {Creation!NotCreated}
BY DEF Creation!Page

\* The fields of a request.
LEMMA CreationRequest ==
    ASSUME NEW r \in Creation!Request
    PROVE  /\ r.tab \in Tabs /\ r.n \in 1..MaxMounts /\ r.key \in Keys /\ r.form \in Sales \cup {None}
           /\ r.created \in Creation!Created \cup {Creation!NotCreated}
           /\ r.kind \in {"create", "correct"} /\ r.n # 0
BY CreationConstants DEF Creation!Request, Creation!BoundAssumption

\* The invariant of the creation page, the careful operator's part apart.
CreationBase ==
    /\ Creation!TypeOK /\ Creation!CreatedIsStored
    /\ \A t \in Tabs : page[t].n # 0 => page[t].key # None
    /\ \A r \in requests : Creation!RequestFits(r)

\* What only a careful operator's page keeps.
CreationCare == Creation!Attended /\ Creation!BusyWhilePending

\* The invariant, with what does not depend on the operator apart.
LEMMA CreationParts == Creation!IInv <=> CreationBase /\ (careful => CreationCare)
BY DEF Creation!IInv, CreationBase, CreationCare

\* A browser without tabs, and a shop without orders.
LEMMA CreationInit ==
    Creation!Init => Creation!IInv /\ (careful => Creation!AloneInv(Alone))
<1> SUFFICES ASSUME Creation!Init PROVE Creation!IInv /\ (careful => Creation!AloneInv(Alone))
  OBVIOUS
<1>1. Creation!TypeOK
  <2>1. sent \in 0..MaxRequests + MaxUpdates /\ lost \in 0..MaxLosses /\ mounts \in 0..MaxMounts
    BY CreationConstants DEF Creation!Init, Creation!BoundAssumption
  <2> QED BY <2>1, CreationNothing DEF Creation!Init, Creation!TypeOK
<1>2. Creation!CreatedIsStored /\ Creation!Attended /\ Creation!BusyWhilePending
  BY CreationNothing DEF Creation!Init, Creation!CreatedIsStored, Creation!Attended, Creation!BusyWhilePending
<1>3. Creation!IInv
  BY <1>1, <1>2, CreationNothing DEF Creation!IInv, Creation!Init
<1>4. ASSUME careful PROVE Creation!AloneInv(Alone)
  <2>1. Alone \in Tabs
    BY FormsAssumption
  <2>2. Creation!Only(Alone) /\ Creation!KeyFits(Alone)
    BY <2>1, CreationNothing DEF Creation!Init, Creation!Only, Creation!KeyFits
  <2>3. Creation!SalesFit(Alone) /\ Creation!NoDuplicate
    BY <2>1, CreationNothing DEF Creation!Init, Creation!SalesFit, Creation!NoDuplicate
  <2> QED BY <1>4, <2>2, <2>3 DEF Creation!AloneInv, Creation!Init
<1> QED BY <1>3, <1>4

\* A step on page t, whose requests stay, under what the page may do.
LEMMA CreationEdit ==
    ASSUME Creation!IInv, NEW t \in Tabs, NEW g \in Creation!Page, page' = [page EXCEPT ![t] = g],
           UNCHANGED <<careful, stored, requests, seen, sent, lost>>,
           storage' \in [Tabs -> Keys \cup {None}],
           clipboard' \in [key : Keys \cup {None}, amountOf : Sales \cup {None}],
           drawn' \subseteq Keys, mounts' \in 0..MaxMounts,
           g.n = 0 => g = Creation!NoPage, g.n # 0 => g.key # None,
           g.created \in {Creation!NotCreated, page[t].created},
           creating' = creating \/ (creating' = [creating EXCEPT ![t] = FALSE] /\ ~g.pending),
           g.pending => page[t].pending,
           careful => \A r \in requests : r.kind = "create" /\ r.tab = t =>
                         g.n = page[t].n /\ g.pending /\ creating' = creating
    PROVE  Creation!IInv'
<1>1. Creation!TypeOK'
  BY DEF Creation!IInv, Creation!TypeOK
<1>2. Creation!CreatedIsStored'
  BY DEF Creation!IInv, Creation!TypeOK, Creation!CreatedIsStored
<1>3. (\A u \in Tabs : page[u].n # 0 => page[u].key # None)'
  BY DEF Creation!IInv, Creation!TypeOK
<1>4. ASSUME NEW r \in requests PROVE Creation!RequestFits(r)'
  BY DEF Creation!IInv, Creation!RequestFits, Creation!IsStored
<1>5. ASSUME careful PROVE Creation!Attended' /\ Creation!BusyWhilePending'
  <2>1. \A r \in requests : r.tab \in Tabs
    BY CreationRequest DEF Creation!IInv, Creation!TypeOK
  <2>2. page \in [Tabs -> Creation!Page] /\ creating \in [Tabs -> BOOLEAN]
    BY DEF Creation!IInv, Creation!TypeOK
  <2>3. Creation!Attended'
    BY <1>5, <2>1, <2>2 DEF Creation!IInv, Creation!Attended, Creation!Mounted
  <2>4. Creation!BusyWhilePending'
    BY <1>5, <2>2 DEF Creation!IInv, Creation!BusyWhilePending
  <2> QED BY <2>3, <2>4
<1> QED BY <1>1, <1>2, <1>3, <1>4, <1>5 DEF Creation!IInv

\* A careful operator in one tab.
LEMMA CreationAlone ==
    ASSUME Creation!IInv, Creation!AloneInv(Alone)
    PROVE  /\ careful /\ Alone \in Tabs
           /\ \A u \in Tabs : u # Alone => page[u] = Creation!NoPage /\ storage[u] = None
           /\ \A r \in requests :
                 /\ r.kind = "create" /\ r.tab = Alone /\ page[Alone].pending
                 /\ r.n = page[Alone].n /\ r.n # 0 /\ page[Alone].created = Creation!NotCreated
                 /\ r.key = page[Alone].key /\ r.key = storage[Alone] /\ r.key \in drawn
                 /\ \A s \in requests : s = r
<1>1. careful /\ Alone \in Tabs
  BY FormsAssumption DEF Creation!AloneInv
<1>2. \A u \in Tabs : u # Alone => page[u] = Creation!NoPage /\ storage[u] = None
  BY DEF Creation!AloneInv, Creation!Only
<1>3. ASSUME NEW r \in requests
      PROVE  /\ r.kind = "create" /\ r.tab = Alone /\ page[Alone].pending
             /\ r.n = page[Alone].n /\ r.n # 0 /\ page[Alone].created = Creation!NotCreated
             /\ r.key = page[Alone].key /\ r.key = storage[Alone] /\ r.key \in drawn
             /\ \A s \in requests : s = r
  <2>1. r.kind = "create" /\ r.tab = Alone /\ r.n # 0 /\ \A s \in requests : s.kind = "create" /\ s.tab = Alone
    BY CreationRequest DEF Creation!AloneInv, Creation!Only, Creation!IInv, Creation!TypeOK
  <2>2. r.n = page[Alone].n /\ page[Alone].pending /\ \A s \in requests : s = r
    BY <1>1, <2>1 DEF Creation!IInv, Creation!Attended, Creation!Mounted
  <2>3. r.key = page[Alone].key /\ page[Alone].created = Creation!NotCreated
    BY <2>2 DEF Creation!AloneInv, Creation!KeyFits
  <2>4. r.key = storage[Alone] /\ r.key # None
    BY <1>1, <2>1, <2>2, <2>3 DEF Creation!AloneInv, Creation!KeyFits, Creation!IInv
  <2> QED BY <2>1, <2>2, <2>3, <2>4 DEF Creation!AloneInv, Creation!KeyFits
<1> QED BY <1>1, <1>2, <1>3

\* A step of the one page that is used, whose key is kept or newly drawn.
LEMMA CreationAloneEdit ==
    ASSUME Creation!IInv, Creation!AloneInv(Alone), NEW g \in Creation!Page, page' = [page EXCEPT ![Alone] = g],
           NEW k \in Keys \cup {None}, storage' = [storage EXCEPT ![Alone] = k],
           UNCHANGED <<careful, stored, seen>>, drawn \subseteq drawn',
           \A r \in requests' : r.kind = "create" /\ r.tab = Alone /\ r.key = g.key /\ r.form \notin seen,
           k # None => k \in drawn',
           g.n # 0 /\ g.created = Creation!NotCreated => k = g.key,
           g.created # Creation!NotCreated => k = None /\ ~g.pending,
           g.created = Creation!NotCreated => g.form \notin seen,
           k = storage[Alone] \/ (storage[Alone] = None /\ k \notin drawn)
    PROVE  Creation!AloneInv(Alone)'
<1>1. /\ page \in [Tabs -> Creation!Page] /\ storage \in [Tabs -> Keys \cup {None}]
      /\ page'[Alone] = g /\ storage'[Alone] = k /\ Alone \in Tabs
  BY FormsAssumption DEF Creation!IInv, Creation!TypeOK
<1>2. Creation!Only(Alone)'
  BY <1>1 DEF Creation!AloneInv, Creation!Only
<1>3. Creation!KeyFits(Alone)'
  BY <1>1 DEF Creation!KeyFits
<1>4. Creation!SalesFit(Alone)'
  <2>1. ASSUME NEW m \in Keys, stored[m] # Creation!NoOrder
        PROVE m \in drawn' /\ (stored[m].sale \in seen <=> k # m)
    <3>1. m \in drawn /\ (stored[m].sale \in seen <=> storage[Alone] # m)
      BY <2>1 DEF Creation!AloneInv, Creation!SalesFit
    <3>2. None \notin Keys
      BY CreationConstants DEF Creation!BoundAssumption
    <3> QED BY <3>1, <3>2
  <2> QED BY <1>1, <2>1 DEF Creation!SalesFit
<1> QED BY <1>2, <1>3, <1>4 DEF Creation!AloneInv, Creation!NoDuplicate

\* A page that opens has nothing in flight (useState, newCreateKey).
LEMMA CreationOpen ==
    ASSUME Creation!IInv, NEW t \in Tabs, NEW k \in Keys, Creation!Open(t, k)
    PROVE  /\ Creation!IInv' /\ page'[t].n # 0
           /\ t = Alone /\ Creation!AloneInv(Alone) => Creation!AloneInv(Alone)'
<1> DEFINE g == [Creation!NoPage EXCEPT !.n = mounts + 1, !.key = k]
<1>1. /\ page \in [Tabs -> Creation!Page] /\ page[t].n = 0 /\ page[t] = Creation!NoPage /\ mounts \in 0..MaxMounts
      /\ storage \in [Tabs -> Keys \cup {None}] /\ drawn \subseteq Keys
      /\ page' = [page EXCEPT ![t] = g] /\ mounts + 1 \in 0..MaxMounts /\ mounts + 1 # 0
      /\ storage' = [storage EXCEPT ![t] = k] /\ drawn' = drawn \cup {k}
      /\ UNCHANGED <<careful, stored, creating, requests, clipboard, seen, sent, lost>> /\ mounts' = mounts + 1
      /\ k # None
  BY CreationConstants DEF Creation!IInv, Creation!TypeOK, Creation!Open, Creation!BoundAssumption
<1>2. /\ g \in Creation!Page /\ g.n = mounts + 1 /\ g.key = k /\ g.form = None /\ g.pending = FALSE
      /\ g.created = Creation!NotCreated
  BY <1>1, CreationNothing DEF Creation!Page
<1> HIDE DEF g
<1>3. careful => \A r \in requests : ~(r.kind = "create" /\ r.tab = t)
  BY <1>1, CreationRequest DEF Creation!IInv, Creation!TypeOK, Creation!Attended, Creation!Mounted
<1>4. Creation!IInv'
  BY ZenonT(60), <1>1, <1>2, <1>3, CreationEdit DEF Creation!IInv, Creation!TypeOK
<1>5. ASSUME t = Alone, Creation!AloneInv(Alone) PROVE Creation!AloneInv(Alone)'
  <2>1. requests' = {}
    BY <1>1, <1>3, <1>5, CreationAlone
  <2>2. None \notin seen
    BY CreationConstants DEF Creation!IInv, Creation!TypeOK, Creation!BoundAssumption
  <2>3. k = storage[Alone] \/ (storage[Alone] = None /\ k \notin drawn)
    BY <1>5 DEF Creation!Open, Creation!NewCreateKey
  <2> QED BY <1>1, <1>2, <1>5, <2>1, <2>2, <2>3, CreationAloneEdit
<1> QED BY <1>1, <1>2, <1>4, <1>5

\* A careful operator leaves nothing in flight behind.
LEMMA CreationLeave ==
    ASSUME Creation!IInv, NEW t \in Tabs, Creation!Leave(t)
    PROVE  Creation!IInv' /\ (Creation!AloneInv(Alone) => Creation!AloneInv(Alone)')
<1>1. /\ page \in [Tabs -> Creation!Page] /\ page[t].n # 0 /\ storage \in [Tabs -> Keys \cup {None}]
      /\ page' = [page EXCEPT ![t] = Creation!NoPage] /\ creating' = [creating EXCEPT ![t] = FALSE]
      /\ UNCHANGED <<careful, stored, storage, requests, clipboard, drawn, seen, sent, lost, mounts>>
      /\ careful => ~page[t].pending
  BY DEF Creation!IInv, Creation!TypeOK, Creation!Leave, Creation!counts
<1>2. careful => \A r \in requests : ~(r.kind = "create" /\ r.tab = t)
  BY <1>1 DEF Creation!IInv, Creation!Attended
<1>3. Creation!IInv'
  BY <1>1, <1>2, CreationNothing, CreationEdit DEF Creation!IInv, Creation!TypeOK
<1>4. ASSUME Creation!AloneInv(Alone) PROVE Creation!AloneInv(Alone)'
  <2>1. t = Alone /\ Alone \in Tabs /\ requests' = {}
    BY <1>1, <1>2, <1>4, CreationAlone, CreationNothing
  <2>2. None \notin seen
    BY CreationConstants DEF Creation!IInv, Creation!TypeOK, Creation!BoundAssumption
  <2>3. storage' = [storage EXCEPT ![Alone] = storage[Alone]] /\ storage[Alone] \in Keys \cup {None}
    BY <1>1, <2>1
  <2>4. storage[Alone] # None => storage[Alone] \in drawn
    BY <1>4 DEF Creation!AloneInv, Creation!KeyFits
  <2> QED BY <1>1, <1>4, <2>1, <2>2, <2>3, <2>4, CreationNothing, CreationAloneEdit
<1> QED BY <1>3, <1>4

\* Entering a sale disturbs no request, which has its own copy of the form.
LEMMA CreationFill ==
    ASSUME Creation!IInv, NEW t \in Tabs, NEW sale \in Sales, Creation!Fill(t, sale)
    PROVE  Creation!IInv' /\ (Creation!AloneInv(Alone) => Creation!AloneInv(Alone)')
<1> DEFINE g == [page[t] EXCEPT !.form = sale]
<1>1. /\ page \in [Tabs -> Creation!Page] /\ page[t] \in Creation!Page /\ page[t].n # 0
      /\ storage \in [Tabs -> Keys \cup {None}]
      /\ page' = [page EXCEPT ![t] = g] /\ sale \notin seen /\ page[t].created = Creation!NotCreated
      /\ UNCHANGED <<careful, stored, storage, creating, requests, clipboard, drawn, seen, sent, lost, mounts>>
  BY DEF Creation!IInv, Creation!TypeOK, Creation!Fill, Creation!counts
<1>2. /\ g \in Creation!Page /\ g.n = page[t].n /\ g.key = page[t].key /\ g.form = sale /\ g.pending = page[t].pending
      /\ g.created = page[t].created
  BY <1>1 DEF Creation!Page
<1> HIDE DEF g
<1>3. careful => \A r \in requests : r.kind = "create" /\ r.tab = t => g.pending
  BY <1>2 DEF Creation!IInv, Creation!Attended
<1>4. Creation!IInv'
  <2>1. /\ page[t].key # None /\ storage' \in [Tabs -> Keys \cup {None}] /\ drawn' \subseteq Keys
        /\ mounts' \in 0..MaxMounts /\ clipboard' \in [key : Keys \cup {None}, amountOf : Sales \cup {None}]
    BY <1>1 DEF Creation!IInv, Creation!TypeOK
  <2>2. careful => \A r \in requests : r.kind = "create" /\ r.tab = t =>
                      g.n = page[t].n /\ g.pending /\ creating' = creating
    BY <1>1, <1>2, <1>3
  <2>3. /\ UNCHANGED <<careful, stored, requests, seen, sent, lost>> /\ creating' = creating
        /\ g.n # 0 /\ g.key # None /\ g.created \in {Creation!NotCreated, page[t].created}
        /\ g.pending => page[t].pending
    BY <1>1, <1>2, <2>1
  <2>4. g \in Creation!Page /\ page' = [page EXCEPT ![t] = g]
    BY <1>1, <1>2
  <2> QED BY <2>1, <2>2, <2>3, <2>4, CreationEdit
<1>5. ASSUME Creation!AloneInv(Alone) PROVE Creation!AloneInv(Alone)'
  <2>1. t = Alone /\ Alone \in Tabs
    BY <1>1, <1>5, CreationAlone, CreationNothing
  <2>2. storage' = [storage EXCEPT ![Alone] = storage[Alone]] /\ storage[Alone] \in Keys \cup {None}
    BY <1>1, <2>1
  <2>3. /\ storage[Alone] # None => storage[Alone] \in drawn
        /\ storage[Alone] = page[Alone].key
        /\ \A r \in requests : r.form \notin seen /\ r.key = page[Alone].key
    BY <1>1, <1>5, <2>1 DEF Creation!AloneInv, Creation!KeyFits, Creation!SalesFit
  <2>4. \A r \in requests' : r.kind = "create" /\ r.tab = Alone /\ r.key = g.key /\ r.form \notin seen
    BY <1>1, <1>2, <1>5, <2>1, <2>3, CreationAlone
  <2>5. /\ UNCHANGED <<careful, stored, seen>> /\ drawn \subseteq drawn' /\ g \in Creation!Page
        /\ storage[Alone] # None => storage[Alone] \in drawn'
        /\ storage[Alone] = g.key /\ g.created = Creation!NotCreated /\ g.form \notin seen
        /\ page' = [page EXCEPT ![Alone] = g]
    BY <1>1, <1>2, <2>1, <2>3
  <2> QED BY <1>5, <2>2, <2>4, <2>5, CreationAloneEdit
<1> QED BY <1>4, <1>5

\* Copying the message changes the clipboard only.
LEMMA CreationCopy ==
    ASSUME Creation!IInv, NEW t \in Tabs, Creation!CopyMessage(t)
    PROVE  Creation!IInv' /\ (Creation!AloneInv(Alone) => Creation!AloneInv(Alone)')
<1>1. /\ UNCHANGED <<careful, stored, storage, page, creating, requests, drawn, seen, sent, lost, mounts>>
      /\ clipboard' = [key |-> page[t].created.key, amountOf |-> page[t].form]
      /\ page[t] \in Creation!Page /\ page[t].created # Creation!NotCreated
  BY DEF Creation!IInv, Creation!TypeOK, Creation!CopyMessage, Creation!counts
<1>2. clipboard' \in [key : Keys \cup {None}, amountOf : Sales \cup {None}]
  BY <1>1, CreationFields, CreationNothing
<1>3. Creation!TypeOK' /\ Creation!CreatedIsStored'
  BY <1>1, <1>2 DEF Creation!IInv, Creation!TypeOK, Creation!CreatedIsStored
<1>4. ASSUME NEW r \in requests PROVE Creation!RequestFits(r)'
  BY <1>1 DEF Creation!IInv, Creation!RequestFits, Creation!IsStored
<1>5. careful => (Creation!Attended /\ Creation!BusyWhilePending)'
  BY <1>1 DEF Creation!IInv, Creation!Attended, Creation!BusyWhilePending, Creation!Mounted
<1>6. Creation!AloneInv(Alone) => Creation!AloneInv(Alone)'
  BY <1>1 DEF Creation!AloneInv, Creation!Only, Creation!KeyFits, Creation!SalesFit, Creation!NoDuplicate
<1>7. Creation!IInv'
  BY <1>1, <1>3, <1>4, <1>5 DEF Creation!IInv
<1> QED BY <1>6, <1>7

\* A new form has a key no order was sent under (reset).
LEMMA CreationReset ==
    ASSUME Creation!IInv, NEW t \in Tabs, NEW k \in Keys, Creation!Reset(t, k)
    PROVE  Creation!IInv' /\ (Creation!AloneInv(Alone) => Creation!AloneInv(Alone)')
<1> DEFINE g == [page[t] EXCEPT !.form = None, !.created = Creation!NotCreated, !.key = k]
<1>1. /\ page \in [Tabs -> Creation!Page] /\ page[t] \in Creation!Page /\ k # None /\ k \notin drawn
      /\ storage \in [Tabs -> Keys \cup {None}] /\ drawn \subseteq Keys
      /\ page' = [page EXCEPT ![t] = g] /\ page[t].created # Creation!NotCreated /\ ~page[t].pending
      /\ storage' = [storage EXCEPT ![t] = k] /\ drawn' = drawn \cup {k}
      /\ UNCHANGED <<careful, stored, creating, requests, clipboard, seen, sent, lost, mounts>>
  BY CreationConstants DEF Creation!IInv, Creation!TypeOK, Creation!Reset, Creation!counts, Creation!BoundAssumption
<1>2. /\ g \in Creation!Page /\ g.n = page[t].n /\ g.key = k /\ g.form = None /\ g.pending = page[t].pending
      /\ g.created = Creation!NotCreated
  BY <1>1 DEF Creation!Page
<1> HIDE DEF g
<1>3. careful => \A r \in requests : ~(r.kind = "create" /\ r.tab = t)
  BY <1>1 DEF Creation!IInv, Creation!Attended
<1>4. page[t].n # 0
  BY <1>1, CreationNothing DEF Creation!IInv, Creation!TypeOK
<1>5. Creation!IInv'
  BY ZenonT(60), <1>1, <1>2, <1>3, <1>4, CreationEdit DEF Creation!IInv, Creation!TypeOK
<1>6. ASSUME Creation!AloneInv(Alone) PROVE Creation!AloneInv(Alone)'
  <2>1. t = Alone /\ requests' = {}
    BY <1>1, <1>3, <1>4, <1>6, CreationAlone, CreationNothing
  <2>2. None \notin seen
    BY CreationConstants DEF Creation!IInv, Creation!TypeOK, Creation!BoundAssumption
  <2>3. storage[Alone] = None
    BY <1>1, <1>6, <2>1 DEF Creation!AloneInv, Creation!KeyFits
  <2> QED BY <1>1, <1>2, <1>6, <2>1, <2>2, <2>3, CreationAloneEdit
<1> QED BY <1>5, <1>6

\* What a request is sent with.
LEMMA CreationSend ==
    ASSUME Creation!IInv, NEW t \in Tabs, NEW kind \in {"create", "correct"}, Creation!Sent(t, kind), page[t].n # 0
    PROVE  /\ sent' \in 0..MaxRequests + MaxUpdates
           /\ \E m \in Creation!Request :
                 /\ requests' = requests \cup {m}
                 /\ m.kind = kind /\ m.tab = t /\ m.n = page[t].n /\ m.key = page[t].key
                 /\ m.form = page[t].form /\ m.created = page[t].created /\ m.answer = "none"
<1>1. /\ sent \in 0..MaxRequests + MaxUpdates /\ sent < MaxRequests + MaxUpdates /\ sent' = sent + 1
      /\ page[t] \in Creation!Page /\ page[t].key # None
      /\ MaxRequests \in Nat /\ MaxUpdates \in Nat /\ MaxMounts \in Nat
  BY CreationConstants DEF Creation!IInv, Creation!TypeOK, Creation!Sent, Creation!BoundAssumption
<1>2. sent + 1 \in Nat /\ sent' \in 0..MaxRequests + MaxUpdates
  BY <1>1
<1>3. /\ page[t].n \in 1..MaxMounts /\ page[t].key \in Keys /\ page[t].form \in Sales \cup {None}
      /\ page[t].created \in Creation!Created \cup {Creation!NotCreated}
  <2>1. page[t].n \in 0..MaxMounts /\ page[t].key \in Keys \cup {None}
    BY <1>1, CreationFields
  <2>2. page[t].n \in 1..MaxMounts
    BY <1>1, <2>1
  <2> QED BY <1>1, <2>1, <2>2, CreationFields
<1> DEFINE m == [id |-> sent + 1, kind |-> kind, tab |-> t, n |-> page[t].n, key |-> page[t].key,
                 form |-> page[t].form, created |-> page[t].created, answer |-> "none"]
<1>4. requests' = requests \cup {m}
  BY DEF Creation!Sent
<1>5. m \in Creation!Request
  BY <1>2, <1>3 DEF Creation!Request
<1> QED BY <1>2, <1>4, <1>5

\* The request is sent under the tab's key, and the page waits for it.
LEMMA CreationSubmit ==
    ASSUME Creation!IInv, NEW t \in Tabs, Creation!Submit(t)
    PROVE  Creation!IInv' /\ (Creation!AloneInv(Alone) => Creation!AloneInv(Alone)')
<1> DEFINE g == [page[t] EXCEPT !.pending = TRUE]
<1>1. /\ page \in [Tabs -> Creation!Page] /\ page[t] \in Creation!Page /\ creating \in [Tabs -> BOOLEAN]
      /\ page[t].form # None /\ page[t].created = Creation!NotCreated /\ page[t].pending = FALSE
      /\ page' = [page EXCEPT ![t] = g] /\ creating' = [creating EXCEPT ![t] = TRUE]
      /\ UNCHANGED <<careful, stored, storage, clipboard, drawn, seen, lost, mounts>> /\ Creation!Sent(t, "create")
  BY CreationFields DEF Creation!IInv, Creation!TypeOK, Creation!Submit, Creation!Guarded
<1>2. page[t].n # 0
  BY <1>1, CreationNothing DEF Creation!IInv, Creation!TypeOK
<1>3. /\ g \in Creation!Page /\ g.n = page[t].n /\ g.key = page[t].key /\ g.form = page[t].form /\ g.pending = TRUE
      /\ g.created = Creation!NotCreated
  BY <1>1 DEF Creation!Page
<1> HIDE DEF g
<1>4. PICK m \in Creation!Request :
         /\ requests' = requests \cup {m} /\ sent' \in 0..MaxRequests + MaxUpdates
         /\ m.kind = "create" /\ m.tab = t /\ m.n = page[t].n /\ m.key = page[t].key
         /\ m.form = page[t].form /\ m.created = page[t].created /\ m.answer = "none"
  BY <1>1, <1>2, CreationSend
<1>5. Creation!TypeOK'
  BY <1>1, <1>2, <1>3, <1>4 DEF Creation!IInv, Creation!TypeOK
<1>6. Creation!CreatedIsStored'
  BY <1>1, <1>3 DEF Creation!IInv, Creation!CreatedIsStored
<1>7. (\A u \in Tabs : page[u].n # 0 => page[u].key # None)'
  BY <1>1, <1>3 DEF Creation!IInv
<1>8. ASSUME NEW r \in requests' PROVE Creation!RequestFits(r)'
  BY <1>1, <1>4 DEF Creation!IInv, Creation!RequestFits, Creation!IsStored
<1>9. ASSUME careful PROVE Creation!Attended' /\ Creation!BusyWhilePending'
  <2>1. \A r \in requests : r.kind = "create" => r.tab # t
    BY <1>1, <1>9 DEF Creation!IInv, Creation!Attended
  <2>2. Creation!Attended'
    BY <1>1, <1>3, <1>4, <1>9, <2>1 DEF Creation!IInv, Creation!Attended, Creation!Mounted
  <2>3. Creation!BusyWhilePending'
    BY <1>1, <1>9 DEF Creation!IInv, Creation!BusyWhilePending
  <2> QED BY <2>2, <2>3
<1>10. Creation!IInv'
  BY <1>1, <1>5, <1>6, <1>7, <1>8, <1>9 DEF Creation!IInv
<1>11. ASSUME Creation!AloneInv(Alone) PROVE Creation!AloneInv(Alone)'
  <2>1. t = Alone /\ requests' = {m}
    BY <1>1, <1>2, <1>4, <1>11, CreationAlone, CreationNothing
  <2>2. /\ storage[Alone] \in Keys \cup {None} /\ storage' = [storage EXCEPT ![Alone] = storage[Alone]]
        /\ storage[Alone] # None => storage[Alone] \in drawn'
        /\ storage[Alone] = g.key /\ g.form \notin seen
    BY <1>1, <1>2, <1>3, <1>11, <2>1 DEF Creation!IInv, Creation!TypeOK, Creation!AloneInv, Creation!KeyFits, Creation!SalesFit
  <2>3. \A r \in requests' : r.kind = "create" /\ r.tab = Alone /\ r.key = g.key /\ r.form \notin seen
    BY <1>3, <1>4, <2>1, <2>2
  <2>4. UNCHANGED <<careful, stored, seen>> /\ drawn \subseteq drawn' /\ page' = [page EXCEPT ![Alone] = g]
    BY <1>1, <2>1
  <2> QED BY <1>3, <1>11, <2>2, <2>3, <2>4, CreationAloneEdit
<1> QED BY <1>10, <1>11

\* A corrected date is that of the order the page shows.
LEMMA CreationSave ==
    ASSUME Creation!IInv, NEW t \in Tabs, Creation!SaveDeliveryDate(t)
    PROVE  Creation!IInv' /\ \E r \in requests' : r.kind # "create"
<1> DEFINE g == [page[t] EXCEPT !.updating = TRUE]
<1>1. /\ page \in [Tabs -> Creation!Page] /\ page[t] \in Creation!Page /\ page[t].created # Creation!NotCreated
      /\ page' = [page EXCEPT ![t] = g] /\ Creation!Sent(t, "correct")
      /\ UNCHANGED <<careful, stored, storage, creating, clipboard, drawn, seen, lost, mounts>>
  BY DEF Creation!IInv, Creation!TypeOK, Creation!SaveDeliveryDate
<1>2. page[t].n # 0
  BY <1>1, CreationNothing DEF Creation!IInv, Creation!TypeOK
<1>3. /\ g \in Creation!Page /\ g.n = page[t].n /\ g.key = page[t].key /\ g.form = page[t].form
      /\ g.pending = page[t].pending /\ g.created = page[t].created
  BY <1>1 DEF Creation!Page
<1> HIDE DEF g
<1>4. PICK m \in Creation!Request :
         /\ requests' = requests \cup {m} /\ sent' \in 0..MaxRequests + MaxUpdates
         /\ m.kind = "correct" /\ m.tab = t /\ m.n = page[t].n /\ m.key = page[t].key
         /\ m.form = page[t].form /\ m.created = page[t].created /\ m.answer = "none"
  BY <1>1, <1>2, CreationSend
<1>5. Creation!TypeOK'
  BY <1>1, <1>2, <1>3, <1>4 DEF Creation!IInv, Creation!TypeOK
<1>6. Creation!CreatedIsStored'
  BY <1>1, <1>3 DEF Creation!IInv, Creation!CreatedIsStored
<1>7. (\A u \in Tabs : page[u].n # 0 => page[u].key # None)'
  BY <1>1, <1>3 DEF Creation!IInv
<1>8. ASSUME NEW r \in requests' PROVE Creation!RequestFits(r)'
  BY <1>1, <1>4 DEF Creation!IInv, Creation!RequestFits, Creation!IsStored, Creation!CreatedIsStored
<1>9. ASSUME careful PROVE Creation!Attended' /\ Creation!BusyWhilePending'
  <2>1. \A u \in Tabs : page'[u].n = page[u].n /\ page'[u].pending = page[u].pending
    BY <1>1, <1>3
  <2>2. \A r \in requests : r.tab \in Tabs
    BY CreationRequest DEF Creation!IInv, Creation!TypeOK
  <2>3. Creation!Attended'
    BY <1>1, <1>4, <1>9, <2>1, <2>2 DEF Creation!IInv, Creation!Attended, Creation!Mounted
  <2>4. Creation!BusyWhilePending'
    BY <1>1, <1>9, <2>1 DEF Creation!IInv, Creation!BusyWhilePending
  <2> QED BY <2>3, <2>4
<1> QED BY <1>1, <1>4, <1>5, <1>6, <1>7, <1>8, <1>9 DEF Creation!IInv

\* A step of the server or the network on request r, which never takes an order back.
LEMMA CreationServed ==
    ASSUME Creation!IInv, NEW r \in requests, NEW m \in Creation!Request,
           requests' = (requests \ {r}) \cup {m}, m.kind = r.kind, m.tab = r.tab, m.n = r.n, m.key = r.key,
           m.form = r.form, Creation!RequestFits(m)',
           UNCHANGED <<careful, storage, page, creating, clipboard, drawn, seen, sent, mounts>>,
           lost' \in 0..MaxLosses, stored' \in [Keys -> Creation!Order \cup {Creation!NoOrder}],
           \A k \in Keys : stored[k] # Creation!NoOrder =>
              /\ stored'[k] # Creation!NoOrder /\ stored'[k].sale = stored[k].sale
              /\ stored[k].corrected => stored'[k].corrected
    PROVE  Creation!IInv'
<1>1. Creation!TypeOK'
  BY DEF Creation!IInv, Creation!TypeOK
<1>2. Creation!CreatedIsStored'
  <2>1. \A t \in Tabs : page[t].created # Creation!NotCreated => page[t].created.key \in Keys
    BY CreationFields, CreationNothing DEF Creation!IInv, Creation!TypeOK
  <2> QED BY <2>1 DEF Creation!IInv, Creation!CreatedIsStored
<1>3. (\A u \in Tabs : page[u].n # 0 => page[u].key # None)'
  BY DEF Creation!IInv
<1>4. ASSUME NEW s \in requests PROVE Creation!RequestFits(s)'
  <2>1. /\ Creation!RequestFits(s) /\ s.key \in Keys /\ s.created \in Creation!Created \cup {Creation!NotCreated}
    BY CreationRequest DEF Creation!IInv, Creation!TypeOK
  <2>2. Creation!IsStored(s.created) /\ s.created # Creation!NotCreated =>
          Creation!IsStored(s.created)' /\ stored'[s.created.key].sale = stored[s.created.key].sale
    BY <2>1, CreationNothing DEF Creation!IsStored
  <2>3. s.kind = "create" => s.form # None
    BY <2>1 DEF Creation!RequestFits
  <2>4. s.kind = "create" /\ s.answer = "ok" =>
           Creation!IsStored(s.created)' /\ s.created.key = s.key /\ stored'[s.key].sale = s.form
    <3> SUFFICES ASSUME s.kind = "create" /\ s.answer = "ok"
                 PROVE Creation!IsStored(s.created)' /\ s.created.key = s.key /\ stored'[s.key].sale = s.form
      OBVIOUS
    <3>1. Creation!IsStored(s.created) /\ s.created.key = s.key /\ stored[s.key].sale = s.form
      BY <2>1 DEF Creation!RequestFits
    <3>2. s.created # Creation!NotCreated
      BY <2>1, <3>1, CreationNothing, CreationConstants DEF Creation!BoundAssumption
    <3> QED BY <2>2, <3>1, <3>2
  <2>5. s.kind = "correct" =>
          s.created # Creation!NotCreated /\ Creation!IsStored(s.created)' /\ stored'[s.created.key].sale \in seen'
    BY <2>1, <2>2 DEF Creation!RequestFits
  <2> QED BY <2>3, <2>4, <2>5 DEF Creation!RequestFits
<1>5. ASSUME careful PROVE Creation!Attended' /\ Creation!BusyWhilePending'
  <2>1. Creation!Attended'
    BY <1>5 DEF Creation!IInv, Creation!Attended, Creation!Mounted
  <2>2. Creation!BusyWhilePending'
    BY <1>5 DEF Creation!IInv, Creation!BusyWhilePending
  <2> QED BY <2>1, <2>2
<1> QED BY <1>1, <1>2, <1>3, <1>4, <1>5 DEF Creation!IInv

\* An order stored for the only page is the one under its key.
LEMMA CreationAloneServed ==
    ASSUME Creation!IInv, Creation!AloneInv(Alone), NEW r \in requests, NEW m \in Creation!Request,
           requests' = (requests \ {r}) \cup {m}, m.kind = r.kind, m.tab = r.tab, m.key = r.key, m.form = r.form,
           UNCHANGED <<careful, storage, page, drawn, seen>>,
           \/ stored' = stored
           \/ /\ stored[r.key] = Creation!NoOrder
              /\ \E o \in Creation!Order : o.sale = r.form /\ stored' = [stored EXCEPT ![r.key] = o]
    PROVE  Creation!AloneInv(Alone)'
<1>1. /\ r.kind = "create" /\ r.tab = Alone /\ r.key = page[Alone].key /\ r.key = storage[Alone]
      /\ r.key \in drawn /\ r.key \in Keys /\ requests' = {m}
      /\ page[Alone].created = Creation!NotCreated /\ careful
    BY CreationAlone, CreationRequest DEF Creation!IInv, Creation!TypeOK
<1>2. r.form \notin seen /\ stored \in [Keys -> Creation!Order \cup {Creation!NoOrder}]
    BY DEF Creation!AloneInv, Creation!SalesFit, Creation!IInv, Creation!TypeOK
<1>3. Creation!Only(Alone)'
  BY <1>1 DEF Creation!AloneInv, Creation!Only
<1>4. Creation!KeyFits(Alone)'
  BY <1>1 DEF Creation!AloneInv, Creation!KeyFits
<1>5. CASE stored' = stored
  <2>1. Creation!SalesFit(Alone)'
    BY <1>1, <1>2, <1>5 DEF Creation!AloneInv, Creation!SalesFit
  <2>2. Creation!NoDuplicate'
    BY <1>5 DEF Creation!AloneInv, Creation!NoDuplicate
  <2> QED BY <1>1, <1>3, <1>4, <2>1, <2>2 DEF Creation!AloneInv
<1>6. ASSUME stored[r.key] = Creation!NoOrder,
             NEW o \in Creation!Order, o.sale = r.form, stored' = [stored EXCEPT ![r.key] = o]
      PROVE  Creation!AloneInv(Alone)'
  <2>1. stored'[r.key] = o /\ \A k \in Keys : k # r.key => stored'[k] = stored[k]
    BY <1>1, <1>2, <1>6
  <2>2. Creation!SalesFit(Alone)'
    BY <1>1, <1>2, <1>6, <2>1 DEF Creation!AloneInv, Creation!SalesFit
  <2>3. \A k \in Keys : k # r.key /\ stored[k] # Creation!NoOrder => stored[k].sale # r.form
    BY <1>1, <1>2 DEF Creation!AloneInv, Creation!SalesFit
  <2>4. \A a, b \in Keys : stored'[a] # Creation!NoOrder /\ stored'[a].sale = stored'[b].sale => a = b
    <3> SUFFICES ASSUME NEW a \in Keys, NEW b \in Keys, stored'[a] # Creation!NoOrder, stored'[a].sale = stored'[b].sale
                 PROVE a = b
      OBVIOUS
    <3>1. r.form # None
      BY <1>6, CreationNothing
    <3>2. stored'[b] # Creation!NoOrder
      <4>1. stored'[a].sale # None
        BY <1>2, <2>1, CreationNothing
      <4> QED BY <4>1, CreationNothing
    <3>3. CASE a = r.key \/ b = r.key
      BY <1>6, <2>1, <2>3, <3>2, <3>3
    <3>4. CASE a # r.key /\ b # r.key
      BY <1>1, <2>1, <3>4 DEF Creation!AloneInv, Creation!NoDuplicate
    <3> QED BY <3>3, <3>4
  <2>5. Creation!NoDuplicate'
    BY <2>4 DEF Creation!NoDuplicate
  <2> QED BY <1>1, <1>3, <1>4, <2>2, <2>5 DEF Creation!AloneInv
<1> QED BY <1>5, <1>6

\* An answer keeps what was asked.
LEMMA CreationAnswer ==
    ASSUME NEW r \in Creation!Request, NEW a \in {"ok", "conflict", "lost"}, Creation!Answer(r, a),
           a = "ok" => Creation!Told(r) \in Creation!Created
    PROVE  \E m \in Creation!Request :
              /\ requests' = (requests \ {r}) \cup {m} /\ m.kind = r.kind /\ m.tab = r.tab /\ m.n = r.n
              /\ m.key = r.key /\ m.form = r.form /\ m.answer = a
              /\ m.created = IF a = "ok" THEN Creation!Told(r) ELSE r.created
<1> DEFINE c == IF a = "ok" THEN Creation!Told(r) ELSE r.created
           m == [r EXCEPT !.answer = a, !.created = c]
<1>1. requests' = (requests \ {r}) \cup {m}
  BY DEF Creation!Answer
<1>2. c \in Creation!Created \cup {Creation!NotCreated}
  BY CreationRequest
<1> HIDE DEF c
<1>3. /\ m \in Creation!Request /\ m.kind = r.kind /\ m.tab = r.tab /\ m.n = r.n
      /\ m.key = r.key /\ m.form = r.form /\ m.answer = a /\ m.created = c
  BY <1>2 DEF Creation!Request
<1> HIDE DEF m
<1> QED BY <1>1, <1>3 DEF c

\* Whatever the server answers stays true of the page's request (createOrder).
LEMMA CreationServe ==
    ASSUME Creation!IInv, NEW r \in requests, Creation!Serve(r)
    PROVE  Creation!IInv' /\ (Creation!AloneInv(Alone) => Creation!AloneInv(Alone)')
<1>1. /\ r \in Creation!Request /\ Creation!RequestFits(r) /\ stored \in [Keys -> Creation!Order \cup {Creation!NoOrder}]
      /\ UNCHANGED <<careful, storage, page, creating, clipboard, drawn, seen, sent, mounts>> /\ lost' \in 0..MaxLosses
      /\ r.key \in Keys
  BY CreationRequest DEF Creation!IInv, Creation!TypeOK, Creation!Serve, Creation!counts
<1>2. CASE /\ r.kind = "create" /\ stored[r.key] = Creation!NoOrder
           /\ stored' = [stored EXCEPT ![r.key] = [sale |-> r.form, corrected |-> FALSE]]
           /\ Creation!Answer(r, "ok")
  <2> DEFINE o == [sale |-> r.form, corrected |-> FALSE]
  <2>1. r.form \in Sales /\ r.form # None
    BY <1>1, <1>2, CreationRequest DEF Creation!RequestFits
  <2>2. o \in Creation!Order /\ o.sale = r.form /\ stored' = [stored EXCEPT ![r.key] = o]
    BY <1>2, <2>1 DEF Creation!Order
  <2> HIDE DEF o
  <2>3. Creation!Told(r).key = r.key /\ Creation!Told(r).corrected = stored[r.key].corrected
        /\ Creation!Told(r) \in Creation!Created /\ stored[r.key].corrected = FALSE
    BY <1>1, <1>2 DEF Creation!Told, Creation!Created, Creation!NoOrder
  <2>4. PICK m \in Creation!Request :
           /\ requests' = (requests \ {r}) \cup {m} /\ m.kind = r.kind /\ m.tab = r.tab /\ m.n = r.n
           /\ m.key = r.key /\ m.form = r.form /\ m.answer = "ok" /\ m.created = Creation!Told(r)
    BY <1>1, <1>2, <2>3, CreationAnswer
  <2>5. stored'[r.key] = o /\ \A k \in Keys : k # r.key => stored'[k] = stored[k]
    BY <1>1, <2>2
  <2>6. Creation!RequestFits(m)'
    BY <1>2, <2>1, <2>2, <2>3, <2>4, <2>5, CreationNothing DEF Creation!RequestFits, Creation!IsStored
  <2>7. \A k \in Keys : stored[k] # Creation!NoOrder =>
              /\ stored'[k] # Creation!NoOrder /\ stored'[k].sale = stored[k].sale
              /\ stored[k].corrected => stored'[k].corrected
    BY <1>2, <2>5
  <2>8. stored' \in [Keys -> Creation!Order \cup {Creation!NoOrder}]
    BY <1>1, <2>2
  <2>9. Creation!IInv'
    BY <1>1, <2>4, <2>6, <2>7, <2>8, CreationServed
  <2> QED BY <1>1, <1>2, <2>2, <2>4, <2>9, CreationAloneServed
<1>3. CASE /\ r.kind = "create" /\ stored[r.key] # Creation!NoOrder
           /\ Creation!Answer(r, IF Creation!SameSale(r) THEN "ok" ELSE "conflict") /\ stored' = stored
  <2> DEFINE a == IF Creation!SameSale(r) THEN "ok" ELSE "conflict"
  <2>1. /\ Creation!Told(r).key = r.key /\ Creation!Told(r).corrected = stored[r.key].corrected
        /\ Creation!Told(r) \in Creation!Created
    <3>1. stored[r.key] \in Creation!Order
      BY <1>1, <1>3
    <3> QED BY <1>1, <1>3, <3>1, CreationNothing DEF Creation!Told, Creation!Created
  <2>2. a \in {"ok", "conflict"} /\ (a = "ok" => stored[r.key].sale = r.form) /\ Creation!Answer(r, a)
    BY <1>3 DEF Creation!SameSale
  <2> HIDE DEF a
  <2>3. PICK m \in Creation!Request :
           /\ requests' = (requests \ {r}) \cup {m} /\ m.kind = r.kind /\ m.tab = r.tab /\ m.n = r.n
           /\ m.key = r.key /\ m.form = r.form /\ m.answer = a /\ (a = "ok" => m.created = Creation!Told(r))
    BY <1>1, <2>1, <2>2, CreationAnswer
  <2>4. Creation!RequestFits(m)'
    BY <1>1, <1>3, <2>1, <2>2, <2>3 DEF Creation!RequestFits, Creation!IsStored
  <2>5. Creation!IInv'
    BY <1>1, <1>3, <2>3, <2>4, CreationServed
  <2> QED BY <1>1, <1>3, <2>3, <2>5, CreationAloneServed
<1>4. CASE /\ r.kind = "correct" /\ Creation!Answer(r, "ok")
           /\ stored' = [stored EXCEPT ![r.created.key].corrected = TRUE]
  <2> DEFINE o == [stored[r.created.key] EXCEPT !.corrected = TRUE]
  <2>1. /\ r.created \in Creation!Created /\ r.created.key \in Keys
        /\ stored[r.created.key] # Creation!NoOrder /\ stored[r.created.key].sale \in seen
        /\ stored[r.created.key] \in Creation!Order
    BY <1>1, <1>4, CreationRequest, CreationNothing DEF Creation!RequestFits, Creation!IsStored
  <2>2. o \in Creation!Order /\ o.sale = stored[r.created.key].sale /\ o.corrected = TRUE
        /\ stored' = [stored EXCEPT ![r.created.key] = o]
    BY <1>1, <1>4, <2>1 DEF Creation!Order
  <2> HIDE DEF o
  <2>3. Creation!Told(r).key = r.created.key /\ Creation!Told(r) \in Creation!Created
    <3>1. Creation!Told(r) = [r.created EXCEPT !.corrected = TRUE]
      BY <1>4 DEF Creation!Told
    <3> QED BY <2>1, <3>1 DEF Creation!Created
  <2>4. PICK m \in Creation!Request :
           /\ requests' = (requests \ {r}) \cup {m} /\ m.kind = r.kind /\ m.tab = r.tab /\ m.n = r.n
           /\ m.key = r.key /\ m.form = r.form /\ m.answer = "ok" /\ m.created = Creation!Told(r)
    BY <1>1, <1>4, <2>3, CreationAnswer
  <2>5. stored'[r.created.key] = o /\ \A k \in Keys : k # r.created.key => stored'[k] = stored[k]
    BY <1>1, <2>1, <2>2
  <2>6. Creation!RequestFits(m)'
    <3>1. m.created \in Creation!Created /\ m.created.key = r.created.key /\ stored'[m.created.key] = o
      BY <2>3, <2>4, <2>5
    <3>2. Creation!IsStored(m.created)' /\ m.created # Creation!NotCreated
      BY <2>2, <3>1, CreationNothing DEF Creation!IsStored
    <3>3. stored'[m.created.key].sale \in seen'
      BY <1>1, <2>1, <2>2, <3>1
    <3>4. m.kind = "correct"
      BY <1>4, <2>4
    <3> QED BY <3>2, <3>3, <3>4 DEF Creation!RequestFits
  <2>7. \A k \in Keys : stored[k] # Creation!NoOrder =>
              /\ stored'[k] # Creation!NoOrder /\ stored'[k].sale = stored[k].sale
              /\ stored[k].corrected => stored'[k].corrected
    BY <2>2, <2>5, CreationNothing
  <2>8. stored' \in [Keys -> Creation!Order \cup {Creation!NoOrder}]
    BY <1>1, <2>2
  <2>9. Creation!IInv'
    BY <1>1, <2>4, <2>6, <2>7, <2>8, CreationServed
  <2>10. ~Creation!AloneInv(Alone)
    BY <1>4 DEF Creation!AloneInv
  <2> QED BY <2>9, <2>10
<1> QED BY <1>2, <1>3, <1>4 DEF Creation!Serve

\* A lost answer says nothing, and costs no order.
LEMMA CreationLose ==
    ASSUME Creation!IInv, NEW r \in requests, Creation!Lose(r)
    PROVE  Creation!IInv' /\ (Creation!AloneInv(Alone) => Creation!AloneInv(Alone)')
<1>1. /\ r \in Creation!Request /\ Creation!RequestFits(r) /\ Creation!Answer(r, "lost")
      /\ UNCHANGED <<careful, stored, storage, page, creating, clipboard, drawn, seen, sent, mounts>>
      /\ stored \in [Keys -> Creation!Order \cup {Creation!NoOrder}]
  BY DEF Creation!IInv, Creation!TypeOK, Creation!Lose
<1>2. lost' \in 0..MaxLosses
  BY CreationConstants DEF Creation!IInv, Creation!TypeOK, Creation!Lose, Creation!BoundAssumption
<1>3. PICK m \in Creation!Request :
         /\ requests' = (requests \ {r}) \cup {m} /\ m.kind = r.kind /\ m.tab = r.tab /\ m.n = r.n
         /\ m.key = r.key /\ m.form = r.form /\ m.answer = "lost" /\ m.created = r.created
  BY <1>1, CreationAnswer
<1>4. Creation!RequestFits(m)'
  BY <1>1, <1>3 DEF Creation!RequestFits, Creation!IsStored
<1>5. Creation!IInv'
  BY <1>1, <1>2, <1>3, <1>4, CreationServed
<1> QED BY <1>1, <1>3, <1>5, CreationAloneServed

\* A handler whose page is gone leaves the pages alone.
CreationUnheard(r) ==
    /\ requests' = requests \ {r}
    /\ UNCHANGED <<careful, stored, drawn, sent, lost, mounts>>

\* The rest of a handler.
LEMMA CreationHeard ==
    ASSUME Creation!IInv, NEW r \in requests, CreationUnheard(r),
           seen \subseteq seen', seen' \subseteq Sales,
           storage' \in [Tabs -> Keys \cup {None}],
           clipboard' \in [key : Keys \cup {None}, amountOf : Sales \cup {None}],
           \/ page' = page
           \/ \E g \in Creation!Page :
                 /\ page' = [page EXCEPT ![r.tab] = g] /\ g.n = page[r.tab].n /\ g.n # 0 /\ g.key = page[r.tab].key
                 /\ r.kind # "create" => g.pending = page[r.tab].pending
                 /\ g.pending => page[r.tab].pending
                 /\ \/ g.created = page[r.tab].created
                    \/ Creation!IsStored(g.created) /\ stored[g.created.key].sale \in seen',
           \/ r.kind # "create" /\ creating' = creating
           \/ r.kind = "create" /\ creating' = [creating EXCEPT ![r.tab] = FALSE] /\ (careful => ~page'[r.tab].pending)
    PROVE  Creation!IInv'
<1>1. /\ r \in Creation!Request /\ r.tab \in Tabs /\ page \in [Tabs -> Creation!Page]
      /\ creating \in [Tabs -> BOOLEAN] /\ page[r.tab] \in Creation!Page
  BY CreationRequest DEF Creation!IInv, Creation!TypeOK
<1>2. PICK g \in Creation!Page :
         /\ page' = [page EXCEPT ![r.tab] = g] /\ g.n = page[r.tab].n /\ g.key = page[r.tab].key
         /\ g = page[r.tab] \/ g.n # 0
         /\ r.kind # "create" => g.pending = page[r.tab].pending
         /\ g.pending => page[r.tab].pending
         /\ \/ g.created = page[r.tab].created
            \/ Creation!IsStored(g.created) /\ stored[g.created.key].sale \in seen'
  <2>1. CASE page' = page
    <3>1. page' = [page EXCEPT ![r.tab] = page[r.tab]]
      BY <1>1, <2>1
    <3> QED BY <1>1, <3>1
  <2>2. CASE page' # page
    BY <2>2
  <2> QED BY <2>1, <2>2
<1>3. creating' \in [Tabs -> BOOLEAN] /\ requests' \subseteq requests
  BY <1>1 DEF CreationUnheard
<1>4. Creation!TypeOK'
  <2>1. \A t \in Tabs : page'[t].n = 0 => page'[t] = Creation!NoPage
    BY <1>1, <1>2 DEF Creation!IInv, Creation!TypeOK
  <2>2. page' \in [Tabs -> Creation!Page] /\ requests' \subseteq Creation!Request
    BY <1>1, <1>2, <1>3 DEF Creation!IInv, Creation!TypeOK
  <2> QED BY <1>3, <2>1, <2>2 DEF Creation!IInv, Creation!TypeOK, CreationUnheard
<1>5. Creation!CreatedIsStored'
  <2>1. \A t \in Tabs : page[t].created # Creation!NotCreated =>
           Creation!IsStored(page[t].created) /\ stored[page[t].created.key].sale \in seen'
    BY DEF Creation!IInv, Creation!CreatedIsStored, Creation!IsStored
  <2>2. \A t \in Tabs : page'[t].created # Creation!NotCreated =>
           Creation!IsStored(page'[t].created) /\ stored[page'[t].created.key].sale \in seen'
    BY <1>1, <1>2, <2>1
  <2>3. stored' = stored
    BY DEF CreationUnheard
  <2> QED BY <2>2, <2>3 DEF Creation!CreatedIsStored, Creation!IsStored
<1>6. (\A u \in Tabs : page[u].n # 0 => page[u].key # None)'
  BY <1>1, <1>2 DEF Creation!IInv
<1>7. ASSUME NEW s \in requests' PROVE Creation!RequestFits(s)'
  <2>1. Creation!RequestFits(s) /\ stored' = stored
    BY <1>3 DEF Creation!IInv, CreationUnheard
  <2> QED BY <2>1 DEF Creation!RequestFits, Creation!IsStored
<1>8. ASSUME careful PROVE Creation!Attended' /\ Creation!BusyWhilePending'
  <2>1. \A s \in requests' : s.kind = "create" => s.tab \in Tabs /\ (r.kind = "create" => s.tab # r.tab)
    BY <1>3, <1>8, CreationRequest DEF Creation!IInv, Creation!TypeOK, Creation!Attended, CreationUnheard
  <2>2. Creation!Attended'
    <3> SUFFICES ASSUME NEW s \in requests', s.kind = "create"
                 PROVE  /\ page'[s.tab].n = s.n /\ page'[s.tab].pending /\ creating'[s.tab]
                        /\ \A m \in requests' : m.kind = "create" /\ m.tab = s.tab => m = s
      BY DEF Creation!Attended, Creation!Mounted
    <3>1. /\ page[s.tab].n = s.n /\ page[s.tab].pending /\ creating[s.tab]
          /\ \A m \in requests' : m.kind = "create" /\ m.tab = s.tab => m = s
      BY <1>3, <1>8 DEF Creation!IInv, Creation!Attended, Creation!Mounted
    <3>2. CASE r.kind = "create"
      BY <1>1, <1>2, <2>1, <3>1, <3>2
    <3>3. CASE r.kind # "create"
      BY <1>1, <1>2, <2>1, <3>1, <3>3
    <3> QED BY <3>2, <3>3
  <2>3. Creation!BusyWhilePending'
    <3> SUFFICES ASSUME NEW t \in Tabs, page'[t].pending PROVE creating'[t]
      BY DEF Creation!BusyWhilePending
    <3>1. page[t].pending
      BY <1>1, <1>2
    <3>2. creating[t]
      BY <1>8, <3>1 DEF Creation!IInv, Creation!BusyWhilePending
    <3> QED BY <1>1, <1>8, <3>2
  <2> QED BY <2>2, <2>3
<1>9. careful' = careful
  BY DEF CreationUnheard
<1> QED BY <1>4, <1>5, <1>6, <1>7, <1>8, <1>9 DEF Creation!IInv

\* What the end of the only page's request does.
LEMMA CreationAloneEnds ==
    ASSUME Creation!IInv, Creation!AloneInv(Alone), NEW r \in requests, CreationUnheard(r),
           NEW g \in Creation!Page, page' = [page EXCEPT ![Alone] = g], g.key = page[Alone].key, ~g.pending,
           g.form = page[Alone].form,
           \/ /\ storage' = [storage EXCEPT ![Alone] = None] /\ seen' = seen \cup {r.form}
              /\ g.created # Creation!NotCreated /\ stored[r.key].sale = r.form
           \/ storage' = storage /\ seen' = seen /\ g.created = page[Alone].created
    PROVE  Creation!AloneInv(Alone)'
<1>1. /\ r.key = storage[Alone] /\ r.key = page[Alone].key /\ r.key \in drawn /\ requests' = {}
      /\ page[Alone].created = Creation!NotCreated /\ Alone \in Tabs /\ r.key # None
  BY CreationAlone, CreationRequest, CreationConstants
     DEF CreationUnheard, Creation!IInv, Creation!TypeOK, Creation!BoundAssumption
<1>2. /\ page \in [Tabs -> Creation!Page] /\ storage \in [Tabs -> Keys \cup {None}] /\ page'[Alone] = g
      /\ UNCHANGED <<careful, stored, drawn>>
  BY <1>1 DEF Creation!IInv, Creation!TypeOK, CreationUnheard
<1>3. Creation!Only(Alone)'
  BY <1>1, <1>2 DEF Creation!AloneInv, Creation!Only
<1>4. Creation!NoDuplicate'
  BY <1>2 DEF Creation!AloneInv, Creation!NoDuplicate
<1>5. CASE /\ storage' = [storage EXCEPT ![Alone] = None] /\ seen' = seen \cup {r.form}
           /\ g.created # Creation!NotCreated /\ stored[r.key].sale = r.form
  <2>1. storage'[Alone] = None
    BY <1>1, <1>2, <1>5
  <2>2. Creation!KeyFits(Alone)'
    BY <1>1, <1>2, <1>5, <2>1 DEF Creation!KeyFits
  <2>3. \A k \in Keys : stored[k] # Creation!NoOrder => k \in drawn /\ stored[k].sale \in seen'
    BY <1>1, <1>5 DEF Creation!AloneInv, Creation!SalesFit
  <2>4. Creation!SalesFit(Alone)'
    <3>1. None \notin Keys
      BY CreationConstants DEF Creation!BoundAssumption
    <3> QED BY <1>1, <1>2, <1>5, <2>1, <2>3, <3>1 DEF Creation!SalesFit
  <2> QED BY <1>1, <1>2, <1>3, <1>4, <2>2, <2>4 DEF Creation!AloneInv
<1>6. CASE storage' = storage /\ seen' = seen /\ g.created = page[Alone].created
  <2>1. page[Alone].n # 0
    BY CreationAlone
  <2>2. Creation!KeyFits(Alone)'
    BY <1>1, <1>2, <1>6, <2>1 DEF Creation!AloneInv, Creation!KeyFits
  <2>3. Creation!SalesFit(Alone)'
    BY <1>1, <1>2, <1>6 DEF Creation!AloneInv, Creation!SalesFit
  <2> QED BY <1>1, <1>2, <1>3, <1>4, <2>2, <2>3 DEF Creation!AloneInv
<1> QED BY <1>5, <1>6

\* The key is given up with the order created, and with nothing else (submit).
LEMMA CreationEnds ==
    ASSUME Creation!IInv, NEW r \in requests, Creation!CreateEnds(r)
    PROVE  Creation!IInv' /\ (Creation!AloneInv(Alone) => Creation!AloneInv(Alone)')
<1>1. /\ r \in Creation!Request /\ Creation!RequestFits(r) /\ r.kind = "create" /\ CreationUnheard(r)
      /\ creating' = [creating EXCEPT ![r.tab] = FALSE]
      /\ page \in [Tabs -> Creation!Page] /\ storage \in [Tabs -> Keys \cup {None}] /\ seen \subseteq Sales
      /\ clipboard \in [key : Keys \cup {None}, amountOf : Sales \cup {None}]
  BY DEF Creation!IInv, Creation!TypeOK, Creation!CreateEnds, CreationUnheard, Creation!counts
<1>2. /\ r.tab \in Tabs /\ r.key \in Keys /\ r.form \in Sales /\ page[r.tab] \in Creation!Page /\ r.n # 0
      /\ r.created \in Creation!Created \cup {Creation!NotCreated}
  BY <1>1, CreationRequest DEF Creation!RequestFits
<1>3. storage' \in [Tabs -> Keys \cup {None}]
  <2>1. Creation!KeyAfter(r) \in Keys \cup {None}
    BY <1>1, <1>2 DEF Creation!KeyAfter
  <2> QED BY <1>1, <1>2, <2>1 DEF Creation!CreateEnds
<1>4. clipboard' \in [key : Keys \cup {None}, amountOf : Sales \cup {None}]
  <2>1. CASE Creation!Accepted(r)
    BY <1>2, <2>1 DEF Creation!CreateEnds
  <2>2. CASE ~Creation!Accepted(r)
    BY <1>1, <2>2 DEF Creation!CreateEnds
  <2> QED BY <2>1, <2>2
<1>5. CASE ~Creation!Mounted(r)
  <2>1. page' = page /\ seen' = seen
    BY <1>5 DEF Creation!CreateEnds
  <2>2. ~careful
    BY <1>1, <1>5 DEF Creation!IInv, Creation!Attended
  <2>3. seen \subseteq seen' /\ seen' \subseteq Sales
    BY <1>1, <2>1
  <2>4. Creation!IInv'
    BY <1>1, <1>3, <1>4, <2>1, <2>2, <2>3, CreationHeard
  <2> QED BY <2>2, <2>4 DEF Creation!AloneInv
<1>6. CASE Creation!Mounted(r)
  <2> DEFINE c == IF Creation!Accepted(r) THEN r.created ELSE page[r.tab].created
             g == [page[r.tab] EXCEPT !.pending = FALSE, !.created = c]
  <2>1. c \in Creation!Created \cup {Creation!NotCreated}
    BY <1>2, CreationFields
  <2>2. page' = [page EXCEPT ![r.tab] = g]
    BY <1>1, <1>2, <1>6 DEF Creation!CreateEnds, Creation!PendingAfter
  <2>3. Creation!Accepted(r) => c = r.created
    OBVIOUS
  <2>4. ~Creation!Accepted(r) => c = page[r.tab].created
    OBVIOUS
  <2> HIDE DEF c
  <2>5. /\ g \in Creation!Page /\ g.n = page[r.tab].n /\ g.key = page[r.tab].key /\ g.pending = FALSE
        /\ g.created = c /\ g.form = page[r.tab].form
    BY <1>2, <2>1 DEF Creation!Page
  <2> HIDE DEF g
  <2>6. g.n # 0
    BY <1>2, <1>6, <2>5 DEF Creation!Mounted
  <2>7. CASE Creation!Accepted(r)
    <3>1. /\ Creation!IsStored(r.created) /\ r.created.key = r.key /\ stored[r.key].sale = r.form
          /\ r.created # Creation!NotCreated
      <4>1. Creation!IsStored(r.created) /\ r.created.key = r.key /\ stored[r.key].sale = r.form
        BY <1>1, <2>7 DEF Creation!RequestFits, Creation!Accepted
      <4> QED BY <1>2, <4>1, CreationNothing, CreationConstants DEF Creation!BoundAssumption
    <3>2. seen' = seen \cup {r.form} /\ storage' = [storage EXCEPT ![r.tab] = None]
      BY <1>6, <2>7 DEF Creation!CreateEnds, Creation!KeyAfter
    <3>3. Creation!IsStored(g.created) /\ stored[g.created.key].sale \in seen'
      BY <2>3, <2>5, <2>7, <3>1, <3>2
    <3>4. page'[r.tab] = g /\ seen \subseteq seen' /\ seen' \subseteq Sales
      BY <1>1, <1>2, <2>2, <3>2
    <3>5. Creation!IInv'
      BY <1>1, <1>3, <1>4, <2>2, <2>5, <2>6, <3>3, <3>4, CreationHeard
    <3>6. ASSUME Creation!AloneInv(Alone) PROVE Creation!AloneInv(Alone)'
      <4>1. r.tab = Alone
        BY <3>6, CreationAlone
      <4> QED BY <1>1, <2>2, <2>3, <2>5, <2>7, <3>1, <3>2, <3>6, <4>1, CreationAloneEnds
    <3> QED BY <3>5, <3>6
  <2>8. CASE ~Creation!Accepted(r)
    <3>1. seen' = seen /\ storage' = storage
      BY <1>1, <1>2, <1>6, <2>8 DEF Creation!CreateEnds, Creation!KeyAfter
    <3>2. page'[r.tab] = g /\ seen \subseteq seen' /\ seen' \subseteq Sales
      BY <1>1, <1>2, <2>2, <3>1
    <3>3. Creation!IInv'
      BY <1>1, <1>3, <1>4, <2>2, <2>4, <2>5, <2>6, <2>8, <3>2, CreationHeard
    <3>4. ASSUME Creation!AloneInv(Alone) PROVE Creation!AloneInv(Alone)'
      <4>1. r.tab = Alone
        BY <3>4, CreationAlone
      <4> QED BY <1>1, <2>2, <2>4, <2>5, <2>8, <3>1, <3>4, <4>1, CreationAloneEnds
    <3> QED BY <3>3, <3>4
  <2> QED BY <2>7, <2>8
<1> QED BY <1>5, <1>6

\* A correction is told to the page that shows its order (saveDeliveryDate).
LEMMA CreationCorrected ==
    ASSUME Creation!IInv, NEW r \in requests, Creation!CorrectionEnds(r)
    PROVE  Creation!IInv' /\ ~Creation!AloneInv(Alone)
<1>1. /\ r \in Creation!Request /\ Creation!RequestFits(r) /\ r.kind = "correct" /\ CreationUnheard(r)
      /\ UNCHANGED <<creating, storage, clipboard, seen>>
      /\ page \in [Tabs -> Creation!Page]
      /\ storage' \in [Tabs -> Keys \cup {None}] /\ seen \subseteq seen' /\ seen' \subseteq Sales
      /\ clipboard' \in [key : Keys \cup {None}, amountOf : Sales \cup {None}]
  BY DEF Creation!IInv, Creation!TypeOK, Creation!CorrectionEnds, CreationUnheard, Creation!counts
<1>2. /\ r.tab \in Tabs /\ page[r.tab] \in Creation!Page /\ r.n # 0
      /\ r.created \in Creation!Created \cup {Creation!NotCreated}
  BY <1>1, CreationRequest
<1>3. ~Creation!AloneInv(Alone)
  BY <1>1 DEF Creation!AloneInv
<1>4. CASE ~Creation!Mounted(r)
  <2>1. page' = page
    BY <1>4 DEF Creation!CorrectionEnds
  <2>2. Creation!IInv'
    BY <1>1, <2>1, CreationHeard
  <2> QED BY <1>3, <2>2
<1>5. CASE Creation!Mounted(r)
  <2> DEFINE c == IF r.answer = "ok" THEN r.created ELSE page[r.tab].created
             g == [page[r.tab] EXCEPT !.updating = FALSE, !.created = c]
  <2>1. c \in Creation!Created \cup {Creation!NotCreated} /\ c \in {r.created, page[r.tab].created}
    BY <1>2, CreationFields
  <2>2. page' = [page EXCEPT ![r.tab] = g]
    BY <1>1, <1>2, <1>5 DEF Creation!CorrectionEnds
  <2> HIDE DEF c
  <2>3. /\ g \in Creation!Page /\ g.n = page[r.tab].n /\ g.key = page[r.tab].key /\ g.pending = page[r.tab].pending
        /\ g.created = c
    BY <1>2, <2>1 DEF Creation!Page
  <2> HIDE DEF g
  <2>4. g.n # 0
    BY <1>2, <1>5, <2>3 DEF Creation!Mounted
  <2>5. \/ g.created = page[r.tab].created
        \/ Creation!IsStored(g.created) /\ stored[g.created.key].sale \in seen'
    BY <1>1, <2>1, <2>3 DEF Creation!RequestFits
  <2>6. Creation!IInv'
    BY <1>1, <2>2, <2>3, <2>4, <2>5, CreationHeard
  <2> QED BY <1>3, <2>6
<1> QED BY <1>4, <1>5

\* Every step keeps the invariant, and a step of the one page that is used its own part.
LEMMA CreationStep ==
    Creation!IInv /\ [Creation!Next]_creationVars =>
        /\ Creation!IInv'
        /\ Creation!AloneInv(Alone) /\ (StayingBounds \/ UNCHANGED creationVars) => Creation!AloneInv(Alone)'
<1> SUFFICES ASSUME Creation!IInv, [Creation!Next]_creationVars
             PROVE  /\ Creation!IInv'
                    /\ Creation!AloneInv(Alone) /\ (StayingBounds \/ UNCHANGED creationVars) => Creation!AloneInv(Alone)'
  OBVIOUS
<1>1. CASE UNCHANGED creationVars
  <2>1. Creation!TypeOK' /\ Creation!CreatedIsStored'
    BY <1>1 DEF creationVars, Creation!IInv, Creation!TypeOK, Creation!CreatedIsStored
  <2>2. ASSUME NEW r \in requests PROVE Creation!RequestFits(r)'
    BY <1>1 DEF creationVars, Creation!IInv, Creation!RequestFits, Creation!IsStored
  <2>3. careful => (Creation!Attended /\ Creation!BusyWhilePending)'
    BY <1>1 DEF creationVars, Creation!IInv, Creation!Attended, Creation!BusyWhilePending, Creation!Mounted
  <2>4. Creation!AloneInv(Alone) => Creation!AloneInv(Alone)'
    BY <1>1 DEF creationVars, Creation!AloneInv, Creation!Only, Creation!KeyFits, Creation!SalesFit, Creation!NoDuplicate
  <2>5. Creation!IInv'
    BY <1>1, <2>1, <2>2, <2>3 DEF creationVars, Creation!IInv
  <2> QED BY <2>4, <2>5
<1>2. CASE Creation!Next
  <2>1. ASSUME NEW t \in Tabs, NEW k \in Keys, Creation!Open(t, k)
        PROVE  /\ Creation!IInv'
               /\ Creation!AloneInv(Alone) /\ (StayingBounds \/ UNCHANGED creationVars) => Creation!AloneInv(Alone)'
    <3>1. Creation!IInv' /\ page'[t].n # 0 /\ (t = Alone /\ Creation!AloneInv(Alone) => Creation!AloneInv(Alone)')
      BY <2>1, CreationOpen
    <3>2. StayingBounds => t = Alone
      BY <3>1 DEF StayingBounds
    <3>3. ~UNCHANGED creationVars
      BY <2>1, <3>1 DEF creationVars, Creation!Open
    <3> QED BY <3>1, <3>2, <3>3
  <2>2. ASSUME NEW t \in Tabs, Creation!SaveDeliveryDate(t)
        PROVE  /\ Creation!IInv'
               /\ Creation!AloneInv(Alone) /\ (StayingBounds \/ UNCHANGED creationVars) => Creation!AloneInv(Alone)'
    <3>1. Creation!IInv' /\ ~StayingBounds
      BY <2>2, CreationSave DEF StayingBounds
    <3>2. ASSUME Creation!AloneInv(Alone) PROVE ~UNCHANGED creationVars
      <4>1. PICK r \in requests' : r.kind # "create"
        BY <2>2, CreationSave
      <4> QED BY <3>2, <4>1 DEF creationVars, Creation!AloneInv
    <3> QED BY <3>1, <3>2
  <2>3. ASSUME NEW t \in Tabs,
               \/ \E k \in Keys : Creation!Reset(t, k)
               \/ \E sale \in Sales : Creation!Fill(t, sale)
               \/ Creation!Leave(t) \/ Creation!Submit(t) \/ Creation!CopyMessage(t)
        PROVE  Creation!IInv' /\ (Creation!AloneInv(Alone) => Creation!AloneInv(Alone)')
    BY <2>3, CreationReset, CreationFill, CreationLeave, CreationSubmit, CreationCopy
  <2>4. ASSUME NEW r \in requests,
               Creation!Serve(r) \/ Creation!Lose(r) \/ Creation!CreateEnds(r) \/ Creation!CorrectionEnds(r)
        PROVE  Creation!IInv' /\ (Creation!AloneInv(Alone) => Creation!AloneInv(Alone)')
    BY <2>4, CreationServe, CreationLose, CreationEnds, CreationCorrected
  <2> QED BY <1>2, <2>1, <2>2, <2>3, <2>4 DEF Creation!Next
<1> QED BY <1>1, <1>2

\* No step of the one page that is used gives up a key before its order is stored.
LEMMA CreationKeyOutlives ==
    ASSUME Creation!IInv, Creation!AloneInv(Alone), Creation!Next, StayingBounds
    PROVE  Creation!KeyOutlives
<1> SUFFICES ASSUME NEW t \in Tabs, storage[t] # None, storage'[t] # storage[t]
             PROVE  stored[storage[t]] # Creation!NoOrder
  BY DEF Creation!KeyOutlives
<1>1. t = Alone /\ careful /\ storage \in [Tabs -> Keys \cup {None}]
  BY CreationAlone DEF Creation!IInv, Creation!TypeOK
<1>2. ASSUME NEW u \in Tabs, NEW k \in Keys, Creation!Open(u, k) PROVE FALSE
  BY <1>1, <1>2 DEF Creation!Open, Creation!NewCreateKey
<1>3. ASSUME NEW u \in Tabs, NEW k \in Keys, Creation!Reset(u, k) PROVE FALSE
  <2>1. u # t
    BY <1>1, <1>3 DEF Creation!Reset, Creation!AloneInv, Creation!KeyFits
  <2> QED BY <1>1, <1>3, <2>1 DEF Creation!Reset
<1>4. ASSUME NEW r \in requests, Creation!CreateEnds(r) PROVE stored[storage[t]] # Creation!NoOrder
  <2>1. r.key = storage[t] /\ r.tab = t /\ r.kind = "create" /\ Creation!RequestFits(r)
    BY <1>1, CreationAlone DEF Creation!IInv
  <2>2. Creation!Accepted(r)
    BY <1>1, <1>4, <2>1 DEF Creation!CreateEnds, Creation!KeyAfter
  <2> QED BY <2>1, <2>2 DEF Creation!RequestFits, Creation!Accepted, Creation!IsStored
<1>5. ASSUME NEW u \in Tabs,
             \/ \E sale \in Sales : Creation!Fill(u, sale)
             \/ Creation!Leave(u) \/ Creation!Submit(u) \/ Creation!CopyMessage(u) \/ Creation!SaveDeliveryDate(u)
      PROVE  storage' = storage
  BY <1>5 DEF Creation!Fill, Creation!Leave, Creation!Submit, Creation!CopyMessage, Creation!SaveDeliveryDate
<1>6. ASSUME NEW r \in requests, Creation!Serve(r) \/ Creation!Lose(r) \/ Creation!CorrectionEnds(r)
      PROVE  storage' = storage
  BY <1>6 DEF Creation!Serve, Creation!Lose, Creation!CorrectionEnds
<1> QED BY <1>2, <1>3, <1>4, <1>5, <1>6 DEF Creation!Next

-----------------------------------------------------------------------------
(* Its fields (OrderDraft) *)

\* The forms' constants satisfy what the creation form's fields assume.
LEMMA DraftConstants == Draft!PriceAssumption
BY FormsAssumption

\* The instance counts and calls finite what this module does.
LEMMA DraftSets ==
    ASSUME NEW S
    PROVE  (Draft!IsFiniteSet(S) <=> IsFiniteSet(S)) /\ Draft!Cardinality(S) = Cardinality(S)
<1>1. Draft!IsFiniteSet(S) <=> IsFiniteSet(S)
  BY Zenon DEF Draft!IsFiniteSet, IsFiniteSet
<1>2. Draft!Cardinality(S) = Cardinality(S)
  BY Zenon DEF Draft!Cardinality, Cardinality
<1> QED BY <1>1, <1>2

\* There are finitely many products.
LEMMA FiniteProducts == IsFiniteSet(Products)
BY DraftConstants, DraftSets DEF Draft!PriceAssumption

\* A set of natural numbers has a least element.
LEMMA Least ==
  ASSUME NEW T \in SUBSET Nat, T # {}
  PROVE \E x \in T : \A y \in T : x <= y
<1>1. PICK x \in T : \A y \in T : ~ (<<y, x>> \in OpToRel(<, Nat))
  BY NatLessThanWellFounded, WFMin
<1>2. \A y \in T : ~(y < x)
  BY <1>1 DEF OpToRel
<1> QED BY <1>2

\* The product a set of products is summed up from.
First(s) == CHOOSE y \in s : TRUE

\* g sums up what the products of a set of at most n cost.
Sums(g, x, n) ==
    \A s \in SUBSET Products : Cardinality(s) <= n =>
        g[s] = IF s = {} THEN 0 ELSE Price[First(s)] * x[First(s)] + g[s \ {First(s)}]

\* A set of products is one product and a smaller set.
LEMMA FirstOne ==
    ASSUME NEW s \in SUBSET Products, s # {}
    PROVE  /\ First(s) \in s /\ IsFiniteSet(s) /\ Cardinality(s) \in Nat \ {0}
           /\ s \ {First(s)} \in SUBSET Products /\ Cardinality(s \ {First(s)}) = Cardinality(s) - 1
<1>1. First(s) \in s
  BY DEF First
<1>2. IsFiniteSet(s)
  BY FiniteProducts, FS_Subset
<1>3. Cardinality(s) \in Nat /\ Cardinality(s) # 0
  BY <1>2, FS_CardinalityType, FS_EmptySet
<1>4. Cardinality(s \ {First(s)}) = Cardinality(s) - 1
  BY <1>1, <1>2, FS_RemoveElement
<1> QED BY <1>1, <1>2, <1>3, <1>4

\* The sum exists for sets of n products, whatever n is: from the sums of smaller sets.
LEMMA SumsExist ==
    ASSUME NEW x, NEW n \in Nat
    PROVE  \E g : g = [s \in SUBSET Products |-> g[s]] /\ Sums(g, x, n)
<1> DEFINE Bad == {m \in Nat : ~\E g : g = [s \in SUBSET Products |-> g[s]] /\ Sums(g, x, m)}
<1> SUFFICES ASSUME Bad # {} PROVE FALSE
  OBVIOUS
<1>1. PICK m \in Bad : \A k \in Bad : m <= k
  <2>1. Bad \in SUBSET Nat
    OBVIOUS
  <2> HIDE DEF Bad
  <2> QED BY <2>1, Least
<1>0. m \in Nat
  OBVIOUS
<1>2. CASE m = 0
  <2> DEFINE g == [s \in SUBSET Products |-> 0]
  <2>1. Sums(g, x, 0)
    <3> SUFFICES ASSUME NEW s \in SUBSET Products, Cardinality(s) <= 0 PROVE s = {}
      BY DEF Sums
    <3>1. ASSUME s # {} PROVE FALSE
      <4>1. Cardinality(s) \in Nat \ {0}
        BY <3>1, FirstOne
      <4> QED BY <4>1
    <3> QED BY <3>1
  <2>2. g = [s \in SUBSET Products |-> g[s]]
    OBVIOUS
  <2> HIDE DEF g
  <2> QED BY <1>2, <2>1, <2>2
<1>3. CASE m # 0
  <2>1. m - 1 \in Nat /\ m - 1 \notin Bad
    <3> HIDE DEF Bad
    <3> QED BY <1>0, <1>1, <1>3
  <2>2. PICK g : g = [s \in SUBSET Products |-> g[s]] /\ Sums(g, x, m - 1)
    BY <2>1
  <2> DEFINE h == [s \in SUBSET Products |->
                     IF s = {} THEN 0
                     ELSE IF Cardinality(s) <= m - 1 THEN g[s]
                     ELSE Price[First(s)] * x[First(s)] + g[s \ {First(s)}]]
  <2>3. Sums(h, x, m)
    <3> SUFFICES ASSUME NEW s \in SUBSET Products, Cardinality(s) <= m
                 PROVE h[s] = IF s = {} THEN 0 ELSE Price[First(s)] * x[First(s)] + h[s \ {First(s)}]
      BY Zenon DEF Sums
    <3>1. CASE s = {}
      BY <3>1
    <3>2. CASE s # {}
      <4> DEFINE u == s \ {First(s)}
      <4>1. u \in SUBSET Products /\ Cardinality(u) = Cardinality(s) - 1 /\ Cardinality(s) \in Nat \ {0}
        BY <3>2, FirstOne
      <4>2. h[u] = g[u]
        <5>1. CASE u = {}
          <6>1. Cardinality({}) = 0 /\ {} \in SUBSET Products
            BY FS_EmptySet
          <6>2. g[{}] = 0
            <7>1. Cardinality({}) <= m - 1
              BY <2>1, <6>1
            <7> QED BY <2>2, <6>1, <7>1, Zenon DEF Sums
          <6> QED BY <5>1, <6>1, <6>2
        <5>2. CASE u # {}
          <6>1. Cardinality(u) <= m - 1
            BY <4>1
          <6> QED BY <4>1, <5>2, <6>1
        <5> QED BY <5>1, <5>2
      <4>3. CASE Cardinality(s) <= m - 1
        <5>1. h[s] = g[s]
          BY <3>2, <4>3
        <5>2. g[s] = Price[First(s)] * x[First(s)] + g[u]
          BY <2>2, <3>2, <4>3 DEF Sums
        <5> QED BY <3>2, <4>2, <5>1, <5>2
      <4>4. CASE ~(Cardinality(s) <= m - 1)
        <5>1. h[s] = Price[First(s)] * x[First(s)] + g[u]
          BY <3>2, <4>4
        <5> QED BY <3>2, <4>2, <5>1
      <4> QED BY <4>3, <4>4
    <3> QED BY <3>1, <3>2
  <2>4. h = [s \in SUBSET Products |-> h[s]]
    OBVIOUS
  <2> HIDE DEF h
  <2> QED BY <2>3, <2>4
<1> QED BY <1>2, <1>3

\* What the fields cost in total is a sum over all products (Total).
LEMMA TotalSums ==
    ASSUME NEW x
    PROVE  \E g : Draft!Total(x) = g[Products] /\ Sums(g, x, Cardinality(Products))
<1> DEFINE Rule(g) == [s \in SUBSET Products |->
                         IF s = {} THEN 0
                         ELSE Price[CHOOSE y \in s : TRUE] * x[CHOOSE y \in s : TRUE]
                              + g[s \ {CHOOSE y \in s : TRUE}]]
           iter == CHOOSE g : g = Rule(g)
<1>1. Draft!Total(x) = iter[Products]
  BY Zenon DEF Draft!Total, Draft!MapThenSumSet, Draft!MapThenFoldSet
<1>2. Cardinality(Products) \in Nat /\ \A s \in SUBSET Products : Cardinality(s) <= Cardinality(Products)
  BY FiniteProducts, FS_CardinalityType, FS_Subset
<1>3. PICK g : g = [s \in SUBSET Products |-> g[s]] /\ Sums(g, x, Cardinality(Products))
  BY <1>2, SumsExist
<1>4. g = Rule(g)
  <2>1. \A s \in SUBSET Products :
          g[s] = IF s = {} THEN 0 ELSE Price[First(s)] * x[First(s)] + g[s \ {First(s)}]
    BY <1>2, <1>3, Zenon DEF Sums
  <2>2. Rule(g) = [s \in SUBSET Products |-> g[s]]
    BY <2>1, Zenon DEF First
  <2> QED BY <1>3, <2>2, Zenon
<1>5. iter = Rule(iter)
  BY <1>4, Zenon
<1>6. Sums(iter, x, Cardinality(Products))
  <2>1. \A s \in SUBSET Products :
          Rule(iter)[s] = IF s = {} THEN 0 ELSE Price[First(s)] * x[First(s)] + iter[s \ {First(s)}]
    BY Zenon DEF First
  <2> HIDE DEF iter, Rule
  <2> QED BY <1>5, <2>1, Zenon DEF Sums
<1> HIDE DEF iter
<1> QED BY <1>1, <1>6

\* A sum of what the chosen products cost is an amount; of no products it is nothing.
LEMMA TotalIsAmount ==
    ASSUME NEW x \in [Products -> Nat]
    PROVE  /\ Draft!Total(x) \in Nat
           /\ (\A a \in Products : x[a] = 0) => Draft!Total(x) = 0
<1>1. PICK g : Draft!Total(x) = g[Products] /\ Sums(g, x, Cardinality(Products))
  BY TotalSums
<1> DEFINE Fine(v) == v \in Nat /\ ((\A a \in Products : x[a] = 0) => v = 0)
           Bad == {n \in Nat : \E s \in SUBSET Products : Cardinality(s) = n /\ ~Fine(g[s])}
<1>2. ASSUME Bad # {} PROVE FALSE
  <2>1. PICK n \in Bad : \A k \in Bad : n <= k
    <3>1. Bad \in SUBSET Nat
      OBVIOUS
    <3> HIDE DEF Bad
    <3> QED BY <1>2, <3>1, Least
  <2>2. PICK s \in SUBSET Products : Cardinality(s) = n /\ ~Fine(g[s])
    OBVIOUS
  <2>3. n \in Nat
    OBVIOUS
  <2>4. IsFiniteSet(s) /\ Cardinality(s) <= Cardinality(Products)
    BY FiniteProducts, FS_Subset
  <2>5. g[s] = IF s = {} THEN 0 ELSE Price[First(s)] * x[First(s)] + g[s \ {First(s)}]
    BY <1>1, <2>4, Zenon DEF Sums
  <2>6. s # {}
    <3>1. Fine(0)
      OBVIOUS
    <3> HIDE DEF Fine
    <3> QED BY <2>2, <2>5, <3>1
  <2> DEFINE u == s \ {First(s)}
             cost == Price[First(s)]
             count == x[First(s)]
  <2>7. First(s) \in Products /\ u \in SUBSET Products /\ Cardinality(u) = n - 1 /\ n - 1 \in Nat
    BY <2>2, <2>3, <2>6, FirstOne
  <2>8. Fine(g[u])
    <3>1. n - 1 \notin Bad
      <4> HIDE DEF Bad
      <4> QED BY <2>1, <2>3, <2>7
    <3> HIDE DEF Fine
    <3> QED BY <2>7, <3>1
  <2>9. cost \in Nat /\ count \in Nat /\ ((\A a \in Products : x[a] = 0) => count = 0)
    BY <2>7, DraftConstants DEF Draft!PriceAssumption
  <2>10. g[s] = cost * count + g[u]
    BY <2>5, <2>6
  <2>11. Fine(g[s])
    <3> HIDE DEF cost, count, u
    <3>1. cost * count \in Nat /\ (count = 0 => cost * count = 0)
      BY <2>9
    <3> DEFINE v == g[u]
               e == cost * count
    <3>2. v \in Nat /\ e \in Nat /\ g[s] = e + v
      BY <2>8, <2>10, <3>1
    <3>3. (\A a \in Products : x[a] = 0) => v = 0 /\ e = 0
      BY <2>8, <2>9, <3>1
    <3> HIDE DEF v, e
    <3> QED BY <3>2, <3>3
  <2> HIDE DEF Fine
  <2> QED BY <2>2, <2>11
<1>3. Fine(g[Products])
  <2>1. Cardinality(Products) \in Nat
    BY FiniteProducts, FS_CardinalityType
  <2> HIDE DEF Fine
  <2> QED BY <1>2, <2>1
<1> QED BY <1>1, <1>3

-----------------------------------------------------------------------------

\* One day of the count (addWorkingDays).
Count == [at : Nat, left : Nat]

NextDay(c) ==
    IF c.left = 0 THEN c
    ELSE [at |-> c.at + 1, left |-> IF Draft!IsWorkingDay(c.at + 1) THEN c.left - 1 ELSE c.left]

\* A counted day is one.
LEMMA NextDayCounts ==
    ASSUME NEW c \in Count PROVE NextDay(c) \in Count
<1>1. c.at \in Nat /\ c.left \in Nat
  BY DEF Count
<1>2. CASE c.left = 0
  BY <1>2 DEF NextDay
<1>3. CASE c.left # 0
  <2> DEFINE m == IF Draft!IsWorkingDay(c.at + 1) THEN c.left - 1 ELSE c.left
  <2>1. m \in Nat /\ c.at + 1 \in Nat
    BY <1>1, <1>3
  <2> HIDE DEF m
  <2>2. [at |-> c.at + 1, left |-> m] \in Count
    BY <2>1 DEF Count
  <2> QED BY <1>3, <2>2 DEF NextDay, m
<1> QED BY <1>2, <1>3

\* The days a count may reach: N steps from a first one.
LEMMA StepsExist ==
    ASSUME NEW N \in Nat, NEW first \in Count
    PROVE  \E g \in [0..N -> Count] : g[0] = first /\ \A k \in 1..N : g[k] = NextDay(g[k - 1])
<1> DEFINE Upto(g, m) == g \in [0..N -> Count] /\ g[0] = first /\ \A k \in 1..m : g[k] = NextDay(g[k - 1])
           Bad == {m \in 0..N : \A g : ~Upto(g, m)}
<1> SUFFICES ASSUME Bad # {} PROVE FALSE
  <2>1. N \notin Bad => \E g : Upto(g, N)
    OBVIOUS
  <2>2. (\E g : Upto(g, N)) => \E g \in [0..N -> Count] : g[0] = first /\ \A k \in 1..N : g[k] = NextDay(g[k - 1])
    OBVIOUS
  <2> HIDE DEF Upto, Bad
  <2> QED BY <2>1, <2>2
<1>1. PICK m \in Bad : \A k \in Bad : m <= k
  <2>1. Bad \in SUBSET Nat
    OBVIOUS
  <2> HIDE DEF Bad
  <2> QED BY <2>1, Least
<1>2. m \in 0..N /\ \A g : ~Upto(g, m)
  OBVIOUS
<1>3. CASE m = 0
  <2>1. Upto([k \in 0..N |-> first], 0)
    OBVIOUS
  <2> HIDE DEF Upto
  <2> QED BY <1>2, <1>3, <2>1
<1>4. CASE m # 0
  <2>1. m - 1 \in 0..N /\ m - 1 \notin Bad
    <3> HIDE DEF Bad
    <3> QED BY <1>1, <1>2, <1>4
  <2>2. PICK g : Upto(g, m - 1)
    BY <2>1
  <2> DEFINE h == [g EXCEPT ![m] = NextDay(g[m - 1])]
  <2>3. h \in [0..N -> Count] /\ h[m] = NextDay(g[m - 1]) /\ \A k \in 0..N : k # m => h[k] = g[k]
    <3>1. NextDay(g[m - 1]) \in Count
      BY <2>1, <2>2, NextDayCounts
    <3> QED BY <1>2, <2>1, <2>2, <3>1
  <2> HIDE DEF h
  <2>4. h[0] = first
    BY <1>2, <1>4, <2>2, <2>3
  <2>5. ASSUME NEW k \in 1..m PROVE h[k] = NextDay(h[k - 1])
    <3>1. k \in 0..N /\ k - 1 \in 0..N /\ k - 1 # m /\ h[k - 1] = g[k - 1]
      BY <1>2, <2>3
    <3>2. CASE k = m
      BY <2>3, <3>1, <3>2
    <3>3. CASE k # m
      <4>1. k \in 1..(m - 1)
        BY <1>2, <3>3
      <4>2. h[k] = g[k] /\ g[k] = NextDay(g[k - 1])
        BY <2>2, <2>3, <3>1, <3>3, <4>1
      <4> QED BY <3>1, <4>2
    <3> QED BY <3>2, <3>3
  <2>6. Upto(h, m)
    BY <2>3, <2>4, <2>5
  <2> HIDE DEF Upto
  <2> QED BY <1>2, <2>6
<1> QED BY <1>3, <1>4

\* How long a count of n days may take.
Steps(n) == 7 * (n + 1 + Cardinality(Holidays))

\* The day n working days after d is where some count ends.
LEMMA DayCounted ==
    ASSUME NEW d \in Nat, NEW n \in Nat
    PROVE  \E g \in [0..Steps(n) -> Count] :
              /\ Draft!AddWorkingDays(d, n) = g[Steps(n)].at /\ Steps(n) \in Nat
              /\ g[0] = [at |-> d, left |-> n]
              /\ \A k \in 1..Steps(n) : g[k] = NextDay(g[k - 1])
<1> DEFINE N == 7 * (n + 1 + Draft!Cardinality(Holidays))
           day == CHOOSE g : g = [k \in 0..N |->
                    IF k = 0 THEN [at |-> d, left |-> n]
                    ELSE IF g[k - 1].left = 0 THEN g[k - 1]
                    ELSE [at |-> g[k - 1].at + 1,
                          left |-> IF Draft!IsWorkingDay(g[k - 1].at + 1) THEN g[k - 1].left - 1 ELSE g[k - 1].left]]
<1>1. Draft!AddWorkingDays(d, n) = day[N].at
  BY Zenon DEF Draft!AddWorkingDays
<1>2. N = Steps(n) /\ Steps(n) \in Nat
  <2>1. Cardinality(Holidays) \in Nat /\ Draft!Cardinality(Holidays) = Cardinality(Holidays)
    BY DraftConstants, DraftSets, FS_CardinalityType DEF Draft!PriceAssumption
  <2> QED BY <2>1 DEF Steps
<1>3. [at |-> d, left |-> n] \in Count
  BY DEF Count
<1>4. N \in Nat
  BY <1>2
<1>5. PICK g \in [0..N -> Count] : g[0] = [at |-> d, left |-> n] /\ \A k \in 1..N : g[k] = NextDay(g[k - 1])
  <2> HIDE DEF N
  <2> QED BY <1>3, <1>4, StepsExist
<1>6. \A k \in 1..N : k - 1 \in 0..N /\ k # 0
  BY <1>2
<1>7. \A k \in 1..N : g[k] = NextDay(g[k - 1])
  BY <1>5
<1>8. g = [k \in 0..N |->
                    IF k = 0 THEN [at |-> d, left |-> n]
                    ELSE IF g[k - 1].left = 0 THEN g[k - 1]
                    ELSE [at |-> g[k - 1].at + 1,
                          left |-> IF Draft!IsWorkingDay(g[k - 1].at + 1) THEN g[k - 1].left - 1 ELSE g[k - 1].left]]
  <2>1. \A k \in 0..N : k # 0 => k \in 1..N
    BY <1>2
  <2>2. \A k \in 0..N : g[k] = IF k = 0 THEN [at |-> d, left |-> n]
                    ELSE IF g[k - 1].left = 0 THEN g[k - 1]
                    ELSE [at |-> g[k - 1].at + 1,
                          left |-> IF Draft!IsWorkingDay(g[k - 1].at + 1) THEN g[k - 1].left - 1 ELSE g[k - 1].left]
    BY <1>5, <1>7, <2>1, Zenon DEF NextDay
  <2>3. g = [k \in 0..N |-> g[k]]
    OBVIOUS
  <2> HIDE DEF N
  <2> QED BY <2>2, <2>3, Zenon
<1>9. day = [k \in 0..N |->
                    IF k = 0 THEN [at |-> d, left |-> n]
                    ELSE IF day[k - 1].left = 0 THEN day[k - 1]
                    ELSE [at |-> day[k - 1].at + 1,
                          left |-> IF Draft!IsWorkingDay(day[k - 1].at + 1) THEN day[k - 1].left - 1 ELSE day[k - 1].left]]
  <2> HIDE DEF N
  <2> QED BY <1>8, Zenon
<1>10. \A k \in 0..N : day[k] = IF k = 0 THEN [at |-> d, left |-> n] ELSE NextDay(day[k - 1])
  <2> HIDE DEF N, day
  <2> QED BY <1>9, Zenon DEF NextDay
<1>11. \A k \in 0..N : day[k] = g[k]
  <2> HIDE DEF day
  <2> DEFINE Bad == {k \in 0..N : day[k] # g[k]}
  <2>1. ASSUME Bad # {} PROVE FALSE
    <3>1. PICK k \in Bad : \A m \in Bad : k <= m
      <4>1. Bad \in SUBSET Nat
        BY <1>2
      <4> HIDE DEF Bad
      <4> QED BY <2>1, <4>1, Least
    <3>2. k \in 0..N /\ day[k] # g[k] /\ N \in Nat
      BY <1>2
    <3>3. k # 0
      BY <1>5, <1>10, <3>2
    <3>4. k - 1 \in 0..N /\ k \in 1..N /\ ~(k <= k - 1)
      <4> HIDE DEF N, Bad
      <4> QED BY <3>2, <3>3
    <3>5. day[k - 1] = g[k - 1]
      BY <3>1, <3>4
    <3>6. day[k] = NextDay(day[k - 1]) /\ g[k] = NextDay(g[k - 1])
      <4> HIDE DEF N, Bad
      <4> QED BY <1>7, <1>10, <3>2, <3>3, <3>4, Zenon
    <3> QED BY <3>2, <3>5, <3>6, Zenon
  <2> QED BY <2>1
<1>12. day[N] = g[N]
  <2> HIDE DEF day
  <2> QED BY <1>2, <1>11
<1> HIDE DEF day, N
<1> QED BY <1>1, <1>2, <1>5, <1>7, <1>12, Zenon

\* The working days from a to b.
WorkingDays(a, b) == {f \in a..b : Draft!IsWorkingDay(f)}

\* What is true of a count of n working days after d when k days have been looked at.
CountFits(c, k, d, n) ==
    /\ c \in Count /\ c.at >= d /\ c.left <= n
    /\ IsFiniteSet(WorkingDays(d + 1, c.at)) /\ Cardinality(WorkingDays(d + 1, c.at)) = n - c.left
    /\ c.left # 0 => c.at = d + k
    /\ c.left = 0 /\ n # 0 => Draft!IsWorkingDay(c.at)

\* The count begins with nothing counted.
LEMMA CountStarts ==
    ASSUME NEW d \in Nat, NEW n \in Nat
    PROVE  CountFits([at |-> d, left |-> n], 0, d, n)
<1>1. WorkingDays(d + 1, d) = {}
  BY DEF WorkingDays
<1> QED BY <1>1, FS_EmptySet DEF CountFits, Count

\* Each step counts its day, if it is one to be worked.
LEMMA CountGoesOn ==
    ASSUME NEW d \in Nat, NEW n \in Nat, NEW k \in Nat, NEW c, CountFits(c, k, d, n)
    PROVE  CountFits(NextDay(c), k + 1, d, n)
<1>1. c \in Count /\ c.at \in Nat /\ c.left \in Nat /\ c.at >= d /\ c.left <= n
  BY DEF CountFits, Count
<1>2. CASE c.left = 0
  BY <1>2 DEF CountFits, NextDay
<1>3. CASE c.left # 0
  <2> DEFINE e == c.at + 1
             m == IF Draft!IsWorkingDay(e) THEN c.left - 1 ELSE c.left
             w == WorkingDays(d + 1, c.at)
  <2>1. NextDay(c).at = e /\ NextDay(c).left = m
    BY <1>3 DEF NextDay
  <2>2. e \in Nat /\ m \in Nat /\ m <= n /\ e >= d
    BY <1>1, <1>3
  <2>3. CASE Draft!IsWorkingDay(e)
    <3>1. WorkingDays(d + 1, e) = w \cup {e} /\ e \notin w
      BY <1>1, <2>3 DEF WorkingDays
    <3>2. IsFiniteSet(w) /\ Cardinality(w) = n - c.left
      BY DEF CountFits
    <3>3. IsFiniteSet(w \cup {e}) /\ Cardinality(w \cup {e}) = Cardinality(w) + 1
      <4> HIDE DEF w, e
      <4> QED BY <3>1, <3>2, FS_AddElement
    <3>4. m = c.left - 1
      BY <2>3
    <3>5. e = d + (k + 1)
      BY <1>1, <1>3 DEF CountFits
    <3> HIDE DEF w, e, m
    <3>6. IsFiniteSet(WorkingDays(d + 1, e)) /\ Cardinality(WorkingDays(d + 1, e)) = n - m
      BY <1>1, <3>1, <3>2, <3>3, <3>4
    <3> QED BY <2>1, <2>2, <2>3, <3>5, <3>6, <1>1, NextDayCounts DEF CountFits
  <2>4. CASE ~Draft!IsWorkingDay(e)
    <3>1. WorkingDays(d + 1, e) = w
      BY <1>1, <2>4 DEF WorkingDays
    <3>2. IsFiniteSet(w) /\ Cardinality(w) = n - c.left
      BY DEF CountFits
    <3>3. m = c.left
      BY <2>4
    <3>4. e = d + (k + 1)
      BY <1>1, <1>3 DEF CountFits
    <3> HIDE DEF w, e, m
    <3> QED BY <1>1, <1>3, <2>1, <2>2, <3>1, <3>2, <3>3, <3>4, NextDayCounts DEF CountFits
  <2> QED BY <2>3, <2>4
<1> QED BY <1>2, <1>3

\* Of every seven days one is a Sunday, and only a holiday keeps it from being worked on.
LEMMA EnoughWorkingDays ==
    ASSUME NEW d \in Nat, NEW m \in Nat
    PROVE  LET w == WorkingDays(d + 1, d + 7 * m)
           IN  IsFiniteSet(w) /\ Cardinality(w) >= m - Cardinality(Holidays)
<1> DEFINE w == WorkingDays(d + 1, d + 7 * m)
           a == d \div 7
           sundays == {7 * c : c \in (a + 1)..(a + m)}
           f == [c \in (a + 1)..(a + m) |-> 7 * c]
<1>1. a \in Nat /\ 7 * (a + 1) >= d + 1 /\ 7 * a <= d
  OBVIOUS
<1> HIDE DEF a
<1>2. IsFiniteSet((a + 1)..(a + m)) /\ Cardinality((a + 1)..(a + m)) = m
  <2>1. a + 1 \in Int /\ a + m \in Int /\ (IF a + 1 > a + m THEN 0 ELSE (a + m) - (a + 1) + 1) = m
    BY <1>1
  <2> QED BY <2>1, FS_Interval
<1>3. f \in Surjection((a + 1)..(a + m), sundays) /\ f \in Injection((a + 1)..(a + m), sundays)
  <2>1. f \in [(a + 1)..(a + m) -> sundays]
    OBVIOUS
  <2>2. \A t \in sundays : \E c \in (a + 1)..(a + m) : f[c] = t
    OBVIOUS
  <2>3. \A b, c \in (a + 1)..(a + m) : f[b] = f[c] => b = c
    BY <1>1
  <2> HIDE DEF f, sundays
  <2>4. f \in Surjection((a + 1)..(a + m), sundays)
    BY <2>1, <2>2, Fun_IsSurj
  <2>5. f \in Injection((a + 1)..(a + m), sundays)
    BY <2>1, <2>3, Fun_IsInj
  <2> QED BY <2>4, <2>5
<1>4. IsFiniteSet(sundays) /\ Cardinality(sundays) = m
  <2> HIDE DEF f, sundays
  <2> QED BY <1>2, <1>3, FS_Surjection
<1>5. sundays \subseteq (d + 1)..(d + 7 * m) /\ \A e \in sundays : e % 7 = 0
  <2> SUFFICES ASSUME NEW c \in (a + 1)..(a + m)
               PROVE 7 * c \in (d + 1)..(d + 7 * m) /\ (7 * c) % 7 = 0
    OBVIOUS
  <2>1. c \in Int /\ a + 1 <= c /\ c <= a + m
    BY <1>1
  <2> QED BY <1>1, <2>1
<1>6. sundays \ Holidays \subseteq w
  BY <1>5 DEF WorkingDays, Draft!IsWorkingDay
<1>7. IsFiniteSet(Holidays) /\ Cardinality(Holidays) \in Nat
  BY DraftConstants, DraftSets, FS_CardinalityType DEF Draft!PriceAssumption
<1>8. IsFiniteSet(w) /\ Cardinality(w) \in Nat
  <2>1. w \subseteq (d + 1)..(d + 7 * m)
    BY DEF WorkingDays
  <2>2. IsFiniteSet((d + 1)..(d + 7 * m))
    <3>1. d + 1 \in Int /\ d + 7 * m \in Int
      OBVIOUS
    <3> QED BY <3>1, FS_Interval
  <2> HIDE DEF w
  <2>3. IsFiniteSet(w)
    BY <2>1, <2>2, FS_Subset
  <2> QED BY <2>3, FS_CardinalityType
<1>9. Cardinality(w) >= m - Cardinality(Holidays)
  <2> HIDE DEF w, sundays
  <2>1. IsFiniteSet(w \cup Holidays) /\ Cardinality(w \cup Holidays) <= Cardinality(w) + Cardinality(Holidays)
    <3>1. IsFiniteSet(w \cap Holidays) /\ Cardinality(w \cap Holidays) \in Nat
      BY <1>8, FS_Subset, FS_CardinalityType
    <3> QED BY <1>7, <1>8, <3>1, FS_Union
  <2>2. sundays \subseteq w \cup Holidays
    BY <1>6
  <2>3. m <= Cardinality(w \cup Holidays) /\ Cardinality(w \cup Holidays) \in Nat
    BY <1>4, <2>1, <2>2, FS_Subset, FS_CardinalityType
  <2> QED BY <1>7, <1>8, <2>1, <2>3
<1> QED BY <1>8, <1>9

(* For any calendar with finitely many holidays the count ends: on a working day, with n of
   them since d (addWorkingDays).  *)
THEOREM PromiseKept ==
    ASSUME NEW d \in Nat, NEW n \in Nat
    PROVE  LET e == Draft!AddWorkingDays(d, n)
           IN  /\ e \in Nat /\ e >= d
               /\ Cardinality(WorkingDays(d + 1, e)) = n
               /\ n # 0 => Draft!IsWorkingDay(e)
<1> DEFINE N == Steps(n)
<1>1. PICK g \in [0..N -> Count] :
         /\ Draft!AddWorkingDays(d, n) = g[N].at /\ N \in Nat
         /\ g[0] = [at |-> d, left |-> n]
         /\ \A k \in 1..N : g[k] = NextDay(g[k - 1])
  BY DayCounted
<1>2. Cardinality(Holidays) \in Nat
  BY DraftConstants, DraftSets, FS_CardinalityType DEF Draft!PriceAssumption
<1>3. N = 7 * (n + 1 + Cardinality(Holidays))
  BY DEF Steps
<1> HIDE DEF N
<1>4. \A k \in 0..N : CountFits(g[k], k, d, n)
  <2> DEFINE Bad == {k \in 0..N : ~CountFits(g[k], k, d, n)}
  <2>1. ASSUME Bad # {} PROVE FALSE
    <3>1. PICK k \in Bad : \A m \in Bad : k <= m
      <4>1. \A k \in 0..N : k \in Nat
        BY <1>1
      <4>2. Bad \in SUBSET Nat
        BY <4>1
      <4> HIDE DEF Bad
      <4> QED BY <2>1, <4>2, Least
    <3>2. k \in 0..N /\ ~CountFits(g[k], k, d, n)
      OBVIOUS
    <3>3. k # 0
      BY <1>1, <3>2, CountStarts
    <3>4. k - 1 \in 0..N /\ k - 1 \in Nat /\ k \in 1..N /\ ~(k <= k - 1)
      BY <1>1, <3>2, <3>3
    <3>5. CountFits(g[k - 1], k - 1, d, n)
      BY <3>1, <3>4
    <3>6. CountFits(NextDay(g[k - 1]), (k - 1) + 1, d, n)
      <4> HIDE DEF Bad
      <4> QED BY <3>4, <3>5, CountGoesOn
    <3>7. (k - 1) + 1 = k /\ g[k] = NextDay(g[k - 1])
      BY <1>1, <3>4
    <3> QED BY <3>2, <3>6, <3>7
  <2> QED BY <2>1
<1> DEFINE c == g[N]
<1>5. CountFits(c, N, d, n) /\ c.at \in Nat /\ c.left \in Nat
  BY <1>1, <1>4 DEF CountFits, Count
<1> HIDE DEF c
<1>6. c.left = 0
  <2> SUFFICES ASSUME c.left # 0 PROVE FALSE
    OBVIOUS
  <2>1. c.at = d + N /\ Cardinality(WorkingDays(d + 1, c.at)) = n - c.left
    BY <1>5 DEF CountFits
  <2>2. n + 1 + Cardinality(Holidays) \in Nat
    BY <1>2
  <2>3. Cardinality(WorkingDays(d + 1, d + N)) >= (n + 1 + Cardinality(Holidays)) - Cardinality(Holidays)
    BY <1>3, <2>2, EnoughWorkingDays
  <2>4. n - c.left >= (n + 1 + Cardinality(Holidays)) - Cardinality(Holidays)
    BY <2>1, <2>3
  <2> QED BY <1>2, <1>5, <2>4
<1>7. /\ c.at >= d /\ Cardinality(WorkingDays(d + 1, c.at)) = n
      /\ n # 0 => Draft!IsWorkingDay(c.at)
  BY <1>5, <1>6 DEF CountFits
<1> QED BY <1>1, <1>5, <1>7 DEF c

-----------------------------------------------------------------------------

\* The constants, one by one.
LEMMA DraftNumbers ==
    /\ MaxQuantity \in Nat \ {0} /\ FirstDay \in Nat /\ LastDay \in Nat /\ MaxWorkDays \in Nat \ {0}
    /\ Amounts \subseteq Nat /\ FirstDay <= LastDay /\ Draft!Unset = -1
BY DraftConstants DEF Draft!PriceAssumption, Draft!Unset

\* The half of an amount, and how far it is from the other half (halfAmount).
LEMMA HalfIsHalf ==
    ASSUME NEW a \in Nat \cup {Draft!Unset}
    PROVE  /\ Draft!HalfAmount(a) \in Nat \cup {Draft!Unset}
           /\ a > 1 => LET h == Draft!HalfAmount(a)
                       IN  2 * h >= a /\ 2 * (a - h) <= a /\ a - h >= h - 1
<1>1. a \in Int
  BY DraftNumbers
<1>2. CASE a > 1
  <2> DEFINE h == (a + 1) \div 2
  <2>1. Draft!HalfAmount(a) = h
    BY <1>2 DEF Draft!HalfAmount
  <2>2. h \in Nat /\ 2 * h >= a /\ 2 * h <= a + 1
    BY <1>1, <1>2
  <2> HIDE DEF h
  <2>3. 2 * (a - h) <= a /\ a - h >= h - 1
    BY <1>1, <2>2
  <2> QED BY <2>1, <2>2, <2>3
<1>3. CASE ~(a > 1)
  BY <1>3 DEF Draft!HalfAmount
<1> QED BY <1>2, <1>3

DraftInv == Draft!TypeOK /\ Draft!SubmittedIsAcceptable

\* The empty form is in order.
LEMMA DraftInit == Draft!Init => DraftInv
<1> SUFFICES ASSUME Draft!Init PROVE DraftInv
  OBVIOUS
<1>1. 0 \in 0..MaxQuantity /\ 0 \in 0..MaxWorkDays /\ FirstDay \in FirstDay..LastDay
  BY DraftNumbers
<1> QED BY <1>1 DEF Draft!Init, DraftInv, Draft!TypeOK, Draft!SubmittedIsAcceptable

\* A change of the fields sends nothing.
LEMMA DraftEdit ==
    ASSUME DraftInv, quantity' \in [Products -> 0..MaxQuantity], amount' \in Nat \cup {Draft!Unset},
           initial' \in Nat \cup {Draft!Unset}, split' \in BOOLEAN, date' \in Nat \cup {Draft!Unset},
           workDays' \in 0..MaxWorkDays, today' \in FirstDay..LastDay, body' = body
    PROVE  DraftInv'
<1>1. Draft!TypeOK'
  BY DEF DraftInv, Draft!TypeOK
<1>2. Draft!SubmittedIsAcceptable'
  BY DEF DraftInv, Draft!SubmittedIsAcceptable
<1> QED BY <1>1, <1>2 DEF DraftInv

\* A new choice of products sets the amount and its half.
LEMMA DraftItems ==
    ASSUME DraftInv, NEW items \in [Products -> 0..MaxQuantity], Draft!UpdateItems(items)
    PROVE  /\ DraftInv'
           /\ split /\ Draft!Total(quantity') > 1 =>
                 2 * initial' >= amount' /\ 2 * (amount' - initial') <= amount' /\ amount' - initial' >= initial' - 1
           /\ workDays' = workDays
<1>1. items \in [Products -> Nat]
  BY DraftNumbers
<1> DEFINE total == Draft!Total(items)
<1>2. total \in Nat
  BY <1>1, TotalIsAmount
<1>3. /\ quantity' = items /\ amount' = total
      /\ initial' = IF split THEN Draft!HalfAmount(total) ELSE initial
      /\ UNCHANGED <<split, date, workDays, today, body>>
  BY DEF Draft!UpdateItems
<1> HIDE DEF total
<1>4. initial' \in Nat \cup {Draft!Unset}
  BY <1>2, <1>3, HalfIsHalf DEF DraftInv, Draft!TypeOK
<1>5. DraftInv'
  BY <1>2, <1>3, <1>4, DraftEdit DEF DraftInv, Draft!TypeOK
<1>6. Draft!Total(quantity') = total
  BY <1>3 DEF total
<1> QED BY <1>2, <1>3, <1>5, <1>6, HalfIsHalf

\* The three ways to change the products.
LEMMA DraftToggle ==
    ASSUME DraftInv, NEW a \in Products, Draft!Toggle(a) \/ Draft!ChangeQuantity(a, -1) \/ Draft!ChangeQuantity(a, 1)
    PROVE  \E items \in [Products -> 0..MaxQuantity] : Draft!UpdateItems(items)
<1>1. quantity \in [Products -> 0..MaxQuantity]
  BY DEF DraftInv, Draft!TypeOK
<1>2. CASE Draft!Toggle(a)
  <2> DEFINE items == [quantity EXCEPT ![a] = IF @ = 0 THEN 1 ELSE 0]
  <2>1. items \in [Products -> 0..MaxQuantity]
    <3>1. 0 \in 0..MaxQuantity /\ 1 \in 0..MaxQuantity
      BY DraftNumbers
    <3> QED BY <1>1, <3>1
  <2>2. Draft!UpdateItems(items)
    BY <1>2 DEF Draft!Toggle
  <2> HIDE DEF items
  <2> QED BY <2>1, <2>2
<1>3. ASSUME NEW change \in Int, Draft!ChangeQuantity(a, change)
      PROVE  \E items \in [Products -> 0..MaxQuantity] : Draft!UpdateItems(items)
  <2> DEFINE items == [quantity EXCEPT ![a] = @ + change]
  <2>1. items \in [Products -> 0..MaxQuantity]
    BY <1>1, <1>3, DraftNumbers DEF Draft!ChangeQuantity
  <2>2. Draft!UpdateItems(items)
    BY <1>3 DEF Draft!ChangeQuantity
  <2> HIDE DEF items
  <2> QED BY <2>1, <2>2
<1>4. -1 \in Int /\ 1 \in Int
  OBVIOUS
<1> QED BY <1>2, <1>3, <1>4

\* What is sent the server accepts.
LEMMA DraftSubmit ==
    ASSUME DraftInv, Draft!Submit
    PROVE  DraftInv' /\ UNCHANGED <<quantity, workDays>>
<1>1. /\ quantity \in [Products -> 0..MaxQuantity] /\ amount \in Nat \cup {-1} /\ initial \in Nat \cup {-1}
      /\ split \in BOOLEAN /\ date \in Nat \cup {-1} /\ today \in FirstDay..LastDay
  BY DraftNumbers DEF DraftInv, Draft!TypeOK
<1>2. /\ Draft!Chosen # {} /\ amount > 0 /\ (split => initial > 0 /\ initial < amount)
      /\ date # -1 /\ date >= today
      /\ UNCHANGED <<quantity, amount, split, initial, date, workDays, today>>
  BY DraftNumbers DEF Draft!Submit, Draft!MaySubmit, Draft!ValidSplit
<1> DEFINE first == IF split THEN initial ELSE -1
           b == [items |-> quantity, amount |-> amount, initial |-> first, date |-> date, at |-> today]
<1>3. body' = b
  BY DraftNumbers DEF Draft!Submit
<1>4. amount \in Nat /\ date \in Nat /\ first \in Nat \cup {-1}
  BY <1>1, <1>2
<1>5. (first # -1 => first > 0 /\ first < amount)
  BY <1>2
<1> HIDE DEF first
<1>6. b \in Draft!Body
  BY <1>1, <1>4, DraftNumbers DEF Draft!Body
<1>7. Draft!FewItems(b) => Draft!Acceptable(b)
  <2>1. {a \in Products : b.items[a] # 0} # {}
    BY <1>1, <1>2 DEF Draft!Chosen
  <2> QED BY <1>1, <1>2, <1>4, <1>5, <2>1, DraftNumbers DEF Draft!Acceptable
<1> HIDE DEF b
<1>8. Draft!TypeOK'
  BY <1>1, <1>2, <1>3, <1>6, DraftNumbers DEF DraftInv, Draft!TypeOK
<1>9. Draft!SubmittedIsAcceptable'
  BY <1>3, <1>7 DEF Draft!SubmittedIsAcceptable, Draft!FewItems, Draft!Acceptable
<1> QED BY <1>2, <1>8, <1>9 DEF DraftInv

\* What one step may do to a promise, and to the first payment.
PromiseStep ==
    workDays' > 0 /\ workDays' # workDays =>
        /\ Draft!IsWorkingDay(date')
        /\ Draft!Cardinality({d \in today + 1 .. date' : Draft!IsWorkingDay(d)}) = workDays'

\* A first payment follows the products it is half of.
HalfStep ==
    quantity' # quantity /\ split /\ Draft!Total(quantity') > 1 =>
        /\ 2 * initial' >= amount' /\ 2 * (amount' - initial') <= amount'
        /\ amount' - initial' >= initial' - 1

\* A promise is counted from the day of the press (DeliveryDateSelect.tsx).
LEMMA DraftPromise ==
    ASSUME DraftInv, NEW n \in 0..MaxWorkDays + 1, Draft!PickWorkDays(n)
    PROVE  DraftInv' /\ PromiseStep /\ quantity' = quantity
<1>1. /\ n \in 1..MaxWorkDays /\ workDays' = n /\ date' = Draft!AddWorkingDays(today, n)
      /\ UNCHANGED <<quantity, amount, split, initial, today, body>>
  BY DEF Draft!PickWorkDays, Draft!CountAllowed
<1>2. today \in Nat /\ n \in Nat /\ n # 0 /\ n \in 0..MaxWorkDays
  BY <1>1, DraftNumbers DEF DraftInv, Draft!TypeOK
<1>3. /\ date' \in Nat /\ Draft!IsWorkingDay(date')
      /\ Cardinality(WorkingDays(today + 1, date')) = n
  BY <1>1, <1>2, PromiseKept
<1>4. DraftInv'
  BY <1>1, <1>2, <1>3, DraftEdit DEF DraftInv, Draft!TypeOK
<1>5. Draft!Cardinality({d \in today + 1 .. date' : Draft!IsWorkingDay(d)}) = n
  <2>1. {d \in today + 1 .. date' : Draft!IsWorkingDay(d)} = WorkingDays(today + 1, date')
    BY DEF WorkingDays
  <2> QED BY <1>3, <2>1, DraftSets
<1> QED BY <1>1, <1>3, <1>4, <1>5 DEF PromiseStep

\* The other fields.
LEMMA DraftFields ==
    ASSUME DraftInv,
           \/ \E a \in Amounts : Draft!TypeAmount(a) \/ Draft!TypeInitial(a)
           \/ Draft!CheckSplit
           \/ \E d \in FirstDay..LastDay : Draft!PickDate(d)
           \/ Draft!Midnight
    PROVE  DraftInv' /\ quantity' = quantity /\ (workDays' = workDays \/ workDays' = 0)
<1>1. /\ quantity \in [Products -> 0..MaxQuantity] /\ amount \in Nat \cup {Draft!Unset}
      /\ initial \in Nat \cup {Draft!Unset} /\ split \in BOOLEAN /\ date \in Nat \cup {Draft!Unset}
      /\ workDays \in 0..MaxWorkDays /\ today \in FirstDay..LastDay
      /\ 0 \in 0..MaxWorkDays
  BY DraftNumbers DEF DraftInv, Draft!TypeOK
<1>2. ASSUME NEW a \in Amounts, Draft!TypeAmount(a)
      PROVE  DraftInv' /\ quantity' = quantity /\ workDays' = workDays
  <2>1. a \in Nat /\ Draft!HalfAmount(a) \in Nat \cup {Draft!Unset}
    BY DraftNumbers, HalfIsHalf
  <2>2. amount' = a /\ initial' \in Nat \cup {Draft!Unset} /\ UNCHANGED <<quantity, split, date, workDays, today, body>>
    BY <1>1, <1>2, <2>1 DEF Draft!TypeAmount
  <2> QED BY <1>1, <2>1, <2>2, DraftEdit
<1>3. ASSUME NEW a \in Amounts, Draft!TypeInitial(a)
      PROVE  DraftInv' /\ quantity' = quantity /\ workDays' = workDays
  <2>1. a \in Nat /\ initial' = a /\ UNCHANGED <<quantity, amount, split, date, workDays, today, body>>
    BY <1>3, DraftNumbers DEF Draft!TypeInitial
  <2> QED BY <1>1, <2>1, DraftEdit
<1>4. ASSUME Draft!CheckSplit PROVE DraftInv' /\ quantity' = quantity /\ workDays' = workDays
  <2>1. Draft!HalfAmount(amount) \in Nat \cup {Draft!Unset}
    BY <1>1, HalfIsHalf
  <2>2. split' \in BOOLEAN /\ initial' \in Nat \cup {Draft!Unset} /\ UNCHANGED <<quantity, amount, date, workDays, today, body>>
    BY <1>1, <1>4, <2>1 DEF Draft!CheckSplit
  <2> QED BY <1>1, <2>2, DraftEdit
<1>5. ASSUME NEW d \in FirstDay..LastDay, Draft!PickDate(d)
      PROVE  DraftInv' /\ quantity' = quantity /\ workDays' = 0
  <2>1. d \in Nat /\ date' = d /\ workDays' = 0 /\ UNCHANGED <<quantity, amount, split, initial, today, body>>
    BY <1>5, DraftNumbers DEF Draft!PickDate
  <2> QED BY <1>1, <2>1, DraftEdit
<1>6. ASSUME Draft!Midnight PROVE DraftInv' /\ quantity' = quantity /\ workDays' = workDays
  <2>1. today' \in FirstDay..LastDay /\ UNCHANGED <<quantity, amount, split, initial, date, workDays, body>>
    BY <1>1, <1>6, DraftNumbers DEF Draft!Midnight
  <2> QED BY <1>1, <2>1, DraftEdit
<1> QED BY <1>2, <1>3, <1>4, <1>5, <1>6

\* The empty form again (reset).
LEMMA DraftReset ==
    ASSUME DraftInv, Draft!Reset
    PROVE  DraftInv' /\ Draft!Total(quantity') = 0 /\ workDays' = 0
<1>1. /\ quantity' = [a \in Products |-> 0] /\ amount' = Draft!Unset /\ split' = FALSE
      /\ initial' = Draft!Unset /\ date' = Draft!Unset /\ workDays' = 0 /\ body' = Draft!NoBody /\ today' = today
  BY DEF Draft!Reset
<1> DEFINE nothing == [a \in Products |-> 0]
<1>2. nothing \in [Products -> Nat] /\ \A a \in Products : nothing[a] = 0
  OBVIOUS
<1>3. Draft!Total(nothing) = 0
  <2> HIDE DEF nothing
  <2> QED BY <1>2, TotalIsAmount
<1>4. 0 \in 0..MaxQuantity /\ 0 \in 0..MaxWorkDays
  BY DraftNumbers
<1>5. Draft!TypeOK'
  BY <1>1, <1>4 DEF DraftInv, Draft!TypeOK
<1>6. Draft!SubmittedIsAcceptable'
  BY <1>1 DEF Draft!SubmittedIsAcceptable
<1> QED BY <1>1, <1>3, <1>5, <1>6 DEF DraftInv

\* Every step keeps the invariant and does to promises and payments what it may.
LEMMA DraftStep ==
    DraftInv /\ [Draft!Next]_draftVars => DraftInv' /\ PromiseStep /\ HalfStep
<1> SUFFICES ASSUME DraftInv, [Draft!Next]_draftVars PROVE DraftInv' /\ PromiseStep /\ HalfStep
  OBVIOUS
<1>1. CASE UNCHANGED draftVars
  <2>1. DraftInv'
    BY <1>1, DraftEdit DEF draftVars, DraftInv, Draft!TypeOK
  <2> QED BY <1>1, <2>1 DEF draftVars, PromiseStep, HalfStep
<1>2. ASSUME NEW a \in Products, Draft!Toggle(a) \/ Draft!ChangeQuantity(a, -1) \/ Draft!ChangeQuantity(a, 1)
      PROVE  DraftInv' /\ PromiseStep /\ HalfStep
  BY <1>2, DraftToggle, DraftItems DEF PromiseStep, HalfStep
<1>3. ASSUME NEW n \in 0..MaxWorkDays + 1, Draft!PickWorkDays(n)
      PROVE  DraftInv' /\ PromiseStep /\ HalfStep
  BY <1>3, DraftPromise DEF HalfStep
<1>4. CASE Draft!Submit
  BY <1>4, DraftSubmit DEF PromiseStep, HalfStep
<1>5. CASE Draft!Reset
  BY <1>5, DraftReset DEF PromiseStep, HalfStep
<1>6. CASE \/ \E a \in Amounts : Draft!TypeAmount(a) \/ Draft!TypeInitial(a)
           \/ Draft!CheckSplit
           \/ \E d \in FirstDay..LastDay : Draft!PickDate(d)
           \/ Draft!Midnight
  BY <1>6, DraftFields DEF PromiseStep, HalfStep
<1> QED BY <1>1, <1>2, <1>3, <1>4, <1>5, <1>6 DEF Draft!Next

-----------------------------------------------------------------------------
(* Existing orders (ImportOrderForm) *)

\* The forms' constants satisfy what the components' models assume.
LEMMA ImportConstants == Import!ImportAssumption
BY FormsAssumption

\* An order and the missing one are not confused; records of the page have their fields.
LEMMA NoImport ==
    /\ Import!NoOrder = [sale |-> None, receipt |-> None, reviewed |-> None]
    /\ \A o \in Import!Order : o # Import!NoOrder /\ o.sale \in Sales /\ o.sale # None
BY ImportConstants DEF Import!ImportAssumption, Import!NoOrder, Import!Order

\* The empty form.
LEMMA EmptyImport ==
    /\ Import!NoPage \in Import!Page
    /\ Import!NoPage.n = 0 /\ Import!NoPage.busy = FALSE /\ Import!NoPage.pending = FALSE
    /\ Import!NoPage.reviewing = FALSE /\ Import!NoPage.items = FALSE
    /\ Import!NoPage.sale = None /\ Import!NoPage.key = None
    /\ Import!NoPage.receipt = None /\ Import!NoPage.optimizing = 0
BY ImportConstants DEF Import!ImportAssumption, Import!NoPage, Import!Page

\* The form is closed and no order imported.
LEMMA ImportInit == Import!Init => Import!IInv
<1> SUFFICES ASSUME Import!Init PROVE Import!IInv
  OBVIOUS
<1>0. /\ importSent \in 0..MaxImports /\ importLost \in 0..FewLosses
      /\ chosen \in 0..MaxChoices /\ importMounts \in 0..FewMounts
  BY ImportConstants DEF Import!Init, Import!ImportAssumption
<1>1. Import!TypeOK
  BY <1>0, EmptyImport, ImportConstants DEF Import!Init, Import!TypeOK, Import!ImportAssumption
<1>2. Import!PageFits /\ Import!SalesFit /\ Import!NoDuplicate
  <2>1. importPage.n <= importMounts
    BY EmptyImport DEF Import!Init
  <2>2. Import!PageFits
    BY <2>1, EmptyImport DEF Import!Init, Import!PageFits
  <2> QED BY <2>2 DEF Import!Init, Import!SalesFit, Import!NoDuplicate
<1>3. Import!OneImage /\ Import!ReceiptFits /\ Import!ReviewedIsStored /\ Import!OwnReceipt
  BY EmptyImport, NoImport DEF Import!Init, Import!OneImage, Import!ReceiptFits, Import!OwnImage,
     Import!ReviewedIsStored, Import!OwnReceipt
<1> QED BY <1>1, <1>2, <1>3 DEF Import!IInv, Import!Init

\* No picker is at work.
LEMMA NoChoice == 0 \in 0..MaxChoices
BY ImportConstants DEF Import!ImportAssumption

\* The fields of a page.
LEMMA ImportFields ==
    ASSUME NEW g \in Import!Page
    PROVE  /\ g.n \in 0..FewMounts /\ g.key \in Keys \cup {None} /\ g.sale \in Sales \cup {None}
           /\ g.items \in BOOLEAN /\ g.receipt \in Import!Receipts \cup {None} /\ g.busy \in BOOLEAN
           /\ g.optimizing \in 0..MaxChoices /\ g.reviewing \in BOOLEAN
           /\ g.reviewed \in Import!Receipts \cup {None} /\ g.pending \in BOOLEAN
BY DEF Import!Page

\* What holds of the forms' requests, key and sales, whatever images are prepared.
ImportBase ==
    /\ Import!TypeOK /\ Import!PageFits /\ Import!SalesFit /\ Import!NoDuplicate
    /\ \A r \in importRequests : Import!RequestFits(r)

\* The part about images.
ImportReceipts == Import!OneImage /\ Import!ReceiptFits /\ Import!ReviewedIsStored /\ Import!OwnReceipt

\* The invariant, with what a patient operator adds apart.
LEMMA ImportParts == Import!IInv <=> ImportBase /\ (Patient => ImportReceipts)
BY DEF Import!IInv, ImportBase, ImportReceipts

\* A step on the page that leaves its key and, while it waits, its review alone.
LEMMA ImportEdit ==
    ASSUME ImportBase, NEW g \in Import!Page, importPage' = g, importPage.n # 0,
           UNCHANGED <<imports, importKey, importing, importRequests, importDrawn, importSeen,
                       importSent, importLost, importMounts>>,
           chosen' \in 0..MaxChoices,
           preparing' \subseteq [n : 1..FewMounts, id : 1..MaxChoices, image : Import!Receipts],
           g.n = importPage.n, g.key = importPage.key, g.pending = importPage.pending,
           g.pending => g.reviewing /\ g.sale = importPage.sale,
           g.reviewing => g.items, g.items => g.sale # None, g.sale \notin importSeen
    PROVE  ImportBase'
<1>1. Import!TypeOK'
  BY DEF ImportBase, Import!TypeOK
<1>2. Import!PageFits'
  BY DEF ImportBase, Import!PageFits
<1>3. Import!SalesFit' /\ Import!NoDuplicate'
  BY DEF ImportBase, Import!SalesFit, Import!NoDuplicate
<1>4. ASSUME NEW r \in importRequests PROVE Import!RequestFits(r)'
  <2>1. Import!RequestFits(r)
    BY DEF ImportBase
  <2> QED BY <2>1 DEF Import!RequestFits
<1> QED BY <1>1, <1>2, <1>3, <1>4 DEF ImportBase

\* An edit keeps the part about images if what it leaves in preparation fits the page.
LEMMA ImportEditImages ==
    ASSUME ImportBase, ImportReceipts, importPage'.n = importPage.n,
           UNCHANGED <<imports, importRequests>>,
           Import!OneImage', Import!OwnImage(importPage)',
           (importPage.reviewing => ~importPage.busy /\ importPage.receipt = importPage.reviewed)'
    PROVE  ImportReceipts'
<1>1. Import!ReceiptFits'
  BY DEF ImportReceipts, Import!ReceiptFits, Import!OwnImage
<1>2. Import!ReviewedIsStored' /\ Import!OwnReceipt'
  BY DEF ImportReceipts, Import!ReviewedIsStored, Import!OwnReceipt
<1> QED BY <1>1, <1>2 DEF ImportReceipts

\* Entering a sale disturbs neither the review nor the image that is prepared.
LEMMA ImportFill ==
    ASSUME ImportBase, Patient => ImportReceipts, NEW sale \in Sales, Import!Fill(sale)
    PROVE  ImportBase' /\ (Patient => ImportReceipts')
<1> DEFINE g == [importPage EXCEPT !.sale = sale, !.items = TRUE]
<1>1. importPage \in Import!Page /\ importPage.n # 0 /\ ~importPage.reviewing /\ ~importPage.pending
      /\ importPage.sale = None /\ sale \notin importSeen /\ importPage' = g
  BY ImportFields DEF Import!Fill, Import!Editable, ImportBase, Import!TypeOK, Import!PageFits
<1>2. /\ g \in Import!Page /\ g.n = importPage.n /\ g.key = importPage.key /\ g.pending = importPage.pending
      /\ g.sale = sale /\ g.items /\ g.reviewing = importPage.reviewing /\ g.busy = importPage.busy
      /\ g.optimizing = importPage.optimizing /\ g.receipt = importPage.receipt
  BY <1>1 DEF Import!Page
<1> HIDE DEF g
<1>3. ImportBase'
  <2>1. sale # None
    BY ImportConstants DEF Import!ImportAssumption
  <2>2. /\ UNCHANGED <<imports, importKey, importing, importRequests, importDrawn, importSeen,
                       importSent, importLost, importMounts>> /\ UNCHANGED <<chosen, preparing>>
    BY DEF Import!Fill, Import!counts
  <2>3. chosen' \in 0..MaxChoices
        /\ preparing' \subseteq [n : 1..FewMounts, id : 1..MaxChoices, image : Import!Receipts]
    BY <2>2 DEF ImportBase, Import!TypeOK
  <2> QED BY <1>1, <1>2, <2>1, <2>2, <2>3, ImportEdit
<1>4. ASSUME Patient PROVE ImportReceipts'
  <2>1. ImportReceipts /\ UNCHANGED <<imports, importRequests, preparing, chosen, importMounts>>
    BY <1>4 DEF Import!Fill, Import!counts
  <2>2. \A job \in preparing : ~Import!Here(job)
    BY <1>1, <2>1 DEF ImportReceipts, Import!OneImage
  <2> QED BY <1>1, <1>2, <2>1, ImportEditImages DEF ImportReceipts, Import!OneImage, Import!ReceiptFits, Import!OwnImage, Import!Here
<1> QED BY <1>3, <1>4

\* What every edit of the page leaves alone.
ImportEdited ==
    UNCHANGED <<imports, importKey, importing, importRequests, importDrawn, importSeen, importSent,
                importLost, importMounts>>

\* The products are opened and closed.
LEMMA ImportToggle ==
    ASSUME ImportBase, Patient => ImportReceipts, Import!ToggleItems
    PROVE  ImportBase' /\ (Patient => ImportReceipts')
<1> DEFINE g == [importPage EXCEPT !.items = ~@, !.optimizing = 0]
<1>1. importPage \in Import!Page /\ importPage.n # 0 /\ ~importPage.reviewing /\ ~importPage.pending
      /\ importPage.sale # None /\ importPage.sale \notin importSeen /\ importPage' = g
  BY ImportFields DEF Import!ToggleItems, Import!Editable, ImportBase, Import!TypeOK, Import!PageFits
<1>2. /\ g \in Import!Page /\ g.n = importPage.n /\ g.key = importPage.key /\ g.pending = importPage.pending
      /\ g.sale = importPage.sale /\ g.reviewing = importPage.reviewing /\ g.busy = importPage.busy
      /\ g.receipt = importPage.receipt
  BY <1>1, NoChoice DEF Import!Page
<1> HIDE DEF g
<1>3. ImportEdited /\ UNCHANGED <<chosen, preparing>>
  BY DEF Import!ToggleItems, Import!counts, ImportEdited
<1>4. ImportBase'
  <2>1. chosen' \in 0..MaxChoices
        /\ preparing' \subseteq [n : 1..FewMounts, id : 1..MaxChoices, image : Import!Receipts]
    BY <1>3 DEF ImportBase, Import!TypeOK
  <2> QED BY <1>1, <1>2, <1>3, <2>1, ImportEdit DEF ImportEdited
<1>5. ASSUME Patient PROVE ImportReceipts'
  <2>1. ImportReceipts /\ importPage.optimizing = 0
    BY <1>5 DEF Import!ToggleItems
  <2>2. \A job \in preparing : job.id # 0 /\ ~Import!Here(job)
    BY <2>1 DEF ImportReceipts, Import!OneImage, ImportBase, Import!TypeOK
  <2> QED BY <1>1, <1>2, <1>3, <2>1, <2>2, ImportEditImages DEF ImportEdited, ImportReceipts, Import!OneImage, Import!ReceiptFits, Import!OwnImage, Import!Here
<1> QED BY <1>4, <1>5

\* A removed image is neither sent nor waited for (removeReceipt).
LEMMA ImportRemove ==
    ASSUME ImportBase, Patient => ImportReceipts, Import!Remove
    PROVE  ImportBase' /\ (Patient => ImportReceipts')
<1> DEFINE g == [importPage EXCEPT !.receipt = None]
<1>1. importPage \in Import!Page /\ importPage.n # 0 /\ ~importPage.reviewing /\ ~importPage.pending
      /\ importPage.sale \notin importSeen /\ importPage' = g
      /\ (importPage.items => importPage.sale # None)
  BY ImportFields DEF Import!Remove, Import!Editable, ImportBase, Import!TypeOK, Import!PageFits
<1>2. /\ g \in Import!Page /\ g.n = importPage.n /\ g.key = importPage.key /\ g.pending = importPage.pending
      /\ g.sale = importPage.sale /\ g.reviewing = importPage.reviewing /\ g.busy = importPage.busy
      /\ g.receipt = None /\ g.items = importPage.items /\ g.optimizing = importPage.optimizing
  BY <1>1 DEF Import!Page
<1> HIDE DEF g
<1>3. ImportEdited /\ UNCHANGED <<chosen, preparing>>
  BY DEF Import!Remove, Import!counts, ImportEdited
<1>4. ImportBase'
  <2>1. chosen' \in 0..MaxChoices
        /\ preparing' \subseteq [n : 1..FewMounts, id : 1..MaxChoices, image : Import!Receipts]
    BY <1>3 DEF ImportBase, Import!TypeOK
  <2> QED BY <1>1, <1>2, <1>3, <2>1, ImportEdit DEF ImportEdited
<1>5. ASSUME Patient PROVE ImportReceipts'
  <2>1. ImportReceipts
    BY <1>5
  <2> QED BY <1>1, <1>2, <1>3, <2>1, ImportEditImages DEF ImportEdited, ImportReceipts, Import!OneImage, Import!ReceiptFits, Import!OwnImage, Import!Here
<1> QED BY <1>4, <1>5

\* The review is opened when the image, if there is one, is ready (openReview).
LEMMA ImportReview ==
    ASSUME ImportBase, Patient => ImportReceipts, Import!OpenReview
    PROVE  ImportBase' /\ (Patient => ImportReceipts')
<1> DEFINE g == [importPage EXCEPT !.reviewing = TRUE, !.reviewed = importPage.receipt]
<1>1. importPage \in Import!Page /\ importPage.n # 0 /\ ~importPage.reviewing /\ ~importPage.pending
      /\ importPage.sale \notin importSeen /\ importPage' = g
      /\ importPage.items /\ importPage.sale # None /\ ~importPage.busy
  BY ImportFields DEF Import!OpenReview, Import!Editable, ImportBase, Import!TypeOK, Import!PageFits, Import!ReceiptReady
<1>2. /\ g \in Import!Page /\ g.n = importPage.n /\ g.key = importPage.key /\ g.pending = importPage.pending
      /\ g.sale = importPage.sale /\ g.reviewed = importPage.receipt /\ g.busy = importPage.busy
      /\ g.receipt = importPage.receipt /\ g.items = importPage.items /\ g.optimizing = importPage.optimizing
  BY <1>1, ImportFields DEF Import!Page
<1> HIDE DEF g
<1>3. ImportEdited /\ UNCHANGED <<chosen, preparing>>
  BY DEF Import!OpenReview, Import!counts, ImportEdited
<1>4. ImportBase'
  <2>1. chosen' \in 0..MaxChoices
        /\ preparing' \subseteq [n : 1..FewMounts, id : 1..MaxChoices, image : Import!Receipts]
    BY <1>3 DEF ImportBase, Import!TypeOK
  <2> QED BY <1>1, <1>2, <1>3, <2>1, ImportEdit DEF ImportEdited
<1>5. ASSUME Patient PROVE ImportReceipts'
  <2>1. ImportReceipts
    BY <1>5
  <2> QED BY <1>1, <1>2, <1>3, <2>1, ImportEditImages DEF ImportEdited, ImportReceipts, Import!OneImage, Import!ReceiptFits, Import!OwnImage, Import!Here
<1> QED BY <1>4, <1>5

\* Back to the form, with the same sale and image.
LEMMA ImportCorrect ==
    ASSUME ImportBase, Patient => ImportReceipts, Import!Correct
    PROVE  ImportBase' /\ (Patient => ImportReceipts')
<1> DEFINE g == [importPage EXCEPT !.reviewing = FALSE, !.reviewed = None, !.optimizing = 0]
<1>1. importPage \in Import!Page /\ importPage.n # 0 /\ importPage.reviewing /\ ~importPage.pending
      /\ importPage.sale \notin importSeen /\ importPage' = g
      /\ importPage.items /\ importPage.sale # None
  BY ImportFields, EmptyImport DEF Import!Correct, ImportBase, Import!TypeOK, Import!PageFits
<1>2. /\ g \in Import!Page /\ g.n = importPage.n /\ g.key = importPage.key /\ g.pending = importPage.pending
      /\ g.sale = importPage.sale /\ g.reviewing = FALSE /\ g.busy = importPage.busy
      /\ g.receipt = importPage.receipt /\ g.items = importPage.items
  BY <1>1, NoChoice DEF Import!Page
<1> HIDE DEF g
<1>3. ImportEdited /\ UNCHANGED <<chosen, preparing>>
  BY DEF Import!Correct, Import!counts, ImportEdited
<1>4. ImportBase'
  <2>1. chosen' \in 0..MaxChoices
        /\ preparing' \subseteq [n : 1..FewMounts, id : 1..MaxChoices, image : Import!Receipts]
    BY <1>3 DEF ImportBase, Import!TypeOK
  <2> QED BY <1>1, <1>2, <1>3, <2>1, ImportEdit DEF ImportEdited
<1>5. ASSUME Patient PROVE ImportReceipts'
  <2>1. ImportReceipts /\ ~importPage.busy
    BY <1>1, <1>5 DEF ImportReceipts, Import!ReceiptFits
  <2>2. \A job \in preparing : ~Import!Here(job)
    BY <2>1 DEF ImportReceipts, Import!OneImage
  <2> QED BY <1>1, <1>2, <1>3, <2>1, <2>2, ImportEditImages DEF ImportEdited, ImportReceipts, Import!OneImage, Import!ReceiptFits, Import!OwnImage, Import!Here
<1> QED BY <1>4, <1>5

\* The chosen image is prepared; what was prepared before is forgotten (chooseReceipt).
LEMMA ImportChoose ==
    ASSUME ImportBase, Patient => ImportReceipts, NEW image \in Import!Receipts, Import!Choose(image)
    PROVE  ImportBase' /\ (Patient => ImportReceipts')
<1> DEFINE g == [importPage EXCEPT !.receipt = None, !.busy = TRUE, !.optimizing = chosen + 1]
           job0 == [n |-> importPage.n, id |-> chosen + 1, image |-> image]
<1>1. importPage \in Import!Page /\ importPage.n # 0 /\ ~importPage.reviewing /\ ~importPage.pending
      /\ importPage.sale \notin importSeen /\ importPage' = g /\ importPage.optimizing = 0
      /\ importPage.items /\ importPage.sale # None /\ image \in ImagesOf[importPage.sale]
  BY ImportFields DEF Import!Choose, Import!Editable, ImportBase, Import!TypeOK, Import!PageFits
<1>2. /\ chosen \in 0..MaxChoices /\ MaxChoices \in Nat /\ chosen < MaxChoices /\ chosen' = chosen + 1
      /\ preparing' = preparing \cup {job0}
      /\ preparing \subseteq [n : 1..FewMounts, id : 1..MaxChoices, image : Import!Receipts]
      /\ importPage.n \in 1..FewMounts /\ importPage.n <= importMounts
  BY <1>1, ImportConstants, ImportFields DEF Import!Choose, Import!ImportAssumption, ImportBase, Import!TypeOK, Import!PageFits
<1>3. /\ g \in Import!Page /\ g.n = importPage.n /\ g.key = importPage.key /\ g.pending = importPage.pending
      /\ g.sale = importPage.sale /\ g.reviewing = importPage.reviewing /\ g.busy = TRUE
      /\ g.receipt = None /\ g.items = importPage.items /\ g.optimizing = chosen + 1
  <2>1. chosen + 1 \in 0..MaxChoices
    BY <1>2
  <2> QED BY <1>1, <2>1 DEF Import!Page
<1>4. job0 \in [n : 1..FewMounts, id : 1..MaxChoices, image : Import!Receipts]
      /\ job0.n = importPage.n /\ job0.id = chosen + 1 /\ job0.image = image
  BY <1>2
<1> HIDE DEF g, job0
<1>5. ImportEdited
  BY DEF Import!Choose, ImportEdited
<1>6. ImportBase'
  BY <1>1, <1>2, <1>3, <1>4, <1>5, ImportEdit DEF ImportEdited
<1>7. ASSUME Patient PROVE ImportReceipts'
  <2>1. ImportReceipts
    BY <1>7
  <2>2. \A job \in preparing : job.id # chosen + 1 /\ job.id # 0 /\ ~Import!Here(job) /\ job.id <= chosen + 1
    BY <1>1, <1>2, <2>1 DEF ImportReceipts, Import!OneImage
  <2>3. Import!OneImage'
    BY <1>1, <1>2, <1>3, <1>4, <1>5, <2>1, <2>2 DEF ImportReceipts, Import!OneImage, Import!Here, ImportEdited
  <2> QED BY <1>1, <1>3, <1>5, <2>1, <2>3, ImportEditImages DEF ImportEdited, Import!OwnImage
<1> QED BY <1>6, <1>7

\* Only the last chosen image is taken (prepareReceipt).
LEMMA ImportPrepared ==
    ASSUME ImportBase, Patient => ImportReceipts, NEW job \in preparing, Import!Prepared(job)
    PROVE  ImportBase' /\ (Patient => ImportReceipts')
<1> DEFINE g == IF ~Import!Here(job) THEN importPage
                ELSE [importPage EXCEPT !.receipt = job.image, !.busy = FALSE,
                                        !.optimizing = IF @ = job.id THEN 0 ELSE @]
<1>1. importPage \in Import!Page /\ importPage' = g /\ importPage.sale \notin importSeen
      /\ job.n \in 1..FewMounts /\ job.id \in 1..MaxChoices /\ job.image \in Import!Receipts
      /\ preparing' = preparing \ {job} /\ importPage.pending \in BOOLEAN
      /\ (importPage.pending => importPage.reviewing)
      /\ (importPage.reviewing => importPage.items) /\ (importPage.items => importPage.sale # None)
  BY ImportFields DEF Import!Prepared, ImportBase, Import!TypeOK, Import!PageFits
<1>2. /\ g \in Import!Page /\ g.n = importPage.n /\ g.key = importPage.key /\ g.pending = importPage.pending
      /\ g.sale = importPage.sale /\ g.reviewing = importPage.reviewing /\ g.items = importPage.items
      /\ g.reviewed = importPage.reviewed
      /\ (~Import!Here(job) => g = importPage)
      /\ (Import!Here(job) => g.receipt = job.image /\ g.busy = FALSE)
  <2>1. CASE Import!Here(job)
    <3> DEFINE o == IF importPage.optimizing = job.id THEN 0 ELSE importPage.optimizing
    <3>1. o \in 0..MaxChoices
      BY <1>1, NoChoice, ImportFields
    <3>2. g = [importPage EXCEPT !.receipt = job.image, !.busy = FALSE, !.optimizing = o]
      BY <2>1
    <3> HIDE DEF g, o
    <3> QED BY <1>1, <2>1, <3>1, <3>2 DEF Import!Page
  <2>2. CASE ~Import!Here(job)
    BY <1>1, <2>2
  <2> QED BY <2>1, <2>2
<1> HIDE DEF g
<1>3. ImportEdited /\ UNCHANGED chosen
  BY DEF Import!Prepared, Import!counts, ImportEdited
<1>4. ImportBase'
  <2>1. chosen' \in 0..MaxChoices
        /\ preparing' \subseteq [n : 1..FewMounts, id : 1..MaxChoices, image : Import!Receipts]
    BY <1>1, <1>3 DEF ImportBase, Import!TypeOK
  <2>2. CASE importPage.n # 0
    BY <1>1, <1>2, <1>3, <2>1, <2>2, ImportEdit DEF ImportEdited
  <2>3. CASE importPage.n = 0
    <3>1. g = importPage
      BY <1>1, <1>2, <2>3 DEF Import!Here
    <3>2. Import!TypeOK' /\ Import!PageFits' /\ Import!SalesFit' /\ Import!NoDuplicate'
      BY <1>1, <1>3, <2>1, <3>1 DEF ImportEdited, ImportBase, Import!TypeOK, Import!PageFits, Import!SalesFit, Import!NoDuplicate
    <3>3. ASSUME NEW r \in importRequests PROVE Import!RequestFits(r)'
      <4>1. Import!RequestFits(r)
        BY DEF ImportBase
      <4> QED BY <1>1, <1>3, <3>1, <4>1 DEF Import!RequestFits, ImportEdited
    <3> QED BY <1>3, <3>2, <3>3 DEF ImportBase, ImportEdited
  <2> QED BY <2>2, <2>3
<1>5. ASSUME Patient PROVE ImportReceipts'
  <2>1. ImportReceipts
    BY <1>5
  <2>2. Import!Here(job) => \A other \in preparing \ {job} : ~Import!Here(other)
    BY <2>1 DEF ImportReceipts, Import!OneImage
  <2>3. Import!OneImage'
    BY <1>1, <1>2, <1>3, <2>1, <2>2 DEF ImportReceipts, Import!OneImage, Import!Here, ImportEdited
  <2>4. Import!OwnImage(importPage)' /\ (importPage.reviewing => ~importPage.busy /\ importPage.receipt = importPage.reviewed)'
    BY <1>1, <1>2, <2>1 DEF ImportReceipts, Import!OneImage, Import!ReceiptFits, Import!OwnImage
  <2> QED BY <1>1, <1>2, <1>3, <2>1, <2>3, <2>4, ImportEditImages DEF ImportEdited
<1> QED BY <1>4, <1>5

\* A page that opens has no sale, no image and nothing in flight.
LEMMA ImportOpen ==
    ASSUME ImportBase, Patient => ImportReceipts, NEW k \in Keys, Import!Open(k)
    PROVE  ImportBase' /\ (Patient => ImportReceipts')
<1> DEFINE g == [Import!NoPage EXCEPT !.n = importMounts + 1, !.key = k]
<1>1. /\ importPage.n = 0 /\ importMounts \in 0..FewMounts /\ importMounts < FewMounts /\ FewMounts \in Nat
      /\ importMounts' = importMounts + 1 /\ importKey' = k /\ importDrawn' = importDrawn \cup {k}
      /\ importPage' = g /\ importPage = Import!NoPage
      /\ (IF importKey # None THEN k = importKey ELSE k \notin importDrawn)
      /\ UNCHANGED <<imports, importing, preparing, importRequests, importSeen, importSent, importLost, chosen>>
  BY ImportConstants DEF Import!Open, ImportBase, Import!TypeOK, Import!ImportAssumption
<1>2. /\ g \in Import!Page /\ g.n = importMounts + 1 /\ g.key = k /\ g.pending = FALSE
      /\ g.sale = None /\ g.reviewing = FALSE /\ g.busy = FALSE /\ g.items = FALSE
      /\ g.receipt = None /\ g.optimizing = 0
  <2>1. importMounts + 1 \in 0..FewMounts
    BY <1>1
  <2> QED BY <2>1, EmptyImport DEF Import!Page
<1>3. /\ importPage.pending = FALSE /\ importPage.busy = FALSE
  BY <1>1, EmptyImport
<1> HIDE DEF g
<1>4. importRequests = {}
  BY <1>3 DEF ImportBase, Import!RequestFits
<1>5. ImportBase'
  <2>1. Import!TypeOK'
    <3>1. importMounts' \in 0..FewMounts /\ importMounts + 1 # 0
      BY <1>1
    <3> QED BY <1>1, <1>2, <3>1 DEF ImportBase, Import!TypeOK
  <2>2. Import!PageFits'
    <3>1. importPage'.n <= importMounts'
      BY <1>1, <1>2
    <3>2. None \notin importSeen /\ k # None
      BY ImportConstants DEF Import!ImportAssumption, ImportBase, Import!TypeOK
    <3> QED BY <1>1, <1>2, <1>3, <3>1, <3>2 DEF ImportBase, Import!PageFits
  <2>3. Import!SalesFit' /\ Import!NoDuplicate'
    BY <1>1, ImportConstants DEF ImportBase, Import!SalesFit, Import!NoDuplicate, Import!ImportAssumption, Import!PageFits
  <2> QED BY <1>1, <1>4, <2>1, <2>2, <2>3 DEF ImportBase
<1>6. ASSUME Patient PROVE ImportReceipts'
  <2>1. ImportReceipts
    BY <1>6
  <2>2. \A job \in preparing : job.n <= importMounts /\ job.n \in 1..FewMounts /\ job.n # importMounts + 1
    BY <1>1, <2>1 DEF ImportReceipts, Import!OneImage, ImportBase, Import!TypeOK
  <2>3. \A job \in preparing : job.n <= importMounts'
    BY <1>1, <2>2
  <2>4. Import!OneImage'
    BY <1>1, <1>2, <2>1, <2>2, <2>3 DEF ImportReceipts, Import!OneImage, Import!Here
  <2>5. Import!ReceiptFits' /\ Import!ReviewedIsStored' /\ Import!OwnReceipt'
    BY <1>1, <1>2, <1>4, <2>1 DEF ImportReceipts, Import!ReceiptFits, Import!ReviewedIsStored, Import!OwnReceipt, Import!OwnImage
  <2> QED BY <2>4, <2>5 DEF ImportReceipts
<1> QED BY <1>5, <1>6

\* A page that is left takes its form with it.
LEMMA ImportLeave ==
    ASSUME ImportBase, Patient => ImportReceipts, Import!Leave
    PROVE  ImportBase' /\ (Patient => ImportReceipts')
<1>1. /\ ~importing /\ importPage' = Import!NoPage
      /\ UNCHANGED <<imports, importKey, importing, preparing, importRequests, importDrawn, importSeen,
                     importSent, importLost, chosen, importMounts>>
  BY DEF Import!Leave, Import!counts
<1>2. importRequests = {} /\ importing = FALSE
  BY <1>1 DEF ImportBase, Import!RequestFits, Import!PageFits, Import!TypeOK
<1>3. ImportBase'
  <2>1. Import!TypeOK'
    BY <1>1, EmptyImport DEF ImportBase, Import!TypeOK
  <2>2. Import!PageFits'
    <3>1. importPage'.n <= importMounts'
      BY <1>1, EmptyImport, ImportConstants DEF ImportBase, Import!TypeOK, Import!ImportAssumption
    <3>2. None \notin importSeen
      BY ImportConstants DEF Import!ImportAssumption, ImportBase, Import!TypeOK
    <3> QED BY <1>1, <1>2, <3>1, <3>2, EmptyImport DEF ImportBase, Import!PageFits
  <2>3. Import!SalesFit' /\ Import!NoDuplicate'
    BY <1>1 DEF ImportBase, Import!SalesFit, Import!NoDuplicate
  <2> QED BY <1>1, <1>2, <2>1, <2>2, <2>3 DEF ImportBase
<1>4. ASSUME Patient PROVE ImportReceipts'
  <2>1. ImportReceipts
    BY <1>4
  <2>2. \A job \in preparing : job.n # 0
    BY DEF ImportBase, Import!TypeOK
  <2>3. Import!OneImage'
    BY <1>1, <2>1, <2>2, EmptyImport DEF ImportReceipts, Import!OneImage, Import!Here
  <2>4. Import!ReceiptFits' /\ Import!ReviewedIsStored' /\ Import!OwnReceipt'
    BY <1>1, <1>2, <2>1, EmptyImport DEF ImportReceipts, Import!ReceiptFits, Import!ReviewedIsStored, Import!OwnReceipt, Import!OwnImage
  <2> QED BY <2>3, <2>4 DEF ImportReceipts
<1> QED BY <1>3, <1>4

\* What is sent is what was reviewed (submit).
LEMMA ImportSubmit ==
    ASSUME ImportBase, Patient => ImportReceipts, Import!Submit
    PROVE  ImportBase' /\ (Patient => ImportReceipts')
<1> DEFINE g == [importPage EXCEPT !.pending = TRUE]
           o == [sale |-> importPage.sale, receipt |-> importPage.receipt, reviewed |-> importPage.reviewed]
           r0 == [n |-> importPage.n, id |-> importSent + 1, key |-> importPage.key, order |-> o, answer |-> "none"]
<1>1. /\ importPage.reviewing /\ ~importPage.pending /\ ~importPage.busy
      /\ importSent < MaxImports /\ importSent' = importSent + 1 /\ importRequests' = importRequests \cup {r0}
      /\ importPage' = g /\ importing' = TRUE
      /\ UNCHANGED <<imports, importKey, preparing, importDrawn, importSeen, importLost, chosen, importMounts>>
  BY DEF Import!Submit, Import!ReceiptReady
<1>2. /\ importPage \in Import!Page /\ importPage.n # 0 /\ importPage.key # None /\ importPage.sale \in Sales
      /\ importPage.n \in 1..FewMounts /\ importPage.key \in Keys /\ importPage.items
      /\ importSent + 1 \in 1..MaxImports /\ importRequests = {}
      /\ importPage.sale \notin importSeen
  <2>1. importPage \in Import!Page /\ (importPage.n = 0 => importPage = Import!NoPage)
        /\ importSent \in 0..MaxImports /\ importKey \in Keys \cup {None}
    BY DEF ImportBase, Import!TypeOK
  <2>2. importPage.n # 0
    BY <1>1, <2>1, EmptyImport
  <2>3. importPage.key = importKey /\ importPage.items /\ importPage.sale # None /\ importPage.sale \notin importSeen
    BY <1>1, <2>2 DEF ImportBase, Import!PageFits
  <2>4. importRequests = {}
    BY <1>1 DEF ImportBase, Import!RequestFits
  <2>5. importPage.key # None
    BY <2>3, <2>2 DEF ImportBase, Import!PageFits
  <2>6. importSent + 1 \in 1..MaxImports
    BY <1>1, <2>1, ImportConstants DEF Import!ImportAssumption
  <2> QED BY <2>1, <2>2, <2>3, <2>4, <2>5, <2>6, ImportFields
<1>3. /\ g \in Import!Page /\ g.n = importPage.n /\ g.key = importPage.key /\ g.pending = TRUE
      /\ g.sale = importPage.sale /\ g.reviewing = importPage.reviewing /\ g.items = importPage.items
      /\ g.reviewed = importPage.reviewed /\ g.receipt = importPage.receipt /\ g.busy = importPage.busy
      /\ g.optimizing = importPage.optimizing
  BY <1>2 DEF Import!Page
<1>4. /\ r0 \in Import!Request /\ r0.n = importPage.n /\ r0.key = importPage.key /\ r0.order.sale = importPage.sale
      /\ r0.answer = "none" /\ r0.order.receipt = importPage.receipt /\ r0.order.reviewed = importPage.reviewed
  BY <1>2, ImportFields DEF Import!Request, Import!Order
<1> HIDE DEF g, r0, o
<1>5. ImportBase'
  <2>1. Import!TypeOK'
    <3>1. importSent' \in 0..MaxImports
      BY <1>1, <1>2
    <3> QED BY <1>1, <1>2, <1>3, <1>4, <3>1 DEF ImportBase, Import!TypeOK
  <2>2. Import!PageFits'
    BY <1>1, <1>2, <1>3 DEF ImportBase, Import!PageFits
  <2>3. Import!SalesFit' /\ Import!NoDuplicate'
    BY <1>1 DEF ImportBase, Import!SalesFit, Import!NoDuplicate
  <2>4. \A r \in importRequests' : Import!RequestFits(r)'
    BY <1>1, <1>2, <1>3, <1>4 DEF Import!RequestFits
  <2> QED BY <2>1, <2>2, <2>3, <2>4 DEF ImportBase
<1>6. ASSUME Patient PROVE ImportReceipts'
  <2>1. ImportReceipts
    BY <1>6
  <2>2. Import!OneImage'
    BY <1>1, <1>3, <2>1 DEF ImportReceipts, Import!OneImage, Import!Here
  <2>3. Import!ReceiptFits' /\ Import!ReviewedIsStored' /\ Import!OwnReceipt'
    BY <1>1, <1>2, <1>3, <1>4, <2>1 DEF ImportReceipts, Import!ReceiptFits, Import!ReviewedIsStored, Import!OwnReceipt, Import!OwnImage
  <2> QED BY <2>2, <2>3 DEF ImportReceipts
<1> QED BY <1>5, <1>6

\* One order for each key, with what its request says (createHistoricalOrder).
LEMMA ImportServe ==
    ASSUME ImportBase, Patient => ImportReceipts, NEW r \in importRequests, Import!Serve(r)
    PROVE  ImportBase' /\ (Patient => ImportReceipts')
<1>1. /\ r \in Import!Request /\ r.answer = "none" /\ r.key \in Keys /\ r.order \in Import!Order
      /\ importRequests = {r} /\ importPage.pending /\ r.n = importPage.n /\ r.key = importPage.key
      /\ r.order.sale = importPage.sale /\ importPage.n # 0 /\ r.key = importKey /\ r.key \in importDrawn
      /\ r.order.sale \notin importSeen /\ imports \in [Keys -> Import!Order \cup {Import!NoOrder}]
  <2>1. r \in Import!Request /\ Import!RequestFits(r)
    BY DEF ImportBase, Import!TypeOK
  <2>2. r.n # 0 /\ r.key \in Keys /\ r.order \in Import!Order
    BY <2>1 DEF Import!Request
  <2>3. r.key = importKey /\ r.key \in importDrawn /\ r.order.sale \notin importSeen
    BY <2>1, <2>2 DEF Import!RequestFits, ImportBase, Import!PageFits
  <2> QED BY <2>1, <2>2, <2>3 DEF Import!RequestFits, Import!Serve, ImportBase, Import!TypeOK
<1>2. /\ UNCHANGED <<importKey, importPage, importing, preparing, importDrawn, importSeen, importSent, importLost,
                     chosen, importMounts>>
  BY DEF Import!Serve, Import!counts
<1>3. PICK answer \in {"ok", "conflict"} :
        /\ importRequests' = {[r EXCEPT !.answer = answer]}
        /\ \/ /\ imports[r.key] = Import!NoOrder
              /\ imports' = [imports EXCEPT ![r.key] = r.order]
           \/ /\ imports' = imports /\ imports[r.key] # Import!NoOrder
              /\ answer = "ok" => Import!SameOrder(imports[r.key], r)
  <2>1. CASE imports[r.key] = Import!NoOrder
    BY <1>1, <2>1 DEF Import!Serve, Import!Answer
  <2>2. CASE imports[r.key] # Import!NoOrder
    <3>1. CASE Import!SameOrder(imports[r.key], r)
      BY <1>1, <2>2, <3>1 DEF Import!Serve, Import!Answer
    <3>2. CASE ~Import!SameOrder(imports[r.key], r)
      BY <1>1, <2>2, <3>2 DEF Import!Serve, Import!Answer
    <3> QED BY <3>1, <3>2
  <2> QED BY <2>1, <2>2
<1> DEFINE s == [r EXCEPT !.answer = answer]
<1>4. /\ s \in Import!Request /\ s.n = r.n /\ s.key = r.key /\ s.order = r.order /\ importRequests' = {s}
  BY <1>1, <1>3 DEF Import!Request
<1> HIDE DEF s
<1>5. r.order # Import!NoOrder /\ r.order.sale \in Sales
  BY <1>1, NoImport
<1>6. /\ imports' \in [Keys -> Import!Order \cup {Import!NoOrder}]
      /\ \A k \in Keys \ {r.key} : imports'[k] = imports[k]
      /\ imports'[r.key] # Import!NoOrder
      /\ \/ imports'[r.key] = imports[r.key]
         \/ imports'[r.key] = r.order /\ imports[r.key] = Import!NoOrder
      /\ (answer = "ok" => imports'[r.key].sale = r.order.sale)
  <2>1. CASE imports' = imports /\ imports[r.key] # Import!NoOrder
             /\ (answer = "ok" => Import!SameOrder(imports[r.key], r))
    BY <1>1, <2>1 DEF Import!SameOrder
  <2>2. CASE imports[r.key] = Import!NoOrder /\ imports' = [imports EXCEPT ![r.key] = r.order]
    BY <1>1, <1>5, <2>2
  <2> QED BY <1>3, <2>1, <2>2
<1>7. ImportBase'
  <2>1. Import!TypeOK'
    BY <1>2, <1>4, <1>6 DEF ImportBase, Import!TypeOK
  <2>2. Import!PageFits'
    BY <1>2 DEF ImportBase, Import!PageFits
  <2>3. Import!SalesFit'
    BY <1>1, <1>2, <1>6 DEF ImportBase, Import!SalesFit
  <2>4. Import!NoDuplicate'
    <3> SUFFICES ASSUME NEW a \in Keys, NEW b \in Keys, imports'[a] # Import!NoOrder,
                        imports'[a].sale = imports'[b].sale
                 PROVE  a = b
      BY DEF Import!NoDuplicate
    <3>1. CASE imports' = imports
      BY <3>1 DEF ImportBase, Import!NoDuplicate
    <3>2. CASE imports'[r.key] = r.order /\ imports[r.key] = Import!NoOrder
      <4>1. \A k \in Keys \ {r.key} : imports[k] # Import!NoOrder => imports[k].sale # r.order.sale
        BY <1>1 DEF ImportBase, Import!SalesFit
      <4>2. \A k \in Keys : imports[k] = Import!NoOrder => imports[k].sale = None
        BY NoImport
      <4>3. imports'[a].sale \in Sales /\ imports'[a].sale # None
        BY <1>6, NoImport
      <4>4. imports'[b] # Import!NoOrder
        BY <4>3, NoImport
      <4> QED BY <1>6, <3>2, <4>1, <4>4 DEF ImportBase, Import!NoDuplicate
    <3> QED BY <1>3, <1>6, <3>1, <3>2
  <2>5. \A t \in importRequests' : Import!RequestFits(t)'
    <3>1. s.answer = answer
      BY <1>1 DEF s, Import!Request
    <3> QED BY ZenonT(60), <1>1, <1>2, <1>4, <1>6, <3>1 DEF Import!RequestFits
  <2> QED BY <2>1, <2>2, <2>3, <2>4, <2>5 DEF ImportBase
<1>8. ASSUME Patient PROVE ImportReceipts'
  <2>1. ImportReceipts
    BY <1>8
  <2>2. Import!OneImage'
    BY <1>2, <2>1 DEF ImportReceipts, Import!OneImage, Import!Here
  <2>3. Import!OwnImage(r.order) /\ r.order.receipt = r.order.reviewed
    BY <1>1, <2>1 DEF ImportReceipts, Import!ReceiptFits
  <2>4. Import!ReceiptFits'
    BY <1>2, <1>4, <2>1, <2>3 DEF ImportReceipts, Import!ReceiptFits, Import!OwnImage
  <2>5. Import!ReviewedIsStored' /\ Import!OwnReceipt'
    BY <1>6, <2>1, <2>3 DEF ImportReceipts, Import!ReviewedIsStored, Import!OwnReceipt, Import!OwnImage
  <2> QED BY <2>2, <2>4, <2>5 DEF ImportReceipts
<1> QED BY <1>7, <1>8

\* A lost answer says nothing, and costs no order.
LEMMA ImportLose ==
    ASSUME ImportBase, Patient => ImportReceipts, NEW r \in importRequests, Import!Lose(r)
    PROVE  ImportBase' /\ (Patient => ImportReceipts')
<1> DEFINE s == [r EXCEPT !.answer = "lost"]
<1>1. /\ r \in Import!Request /\ importRequests = {r} /\ Import!RequestFits(r)
      /\ importLost < FewLosses /\ importLost' = importLost + 1
      /\ importRequests' = {s}
      /\ UNCHANGED <<imports, importKey, importPage, importing, preparing, importDrawn, importSeen, importSent,
                     chosen, importMounts>>
  BY DEF ImportBase, Import!RequestFits, Import!TypeOK, Import!Lose, Import!Answer
<1>2. s \in Import!Request /\ s.n = r.n /\ s.key = r.key /\ s.order = r.order /\ s.answer = "lost"
  BY <1>1 DEF Import!Request
<1>3. importLost' \in 0..FewLosses
  BY <1>1, ImportConstants DEF ImportBase, Import!TypeOK, Import!ImportAssumption
<1> HIDE DEF s
<1>4. ImportBase'
  BY <1>1, <1>2, <1>3 DEF ImportBase, Import!TypeOK, Import!PageFits, Import!SalesFit, Import!NoDuplicate, Import!RequestFits
<1>5. ASSUME Patient PROVE ImportReceipts'
  BY <1>1, <1>2, <1>5 DEF ImportReceipts, Import!OneImage, Import!Here, Import!ReceiptFits, Import!OwnImage, Import!ReviewedIsStored, Import!OwnReceipt
<1> QED BY <1>4, <1>5

\* A registered sale makes room for the next one under a new key.
LEMMA ImportEnds ==
    ASSUME ImportBase, Patient => ImportReceipts, NEW r \in importRequests, NEW k \in Keys,
           Import!SubmitEnds(r, k)
    PROVE  ImportBase' /\ (Patient => ImportReceipts')
<1>1. /\ r \in Import!Request /\ Import!RequestFits(r) /\ importRequests = {r} /\ importRequests' = {}
      /\ r.key \in Keys /\ importPage.n # 0 /\ r.key = importKey /\ r.order \in Import!Order
      /\ importPage.n = r.n /\ importing' = FALSE /\ importPage \in Import!Page /\ importPage.sale = r.order.sale
      /\ importPage.sale \in Sales
      /\ UNCHANGED <<imports, preparing, importSent, importLost, chosen, importMounts>>
  <2>1. r \in Import!Request /\ Import!RequestFits(r)
    BY DEF ImportBase, Import!TypeOK
  <2>2. r.n # 0 /\ r.key \in Keys /\ r.order \in Import!Order /\ r.order.sale \in Sales
    BY <2>1 DEF Import!Request, Import!Order
  <2>3. r.key = importKey
    BY <2>1, <2>2 DEF Import!RequestFits, ImportBase, Import!PageFits
  <2> QED BY <2>1, <2>2, <2>3 DEF Import!RequestFits, Import!SubmitEnds, Import!PendingAfter, Import!counts, ImportBase, Import!TypeOK
<1>2. CASE r.answer = "ok"
  <2> DEFINE g == [Import!EmptyForm EXCEPT !.n = importPage.n, !.key = k, !.busy = importPage.busy]
  <2>1. /\ k \notin importDrawn /\ importDrawn' = importDrawn \cup {k} /\ importKey' = k
        /\ importSeen' = importSeen \cup {r.order.sale} /\ importPage' = g
        /\ imports[r.key].sale = r.order.sale
    BY <1>1, <1>2 DEF Import!SubmitEnds, Import!PendingAfter, Import!Registered, Import!RequestFits
  <2>2. /\ g \in Import!Page /\ g.n = importPage.n /\ g.key = k /\ g.pending = FALSE
        /\ g.sale = None /\ g.reviewing = FALSE /\ g.busy = importPage.busy /\ g.items = FALSE
        /\ g.receipt = None
    BY <1>1, ImportFields, EmptyImport DEF Import!Page, Import!EmptyForm
  <2> HIDE DEF g
  <2>3. k # None /\ None \notin importSeen' /\ importSeen' \subseteq Sales
    BY <1>1, <2>1, ImportConstants DEF Import!ImportAssumption, ImportBase, Import!TypeOK
  <2>4. Import!TypeOK'
    BY <1>1, <2>1, <2>2, <2>3 DEF ImportBase, Import!TypeOK
  <2>5. Import!PageFits'
    BY <1>1, <2>1, <2>2, <2>3 DEF ImportBase, Import!PageFits
  <2>6. Import!SalesFit'
    <3> SUFFICES ASSUME NEW a \in Keys, imports[a] # Import!NoOrder
                 PROVE  a \in importDrawn' /\ (imports[a].sale \in importSeen' <=> k # a)
      BY <1>1, <2>1 DEF Import!SalesFit
    <3>1. a \in importDrawn /\ (imports[a].sale \in importSeen <=> importKey # a)
      BY DEF ImportBase, Import!SalesFit
    <3> QED BY <1>1, <2>1, <3>1
  <2>7. Import!NoDuplicate'
    BY <1>1 DEF ImportBase, Import!NoDuplicate
  <2>8. ASSUME Patient PROVE ImportReceipts'
    <3>1. ImportReceipts /\ ~importPage.busy
      BY <1>1, <2>8 DEF ImportReceipts, Import!ReceiptFits, Import!RequestFits, ImportBase, Import!PageFits
    <3>2. \A job \in preparing : ~Import!Here(job)
      BY <3>1 DEF ImportReceipts, Import!OneImage
    <3>3. Import!OneImage'
      BY <1>1, <2>2, <2>1, <3>1, <3>2 DEF ImportReceipts, Import!OneImage, Import!Here
    <3>4. Import!ReceiptFits' /\ Import!ReviewedIsStored' /\ Import!OwnReceipt'
      BY <1>1, <2>1, <2>2, <3>1 DEF ImportReceipts, Import!ReceiptFits, Import!ReviewedIsStored, Import!OwnReceipt, Import!OwnImage
    <3> QED BY <3>3, <3>4 DEF ImportReceipts
  <2> QED BY <1>1, <2>4, <2>5, <2>6, <2>7, <2>8 DEF ImportBase
<1>3. CASE r.answer # "ok"
  <2> DEFINE g == [importPage EXCEPT !.pending = FALSE]
  <2>1. importPage' = g /\ UNCHANGED <<importDrawn, importKey, importSeen>>
    BY <1>1, <1>3 DEF Import!SubmitEnds, Import!PendingAfter, Import!Registered
  <2>2. /\ g \in Import!Page /\ g.n = importPage.n /\ g.key = importPage.key /\ g.pending = FALSE
        /\ g.sale = importPage.sale /\ g.reviewing = importPage.reviewing /\ g.busy = importPage.busy
        /\ g.items = importPage.items /\ g.receipt = importPage.receipt /\ g.reviewed = importPage.reviewed
        /\ g.optimizing = importPage.optimizing
    BY <1>1 DEF Import!Page
  <2> HIDE DEF g
  <2>3. Import!TypeOK'
    BY <1>1, <2>1, <2>2 DEF ImportBase, Import!TypeOK
  <2>4. Import!PageFits'
    BY <1>1, <2>1, <2>2 DEF ImportBase, Import!PageFits
  <2>5. Import!SalesFit' /\ Import!NoDuplicate'
    BY <1>1, <2>1 DEF ImportBase, Import!SalesFit, Import!NoDuplicate
  <2>6. ASSUME Patient PROVE ImportReceipts'
    <3>1. ImportReceipts
      BY <2>6
    <3>2. Import!OneImage'
      BY <1>1, <2>1, <2>2, <3>1 DEF ImportReceipts, Import!OneImage, Import!Here
    <3>3. Import!ReceiptFits' /\ Import!ReviewedIsStored' /\ Import!OwnReceipt'
      BY <1>1, <2>1, <2>2, <3>1 DEF ImportReceipts, Import!ReceiptFits, Import!ReviewedIsStored, Import!OwnReceipt, Import!OwnImage
    <3> QED BY <3>2, <3>3 DEF ImportReceipts
  <2> QED BY <1>1, <2>3, <2>4, <2>5, <2>6 DEF ImportBase
<1> QED BY <1>2, <1>3

\* Every step keeps what the imports rest on.
LEMMA ImportStep == Import!IInv /\ [Import!Next]_importVars => Import!IInv'
<1> SUFFICES ASSUME Import!IInv, [Import!Next]_importVars PROVE Import!IInv'
  OBVIOUS
<1> USE ImportParts
<1>0. ImportBase /\ (Patient => ImportReceipts)
  OBVIOUS
<1>1. CASE UNCHANGED importVars
  <2>1. ImportBase'
    BY <1>0, <1>1 DEF importVars, ImportBase, Import!TypeOK, Import!PageFits, Import!SalesFit, Import!NoDuplicate, Import!RequestFits
  <2>2. ASSUME Patient PROVE ImportReceipts'
    BY <1>0, <1>1, <2>2 DEF importVars, ImportReceipts, Import!OneImage, Import!Here, Import!ReceiptFits, Import!OwnImage, Import!ReviewedIsStored, Import!OwnReceipt
  <2> QED BY <2>1, <2>2 DEF Import!IInv, ImportBase, ImportReceipts
<1>2. CASE Import!Next
  <2>1. ImportBase' /\ (Patient => ImportReceipts')
    BY <1>0, <1>2, ImportOpen, ImportEnds, ImportLeave, ImportToggle, ImportRemove, ImportReview, ImportCorrect,
       ImportSubmit, ImportFill, ImportChoose, ImportPrepared, ImportServe, ImportLose DEF Import!Next
  <2> QED BY <2>1 DEF Import!IInv, ImportBase, ImportReceipts
<1> QED BY <1>1, <1>2

-----------------------------------------------------------------------------
(* The customer's page (CustomerPage) *)

\* What the customer's page assumes of its constants.
LEMMA CustomerConstants == Customer!CustomerAssumption
BY FormsAssumption

\* Rows have details or none, and the closed page shows no order.
LEMMA CustomerRows ==
    /\ Customer!NewRow \in Customer!Row /\ Customer!NewRow.details = None /\ Customer!NewRow.receipt = None
    /\ Customer!NoOrder.details = None /\ Customer!NoOrder \notin Customer!Row
BY DEF Customer!NewRow, Customer!NoOrder, Customer!Row, Customer!Status

\* A page that is closed.
LEMMA CustomerClosed ==
    /\ Customer!Closed \in Customer!Page /\ Customer!Closed.n = 0 /\ Customer!Closed.order = Customer!NoOrder
    /\ Customer!NoFile \in Customer!Picker
<1>1. Customer!NoFile \in Customer!Picker
  BY DEF Customer!NoFile, Customer!Picker
<1>2. 0 \in 0..FewMounts /\ Empty \in Texts
  BY CustomerConstants DEF Customer!CustomerAssumption
<1> QED BY <1>1, <1>2 DEF Customer!Closed, Customer!Page

\* The fields of a page.
LEMMA CustomerFields ==
    ASSUME NEW g \in Customer!Page
    PROVE  /\ g.n \in 0..FewMounts /\ g.order \in Customer!Row \cup {Customer!NoOrder}
           /\ g.loading \in BOOLEAN /\ g.error \in BOOLEAN /\ g.draft \in Texts
           /\ g.receipt \in Customer!Picker /\ g.final \in Customer!Picker
           /\ g.pending \in BOOLEAN /\ g.finalPending \in BOOLEAN
           /\ g.receipt.file \in Images \cup {None} /\ g.receipt.preparing \in Images \cup {None}
           /\ g.final.file \in Images \cup {None}
BY DEF Customer!Page, Customer!Picker

\* What choosing, preparing, removing and remounting make of a picker is one again.
LEMMA CustomerPickers ==
    ASSUME NEW g \in Customer!Picker
    PROVE  /\ Customer!Remounted(g) \in Customer!Picker
           /\ \A image \in Images \cup {None} : [g EXCEPT !.file = image] \in Customer!Picker
           /\ \A image \in Images : [g EXCEPT !.file = None, !.preparing = image] \in Customer!Picker
           /\ [g EXCEPT !.file = g.preparing, !.preparing = None] \in Customer!Picker
           /\ \A image \in Images : g.late[image] > 0 =>
                 Customer!HandedOver(g, image) \in Customer!Picker
<1>0. g.preparing \in Images \cup {None} /\ g.late \in [Images -> Nat]
  BY DEF Customer!Picker
<1>1. Customer!Remounted(g) \in Customer!Picker
  <2>1. CASE g.preparing = None
    BY <2>1 DEF Customer!Remounted
  <2>2. CASE g.preparing # None
    <3> DEFINE l2 == [g.late EXCEPT ![g.preparing] = @ + 1]
    <3>1. l2 \in [Images -> Nat]
      BY <1>0, <2>2
    <3>2. Customer!Remounted(g) = [g EXCEPT !.preparing = None, !.late = l2]
      BY <2>2 DEF Customer!Remounted, Customer!Picker
    <3> HIDE DEF l2
    <3> QED BY <3>1, <3>2 DEF Customer!Picker
  <2> QED BY <2>1, <2>2
<1>2. \A image \in Images \cup {None} : [g EXCEPT !.file = image] \in Customer!Picker
  BY DEF Customer!Picker
<1>3. \A image \in Images : [g EXCEPT !.file = None, !.preparing = image] \in Customer!Picker
  BY DEF Customer!Picker
<1>4. [g EXCEPT !.file = g.preparing, !.preparing = None] \in Customer!Picker
  BY <1>0 DEF Customer!Picker
<1>5. ASSUME NEW image \in Images, g.late[image] > 0
      PROVE  Customer!HandedOver(g, image) \in Customer!Picker
  <2> DEFINE l2 == [g.late EXCEPT ![image] = @ - 1]
  <2>1. l2 \in [Images -> Nat]
    BY <1>0, <1>5
  <2>2. Customer!HandedOver(g, image) = [g EXCEPT !.file = image, !.late = l2]
    BY DEF Customer!Picker, Customer!HandedOver
  <2> HIDE DEF l2
  <2> QED BY <2>1, <2>2 DEF Customer!Picker
<1> QED BY <1>1, <1>2, <1>3, <1>4, <1>5

\* No visit yet: an order without details, and no draft.
LEMMA CustomerInit == Customer!Init => Customer!IInv /\ Customer!AloneInv(Alone)
<1> SUFFICES ASSUME Customer!Init PROVE Customer!IInv /\ Customer!AloneInv(Alone)
  OBVIOUS
<1>1. customerSent \in 0..MaxQuestions /\ customerLost \in 0..FewLosses /\ visits \in 0..FewMounts /\ Empty \in Texts
  BY CustomerConstants DEF Customer!Init, Customer!CustomerAssumption
<1>2. Customer!TypeOK
  BY <1>1, CustomerRows, CustomerClosed DEF Customer!Init, Customer!TypeOK
<1>3. Customer!AcceptedTogether /\ Customer!ShownIsRegistered
  BY CustomerRows, CustomerClosed DEF Customer!Init, Customer!AcceptedTogether, Customer!ShownIsRegistered, Customer!Submitted
<1>4. Customer!AloneInv(Alone)
  BY CustomerClosed, FormsAssumption DEF Customer!Init, Customer!AloneInv
<1> QED BY <1>2, <1>3, <1>4 DEF Customer!IInv, Customer!Init

-----

\* The part that does not depend on how many tabs there are, without the types of the tabs.
\* A step of a tab: t's page becomes g, and at most one request r is added or r removed.
LEMMA CustomerPageStep ==
    ASSUME Customer!IInv, NEW t \in Tabs, NEW g \in Customer!Page,
           tab' = [tab EXCEPT ![t] = g], g.n = 0 => g = Customer!Closed,
           UNCHANGED <<twoStage, order>>, draft' \in Texts \cup {None}, typed' \in Texts,
           customerRequests' \subseteq Customer!Request,
           customerSent' \in 0..MaxQuestions, customerLost' \in 0..FewLosses, visits' \in 0..FewMounts,
           Customer!Agrees(g.order),
           \A r \in customerRequests' : Customer!RequestFits(r)
    PROVE  Customer!IInv'
<1>1. Customer!TypeOK'
  BY DEF Customer!IInv, Customer!TypeOK
<1>2. Customer!AcceptedTogether'
  BY DEF Customer!IInv, Customer!AcceptedTogether, Customer!Submitted
<1>3. Customer!ShownIsRegistered'
  <2> SUFFICES ASSUME NEW u \in Tabs
               PROVE  Customer!Submitted(tab'[u].order) =>
                        tab'[u].order.details = order'.details /\ tab'[u].order.receipt = order'.receipt
    BY DEF Customer!ShownIsRegistered, Customer!Submitted
  <2>1. tab'[u] = IF u = t THEN g ELSE tab[u]
    BY DEF Customer!IInv, Customer!TypeOK
  <2> QED BY <2>1 DEF Customer!Agrees, Customer!IInv, Customer!ShownIsRegistered, Customer!Submitted
<1>4. ASSUME NEW r \in customerRequests' PROVE Customer!RequestFits(r)'
  <2>1. Customer!RequestFits(r)
    OBVIOUS
  <2> QED BY <2>1 DEF Customer!RequestFits, Customer!Agrees, Customer!Submitted
<1> QED BY <1>1, <1>2, <1>3, <1>4 DEF Customer!IInv

\* The same of the one tab's draft.
LEMMA CustomerDraftStep ==
    ASSUME Customer!IInv, Customer!AloneInv(Alone), NEW g \in Customer!Page,
           tab' = [tab EXCEPT ![Alone] = g], UNCHANGED order,
           ~Customer!Submitted(order) =>
              /\ g.n # 0 => g.draft = typed'
              /\ draft' = typed' \/ (draft' = None /\ typed' = Empty)
    PROVE  Customer!AloneInv(Alone)'
<1>1. Alone \in Tabs
  BY FormsAssumption
<1>2. \A u \in Tabs : tab'[u] = IF u = Alone THEN g ELSE tab[u]
  BY DEF Customer!IInv, Customer!TypeOK
<1>3. (\A u \in Tabs \ {Alone} : tab[u] = Customer!Closed)'
  BY <1>2 DEF Customer!AloneInv
<1>4. ~Customer!Submitted(order)' =>
              /\ tab'[Alone].n # 0 => tab'[Alone].draft = typed'
              /\ draft' = typed' \/ (draft' = None /\ typed' = Empty)
  BY <1>1, <1>2, CustomerClosed DEF Customer!AloneInv, Customer!Submitted
<1> QED BY <1>3, <1>4 DEF Customer!AloneInv, Customer!Submitted

\* A request that is sent.
CustomerSent(t, n, kind, text, image) ==
    [id |-> customerSent + 1, kind |-> kind, tab |-> t, n |-> n, text |-> text, image |-> image,
     answer |-> "none", told |-> Customer!NoOrder]

\* A request that is sent has what its kind asks for.
LEMMA CustomerSend ==
    ASSUME Customer!IInv, NEW t \in Tabs, NEW n \in 1..FewMounts,
           NEW kind \in {"load", "details", "final"}, NEW text \in Texts \cup {None},
           NEW image \in Images \cup {None}, Customer!Send(t, n, kind, text, image),
           kind = "details" => text \in Valid /\ image # None
    PROVE  /\ customerSent' \in 0..MaxQuestions /\ customerRequests' \subseteq Customer!Request
           /\ \A r \in customerRequests' : Customer!RequestFits(r)
<1> DEFINE r0 == CustomerSent(t, n, kind, text, image)
<1>1. /\ customerSent \in 0..MaxQuestions /\ customerSent < MaxQuestions /\ MaxQuestions \in Nat
      /\ customerSent' = customerSent + 1 /\ customerRequests' = customerRequests \cup {r0}
      /\ customerRequests \subseteq Customer!Request
  BY CustomerConstants DEF Customer!IInv, Customer!TypeOK, Customer!Send, CustomerSent, Customer!CustomerAssumption
<1>2. customerSent + 1 \in 1..MaxQuestions /\ customerSent + 1 \in 0..MaxQuestions
  BY <1>1
<1>3. r0 \in Customer!Request
  BY <1>2 DEF CustomerSent, Customer!Request
<1>4. Customer!RequestFits(r0)
  BY CustomerRows DEF CustomerSent, Customer!RequestFits, Customer!Agrees, Customer!Submitted
<1> HIDE DEF r0
<1> QED BY <1>1, <1>2, <1>3, <1>4 DEF Customer!IInv

\* A visit starts with the stored draft and the question for the order.
LEMMA CustomerOpen ==
    ASSUME Customer!IInv, NEW t \in Tabs, Customer!Visit(t)
    PROVE  /\ Customer!IInv' /\ tab'[t].n # 0
           /\ t = Alone /\ Customer!AloneInv(Alone) => Customer!AloneInv(Alone)'
<1> DEFINE g == [Customer!Closed EXCEPT !.n = visits + 1, !.loading = TRUE, !.draft = Customer!Draft]
<1>1. /\ visits < FewMounts /\ visits' = visits + 1 /\ tab' = [tab EXCEPT ![t] = g]
      /\ Customer!Send(t, visits + 1, "load", None, None)
      /\ UNCHANGED <<twoStage, order, draft, typed, customerLost>>
      /\ visits \in 0..FewMounts /\ FewMounts \in Nat /\ draft \in Texts \cup {None} /\ typed \in Texts
      /\ customerLost \in 0..FewLosses
  BY CustomerConstants DEF Customer!Visit, Customer!CustomerAssumption, Customer!IInv, Customer!TypeOK
<1>2. visits + 1 \in 1..FewMounts /\ visits + 1 \in 0..FewMounts
  BY <1>1
<1>3. Customer!Draft \in Texts
  BY <1>1, CustomerConstants DEF Customer!Draft, Customer!CustomerAssumption
<1>4. g \in Customer!Page /\ g.n = visits + 1 /\ g.n # 0 /\ g.draft = Customer!Draft /\ g.order = Customer!NoOrder
  <2>1. g = [Customer!Closed EXCEPT !.n = visits + 1, !.loading = TRUE, !.draft = Customer!Draft]
    OBVIOUS
  <2>2. visits + 1 # 0
    BY <1>1
  <2> HIDE DEF g
  <2> QED BY <1>2, <1>3, <2>1, <2>2, CustomerClosed DEF Customer!Page
<1> HIDE DEF g
<1>5. /\ customerSent' \in 0..MaxQuestions /\ customerRequests' \subseteq Customer!Request
      /\ \A r \in customerRequests' : Customer!RequestFits(r)
  BY <1>1, <1>2, CustomerSend
<1>6. Customer!Agrees(g.order)
  BY <1>4, CustomerRows DEF Customer!Agrees, Customer!Submitted
<1>7. Customer!IInv'
  BY <1>1, <1>2, <1>4, <1>5, <1>6, CustomerPageStep
<1>8. tab'[t] = g
  BY <1>1 DEF Customer!IInv, Customer!TypeOK
<1>9. ASSUME t = Alone, Customer!AloneInv(Alone) PROVE Customer!AloneInv(Alone)'
  <2>1. ~Customer!Submitted(order) =>
              /\ g.n # 0 => g.draft = typed'
              /\ draft' = typed' \/ (draft' = None /\ typed' = Empty)
    BY <1>1, <1>4, <1>9, CustomerConstants DEF Customer!AloneInv, Customer!Draft, Customer!CustomerAssumption
  <2> QED BY <1>1, <1>4, <1>9, <2>1, CustomerDraftStep
<1> QED BY <1>4, <1>7, <1>8, <1>9

\* A step of an open tab that asks nothing new and changes neither order nor answers.
LEMMA CustomerEdit ==
    ASSUME Customer!IInv, NEW t \in Tabs, NEW g \in Customer!Page, tab[t].n # 0,
           tab' = [tab EXCEPT ![t] = g], g.n = tab[t].n \/ g = Customer!Closed,
           UNCHANGED <<twoStage, order, customerRequests, customerSent, customerLost, visits>>,
           g.order = tab[t].order \/ g.order = Customer!NoOrder,
           draft' \in Texts \cup {None}, typed' \in Texts
    PROVE  Customer!IInv'
<1>1. Customer!Agrees(g.order)
  BY CustomerRows DEF Customer!IInv, Customer!ShownIsRegistered, Customer!Agrees, Customer!Submitted
<1>2. /\ customerSent' \in 0..MaxQuestions /\ customerLost' \in 0..FewLosses /\ visits' \in 0..FewMounts
      /\ customerRequests' \subseteq Customer!Request
      /\ \A r \in customerRequests' : Customer!RequestFits(r)
  BY DEF Customer!IInv, Customer!TypeOK
<1> QED BY <1>1, <1>2, CustomerPageStep

\* Such a step that leaves the draft alone.
LEMMA CustomerKeepsDraft ==
    ASSUME Customer!IInv, Customer!AloneInv(Alone), NEW t \in Tabs, NEW g \in Customer!Page,
           tab[t].n # 0 \/ t = Alone, tab' = [tab EXCEPT ![t] = g],
           UNCHANGED <<order, draft, typed>>,
           g = Customer!Closed \/ (tab[t].n # 0 /\ g.draft = tab[t].draft)
    PROVE  Customer!AloneInv(Alone)'
<1>1. t = Alone
  BY CustomerClosed DEF Customer!AloneInv
<1>2. ~Customer!Submitted(order) =>
              /\ g.n # 0 => g.draft = typed'
              /\ draft' = typed' \/ (draft' = None /\ typed' = Empty)
  BY <1>1, CustomerClosed DEF Customer!AloneInv
<1> QED BY <1>1, <1>2, CustomerDraftStep

\* The form is shown only in an open tab.
LEMMA CustomerFormShown ==
    ASSUME Customer!IInv, NEW t \in Tabs,
           \/ Customer!FormShown(t) \/ Customer!FinalActive(tab[t].order)
           \/ tab[t].receipt.preparing # None
           \/ \E image \in Images : tab[t].receipt.late[image] > 0
    PROVE  tab[t].n # 0 /\ tab[t] \in Customer!Page
<1>1. Customer!Closed.order.status = "none" /\ Customer!Closed.order.details = None
      /\ Customer!Closed.receipt.preparing = None
      /\ \A image \in Images : ~(Customer!Closed.receipt.late[image] > 0)
  BY DEF Customer!Closed, Customer!NoOrder, Customer!NewRow, Customer!NoFile
<1> QED BY <1>1 DEF Customer!IInv, Customer!TypeOK, Customer!FormShown, Customer!Allowed, Customer!FinalActive, Customer!Submitted

\* A closed tab takes its receipt with it, and leaves the draft.
LEMMA CustomerClose ==
    ASSUME Customer!IInv, NEW t \in Tabs, Customer!Close(t)
    PROVE  Customer!IInv' /\ (Customer!AloneInv(Alone) => Customer!AloneInv(Alone)')
<1>1. /\ tab[t].n # 0 /\ tab' = [tab EXCEPT ![t] = Customer!Closed]
      /\ UNCHANGED <<twoStage, order, customerRequests, customerSent, customerLost, visits, draft, typed>>
      /\ draft \in Texts \cup {None} /\ typed \in Texts
  BY DEF Customer!Close, Customer!IInv, Customer!TypeOK
<1> DEFINE g == Customer!Closed
<1>2. g \in Customer!Page /\ g = Customer!Closed /\ g.order = Customer!NoOrder /\ tab' = [tab EXCEPT ![t] = g]
  BY <1>1, CustomerClosed
<1> HIDE DEF g
<1>3. Customer!IInv'
  BY <1>1, <1>2, CustomerEdit
<1>4. ASSUME Customer!AloneInv(Alone) PROVE Customer!AloneInv(Alone)'
  <2>1. t = Alone
    BY <1>1, <1>4, CustomerClosed DEF Customer!AloneInv
  <2>2. g.n = 0
    BY <1>2, CustomerClosed
  <2> QED BY <1>1, <1>2, <1>4, <2>1, <2>2, CustomerDraftStep DEF Customer!AloneInv
<1> QED BY <1>3, <1>4

\* Asking again, with the page as it is.
LEMMA CustomerReload ==
    ASSUME Customer!IInv, NEW t \in Tabs, Customer!Reload(t)
    PROVE  Customer!IInv' /\ (Customer!AloneInv(Alone) => Customer!AloneInv(Alone)')
<1> DEFINE g == [tab[t] EXCEPT !.loading = TRUE, !.error = FALSE, !.order = Customer!NoOrder,
                              !.receipt = Customer!Remounted(@)]
<1>1. /\ tab[t].n # 0 /\ tab[t] \in Customer!Page /\ tab \in [Tabs -> Customer!Page]
      /\ Customer!Send(t, tab[t].n, "load", None, None)
      /\ UNCHANGED <<twoStage, order, draft, typed, customerLost, visits>>
      /\ draft \in Texts \cup {None} /\ typed \in Texts /\ customerLost \in 0..FewLosses /\ visits \in 0..FewMounts
  BY DEF Customer!Reload, Customer!IInv, Customer!TypeOK
<1>2. tab' = [tab EXCEPT ![t] = g]
  BY <1>1 DEF Customer!Reload
<1>3. g \in Customer!Page /\ g.n = tab[t].n /\ g.order = Customer!NoOrder /\ g.draft = tab[t].draft
  <2>1. Customer!Remounted(tab[t].receipt) \in Customer!Picker
    BY <1>1, CustomerFields, CustomerPickers
  <2> QED BY <1>1, <2>1 DEF Customer!Page
<1> HIDE DEF g
<1>4. tab[t].n \in 1..FewMounts
  BY <1>1, CustomerFields
<1>5. /\ customerSent' \in 0..MaxQuestions /\ customerRequests' \subseteq Customer!Request
      /\ \A r \in customerRequests' : Customer!RequestFits(r)
  BY <1>1, <1>4, CustomerSend
<1>6. Customer!Agrees(g.order)
  BY <1>3, CustomerRows DEF Customer!Agrees, Customer!Submitted
<1> QED BY <1>1, <1>2, <1>3, <1>5, <1>6, CustomerPageStep, CustomerKeepsDraft

\* The text and its draft change together (setDetails).
LEMMA CustomerType ==
    ASSUME Customer!IInv, NEW t \in Tabs, NEW text \in Texts, Customer!Type(t, text)
    PROVE  Customer!IInv' /\ (Customer!AloneInv(Alone) => Customer!AloneInv(Alone)')
<1> DEFINE g == [tab[t] EXCEPT !.draft = text]
<1>1. /\ tab[t].n # 0 /\ tab[t] \in Customer!Page /\ tab \in [Tabs -> Customer!Page]
      /\ UNCHANGED <<twoStage, order, customerRequests, customerSent, customerLost, visits>>
      /\ draft' = text /\ typed' = text
  BY CustomerFormShown DEF Customer!Type, Customer!IInv, Customer!TypeOK, Customer!Stored
<1>2. tab' = [tab EXCEPT ![t] = g]
  BY <1>1 DEF Customer!Type
<1>3. g \in Customer!Page /\ g.n = tab[t].n /\ g.order = tab[t].order /\ g.draft = text
  BY <1>1 DEF Customer!Page
<1> HIDE DEF g
<1>4. Customer!IInv'
  BY <1>1, <1>2, <1>3, CustomerEdit
<1>5. ASSUME Customer!AloneInv(Alone) PROVE Customer!AloneInv(Alone)'
  <2>1. t = Alone
    BY <1>1, <1>5, CustomerClosed DEF Customer!AloneInv
  <2> QED BY <1>1, <1>2, <1>3, <1>5, <2>1, CustomerDraftStep
<1> QED BY <1>4, <1>5

\* Choosing, removing and preparing images touches the pickers alone.
CustomerPicks(t) ==
    \E picker \in Customer!Picker :
        tab' = [tab EXCEPT ![t].receipt = picker] \/ tab' = [tab EXCEPT ![t].final = picker]

\* What choosing, preparing and removing an image change.
LEMMA CustomerPicking ==
    ASSUME Customer!IInv, NEW t \in Tabs,
           \/ \E image \in Images :
                \/ Customer!Choose(t, image) \/ Customer!PreparedLate(t, image)
                \/ Customer!ChooseFinal(t, image)
           \/ Customer!Remove(t) \/ Customer!Prepared(t)
    PROVE  /\ tab[t].n # 0 /\ CustomerPicks(t)
           /\ UNCHANGED <<twoStage, order, draft, typed, customerRequests, customerSent, customerLost, visits>>
<1>1. tab[t].n # 0 /\ tab[t] \in Customer!Page /\ tab \in [Tabs -> Customer!Page]
  BY CustomerFormShown DEF Customer!Choose, Customer!PreparedLate, Customer!ChooseFinal, Customer!Remove, Customer!Prepared, Customer!IInv, Customer!TypeOK
<1>2. tab[t].receipt \in Customer!Picker /\ tab[t].final \in Customer!Picker /\ tab[t].receipt.preparing \in Images \cup {None}
  BY <1>1, CustomerFields
<1>3. CustomerPicks(t)
  <2>1. ASSUME NEW image \in Images, Customer!Choose(t, image) PROVE CustomerPicks(t)
    <3>1. [tab[t].receipt EXCEPT !.file = None, !.preparing = image] \in Customer!Picker
      BY <1>2, CustomerPickers
    <3>2. tab' = [tab EXCEPT ![t].receipt = [tab[t].receipt EXCEPT !.file = None, !.preparing = image]]
      BY <1>1, <2>1 DEF Customer!Choose
    <3> QED BY <3>1, <3>2 DEF CustomerPicks
  <2>2. ASSUME NEW image \in Images, Customer!ChooseFinal(t, image) PROVE CustomerPicks(t)
    <3>1. [tab[t].final EXCEPT !.file = image] \in Customer!Picker
      BY <1>2 DEF Customer!Picker
    <3>2. tab' = [tab EXCEPT ![t].final = [tab[t].final EXCEPT !.file = image]]
      BY <1>1, <2>2 DEF Customer!ChooseFinal
    <3> QED BY <3>1, <3>2 DEF CustomerPicks
  <2>3. ASSUME Customer!Remove(t) PROVE CustomerPicks(t)
    <3>1. [tab[t].receipt EXCEPT !.file = None] \in Customer!Picker
      BY <1>2 DEF Customer!Picker
    <3>2. tab' = [tab EXCEPT ![t].receipt = [tab[t].receipt EXCEPT !.file = None]]
      BY <1>1, <2>3 DEF Customer!Remove
    <3> QED BY <3>1, <3>2 DEF CustomerPicks
  <2>4. ASSUME Customer!Prepared(t) PROVE CustomerPicks(t)
    <3>1. [tab[t].receipt EXCEPT !.file = tab[t].receipt.preparing, !.preparing = None] \in Customer!Picker
      BY <1>2, CustomerPickers
    <3>2. tab' = [tab EXCEPT ![t].receipt =
                     [tab[t].receipt EXCEPT !.file = tab[t].receipt.preparing, !.preparing = None]]
      BY <1>1, <2>4 DEF Customer!Prepared
    <3> QED BY <3>1, <3>2 DEF CustomerPicks
  <2>5. ASSUME NEW image \in Images, Customer!PreparedLate(t, image) PROVE CustomerPicks(t)
    <3>1. Customer!HandedOver(tab[t].receipt, image) \in Customer!Picker
      BY <1>2, <2>5, CustomerPickers DEF Customer!PreparedLate
    <3>2. tab' = [tab EXCEPT ![t].receipt = Customer!HandedOver(tab[t].receipt, image)]
      BY <1>1, <2>5 DEF Customer!PreparedLate
    <3> QED BY <3>1, <3>2 DEF CustomerPicks
  <2> QED BY <2>1, <2>2, <2>3, <2>4, <2>5
<1> QED BY <1>1, <1>3 DEF Customer!Choose, Customer!PreparedLate, Customer!ChooseFinal, Customer!Remove, Customer!Prepared

\* An image that comes or goes leaves the text and the draft alone.
LEMMA CustomerPicked ==
    ASSUME Customer!IInv, NEW t \in Tabs, tab[t].n # 0, CustomerPicks(t),
           UNCHANGED <<twoStage, order, draft, typed, customerRequests, customerSent, customerLost, visits>>
    PROVE  Customer!IInv' /\ (Customer!AloneInv(Alone) => Customer!AloneInv(Alone)')
<1>1. /\ tab[t] \in Customer!Page /\ tab \in [Tabs -> Customer!Page]
      /\ draft \in Texts \cup {None} /\ typed \in Texts
  BY DEF Customer!IInv, Customer!TypeOK
<1>2. PICK picker \in Customer!Picker :
        tab' = [tab EXCEPT ![t].receipt = picker] \/ tab' = [tab EXCEPT ![t].final = picker]
  BY DEF CustomerPicks
<1>3. PICK g \in Customer!Page : tab' = [tab EXCEPT ![t] = g] /\ g.n = tab[t].n /\ g.order = tab[t].order /\ g.draft = tab[t].draft
  <2>1. CASE tab' = [tab EXCEPT ![t].receipt = picker]
    <3> DEFINE h == [tab[t] EXCEPT !.receipt = picker]
    <3>1. tab' = [tab EXCEPT ![t] = h]
      BY <1>1, <2>1
    <3>2. h \in Customer!Page /\ h.n = tab[t].n /\ h.order = tab[t].order /\ h.draft = tab[t].draft
      BY <1>1 DEF Customer!Page
    <3> HIDE DEF h
    <3> QED BY <3>1, <3>2
  <2>2. CASE tab' = [tab EXCEPT ![t].final = picker]
    <3> DEFINE h == [tab[t] EXCEPT !.final = picker]
    <3>1. tab' = [tab EXCEPT ![t] = h]
      BY <1>1, <2>2
    <3>2. h \in Customer!Page /\ h.n = tab[t].n /\ h.order = tab[t].order /\ h.draft = tab[t].draft
      BY <1>1 DEF Customer!Page
    <3> HIDE DEF h
    <3> QED BY <3>1, <3>2
  <2> QED BY <1>2, <2>1, <2>2
<1> QED BY <1>1, <1>3, CustomerEdit, CustomerKeepsDraft

\* What is sent is what the page shows (submitDetails, submitFinalReceipt).
LEMMA CustomerSubmit ==
    ASSUME Customer!IInv, NEW t \in Tabs, Customer!SubmitDetails(t) \/ Customer!SubmitFinalReceipt(t)
    PROVE  Customer!IInv' /\ (Customer!AloneInv(Alone) => Customer!AloneInv(Alone)')
<1>1. /\ tab[t].n # 0 /\ tab[t] \in Customer!Page /\ tab \in [Tabs -> Customer!Page]
      /\ UNCHANGED <<twoStage, order, draft, typed, customerLost, visits>>
      /\ draft \in Texts \cup {None} /\ typed \in Texts /\ customerLost \in 0..FewLosses /\ visits \in 0..FewMounts
  BY CustomerFormShown DEF Customer!SubmitDetails, Customer!SubmitFinalReceipt, Customer!IInv, Customer!TypeOK
<1>2. PICK g \in Customer!Page : tab' = [tab EXCEPT ![t] = g] /\ g.n = tab[t].n /\ g.order = tab[t].order /\ g.draft = tab[t].draft
  <2>1. CASE Customer!SubmitDetails(t)
    <3> DEFINE h == [tab[t] EXCEPT !.pending = TRUE, !.error = FALSE]
    <3>1. tab' = [tab EXCEPT ![t] = h]
      BY <1>1, <2>1 DEF Customer!SubmitDetails
    <3>2. h \in Customer!Page /\ h.n = tab[t].n /\ h.order = tab[t].order /\ h.draft = tab[t].draft
      BY <1>1 DEF Customer!Page
    <3> HIDE DEF h
    <3> QED BY <3>1, <3>2
  <2>2. CASE Customer!SubmitFinalReceipt(t)
    <3> DEFINE h == [tab[t] EXCEPT !.finalPending = TRUE]
    <3>1. tab' = [tab EXCEPT ![t] = h]
      BY <1>1, <2>2 DEF Customer!SubmitFinalReceipt
    <3>2. h \in Customer!Page /\ h.n = tab[t].n /\ h.order = tab[t].order /\ h.draft = tab[t].draft
      BY <1>1 DEF Customer!Page
    <3> HIDE DEF h
    <3> QED BY <3>1, <3>2
  <2> QED BY <2>1, <2>2
<1>3. tab[t].n \in 1..FewMounts
  BY <1>1, CustomerFields
<1>4. /\ customerSent' \in 0..MaxQuestions /\ customerRequests' \subseteq Customer!Request
      /\ \A r \in customerRequests' : Customer!RequestFits(r)
  <2>1. tab[t].receipt.file \in Images \cup {None} /\ tab[t].final.file \in Images \cup {None} /\ tab[t].draft \in Texts
    BY <1>1, CustomerFields
  <2>2. CASE Customer!SubmitDetails(t)
    <3>1. Customer!Send(t, tab[t].n, "details", tab[t].draft, tab[t].receipt.file) /\ tab[t].draft \in Valid /\ tab[t].receipt.file # None
      BY <2>2 DEF Customer!SubmitDetails, Customer!Complete
    <3> QED BY <1>3, <2>1, <3>1, CustomerSend
  <2>3. CASE Customer!SubmitFinalReceipt(t)
    <3>1. Customer!Send(t, tab[t].n, "final", None, tab[t].final.file)
      BY <2>3 DEF Customer!SubmitFinalReceipt
    <3> QED BY <1>3, <2>1, <3>1, CustomerSend
  <2> QED BY <2>2, <2>3
<1>5. Customer!Agrees(g.order)
  BY <1>1, <1>2 DEF Customer!IInv, Customer!ShownIsRegistered, Customer!Agrees, Customer!Submitted
<1>6. Customer!IInv'
  BY <1>1, <1>2, <1>4, <1>5, CustomerPageStep
<1>7. ASSUME Customer!AloneInv(Alone) PROVE Customer!AloneInv(Alone)'
  BY <1>1, <1>2, <1>7, CustomerKeepsDraft
<1> QED BY <1>6, <1>7

\* A step of the server, the operator or the network: the row changes, but not what was
\* submitted, and answers agree with it.
LEMMA CustomerServerStep ==
    ASSUME Customer!IInv, NEW o \in Customer!Row, order' = o,
           UNCHANGED <<twoStage, draft, tab, typed, customerSent, visits>>,
           Customer!Submitted(order) => o.details = order.details /\ o.receipt = order.receipt,
           Customer!Submitted(o) => o.details \in Valid /\ o.receipt # None,
           ~Customer!Submitted(o) => o.receipt = None,
           customerLost' \in 0..FewLosses, customerRequests' \subseteq Customer!Request,
           \A r \in customerRequests' : Customer!RequestFits(r)'
    PROVE  Customer!IInv' /\ (Customer!AloneInv(Alone) => Customer!AloneInv(Alone)')
<1>1. Customer!TypeOK'
  BY DEF Customer!IInv, Customer!TypeOK
<1>2. Customer!AcceptedTogether'
  BY DEF Customer!AcceptedTogether, Customer!Submitted
<1>3. Customer!ShownIsRegistered'
  BY CustomerConstants DEF Customer!IInv, Customer!ShownIsRegistered, Customer!Submitted
<1>4. Customer!AloneInv(Alone) => Customer!AloneInv(Alone)'
  BY DEF Customer!AloneInv, Customer!Submitted
<1> QED BY <1>1, <1>2, <1>3, <1>4 DEF Customer!IInv

\* Requests that stay keep fitting when the row keeps what was submitted.
LEMMA CustomerStillFits ==
    ASSUME Customer!IInv, NEW o \in Customer!Row, order' = o, NEW r \in customerRequests,
           Customer!Submitted(order) => o.details = order.details /\ o.receipt = order.receipt
    PROVE  Customer!RequestFits(r)'
<1>1. Customer!RequestFits(r)
  BY DEF Customer!IInv
<1> QED BY <1>1 DEF Customer!RequestFits, Customer!Agrees, Customer!Submitted, Customer!IInv, Customer!ShownIsRegistered

\* An order that is not yet submitted can be; it then has what the request carries.
LEMMA CustomerServe ==
    ASSUME Customer!IInv, NEW r \in customerRequests, Customer!Serve(r)
    PROVE  Customer!IInv' /\ (Customer!AloneInv(Alone) => Customer!AloneInv(Alone)')
<1>1. /\ order \in Customer!Row /\ r \in Customer!Request /\ customerRequests \subseteq Customer!Request
      /\ customerLost \in 0..FewLosses /\ Customer!RequestFits(r)
      /\ UNCHANGED <<twoStage, draft, tab, typed, customerSent, customerLost, visits>>
      /\ (Customer!Submitted(order) => order.details \in Valid /\ order.receipt # None)
      /\ (~Customer!Submitted(order) => order.receipt = None)
  BY DEF Customer!IInv, Customer!TypeOK, Customer!Serve, Customer!AcceptedTogether
<1>2. /\ r.text \in Texts \cup {None} /\ r.image \in Images \cup {None}
      /\ (r.kind = "details" => r.text \in Valid /\ r.image # None /\ r.text # None)
  <2>1. None \notin Valid
    BY SMTT(60), CustomerConstants DEF Customer!CustomerAssumption
  <2> QED BY <1>1, <2>1 DEF Customer!Request, Customer!RequestFits
<1>3. PICK o \in Customer!Row, answer \in {"ok", "refused"}, told \in Customer!Row \cup {Customer!NoOrder} :
        /\ order' = o
        /\ customerRequests' = (customerRequests \ {r}) \cup {[r EXCEPT !.answer = answer, !.told = told]}
        /\ (Customer!Submitted(order) => o.details = order.details /\ o.receipt = order.receipt)
        /\ (Customer!Submitted(o) => o.details \in Valid /\ o.receipt # None)
        /\ (~Customer!Submitted(o) => o.receipt = None)
        /\ told \in {o, Customer!NoOrder}
        /\ (r.kind = "details" /\ answer = "ok" => Customer!Submitted(o))
  <2>1. CASE r.kind = "load"
    <3>1. order' = order /\ Customer!Answer(r, "ok", order)
      BY <2>1 DEF Customer!Serve
    <3> QED BY <1>1, <2>1, <3>1 DEF Customer!Answer
  <2>2. CASE r.kind = "details" /\ Customer!DetailsAllowed
    <3> DEFINE h == [order EXCEPT !.status = "waiting_payment", !.details = r.text, !.receipt = r.image]
    <3>1. order' = h /\ Customer!Answer(r, "ok", order')
      BY <2>2 DEF Customer!Serve
    <3>2. h \in Customer!Row /\ h.details = r.text /\ h.receipt = r.image
      BY <1>1, <1>2 DEF Customer!Row, Customer!Status
    <3> HIDE DEF h
    <3>3. customerRequests' = (customerRequests \ {r}) \cup {[r EXCEPT !.answer = "ok", !.told = h]}
      BY <3>1 DEF Customer!Answer
    <3>4. ~Customer!Submitted(order) /\ Customer!Submitted(h) /\ h.details \in Valid /\ h.receipt # None
      BY <1>2, <2>2, <3>2 DEF Customer!DetailsAllowed, Customer!Allowed, Customer!Submitted
    <3> QED BY <3>1, <3>2, <3>3, <3>4
  <2>3. CASE r.kind = "final" /\ Customer!FinalReceiptAllowed
    <3> DEFINE h == [order EXCEPT !.final = r.image]
    <3>1. order' = h /\ Customer!Answer(r, "ok", order')
      BY <2>3 DEF Customer!Serve
    <3>2. h \in Customer!Row /\ h.details = order.details /\ h.receipt = order.receipt
      BY <1>1, <1>2 DEF Customer!Row
    <3> HIDE DEF h
    <3>3. customerRequests' = (customerRequests \ {r}) \cup {[r EXCEPT !.answer = "ok", !.told = h]}
      BY <3>1 DEF Customer!Answer
    <3>4. Customer!Submitted(h) <=> Customer!Submitted(order)
      BY <3>2 DEF Customer!Submitted
    <3>5. r.kind # "details"
      BY <2>3
    <3> QED BY <1>1, <3>1, <3>2, <3>3, <3>4, <3>5
  <2>4. CASE r.kind # "load" /\ ~(r.kind = "details" /\ Customer!DetailsAllowed)
             /\ ~(r.kind = "final" /\ Customer!FinalReceiptAllowed)
    <3>1. order' = order /\ Customer!Answer(r, "refused", Customer!NoOrder)
      BY <2>4 DEF Customer!Serve
    <3> QED BY <1>1, <3>1 DEF Customer!Answer
  <2> QED BY ZenonT(60), <2>1, <2>2, <2>3, <2>4
<1> DEFINE s == [r EXCEPT !.answer = answer, !.told = told]
<1>4. s \in Customer!Request /\ s.kind = r.kind /\ s.text = r.text /\ s.image = r.image /\ s.told = told /\ s.answer = answer
  BY <1>1 DEF Customer!Request
<1> HIDE DEF s
<1>5. Customer!RequestFits(s)'
  BY <1>2, <1>3, <1>4, CustomerRows DEF Customer!RequestFits, Customer!Agrees, Customer!Submitted
<1>6. \A t \in customerRequests' : Customer!RequestFits(t)'
  BY <1>3, <1>5, CustomerStillFits DEF s
<1>7. customerRequests' \subseteq Customer!Request
  BY <1>1, <1>3, <1>4 DEF s
<1> QED BY <1>1, <1>3, <1>6, <1>7, CustomerServerStep

\* A lost answer says nothing.
LEMMA CustomerLose ==
    ASSUME Customer!IInv, NEW r \in customerRequests, Customer!Lose(r)
    PROVE  Customer!IInv' /\ (Customer!AloneInv(Alone) => Customer!AloneInv(Alone)')
<1> DEFINE s == [r EXCEPT !.answer = "lost", !.told = Customer!NoOrder]
<1>1. /\ order \in Customer!Row /\ r \in Customer!Request /\ customerRequests \subseteq Customer!Request
      /\ customerLost \in 0..FewLosses /\ customerLost < FewLosses /\ customerLost' = customerLost + 1
      /\ Customer!RequestFits(r) /\ order' = order
      /\ customerRequests' = (customerRequests \ {r}) \cup {s}
      /\ UNCHANGED <<twoStage, draft, tab, typed, customerSent, visits>>
      /\ (Customer!Submitted(order) => order.details \in Valid /\ order.receipt # None)
      /\ (~Customer!Submitted(order) => order.receipt = None)
  BY DEF Customer!IInv, Customer!TypeOK, Customer!Lose, Customer!Answer, Customer!AcceptedTogether
<1>2. s \in Customer!Request /\ s.kind = r.kind /\ s.text = r.text /\ s.image = r.image /\ s.answer = "lost" /\ s.told = Customer!NoOrder
  BY <1>1 DEF Customer!Request
<1> HIDE DEF s
<1>3. customerLost' \in 0..FewLosses
  BY <1>1, CustomerConstants DEF Customer!CustomerAssumption
<1>4. Customer!RequestFits(s)'
  BY <1>1, <1>2, CustomerRows DEF Customer!RequestFits, Customer!Agrees, Customer!Submitted
<1>5. \A t \in customerRequests' : Customer!RequestFits(t)'
  BY <1>1, <1>4, CustomerStillFits
<1>6. customerRequests' \subseteq Customer!Request
  BY <1>1, <1>2
<1> QED BY <1>1, <1>3, <1>5, <1>6, CustomerServerStep

\* The shop goes on with the order while the page is open.
LEMMA CustomerOperate ==
    ASSUME Customer!IInv, Customer!Operate
    PROVE  Customer!IInv' /\ (Customer!AloneInv(Alone) => Customer!AloneInv(Alone)')
<1>1. /\ order \in Customer!Row /\ customerRequests \subseteq Customer!Request /\ customerLost \in 0..FewLosses
      /\ UNCHANGED <<twoStage, draft, tab, typed, customerRequests, customerSent, customerLost, visits>>
      /\ (Customer!Submitted(order) => order.details \in Valid /\ order.receipt # None)
      /\ (~Customer!Submitted(order) => order.receipt = None)
  BY DEF Customer!IInv, Customer!TypeOK, Customer!Operate, Customer!AcceptedTogether
<1>2. PICK o \in Customer!Row : order' = o /\ o.details = order.details /\ o.receipt = order.receipt
  <2>1. order' \in Customer!Row /\ order'.details = order.details /\ order'.receipt = order.receipt
    BY <1>1 DEF Customer!Operate, Customer!Row, Customer!Status
  <2> QED BY <2>1
<1>3. Customer!Submitted(o) <=> Customer!Submitted(order)
  BY <1>2 DEF Customer!Submitted
<1>4. \A t \in customerRequests' : Customer!RequestFits(t)'
  BY <1>1, <1>2, CustomerStillFits
<1> QED BY <1>1, <1>2, <1>3, <1>4, CustomerServerStep

\* An answer that nobody hears.
LEMMA CustomerUnheard ==
    ASSUME Customer!IInv, NEW r \in customerRequests, customerRequests' = customerRequests \ {r},
           UNCHANGED <<twoStage, order, draft, tab, typed, customerSent, customerLost, visits>>
    PROVE  Customer!IInv' /\ (Customer!AloneInv(Alone) => Customer!AloneInv(Alone)')
<1>1. /\ order \in Customer!Row /\ customerRequests' \subseteq Customer!Request /\ customerLost' \in 0..FewLosses
      /\ (Customer!Submitted(order) => order.details \in Valid /\ order.receipt # None)
      /\ (~Customer!Submitted(order) => order.receipt = None) /\ order' = order
  BY DEF Customer!IInv, Customer!TypeOK, Customer!AcceptedTogether
<1>2. \A t \in customerRequests' : Customer!RequestFits(t)'
  BY <1>1, CustomerStillFits
<1> QED BY <1>1, <1>2, CustomerServerStep

\* An answer that its page hears: the page becomes g, which shows what it showed or what
\* it was told, and an unsubmitted order's draft is stored or left alone.
LEMMA CustomerHeard ==
    ASSUME Customer!IInv, NEW r \in customerRequests, customerRequests' = customerRequests \ {r},
           Customer!Mounted(r), NEW g \in Customer!Page, tab' = [tab EXCEPT ![r.tab] = g],
           g.n = tab[r.tab].n, g.draft = tab[r.tab].draft, g.order \in {tab[r.tab].order, r.told},
           UNCHANGED <<twoStage, order, typed, customerSent, customerLost, visits>>,
           draft' \in {draft, tab[r.tab].draft} \/ (draft' = None /\ Customer!Submitted(order))
    PROVE  Customer!IInv' /\ (Customer!AloneInv(Alone) => Customer!AloneInv(Alone)')
<1>1. /\ r \in Customer!Request /\ r.tab \in Tabs /\ tab[r.tab] \in Customer!Page /\ r.n # 0
      /\ draft \in Texts \cup {None} /\ typed \in Texts /\ customerSent \in 0..MaxQuestions
      /\ customerLost \in 0..FewLosses /\ visits \in 0..FewMounts /\ customerRequests' \subseteq Customer!Request
      /\ Customer!RequestFits(r)
  BY DEF Customer!IInv, Customer!TypeOK, Customer!Request
<1>2. g.n # 0 /\ tab[r.tab].n # 0 /\ tab[r.tab].draft \in Texts
  BY <1>1, CustomerFields DEF Customer!Mounted
<1>3. Customer!Agrees(g.order)
  BY <1>1 DEF Customer!RequestFits, Customer!IInv, Customer!ShownIsRegistered, Customer!Agrees, Customer!Submitted
<1>4. \A t \in customerRequests' : Customer!RequestFits(t)
  BY DEF Customer!IInv
<1>5. Customer!IInv'
  BY <1>1, <1>2, <1>3, <1>4, CustomerPageStep
<1>6. ASSUME Customer!AloneInv(Alone) PROVE Customer!AloneInv(Alone)'
  <2>1. r.tab = Alone
    BY <1>1, <1>2, <1>6, CustomerClosed DEF Customer!AloneInv
  <2>2. ~Customer!Submitted(order) =>
              /\ g.n # 0 => g.draft = typed'
              /\ draft' = typed' \/ (draft' = None /\ typed' = Empty)
    BY <1>2, <1>6, <2>1 DEF Customer!AloneInv
  <2> QED BY <1>6, <2>1, <2>2, CustomerDraftStep
<1> QED BY <1>5, <1>6

\* An answer brings the tab what the shop has, and clears the draft with a success.
LEMMA CustomerAnswered ==
    ASSUME Customer!IInv, NEW r \in customerRequests,
           Customer!LoadEnds(r) \/ Customer!DetailsEnds(r) \/ Customer!FinalEnds(r)
    PROVE  Customer!IInv' /\ (Customer!AloneInv(Alone) => Customer!AloneInv(Alone)')
<1>1. /\ r \in Customer!Request /\ r.tab \in Tabs /\ tab[r.tab] \in Customer!Page /\ tab \in [Tabs -> Customer!Page]
      /\ Customer!RequestFits(r) /\ r.told \in Customer!Row \cup {Customer!NoOrder}
      /\ customerRequests' = customerRequests \ {r}
      /\ UNCHANGED <<twoStage, order, typed, customerSent, customerLost, visits>>
  BY DEF Customer!IInv, Customer!TypeOK, Customer!Request, Customer!LoadEnds, Customer!DetailsEnds, Customer!FinalEnds
<1>2. CASE ~Customer!Mounted(r)
  <2>1. UNCHANGED <<draft, tab>>
    BY <1>2 DEF Customer!LoadEnds, Customer!DetailsEnds, Customer!FinalEnds
  <2> QED BY <1>1, <2>1, CustomerUnheard
<1>3. CASE Customer!Mounted(r) /\ Customer!LoadEnds(r)
  <2> DEFINE g == [tab[r.tab] EXCEPT !.loading = FALSE, !.error = ~Customer!Accepted(r), !.order = r.told]
  <2>1. tab' = [tab EXCEPT ![r.tab] = g]
        /\ draft' = IF Customer!Accepted(r) THEN Customer!StorageWith(r.told, tab[r.tab].draft) ELSE draft
    BY <1>1, <1>3 DEF Customer!LoadEnds, Customer!LoadingAfter
  <2>2. g \in Customer!Page /\ g.n = tab[r.tab].n /\ g.draft = tab[r.tab].draft /\ g.order = r.told
    BY <1>1 DEF Customer!Page, Customer!Accepted
  <2>3. draft' \in {draft, tab[r.tab].draft}
    BY <2>1 DEF Customer!StorageWith, Customer!Stored
  <2> HIDE DEF g
  <2> QED BY <1>1, <1>3, <2>1, <2>2, <2>3, CustomerHeard
<1>4. CASE Customer!Mounted(r) /\ Customer!DetailsEnds(r)
  <2> DEFINE row == IF Customer!Accepted(r) THEN r.told ELSE tab[r.tab].order
             file == IF Customer!Accepted(r) THEN None ELSE tab[r.tab].receipt.file
             wrong == ~Customer!Accepted(r)
  <2>1. tab' = [tab EXCEPT ![r.tab].pending = FALSE, ![r.tab].error = wrong, ![r.tab].order = row,
                           ![r.tab].receipt.file = file]
    <3>1. tab' = [tab EXCEPT ![r.tab].pending = FALSE, ![r.tab].error = ~Customer!Accepted(r),
                             ![r.tab].order = IF Customer!Accepted(r) THEN r.told ELSE @,
                             ![r.tab].receipt.file = IF Customer!Accepted(r) THEN None ELSE @]
      BY <1>4, Zenon DEF Customer!DetailsEnds, Customer!PendingAfter
    <3> QED BY <3>1, Zenon
  <2>2. /\ file \in Images \cup {None} /\ row \in Customer!Row \cup {Customer!NoOrder}
        /\ wrong \in BOOLEAN /\ row \in {tab[r.tab].order, r.told}
    <3>1. tab[r.tab].receipt \in Customer!Picker /\ tab[r.tab].order \in Customer!Row \cup {Customer!NoOrder}
      BY <1>1, CustomerFields
    <3> QED BY <1>1, <3>1 DEF Customer!Picker, Customer!Accepted
  <2> HIDE DEF row, file, wrong
  <2>3. PICK x \in Tabs : x = r.tab
    BY <1>1
  <2>4. tab' = [tab EXCEPT ![x].pending = FALSE, ![x].error = wrong, ![x].order = row, ![x].receipt.file = file]
    BY <2>1, <2>3
  <2>5. PICK g \in Customer!Page : tab' = [tab EXCEPT ![x] = g] /\ g.n = tab[x].n /\ g.draft = tab[x].draft /\ g.order = row
    <3>1. tab'[x] \in Customer!Page
      <4> DEFINE picker == [tab[x].receipt EXCEPT !.file = file]
      <4>1. tab[x] \in Customer!Page /\ picker \in Customer!Picker
        <5>1. tab[x] \in Customer!Page /\ tab[x].receipt \in Customer!Picker
          BY <1>1, CustomerFields
        <5> QED BY <2>2, <5>1 DEF Customer!Picker
      <4>2. tab'[x] = [tab[x] EXCEPT !.pending = FALSE, !.error = wrong, !.order = row, !.receipt = picker]
        BY <1>1, <2>4 DEF Customer!Page
      <4> HIDE DEF picker
      <4> QED BY <2>2, <4>1, <4>2 DEF Customer!Page
    <3>2. tab'[x].n = tab[x].n /\ tab'[x].draft = tab[x].draft /\ tab'[x].order = row
      BY <1>1, <2>4 DEF Customer!Page
    <3>3. tab' = [tab EXCEPT ![x] = tab'[x]]
      BY <1>1, <2>4 DEF Customer!Page
    <3> QED BY <3>1, <3>2, <3>3
  <2>6. draft' = draft \/ (draft' = None /\ Customer!Submitted(order))
    BY <1>1, <1>4 DEF Customer!DetailsEnds, Customer!DraftAfter, Customer!Accepted, Customer!RequestFits
  <2> QED BY <1>1, <1>4, <2>2, <2>3, <2>5, <2>6, CustomerHeard
<1>5. CASE Customer!Mounted(r) /\ Customer!FinalEnds(r)
  <2> DEFINE o == IF Customer!Accepted(r) THEN r.told ELSE tab[r.tab].order
             file == [tab[r.tab].final EXCEPT !.file = IF Customer!Accepted(r) THEN None ELSE @]
             g == [tab[r.tab] EXCEPT !.finalPending = FALSE, !.order = o, !.final = file]
  <2>1. tab' = [tab EXCEPT ![r.tab] = g] /\ draft' = draft
    <3> DEFINE h == [tab[r.tab] EXCEPT !.finalPending = FALSE,
                        !.order = IF Customer!Accepted(r) THEN r.told ELSE @,
                        !.final.file = IF Customer!Accepted(r) THEN None ELSE @]
    <3>1. h = g
      BY <1>1 DEF Customer!Page, Customer!Picker
    <3>2. tab' = [tab EXCEPT ![r.tab] = h] /\ draft' = draft
      <4>1. /\ tab' = [tab EXCEPT ![r.tab].finalPending = FALSE,
                        ![r.tab].order = IF Customer!Accepted(r) THEN r.told ELSE @,
                        ![r.tab].final.file = IF Customer!Accepted(r) THEN None ELSE @]
            /\ draft' = draft
        BY <1>5, Zenon DEF Customer!FinalEnds, Customer!PendingAfter
      <4> QED BY ZenonT(60), <1>1, <4>1
    <3> HIDE DEF g, h
    <3> QED BY <3>1, <3>2
  <2>2. file \in Customer!Picker /\ o \in Customer!Row \cup {Customer!NoOrder}
    <3>1. tab[r.tab].final \in Customer!Picker /\ tab[r.tab].order \in Customer!Row \cup {Customer!NoOrder}
      BY <1>1, CustomerFields
    <3> QED BY <1>1, <3>1 DEF Customer!Picker
  <2> HIDE DEF o, file
  <2>3. g \in Customer!Page /\ g.n = tab[r.tab].n /\ g.draft = tab[r.tab].draft /\ g.order = o
    BY <1>1, <2>2 DEF Customer!Page
  <2>4. o \in {tab[r.tab].order, r.told}
    BY DEF o
  <2> HIDE DEF g
  <2> QED BY <1>1, <1>5, <2>1, <2>3, <2>4, CustomerHeard
<1> QED BY <1>2, <1>3, <1>4, <1>5

\* Every step keeps the invariant; one that opens no second tab also keeps the draft.
LEMMA CustomerStep ==
    Customer!IInv /\ [Customer!Next]_customerVars =>
        /\ Customer!IInv'
        /\ Customer!AloneInv(Alone) /\ DeviceBounds => Customer!AloneInv(Alone)'
<1> SUFFICES ASSUME Customer!IInv, [Customer!Next]_customerVars
             PROVE  /\ Customer!IInv'
                    /\ Customer!AloneInv(Alone) /\ DeviceBounds => Customer!AloneInv(Alone)'
  OBVIOUS
<1>1. CASE UNCHANGED customerVars
  <2>1. Customer!IInv'
    BY <1>1 DEF customerVars, Customer!IInv, Customer!TypeOK, Customer!AcceptedTogether, Customer!ShownIsRegistered,
       Customer!RequestFits, Customer!Agrees, Customer!Submitted
  <2>2. Customer!AloneInv(Alone) => Customer!AloneInv(Alone)'
    BY <1>1 DEF customerVars, Customer!AloneInv, Customer!Submitted
  <2> QED BY <2>1, <2>2
<1>2. CASE Customer!Next
  <2>1. ASSUME NEW t \in Tabs, Customer!Visit(t) PROVE
               /\ Customer!IInv'
               /\ Customer!AloneInv(Alone) /\ DeviceBounds => Customer!AloneInv(Alone)'
    <3>1. Customer!IInv' /\ tab'[t].n # 0 /\ (t = Alone /\ Customer!AloneInv(Alone) => Customer!AloneInv(Alone)')
      BY <2>1, CustomerOpen
    <3>2. DeviceBounds => t = Alone
      BY <3>1 DEF DeviceBounds
    <3> QED BY <3>1, <3>2
  <2>2. ASSUME NEW t \in Tabs,
               \/ \E image \in Images :
                     \/ Customer!Choose(t, image) \/ Customer!PreparedLate(t, image)
                     \/ Customer!ChooseFinal(t, image)
               \/ Customer!Remove(t) \/ Customer!Prepared(t)
        PROVE Customer!IInv' /\ (Customer!AloneInv(Alone) => Customer!AloneInv(Alone)')
    BY <2>2, CustomerPicking, CustomerPicked
  <2>3. \/ \E t \in Tabs : Customer!Visit(t)
        \/ \E t \in Tabs :
              \/ \E image \in Images :
                    \/ Customer!Choose(t, image) \/ Customer!PreparedLate(t, image)
                    \/ Customer!ChooseFinal(t, image)
              \/ Customer!Remove(t) \/ Customer!Prepared(t)
        \/ \E t \in Tabs : Customer!Close(t) \/ Customer!Reload(t) \/ Customer!SubmitDetails(t) \/ Customer!SubmitFinalReceipt(t)
        \/ \E t \in Tabs, text \in Texts : Customer!Type(t, text)
        \/ \E r \in customerRequests :
              Customer!Serve(r) \/ Customer!Lose(r) \/ Customer!LoadEnds(r) \/ Customer!DetailsEnds(r) \/ Customer!FinalEnds(r)
        \/ Customer!Operate
    BY <1>2 DEF Customer!Next
  <2> QED BY <2>1, <2>2, <2>3, CustomerClose, CustomerReload, CustomerSubmit, CustomerType, CustomerServe, CustomerLose,
             CustomerAnswered, CustomerOperate
<1> QED BY <1>1, <1>2

\* The recovered draft, and the amount beside its card.
LEMMA CustomerProper ==
    Customer!IInv => /\ Customer!AmountMatchesCard
                     /\ Customer!AloneInv(Alone) => Customer!DraftRecovered
<1>1. Customer!AmountMatchesCard
  BY DEF Customer!AmountMatchesCard, Customer!AmountShown, Customer!CardShown, Customer!AmountOf, Customer!CardOf,
     Customer!FirstActive, Customer!FinalActive
<1>2. Customer!AloneInv(Alone) => Customer!DraftRecovered
  BY DEF Customer!AloneInv, Customer!DraftRecovered
<1> QED BY <1>1, <1>2

-----------------------------------------------------------------------------
(* Each part by itself *)

(* In any number of tabs a created page shows an order that is stored, and a careful
   operator's request has its page and the application's guard (CreateOrderPage.tsx).  *)
THEOREM CreationSafety ==
    Creation!Spec => []Creation!CreatedIsStored /\ [](careful => Creation!Attended /\ Creation!BusyWhilePending)
<1>1. [Creation!Next]_Creation!vars => [Creation!Next]_creationVars
  BY DEF Creation!vars, creationVars
<1>2. Creation!IInv => Creation!CreatedIsStored /\ (careful => Creation!Attended /\ Creation!BusyWhilePending)
  BY DEF Creation!IInv
<1> QED BY <1>1, <1>2, CreationInit, CreationStep, PTL DEF Creation!Spec

(* However the fields are edited, and however long the form is open: what is sent is
   accepted unless it has too many products, a promise is counted in working days, and a
   first payment is half of the products (OrderDraftFields.tsx, DeliveryDateSelect.tsx).  *)
THEOREM DraftSafety ==
    Draft!Spec => []Draft!SubmittedIsAcceptable /\ Draft!PromiseCounted /\ Draft!HalfFollowsProducts
<1>1. [Draft!Next]_Draft!vars => [Draft!Next]_draftVars
  BY DEF Draft!vars, draftVars
<1>2. DraftInv => Draft!SubmittedIsAcceptable
  BY DEF DraftInv
<1>3. DraftInv /\ [Draft!Next]_Draft!vars => [PromiseStep]_Draft!vars /\ [HalfStep]_Draft!vars
  BY <1>1, DraftStep
<1> QED BY <1>1, <1>2, <1>3, DraftInit, DraftStep, PTL
        DEF Draft!Spec, Draft!PromiseCounted, PromiseStep, Draft!HalfFollowsProducts, HalfStep

(* Each existing order is imported once, a patient operator's with the image that was
   reviewed, the order's own (HistoricalOrderPage.tsx).  *)
THEOREM ImportSafety ==
    Import!Spec => []Import!NoDuplicate /\ [](Patient => Import!ReviewedIsStored /\ Import!OwnReceipt)
<1>1. [Import!Next]_Import!vars => [Import!Next]_importVars
  BY DEF Import!vars, importVars
<1>2. Import!IInv => Import!NoDuplicate /\ (Patient => Import!ReviewedIsStored /\ Import!OwnReceipt)
  BY DEF Import!IInv
<1> QED BY <1>1, <1>2, ImportInit, ImportStep, PTL DEF Import!Spec

(* In any number of tabs the customer's text and receipt are accepted together, a tab shows
   as registered what the shop has, and an amount is beside its own card
   (PublicOrderPage.tsx).  *)
THEOREM CustomerSafety ==
    Customer!Spec =>
        []Customer!AcceptedTogether /\ []Customer!ShownIsRegistered /\ []Customer!AmountMatchesCard
<1>1. [Customer!Next]_Customer!vars => [Customer!Next]_customerVars
  BY DEF Customer!vars, customerVars
<1>2. Customer!IInv => Customer!AcceptedTogether /\ Customer!ShownIsRegistered /\ Customer!AmountMatchesCard
  BY CustomerProper DEF Customer!IInv
<1> QED BY <1>1, <1>2, CustomerInit, CustomerStep, PTL DEF Customer!Spec

-----------------------------------------------------------------------------
(* The forms together *)

\* The invariants of the parts, and which operator the creation page has.
FormsIInv == FormsInv /\ careful = (part # "leaving")

\* Every part begins in order.
LEMMA FormsInit == MCInit => FormsIInv
<1> SUFFICES ASSUME MCInit PROVE FormsIInv
  OBVIOUS
<1>1. /\ Creation!Init /\ Draft!Init /\ Import!Init /\ Customer!Init
      /\ careful = (part # "leaving")
  BY DEF MCInit
<1>2. /\ Creation!IInv /\ (careful => Creation!AloneInv(Alone)) /\ DraftInv /\ Import!IInv
      /\ Customer!IInv /\ Customer!AloneInv(Alone)
  BY <1>1, CreationInit, DraftInit, ImportInit, CustomerInit
<1> QED BY <1>1, <1>2 DEF FormsIInv, FormsInv, DraftInv

\* A behaviour stays with its part, and a step is one of each part or leaves it alone.
LEMMA FormsStepIs ==
    ASSUME [MCNext]_<<part, creationVars, draftVars, importVars, customerVars>>
    PROVE  /\ part' = part
           /\ [Creation!Next]_creationVars /\ [Draft!Next]_draftVars
           /\ [Import!Next]_importVars /\ [Customer!Next]_customerVars
           /\ part # "leaving" => StayingBounds \/ UNCHANGED creationVars
           /\ part # "tabs" => DeviceBounds \/ UNCHANGED customerVars
BY DEF MCNext

\* The creation page keeps its operator.
LEMMA CreationSameOperator == [Creation!Next]_creationVars => careful' = careful
<1> SUFFICES ASSUME [Creation!Next]_creationVars PROVE careful' = careful
  BY SMTT(60)
<1>1. ASSUME NEW t \in Tabs,
             \/ \E k \in Keys : Creation!Open(t, k) \/ Creation!Reset(t, k)
             \/ \E sale \in Sales : Creation!Fill(t, sale)
             \/ Creation!Leave(t) \/ Creation!Submit(t) \/ Creation!CopyMessage(t) \/ Creation!SaveDeliveryDate(t)
      PROVE  careful' = careful
  BY ZenonT(60), <1>1 DEF Creation!Open, Creation!Reset, Creation!Fill, Creation!Leave, Creation!Submit, Creation!CopyMessage,
     Creation!SaveDeliveryDate
<1>2. ASSUME NEW r \in requests,
             Creation!Serve(r) \/ Creation!Lose(r) \/ Creation!CreateEnds(r) \/ Creation!CorrectionEnds(r)
      PROVE  careful' = careful
  BY <1>2 DEF Creation!Serve, Creation!Lose, Creation!CreateEnds, Creation!CorrectionEnds
<1> QED BY <1>1, <1>2 DEF Creation!Next, creationVars

\* A customer's page that is left alone keeps what holds of one tab.
LEMMA CustomerStays ==
    ASSUME Customer!AloneInv(Alone), UNCHANGED customerVars PROVE Customer!AloneInv(Alone)'
BY DEF customerVars, Customer!AloneInv, Customer!Submitted

\* Every step keeps the invariants of all parts.
LEMMA FormsStep ==
    FormsIInv /\ [MCNext]_<<part, creationVars, draftVars, importVars, customerVars>> => FormsIInv'
<1> SUFFICES ASSUME FormsIInv, [MCNext]_<<part, creationVars, draftVars, importVars, customerVars>>
             PROVE  FormsIInv'
  OBVIOUS
<1>1. /\ Creation!IInv /\ DraftInv /\ Import!IInv /\ Customer!IInv
      /\ part # "leaving" => Creation!AloneInv(Alone)
      /\ part # "tabs" => Customer!AloneInv(Alone)
      /\ careful = (part # "leaving")
  BY DEF FormsIInv, FormsInv, DraftInv
<1>2. Creation!IInv' /\ (part # "leaving" => Creation!AloneInv(Alone)')
  BY <1>1, FormsStepIs, CreationStep
<1>3. DraftInv' /\ Import!IInv'
  BY <1>1, FormsStepIs, DraftStep, ImportStep
<1>4. Customer!IInv' /\ (part # "tabs" => Customer!AloneInv(Alone)')
  BY <1>1, FormsStepIs, CustomerStep, CustomerStays
<1>5. careful' = (part' # "leaving") /\ part' = part
  BY <1>1, FormsStepIs, CreationSameOperator
<1> QED BY <1>2, <1>3, <1>4, <1>5 DEF FormsIInv, FormsInv, DraftInv

\* Where the forms stand in any behaviour.
THEOREM FormsInvariant == MCSpec => []FormsInv
<1>1. FormsIInv => FormsInv
  BY DEF FormsIInv
<1> QED BY <1>1, FormsInit, FormsStep, PTL DEF MCSpec

(* A created page shows a stored order; with a careful operator each sale is stored once and
   the guard covers the whole request; what the fields come to is accepted by the server
   (CreateOrderPage.tsx, createOrder).  *)
THEOREM FormsCreation == MCSpec => []CreationSafe
<1>1. FormsIInv => CreationSafe
  <2> SUFFICES ASSUME FormsIInv PROVE CreationSafe
    OBVIOUS
  <2>1. careful => Creation!NoDuplicate
    BY DEF FormsIInv, FormsInv, Creation!AloneInv
  <2>2. Creation!NoDuplicate
    BY <2>1 DEF Creation!NoDuplicate
  <2> QED BY <2>2 DEF FormsIInv, FormsInv, CreationSafe, Creation!IInv
<1> QED BY <1>1, FormsInit, FormsStep, PTL DEF MCSpec

(* A careful operator's only tab gives up the key of an order only when the order is stored;
   a promise is counted over weekends and holidays; a first payment follows the products it
   is half of (CreateOrderPage.tsx, DeliveryDateSelect.tsx).  *)
THEOREM FormsSteps == MCSpec => CreationSteps
<1> DEFINE all == <<part, creationVars, draftVars, importVars, customerVars>>
<1>1. FormsIInv /\ [MCNext]_all => [careful => Creation!KeyOutlives]_creationVars
  <2> SUFFICES ASSUME FormsIInv, [MCNext]_all, ~UNCHANGED creationVars, careful
               PROVE  Creation!KeyOutlives
    OBVIOUS
  <2>1. Creation!IInv /\ Creation!AloneInv(Alone) /\ part # "leaving"
    BY DEF FormsIInv, FormsInv
  <2>2. Creation!Next /\ StayingBounds
    BY <2>1, FormsStepIs
  <2> QED BY <2>1, <2>2, CreationKeyOutlives
<1>2. FormsIInv /\ [MCNext]_all => [PromiseStep]_Draft!vars /\ [HalfStep]_Draft!vars
  BY FormsStepIs, DraftStep DEF FormsIInv, FormsInv, DraftInv
<1> QED BY <1>1, <1>2, FormsInit, FormsStep, PTL
        DEF MCSpec, CreationSteps, Draft!PromiseCounted, PromiseStep, Draft!HalfFollowsProducts, HalfStep

(* Each existing order is registered once; a patient operator's with the image its review
   showed, its own (HistoricalOrderPage.tsx).  *)
THEOREM FormsImport == MCSpec => []ImportSafe
<1>1. FormsIInv => ImportSafe
  BY DEF FormsIInv, FormsInv, ImportSafe, Import!IInv
<1> QED BY <1>1, FormsInit, FormsStep, PTL DEF MCSpec

(* The customer's text and receipt are accepted together and a tab shows as registered what
   the shop has; in one tab the draft outlives everything but its submission; an amount and
   its card belong together (PublicOrderPage.tsx).  *)
THEOREM FormsCustomer == MCSpec => []CustomerSafe
<1>1. FormsIInv => CustomerSafe
  BY CustomerProper DEF FormsIInv, FormsInv, CustomerSafe, Customer!IInv
<1> QED BY <1>1, FormsInit, FormsStep, PTL DEF MCSpec
=============================================================================
