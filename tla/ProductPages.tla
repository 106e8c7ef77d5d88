------------------------------ MODULE ProductPages ------------------------------
(* The catalogue of one shop in one tab: the list of products (ProductsPage.tsx), the
   form that adds or changes one with its image editor (ProductFormPage.tsx), and what
   products.go stores; the image files are in ProductImages.  A page that is left is
   unmounted: its answers change nothing, except that a saved form still goes to the
   list.

   A product's name, price and description are one text, and names collide when texts
   do.  A cropped image is told by the file it was made of.  *)
EXTENDS Naturals, FiniteSets, Sequences, SequencesExt

CONSTANTS
    FirstRows,    \* the products when the tab opens: [text, image, active] for 1..n
    MaxProducts,
    Texts, Files,
    Broken,       \* files the browser cannot decode
    None,
    MaxRequests,  \* bound: requests of the pages
    MaxLosses,    \* bound: failed connections
    MaxRefusals,  \* bound: answers that the shop is inactive
    MaxVisits     \* bound: pages opened

\* What the constants of every instance satisfy.
ProductAssumption ==
    /\ MaxProducts \in Nat /\ Len(FirstRows) <= MaxProducts
    /\ FirstRows \in Seq([text : Texts, image : Files, active : BOOLEAN])
    /\ Broken \subseteq Files /\ None \notin Texts \cup Files \cup Nat
    /\ MaxRequests \in Nat /\ MaxLosses \in Nat /\ MaxRefusals \in Nat /\ MaxVisits \in Nat

VARIABLES
    patient,   \* whether the operator waits for what a page has sent
    rows,      \* the stored products
    tab,       \* the page
    requests,  \* requests in flight
    sent, lost, refused, visits

vars == <<patient, rows, tab, requests, sent, lost, refused, visits>>
rest == <<patient, lost, refused, visits>>

-----------------------------------------------------------------------------
(* Data *)

Ids == 1..MaxProducts
Row == [text : Texts, image : Files, active : BOOLEAN]
Shown == [id : Ids, text : Texts, image : Files, active : BOOLEAN]
Stored == 1..Len(rows)

\* Whether product p comes before q: archived ones last, then later ones first.
Before(p, q) == IF p.active # q.active THEN p.active ELSE p.id > q.id

Sorted(products) ==
    CHOOSE list \in [1..Cardinality(products) -> products] :
        \A i, j \in DOMAIN list : i < j => Before(list[i], list[j])

\* products: what the server lists, archived products included.
Listing ==
    Sorted({[id |-> p, text |-> rows[p].text, image |-> rows[p].image, active |-> rows[p].active] :
               p \in Stored})

TabRecord ==
    [n : Nat, at : {"list", "new", "edit"}, id : Ids \cup {None}, shown : Seq(Shown),
     loading : BOOLEAN, error : BOOLEAN, changing : Ids \cup {None}, found : BOOLEAN,
     text : Texts \cup {None}, image : Files \cup {None}, source : Files \cup {None},
     area : BOOLEAN, working : Files \cup {None}, pending : BOOLEAN, wanted : Files \cup {None}]

RequestRecord ==
    [id : Nat, kind : {"load", "create", "update", "archive", "activate"}, n : Nat,
     product : Ids \cup {None}, text : Texts \cup {None}, image : Files \cup {None},
     wanted : Files \cup {None}, shown : Seq(Shown), waits : BOOLEAN,
     answer : {"none", "ok", "refused"}, list : Seq(Shown)]

Closed == [n |-> 0, at |-> "list", id |-> None, shown |-> <<>>, loading |-> FALSE, error |-> FALSE,
           changing |-> None, found |-> FALSE, text |-> None, image |-> None, source |-> None,
           area |-> FALSE, working |-> None, pending |-> FALSE, wanted |-> None]

Request(kind, n, id, text, image) ==
    [id |-> sent + 1, kind |-> kind, n |-> n, product |-> id, text |-> text, image |-> image,
     wanted |-> tab.wanted, shown |-> tab.shown, waits |-> TRUE, answer |-> "none", list |-> <<>>]

Init ==
    /\ patient \in BOOLEAN
    /\ rows = FirstRows
    /\ tab = Closed /\ requests = {}
    /\ sent = 0 /\ lost = 0 /\ refused = 0 /\ visits = 0

-----------------------------------------------------------------------------
(* Opening pages *)

Here(r) == tab.n = r.n

Changes == {r \in requests : r.kind \in {"archive", "activate"} /\ Here(r)}

\* A new page: the list and the form for an existing product ask for all products.
\* A form that is left aborts this request.
Mount(at, id, others) ==
    LET kept == {r \in others : ~(r.kind = "load" /\ tab.at = "edit")}
    IN IF at = "new"
       THEN /\ tab' = [Closed EXCEPT !.n = tab.n + 1, !.at = at]
            /\ requests' = kept /\ UNCHANGED sent
       ELSE /\ tab' = [Closed EXCEPT !.n = tab.n + 1, !.at = at, !.id = id, !.loading = TRUE]
            /\ requests' = kept \cup {Request("load", tab.n + 1, id, None, None)}
            /\ sent' = sent + 1

\* A link of the list or the page, or the browser's history.
Open(at, id) ==
    /\ visits < MaxVisits /\ sent < MaxRequests
    /\ patient => Changes = {} /\ ~tab.pending
    /\ visits' = visits + 1
    /\ Mount(at, id, requests)
    /\ UNCHANGED <<patient, rows, lost, refused>>

-----------------------------------------------------------------------------
(* The list *)

Ask(kind, id, text, image) ==
    /\ sent < MaxRequests
    /\ sent' = sent + 1
    /\ requests' = requests \cup {Request(kind, tab.n, id, text, image)}
    /\ UNCHANGED <<rows, rest>>

\* loadProducts again, from the message of an error.
Retry ==
    /\ tab.at = "list" /\ tab.error
    /\ patient => Changes = {}
    /\ tab' = [tab EXCEPT !.loading = TRUE, !.error = FALSE]
    /\ Ask("load", None, None, None)

\* changeActive; the button of the product that was pressed last is disabled.  The
\* list stays on the screen while it is loaded again.
ChangeActive(p) ==
    /\ tab.at = "list" /\ tab.changing # p.id
    /\ patient => ~tab.loading /\ \A r \in Changes : r.product # p.id
    /\ tab' = [tab EXCEPT !.changing = p.id, !.error = FALSE]
    /\ Ask(IF p.active THEN "archive" ELSE "activate", p.id, None, None)

-----------------------------------------------------------------------------
(* The form *)

Form == tab.at # "list" /\ tab.n # 0 /\ ~tab.loading /\ (tab.at = "edit" => tab.found)

EditText(text) ==
    /\ Form /\ text # tab.text
    /\ tab' = [tab EXCEPT !.text = text]
    /\ UNCHANGED <<rows, requests, sent, rest>>

\* choose; the buttons that open the picker go away while an image is being cropped.
Choose(file) ==
    /\ Form /\ tab.source = None
    /\ tab' = [tab EXCEPT !.source = file, !.area = FALSE]
    /\ UNCHANGED <<rows, requests, sent, rest>>

\* The cropper reports the area, once it could show the image.
Position ==
    /\ Form /\ tab.source \notin Broken \cup {None} /\ ~tab.area
    /\ tab' = [tab EXCEPT !.area = TRUE]
    /\ UNCHANGED <<rows, requests, sent, rest>>

FinishCrop ==
    /\ Form /\ tab.source # None /\ tab.area /\ tab.working = None
    /\ tab' = [tab EXCEPT !.working = tab.source, !.wanted = tab.source]
    /\ UNCHANGED <<rows, requests, sent, rest>>

\* Variant: only a crop that failed is no longer at work.
WorkingUntilError(ok) == IF ok THEN tab.working ELSE None

WorkingAfter(ok) == None

\* cropImage has made an image, or could not.
Cropped(ok) ==
    /\ Form /\ tab.working # None
    /\ tab' = IF ok
              THEN [tab EXCEPT !.image = tab.working, !.source = None, !.working = WorkingAfter(ok)]
              ELSE [tab EXCEPT !.working = WorkingAfter(ok), !.wanted = tab.image]
    /\ UNCHANGED <<rows, requests, sent, rest>>

\* Variant: the crop can be given up while it is worked on.
CancelAnyTime == TRUE

CancelAllowed == tab.working = None

CancelCrop ==
    /\ Form /\ tab.source # None /\ CancelAllowed
    /\ tab' = [tab EXCEPT !.source = None, !.wanted = tab.image]
    /\ UNCHANGED <<rows, requests, sent, rest>>

\* "Back to the current image".
KeepCurrent ==
    /\ Form /\ tab.at = "edit" /\ tab.source = None /\ tab.image # None
    /\ tab' = [tab EXCEPT !.image = None, !.wanted = None]
    /\ UNCHANGED <<rows, requests, sent, rest>>

\* Variant: an image that is being cropped does not hold the form up.
SubmitWhileCropping == ~tab.pending /\ tab.text # None /\ (tab.at = "new" => tab.image # None)

SubmitAllowed ==
    ~tab.pending /\ tab.source = None /\ tab.text # None /\ (tab.at = "new" => tab.image # None)

Submit ==
    /\ Form /\ SubmitAllowed
    /\ tab' = [tab EXCEPT !.pending = TRUE, !.error = FALSE]
    /\ Ask(IF tab.at = "new" THEN "create" ELSE "update", tab.id, tab.text, tab.image)

-----------------------------------------------------------------------------
(* The server *)

Answer(r, s) == requests' = (requests \ {r}) \cup IF r.waits THEN {s} ELSE {}

\* idx_products_shop_name
NameFree(r) == \A p \in Stored : rows[p].text = r.text => p = r.product

\* createProduct, updateProduct and setProductActive, each as one step.
Serve(r) ==
    /\ r.answer = "none"
    /\ CASE r.kind = "load" ->
               Answer(r, [r EXCEPT !.answer = "ok", !.list = Listing]) /\ UNCHANGED rows
         [] r.kind \in {"create", "update"} /\ ~NameFree(r) ->
               Answer(r, [r EXCEPT !.answer = "refused"]) /\ UNCHANGED rows
         [] r.kind = "create" /\ NameFree(r) ->
               /\ Len(rows) < MaxProducts
               /\ rows' = Append(rows, [text |-> r.text, image |-> r.image, active |-> TRUE])
               /\ Answer(r, [r EXCEPT !.answer = "ok"])
         [] r.kind = "update" /\ NameFree(r) ->
               /\ rows' = [rows EXCEPT ![r.product].text = r.text,
                                       ![r.product].image = IF r.image = None THEN @ ELSE r.image]
               /\ Answer(r, [r EXCEPT !.answer = "ok"])
         [] r.kind \in {"archive", "activate"} ->
               /\ rows' = [rows EXCEPT ![r.product].active = r.kind = "activate"]
               /\ Answer(r, [r EXCEPT !.answer = "ok"])
    /\ UNCHANGED <<tab, sent, rest>>

\* requireActiveShop
Refuse(r) ==
    /\ r.answer = "none" /\ r.kind # "load" /\ refused < MaxRefusals
    /\ refused' = refused + 1
    /\ Answer(r, [r EXCEPT !.answer = "refused"])
    /\ UNCHANGED <<patient, rows, tab, sent, lost, visits>>

-----------------------------------------------------------------------------
(* Answers *)

\* Variant: the list that was on the screen when the button was pressed is changed.
AsPressed(r) == r.shown

AsShown(r) == tab.shown

\* sortProducts of the list with the product changed.
WithChanged(r) ==
    Sorted({IF p.id = r.product THEN [p EXCEPT !.active = r.kind = "activate"] ELSE p :
               p \in Range(AsShown(r))})

\* Variant: an error leaves the spinner on.
LoadingUntilLoaded(r) == r.answer # "ok"

LoadingAfter(r) == FALSE

\* Variant: an error leaves the form pending.
PendingUntilSaved(r) == TRUE

PendingAfter(r) == FALSE

Failed(r) ==
    CASE r.kind = "load" -> [tab EXCEPT !.error = TRUE, !.loading = LoadingAfter(r)]
      [] r.kind \in {"archive", "activate"} -> [tab EXCEPT !.error = TRUE, !.changing = None]
      [] OTHER -> [tab EXCEPT !.error = TRUE, !.pending = PendingAfter(r)]

\* A form asks for its product among all of them.
Loaded(r) ==
    IF tab.at = "list" THEN [tab EXCEPT !.shown = r.list, !.loading = LoadingAfter(r)]
    ELSE LET mine == {p \in Range(r.list) : p.id = tab.id}
         IN IF mine = {} THEN [tab EXCEPT !.error = TRUE, !.loading = LoadingAfter(r)]
            ELSE [tab EXCEPT !.found = TRUE, !.text = (CHOOSE p \in mine : TRUE).text,
                             !.loading = LoadingAfter(r)]

Receive(r) ==
    /\ r.answer # "none"
    /\ IF r.kind \in {"create", "update"} /\ r.answer = "ok"
       THEN Mount("list", None, requests \ {r})
       ELSE /\ tab' = CASE ~Here(r) -> tab
                        [] Here(r) /\ r.answer # "ok" -> Failed(r)
                        [] Here(r) /\ r.answer = "ok" /\ r.kind = "load" -> Loaded(r)
                        [] Here(r) /\ r.answer = "ok" /\ r.kind # "load" ->
                              [tab EXCEPT !.shown = WithChanged(r), !.changing = None]
            /\ requests' = requests \ {r} /\ UNCHANGED sent
    /\ UNCHANGED <<rows, rest>>

\* The connection fails; the request may still be on its way.
Lose(r) ==
    /\ r.waits /\ lost < MaxLosses
    /\ lost' = lost + 1
    /\ requests' = (requests \ {r}) \cup
          IF r.answer = "none" THEN {[r EXCEPT !.waits = FALSE]} ELSE {}
    /\ tab' = IF Here(r) THEN Failed(r) ELSE tab
    /\ UNCHANGED <<patient, rows, sent, refused, visits>>

-----------------------------------------------------------------------------

Operate ==
    \/ Open("list", None) \/ Open("new", None) \/ Retry
    \/ \E p \in Stored : Open("edit", p)
    \/ \E p \in Range(tab.shown) : ChangeActive(p)
    \/ \E text \in Texts : EditText(text)
    \/ \E file \in Files : Choose(file)
    \/ Position \/ FinishCrop \/ CancelCrop \/ KeepCurrent \/ Submit

Proceed ==
    \/ Cropped(TRUE) \/ Cropped(FALSE)
    \/ \E r \in requests : Serve(r) \/ Refuse(r) \/ Receive(r) \/ Lose(r)

Next == Operate \/ Proceed

Spec == Init /\ [][Next]_vars

\* Requests are answered or fail, the page handles what comes, and crops end.
Fairness ==
    /\ WF_vars(\E r \in requests : r.waits /\ Serve(r))
    /\ WF_vars(\E r \in requests : Receive(r))
    /\ WF_vars(Cropped(TRUE) \/ Cropped(FALSE))

FairSpec == Spec /\ Fairness

-----------------------------------------------------------------------------
(* Properties *)

TypeOK ==
    /\ patient \in BOOLEAN
    /\ rows \in Seq(Row) /\ Len(rows) <= MaxProducts
    /\ tab \in TabRecord /\ requests \subseteq RequestRecord
    /\ tab.working # None => tab.source = tab.working /\ tab.area
    /\ tab.pending => \E r \in requests : Here(r) /\ r.kind \in {"create", "update"} /\ r.waits
    /\ sent \in Nat /\ lost \in 0..MaxLosses /\ refused \in 0..MaxRefusals /\ visits \in 0..MaxVisits

\* Once nothing is under way, the list of an operator who waits is the catalogue as it is
\* stored, in its order, whatever was archived, restored, refused or saved before, if no
\* answer was lost (PRODUCT.md, Product list; changeActive).
ListIsCatalogue ==
    patient /\ lost = 0 /\ tab.at = "list" /\ tab.n # 0 /\ requests = {} => tab.shown = Listing

\* A form sends the image the operator settled on last, and none that was given up or
\* is still being cropped (ImageEditor).
SentIsWanted ==
    \A r \in requests : r.kind \in {"create", "update"} => r.image = r.wanted

\* The editor: without a file it shows the image that is wanted, with one at work that one.
EditorFits ==
    /\ tab.source = None => tab.image = tab.wanted
    /\ tab.working # None => tab.wanted = tab.working

\* No list has a product twice.
Unrepeated(list) == \A p, q \in Range(list) : p.id = q.id => p = q

\* What a request carries and is told.
RequestFits(r) ==
    /\ r.n <= tab.n
    /\ r.kind \in {"create", "update"} => r.text # None
    /\ r.kind = "create" => r.image # None
    /\ r.kind \in {"update", "archive", "activate"} => r.product # None
    /\ Unrepeated(r.list)

\* An operator who waits, on connections that hold.
Undisturbed == patient /\ lost = 0

Change(r) == r.kind \in {"archive", "activate"}
Save(r) == r.kind \in {"create", "update"}

\* What is in flight then: the changes of the list on the screen, one per product, or the
\* save of the form, and questions.
InFlight ==
    /\ \A r \in requests :
          /\ r.waits
          /\ Change(r) => Here(r) /\ tab.at = "list" /\ ~tab.loading
          /\ Save(r) => Here(r) /\ tab.at # "list" /\ tab.pending
    /\ \A q, r \in requests :
          (Save(q) /\ Save(r)) \/ (Change(q) /\ Change(r) /\ q.product = r.product) => q = r

\* A question about the products of the page.
Question(r) == r.kind = "load" /\ Here(r)

\* While a list is loaded again no error is shown, one question about it is in flight, and
\* what it was answered is the catalogue.
LoadFits ==
    tab.at = "list" =>
        /\ tab.loading => ~tab.error /\ \E r \in requests : Question(r)
        /\ \A r \in requests : Question(r) =>
              tab.loading /\ (r.answer = "none" \/ (r.answer = "ok" /\ r.list = Listing))
        /\ \A q, r \in requests : Question(q) /\ Question(r) => q = r

\* The catalogue with other choices of what is archived.
ListedWith(active) ==
    Sorted({[id |-> p, text |-> rows[p].text, image |-> rows[p].image, active |-> active[p]] :
               p \in Stored})

\* The list that is on the screen is the catalogue but for the changes that were made and
\* not yet told.
ShownFits ==
    tab.at = "list" /\ tab.n # 0 /\ ~tab.loading =>
        /\ \E active \in [Stored -> BOOLEAN] :
              /\ tab.shown = ListedWith(active)
              /\ \A p \in Stored : active[p] # rows[p].active =>
                    \E r \in requests : Change(r) /\ r.product = p /\ r.answer = "ok"
        /\ \A r \in requests : Change(r) =>
              /\ r.product \in Stored
              /\ r.answer = "ok" => rows[r.product].active = (r.kind = "activate")

IInv ==
    /\ TypeOK /\ EditorFits /\ SentIsWanted
    /\ Unrepeated(tab.shown) /\ \A r \in requests : RequestFits(r)
    /\ tab.at = "edit" => tab.id # None
    /\ Undisturbed => InFlight /\ LoadFits /\ ShownFits

\* Every page stops loading, an edit form whose product is not there included.
LoadingEnds == tab.loading ~> ~tab.loading

\* Every form stops saving, and every crop comes to an end (submit, finishCrop).
SavingEnds ==
    /\ tab.pending ~> ~tab.pending
    /\ tab.working # None ~> tab.working = None
=============================================================================
