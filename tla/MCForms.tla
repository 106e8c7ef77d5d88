-------------------------------- MODULE MCForms --------------------------------
(* The forms orders come from: the creation page (CreateOrderPage) with an operator who
   stays on it while it is busy, or in several tabs with one who does not; its fields
   (OrderDraft); existing orders entered one after the other (ImportOrderForm); and the
   customer's page (CustomerPage) of a two-stage order in one tab, or of another order
   in several.  A behaviour is of one part; the others never begin.  *)
EXTENDS Naturals

CONSTANTS
    None,
    Tabs, Alone,        \* the tabs, and the one that is used where only one is
    Keys, Sales,
    MaxRequests, MaxLosses, MaxUpdates, MaxMounts,
    Products, Price, MaxQuantity, Amounts, MaxItems, FirstDay, LastDay, Holidays, MaxWorkDays,
    ImagesOf, Patient, MaxImports, MaxChoices,
    Texts, Valid, Empty, Images, MaxQuestions,
    FewKeys, FewLosses, FewMounts, FewImages, FewQuestions,  \* bounds of some parts
    p, q, i, j, l       \* two products or sales, and the images of the sales' receipts

VARIABLES
    part,  \* "staying", "leaving", "draft", "import", "device" or "tabs"
    careful, stored, storage, page, creating, requests, clipboard, drawn, seen, sent, lost, mounts,
    quantity, amount, split, initial, date, workDays, today, body,
    imports, importKey, importPage, importing, preparing, importRequests, importDrawn,
    importSeen, importSent, importLost, chosen, importMounts,
    twoStage, order, draft, tab, customerRequests, typed, customerSent, customerLost, visits

creationVars ==
    <<careful, stored, storage, page, creating, requests, clipboard, drawn, seen, sent, lost,
      mounts>>

draftVars == <<quantity, amount, split, initial, date, workDays, today, body>>

importVars ==
    <<imports, importKey, importPage, importing, preparing, importRequests, importDrawn,
      importSeen, importSent, importLost, chosen, importMounts>>

customerVars ==
    <<twoStage, order, draft, tab, customerRequests, typed, customerSent, customerLost, visits>>

Creation == INSTANCE CreateOrderPage

Draft == INSTANCE OrderDraft WITH sent <- body

Import ==
    INSTANCE ImportOrderForm WITH
        MaxRequests <- MaxImports, MaxLosses <- FewLosses, MaxMounts <- FewMounts,
        stored <- imports, storage <- importKey, page <- importPage, creating <- importing,
        requests <- importRequests, drawn <- importDrawn, seen <- importSeen,
        sent <- importSent, lost <- importLost, mounts <- importMounts

Customer ==
    INSTANCE CustomerPage WITH
        MaxRequests <- MaxQuestions, MaxLosses <- FewLosses, MaxVisits <- FewMounts,
        split <- twoStage, storage <- draft, requests <- customerRequests,
        sent <- customerSent, lost <- customerLost

\* A product of price 1; a sale with a wrong and a right image.
OneAndThree == [x \in {p, q} |-> IF x = p THEN 1 ELSE 3]
WrongAndRight == [x \in {p, q} |-> IF x = p THEN {i, j} ELSE {l}]

ASSUME FormsAssumption ==
    /\ Alone \in Tabs
    /\ Creation!BoundAssumption /\ Draft!PriceAssumption
    /\ Import!ImportAssumption /\ Customer!CustomerAssumption

MCInit ==
    /\ part \in {"staying", "leaving", "draft", "import", "device", "tabs"}
    /\ Creation!Init /\ careful = (part # "leaving")
    /\ Draft!Init
    /\ Import!Init
    /\ Customer!Init /\ twoStage = (part # "tabs")

\* One tab, and no delivery date is corrected.
StayingBounds ==
    /\ \A t \in Tabs \ {Alone} : page'[t].n = 0
    /\ \A r \in requests' : r.kind = "create"

LeavingBounds == drawn' \subseteq FewKeys /\ lost' <= FewLosses /\ mounts' <= FewMounts

DeviceBounds == \A t \in Tabs \ {Alone} : tab'[t].n = 0

TabsBounds ==
    /\ \A t \in Tabs : tab'[t].receipt.preparing \in FewImages \cup {None}
    /\ customerSent' <= FewQuestions

MCNext ==
    \/ /\ \/ part = "staying" /\ Creation!Next /\ StayingBounds
          \/ part = "leaving" /\ Creation!Next /\ LeavingBounds
       /\ UNCHANGED <<part, draftVars, importVars, customerVars>>
    \/ /\ part = "draft" /\ Draft!Next
       /\ UNCHANGED <<part, creationVars, importVars, customerVars>>
    \/ /\ part = "import" /\ Import!Next
       /\ UNCHANGED <<part, creationVars, draftVars, customerVars>>
    \/ /\ \/ part = "device" /\ Customer!Next /\ DeviceBounds
          \/ part = "tabs" /\ Customer!Next /\ TabsBounds
       /\ UNCHANGED <<part, creationVars, draftVars, importVars>>

MCSpec ==
    /\ MCInit
    /\ [][MCNext]_<<part, creationVars, draftVars, importVars, customerVars>>
    /\ Creation!Fairness /\ Import!Fairness /\ Customer!Fairness

-----------------------------------------------------------------------------

(* On the creation page: a created page shows an order that is stored; with a careful
   operator each sale is also stored once, and the application's guard covers the whole
   request; and what the fields come to, however they were edited and however long the
   form stayed open, the server accepts (CreateOrderPage.tsx, createOrder).  *)
CreationSafe ==
    /\ Creation!TypeOK /\ Creation!CreatedIsStored
    /\ Creation!NoDuplicate
    /\ careful => Creation!BusyWhilePending
    /\ Draft!TypeOK /\ Draft!SubmittedIsAcceptable

(* A careful operator's tab gives up the key of an order only when the order is stored; a
   promise of n working days is counted over weekends and holidays; and a first payment
   follows the products it is half of (CreateOrderPage.tsx, DeliveryDateSelect.tsx).  *)
CreationSteps ==
    /\ [][careful => Creation!KeyOutlives]_creationVars
    /\ Draft!PromiseCounted /\ Draft!HalfFollowsProducts

(* Each existing order is registered once; a patient operator's with its own image, the
   one its review showed (HistoricalOrderPage.tsx).  *)
ImportSafe ==
    /\ Import!TypeOK /\ Import!NoDuplicate
    /\ Patient => Import!ReviewedIsStored /\ Import!OwnReceipt

(* The customer's text and receipt are accepted together and what a tab shows as
   registered is what the shop has; in one tab the draft also outlives everything but
   its submission; and the amount and the card offered for a payment belong together
   (PublicOrderPage.tsx).  *)
CustomerSafe ==
    /\ Customer!TypeOK /\ Customer!AcceptedTogether /\ Customer!ShownIsRegistered
    /\ Customer!AmountMatchesCard
    /\ part # "tabs" => Customer!DraftRecovered

(* What the proofs show of the parts together with the properties above. *)
FormsInv ==
    /\ Creation!IInv /\ Draft!TypeOK /\ Draft!SubmittedIsAcceptable
    /\ Import!IInv /\ Customer!IInv
    /\ part # "leaving" => Creation!AloneInv(Alone)
    /\ part # "tabs" => Customer!AloneInv(Alone)

\* An order or its details are being sent: by the page of the behaviour's part, as the
\* others are never open; where there are two tabs they behave alike.
Pending == page[Alone].pending \/ importPage.pending \/ tab[Alone].pending

(* The creation form, the form for existing orders, and the customer's two forms do not
   stay pending and the customer's page does not stay loading, if requests are answered or
   fail (submit, submitDetails, submitFinalReceipt, the loading effect).  *)
FormsEnd ==
    /\ Pending ~> ~Pending
    /\ tab[Alone].finalPending ~> ~tab[Alone].finalPending
    /\ tab[Alone].loading ~> ~tab[Alone].loading
=============================================================================
