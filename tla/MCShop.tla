--------------------------------- MODULE MCShop ---------------------------------
(* A shop's settings and products: three requests that change its two cards
   (PaymentCards, the server alone); an admin of two shops in the browser
   (AdminSession); and the pages of a catalogue of two products, one of them archived
   (ProductPages), with an operator who waits for what a page has sent and changes the
   list, or with one who does not and works on images.  A behaviour is of one part; the
   others never begin.  *)
EXTENDS PaymentCards, Sequences

CONSTANTS
    Admins, Shops, ShopsOf, Cards, MaxRequests, MaxLogins,
    FirstRows, MaxProducts, ProductTexts, Files, Broken,
    MaxAsked, MaxLosses, MaxRefusals, MaxVisits,
    FewFiles,  \* bound: the files an operator who waits chooses
    FewAsked,  \* bound: requests after which one who does not wait opens and asks no more
    soap, candle, photo

VARIABLES
    part,  \* "cards", "session" or "products"
    row, owner, live, cookie, session, route, shopID, page, requests, sent, diverged,
    patient, rows, tab, asked, askedSoFar, lost, refused, visits

sessionVars ==
    <<row, owner, live, cookie, session, route, shopID, page, requests, sent, diverged>>

productVars == <<patient, rows, tab, asked, askedSoFar, lost, refused, visits>>

Session == INSTANCE AdminSession

Products ==
    INSTANCE ProductPages WITH
        Texts <- ProductTexts, MaxRequests <- MaxAsked, requests <- asked, sent <- askedSoFar

\* The values of the cfg that are not sets of model values.
EveryShop == [x \in Admins |-> Shops]

OneArchived ==
    <<[text |-> soap, image |-> photo, active |-> TRUE],
      [text |-> candle, image |-> photo, active |-> FALSE]>>

ASSUME ShopAssumption == Session!SessionAssumption /\ Products!ProductAssumption

MCInit ==
    /\ part \in {"cards", "session", "products"}
    /\ Init /\ Session!Init /\ Products!Init
    /\ part # "products" => patient

\* Who waits works on the list, with connections that hold; who does not, on images, in
\* a shop that stays active.
FewEdits ==
    IF patient THEN tab'.source \in FewFiles \cup {None}
    ELSE askedSoFar' > askedSoFar \/ visits' > visits => askedSoFar < FewAsked

FewFailures == IF patient THEN lost' = lost ELSE refused' = refused

MCNext ==
    \/ part = "cards" /\ Next /\ UNCHANGED <<part, sessionVars, productVars>>
    \/ part = "session" /\ Session!Next /\ UNCHANGED <<part, vars, productVars>>
    \/ /\ part = "products"
       /\ (Products!Operate /\ FewEdits) \/ (Products!Proceed /\ FewFailures)
       /\ UNCHANGED <<part, vars, sessionVars>>

MCSpec ==
    /\ MCInit /\ [][MCNext]_<<part, vars, sessionVars, productVars>>
    /\ Session!Fairness /\ Products!Fairness

-----------------------------------------------------------------------------

(* Whatever overlaps, the copy of a shop shows nothing of another shop and its active card
   has a text; it is what the database has when every request has been answered, none
   overlapped and no answer was lost.  The mounted page has at most one change of a card
   or of the contacts in flight, whose spinner turns, and no other spinner without a
   request behind it (AdminApp.tsx, AccountPage.tsx).  *)
SessionAgrees ==
    Session!TypeOK /\ Session!CopyIsOwn /\ Session!CopyCurrent /\ Session!PageBusy

(* Once nothing is under way the list of products is the catalogue, if the operator
   waits; and a form sends the image the operator settled on (ProductsPage.tsx,
   ProductFormPage.tsx).  *)
CatalogueAgrees == Products!TypeOK /\ Products!ListIsCatalogue /\ Products!SentIsWanted

\* Only the page of the behaviour's part is ever busy.
Loading == (session.state = "loading" /\ route = "private") \/ tab.loading
Working == tab.pending \/ tab.working # None

(* Who waits on a private page for the session to be checked gets an answer, or leaves;
   a page of products stops loading, its form stops saving and its crops end, if
   requests are answered or fail (App.tsx, submit, finishCrop).  *)
ShopPagesEnd == (Loading ~> ~Loading) /\ (Working ~> ~Working)
=============================================================================
