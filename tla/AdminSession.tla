------------------------------ MODULE AdminSession ------------------------------
(* The session the browser keeps and the settings page that edits it.  App.tsx
   holds one of three states, "loading", "guest" or "ready" with `me`: the
   admin and a copy of each of the admin's shops.  The settings of a shop
   (AccountPage.tsx) are sent one by one; each answer is merged into the copy of
   the shop and the `me` that the page had when the button was pressed, which
   the handlers close over.  Answers outlive the page that asked for them.

   A card is there once its text is: text[c] is the number of the request that
   last wrote the IBAN and instructions of card c, 0 if there is no such card. *)
EXTENDS Naturals

CONSTANTS
    Admins,
    Shops,
    ShopsOf,      \* admin_shops: the shops of each admin
    Cards,        \* card numbers
    None,
    MaxRequests,  \* bound: requests the tab sends
    MaxLogins     \* bound: logins

\* What the constants of every instance satisfy.
SessionAssumption ==
    /\ ShopsOf \in [Admins -> (SUBSET Shops) \ {{}}]
    /\ None \notin Admins \cup Shops
    /\ MaxRequests \in Nat /\ MaxLogins \in Nat

VARIABLES
    row,       \* what the database has of each shop
    owner,     \* the admins of the logins so far
    live,      \* the logins whose session row exists
    cookie,    \* the login the browser's cookie names, 0 without a cookie
    session,   \* App.tsx: [state, me]
    route,     \* "public" (landing and customer pages), "private" or "account"
    shopID,    \* the shop chosen in the switcher, kept in localStorage
    page,      \* the account page: mount number (0: not mounted) and its flags
    requests,  \* requests in flight
    sent,      \* requests sent so far
    diverged   \* two requests overlapped, or an answer was lost; the code keeps no such flag

server == <<row, owner, live>>
vars == <<row, owner, live, cookie, session, route, shopID, page, requests, sent, diverged>>

-----------------------------------------------------------------------------
(* Data *)

ShopCopy == [text : [Cards -> 0..MaxRequests], active : Cards \cup {None},
             logo : 0..MaxRequests, support : 0..MaxRequests]

Me == UNION {[admin : {a}, shops : [ShopsOf[a] -> ShopCopy]] : a \in Admins}

CardKinds == {"add", "edit", "activate"}
SettingKinds == CardKinds \cup {"support", "logo"}
Kinds == SettingKinds \cup {"me", "enter", "logout"}

Request == [n : 1..MaxRequests, kind : Kinds, session : 0..MaxLogins,
            shop : Shops \cup {None}, card : Cards \cup {None},
            me : Me \cup {None}, page : 0..MaxRequests + 1,
            answer : {"none", "ok", "refused", "unauthorized", "lost"},
            told : Me \cup {None}]

Fresh(n) == [n |-> n, cardPending |-> FALSE, saving |-> FALSE,
             logoSaving |-> FALSE, leaving |-> FALSE]

\* How the database's rows are read for /api/me.
MeOf(a) == [admin |-> a, shops |-> [s \in ShopsOf[a] |-> row[s]]]

\* selected: the chosen shop, or the first one if it is not among the admin's.
Selected(me) ==
    IF shopID \in ShopsOf[me.admin] THEN shopID
    ELSE CHOOSE s \in ShopsOf[me.admin] : TRUE

Guest == [state |-> "guest", me |-> None]
Ready(me) == [state |-> "ready", me |-> me]

Init ==
    /\ row = [s \in Shops |-> [text |-> [c \in Cards |-> 0], active |-> None,
                               logo |-> 0, support |-> 0]]
    /\ owner = [n \in 1..MaxLogins |-> None]
    /\ live = {}
    /\ cookie = 0
    /\ session = [state |-> "loading", me |-> None]
    /\ route = "public"
    /\ shopID = None
    /\ page = Fresh(0)
    /\ requests = {}
    /\ sent = 0
    /\ diverged = FALSE

\* The tab sends a request with its cookie; the handler keeps its `me`.
Send(kind, shop, card, login, others) ==
    /\ sent < MaxRequests
    /\ sent' = sent + 1
    /\ requests' = others \cup
          {[n |-> sent + 1, kind |-> kind, session |-> login, shop |-> shop, card |-> card,
            me |-> session.me, page |-> page.n, answer |-> "none", told |-> None]}
    /\ diverged' = (diverged \/ others # {})

-----------------------------------------------------------------------------
(* Routes: App.tsx and AdminApp.tsx *)

\* The effect of a private route: ask who is logged in.
Visit ==
    /\ route = "public"
    /\ route' = "private"
    /\ Send("me", None, None, cookie, requests)
    /\ UNCHANGED <<server, cookie, session, shopID, page>>

\* Its clean-up aborts the question; the session state stays as it is.
LeaveSite ==
    /\ route # "public"
    /\ route' = "public"
    /\ requests' = {r \in requests : r.kind # "me"}
    /\ page' = Fresh(0)
    /\ UNCHANGED <<server, cookie, session, shopID, sent, diverged>>

\* LoginPage: a login creates a session and its cookie, then /api/me is asked.
LogIn(a) ==
    /\ route = "private" /\ session.state = "guest"
    /\ \E n \in 1..MaxLogins :
          /\ owner[n] = None /\ \A k \in 1..MaxLogins : k < n => owner[k] # None
          /\ owner' = [owner EXCEPT ![n] = a]
          /\ live' = live \cup {n}
          /\ cookie' = n
          /\ Send("enter", None, None, n, requests)
    /\ UNCHANGED <<row, session, route, shopID, page>>

\* The server forgets a session at its end of life.
Expire(n) ==
    /\ n \in live
    /\ live' = live \ {n}
    /\ UNCHANGED <<row, owner, cookie, session, route, shopID, page, requests, sent, diverged>>

OpenAccount ==
    /\ route = "private" /\ session.state = "ready"
    /\ route' = "account"
    /\ page' = Fresh(sent + 1)
    /\ UNCHANGED <<server, cookie, session, shopID, requests, sent, diverged>>

LeaveAccount ==
    /\ route = "account"
    /\ route' = "private"
    /\ page' = Fresh(0)
    /\ UNCHANGED <<server, cookie, session, shopID, requests, sent, diverged>>

\* changeShop: the choice is stored and the page is left.
ChangeShop(s) ==
    /\ route # "public" /\ session.state = "ready"
    /\ s \in ShopsOf[session.me.admin] /\ s # Selected(session.me)
    /\ shopID' = s
    /\ route' = "private"
    /\ page' = Fresh(0)
    /\ UNCHANGED <<server, cookie, session, requests, sent, diverged>>

-----------------------------------------------------------------------------
(* The account page: one action per button *)

\* Variant: the card buttons ignore one another.
NeverBusy == FALSE

\* cardPending || saving
Busy == page.cardPending \/ page.saving

\* The shop as the page shows it.
Shown == session.me.shops[Selected(session.me)]

SendSetting(kind, card) ==
    /\ route = "account"
    /\ Send(kind, Selected(session.me), card, cookie, requests)
    /\ UNCHANGED <<server, cookie, session, route, shopID>>

AddPaymentCard(c) ==
    /\ ~Busy
    /\ page' = [page EXCEPT !.cardPending = TRUE]
    /\ SendSetting("add", c)

SavePaymentCard(c) ==
    /\ ~Busy
    /\ session.state = "ready" /\ Shown.text[c] # 0
    /\ page' = [page EXCEPT !.cardPending = TRUE]
    /\ SendSetting("edit", c)

ActivateCard(c) ==
    /\ ~Busy
    /\ session.state = "ready" /\ Shown.text[c] # 0 /\ Shown.active # c
    /\ page' = [page EXCEPT !.cardPending = TRUE]
    /\ SendSetting("activate", c)

SaveSupport ==
    /\ ~Busy
    /\ page' = [page EXCEPT !.saving = TRUE]
    /\ SendSetting("support", None)

SaveLogo ==
    /\ ~Busy /\ ~page.logoSaving
    /\ page' = [page EXCEPT !.logoSaving = TRUE]
    /\ SendSetting("logo", None)

LogOut ==
    /\ ~page.leaving
    /\ page' = [page EXCEPT !.leaving = TRUE]
    /\ SendSetting("logout", None)

-----------------------------------------------------------------------------
(* The server: each handler is one transaction (PaymentCards has their steps) *)

\* What a granted request makes of the page's copy of the shop.
ShopWith(shop, r) ==
    CASE r.kind = "add"      -> [shop EXCEPT !.text[r.card] = r.n]
      [] r.kind = "edit"     -> [shop EXCEPT !.text[r.card] = IF @ = 0 THEN 0 ELSE r.n]
      [] r.kind = "activate" -> [shop EXCEPT !.active = IF shop.text[r.card] = 0 THEN None
                                                        ELSE r.card]
      [] r.kind = "support"  -> [shop EXCEPT !.support = r.n]
      [] r.kind = "logo"     -> [shop EXCEPT !.logo = r.n]

\* The row a granted request leaves.
RowWith(shop, r) ==
    CASE r.kind \in {"add", "edit"} -> [shop EXCEPT !.text[r.card] = r.n]
      [] r.kind = "activate"        -> [shop EXCEPT !.active = r.card]
      [] r.kind = "support"         -> [shop EXCEPT !.support = r.n]
      [] r.kind = "logo"            -> [shop EXCEPT !.logo = r.n]

\* A number can be added once, and only an existing card changed.
Grantable(r) ==
    /\ r.shop \in ShopsOf[owner[r.session]]
    /\ r.kind = "add" => row[r.shop].text[r.card] = 0
    /\ r.kind \in {"edit", "activate"} => row[r.shop].text[r.card] # 0

Answer(r, answer, told) ==
    requests' = (requests \ {r}) \cup {[r EXCEPT !.answer = answer, !.told = told]}

Handle(r) ==
    /\ r.answer = "none"
    /\ \/ /\ r.kind = "logout"
          /\ live' = live \ {r.session}
          /\ Answer(r, "ok", None)
          /\ UNCHANGED row
       \/ /\ r.kind # "logout" /\ r.session \notin live
          /\ Answer(r, "unauthorized", None)
          /\ UNCHANGED <<row, live>>
       \/ /\ r.kind \in {"me", "enter"} /\ r.session \in live
          /\ Answer(r, "ok", MeOf(owner[r.session]))
          /\ UNCHANGED <<row, live>>
       \/ /\ r.kind \in SettingKinds /\ r.session \in live
          /\ IF Grantable(r)
             THEN /\ row' = [row EXCEPT ![r.shop] = RowWith(@, r)]
                  /\ Answer(r, "ok", None)
             ELSE /\ Answer(r, "refused", None)
                  /\ UNCHANGED row
          /\ UNCHANGED live
    /\ UNCHANGED <<owner, cookie, session, route, shopID, page, sent, diverged>>

\* The connection fails before or after the server has done its part.
Lose(r) ==
    /\ r.answer # "lost"
    /\ Answer(r, "lost", None)
    /\ diverged' = (diverged \/ r.answer = "ok")
    /\ UNCHANGED <<server, cookie, session, route, shopID, page, sent>>

-----------------------------------------------------------------------------
(* Answers *)

\* The finally of each handler, if the page that sent r is still mounted.
Finished(r) ==
    IF r.page # page.n THEN page
    ELSE [page EXCEPT
             !.cardPending = @ /\ r.kind \notin CardKinds,
             !.saving = @ /\ r.kind # "support",
             !.logoSaving = @ /\ r.kind # "logo",
             !.leaving = @ /\ r.kind # "logout"]

\* The session becomes ready.  If the shown shop changes under the account page,
\* its effect resets the logo form.
Enter(me, r) ==
    /\ session' = Ready(me)
    /\ page' = IF session.state = "ready" /\ Selected(me) # Selected(session.me)
               THEN [Finished(r) EXCEPT !.logoSaving = FALSE]
               ELSE Finished(r)
    /\ UNCHANGED route

\* Variant: the session ends but the page stays.
BecomeGuestInPlace == session' = Guest /\ UNCHANGED <<page, route>>

\* Variant: a failed check leaves the loading screen.
BecomeGuestLater ==
    /\ session' = IF session.state = "ready" THEN Guest ELSE session
    /\ page' = Fresh(0)
    /\ route' = IF route = "public" THEN route ELSE "private"

\* The private pages give way to the login page.
BecomeGuest ==
    /\ session' = Guest
    /\ page' = Fresh(0)
    /\ route' = IF route = "public" THEN route ELSE "private"

\* Variant: the answer is merged into the shop that is chosen when it comes.
MergedIntoChosen(r) ==
    LET me == IF session.state = "ready" THEN session.me ELSE r.me
    IN [me EXCEPT !.shops[Selected(me)] = ShopWith(@, r)]

\* onShopUpdated({...shop, ...}): both `shop` and `me` are those of the sender.
Merged(r) == [r.me EXCEPT !.shops[r.shop] = ShopWith(@, r)]

Deliver(r) ==
    /\ r.answer # "none"
    /\ requests' = requests \ {r}
    /\ \/ /\ r.answer = "ok" /\ r.kind \in {"me", "enter"}
          /\ Enter(r.told, r)
          /\ UNCHANGED cookie
       \/ /\ r.answer = "ok" /\ r.kind \in SettingKinds
          /\ Enter(Merged(r), r)
          /\ UNCHANGED cookie
       \/ /\ r.answer = "ok" /\ r.kind = "logout"
          /\ BecomeGuest
          /\ cookie' = 0
       \/ /\ r.answer = "unauthorized"  \* the answer also clears the cookie
          /\ cookie' = 0
          /\ IF route = "public" THEN page' = Finished(r) /\ UNCHANGED <<session, route>>
             ELSE BecomeGuest
       \/ /\ r.answer \in {"refused", "lost"} /\ r.kind = "me"
          /\ BecomeGuest
          /\ UNCHANGED cookie
       \/ /\ r.answer \in {"refused", "lost"} /\ r.kind # "me"
          /\ page' = Finished(r)
          /\ UNCHANGED <<cookie, session, route>>
    /\ UNCHANGED <<server, shopID, sent, diverged>>

-----------------------------------------------------------------------------

Page ==
    \/ \E c \in Cards : AddPaymentCard(c) \/ SavePaymentCard(c) \/ ActivateCard(c)
    \/ SaveSupport \/ SaveLogo \/ LogOut

Next ==
    \/ Visit \/ LeaveSite \/ OpenAccount \/ LeaveAccount
    \/ \E a \in Admins : LogIn(a)
    \/ \E n \in 1..MaxLogins : Expire(n)
    \/ \E s \in Shops : ChangeShop(s)
    \/ Page
    \/ \E r \in requests : Handle(r) \/ Lose(r) \/ Deliver(r)

\* Every request is answered or fails, and its answer runs.
Fairness ==
    \A n \in 1..MaxRequests :
        /\ WF_vars(\E r \in requests : r.n = n /\ (Handle(r) \/ Lose(r)))
        /\ WF_vars(\E r \in requests : r.n = n /\ Deliver(r))

Spec == Init /\ [][Next]_vars
FairSpec == Spec /\ Fairness

-----------------------------------------------------------------------------
(* Properties *)

TypeOK ==
    /\ row \in [Shops -> ShopCopy]
    /\ owner \in [1..MaxLogins -> Admins \cup {None}]
    /\ live \subseteq {n \in 1..MaxLogins : owner[n] # None}
    /\ cookie \in 0..MaxLogins
    /\ \/ session.state \in {"loading", "guest"} /\ session.me = None
       \/ session.state = "ready" /\ session.me \in Me
    /\ route \in {"public", "private", "account"}
    /\ route = "account" => session.state = "ready" /\ page.n # 0
    /\ shopID \in Shops \cup {None}
    /\ page \in [n : 0..MaxRequests + 1, cardPending : BOOLEAN, saving : BOOLEAN,
                 logoSaving : BOOLEAN, leaving : BOOLEAN]
    /\ requests \subseteq Request
    /\ sent \in 0..MaxRequests
    /\ diverged \in BOOLEAN

\* When every request has been answered, none overlapped and no answer was lost,
\* the copies the operator sees are the shops the database has: the merges of
\* the five settings handlers (AccountPage.tsx) do to the copy what the server
\* has done to the row.
CopyCurrent ==
    session.state = "ready" /\ requests = {} /\ ~diverged =>
        session.me = MeOf(session.me.admin)

\* The numbers of the requests whose settings a shop's row or copy shows.
Origins(shop) == ({shop.text[c] : c \in Cards} \cup {shop.logo, shop.support}) \ {0}

\* Whatever overlaps or is lost, and whatever shop is chosen meanwhile: the copy of a
\* shop shows nothing that was written to another shop's row, and its active card has a
\* text (onShopUpdated and the activation in AccountPage.tsx, which merge late answers
\* into the shop and the `me` of their sender).
CopyIsOwn ==
    session.state = "ready" =>
        \A s \in ShopsOf[session.me.admin] :
            LET copy == session.me.shops[s]
            IN /\ copy.active # None => copy.text[copy.active] # 0
               /\ \A t \in Shops \ {s} : Origins(copy) \cap Origins(row[t]) = {}

\* The mounted page has at most one card or contact change in flight; their two
\* spinners turn while it is, and no other spinner turns without a request behind
\* it (the guards and the finally of each handler, across page changes and the effect
\* on shop.id).
PageBusy ==
    route = "account" =>
        LET mine(K) == {r \in requests : r.page = page.n /\ r.kind \in K}
            has(K) == mine(K) # {}
        IN /\ \A q, r \in mine(CardKinds \cup {"support"}) : q = r
           /\ page.cardPending <=> has(CardKinds)
           /\ page.saving <=> has({"support"})
           /\ page.logoSaving => has({"logo"})
           /\ page.leaving => has({"logout"})

\* What a request carries, and is told, is of the admin and the page that sent it.
RequestFits(r) ==
    /\ r.kind \in SettingKinds => r.me \in Me /\ r.shop \in ShopsOf[r.me.admin]
    /\ r.kind \in CardKinds => r.card \in Cards
    /\ r.answer = "ok" /\ r.kind \in {"me", "enter"} => r.told \in Me
    /\ r.page <= sent

\* A copy of shop s, where of[n] is the shop that request n was for.
Belongs(copy, s, of) ==
    /\ copy.active # None => copy.text[copy.active] # 0
    /\ \A n \in Origins(copy) : n \in DOMAIN of /\ of[n] = s

AllBelong(me, of) == \A s \in ShopsOf[me.admin] : Belongs(me.shops[s], s, of)

\* The rows, the session and what is in flight agree on the shop of each request so far.
Attributed ==
    \E of \in [1..sent -> Shops \cup {None}] :
        /\ \A s \in Shops : Belongs(row[s], s, of)
        /\ session.state = "ready" => AllBelong(session.me, of)
        /\ \A r \in requests :
              /\ r.n \in DOMAIN of /\ of[r.n] = r.shop
              /\ r.kind \in SettingKinds => AllBelong(r.me, of)
              /\ r.answer = "ok" /\ r.kind \in {"me", "enter"} => AllBelong(r.told, of)

\* Request r has changed a row, and the copy has not followed yet.
Written(r) == r.kind \in SettingKinds /\ r.answer = "ok"

\* What the session becomes, or is about to become, is what the database has.
Current(r) ==
    /\ r.kind \in SettingKinds => session.state = "ready" /\ session.me = r.me
    /\ Written(r) => Merged(r) = MeOf(r.me.admin)
    /\ r.answer = "ok" /\ r.kind \in {"me", "enter"} => r.told = MeOf(r.told.admin)

\* As long as nothing overlapped and no answer was lost there is one request at a time,
\* and the copy differs from the rows only by what that request has changed.
OneAtATime ==
    ~diverged =>
        /\ \A q, r \in requests : q = r
        /\ \A r \in requests : Current(r)
        /\ session.state = "ready" /\ (\A r \in requests : ~Written(r)) =>
              session.me = MeOf(session.me.admin)

IInv ==
    /\ TypeOK
    /\ page.n <= sent + 1
    /\ \A r \in requests : RequestFits(r)
    /\ PageBusy
    /\ OneAtATime
    /\ Attributed

\* Who waits on a private page for the session to be checked gets an answer, or
\* leaves.
LoadingEnds ==
    session.state = "loading" /\ route = "private" ~>
        session.state # "loading" \/ route = "public"

\* A tab that shows the login page shows private pages again only for the admin
\* of the session its cookie names.
LogoutIsFinal ==
    [][session.state = "guest" /\ session'.state = "ready" =>
          cookie # 0 /\ owner[cookie] = session'.me.admin]_vars
=============================================================================
