-------------------------------- MODULE OrderList --------------------------------
(* The operator's list of orders (OrdersPage.tsx) over the server's search, sort and
   pages (listOrders).  View, search, status and sort live in the address; the search
   that is asked for follows the one in the address a render behind (useDeferredValue).
   Whenever what is asked for changes, the page starts a new list, and answers are
   told apart by the list they were asked for: the code's listRequest.

   Orders are numbers in the order of their creation.  An order's latest change is
   the time on the model's clock, which counts changes.  *)
EXTENDS Naturals, Sequences, FiniteSets, SequencesExt

CONSTANTS
    Orders, ShopOf,   \* the orders, all created, and the shop of each
    Due, Amount,      \* the delivery date and the amount of each
    Texts, Matching,  \* searches, "" for none, and the orders that match each
    Statuses,         \* the statuses in use
    FirstStatus,      \* the status of each when the page opens
    PageSize,         \* 20 in the code
    MaxRequests,      \* bound: lists and pages asked for
    MaxLosses,        \* bound: failed connections
    MaxChanges        \* bound: changes to orders while the page is open

\* What the constants of every instance satisfy.
ListAssumption ==
    /\ Orders \subseteq Nat /\ IsFiniteSet(Orders)
    /\ Due \in [Orders -> Nat] /\ Amount \in [Orders -> Nat] /\ FirstStatus \in [Orders -> Statuses]
    /\ "" \in Texts /\ \A q \in Texts : Matching[q] \subseteq Orders
    /\ Matching[""] = Orders
    /\ PageSize \in Nat \ {0}
    /\ MaxRequests \in Nat \ {0} /\ MaxLosses \in Nat /\ MaxChanges \in Nat

VARIABLES
    status,    \* the orders' statuses
    changed,   \* the times of their latest changes
    clock,     \* changes so far
    address,   \* the address: shop, view, search, status, sort
    deferred,  \* the search that is asked for
    page,      \* the list
    ticket,    \* listRequest
    requests,  \* requests in flight
    sent, lost

vars == <<status, changed, clock, address, deferred, page, ticket, requests, sent, lost>>
server == <<status, changed, clock>>

-----------------------------------------------------------------------------
(* The server *)

ArchiveStatuses == {"shipped", "cancelled"}
Sorts == {"due", "updated", "recent", "amount"}
Shops == {ShopOf[o] : o \in Orders}

InView(o, view) ==
    \/ view = "all"
    \/ view = "active" /\ status[o] \notin ArchiveStatuses
    \/ view = "archive" /\ status[o] \in ArchiveStatuses

Matches(query) ==
    {o \in Matching[query.q] : /\ ShopOf[o] = query.shop /\ InView(o, query.view)
                               /\ query.status \in {"", status[o]}}

\* Whether o comes before p; later orders break ties.
Before(sort, o, p) ==
    LET open(x) == status[x] \notin ArchiveStatuses
    IN IF sort = "due" /\ ~(open(o) <=> open(p)) THEN open(o)
       ELSE IF sort = "due" /\ Due[o] # Due[p] THEN Due[o] < Due[p]
       ELSE IF sort = "updated" /\ changed[o] # changed[p] THEN changed[o] > changed[p]
       ELSE IF sort = "amount" /\ Amount[o] # Amount[p] THEN Amount[o] > Amount[p]
       ELSE o > p

FirstPage(listing) == SubSeq(listing, 1, Min({PageSize, Len(listing)}))

\* Sorted: each order is in the place that as many others come before as there are places.
Listing(query) ==
    LET found == Matches(query)
        before(o) == {p \in found : Before(query.sort, p, o)}
    IN [i \in 1..Cardinality(found) |-> CHOOSE o \in found : Cardinality(before(o)) = i - 1]

ActiveCount(shop) == Cardinality({o \in Orders : ShopOf[o] = shop /\ InView(o, "active")})

-----------------------------------------------------------------------------
(* What the address asks for *)

AllowedSorts(search, view) ==
    IF search # "" THEN Sorts
    ELSE {IF view = "archive" THEN "updated" ELSE "due", "recent", "amount"}

DefaultSort(search, view) == IF search # "" \/ view = "archive" THEN "updated" ELSE "due"

ViewStatuses(view) == IF view = "archive" THEN ArchiveStatuses ELSE Statuses \ ArchiveStatuses

InvalidSort(a) == a.sort # "" /\ a.sort \notin AllowedSorts(a.q, a.view)
InvalidStatus(a) == a.status # "" /\ a.q = "" /\ a.status \notin ViewStatuses(a.view)

QuerySort(a, d) ==
    IF a.sort # "" /\ a.sort \in AllowedSorts(d, a.view) THEN a.sort ELSE DefaultSort(d, a.view)

\* orderQuery
Query(a, d) ==
    [shop |-> a.shop, view |-> IF d # "" THEN "all" ELSE a.view, sort |-> QuerySort(a, d), q |-> d,
     status |-> IF InvalidStatus(a) THEN "" ELSE a.status]

\* What starts a new list: the dependencies of the effect.
Key(a, d) == <<d, QuerySort(a, d), a.shop, a.status, a.view>>

Address == [shop : Shops, view : {"active", "archive"}, q : Texts, status : Statuses \cup {""},
            sort : Sorts \cup {""}]

Queries == [shop : Shops, view : {"all", "active", "archive"}, sort : Sorts, q : Texts,
            status : Statuses \cup {""}]

-----------------------------------------------------------------------------
(* The page *)

\* since: the time of the first answer's request, which the code does not keep.
Page == [orders : Seq(Orders), hasMore : BOOLEAN, count : 0..Cardinality(Orders), loading : BOOLEAN,
         more : BOOLEAN, error : BOOLEAN, since : 0..MaxChanges]
Requests == [id : 1..MaxRequests, kind : {"list", "more"}, ticket : Nat, query : Queries, offset : Nat,
             answer : {"none", "ok", "lost"}, orders : Seq(Orders), hasMore : BOOLEAN,
             count : 0..Cardinality(Orders)]

EmptyList == [orders |-> <<>>, hasMore |-> FALSE, count |-> 0, loading |-> TRUE, more |-> FALSE,
              error |-> FALSE, since |-> clock]

Request(kind, offset) ==
    [id |-> sent + 1, kind |-> kind, ticket |-> ticket', query |-> Query(address', deferred'),
     offset |-> offset, answer |-> "none", orders |-> <<>>, hasMore |-> FALSE, count |-> 0]

\* The page opens on any address.
Init ==
    /\ status = FirstStatus
    /\ changed = [o \in Orders |-> 0] /\ clock = 0
    /\ address \in Address
    /\ deferred = address.q
    /\ page = EmptyList
    /\ ticket = 1
    /\ requests =
          {[id |-> 1, kind |-> "list", ticket |-> 1, query |-> Query(address, deferred), offset |-> 0,
            answer |-> "none", orders |-> <<>>, hasMore |-> FALSE, count |-> 0]}
    /\ sent = 1 /\ lost = 0

\* Variant: the button of the old list stays as it was.
KeepMore == [EmptyList EXCEPT !.more = page.more]

\* The effect empties the page.
NewList == EmptyList

\* A render with another address or another deferred search.  A changed key aborts
\* the list's request and starts a new list.
Show(a, d, reload) ==
    /\ address' = a /\ deferred' = d
    /\ IF Key(a, d) = Key(address, deferred) /\ ~reload
       THEN UNCHANGED <<page, ticket, requests, sent>>
       ELSE /\ sent < MaxRequests
            /\ sent' = sent + 1
            /\ ticket' = ticket + 2
            /\ page' = NewList
            /\ requests' = {r \in requests : r.kind # "list"} \cup {Request("list", 0)}
    /\ UNCHANGED <<server, lost>>

Catch == deferred # address.q /\ Show(address, address.q, FALSE)

\* The effect that takes what does not fit out of the address.
CleanAddress ==
    /\ InvalidSort(address) \/ InvalidStatus(address)
    /\ Show([address EXCEPT !.sort = IF InvalidSort(address) THEN "" ELSE @,
                            !.status = IF InvalidStatus(address) THEN "" ELSE @], deferred, FALSE)

\* setFilter
Search(q) ==
    /\ q # address.q
    /\ LET cleared == [address EXCEPT !.q = ""]
       IN Show(IF q # "" THEN [address EXCEPT !.q = q]
               ELSE [cleared EXCEPT !.status = IF InvalidStatus(cleared) THEN "" ELSE @,
                                    !.sort = IF InvalidSort(cleared) THEN "" ELSE @], deferred, FALSE)

FilterStatus(s) ==
    /\ s = "" \/ address.q # "" \/ s \in ViewStatuses(address.view)
    /\ Show([address EXCEPT !.status = s], deferred, FALSE)

SortBy(sort) ==
    /\ sort \in AllowedSorts(address.q, address.view)
    /\ Show([address EXCEPT !.sort = IF sort = DefaultSort(address.q, address.view) THEN "" ELSE sort],
            deferred, FALSE)

SetView(view) ==
    /\ address.q = ""
    /\ Show([address EXCEPT !.view = view, !.status = "", !.sort = ""], deferred, FALSE)

ClearFilters == Show([address EXCEPT !.q = "", !.status = "", !.sort = ""], deferred, FALSE)

\* AdminApp's changeShop, which goes to the plain address.
ChangeShop(shop) ==
    /\ shop # address.shop
    /\ Show([shop |-> shop, view |-> "active", q |-> "", status |-> "", sort |-> ""], deferred, FALSE)

Retry == page.error /\ ~page.loading /\ Show(address, deferred, TRUE)

\* Variant: pages are counted instead of orders.
OnePage == PageSize

Offset == Len(page.orders)

LoadMore ==
    /\ ~page.loading /\ page.hasMore /\ ~page.more
    /\ sent < MaxRequests
    /\ sent' = sent + 1
    /\ page' = [page EXCEPT !.more = TRUE, !.error = FALSE]
    /\ UNCHANGED <<server, address, deferred, ticket, lost>>
    /\ requests' = requests \cup {Request("more", Offset)}

-----------------------------------------------------------------------------
(* Answers *)

\* One page more than is asked for tells whether there is another.
Serve(r) ==
    /\ r.answer = "none"
    /\ LET listing == Listing(r.query)
           rest == SubSeq(listing, r.offset + 1, Len(listing))
       IN requests' = (requests \ {r}) \cup
             {[r EXCEPT !.answer = "ok", !.orders = FirstPage(rest),
                        !.hasMore = Len(rest) > PageSize, !.count = ActiveCount(r.query.shop)]}
    /\ UNCHANGED <<server, address, deferred, page, ticket, sent, lost>>

Lose(r) ==
    /\ r.answer # "lost" /\ lost < MaxLosses
    /\ lost' = lost + 1
    /\ requests' = (requests \ {r}) \cup {[r EXCEPT !.answer = "lost"]}
    /\ UNCHANGED <<server, address, deferred, page, ticket, sent>>

\* Variant: whatever arrives is shown.
AnyList(r) == TRUE

\* request === listRequest.current
CurrentList(r) == r.ticket = ticket

\* Variant: an error leaves the spinner on.
LoadingUntilListed(r) == r.answer # "ok"

LoadingAfter(r) == FALSE

Receive(r) ==
    /\ r.answer # "none"
    /\ requests' = requests \ {r}
    /\ page' = IF ~CurrentList(r) THEN page
               ELSE IF r.answer = "lost"
               THEN [page EXCEPT !.error = TRUE, !.loading = LoadingAfter(r),
                                 !.more = @ /\ r.kind = "list"]
               ELSE [page EXCEPT !.orders = @ \o r.orders, !.hasMore = r.hasMore, !.count = r.count,
                                 !.loading = LoadingAfter(r), !.more = @ /\ r.kind = "list"]
    /\ UNCHANGED <<server, address, deferred, ticket, sent, lost>>

\* Somebody changes an order.
Change(o, s) ==
    /\ clock < MaxChanges /\ s # status[o]
    /\ clock' = clock + 1
    /\ status' = [status EXCEPT ![o] = s]
    /\ changed' = [changed EXCEPT ![o] = clock + 1]
    /\ UNCHANGED <<address, deferred, page, ticket, requests, sent, lost>>

-----------------------------------------------------------------------------

Next ==
    \/ Catch \/ CleanAddress \/ ClearFilters \/ Retry \/ LoadMore
    \/ \E q \in Texts : Search(q)
    \/ \E s \in Statuses \cup {""} : FilterStatus(s)
    \/ \E sort \in Sorts : SortBy(sort)
    \/ \E view \in {"active", "archive"} : SetView(view)
    \/ \E shop \in Shops : ChangeShop(shop)
    \/ \E o \in Orders, s \in Statuses : Change(o, s)
    \/ \E r \in requests : Serve(r) \/ Lose(r) \/ Receive(r)

Spec == Init /\ [][Next]_vars

\* Requests are answered or fail, and the page handles what comes.
Fairness ==
    /\ WF_vars(\E r \in requests : Serve(r)) /\ WF_vars(\E r \in requests : Receive(r))

FairSpec == Spec /\ Fairness

-----------------------------------------------------------------------------
(* Properties *)

TypeOK ==
    /\ status \in [Orders -> Statuses] /\ changed \in [Orders -> 0..MaxChanges]
    /\ clock \in 0..MaxChanges
    /\ address \in Address /\ deferred \in Texts
    /\ page \in Page /\ Len(page.orders) <= Cardinality(Orders)
    /\ page.more => page.hasMore /\ ~page.loading
    /\ ticket \in Nat /\ requests \subseteq Requests
    /\ \A r \in requests : r.ticket <= ticket /\ r.id <= sent
    /\ sent \in 0..MaxRequests /\ lost \in 0..MaxLosses

Shown == ~page.loading /\ ~page.error
Settled == deferred = address.q /\ ~InvalidSort(address) /\ ~InvalidStatus(address)

\* While no order changes, the page shows the first orders of the one listing that the
\* address asks for, each once and in order, offers more exactly when there is more,
\* and counts the shop's active orders: however requests cross with typing, filters,
\* views, shops and pages (listRequest, the effect's abort, orderQuery).
ListExact ==
    clock = 0 /\ Shown /\ Settled =>
      LET listing == Listing(Query(address, deferred))
      IN /\ IsPrefix(page.orders, listing)
         /\ page.hasMore <=> Len(page.orders) < Len(listing)
         /\ page.count = ActiveCount(address.shop)

\* An order that matches and did not change is on the list once all pages are shown.
NothingSkipped ==
    Shown /\ Settled /\ ~page.hasMore =>
      \A o \in Matches(Query(address, deferred)) :
         changed[o] <= page.since => \E i \in DOMAIN page.orders : page.orders[i] = o

\* A list is loaded or fails, and so is a further page, whatever is asked for meanwhile.
LoadingEnds == page.loading ~> ~page.loading
MoreEnds == page.more ~> ~page.more
-----------------------------------------------------------------------------
(* What the proofs show together with ListExact *)

\* The query of a list that is asked for now, while the status is one of the view.
Asked == [Query(address, deferred) EXCEPT !.status = address.status]

\* A search is cleared together with a status that is not of the view.
Cleared(a, d) == a.q = "" /\ d # "" => ~InvalidStatus(a)

Steady == deferred # "" \/ address.status \in ViewStatuses(address.view) \cup {""}

\* What listOrders answers.
AnswerFits(r) ==
    LET listing == Listing(r.query)
        rest == SubSeq(listing, r.offset + 1, Len(listing))
    IN /\ r.orders = FirstPage(rest) /\ r.count = ActiveCount(r.query.shop)
       /\ r.hasMore <=> Len(rest) > PageSize

\* Requests that can be in flight.
RequestFits(r) ==
    /\ Len(r.orders) = 0 \/ r.offset + Len(r.orders) <= Cardinality(Orders)
    /\ clock = 0 /\ r.answer = "ok" => AnswerFits(r)

\* The page and the requests of its list: one at most, the one the page waits for.
Awaited ==
    /\ \A r, s \in requests : r.ticket = ticket /\ s.ticket = ticket => r = s
    /\ \A r \in requests : r.ticket = ticket =>
          /\ r.kind = "list" => page.loading /\ r.offset = 0
          /\ r.kind = "more" => page.more /\ r.offset = Len(page.orders)
          /\ Steady => r.query = Asked
    /\ page.loading => page.orders = <<>> /\ ~page.hasMore

\* What a page shows that has its list.
PageFits ==
    clock = 0 /\ Steady /\ ~page.loading /\ (page.error => page.hasMore) =>
      LET listing == Listing(Asked)
      IN /\ Len(page.orders) <= Len(listing)
         /\ page.orders = SubSeq(listing, 1, Len(page.orders))
         /\ page.hasMore <=> Len(page.orders) < Len(listing)
         /\ page.count = ActiveCount(address.shop)

IInv ==
    /\ TypeOK /\ \A r \in requests : RequestFits(r)
    /\ Cleared(address, deferred) /\ Awaited /\ PageFits

=============================================================================
