------------------------------ MODULE MCOrderPages ------------------------------
(* The pages orders are worked on from: the page of an order (OrderWorkbench) in several
   settings: two orders and an operator who stays while one is saved, or who does not, and
   one split order from its creation to its final payment; the list (OrderList); and the
   report (ShopReport).  A behaviour is of one part; the others never begin.  *)
EXTENDS Naturals

CONSTANTS
    None,
    Settings,  \* of the page of an order: what its constants are
    Listed, ShopOf, Due, ListAmount, Texts, Matching, ListStatuses, FirstListed, PageSize,
    Reported, Amount, Products, Quantity, FirstReported, TopLimit,
    ListRequests, ListLosses, ListChanges, ReportChanges, ReportLosses, ReportVisits, \* bounds
    a, b       \* two orders, or two shops

VARIABLES
    part,  \* the part of a setting, "list" or "report"
    row, page, clipboard, requests, warned, early, sent, lost, others, visits,
    status, changed, clock, address, deferred, list, ticket, listRequests, listSent, listLost,
    reported, report, reportRequests, changes, reportLost, reportVisits

orderVars == <<row, page, clipboard, requests, warned, early, sent, lost, others, visits>>

listVars ==
    <<status, changed, clock, address, deferred, list, ticket, listRequests, listSent, listLost>>

reportVars == <<reported, report, reportRequests, changes, reportLost, reportVisits>>

Bench(c) ==
    INSTANCE OrderWorkbench WITH
        Orders <- c.orders, Split <- c.split, Imported <- c.imported,
        Statuses <- c.statuses, Sections <- c.sections, Versions <- c.versions,
        Patient <- c.patient, MaxRequests <- c.requests, MaxLosses <- c.losses,
        MaxOthers <- c.others, MaxVisits <- c.visits

List ==
    INSTANCE OrderList WITH
        Orders <- Listed, Amount <- ListAmount, Statuses <- ListStatuses, FirstStatus <- FirstListed,
        MaxRequests <- ListRequests, MaxLosses <- ListLosses, MaxChanges <- ListChanges,
        page <- list, requests <- listRequests, sent <- listSent, lost <- listLost

Report ==
    INSTANCE ShopReport WITH
        Orders <- Reported, FirstStatus <- FirstReported,
        MaxChanges <- ReportChanges, MaxLosses <- ReportLosses, MaxVisits <- ReportVisits,
        status <- reported, page <- report, requests <- reportRequests,
        lost <- reportLost, visits <- reportVisits

\* Order a is paid in two stages; order b was imported, paid and without a receipt.
Staying ==
    [part |-> "staying", orders |-> {a, b}, split |-> {a}, imported |-> {b},
     statuses |-> {"waiting_info", "waiting_payment", "paid"}, sections |-> {"customer"},
     versions |-> {0, 1}, patient |-> TRUE, requests |-> 3, losses |-> 1, others |-> 1, visits |-> 2]

Leaving == [Staying EXCEPT !.part = "leaving", !.patient = FALSE, !.others = 0]

Final ==
    [part |-> "final", orders |-> {a}, split |-> {a}, imported |-> {},
     statuses |-> {"waiting_info", "waiting_payment", "paid", "shipped"}, sections |-> {},
     versions |-> {0}, patient |-> FALSE, requests |-> 4, losses |-> 0, others |-> 3, visits |-> 1]

StayingLeavingFinal == {Staying, Leaving, Final}

\* Four orders; the last is another shop's; two of the others match "x".
LastElsewhere == [o \in 1..4 |-> IF o = 4 THEN b ELSE a]
Alternating == [o \in 1..4 |-> o % 2]
SecondMost == <<8, 10, 5, 8>>
TwoMatch == [q \in {"", "x"} |-> IF q = "" THEN 1..4 ELSE {o \in 1..4 : o % 3 # 1}]
FirstShipped == [o \in 1..4 |-> IF o = 1 THEN "shipped" ELSE "paid"]

\* Three orders of three products, one of them not yet created.
Amounts == <<10, 5, 8>>
Quantities == <<<<1, 2, 0>>, <<2, 0, 1>>, <<0, 1, 3>>>>  \* of each product
LastAbsent == <<"paid", "waiting_info", "absent">>

ASSUME PagesAssumption ==
    /\ \A c \in Settings : Bench(c)!WorkbenchAssumption
    /\ \A c, d \in Settings : c.part = d.part => c = d
    /\ \A c \in Settings : c.part \notin {"list", "report"}
    /\ List!ListAssumption /\ Report!ReportAssumption

Unopened == [loading |-> FALSE, more |-> FALSE]

NoOrder ==
    /\ row = None /\ page = [loading |-> FALSE, saving |-> None] /\ clipboard = None
    /\ requests = {} /\ warned = {} /\ early = {}
    /\ sent = 0 /\ lost = 0 /\ others = 0 /\ visits = 0

NoList ==
    /\ status = None /\ changed = None /\ clock = 0 /\ address = None /\ deferred = None
    /\ list = Unopened /\ ticket = 0 /\ listRequests = {} /\ listSent = 0 /\ listLost = 0

NoReport ==
    /\ reported = None /\ report = Unopened /\ reportRequests = {}
    /\ changes = 0 /\ reportLost = 0 /\ reportVisits = 0

MCInit ==
    /\ \/ \E c \in Settings : part = c.part /\ Bench(c)!Init
       \/ part \in {"list", "report"} /\ NoOrder
    /\ IF part = "list" THEN List!Init ELSE NoList
    /\ IF part = "report" THEN Report!Init ELSE NoReport

MCNext ==
    \/ \E c \in Settings :
          part = c.part /\ Bench(c)!Next /\ UNCHANGED <<part, listVars, reportVars>>
    \/ part = "list" /\ List!Next /\ UNCHANGED <<part, orderVars, reportVars>>
    \/ part = "report" /\ Report!Next /\ UNCHANGED <<part, orderVars, listVars>>

\* Requests of the page of an order are answered or fail, and it handles what comes.
WorkbenchFairness ==
    /\ WF_orderVars(\E c \in Settings, r \in requests : part = c.part /\ Bench(c)!Serve(r))
    /\ WF_orderVars(\E c \in Settings, r \in requests :
          part = c.part /\ (Bench(c)!LoadEnds(r) \/ Bench(c)!SaveEnds(r)))

MCSpec ==
    /\ MCInit /\ [][MCNext]_<<part, orderVars, listVars, reportVars>>
    /\ WorkbenchFairness /\ List!Fairness /\ Report!Fairness

-----------------------------------------------------------------------------

(* The page of an order has one change under way at most, whatever order it shows
   meanwhile; if the operator stays while a change is saved it holds the record, the link
   and the fields of the order of its route; shipping before the final payment is warned
   about, although the page may be behind; and what is offered on a current record is what
   the server grants (AdminOrderPage.tsx).  *)
WorkbenchSafe ==
    \A c \in Settings :
       part = c.part =>
          /\ Bench(c)!TypeOK /\ Bench(c)!SavingMatches
          /\ c.patient => Bench(c)!RecordIsOwn
          /\ Bench(c)!ShippedIsWarned /\ Bench(c)!OfferedIsGranted

(* The list shows the first orders of the one listing that is asked for; the parts of a
   report differ by no more than what changed while it was gathered, and its products
   are the best of one moment (OrdersPage.tsx, listOrders; ReportPage.tsx, shopReport).  *)
ViewsExact ==
    /\ part = "list" => List!TypeOK /\ List!ListExact
    /\ part = "report" => Report!TypeOK /\ Report!PartsDriftApart /\ Report!TopIsBest

(* What the proofs show of the parts together with the properties above. *)
PagesInv ==
    /\ \A c \in Settings : part = c.part => Bench(c)!IInv
    /\ part = "list" => List!IInv
    /\ part = "report" => Report!IInv

(* The pages of a list leave no order out.  Does not hold: an order that leaves the listing
   between two pages moves the next one past the offset (OrdersPage.tsx, loadMore).  *)
NothingSkipped == part = "list" => List!NothingSkipped

\* Only the page of the behaviour's part is ever busy.
Loading == page.loading \/ list.loading \/ report.loading
Waiting == page.saving # None \/ list.more

(* No page loads for ever, and none saves or waits for a further page for ever, if
   requests are answered or fail, although another order, list or report may be asked
   for at any time.  *)
PagesEnd == (Loading ~> ~Loading) /\ (Waiting ~> ~Waiting)
=============================================================================
