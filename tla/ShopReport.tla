-------------------------------- MODULE ShopReport --------------------------------
(* The report of one shop: three queries without a transaction (reports.go), among
   which orders are created and change their status, and the page that asks for it
   (ReportPage.tsx).  *)
EXTENDS Integers, FiniteSets, Sequences, Functions, FiniteSetsExt

CONSTANTS
    Orders, Amount,     \* orders and their amounts
    Products, Quantity, \* products and how much of it each order holds, 0 for nothing
    FirstStatus,        \* the orders' statuses when the page opens, "absent" before creation
    TopLimit,           \* 5 in the code
    MaxChanges,         \* bound: orders created or changed
    MaxLosses,          \* bound: failed connections or queries
    MaxVisits           \* bound: openings of the page

Statuses == {"waiting_info", "waiting_payment", "paid", "preparing", "shipped", "cancelled"}

\* What the constants of every instance satisfy.
ReportAssumption ==
    /\ IsFiniteSet(Orders) /\ Amount \in [Orders -> Nat \ {0}]
    /\ IsFiniteSet(Products) /\ Products \subseteq Nat
    /\ Quantity \in [Products -> [Orders -> Nat]]
    /\ FirstStatus \in [Orders -> Statuses \cup {"absent"}] /\ TopLimit \in Nat \ {0}
    /\ MaxChanges \in Nat /\ MaxLosses \in Nat /\ MaxVisits \in Nat \ {0}

VARIABLES
    status,    \* the orders' statuses
    page,      \* the page
    requests,  \* requests in flight
    changes, lost, visits

vars == <<status, page, requests, changes, lost, visits>>

-----------------------------------------------------------------------------
(* The queries *)

Existing == {o \in Orders : status[o] # "absent"}

\* Variant: what has been shipped no longer counts.
UnshippedOrderStatuses == {"paid", "preparing"}

confirmedOrderStatuses == {"paid", "preparing", "shipped"}

Confirmed == {o \in Orders : status[o] \in confirmedOrderStatuses}

Average(value, count) == IF count = 0 THEN 0 ELSE value \div count

Summary ==
    LET count == Cardinality(Confirmed)
        value == SumFunctionOnSet(Amount, Confirmed)
    IN [orderCount |-> Cardinality(Existing), confirmedOrderCount |-> count,
        confirmedOrderValue |-> value, averageOrderValue |-> Average(value, count)]

StatusCounts == [s \in Statuses |-> Cardinality({o \in Orders : status[o] = s})]

Sold(p) == SumFunctionOnSet(Quantity[p], Confirmed)

\* Variant: the order of the products alone.
ByProduct(p, q) == p < q

\* quantity DESC, products.id ASC
RankedBefore(p, q) == IF Sold(p) # Sold(q) THEN Sold(p) > Sold(q) ELSE p < q

\* Only products that are in a confirmed order are in the join.  Each is in the place
\* that as many others rank before as there are places.
TopProducts ==
    LET sold == {p \in Products : Sold(p) > 0}
        before(p) == {q \in sold : RankedBefore(q, p)}
        ranked(i) == CHOOSE p \in sold : Cardinality(before(p)) = i - 1
    IN [i \in 1..Min({TopLimit, Cardinality(sold)}) |->
           [id |-> ranked(i), quantity |-> Sold(ranked(i))]]

-----------------------------------------------------------------------------
(* The handler *)

NoReport ==
    [summary |-> [orderCount |-> 0, confirmedOrderCount |-> 0, confirmedOrderValue |-> 0,
                  averageOrderValue |-> 0],
     counts |-> [s \in Statuses |-> 0], top |-> <<>>, drift |-> 0, sold |-> [p \in Products |-> 0]]

Reports ==
    [summary : [orderCount : Nat, confirmedOrderCount : Nat, confirmedOrderValue : Nat,
                averageOrderValue : Nat],
     counts : [Statuses -> Nat], top : Seq([id : Products, quantity : Nat]), drift : Nat,
     sold : [Products -> Nat]]

Requests == [n : Nat, stage : {"sent", "summed", "counted", "done"}, report : Reports, failed : BOOLEAN]

Request(n) == [n |-> n, stage |-> "sent", report |-> NoReport, failed |-> FALSE]

Becomes(r, s) == requests' = (requests \ {r}) \cup {s}

Gathering(r) == r.stage \in {"summed", "counted"}

\* The first query; drift counts the changes from here to the last one.
Summarise(r) ==
    /\ r.stage = "sent"
    /\ Becomes(r, [r EXCEPT !.stage = "summed", !.report.summary = Summary])
    /\ UNCHANGED <<status, page, changes, lost, visits>>

CountStatuses(r) ==
    /\ r.stage = "summed"
    /\ Becomes(r, [r EXCEPT !.stage = "counted", !.report.counts = StatusCounts])
    /\ UNCHANGED <<status, page, changes, lost, visits>>

\* sold: all quantities at the time of the last query, which the code does not send.
RankProducts(r) ==
    /\ r.stage = "counted"
    /\ Becomes(r, [r EXCEPT !.stage = "done",
                            !.report = [@ EXCEPT !.top = TopProducts,
                                                 !.sold = [p \in Products |-> Sold(p)]]])
    /\ UNCHANGED <<status, page, changes, lost, visits>>

\* Somebody creates an order or changes its status.
Change(o, s) ==
    /\ changes < MaxChanges /\ s # status[o]
    /\ changes' = changes + 1
    /\ status' = [status EXCEPT ![o] = s]
    /\ requests' = {IF Gathering(r) THEN [r EXCEPT !.report.drift = @ + 1] ELSE r : r \in requests}
    /\ UNCHANGED <<page, lost, visits>>

-----------------------------------------------------------------------------
(* The page *)

Page == [loading : BOOLEAN, error : BOOLEAN, shown : BOOLEAN, report : Reports]

Blank == [loading |-> TRUE, error |-> FALSE, shown |-> FALSE, report |-> NoReport]

Init ==
    /\ status = FirstStatus
    /\ page = Blank
    /\ requests = {Request(1)}
    /\ changes = 0 /\ lost = 0 /\ visits = 1

\* The effect: a new request, the old one aborted.
Ask ==
    /\ visits < MaxVisits /\ visits' = visits + 1
    /\ page' = Blank
    /\ requests' = {Request(visits + 1)}
    /\ UNCHANGED <<status, changes, lost>>

\* Leaving the page for another shop, or leaving it and coming back.
Open == Ask

Retry == page.error /\ Ask

\* Variant: an error leaves the spinner on.
LoadingUntilShown(r) == r.failed

LoadingAfter(r) == FALSE

Receive(r) ==
    /\ r.stage = "done"
    /\ requests' = requests \ {r}
    /\ page' = IF r.failed THEN [page EXCEPT !.error = TRUE, !.loading = LoadingAfter(r)]
               ELSE [page EXCEPT !.shown = TRUE, !.report = r.report, !.loading = LoadingAfter(r)]
    /\ UNCHANGED <<status, changes, lost, visits>>

Fail(r) ==
    /\ ~r.failed /\ lost < MaxLosses
    /\ lost' = lost + 1
    /\ Becomes(r, [r EXCEPT !.stage = "done", !.failed = TRUE])
    /\ UNCHANGED <<status, page, changes, visits>>

-----------------------------------------------------------------------------

Next ==
    \/ Open \/ Retry
    \/ \E o \in Orders, s \in Statuses : Change(o, s)
    \/ \E r \in requests :
          Summarise(r) \/ CountStatuses(r) \/ RankProducts(r) \/ Receive(r) \/ Fail(r)

Spec == Init /\ [][Next]_vars

\* Every query ends and the page handles what comes.
Fairness ==
    WF_vars(\E r \in requests : Summarise(r) \/ CountStatuses(r) \/ RankProducts(r) \/ Receive(r))

FairSpec == Spec /\ Fairness

-----------------------------------------------------------------------------
(* Properties *)

TypeOK ==
    /\ status \in [Orders -> Statuses \cup {"absent"}]
    /\ page \in Page
    /\ requests \subseteq Requests /\ \A r \in requests : r.n = visits
    /\ page.loading <=> requests # {}
    /\ page.shown => ~page.error
    /\ changes \in 0..MaxChanges /\ lost \in 0..MaxLosses /\ visits \in 1..MaxVisits

Apart(a, b) == IF a < b THEN b - a ELSE a - b

DiffersBy(report, orderCount, confirmedCount) ==
    /\ Apart(orderCount, report.summary.orderCount) <= report.drift
    /\ Apart(confirmedCount, report.summary.confirmedOrderCount) <= report.drift

BarsFit(report) ==
    DiffersBy(report, SumFunctionOnSet(report.counts, Statuses),
              SumFunctionOnSet(report.counts, {"paid", "preparing", "shipped"}))

AverageFits(summary) ==
    summary.confirmedOrderCount > 0 =>
        \E o, p \in Orders : /\ Amount[o] <= summary.averageOrderValue
                             /\ summary.averageOrderValue <= Amount[p]

TopFits(top, sold) ==
    LET listed == {top[i].id : i \in DOMAIN top}
        some == {p \in Products : sold[p] > 0}
    IN /\ Cardinality(listed) = Min({TopLimit, Cardinality(some)}) /\ listed \subseteq some
       /\ \A i \in DOMAIN top : top[i].quantity = sold[top[i].id]
       /\ \A i, j \in DOMAIN top : i < j => top[i].quantity >= top[j].quantity
       /\ \A p \in listed, q \in some \ listed : sold[p] >= sold[q]

\* Orders that came or moved while the report was gathered are all that sets its parts
\* apart: the bars of the statuses add up to the number of orders, and the confirmed
\* ones to their number, but for these; and the average is that of some orders
\* (shopReport, ReportPage's bars).
PartsDriftApart ==
    page.shown => BarsFit(page.report) /\ AverageFits(page.report.summary)

\* The products of the report are the best sold ones of one moment, in their order, and
\* as many as there are up to the limit.
TopIsBest == page.shown => TopFits(page.report.top, page.report.sold)

\* The page stops loading.
LoadingEnds == page.loading ~> ~page.loading
-----------------------------------------------------------------------------
(* What the proofs show together with the properties *)

\* The queries of a request that has not failed are of the moments they were made in.
Gathered(r) ==
    LET report == r.report
    IN /\ r.stage \in {"summed", "counted", "done"} => AverageFits(report.summary)
       /\ r.stage = "summed" => DiffersBy(report, Cardinality(Existing), Cardinality(Confirmed))
       /\ r.stage \in {"counted", "done"} =>
             BarsFit(report)
       /\ r.stage = "done" => TopFits(report.top, report.sold)

IInv ==
    /\ TypeOK /\ PartsDriftApart /\ TopIsBest
    /\ \A r, s \in requests : r = s
    /\ \A r \in requests : IF r.failed THEN r.stage = "done" ELSE Gathered(r)
    /\ page.loading => ~page.shown /\ ~page.error

=============================================================================
