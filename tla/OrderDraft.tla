------------------------------- MODULE OrderDraft -------------------------------
(* The fields of the creation form and what may be sent from it: the choice of
   products (components.tsx), the amount and its split, and the delivery date
   (CreateOrderPage.tsx, DeliveryDateSelect.tsx, shared.ts).  The amount follows
   the products until the operator overrides it, and the first payment follows
   both until it is overridden in turn.  Days pass while the form is open.

   Amounts and days are numbers; Unset stands for an empty field.  *)
EXTENDS Integers, FiniteSets, FiniteSetsExt

CONSTANTS
    Products,
    Price,        \* default prices
    MaxQuantity,  \* 99 in the code
    Amounts,      \* what the operator may type
    MaxItems,     \* the server's limit of distinct products: 50 in the code
    FirstDay,     \* the day the page is opened
    LastDay,      \* bound: the last day it stays open
    Holidays,     \* official holidays
    MaxWorkDays   \* 30 in the code

\* What the constants of every instance satisfy.
PriceAssumption ==
    /\ IsFiniteSet(Products) /\ Price \in [Products -> Nat \ {0}]
    /\ MaxQuantity \in Nat \ {0} /\ Amounts \subseteq Nat
    /\ FirstDay \in Nat /\ LastDay \in Nat /\ FirstDay <= LastDay
    /\ IsFiniteSet(Holidays) /\ Holidays \subseteq Nat /\ MaxWorkDays \in Nat \ {0}
    /\ MaxItems \in Nat

VARIABLES
    quantity,  \* of each chosen product, 0 if it is not chosen
    amount,    \* the final amount
    split,     \* whether it is paid in two stages
    initial,   \* the first payment
    date,      \* the delivery date
    workDays,  \* the working days it was counted from, 0 if it was picked
    today,
    sent       \* the accepted body, which the created page replaces the form with

vars == <<quantity, amount, split, initial, date, workDays, today, sent>>

-----------------------------------------------------------------------------

Unset == -1

NoBody == [items |-> [p \in Products |-> 0], amount |-> Unset, initial |-> Unset, date |-> Unset,
           at |-> 0]

Chosen == {p \in Products : quantity[p] > 0}

Total(q) == MapThenSumSet(LAMBDA p : Price[p] * q[p], Products)

\* halfAmount: the larger half, nothing of 1.
HalfAmount(a) == IF a > 1 THEN (a + 1) \div 2 ELSE Unset

\* Thursday and Friday are days 4 and 5 of the week; day 0 is a Sunday.
IsWorkingDay(d) == d % 7 \notin {4, 5} /\ d \notin Holidays

\* Variant: the first day counts.
CountFromToday(d, n) ==
    CHOOSE e \in d .. d + 7 * (n + 1 + Cardinality(Holidays)) :
        /\ IsWorkingDay(e)
        /\ Cardinality({f \in d .. e : IsWorkingDay(f)}) = n

\* addWorkingDays: step by step until n working days have passed.
AddWorkingDays(d, n) ==
    LET day[k \in 0 .. 7 * (n + 1 + Cardinality(Holidays))] ==
            IF k = 0 THEN [at |-> d, left |-> n]
            ELSE LET last == day[k - 1]
                     next == last.at + 1
                 IN IF last.left = 0 THEN last
                    ELSE [at |-> next,
                          left |-> IF IsWorkingDay(next) THEN last.left - 1 ELSE last.left]
    IN day[7 * (n + 1 + Cardinality(Holidays))].at

Init ==
    /\ quantity = [p \in Products |-> 0]
    /\ amount = Unset
    /\ split = FALSE /\ initial = Unset
    /\ date = Unset /\ workDays = 0
    /\ today = FirstDay
    /\ sent = NoBody

-----------------------------------------------------------------------------
(* Fields *)

\* The fields below the products are shown once one is chosen.
Shown == sent = NoBody /\ Chosen # {}

\* Variant: the split is not recomputed with the products.
UpdateAmountOnly(q) ==
    /\ quantity' = q
    /\ amount' = Total(q)
    /\ UNCHANGED <<split, initial, date, workDays, today, sent>>

\* updateItems: products set the amount and, if split, its half.
UpdateItems(q) ==
    /\ quantity' = q
    /\ amount' = Total(q)
    /\ initial' = IF split THEN HalfAmount(Total(q)) ELSE initial
    /\ UNCHANGED <<split, date, workDays, today, sent>>

Toggle(p) ==
    /\ sent = NoBody
    /\ UpdateItems([quantity EXCEPT ![p] = IF @ = 0 THEN 1 ELSE 0])

ChangeQuantity(p, change) ==
    /\ Shown /\ p \in Chosen /\ quantity[p] + change \in 1..MaxQuantity
    /\ UpdateItems([quantity EXCEPT ![p] = @ + change])

TypeAmount(a) ==
    /\ Shown
    /\ amount' = a
    /\ initial' = IF split THEN HalfAmount(a) ELSE initial
    /\ UNCHANGED <<quantity, split, date, workDays, today, sent>>

CheckSplit ==
    /\ Shown
    /\ split' = ~split
    /\ initial' = IF ~split THEN HalfAmount(amount) ELSE initial
    /\ UNCHANGED <<quantity, amount, date, workDays, today, sent>>

TypeInitial(a) ==
    /\ Shown /\ split
    /\ initial' = a
    /\ UNCHANGED <<quantity, amount, split, date, workDays, today, sent>>

\* The calendar offers today and later.
PickDate(d) ==
    /\ Shown /\ d >= today
    /\ date' = d /\ workDays' = 0
    /\ UNCHANGED <<quantity, amount, split, initial, today, sent>>

\* Variant: the button for more is never disabled.
AtLeastOne(n) == n >= 1

CountAllowed(n) == n \in 1..MaxWorkDays

\* Working days are counted from the day of the press, one more or one fewer.
PickWorkDays(n) ==
    /\ Shown /\ CountAllowed(n)
    /\ n \in {workDays - 1, workDays + 1}
    /\ workDays' = n /\ date' = AddWorkingDays(today, n)
    /\ UNCHANGED <<quantity, amount, split, initial, today, sent>>

Midnight ==
    /\ today < LastDay
    /\ today' = today + 1
    /\ UNCHANGED <<quantity, amount, split, initial, date, workDays, sent>>

-----------------------------------------------------------------------------
(* Submission *)

\* Variant: the whole amount may be the first payment.
ValidSplitOrWhole == split => initial > 0 /\ initial <= amount

ValidSplit == split => initial > 0 /\ initial < amount

\* The checks of submit and the state of its button.
MaySubmit ==
    /\ Chosen # {} /\ amount > 0
    /\ ValidSplit
    /\ date # Unset /\ date >= today

Submit ==
    /\ sent = NoBody /\ MaySubmit
    /\ sent' = [items |-> quantity, amount |-> amount,
                initial |-> IF split THEN initial ELSE Unset, date |-> date, at |-> today]
    /\ UNCHANGED <<quantity, amount, split, initial, date, workDays, today>>

\* reset: "create another" empties every field.
Reset ==
    /\ sent # NoBody
    /\ quantity' = [p \in Products |-> 0]
    /\ amount' = Unset /\ split' = FALSE /\ initial' = Unset
    /\ date' = Unset /\ workDays' = 0
    /\ sent' = NoBody
    /\ UNCHANGED today

\* The limit of distinct products, which only the server knows.
FewItems(b) == Cardinality({p \in Products : b.items[p] # 0}) <= MaxItems

\* What createOrder accepts (orders.go), apart from names and keys.
Acceptable(b) ==
    /\ FewItems(b)
    /\ {p \in Products : b.items[p] # 0} # {}
    /\ \A p \in Products : b.items[p] \in 0..MaxQuantity
    /\ b.amount > 0
    /\ b.initial # Unset => b.initial > 0 /\ b.initial < b.amount
    /\ b.date >= b.at

Next ==
    \/ \E p \in Products : Toggle(p) \/ ChangeQuantity(p, -1) \/ ChangeQuantity(p, 1)
    \/ \E a \in Amounts : TypeAmount(a) \/ TypeInitial(a)
    \/ CheckSplit
    \/ \E d \in FirstDay .. LastDay : PickDate(d)
    \/ \E n \in 0 .. MaxWorkDays + 1 : PickWorkDays(n)
    \/ Midnight \/ Submit \/ Reset

Spec == Init /\ [][Next]_vars

-----------------------------------------------------------------------------
(* Properties *)

Body == [items : [Products -> 0..MaxQuantity], amount : Nat, initial : Nat \cup {Unset},
         date : Nat, at : FirstDay..LastDay]

TypeOK ==
    /\ quantity \in [Products -> 0..MaxQuantity]
    /\ amount \in Nat \cup {Unset} /\ initial \in Nat \cup {Unset}
    /\ split \in BOOLEAN
    /\ date \in Nat \cup {Unset} /\ workDays \in 0..MaxWorkDays /\ today \in FirstDay..LastDay
    /\ sent \in Body \cup {NoBody}

\* Whatever the operator did to the fields, and however long the form stayed open,
\* the server accepts what the form sends, unless it is too many products (the checks
\* of submit agree with the others of createOrder).
SubmittedIsAcceptable == sent # NoBody /\ FewItems(sent) => Acceptable(sent)

\* A promise of n working days names a working day with n of them from tomorrow up to
\* it, weekends and holidays left out (addWorkingDays).
PromiseCounted ==
    [][workDays' > 0 /\ workDays' # workDays =>
          /\ IsWorkingDay(date')
          /\ Cardinality({d \in today + 1 .. date' : IsWorkingDay(d)}) = workDays']_vars

\* A two-stage order that follows the products is never sent with a first payment
\* left over from an earlier choice: the half is recomputed with every change.
\* Only an amount the operator typed can be off the half.
HalfFollowsProducts ==
    [][quantity' # quantity /\ split /\ Total(quantity') > 1 =>
          /\ 2 * initial' >= amount' /\ 2 * (amount' - initial') <= amount'
          /\ amount' - initial' >= initial' - 1]_vars
======================================================================================================================================================
