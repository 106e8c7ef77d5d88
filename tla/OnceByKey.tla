------------------------------ MODULE OnceByKey ------------------------------
(* What order creation promises to the browsers and API clients that call it:
   a creation key makes at most one order; a request is granted only the order
   of its own key and only for the contents that order was made with.  Nothing
   is said of locks, transactions, conflicts, days or shops.  *)
CONSTANTS
    Requests,  \* creation requests
    Keys,      \* values of createKey
    Contents,  \* what the creation fingerprint covers
    None       \* no key, contents or order yet

VARIABLES
    orders,  \* the orders made, each with its key, contents and maker
    ask      \* what each request has asked for and been told

Init ==
    /\ orders = {}
    /\ ask = [q \in Requests |->
                [state |-> "none", key |-> None, contents |-> None, order |-> None]]

Ask(q) ==
    /\ ask[q].state = "none"
    /\ \E k \in Keys, c \in Contents, s \in {"pending", "denied"} :
          ask' = [ask EXCEPT ![q] =
                    [state |-> s, key |-> k, contents |-> c, order |-> None]]
    /\ UNCHANGED orders

\* The only way an order comes to be, whatever becomes of the request after it.
Make(q) ==
    /\ ask[q].state = "pending"
    /\ \A r \in orders : r.key # ask[q].key
    /\ orders' = orders \cup
          {[key |-> ask[q].key, body |-> ask[q].contents, by |-> q]}
    /\ ask' \in {ask, [ask EXCEPT ![q].state = "denied"]}

Grant(q) ==
    /\ ask[q].state = "pending"
    /\ \E r \in orders :
          /\ r.key = ask[q].key
          /\ r.body = ask[q].contents
          /\ ask' = [ask EXCEPT ![q] =
                [state |-> "granted", key |-> r.key, contents |-> r.body, order |-> r.by]]
    /\ UNCHANGED orders

\* Refused, failed or lost in a crash, one request or many at once.
Deny(Q) ==
    /\ \A q \in Q : ask[q].state = "pending"
    /\ ask' = [q \in Requests |->
                 IF q \in Q THEN [ask[q] EXCEPT !.state = "denied"] ELSE ask[q]]
    /\ UNCHANGED orders

Next ==
    \/ \E q \in Requests : Ask(q) \/ Make(q) \/ Grant(q)
    \/ \E Q \in SUBSET Requests : Deny(Q)

Spec == Init /\ [][Next]_<<orders, ask>>
=============================================================================
