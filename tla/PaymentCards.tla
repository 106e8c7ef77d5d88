------------------------------ MODULE PaymentCards ------------------------------
(* The payment cards of one shop (payment_cards.go).  The shop's own row repeats
   the active card: orders copy their payment instructions from the shop, never
   from the cards.  Which card is active is not stored; it is the one whose number
   the shop's row has.  Changing and activating a card lock the shop's row, read
   both rows and write; adding a card locks nothing. *)
EXTENDS Naturals

CONSTANTS
    Handlers,  \* requests to change the cards
    Numbers,   \* card numbers, unique within the shop
    Texts,     \* instructions and IBANs
    None

ASSUME NoneAssumption == None \notin Texts /\ None \notin Numbers

VARIABLES
    card,  \* the cards' rows: NoCard or [instructions, iban]
    shop,  \* the shop's row: [number, instructions, iban]
    req    \* the handlers

vars == <<card, shop, req>>

-----------------------------------------------------------------------------

NoCard == [instructions |-> None, iban |-> None]
CardRow == [instructions : Texts, iban : Texts]

ShopRow == [number : Numbers \cup {None}, instructions : Texts \cup {None},
            iban : Texts \cup {None}]

Idle == [phase |-> "idle", kind |-> "none", number |-> None, instructions |-> None,
         iban |-> None, active |-> FALSE, read |-> NoCard]

Request == [phase : {"idle", "sent", "locked", "read", "done", "refused"},
            kind : {"none", "update", "activate"}, number : Numbers \cup {None},
            instructions : Texts \cup {None}, iban : Texts \cup {None},
            active : BOOLEAN, read : CardRow \cup {NoCard}]

Init ==
    /\ card = [n \in Numbers |-> NoCard]
    /\ shop = [number |-> None, instructions |-> None, iban |-> None]
    /\ req = [h \in Handlers |-> Idle]

-----------------------------------------------------------------------------
(* Steps *)

\* createPaymentCard: one INSERT under the unique index; never made active.
CreatePaymentCard(h, n, i, b) ==
    /\ req[h].phase = "idle"
    /\ card' = IF card[n] = NoCard THEN [card EXCEPT ![n] = [instructions |-> i, iban |-> b]]
               ELSE card
    /\ req' = [req EXCEPT ![h].phase = IF card[n] = NoCard THEN "done" ELSE "refused"]
    /\ UNCHANGED shop

\* A request to update (its IBAN may be left out) or to activate.
Send(h, kind, n, i, b) ==
    /\ req[h].phase = "idle"
    /\ req' = [req EXCEPT ![h] = [Idle EXCEPT !.phase = "sent", !.kind = kind, !.number = n,
                                              !.instructions = i, !.iban = b]]
    /\ UNCHANGED <<card, shop>>

\* Variant: the row is read without FOR UPDATE.
NoLock == TRUE

\* The shop's row is free to lock.
ShopUnlocked == \A h \in Handlers : req[h].phase \notin {"locked", "read"}

LockShop(h) ==
    /\ req[h].phase = "sent"
    /\ ShopUnlocked
    /\ req' = [req EXCEPT ![h].phase = "locked", ![h].active = (shop.number = req[h].number)]
    /\ UNCHANGED <<card, shop>>

\* ownedPaymentCard
ReadCard(h) ==
    /\ req[h].phase = "locked"
    /\ req' = [req EXCEPT ![h].phase = IF card[req[h].number] = NoCard THEN "refused" ELSE "read",
                          ![h].read = card[req[h].number]]
    /\ UNCHANGED <<card, shop>>

\* Variant: a change that leaves the IBAN out clears it.
IbanSent(h, old) == req[h].iban

IbanOr(h, old) == IF req[h].iban = None THEN old ELSE req[h].iban

\* Both rows are written in the one transaction.
UpdatePaymentCard(h) ==
    LET n == req[h].number
        q == req[h]
    IN /\ q.phase = "read" /\ q.kind = "update"
       /\ card' = [card EXCEPT ![n] = [instructions |-> q.instructions, iban |-> IbanOr(h, @.iban)]]
       /\ shop' = IF q.active
                  THEN [shop EXCEPT !.instructions = q.instructions, !.iban = IbanOr(h, @)]
                  ELSE shop
       /\ req' = [req EXCEPT ![h].phase = "done"]

ActivatePaymentCard(h) ==
    LET q == req[h]
    IN /\ q.phase = "read" /\ q.kind = "activate"
       /\ shop' = [number |-> q.number, instructions |-> q.read.instructions, iban |-> q.read.iban]
       /\ req' = [req EXCEPT ![h].phase = "done"]
       /\ UNCHANGED card

\* A failed statement rolls the transaction back.
Fail(h) ==
    /\ req[h].phase \in {"sent", "locked", "read"}
    /\ req' = [req EXCEPT ![h].phase = "refused"]
    /\ UNCHANGED <<card, shop>>

Next ==
    \E h \in Handlers :
        \/ \E n \in Numbers, i \in Texts, b \in Texts : CreatePaymentCard(h, n, i, b)
        \/ \E n \in Numbers, i \in Texts, b \in Texts \cup {None} : Send(h, "update", n, i, b)
        \/ \E n \in Numbers : Send(h, "activate", n, None, None)
        \/ LockShop(h) \/ ReadCard(h) \/ UpdatePaymentCard(h) \/ ActivatePaymentCard(h)
        \/ Fail(h)

Spec == Init /\ [][Next]_vars

-----------------------------------------------------------------------------
(* Properties *)

RequestOK(q) ==
    /\ q.kind = "none" => q.phase \in {"idle", "done", "refused"}
    /\ q.kind # "none" => q.number \in Numbers
    /\ q.kind = "update" => q.instructions \in Texts
    /\ q.phase = "read" => q.read \in CardRow

TypeOK ==
    /\ card \in [Numbers -> CardRow \cup {NoCard}]
    /\ shop \in ShopRow
    /\ req \in [Handlers -> Request]
    /\ \A h \in Handlers : RequestOK(req[h])

\* The payment details the shop's row gives to new orders are those of the card
\* with its number, in every interleaving of changes to the cards
\* (payment_cards.go: the active branch of updatePaymentCard, the copy of
\* activatePaymentCard).
ActiveMirrored ==
    shop.number # None =>
        /\ card[shop.number] # NoCard
        /\ card[shop.number] = [instructions |-> shop.instructions, iban |-> shop.iban]

Lock1 == \A h, k \in Handlers :
    req[h].phase \in {"locked", "read"} /\ req[k].phase \in {"locked", "read"} => h = k

\* What a lock holder has read is still so.
Lock2 == \A h \in Handlers :
    /\ req[h].phase \in {"locked", "read"} => req[h].active = (shop.number = req[h].number)
    /\ req[h].phase = "read" => req[h].read = card[req[h].number]

IInv == TypeOK /\ Lock1 /\ Lock2 /\ ActiveMirrored
=============================================================================
