-------------------------------- MODULE LoginFlow --------------------------------
(* Logging in, signing up with a mobile number, resetting a password and creating the
   first shop: LoginPage.tsx in the tabs of one browser, which share the session
   cookie, over password_auth.go and signup.go.  One person uses a mobile number,
   with an account without a shop or with none, and a registered login name.

   A message with a code is sent before its challenge is stored; codes are counted in
   that order.  Wrong codes change nothing: the error rolls the counter of attempts
   back.  Logging out is in AdminSession, the limiter in LoginLimiter.  *)
EXTENDS Naturals, Sequences

CONSTANTS
    Tabs,
    Mobile, Login,  \* what the person may identify as
    Passwords,
    None,
    Patient,        \* the identifier is left alone while a request is under way
    MaxRequests,    \* bound: requests sent by a button
    MaxLosses,      \* bound: failed connections
    MaxFaults,      \* bound: failures of the server
    MaxVisits       \* bound: times the page is opened

\* What the constants of every instance satisfy.
LoginAssumption ==
    /\ Mobile # Login /\ None \notin {Mobile, Login} \cup Passwords
    /\ Passwords # {} /\ Patient \in BOOLEAN
    /\ MaxRequests \in Nat /\ MaxLosses \in Nat /\ MaxFaults \in Nat /\ MaxVisits \in Nat

VARIABLES
    password,    \* the accounts' passwords, None before the account exists
    shops,       \* how many shops each account has created
    challenges,  \* stored challenges
    used,        \* the codes sent to the phone: how often each was accepted, which
                 \* the code does not count
    cookie,      \* the account of the browser's session
    tab,         \* the tabs
    requests,    \* requests in flight
    sent, lost, faults, visits

vars == <<password, shops, challenges, used, cookie, tab, requests, sent, lost, faults, visits>>
server == <<password, shops, challenges, used>>
counts == <<sent, lost, faults, visits>>

-----------------------------------------------------------------------------
(* Data *)

Ids == {Mobile, Login}
Purposes == {"signup", "reset"}

\* At most one minute old, older, or past its five minutes.
Ages == {"new", "old", "expired"}
Challenge == [code : Nat, purpose : Purposes, age : Ages, invalidated : BOOLEAN]

Steps == {"identifier", "password", "signup", "reset", "shop", "orders", "noShop"}
Closed == [n |-> 0, step |-> "identifier", id |-> Mobile, pending |-> FALSE]
Page == [n : 0..MaxVisits, step : Steps, id : Ids, pending : BOOLEAN]

Kinds == {"identify", "password", "signup", "reset", "startReset", "shop", "me", "meAfterShop"}

Init ==
    /\ password \in [Ids -> Passwords \cup {None}] /\ password[Login] # None
    /\ shops = [i \in Ids |-> IF i = Login THEN 1 ELSE 0]
    /\ challenges = {}
    /\ used = << >>
    /\ cookie = None
    /\ tab = [t \in Tabs |-> Closed]
    /\ requests = {}
    /\ sent = 0 /\ lost = 0 /\ faults = 0 /\ visits = 0

-----------------------------------------------------------------------------
(* The page *)

Request(t, kind, id, code, pw) ==
    [id |-> sent + 1, t |-> t, kind |-> kind, as |-> id, code |-> code, pw |-> pw, stage |-> "sent",
     waits |-> TRUE, answer |-> "none", next |-> None]

RequestRecord ==
    [id : Nat, t : Tabs, kind : Kinds, as : Ids \cup {None}, code : Nat,
     pw : Passwords \cup {None}, stage : {"sent", "issuing", "applying", "creating", "done"},
     waits : BOOLEAN, answer : {"none", "ok", "refused"}, next : Steps \cup {None}]

\* run
Run(t, kind, code, pw) ==
    /\ tab[t].n # 0 /\ ~tab[t].pending
    /\ sent < MaxRequests
    /\ sent' = sent + 1
    /\ tab' = [tab EXCEPT ![t].pending = TRUE]
    /\ requests' = requests \cup {Request(t, kind, IF kind = "shop" THEN cookie ELSE tab[t].id, code, pw)}
    /\ UNCHANGED <<server, cookie, lost, faults, visits>>

\* Opening or reloading: App asks who is logged in and shows the form to nobody else.
\* The browser drops what the old page was waiting for.
Visit(t) ==
    /\ visits < MaxVisits
    /\ visits' = visits + 1
    /\ tab' = [tab EXCEPT ![t] =
                 [Closed EXCEPT !.n = visits + 1,
                                !.step = IF cookie = None THEN "identifier"
                                         ELSE IF shops[cookie] = 0 THEN "noShop" ELSE "orders"]]
    /\ requests' = {IF r.t = t THEN [r EXCEPT !.waits = FALSE] ELSE r :
                       r \in {s \in requests : s.t # t \/ s.stage # "done"}}
    /\ UNCHANGED <<server, cookie, sent, lost, faults>>

TypeIdentifier(t, id) ==
    /\ tab[t].n # 0 /\ tab[t].step = "identifier" /\ tab[t].id # id
    /\ Patient => ~tab[t].pending
    /\ tab' = [tab EXCEPT ![t].id = id]
    /\ UNCHANGED <<server, cookie, requests, counts>>

ChangeIdentifier(t) ==
    /\ tab[t].n # 0 /\ tab[t].step = "password" /\ ~tab[t].pending
    /\ tab' = [tab EXCEPT ![t].step = "identifier"]
    /\ UNCHANGED <<server, cookie, requests, counts>>

Identify(t) == tab[t].step = "identifier" /\ Run(t, "identify", 0, None)
LogIn(t, pw) == tab[t].step = "password" /\ Run(t, "password", 0, pw)
SignUp(t, code, pw) == tab[t].step = "signup" /\ Run(t, "signup", code, pw)
Reset(t, code, pw) == tab[t].step = "reset" /\ Run(t, "reset", code, pw)
StartReset(t) == tab[t].step = "password" /\ tab[t].id = Mobile /\ Run(t, "startReset", 0, None)
CreateShop(t) == tab[t].step = "shop" /\ Run(t, "shop", 0, None)

-----------------------------------------------------------------------------
(* The server *)

Becomes(r, s) == requests' = (requests \ {r}) \cup {s}
Arrived(r, kinds) == r.kind \in kinds /\ r.stage = "sent"

\* An answer, if anybody waits for it.
Tells(r, answer, next) ==
    requests' = (requests \ {r}) \cup
       IF r.waits THEN {[r EXCEPT !.stage = "done", !.answer = answer, !.next = next]} ELSE {}
Answered(r, answer) == Tells(r, answer, r.next)

\* identifyAccount and requestPasswordReset up to issueChallenge, with its check of
\* the last minute.
Check(r) ==
    LET purpose == IF r.kind = "identify" THEN "signup" ELSE "reset"
        exists == password[r.as] # None
    IN /\ Arrived(r, {"identify", "startReset"})
       /\ CASE r.kind = "identify" /\ exists ->
                  Tells(r, "ok", "password")
            [] r.kind = "startReset" /\ ~exists ->
                  Tells(r, "ok", "reset")
            [] OTHER ->
                  IF \E c \in challenges : c.purpose = purpose /\ c.age = "new"
                  THEN Answered(r, "refused")
                  ELSE Becomes(r, [r EXCEPT !.stage = "issuing", !.next = purpose])
       /\ UNCHANGED <<server, cookie, tab, counts>>

\* The message goes out; then the challenge is stored, unless the database fails.
Issue(r, stored) ==
    /\ r.stage = "issuing"
    /\ used' = Append(used, 0)
    /\ IF stored
       THEN /\ challenges' = challenges \cup
                  {[code |-> Len(used) + 1, purpose |-> r.next, age |-> "new", invalidated |-> FALSE]}
            /\ Answered(r, "ok")
            /\ UNCHANGED faults
       ELSE /\ faults < MaxFaults /\ faults' = faults + 1
            /\ Answered(r, "refused")
            /\ UNCHANGED challenges
    /\ UNCHANGED <<password, shops, cookie, tab, sent, lost, visits>>

PasswordLogin(r) ==
    /\ Arrived(r, {"password"})
    /\ Answered(r, IF password[r.as] = r.pw THEN "ok" ELSE "refused")
    /\ UNCHANGED <<server, cookie, tab, counts>>

\* The last challenge that is still valid, if there is one.
Newest(purpose) ==
    LET valid == {c \in challenges : c.purpose = purpose /\ ~c.invalidated}
    IN {c \in valid : \A d \in valid : d.code <= c.code}

\* Variant: the challenge is read without a lock.
NoRowLock(r) == TRUE

\* FOR UPDATE on the challenge.
RowUnlocked(r) ==
    \A c \in Newest(r.kind), s \in requests : s.stage = "applying" => s.code # c.code

\* verifyChallenge up to the callback.
TakeChallenge(r) ==
    /\ Arrived(r, {"signup", "reset"}) /\ RowUnlocked(r)
    /\ IF \E c \in Newest(r.kind) : c.code = r.code /\ c.age # "expired" /\ r.as = Mobile
       THEN Becomes(r, [r EXCEPT !.stage = "applying"])
       ELSE Answered(r, "refused")
    /\ UNCHANGED <<server, cookie, tab, counts>>

\* The callback and the commit, then the session, which may fail by itself.
Apply(r, session) ==
    /\ r.stage = "applying"
    /\ IF r.kind = "signup" <=> password[Mobile] = None
       THEN /\ password' = [password EXCEPT ![Mobile] = r.pw]
            /\ challenges' = {IF c.code = r.code THEN [c EXCEPT !.invalidated = TRUE] ELSE c :
                                 c \in challenges}
            /\ used' = [used EXCEPT ![r.code] = @ + 1]
            /\ Answered(r, IF session THEN "ok" ELSE "refused")
            /\ IF session THEN UNCHANGED faults ELSE faults < MaxFaults /\ faults' = faults + 1
       ELSE /\ Answered(r, "refused")
            /\ UNCHANGED <<password, challenges, used, faults>>
    /\ UNCHANGED <<shops, cookie, tab, sent, lost, visits>>

\* Variant: the account's row is read without a lock.
NoAdminLock(r) == TRUE

\* FOR UPDATE on the account.
AdminUnlocked(r) == \A s \in requests : s.stage = "creating" => s.as # r.as

\* createSelfServiceShop for the account of the session: lock and count, then create.
LockAdmin(r) ==
    /\ Arrived(r, {"shop"}) /\ AdminUnlocked(r)
    /\ IF r.as = Mobile /\ shops[Mobile] = 0
       THEN Becomes(r, [r EXCEPT !.stage = "creating"])
       ELSE Answered(r, "refused")
    /\ UNCHANGED <<server, cookie, tab, counts>>

StoreShop(r) ==
    /\ r.stage = "creating"
    /\ shops' = [shops EXCEPT ![r.as] = @ + 1]
    /\ Answered(r, "ok")
    /\ UNCHANGED <<password, challenges, used, cookie, tab, counts>>

\* GET /api/me
Me(r) ==
    /\ Arrived(r, {"me", "meAfterShop"})
    /\ Tells(r, "ok", IF shops[r.as] = 0 THEN "shop" ELSE "orders")
    /\ UNCHANGED <<server, cookie, tab, counts>>

\* A minute has gone by since a challenge was sent, or its five minutes: first for the
\* earlier ones.
Tick(c) ==
    /\ c.age # "expired"
    /\ \A d \in challenges : d.code < c.code => d.age = "expired" \/ (d.age = "old" /\ c.age = "new")
    /\ challenges' = (challenges \ {c}) \cup
          {[c EXCEPT !.age = IF c.age = "new" THEN "old" ELSE "expired"]}
    /\ UNCHANGED <<password, shops, used, cookie, tab, requests, counts>>

-----------------------------------------------------------------------------
(* Answers *)

\* Variant: an error leads on as well.
StepAnyway(r) == IF r.kind = "identify" THEN "password" ELSE tab[r.t].step

\* The step after an error: the same.
StepAfterError(r) == tab[r.t].step

\* Variant: an error keeps the button disabled.
PendingUntilDone(r) == TRUE

PendingAfterError(r) == FALSE

\* The catch and finally of run.
Error(r) == [tab EXCEPT ![r.t].pending = PendingAfterError(r), ![r.t].step = StepAfterError(r)]

\* The connection fails.  The handler begins or goes on without the page.
Lose(r) ==
    /\ r.waits /\ lost < MaxLosses
    /\ lost' = lost + 1
    /\ requests' = (requests \ {r}) \cup
          IF r.stage = "done" THEN {} ELSE {[r EXCEPT !.waits = FALSE]}
    /\ tab' = Error(r)
    /\ UNCHANGED <<server, cookie, sent, faults, visits>>

Refuse(r) ==
    /\ r.answer = "refused"
    /\ requests' = requests \ {r}
    /\ tab' = Error(r)
    /\ UNCHANGED <<server, cookie, counts>>

\* The session after an answer: a login has set the cookie.
Session(r) == IF r.kind = "shop" THEN cookie ELSE r.as

\* Variant: what follows a login is not awaited.
NotAwaited(r) == FALSE

\* done is awaited inside the task.
StillPending(r) == TRUE

\* A login, and a new shop, go on to ask who is logged in.
GoOn(r) ==
    /\ r.answer = "ok" /\ r.kind \in {"password", "signup", "reset", "shop"}
    /\ sent' = sent + 1
    /\ requests' = (requests \ {r}) \cup
          {Request(r.t, IF r.kind = "shop" THEN "meAfterShop" ELSE "me", Session(r), 0, None)}
    /\ cookie' = Session(r)
    /\ tab' = [tab EXCEPT ![r.t].pending = StillPending(r)]
    /\ UNCHANGED <<server, lost, faults, visits>>

\* setStep, or onLogin for one who has a shop.
Finish(r) ==
    /\ r.answer = "ok" /\ r.kind \in {"identify", "startReset", "me", "meAfterShop"}
    /\ requests' = requests \ {r}
    /\ tab' = [tab EXCEPT ![r.t].pending = FALSE, ![r.t].step = r.next]
    /\ UNCHANGED <<server, cookie, counts>>

-----------------------------------------------------------------------------

Next ==
    \/ \E c \in challenges : Tick(c)
    \/ \E t \in Tabs :
          \/ Visit(t) \/ ChangeIdentifier(t) \/ Identify(t) \/ StartReset(t)
          \/ CreateShop(t)
          \/ \E id \in Ids : TypeIdentifier(t, id)
          \/ \E pw \in Passwords : LogIn(t, pw)
          \/ \E pw \in Passwords, code \in 1..Len(used) : SignUp(t, code, pw) \/ Reset(t, code, pw)
    \/ \E r \in requests :
          \/ Check(r) \/ Issue(r, TRUE) \/ Issue(r, FALSE) \/ PasswordLogin(r) \/ TakeChallenge(r)
          \/ Apply(r, TRUE) \/ Apply(r, FALSE) \/ LockAdmin(r) \/ StoreShop(r) \/ Me(r)
          \/ Lose(r) \/ Refuse(r) \/ GoOn(r) \/ Finish(r)

Spec == Init /\ [][Next]_vars

\* The server answers, and the page handles what comes.
Fairness ==
    /\ WF_vars(\E r \in requests :
                  \/ Check(r) \/ Issue(r, TRUE) \/ PasswordLogin(r) \/ TakeChallenge(r)
                  \/ Apply(r, TRUE) \/ LockAdmin(r) \/ StoreShop(r) \/ Me(r))
    /\ WF_vars(\E r \in requests : Refuse(r) \/ GoOn(r) \/ Finish(r))

FairSpec == Spec /\ Fairness

-----------------------------------------------------------------------------
(* Properties *)

TypeOK ==
    /\ password \in [Ids -> Passwords \cup {None}] /\ shops \in [Ids -> Nat]
    /\ challenges \subseteq Challenge /\ used \in Seq(Nat)
    /\ cookie \in Ids \cup {None}
    /\ tab \in [Tabs -> Page] /\ \A t \in Tabs : tab[t].n = 0 => tab[t] = Closed
    /\ requests \subseteq RequestRecord
    /\ sent \in Nat /\ lost \in 0..MaxLosses /\ faults \in 0..MaxFaults /\ visits \in 0..MaxVisits

\* An account creates one trial shop, whatever it sends from its tabs and repeats after
\* a lost answer (createSelfServiceShop).
OneTrial == \A i \in Ids : shops[i] <= 1

\* A code is accepted once, by whichever of its requests comes first, also when its
\* answer or the session after it fails (verifyChallenge).
CodeUsedOnce == \A c \in 1..Len(used) : used[c] <= 1

\* The form asks for what the account it names calls for: the password of one that
\* exists, and a code for the mobile number it was sent to (CODEMAP.md, public
\* authentication; identify, startReset).
StepFits ==
    \A t \in Tabs :
       /\ tab[t].step = "password" => password[tab[t].id] # None
       /\ tab[t].step = "signup" => tab[t].id = Mobile
       /\ tab[t].step = "reset" => tab[t].id = Mobile /\ password[Mobile] # None

\* Of two requests at most one creates a shop, for an account that has none.
OneCreates ==
    /\ password[Login] # None /\ shops[Login] = 1
    /\ \A r, s \in requests : r.stage = "creating" =>
          r.as = Mobile /\ shops[Mobile] = 0 /\ (s.stage = "creating" => s = r)

\* A code whose challenge is valid was not accepted yet, and at most one request is
\* about to have it accepted.
CodesFresh ==
    /\ \A c \in challenges : c.code \in 1..Len(used) /\ (~c.invalidated => used[c.code] = 0)
    /\ \A r, s \in requests : r.stage = "applying" =>
          /\ \E c \in challenges : c.code = r.code /\ ~c.invalidated
          /\ s.stage = "applying" /\ s.code = r.code => s = r

\* A page waits for one request at a time, about what it shows; whoever is answered
\* waits.
Waiting ==
    \A r \in requests :
       /\ r.waits =>
             /\ tab[r.t].n # 0 /\ tab[r.t].pending
             /\ \A s \in requests : s.waits /\ s.t = r.t => s = r
             /\ r.kind = "identify" => r.as = tab[r.t].id /\ tab[r.t].step = "identifier"
             /\ r.kind = "startReset" =>
                   r.as = tab[r.t].id /\ r.as = Mobile /\ tab[r.t].step = "password"
       /\ r.answer # "none" => r.stage = "done"
       /\ r.stage = "done" => r.waits

\* A request says who asks, and where its answer leads fits.
RequestFits(r) ==
    /\ r.kind \notin {"shop", "meAfterShop"} => r.as \in Ids
    /\ r.kind \in {"signup", "reset"} => r.pw \in Passwords
    /\ r.stage = "applying" => r.kind \in {"signup", "reset"}
    /\ r.stage = "creating" => r.kind = "shop"
    /\ r.stage = "issuing" =>
          (r.kind = "identify" /\ r.as = Mobile /\ r.next = "signup") \/ (r.kind = "startReset" /\ r.next = "reset")
    /\ r.answer = "ok" /\ r.kind = "identify" =>
          (r.next = "password" /\ password[r.as] # None) \/ (r.next = "signup" /\ r.as = Mobile)
    /\ r.answer = "ok" /\ r.kind = "startReset" => r.next = "reset"
    /\ r.answer = "ok" /\ r.kind \in {"me", "meAfterShop"} => r.next \in {"shop", "orders"}

IInv ==
    /\ TypeOK /\ OneTrial /\ OneCreates /\ CodeUsedOnce /\ CodesFresh
    /\ StepFits /\ Waiting /\ \A r \in requests : RequestFits(r)

\* Every task of the form ends, with what follows it (run).
PendingEnds == \A t \in Tabs : tab[t].pending ~> ~tab[t].pending
=============================================================================
