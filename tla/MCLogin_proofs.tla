------------------------------ MODULE MCLogin_proofs ------------------------------
(* Proofs about the limiter and the login page, for every limit and window and for every
   set of tabs, passwords and bounds.

   Of the limiter the entry alone does not say when its failures were; EntryMatchesLog
   relates it to the log and is inductive together with the types.

   Of the page the inductive invariant is Flow!IInv.  A code whose challenge is valid was
   not accepted before, and the lock of its row is held by one request (CodesFresh); the
   lock of the account admits one request that creates a shop (OneCreates); and a page
   that waits shows what it asked about, so that an answer leads to a step that fits
   (Waiting, RequestFits).  *)
EXTENDS MCLogin, SequenceTheorems, TLAPS

-----------------------------------------------------------------------------
(* The limiter *)

IInv == TypeOK /\ EntryMatchesLog

\* The entry after a failure is one (fail).
LEMMA OneMoreType ==
    ASSUME TypeOK
    PROVE  /\ OneMore(now) \in Attempt /\ OneMore(now) # None
           /\ OneMore(now).failures > 0 /\ OneMore(now).first <= now
<1>1. CASE OpensWindow(now)
  BY <1>1, LimiterAssumption DEF TypeOK, OneMore, FailuresWith, Attempt
<1>2. CASE ~OpensWindow(now)
  <2>1. attempt # None /\ attempt \in Attempt
    BY <1>2 DEF TypeOK, OpensWindow
  <2> QED BY <1>2, <2>1, LimiterAssumption DEF TypeOK, OneMore, FailuresWith, Attempt
<1> QED BY <1>1, <1>2

\* The types hold from the start (newLoginLimiter).
LEMMA TypeInit == Init => TypeOK
BY DEF Init, TypeOK

\* Every step keeps the types.
LEMMA TypeStep == TypeOK /\ [Next]_vars => TypeOK'
<1> SUFFICES ASSUME TypeOK, [Next]_vars PROVE TypeOK'
  OBVIOUS
<1>1. CASE Tick
  BY <1>1 DEF Tick, TypeOK, Attempt
<1>2. CASE Restart
  BY <1>2 DEF Restart, TypeOK
<1>3. ASSUME NEW r \in Requests, Allow(r) PROVE TypeOK'
  BY <1>3 DEF Allow, TypeOK
<1>4. ASSUME NEW r \in Requests, Verify(r) PROVE TypeOK'
  BY <1>4 DEF Verify, TypeOK
<1>5. ASSUME NEW r \in Requests, Fail(r) PROVE TypeOK'
  BY <1>5, OneMoreType DEF Fail, TypeOK
<1>6. ASSUME NEW r \in Requests, Clear(r) PROVE TypeOK'
  BY <1>6 DEF Clear, ClearedEntry, TypeOK
<1>7. ASSUME NEW r \in Requests, End(r) PROVE TypeOK'
  BY <1>7 DEF End, TypeOK
<1>8. CASE UNCHANGED vars
  BY <1>8 DEF vars, TypeOK
<1> QED BY <1>1, <1>2, <1>3, <1>4, <1>5, <1>6, <1>7, <1>8 DEF Next

\* A failure brings entry and log forward together (fail).
LEMMA FailStep ==
    ASSUME IInv, NEW r \in Requests, Fail(r)
    PROVE  EntryMatchesLog'
<1> DEFINE n == Len(log)
<1>1. /\ attempt' = OneMore(now) /\ log' = Append(log, now) /\ now' = now
      /\ now \in Nat /\ log \in Seq(Nat) /\ n \in Nat
  BY DEF Fail, IInv, TypeOK
<1>2. /\ Len(log') = n + 1 /\ log'[n + 1] = now
      /\ \A i \in 1..n : log'[i] = log[i]
  BY <1>1
<1>3. CASE OpensWindow(now)
  <2>1. /\ attempt'.failures = 1 /\ attempt'.first = now
        /\ attempt'.until = IF 1 >= Limit THEN now + Window ELSE 0
    BY <1>1, <1>3 DEF OneMore, FailuresWith
  <2> QED BY <1>1, <1>2, <2>1, LimiterAssumption DEF EntryMatchesLog
<1>4. CASE ~OpensWindow(now)
  <2>1. /\ attempt # None /\ attempt \in Attempt /\ now - attempt.first < Window
        /\ attempt.first <= now
    BY <1>1, <1>4, LimiterAssumption DEF IInv, TypeOK, OpensWindow, Attempt
  <2>2. /\ attempt'.failures = attempt.failures + 1 /\ attempt'.first = attempt.first
        /\ attempt'.until = IF attempt.failures + 1 >= Limit THEN now + Window ELSE attempt.until
    BY <1>1, <1>4 DEF OneMore, FailuresWith
  <2>3. /\ attempt.failures \in Nat /\ attempt.first \in Nat /\ attempt.failures <= n
        /\ \A i \in 1..n : i > n - attempt.failures =>
              attempt.first <= log[i] /\ log[i] < attempt.first + Window
        /\ attempt.failures < Limit => attempt.until = 0
    BY <2>1 DEF IInv, EntryMatchesLog, Attempt
  <2>4. attempt'.failures <= Len(log')
    BY <1>1, <1>2, <2>2, <2>3
  <2>5. ASSUME NEW i \in 1..Len(log'), i > Len(log') - attempt'.failures
        PROVE  attempt'.first <= log'[i] /\ log'[i] < attempt'.first + Window
    <3>1. CASE i = n + 1
      BY <1>1, <1>2, <2>1, <2>2, <2>3, <3>1, LimiterAssumption
    <3>2. CASE i # n + 1
      <4>1. i \in 1..n /\ i > n - attempt.failures
        BY <1>1, <1>2, <2>2, <2>3, <2>5, <3>2
      <4> QED BY <1>2, <2>2, <2>3, <4>1
    <3> QED BY <3>1, <3>2
  <2>6. /\ attempt'.failures >= Limit => attempt'.until = log'[Len(log')] + Window
        /\ attempt'.failures < Limit => attempt'.until = 0
    BY <1>2, <2>2, <2>3, LimiterAssumption
  <2> QED BY <2>4, <2>5, <2>6 DEF EntryMatchesLog
<1> QED BY <1>3, <1>4

\* Every step keeps the entry and the log together.
LEMMA EntryStep == IInv /\ [Next]_vars => EntryMatchesLog'
<1> SUFFICES ASSUME IInv, [Next]_vars PROVE EntryMatchesLog'
  OBVIOUS
<1>1. CASE Tick
  BY <1>1 DEF Tick, IInv, EntryMatchesLog
<1>2. CASE Restart
  BY <1>2 DEF Restart, EntryMatchesLog
<1>3. ASSUME NEW r \in Requests, Allow(r) PROVE EntryMatchesLog'
  BY <1>3 DEF Allow, IInv, EntryMatchesLog
<1>4. ASSUME NEW r \in Requests, Verify(r) PROVE EntryMatchesLog'
  BY <1>4 DEF Verify, IInv, EntryMatchesLog
<1>5. ASSUME NEW r \in Requests, Fail(r) PROVE EntryMatchesLog'
  BY <1>5, FailStep
<1>6. ASSUME NEW r \in Requests, Clear(r) PROVE EntryMatchesLog'
  BY <1>6 DEF Clear, ClearedEntry, EntryMatchesLog
<1>7. ASSUME NEW r \in Requests, End(r) PROVE EntryMatchesLog'
  BY <1>7 DEF End, IInv, EntryMatchesLog
<1>8. CASE UNCHANGED vars
  BY <1>8 DEF vars, IInv, EntryMatchesLog
<1> QED BY <1>1, <1>2, <1>3, <1>4, <1>5, <1>6, <1>7, <1>8 DEF Next

\* Where entry and log agree, a block is justified.
LEMMA BlockFromEntry == IInv => BlockJustified
<1> SUFFICES ASSUME IInv, Blocked PROVE BlockJustified
  BY DEF BlockJustified
<1> DEFINE n == Len(log)
<1>1. /\ attempt # None /\ attempt \in Attempt /\ attempt.until > now /\ now \in Nat
      /\ log \in Seq(Nat) /\ n \in Nat
  BY DEF IInv, TypeOK, Blocked
<1>2. attempt.failures >= Limit
  BY <1>1, LimiterAssumption DEF IInv, EntryMatchesLog, Attempt
<1>3. n >= Limit /\ attempt.until = log[n] + Window
  BY <1>1, <1>2, LimiterAssumption DEF IInv, EntryMatchesLog, Attempt
<1>4. /\ n \in 1..n /\ n > n - attempt.failures
      /\ n - Limit + 1 \in 1..n /\ n - Limit + 1 > n - attempt.failures
  BY SMTT(60), <1>1, <1>2, <1>3, LimiterAssumption DEF Attempt
<1>5. /\ attempt.first <= log[n - Limit + 1] /\ log[n] < attempt.first + Window
  BY <1>1, <1>4 DEF IInv, EntryMatchesLog
<1>6. log[n] - log[n - Limit + 1] < Window
  <2>1. log[n] \in Nat /\ log[n - Limit + 1] \in Nat /\ attempt.first \in Nat
    BY <1>1, <1>4 DEF Attempt
  <2> QED BY <1>5, <2>1, LimiterAssumption
<1> QED BY <1>3, <1>6 DEF BlockJustified

\* The entry and the log agree in every reachable state.
THEOREM Inductive == Spec => []IInv
<1>1. Init => IInv
  BY TypeInit DEF IInv, Init, EntryMatchesLog
<1>2. IInv /\ [Next]_vars => IInv'
  BY TypeStep, EntryStep DEF IInv
<1> QED BY <1>1, <1>2, PTL DEF Spec

\* The limiter's types hold for every limit, window and set of requests.
THEOREM TypeCorrect == Spec => []TypeOK
<1>1. IInv => TypeOK
  BY DEF IInv
<1> QED BY <1>1, Inductive, PTL

\* The counted failures are the last of the log, in one window (fail).
THEOREM EntryCorrect == Spec => []EntryMatchesLog
<1>1. IInv => EntryMatchesLog
  BY DEF IInv
<1> QED BY <1>1, Inductive, PTL

\* A block is never undeserved (allow, fail, clear).
THEOREM BlocksJustified == Spec => []BlockJustified
BY Inductive, BlockFromEntry, PTL

-----------------------------------------------------------------------------
(* The login page: what its steps do to the requests *)

\* Of the requests R at most one remains, as the member of Q.
Moved(R, Q) ==
    /\ R \subseteq requests /\ requests' = (requests \ R) \cup Q
    /\ Q \subseteq Flow!RequestRecord /\ \A q1, q2 \in Q : q1 = q2

\* q is what r has become on the server: its page and what it says are the same.
Same(q, r) ==
    /\ q.t = r.t /\ q.kind = r.kind /\ q.as = r.as /\ q.code = r.code /\ q.pw = r.pw
    /\ q.waits = r.waits

\* q is new: the page of t asks and waits.
Asks(q, t, kind, as, pw) ==
    /\ q.t = t /\ q.kind = kind /\ q.as = as /\ q.pw = pw
    /\ q.stage = "sent" /\ q.answer = "none" /\ q.waits

\* q is r without its page.
Dropped(q, r) ==
    /\ q.t = r.t /\ q.kind = r.kind /\ q.as = r.as /\ q.code = r.code /\ q.pw = r.pw
    /\ ~q.waits /\ q.stage = r.stage /\ q.stage # "done" /\ q.answer = r.answer /\ q.next = r.next

\* q is r at a later stage.
Became(q, r, at, answer, next) ==
    Same(q, r) /\ q.stage = at /\ q.answer = answer /\ q.next = next

\* An answer goes to whoever waits for it (writeJSON, writeError).
LEMMA TellsMoves ==
    ASSUME requests \subseteq Flow!RequestRecord, NEW r \in requests,
           NEW answer \in {"ok", "refused"}, NEW next \in Flow!Steps \cup {None},
           Flow!Tells(r, answer, next)
    PROVE  \E Q : /\ Moved({r}, Q)
                  /\ \A q \in Q : r.waits /\ Became(q, r, "done", answer, next)
<1> DEFINE q == [r EXCEPT !.stage = "done", !.answer = answer, !.next = next]
           Q == IF r.waits THEN {q} ELSE {}
<1>1. r \in Flow!RequestRecord
  OBVIOUS
<1>2. q \in Flow!RequestRecord /\ Became(q, r, "done", answer, next)
  BY <1>1 DEF Became, Same, Flow!RequestRecord
<1>3. Moved({r}, Q)
  BY <1>2 DEF Moved, Flow!Tells
<1>4. \A x \in Q : x = q /\ r.waits
  OBVIOUS
<1> HIDE DEF q, Q
<1> QED BY <1>2, <1>3, <1>4

\* A request whose handler goes on (FOR UPDATE, a message sent).
LEMMA BecomesMoves ==
    ASSUME requests \subseteq Flow!RequestRecord, NEW r \in requests,
           NEW at \in {"issuing", "applying", "creating"},
           NEW next \in Flow!Steps \cup {None}, NEW q,
           q = [r EXCEPT !.stage = at, !.next = next], Flow!Becomes(r, q)
    PROVE  Moved({r}, {q}) /\ Became(q, r, at, r.answer, next)
<1>1. r \in Flow!RequestRecord
  OBVIOUS
<1>2. q \in Flow!RequestRecord /\ Became(q, r, at, r.answer, next)
  BY <1>1 DEF Became, Same, Flow!RequestRecord
<1> QED BY <1>2 DEF Moved, Flow!Becomes

\* The page sends a request (run).
LEMMA RunMoves ==
    ASSUME Flow!TypeOK, NEW t \in Tabs, NEW kind \in Flow!Kinds, NEW code \in Nat,
           NEW pw \in Passwords \cup {None}, Flow!Run(t, kind, code, pw)
    PROVE  \E q \in Flow!RequestRecord :
              Moved({}, {q}) /\ Asks(q, t, kind, IF kind = "shop" THEN cookie ELSE tab[t].id, pw)
<1> DEFINE as == IF kind = "shop" THEN cookie ELSE tab[t].id
           q == Flow!Request(t, kind, as, code, pw)
<1>1. as \in Flow!Ids \cup {None} /\ sent \in Nat
  BY DEF Flow!TypeOK, Flow!Page
<1>2. q \in Flow!RequestRecord
  BY <1>1 DEF Flow!Request, Flow!RequestRecord, Flow!Steps
<1>3. requests' = requests \cup {q}
  BY DEF Flow!Run
<1>4. Asks(q, t, kind, as, pw)
  BY DEF Asks, Flow!Request
<1> HIDE DEF q
<1>5. Moved({}, {q})
  BY <1>2, <1>3 DEF Moved
<1> QED BY <1>2, <1>4, <1>5

\* A login, and a new shop, go on to ask who is logged in (done).
LEMMA GoOnMoves ==
    ASSUME Flow!TypeOK, NEW r \in requests, Flow!GoOn(r)
    PROVE  \E q \in Flow!RequestRecord :
              /\ Moved({r}, {q})
              /\ Asks(q, r.t, IF r.kind = "shop" THEN "meAfterShop" ELSE "me", Flow!Session(r), None)
<1> DEFINE kind == IF r.kind = "shop" THEN "meAfterShop" ELSE "me"
           q == Flow!Request(r.t, kind, Flow!Session(r), 0, None)
<1>1. Flow!Session(r) \in Flow!Ids \cup {None} /\ sent \in Nat /\ r.t \in Tabs
      /\ requests \subseteq Flow!RequestRecord
  BY DEF Flow!TypeOK, Flow!RequestRecord, Flow!Session
<1>2. q \in Flow!RequestRecord
  BY <1>1 DEF Flow!Request, Flow!RequestRecord, Flow!Kinds
<1>3. requests' = (requests \ {r}) \cup {q}
  BY DEF Flow!GoOn
<1>4. Asks(q, r.t, kind, Flow!Session(r), None)
  BY DEF Asks, Flow!Request
<1> HIDE DEF q
<1>5. Moved({r}, {q})
  BY <1>2, <1>3 DEF Moved
<1> QED BY <1>2, <1>4, <1>5

\* A lost request goes on without its page, or goes.
LEMMA LoseMoves ==
    ASSUME Flow!TypeOK, NEW r \in requests, Flow!Lose(r)
    PROVE  \E Q : Moved({r}, Q) /\ \A q \in Q : Dropped(q, r)
<1> DEFINE q == [r EXCEPT !.waits = FALSE]
           Q == IF r.stage = "done" THEN {} ELSE {q}
<1>1. r \in Flow!RequestRecord
  BY DEF Flow!TypeOK
<1>2. q \in Flow!RequestRecord /\ (r.stage # "done" => Dropped(q, r))
  BY <1>1 DEF Dropped, Flow!RequestRecord
<1>3. requests' = (requests \ {r}) \cup Q
  BY DEF Flow!Lose
<1>4. \A x \in Q : x = q /\ r.stage # "done"
  OBVIOUS
<1> HIDE DEF q, Q
<1>5. Moved({r}, Q)
  BY <1>2, <1>3, <1>4 DEF Moved
<1> QED BY <1>2, <1>4, <1>5

\* A page that is opened waits for nothing; the handlers go on (App).
LEMMA VisitMoves ==
    ASSUME Flow!TypeOK, NEW t \in Tabs, Flow!Visit(t)
    PROVE  /\ requests' \subseteq Flow!RequestRecord
           /\ \A q \in requests' : \E r \in requests :
                 /\ q = IF r.t = t THEN [r EXCEPT !.waits = FALSE] ELSE r
                 /\ q.t = r.t /\ q.kind = r.kind /\ q.as = r.as /\ q.code = r.code /\ q.pw = r.pw
                 /\ q.stage = r.stage /\ q.answer = r.answer /\ q.next = r.next
                 /\ q.waits = (r.waits /\ r.t # t) /\ (r.t = t => r.stage # "done")
<1> SUFFICES ASSUME NEW q \in requests'
             PROVE  /\ q \in Flow!RequestRecord
                    /\ \E r \in requests :
                          /\ q = IF r.t = t THEN [r EXCEPT !.waits = FALSE] ELSE r
                          /\ q.t = r.t /\ q.kind = r.kind /\ q.as = r.as /\ q.code = r.code /\ q.pw = r.pw
                          /\ q.stage = r.stage /\ q.answer = r.answer /\ q.next = r.next
                          /\ q.waits = (r.waits /\ r.t # t) /\ (r.t = t => r.stage # "done")
  OBVIOUS
<1>1. PICK r \in requests : /\ q = IF r.t = t THEN [r EXCEPT !.waits = FALSE] ELSE r
                            /\ r.t # t \/ r.stage # "done"
  BY DEF Flow!Visit
<1>2. r \in Flow!RequestRecord
  BY DEF Flow!TypeOK
<1> QED BY <1>1, <1>2 DEF Flow!RequestRecord

-----------------------------------------------------------------------------
(* The login page: types *)

\* What one move leaves of the requests has their type.
LEMMA MovedType ==
    ASSUME requests \subseteq Flow!RequestRecord, NEW R, NEW Q, Moved(R, Q)
    PROVE  requests' \subseteq Flow!RequestRecord
BY DEF Moved

\* A mounted page whose step, name or button changes is a page still.
LEMMA PageType ==
    ASSUME Flow!TypeOK, NEW t \in Tabs, NEW p \in Flow!Page, p.n # 0,
           tab' = [tab EXCEPT ![t] = p]
    PROVE  tab' \in [Tabs -> Flow!Page] /\ \A u \in Tabs : tab'[u].n = 0 => tab'[u] = Flow!Closed
BY DEF Flow!TypeOK

\* What is stored of a message with a code (issueChallenge).
LEMMA IssueType ==
    ASSUME Flow!TypeOK, NEW r \in requests, Flow!RequestFits(r), NEW stored \in BOOLEAN,
           Flow!Issue(r, stored)
    PROVE  /\ challenges' \subseteq Flow!Challenge /\ used' \in Seq(Nat)
           /\ faults' \in 0..MaxFaults
<1> DEFINE c == [code |-> Len(used) + 1, purpose |-> r.next, age |-> "new", invalidated |-> FALSE]
<1>1. /\ r.next \in Flow!Purposes /\ Len(used) + 1 \in Nat
  BY DEF Flow!Issue, Flow!RequestFits, Flow!Purposes, Flow!TypeOK
<1>2. c \in Flow!Challenge
  BY <1>1 DEF Flow!Challenge, Flow!Ages
<1>3. challenges' = challenges \/ challenges' = challenges \cup {c}
  BY DEF Flow!Issue
<1> HIDE DEF c
<1> QED BY <1>2, <1>3, FlowAssumption DEF Flow!TypeOK, Flow!Issue, Flow!LoginAssumption

\* What an accepted code leaves (verifyChallenge).
LEMMA ApplyType ==
    ASSUME Flow!TypeOK, Flow!CodesFresh, NEW r \in requests, Flow!RequestFits(r), NEW session \in BOOLEAN,
           Flow!Apply(r, session)
    PROVE  /\ password' \in [Flow!Ids -> Passwords \cup {None}] /\ used' \in Seq(Nat)
           /\ challenges' \subseteq Flow!Challenge /\ faults' \in 0..MaxFaults
<1>1. r.pw \in Passwords
  BY DEF Flow!Apply, Flow!RequestFits
<1>2. password' \in [Flow!Ids -> Passwords \cup {None}]
  BY <1>1 DEF Flow!TypeOK, Flow!Apply
<1>3. used' \in Seq(Nat)
  <2>1. /\ used' = used \/ used' = [used EXCEPT ![r.code] = used[r.code] + 1]
        /\ used \in Seq(Nat)
    BY DEF Flow!TypeOK, Flow!Apply
  <2>2. r.code \in 1..Len(used) /\ used[r.code] + 1 \in Nat
    BY <2>1, ElementOfSeq DEF Flow!CodesFresh, Flow!Apply
  <2> QED BY <2>1, <2>2, ExceptSeq
<1>4. challenges' \subseteq Flow!Challenge
  <2>1. \A c \in Flow!Challenge : [c EXCEPT !.invalidated = TRUE] \in Flow!Challenge
    BY DEF Flow!Challenge
  <2> QED BY <2>1 DEF Flow!TypeOK, Flow!Apply
<1>5. faults' \in 0..MaxFaults
  BY SMTT(60), FlowAssumption DEF Flow!TypeOK, Flow!Apply, Flow!LoginAssumption
<1> QED BY <1>2, <1>3, <1>4, <1>5

\* The types hold from the start.
LEMMA FlowTypeInit == Flow!Init => Flow!TypeOK
<1> SUFFICES ASSUME Flow!Init PROVE Flow!TypeOK
  OBVIOUS
<1>1. Flow!Closed \in Flow!Page
  BY FlowAssumption DEF Flow!Closed, Flow!Page, Flow!Steps, Flow!Ids, Flow!LoginAssumption
<1> QED BY <1>1, FlowAssumption DEF Flow!Init, Flow!TypeOK, Flow!LoginAssumption

\* Nothing that happens on the server disturbs a type (password_auth.go, signup.go).
LEMMA ServerType ==
    ASSUME Flow!TypeOK, Flow!OneCreates, Flow!CodesFresh, NEW r \in requests, Flow!RequestFits(r),
           NEW stored \in BOOLEAN,
           \/ Flow!Check(r) \/ Flow!Issue(r, stored) \/ Flow!PasswordLogin(r)
           \/ Flow!TakeChallenge(r) \/ Flow!Apply(r, stored) \/ Flow!LockAdmin(r)
           \/ Flow!StoreShop(r) \/ Flow!Me(r)
    PROVE  /\ password' \in [Flow!Ids -> Passwords \cup {None}] /\ shops' \in [Flow!Ids -> Nat]
           /\ challenges' \subseteq Flow!Challenge /\ used' \in Seq(Nat)
           /\ faults' \in 0..MaxFaults
           /\ UNCHANGED <<cookie, tab, sent, lost, visits>>
<1>1. CASE Flow!Check(r)
  BY <1>1 DEF Flow!TypeOK, Flow!Check, Flow!server, Flow!counts
<1>2. CASE Flow!Issue(r, stored)
  BY <1>2, IssueType DEF Flow!TypeOK, Flow!Issue
<1>3. CASE Flow!PasswordLogin(r)
  BY <1>3 DEF Flow!TypeOK, Flow!PasswordLogin, Flow!server, Flow!counts
<1>4. CASE Flow!TakeChallenge(r)
  BY <1>4 DEF Flow!TypeOK, Flow!TakeChallenge, Flow!server, Flow!counts
<1>5. CASE Flow!Apply(r, stored)
  BY <1>5, ApplyType DEF Flow!TypeOK, Flow!Apply
<1>6. CASE Flow!LockAdmin(r)
  BY <1>6 DEF Flow!TypeOK, Flow!LockAdmin, Flow!server, Flow!counts
<1>7. CASE Flow!StoreShop(r)
  <2>1. r.as \in Flow!Ids
    BY <1>7 DEF Flow!OneCreates, Flow!StoreShop, Flow!Ids
  <2> QED BY <1>7, <2>1 DEF Flow!TypeOK, Flow!StoreShop, Flow!counts
<1>8. CASE Flow!Me(r)
  BY <1>8 DEF Flow!TypeOK, Flow!Me, Flow!server, Flow!counts
<1> QED BY <1>1, <1>2, <1>3, <1>4, <1>5, <1>6, <1>7, <1>8

-----------------------------------------------------------------------------
(* The login page: what the server makes of a request *)

\* The request r moves on to Q, and what is said of requests in IInv fits.
Handled(r, Q) ==
    /\ Moved({r}, Q)
    /\ \A q \in Q :
          /\ Same(q, r) /\ Flow!RequestFits(q)
          /\ q.answer # "none" => q.stage = "done"
          /\ q.stage = "done" => q.waits

\* An answer that fits is a move that fits.
LEMMA TellsHandled ==
    ASSUME Flow!IInv, NEW r \in requests, r.stage # "done",
           NEW answer \in {"ok", "refused"}, NEW next \in Flow!Steps \cup {None},
           r.kind = "identify" /\ answer = "ok" =>
              (next = "password" /\ password[r.as] # None) \/ (next = "signup" /\ r.as = Mobile),
           r.kind = "startReset" /\ answer = "ok" => next = "reset",
           r.kind \in {"me", "meAfterShop"} /\ answer = "ok" => next \in {"shop", "orders"},
           Flow!Tells(r, answer, next)
    PROVE  \E Q : Handled(r, Q) /\ \A q \in Q : q.stage = "done"
<1>1. requests \subseteq Flow!RequestRecord /\ Flow!RequestFits(r)
  BY DEF Flow!IInv, Flow!TypeOK
<1>2. PICK Q : /\ Moved({r}, Q)
               /\ \A q \in Q : r.waits /\ Became(q, r, "done", answer, next)
  BY <1>1, TellsMoves
<1>3. \A q \in Q : Flow!RequestFits(q) /\ q.stage = "done" /\ q.waits /\ Same(q, r)
  BY <1>1, <1>2 DEF Flow!RequestFits, Became, Same
<1> QED BY <1>2, <1>3 DEF Handled

\* A stage after the first, and what the answer will say, suit the request.
Suits(r, at, next) ==
    CASE at = "applying" -> r.kind \in {"signup", "reset"}
      [] at = "creating" -> r.kind = "shop"
      [] at = "issuing"  -> \/ r.kind = "identify" /\ r.as = Mobile /\ next = "signup"
                            \/ r.kind = "startReset" /\ next = "reset"

\* A handler that goes on to a stage that suits is a move that fits.
LEMMA BecomesHandled ==
    ASSUME Flow!IInv, NEW r \in requests, r.stage = "sent",
           NEW at \in {"issuing", "applying", "creating"},
           NEW next \in Flow!Steps \cup {None},
           Suits(r, at, next),
           Flow!Becomes(r, [r EXCEPT !.stage = at, !.next = next])
    PROVE  \E Q : Handled(r, Q) /\ \A q \in Q : q.stage = at
<1> DEFINE q == [r EXCEPT !.stage = at, !.next = next]
<1>1. requests \subseteq Flow!RequestRecord /\ Flow!RequestFits(r) /\ r.answer = "none"
  BY DEF Flow!IInv, Flow!TypeOK, Flow!Waiting
<1>2. Moved({r}, {q}) /\ Became(q, r, at, r.answer, next)
  BY <1>1, BecomesMoves
<1> HIDE DEF q
<1>3. Flow!RequestFits(q) /\ q.stage = at /\ q.answer = "none" /\ Same(q, r)
  BY <1>1, <1>2 DEF Flow!RequestFits, Became, Same, Suits
<1> QED BY <1>1, <1>2, <1>3 DEF Handled

\* A question about an account is answered, or a message with a code goes out (identifyAccount,
\* requestPasswordReset).
LEMMA CheckMoves ==
    ASSUME Flow!IInv, NEW r \in requests, Flow!Check(r)
    PROVE  \E Q : Handled(r, Q) /\ \A q \in Q : q.stage \in {"done", "issuing"}
<1>1. /\ r.stage = "sent" /\ r.kind \in {"identify", "startReset"} /\ r.as \in Flow!Ids
      /\ r \in Flow!RequestRecord /\ r.next \in Flow!Steps \cup {None}
  BY DEF Flow!IInv, Flow!TypeOK, Flow!RequestFits, Flow!Check, Flow!Arrived, Flow!RequestRecord
<1>2. password[Login] # None
  BY DEF Flow!IInv, Flow!OneCreates
<1>3. \/ r.kind = "identify" /\ password[r.as] # None /\ Flow!Tells(r, "ok", "password")
      \/ r.kind = "startReset" /\ Flow!Tells(r, "ok", "reset")
      \/ Flow!Tells(r, "refused", r.next)
      \/ /\ r.kind = "identify" /\ password[r.as] = None
         /\ Flow!Becomes(r, [r EXCEPT !.stage = "issuing", !.next = "signup"])
      \/ /\ r.kind = "startReset"
         /\ Flow!Becomes(r, [r EXCEPT !.stage = "issuing", !.next = "reset"])
  BY <1>1 DEF Flow!Check, Flow!Answered
<1>4. CASE r.kind = "identify" /\ password[r.as] # None /\ Flow!Tells(r, "ok", "password")
  BY <1>1, <1>4, TellsHandled DEF Flow!Steps
<1>5. CASE r.kind = "startReset" /\ Flow!Tells(r, "ok", "reset")
  BY <1>1, <1>5, TellsHandled DEF Flow!Steps
<1>6. CASE Flow!Tells(r, "refused", r.next)
  BY <1>1, <1>6, TellsHandled
<1>7. CASE /\ r.kind = "identify" /\ password[r.as] = None
           /\ Flow!Becomes(r, [r EXCEPT !.stage = "issuing", !.next = "signup"])
  <2>1. r.as = Mobile
    BY <1>1, <1>2, <1>7 DEF Flow!Ids
  <2>2. PICK Q : Handled(r, Q) /\ \A q \in Q : q.stage = "issuing"
    <3>1. Suits(r, "issuing", "signup") /\ "signup" \in Flow!Steps \cup {None}
      BY <1>1, <1>7, <2>1 DEF Flow!Steps, Suits
    <3> QED BY <1>1, <1>7, <3>1, BecomesHandled
  <2> QED BY <2>2
<1>8. CASE /\ r.kind = "startReset"
           /\ Flow!Becomes(r, [r EXCEPT !.stage = "issuing", !.next = "reset"])
  <2>1. PICK Q : Handled(r, Q) /\ \A q \in Q : q.stage = "issuing"
    <3>1. Suits(r, "issuing", "reset") /\ "reset" \in Flow!Steps \cup {None}
      BY <1>1, <1>8 DEF Flow!Steps, Suits
    <3> QED BY <1>1, <1>8, <3>1, BecomesHandled
  <2> QED BY <2>1
<1> QED BY <1>3, <1>4, <1>5, <1>6, <1>7, <1>8

\* The message is sent and its challenge stored, or not (issueChallenge).
LEMMA IssueMoves ==
    ASSUME Flow!IInv, NEW r \in requests, NEW stored \in BOOLEAN, Flow!Issue(r, stored)
    PROVE  \E Q : Handled(r, Q) /\ \A q \in Q : q.stage = "done"
<1>1. /\ r.stage = "issuing" /\ Flow!RequestFits(r) /\ r.next \in Flow!Steps \cup {None}
  BY DEF Flow!IInv, Flow!TypeOK, Flow!Issue, Flow!RequestRecord
<1>2. PICK answer \in {"ok", "refused"} : Flow!Tells(r, answer, r.next)
  BY DEF Flow!Issue, Flow!Answered
<1> QED BY <1>1, <1>2, TellsHandled DEF Flow!RequestFits

\* A password is right or wrong (passwordLogin).
LEMMA PasswordMoves ==
    ASSUME Flow!IInv, NEW r \in requests, Flow!PasswordLogin(r)
    PROVE  \E Q : Handled(r, Q) /\ \A q \in Q : q.stage = "done"
<1>1. /\ r.stage = "sent" /\ r.kind = "password" /\ r.next \in Flow!Steps \cup {None}
  BY DEF Flow!IInv, Flow!TypeOK, Flow!PasswordLogin, Flow!Arrived, Flow!RequestRecord
<1>2. PICK answer \in {"ok", "refused"} : Flow!Tells(r, answer, r.next)
  BY DEF Flow!PasswordLogin, Flow!Answered
<1> QED BY <1>1, <1>2, TellsHandled

\* A code is refused, or its challenge's row is locked (verifyChallenge).
LEMMA TakeMoves ==
    ASSUME Flow!IInv, NEW r \in requests, Flow!TakeChallenge(r)
    PROVE  \E Q : /\ Handled(r, Q)
                  /\ \A q \in Q : \/ q.stage = "done"
                                  \/ /\ q.stage = "applying"
                                     /\ \E c \in Flow!Newest(r.kind) : c.code = r.code
<1>1. /\ r.stage = "sent" /\ r.kind \in {"signup", "reset"} /\ r.next \in Flow!Steps \cup {None}
      /\ r \in Flow!RequestRecord
  BY DEF Flow!IInv, Flow!TypeOK, Flow!TakeChallenge, Flow!Arrived, Flow!RequestRecord
<1>2. CASE Flow!Tells(r, "refused", r.next)
  BY <1>1, <1>2, TellsHandled
<1>3. CASE /\ \E c \in Flow!Newest(r.kind) : c.code = r.code
           /\ Flow!Becomes(r, [r EXCEPT !.stage = "applying"])
  <2>1. [r EXCEPT !.stage = "applying"] = [r EXCEPT !.stage = "applying", !.next = r.next]
    BY <1>1 DEF Flow!RequestRecord
  <2>2. PICK Q : Handled(r, Q) /\ \A q \in Q : q.stage = "applying"
    BY <1>1, <1>3, <2>1, BecomesHandled DEF Suits
  <2> QED BY <1>3, <2>2
<1> QED BY <1>2, <1>3 DEF Flow!TakeChallenge, Flow!Answered

\* The code is accepted, or what it was for is refused (signupVerify, verifyPasswordReset).
LEMMA ApplyMoves ==
    ASSUME Flow!IInv, NEW r \in requests, NEW session \in BOOLEAN, Flow!Apply(r, session)
    PROVE  \E Q : Handled(r, Q) /\ \A q \in Q : q.stage = "done"
<1>1. /\ r.stage = "applying" /\ r.kind \in {"signup", "reset"} /\ r.next \in Flow!Steps \cup {None}
  BY DEF Flow!IInv, Flow!TypeOK, Flow!Apply, Flow!RequestRecord, Flow!RequestFits
<1>2. PICK answer \in {"ok", "refused"} : Flow!Tells(r, answer, r.next)
  BY DEF Flow!Apply, Flow!Answered
<1> QED BY <1>1, <1>2, TellsHandled

\* The account's row is locked and has no shop, or the request is refused (createSelfServiceShop).
LEMMA LockMoves ==
    ASSUME Flow!IInv, NEW r \in requests, Flow!LockAdmin(r)
    PROVE  \E Q : /\ Handled(r, Q)
                  /\ \A q \in Q : \/ q.stage = "done"
                                  \/ q.stage = "creating" /\ r.as = Mobile /\ shops[Mobile] = 0
<1>1. /\ r.stage = "sent" /\ r.kind = "shop" /\ r.next \in Flow!Steps \cup {None}
      /\ r \in Flow!RequestRecord
  BY DEF Flow!IInv, Flow!TypeOK, Flow!LockAdmin, Flow!Arrived, Flow!RequestRecord
<1>2. CASE Flow!Tells(r, "refused", r.next)
  BY <1>1, <1>2, TellsHandled
<1>3. CASE /\ r.as = Mobile /\ shops[Mobile] = 0
           /\ Flow!Becomes(r, [r EXCEPT !.stage = "creating"])
  <2>1. [r EXCEPT !.stage = "creating"] = [r EXCEPT !.stage = "creating", !.next = r.next]
    BY <1>1 DEF Flow!RequestRecord
  <2>2. PICK Q : Handled(r, Q) /\ \A q \in Q : q.stage = "creating"
    BY <1>1, <1>3, <2>1, BecomesHandled DEF Suits
  <2> QED BY <1>3, <2>2
<1> QED BY <1>2, <1>3 DEF Flow!LockAdmin, Flow!Answered

\* The shop is stored (createSelfServiceShop).
LEMMA StoreMoves ==
    ASSUME Flow!IInv, NEW r \in requests, Flow!StoreShop(r)
    PROVE  \E Q : Handled(r, Q) /\ \A q \in Q : q.stage = "done"
<1>1. /\ r.stage = "creating" /\ r.kind = "shop" /\ r.next \in Flow!Steps \cup {None}
  BY DEF Flow!IInv, Flow!TypeOK, Flow!StoreShop, Flow!RequestRecord, Flow!RequestFits
<1> QED BY <1>1, TellsHandled DEF Flow!StoreShop, Flow!Answered

\* Who is logged in, and whether with a shop (me).
LEMMA MeMoves ==
    ASSUME Flow!IInv, NEW r \in requests, Flow!Me(r)
    PROVE  \E Q : Handled(r, Q) /\ \A q \in Q : q.stage = "done"
<1>1. r.stage = "sent" /\ r.kind \in {"me", "meAfterShop"}
  BY DEF Flow!Me, Flow!Arrived
<1>2. PICK next \in {"shop", "orders"} : Flow!Tells(r, "ok", next)
  BY DEF Flow!Me
<1>3. next \in Flow!Steps \cup {None}
  BY DEF Flow!Steps
<1> QED BY <1>1, <1>2, <1>3, TellsHandled

-----------------------------------------------------------------------------
(* The login page: what a move keeps *)

\* Nobody else creates a shop.
LEMMA ShopsKept ==
    ASSUME Flow!IInv, NEW R, NEW Q, Moved(R, Q), shops' = shops, password'[Login] # None,
           \A q \in Q : q.stage = "creating" => \E r \in R : r.stage = "creating" /\ q.as = r.as
    PROVE  Flow!OneTrial' /\ Flow!OneCreates'
<1>1. Flow!OneTrial'
  BY DEF Flow!IInv, Flow!OneTrial, Flow!Ids
<1>2. /\ password[Login] # None /\ shops[Login] = 1
      /\ \A r, s \in requests : r.stage = "creating" =>
            r.as = Mobile /\ shops[Mobile] = 0 /\ (s.stage = "creating" => s = r)
  BY DEF Flow!IInv, Flow!OneCreates
<1>3. /\ R \subseteq requests /\ requests' = (requests \ R) \cup Q /\ \A q1, q2 \in Q : q1 = q2
  BY DEF Moved
<1>4. ASSUME NEW x \in requests', x.stage = "creating"
      PROVE  /\ x.as = Mobile /\ shops[Mobile] = 0
             /\ \A y \in requests' : y.stage = "creating" => y = x
  <2>1. CASE x \in Q
    BY <1>2, <1>3, <1>4, <2>1
  <2>2. CASE x \in requests \ R
    BY <1>2, <1>3, <1>4, <2>2
  <2> QED BY <1>3, <2>1, <2>2
<1> QED BY <1>1, <1>2, <1>4 DEF Flow!OneCreates

\* Nobody else has a code accepted.
LEMMA CodesKept ==
    ASSUME Flow!IInv, NEW R, NEW Q, Moved(R, Q), UNCHANGED <<challenges, used>>,
           \A q \in Q : q.stage = "applying" => \E r \in R : r.stage = "applying" /\ q.code = r.code
    PROVE  Flow!CodeUsedOnce' /\ Flow!CodesFresh'
<1>1. Flow!CodeUsedOnce'
  BY DEF Flow!IInv, Flow!CodeUsedOnce
<1>2. /\ \A c \in challenges : c.code \in 1..Len(used) /\ (~c.invalidated => used[c.code] = 0)
      /\ \A r, s \in requests : r.stage = "applying" =>
            /\ \E c \in challenges : c.code = r.code /\ ~c.invalidated
            /\ s.stage = "applying" /\ s.code = r.code => s = r
  BY DEF Flow!IInv, Flow!CodesFresh
<1>3. /\ R \subseteq requests /\ requests' = (requests \ R) \cup Q /\ \A q1, q2 \in Q : q1 = q2
  BY DEF Moved
<1>4. ASSUME NEW x \in requests', x.stage = "applying"
      PROVE  /\ \E c \in challenges : c.code = x.code /\ ~c.invalidated
             /\ \A y \in requests' : y.stage = "applying" /\ y.code = x.code => y = x
  <2>1. CASE x \in Q
    <3>1. PICK r \in R : r.stage = "applying" /\ x.code = r.code
      BY <1>4, <2>1
    <3> QED BY <1>2, <1>3, <1>4, <2>1, <3>1
  <2>2. CASE x \in requests \ R
    BY <1>2, <1>3, <1>4, <2>2
  <2> QED BY <1>3, <2>1, <2>2
<1> QED BY <1>1, <1>2, <1>4 DEF Flow!CodesFresh

\* While the server handles a request the pages fit as they did.
LEMMA PageKept ==
    ASSUME Flow!IInv, NEW r \in requests, NEW Q, Handled(r, Q), tab' = tab,
           \A i \in Flow!Ids : password[i] # None => password'[i] # None
    PROVE  Flow!StepFits' /\ Flow!Waiting' /\ \A x \in requests' : Flow!RequestFits(x)'
<1>1. /\ requests' = (requests \ {r}) \cup Q /\ \A q1, q2 \in Q : q1 = q2
      /\ \A q \in Q : q.t = r.t /\ q.kind = r.kind /\ q.as = r.as /\ q.waits = r.waits
      /\ \A q \in Q : Flow!RequestFits(q)
      /\ \A q \in Q : (q.answer # "none" => q.stage = "done") /\ (q.stage = "done" => q.waits)
  BY DEF Handled, Moved, Same
<1>2. Flow!StepFits'
  BY DEF Flow!IInv, Flow!TypeOK, Flow!StepFits, Flow!Page, Flow!Ids
<1>3. ASSUME NEW x \in requests' PROVE Flow!RequestFits(x)'
  <2>1. Flow!RequestFits(x)
    BY <1>1 DEF Flow!IInv
  <2> QED BY <2>1 DEF Flow!RequestFits
<1>4. Flow!Waiting'
  <2>1. Flow!Waiting
    BY DEF Flow!IInv
  <2>2. ASSUME NEW x \in requests'
        PROVE  \E y \in requests : /\ x.t = y.t /\ x.kind = y.kind /\ x.as = y.as /\ x.waits = y.waits
                                   /\ (x \in Q /\ y = r) \/ (x \notin Q /\ y = x)
    BY <1>1
  <2>3. ASSUME NEW x \in requests', x.waits, NEW s \in requests', s.waits, s.t = x.t
        PROVE  s = x
    <3>1. PICK y \in requests : y.t = x.t /\ y.waits /\ ((x \in Q /\ y = r) \/ (x \notin Q /\ y = x))
      BY <2>2, <2>3
    <3>2. PICK z \in requests : z.t = s.t /\ z.waits /\ ((s \in Q /\ z = r) \/ (s \notin Q /\ z = s))
      BY <2>2, <2>3
    <3>3. y = z
      BY <2>1, <2>3, <3>1, <3>2 DEF Flow!Waiting
    <3> QED BY <1>1, <3>1, <3>2, <3>3
  <2>4. ASSUME NEW x \in requests', x.waits
        PROVE  /\ tab[x.t].n # 0 /\ tab[x.t].pending
               /\ x.kind = "identify" => x.as = tab[x.t].id /\ tab[x.t].step = "identifier"
               /\ x.kind = "startReset" =>
                     x.as = tab[x.t].id /\ x.as = Mobile /\ tab[x.t].step = "password"
    BY <2>1, <2>2, <2>4 DEF Flow!Waiting
  <2>5. ASSUME NEW x \in requests'
        PROVE (x.answer # "none" => x.stage = "done") /\ (x.stage = "done" => x.waits)
    BY <1>1, <2>1 DEF Flow!Waiting
  <2> QED BY <2>3, <2>4, <2>5 DEF Flow!Waiting
<1> QED BY <1>2, <1>3, <1>4

-----------------------------------------------------------------------------
(* The login page: the server keeps the invariant *)

\* What a request that is neither accepted nor creates anything leaves as it was.
LEMMA QuietStep ==
    ASSUME Flow!IInv, NEW r \in requests, NEW Q, Handled(r, Q),
           \A q \in Q : q.stage \in {"done", "issuing"}, UNCHANGED <<Flow!server, cookie, tab, Flow!counts>>
    PROVE  Flow!IInv'
<1>1. UNCHANGED <<password, shops, challenges, used, cookie, tab, sent, lost, faults, visits>>
  BY DEF Flow!server, Flow!counts
<1>2. Moved({r}, Q) /\ requests \subseteq Flow!RequestRecord /\ password[Login] # None
  BY DEF Handled, Flow!IInv, Flow!TypeOK, Flow!OneCreates
<1>3. Flow!TypeOK'
  BY <1>1, <1>2, MovedType DEF Flow!IInv, Flow!TypeOK
<1>4. Flow!OneTrial' /\ Flow!OneCreates'
  BY <1>1, <1>2, ShopsKept
<1>5. Flow!CodeUsedOnce' /\ Flow!CodesFresh'
  BY <1>1, <1>2, CodesKept
<1>6. Flow!StepFits' /\ Flow!Waiting' /\ \A x \in requests' : Flow!RequestFits(x)'
  BY <1>1, PageKept
<1> QED BY <1>3, <1>4, <1>5, <1>6 DEF Flow!IInv

\* A new code was never accepted (issueChallenge).
LEMMA IssueStep ==
    ASSUME Flow!IInv, NEW r \in requests, NEW stored \in BOOLEAN, Flow!Issue(r, stored)
    PROVE  Flow!IInv'
<1> DEFINE n == Len(used)
           c == [code |-> n + 1, purpose |-> r.next, age |-> "new", invalidated |-> FALSE]
<1>1. PICK Q : Handled(r, Q) /\ \A q \in Q : q.stage = "done"
  BY IssueMoves
<1>2. /\ Moved({r}, Q) /\ Flow!TypeOK /\ Flow!OneCreates /\ Flow!CodesFresh /\ Flow!CodeUsedOnce
      /\ requests \subseteq Flow!RequestRecord /\ password[Login] # None /\ Flow!RequestFits(r)
  BY <1>1 DEF Handled, Flow!IInv, Flow!TypeOK, Flow!OneCreates
<1>3. UNCHANGED <<password, shops, cookie, tab>>
  BY DEF Flow!Issue
<1>4. Flow!TypeOK'
  BY <1>2, <1>3, MovedType, ServerType DEF Flow!TypeOK
<1>5. Flow!OneTrial' /\ Flow!OneCreates'
  BY <1>1, <1>2, <1>3, ShopsKept
<1>6. /\ used' = Append(used, 0) /\ used \in Seq(Nat) /\ n \in Nat
      /\ challenges' = challenges \/ challenges' = challenges \cup {c}
  BY <1>2 DEF Flow!Issue, Flow!TypeOK
<1>7. /\ Len(used') = n + 1 /\ used'[n + 1] = 0 /\ \A i \in 1..n : used'[i] = used[i]
  BY <1>6
<1>8. Flow!CodeUsedOnce'
  <2> SUFFICES ASSUME NEW i \in 1..Len(used') PROVE used'[i] <= 1
    BY DEF Flow!CodeUsedOnce
  <2>1. i = n + 1 \/ i \in 1..n
    BY <1>6, <1>7
  <2> QED BY <1>2, <1>7, <2>1 DEF Flow!CodeUsedOnce
<1>9. Flow!CodesFresh'
  <2>1. ASSUME NEW d \in challenges'
        PROVE  d.code \in 1..Len(used') /\ (~d.invalidated => used'[d.code] = 0)
    <3>1. CASE d \in challenges
      <4>1. d.code \in 1..n /\ (~d.invalidated => used[d.code] = 0)
        BY <1>2, <3>1 DEF Flow!CodesFresh
      <4> QED BY <1>6, <1>7, <4>1
    <3>2. CASE d = c
      BY <1>6, <1>7, <3>2
    <3> QED BY <1>6, <2>1, <3>1, <3>2
  <2>2. ASSUME NEW x \in requests', x.stage = "applying"
        PROVE  x \in requests /\ \E d \in challenges' : d.code = x.code /\ ~d.invalidated
    <3>1. x \in requests
      BY <1>1, <1>2, <2>2 DEF Moved
    <3> QED BY <1>2, <1>6, <2>2, <3>1 DEF Flow!CodesFresh
  <2>3. ASSUME NEW x \in requests', x.stage = "applying", NEW y \in requests',
               y.stage = "applying" /\ y.code = x.code
        PROVE  y = x
    BY <1>2, <2>2, <2>3 DEF Flow!CodesFresh
  <2> QED BY <2>1, <2>2, <2>3 DEF Flow!CodesFresh
<1>10. Flow!StepFits' /\ Flow!Waiting' /\ \A x \in requests' : Flow!RequestFits(x)'
  BY <1>1, <1>3, PageKept
<1> QED BY <1>4, <1>5, <1>8, <1>9, <1>10 DEF Flow!IInv

\* The lock of the challenge's row keeps every other request with the code out (verifyChallenge).
LEMMA TakeStep ==
    ASSUME Flow!IInv, NEW r \in requests, Flow!TakeChallenge(r)
    PROVE  Flow!IInv'
<1>1. PICK Q : /\ Handled(r, Q)
               /\ \A q \in Q : \/ q.stage = "done"
                               \/ /\ q.stage = "applying"
                                  /\ \E c \in Flow!Newest(r.kind) : c.code = r.code
  BY TakeMoves
<1>2. /\ Moved({r}, Q) /\ Flow!TypeOK /\ Flow!OneCreates /\ Flow!CodesFresh /\ Flow!CodeUsedOnce
      /\ requests \subseteq Flow!RequestRecord /\ password[Login] # None /\ Flow!RequestFits(r)
      /\ \A q \in Q : q.code = r.code
  BY <1>1 DEF Handled, Same, Flow!IInv, Flow!TypeOK, Flow!OneCreates
<1>3. UNCHANGED <<password, shops, challenges, used, cookie, tab>>
  BY DEF Flow!TakeChallenge, Flow!server
<1>4. Flow!TypeOK'
  BY <1>2, <1>3, MovedType, ServerType DEF Flow!TypeOK
<1>5. Flow!OneTrial' /\ Flow!OneCreates'
  BY <1>1, <1>2, <1>3, ShopsKept
<1>6. Flow!CodeUsedOnce'
  BY <1>2, <1>3 DEF Flow!CodeUsedOnce
<1>7. Flow!CodesFresh'
  <2>1. \A c \in challenges' : c.code \in 1..Len(used') /\ (~c.invalidated => used'[c.code] = 0)
    BY <1>2, <1>3 DEF Flow!CodesFresh
  <2>2. ASSUME NEW q \in Q, q.stage = "applying"
        PROVE  /\ \E c \in challenges' : c.code = q.code /\ ~c.invalidated
               /\ \A s \in requests : s.stage = "applying" => s.code # q.code
    <3>1. PICK c \in Flow!Newest(r.kind) : c.code = r.code
      BY <1>1, <2>2
    <3>2. c \in challenges /\ ~c.invalidated
      BY <3>1 DEF Flow!Newest
    <3>3. \A s \in requests : s.stage = "applying" => s.code # r.code
      BY <3>1 DEF Flow!TakeChallenge, Flow!RowUnlocked
    <3> QED BY <1>2, <1>3, <3>1, <3>2, <3>3
  <2>3. ASSUME NEW x \in requests', x.stage = "applying"
        PROVE  /\ \E c \in challenges' : c.code = x.code /\ ~c.invalidated
               /\ \A y \in requests' : y.stage = "applying" /\ y.code = x.code => y = x
    <3>1. /\ requests' = (requests \ {r}) \cup Q /\ \A q1, q2 \in Q : q1 = q2
      BY <1>2 DEF Moved
    <3>2. CASE x \in Q
      BY <2>2, <2>3, <3>1, <3>2
    <3>3. CASE x \in requests
      <4>1. /\ \E c \in challenges' : c.code = x.code /\ ~c.invalidated
            /\ \A y \in requests : y.stage = "applying" /\ y.code = x.code => y = x
        BY <1>2, <1>3, <2>3, <3>3 DEF Flow!CodesFresh
      <4>2. \A y \in Q : y.stage = "applying" => y.code # x.code
        BY <2>2, <2>3, <3>3
      <4> QED BY <3>1, <4>1, <4>2
    <3> QED BY <3>1, <3>2, <3>3
  <2> QED BY <2>1, <2>3 DEF Flow!CodesFresh
<1>8. Flow!StepFits' /\ Flow!Waiting' /\ \A x \in requests' : Flow!RequestFits(x)'
  BY <1>1, <1>3, PageKept
<1> QED BY <1>4, <1>5, <1>6, <1>7, <1>8 DEF Flow!IInv

\* A code that is accepted was not before, and no other request has it (verifyChallenge).
LEMMA ApplyStep ==
    ASSUME Flow!IInv, NEW r \in requests, NEW session \in BOOLEAN, Flow!Apply(r, session)
    PROVE  Flow!IInv'
<1>1. PICK Q : Handled(r, Q) /\ \A q \in Q : q.stage = "done"
  BY ApplyMoves
<1>2. /\ Moved({r}, Q) /\ Flow!TypeOK /\ Flow!OneCreates /\ Flow!CodesFresh /\ Flow!CodeUsedOnce
      /\ requests \subseteq Flow!RequestRecord /\ password[Login] # None /\ Flow!RequestFits(r)
      /\ challenges \subseteq Flow!Challenge
  BY <1>1 DEF Handled, Flow!IInv, Flow!TypeOK, Flow!OneCreates
<1>3. UNCHANGED <<shops, cookie, tab>> /\ r.stage = "applying"
  BY DEF Flow!Apply
<1>4. Flow!TypeOK'
  BY <1>2, <1>3, MovedType, ServerType DEF Flow!TypeOK
<1>5. \A i \in Flow!Ids : password[i] # None => password'[i] # None
  <2>1. r.pw # None
    BY <1>2, <1>3, FlowAssumption DEF Flow!RequestFits, Flow!LoginAssumption
  <2> QED BY <1>2, <2>1 DEF Flow!Apply, Flow!TypeOK
<1>6. Flow!OneTrial' /\ Flow!OneCreates'
  BY <1>1, <1>2, <1>3, <1>5, ShopsKept DEF Flow!Ids
<1>7. \A x \in requests' : x.stage = "applying" => x \in requests /\ x # r
  BY <1>1, <1>2 DEF Moved
<1>8. \A x \in requests' : x.stage = "applying" => x.code # r.code
  BY <1>2, <1>3, <1>7 DEF Flow!CodesFresh
<1>9. CASE challenges' = challenges /\ used' = used
  BY <1>1, <1>2, <1>9, CodesKept, <1>4, <1>6, <1>3, <1>5, PageKept DEF Flow!IInv
<1>10. CASE /\ challenges' = {IF c.code = r.code THEN [c EXCEPT !.invalidated = TRUE] ELSE c : c \in challenges}
            /\ used' = [used EXCEPT ![r.code] = @ + 1]
  <2>1. used \in Seq(Nat) /\ r.code \in 1..Len(used) /\ used[r.code] = 0
    BY <1>2, <1>3 DEF Flow!CodesFresh, Flow!TypeOK
  <2>2. /\ Len(used') = Len(used)
        /\ \A i \in 1..Len(used) : used'[i] = IF i = r.code THEN 1 ELSE used[i]
    BY <1>10, <2>1
  <2>3. Flow!CodeUsedOnce'
    BY <1>2, <2>2 DEF Flow!CodeUsedOnce
  <2>4. ASSUME NEW d \in challenges'
        PROVE  d.code \in 1..Len(used') /\ (~d.invalidated => used'[d.code] = 0)
    <3>1. PICK c \in challenges : d = IF c.code = r.code THEN [c EXCEPT !.invalidated = TRUE] ELSE c
      BY <1>10
    <3>2. c \in Flow!Challenge /\ c.code \in 1..Len(used) /\ (~c.invalidated => used[c.code] = 0)
      BY <1>2 DEF Flow!CodesFresh
    <3>3. d.code = c.code /\ (d.invalidated \/ (c.code # r.code /\ d = c))
      BY <3>1, <3>2 DEF Flow!Challenge
    <3> QED BY <2>2, <3>2, <3>3
  <2>5. ASSUME NEW x \in requests', x.stage = "applying"
        PROVE  /\ \E d \in challenges' : d.code = x.code /\ ~d.invalidated
               /\ \A y \in requests' : y.stage = "applying" /\ y.code = x.code => y = x
    <3>1. PICK c \in challenges : c.code = x.code /\ ~c.invalidated
      BY <1>2, <1>7, <2>5 DEF Flow!CodesFresh
    <3>2. c \in challenges'
      BY <1>8, <1>10, <2>5, <3>1
    <3> QED BY <1>2, <1>7, <2>5, <3>1, <3>2 DEF Flow!CodesFresh
  <2>6. Flow!CodesFresh'
    BY <2>4, <2>5 DEF Flow!CodesFresh
  <2> QED BY <1>1, <1>3, <1>4, <1>5, <1>6, <2>3, <2>6, PageKept DEF Flow!IInv
<1> QED BY <1>9, <1>10 DEF Flow!Apply

\* The lock of the account's row keeps every other request for a shop out (createSelfServiceShop).
LEMMA LockStep ==
    ASSUME Flow!IInv, NEW r \in requests, Flow!LockAdmin(r)
    PROVE  Flow!IInv'
<1>1. PICK Q : /\ Handled(r, Q)
               /\ \A q \in Q : \/ q.stage = "done"
                               \/ q.stage = "creating" /\ r.as = Mobile /\ shops[Mobile] = 0
  BY LockMoves
<1>2. /\ Moved({r}, Q) /\ Flow!TypeOK /\ Flow!OneCreates /\ Flow!OneTrial
      /\ requests \subseteq Flow!RequestRecord /\ password[Login] # None
      /\ \A q \in Q : q.as = r.as
  BY <1>1 DEF Handled, Same, Flow!IInv, Flow!TypeOK, Flow!OneCreates
<1>3. UNCHANGED <<password, shops, challenges, used, cookie, tab>>
  BY DEF Flow!LockAdmin, Flow!server
<1>4. Flow!TypeOK'
  BY <1>2, <1>3, MovedType, ServerType DEF Flow!TypeOK, Flow!IInv
<1>5. Flow!OneTrial'
  BY <1>2, <1>3 DEF Flow!OneTrial, Flow!Ids
<1>6. ASSUME NEW x \in requests', x.stage = "creating"
      PROVE  /\ x.as = Mobile /\ shops'[Mobile] = 0
             /\ \A y \in requests' : y.stage = "creating" => y = x
  <2>1. requests' = (requests \ {r}) \cup Q /\ \A q1, q2 \in Q : q1 = q2
    BY <1>2 DEF Moved
  <2>2. \A s \in requests : s.stage = "creating" => s.as # r.as /\ s.as = Mobile /\ shops[Mobile] = 0
    BY <1>2 DEF Flow!LockAdmin, Flow!AdminUnlocked, Flow!OneCreates
  <2>3. CASE x \in Q
    BY <1>1, <1>2, <1>3, <1>6, <2>1, <2>2, <2>3
  <2>4. CASE x \in requests
    <3>1. \A y \in Q : y.stage # "creating"
      BY <1>1, <1>6, <2>2, <2>4
    <3> QED BY <1>2, <1>3, <1>6, <2>1, <2>2, <2>4, <3>1 DEF Flow!OneCreates
  <2> QED BY <2>1, <2>3, <2>4
<1>7. Flow!OneCreates'
  BY <1>2, <1>3, <1>6 DEF Flow!OneCreates
<1>8. Flow!CodeUsedOnce' /\ Flow!CodesFresh'
  BY <1>1, <1>2, <1>3, CodesKept
<1>9. Flow!StepFits' /\ Flow!Waiting' /\ \A x \in requests' : Flow!RequestFits(x)'
  BY <1>1, <1>3, PageKept
<1> QED BY <1>4, <1>5, <1>7, <1>8, <1>9 DEF Flow!IInv

\* The one that creates does so for an account without a shop (createSelfServiceShop).
LEMMA StoreStep ==
    ASSUME Flow!IInv, NEW r \in requests, Flow!StoreShop(r)
    PROVE  Flow!IInv'
<1>1. PICK Q : Handled(r, Q) /\ \A q \in Q : q.stage = "done"
  BY StoreMoves
<1>2. /\ Moved({r}, Q) /\ Flow!TypeOK /\ Flow!OneCreates /\ Flow!OneTrial /\ r.stage = "creating"
      /\ requests \subseteq Flow!RequestRecord /\ password[Login] # None /\ Mobile # Login
  BY <1>1, FlowAssumption DEF Handled, Flow!IInv, Flow!TypeOK, Flow!OneCreates, Flow!StoreShop, Flow!LoginAssumption
<1>3. UNCHANGED <<password, challenges, used, cookie, tab>> /\ shops' = [shops EXCEPT ![Mobile] = 1]
  <2>1. r.as = Mobile /\ shops[Mobile] = 0
    BY <1>2 DEF Flow!OneCreates
  <2>2. shops' = [shops EXCEPT ![Mobile] = shops[Mobile] + 1]
    BY <2>1 DEF Flow!StoreShop
  <2> QED BY <2>1, <2>2 DEF Flow!StoreShop
<1>4. Flow!TypeOK'
  BY <1>2, <1>3, MovedType, ServerType DEF Flow!TypeOK, Flow!IInv
<1>5. Flow!OneTrial'
  BY <1>2, <1>3 DEF Flow!OneTrial, Flow!Ids, Flow!TypeOK
<1>6. \A x \in requests' : x.stage # "creating"
  BY <1>1, <1>2 DEF Moved, Flow!OneCreates
<1>7. Flow!OneCreates'
  BY <1>2, <1>3, <1>6 DEF Flow!OneCreates, Flow!Ids, Flow!TypeOK
<1>8. Flow!CodeUsedOnce' /\ Flow!CodesFresh'
  BY <1>1, <1>2, <1>3, CodesKept
<1>9. Flow!StepFits' /\ Flow!Waiting' /\ \A x \in requests' : Flow!RequestFits(x)'
  BY <1>1, <1>3, PageKept
<1> QED BY <1>4, <1>5, <1>7, <1>8, <1>9 DEF Flow!IInv

\* Age changes neither the code of a challenge nor its state.
LEMMA TickStep ==
    ASSUME Flow!IInv, NEW c \in challenges, Flow!Tick(c)
    PROVE  Flow!IInv'
<1> DEFINE d == [c EXCEPT !.age = IF c.age = "new" THEN "old" ELSE "expired"]
<1>1. UNCHANGED <<password, shops, used, cookie, tab, requests, sent, lost, faults, visits>>
      /\ challenges' = (challenges \ {c}) \cup {d} /\ challenges \subseteq Flow!Challenge
  BY DEF Flow!Tick, Flow!counts, Flow!IInv, Flow!TypeOK
<1>2. d \in Flow!Challenge /\ d.code = c.code /\ d.invalidated = c.invalidated
  BY <1>1 DEF Flow!Challenge, Flow!Ages
<1> HIDE DEF d
<1>3. Flow!TypeOK'
  BY <1>1, <1>2 DEF Flow!IInv, Flow!TypeOK
<1>4. Flow!CodesFresh'
  <2>1. \A b \in challenges' : b.code \in 1..Len(used) /\ (~b.invalidated => used[b.code] = 0)
    BY <1>1, <1>2 DEF Flow!IInv, Flow!CodesFresh
  <2>2. ASSUME NEW x \in requests, x.stage = "applying"
        PROVE  \E b \in challenges' : b.code = x.code /\ ~b.invalidated
    <3>1. PICK b \in challenges : b.code = x.code /\ ~b.invalidated
      BY <2>2 DEF Flow!IInv, Flow!CodesFresh
    <3> QED BY <1>1, <1>2, <3>1
  <2> QED BY <1>1, <2>1, <2>2 DEF Flow!IInv, Flow!CodesFresh
<1>5. Flow!OneTrial' /\ Flow!OneCreates' /\ Flow!CodeUsedOnce'
  BY <1>1 DEF Flow!IInv, Flow!OneTrial, Flow!OneCreates, Flow!CodeUsedOnce, Flow!Ids
<1>6. Flow!StepFits' /\ Flow!Waiting' /\ \A x \in requests' : Flow!RequestFits(x)'
  BY <1>1 DEF Flow!IInv, Flow!StepFits, Flow!Waiting, Flow!RequestFits, Flow!Ids
<1> QED BY <1>3, <1>4, <1>5, <1>6 DEF Flow!IInv

-----------------------------------------------------------------------------
(* The login page: what happens in the browser keeps the invariant *)

\* A page asks about what it shows (run).
LEMMA RunStep ==
    ASSUME Flow!IInv, NEW t \in Tabs, NEW kind \in Flow!Kinds, NEW code \in Nat,
           NEW pw \in Passwords \cup {None}, Flow!Run(t, kind, code, pw),
           kind \in {"signup", "reset"} => pw \in Passwords, kind \notin {"me", "meAfterShop"},
           kind = "identify" => tab[t].step = "identifier",
           kind = "startReset" => tab[t].step = "password" /\ tab[t].id = Mobile
    PROVE  Flow!IInv'
<1>1. PICK q \in Flow!RequestRecord :
         Moved({}, {q}) /\ Asks(q, t, kind, IF kind = "shop" THEN cookie ELSE tab[t].id, pw)
  BY RunMoves DEF Flow!IInv
<1>2. /\ UNCHANGED <<password, shops, challenges, used, cookie, lost, faults, visits>>
      /\ sent' = sent + 1 /\ tab' = [tab EXCEPT ![t].pending = TRUE]
      /\ tab[t].n # 0 /\ ~tab[t].pending
  BY DEF Flow!Run, Flow!server
<1>3. /\ requests' = requests \cup {q} /\ tab \in [Tabs -> Flow!Page] /\ tab[t] \in Flow!Page
      /\ requests \subseteq Flow!RequestRecord /\ password[Login] # None /\ Flow!TypeOK
  BY <1>1 DEF Moved, Flow!IInv, Flow!TypeOK, Flow!OneCreates
<1>4. /\ tab' \in [Tabs -> Flow!Page] /\ \A u \in Tabs \ {t} : tab'[u] = tab[u]
      /\ tab'[t].pending /\ tab'[t].n = tab[t].n /\ tab'[t].step = tab[t].step /\ tab'[t].id = tab[t].id
      /\ \A u \in Tabs : tab'[u].n = 0 => tab'[u] = Flow!Closed
  <2>1. [tab[t] EXCEPT !.pending = TRUE] \in Flow!Page
    BY <1>3 DEF Flow!Page
  <2> QED BY <1>2, <1>3, <2>1 DEF Flow!Page, Flow!TypeOK
<1>5. Flow!TypeOK'
  BY <1>2, <1>3, <1>4 DEF Flow!TypeOK
<1>6. Flow!OneTrial' /\ Flow!OneCreates'
  BY <1>1, <1>2, <1>3, ShopsKept DEF Asks
<1>7. Flow!CodeUsedOnce' /\ Flow!CodesFresh'
  BY <1>1, <1>2, <1>3, CodesKept DEF Asks
<1>8. Flow!StepFits'
  BY <1>2, <1>4 DEF Flow!IInv, Flow!StepFits
<1>9. \A r \in requests : r.waits => r.t # t
  BY <1>2 DEF Flow!IInv, Flow!Waiting
<1>10. Flow!Waiting'
  BY <1>1, <1>2, <1>3, <1>4, <1>9 DEF Asks, Flow!IInv, Flow!Waiting, Flow!RequestRecord
<1>11. \A x \in requests' : Flow!RequestFits(x)'
  BY <1>1, <1>2, <1>3 DEF Asks, Flow!IInv, Flow!RequestFits, Flow!Page
<1> QED BY <1>5, <1>6, <1>7, <1>8, <1>10, <1>11 DEF Flow!IInv

\* A page without a request may change what it shows, if that fits; no other page sees it.
LEMMA ShownStep ==
    ASSUME Flow!IInv, NEW t \in Tabs, NEW p \in Flow!Page, p.n # 0, ~tab[t].pending,
           tab' = [tab EXCEPT ![t] = p], UNCHANGED <<Flow!server, cookie, requests, Flow!counts>>,
           p.step \in {"password", "signup", "reset"} => tab[t].step = p.step /\ tab[t].id = p.id
    PROVE  Flow!IInv'
<1>1. UNCHANGED <<password, shops, challenges, used, cookie, requests, sent, lost, faults, visits>>
  BY DEF Flow!server, Flow!counts
<1>2. /\ tab'[t] = p /\ \A u \in Tabs \ {t} : tab'[u] = tab[u]
      /\ requests \subseteq Flow!RequestRecord
  BY DEF Flow!IInv, Flow!TypeOK
<1>3. Flow!TypeOK'
  BY <1>1, PageType DEF Flow!IInv, Flow!TypeOK
<1>4. Flow!OneTrial' /\ Flow!OneCreates' /\ Flow!CodeUsedOnce' /\ Flow!CodesFresh'
  BY <1>1 DEF Flow!IInv, Flow!OneTrial, Flow!OneCreates, Flow!CodeUsedOnce, Flow!CodesFresh, Flow!Ids
<1>5. Flow!StepFits'
  BY <1>1, <1>2 DEF Flow!IInv, Flow!StepFits
<1>6. \A r \in requests : r.waits => r.t # t
  BY DEF Flow!IInv, Flow!Waiting
<1>7. Flow!Waiting'
  BY <1>1, <1>2, <1>6 DEF Flow!IInv, Flow!Waiting, Flow!RequestRecord
<1>8. \A x \in requests' : Flow!RequestFits(x)'
  BY <1>1 DEF Flow!IInv, Flow!RequestFits
<1> QED BY <1>3, <1>4, <1>5, <1>7, <1>8 DEF Flow!IInv

\* A mounted page shows what fits.
PageFits(p) ==
    /\ p.n # 0
    /\ p.step = "password" => password[p.id] # None
    /\ p.step = "signup" => p.id = Mobile
    /\ p.step = "reset" => p.id = Mobile /\ password[Mobile] # None

\* What may follow r when its page, from now on p, is told: what its handler still does, or
\* the question who is logged in.
Follows(q, r, p) ==
    /\ q.t = r.t /\ q.stage # "done" /\ q.answer = "none"
    /\ q.waits => p.pending /\ q.kind \in {"me", "meAfterShop"}
    /\ q.stage \in {"applying", "creating"} => q.stage = r.stage /\ q.code = r.code /\ q.as = r.as

\* An answer, or its failure, ends the wait of its page, which then shows what fits; or the
\* page goes on to the next request.
LEMMA AnswerStep ==
    ASSUME Flow!IInv, NEW r \in requests, r.waits, NEW Q, Moved({r}, Q),
           NEW p \in Flow!Page, tab' = [tab EXCEPT ![r.t] = p],
           UNCHANGED <<Flow!server, faults, visits>>, cookie' \in Flow!Ids \cup {None},
           sent' \in Nat, lost' \in 0..MaxLosses,
           PageFits(p), \A q \in Q : Flow!RequestFits(q) /\ Follows(q, r, p)
    PROVE  Flow!IInv'
<1>1. UNCHANGED <<password, shops, challenges, used, faults, visits>>
  BY DEF Flow!server
<1>2. /\ requests \subseteq Flow!RequestRecord /\ r.t \in Tabs /\ password[Login] # None
      /\ Flow!TypeOK /\ tab \in [Tabs -> Flow!Page]
  BY DEF Flow!IInv, Flow!TypeOK, Flow!OneCreates, Flow!RequestRecord
<1>3. /\ tab'[r.t] = p /\ \A u \in Tabs \ {r.t} : tab'[u] = tab[u]
      /\ requests' = (requests \ {r}) \cup Q /\ \A q1, q2 \in Q : q1 = q2
  BY <1>2 DEF Moved
<1>4. Flow!TypeOK'
  BY <1>1, <1>2, MovedType, PageType DEF Flow!TypeOK, PageFits
<1>5. Flow!OneTrial' /\ Flow!OneCreates'
  BY <1>1, <1>2, ShopsKept DEF Follows
<1>6. Flow!CodeUsedOnce' /\ Flow!CodesFresh'
  BY <1>1, <1>2, CodesKept DEF Follows
<1>7. Flow!StepFits'
  BY <1>1, <1>3 DEF Flow!IInv, Flow!StepFits, PageFits
<1>8. \A x \in requests : x.waits /\ x # r => x.t # r.t
  BY DEF Flow!IInv, Flow!Waiting
<1>9. Flow!Waiting'
  BY <1>1, <1>2, <1>3, <1>8 DEF Flow!IInv, Flow!Waiting, Flow!RequestRecord, PageFits, Follows
<1>10. \A x \in requests' : Flow!RequestFits(x)'
  BY <1>1, <1>3 DEF Flow!IInv, Flow!RequestFits
<1> QED BY <1>4, <1>5, <1>6, <1>7, <1>9, <1>10 DEF Flow!IInv

\* Opening a page (App): it waits for nothing, and shows no step that asks for a code or
\* a password.
LEMMA VisitStep ==
    ASSUME Flow!IInv, NEW t \in Tabs, Flow!Visit(t)
    PROVE  Flow!IInv'
<1> DEFINE step == IF cookie = None THEN "identifier"
                   ELSE IF shops[cookie] = 0 THEN "noShop" ELSE "orders"
           p == [Flow!Closed EXCEPT !.n = visits + 1, !.step = step]
<1>1. /\ requests' \subseteq Flow!RequestRecord
      /\ \A q \in requests' : \E r \in requests :
            /\ q = IF r.t = t THEN [r EXCEPT !.waits = FALSE] ELSE r
            /\ q.t = r.t /\ q.kind = r.kind /\ q.as = r.as /\ q.code = r.code /\ q.pw = r.pw
            /\ q.stage = r.stage /\ q.answer = r.answer /\ q.next = r.next
            /\ q.waits = (r.waits /\ r.t # t) /\ (r.t = t => r.stage # "done")
  BY VisitMoves DEF Flow!IInv
<1>2. /\ UNCHANGED <<password, shops, challenges, used, cookie, sent, lost, faults>>
      /\ visits < MaxVisits /\ visits' = visits + 1 /\ tab' = [tab EXCEPT ![t] = p]
      /\ Flow!TypeOK /\ visits \in 0..MaxVisits /\ requests \subseteq Flow!RequestRecord
      /\ tab \in [Tabs -> Flow!Page]
  BY DEF Flow!Visit, Flow!server, Flow!IInv, Flow!TypeOK
<1>3. /\ p \in Flow!Page /\ p.n # 0 /\ p.step \notin {"password", "signup", "reset"}
      /\ visits' \in 0..MaxVisits
  <2>1. step \in Flow!Steps \ {"password", "signup", "reset"}
    BY DEF Flow!Steps
  <2>2. visits + 1 \in 0..MaxVisits /\ visits + 1 # 0
    BY <1>2, FlowAssumption DEF Flow!LoginAssumption
  <2>3. Flow!Closed \in Flow!Page
    BY FlowAssumption DEF Flow!Closed, Flow!Page, Flow!Steps, Flow!Ids, Flow!LoginAssumption
  <2> HIDE DEF step
  <2> QED BY <1>2, <2>1, <2>2, <2>3 DEF Flow!Page
<1> HIDE DEF p
<1>4. tab'[t] = p /\ \A u \in Tabs \ {t} : tab'[u] = tab[u]
  BY <1>2
<1>5. Flow!TypeOK'
  BY <1>1, <1>2, <1>3, PageType DEF Flow!TypeOK
<1>6. Flow!OneTrial' /\ Flow!OneCreates' /\ Flow!CodeUsedOnce'
  BY <1>1, <1>2 DEF Flow!IInv, Flow!OneTrial, Flow!OneCreates, Flow!CodeUsedOnce, Flow!Ids
<1>7. Flow!CodesFresh'
  BY <1>1, <1>2 DEF Flow!IInv, Flow!CodesFresh
<1>8. Flow!StepFits'
  BY <1>2, <1>3, <1>4 DEF Flow!IInv, Flow!StepFits
<1>9. Flow!Waiting'
  <2>1. Flow!Waiting
    BY DEF Flow!IInv
  <2>2. \A q \in requests' : q.waits => q \in requests /\ q.t \in Tabs \ {t}
    BY <1>1, <1>2 DEF Flow!RequestRecord
  <2>3. \A q \in requests' : (q.answer # "none" => q.stage = "done") /\ (q.stage = "done" => q.waits)
    BY <1>1, <2>1 DEF Flow!Waiting
  <2> QED BY <1>4, <2>1, <2>2, <2>3 DEF Flow!Waiting
<1>10. \A x \in requests' : Flow!RequestFits(x)'
  <2> SUFFICES ASSUME NEW q \in requests' PROVE Flow!RequestFits(q)'
    OBVIOUS
  <2>1. PICK r \in requests :
           /\ q.kind = r.kind /\ q.as = r.as /\ q.pw = r.pw
           /\ q.stage = r.stage /\ q.answer = r.answer /\ q.next = r.next
    BY <1>1
  <2>2. Flow!RequestFits(r)
    BY DEF Flow!IInv
  <2> QED BY <1>2, <2>1, <2>2 DEF Flow!RequestFits
<1> QED BY <1>5, <1>6, <1>7, <1>8, <1>9, <1>10 DEF Flow!IInv

\* The page that waits for r, and what it shows.
LEMMA PageOf ==
    ASSUME Flow!IInv, NEW r \in requests, r.waits
    PROVE  r.t \in Tabs /\ tab \in [Tabs -> Flow!Page] /\ tab[r.t] \in Flow!Page /\ PageFits(tab[r.t])
BY DEF Flow!IInv, Flow!TypeOK, Flow!RequestRecord, Flow!Waiting, Flow!StepFits, PageFits

\* A failed connection (api).
LEMMA LoseStep ==
    ASSUME Flow!IInv, NEW r \in requests, Flow!Lose(r)
    PROVE  Flow!IInv'
<1> DEFINE p == [tab[r.t] EXCEPT !.pending = FALSE]
<1>1. PICK Q : Moved({r}, Q) /\ \A q \in Q : Dropped(q, r)
  BY LoseMoves DEF Flow!IInv
<1>2. /\ r.waits /\ UNCHANGED <<Flow!server, cookie, sent, faults, visits>> /\ lost' = lost + 1
      /\ lost < MaxLosses /\ tab' = Flow!Error(r)
  BY DEF Flow!Lose
<1>3. r.t \in Tabs /\ tab \in [Tabs -> Flow!Page] /\ tab[r.t] \in Flow!Page /\ PageFits(tab[r.t])
  BY <1>2, PageOf
<1>4. p \in Flow!Page /\ PageFits(p) /\ tab' = [tab EXCEPT ![r.t] = p]
  BY <1>2, <1>3 DEF Flow!Page, PageFits, Flow!Error, Flow!PendingAfterError, Flow!StepAfterError
<1>5. \A q \in Q : Flow!RequestFits(q) /\ Follows(q, r, p)
  BY <1>1 DEF Dropped, Follows, Flow!IInv, Flow!RequestFits, Flow!Waiting
<1>6. cookie' \in Flow!Ids \cup {None} /\ sent' \in Nat /\ lost' \in 0..MaxLosses
  BY <1>2, FlowAssumption DEF Flow!IInv, Flow!TypeOK, Flow!LoginAssumption
<1> HIDE DEF p
<1> QED BY <1>1, <1>2, <1>3, <1>4, <1>5, <1>6, AnswerStep

\* Whoever was answered waits for the answer.
LEMMA AnsweredWaits ==
    ASSUME Flow!IInv, NEW r \in requests, r.answer # "none"
    PROVE  r.waits
BY DEF Flow!IInv, Flow!Waiting

\* An error shows and the page stays (run).
LEMMA RefuseStep ==
    ASSUME Flow!IInv, NEW r \in requests, Flow!Refuse(r)
    PROVE  Flow!IInv'
<1> DEFINE p == [tab[r.t] EXCEPT !.pending = FALSE]
<1>1. /\ r.waits /\ UNCHANGED <<Flow!server, cookie, sent, lost, faults, visits>>
      /\ tab' = Flow!Error(r) /\ requests' = requests \ {r}
  BY AnsweredWaits DEF Flow!Refuse, Flow!counts
<1> DEFINE Q == {}
<1>2. Moved({r}, Q)
  BY <1>1 DEF Moved
<1>3. r.t \in Tabs /\ tab \in [Tabs -> Flow!Page] /\ tab[r.t] \in Flow!Page /\ PageFits(tab[r.t])
  BY <1>1, PageOf
<1>4. p \in Flow!Page /\ PageFits(p) /\ tab' = [tab EXCEPT ![r.t] = p]
  BY <1>1, <1>3 DEF Flow!Page, PageFits, Flow!Error, Flow!PendingAfterError, Flow!StepAfterError
<1>5. cookie' \in Flow!Ids \cup {None} /\ sent' \in Nat /\ lost' \in 0..MaxLosses
  BY <1>1 DEF Flow!IInv, Flow!TypeOK
<1>6. \A q \in Q : Flow!RequestFits(q) /\ Follows(q, r, p)
  OBVIOUS
<1> HIDE DEF p, Q
<1> QED BY <1>1, <1>2, <1>4, <1>5, <1>6, AnswerStep

\* A login goes on, and the page waits on (done).
LEMMA GoOnStep ==
    ASSUME Flow!IInv, NEW r \in requests, Flow!GoOn(r)
    PROVE  Flow!IInv'
<1> DEFINE p == [tab[r.t] EXCEPT !.pending = TRUE]
<1>1. PICK q \in Flow!RequestRecord :
         /\ Moved({r}, {q})
         /\ Asks(q, r.t, IF r.kind = "shop" THEN "meAfterShop" ELSE "me", Flow!Session(r), None)
  BY GoOnMoves DEF Flow!IInv
<1>2. /\ r.waits /\ UNCHANGED <<Flow!server, lost, faults, visits>> /\ sent' = sent + 1
      /\ cookie' = Flow!Session(r) /\ r.kind \in {"password", "signup", "reset", "shop"}
      /\ tab' = [tab EXCEPT ![r.t].pending = Flow!StillPending(r)]
  BY AnsweredWaits DEF Flow!GoOn
<1>3. r.t \in Tabs /\ tab \in [Tabs -> Flow!Page] /\ tab[r.t] \in Flow!Page /\ PageFits(tab[r.t])
  BY <1>2, PageOf
<1>4. p \in Flow!Page /\ PageFits(p) /\ p.pending /\ tab' = [tab EXCEPT ![r.t] = p]
  BY <1>2, <1>3 DEF Flow!Page, PageFits, Flow!StillPending
<1>5. /\ r.kind # "shop" => Flow!Session(r) \in Flow!Ids
      /\ cookie' \in Flow!Ids \cup {None} /\ sent' \in Nat /\ lost' \in 0..MaxLosses
  BY <1>2 DEF Flow!IInv, Flow!TypeOK, Flow!RequestFits, Flow!Session
<1>6. Flow!RequestFits(q) /\ Follows(q, r, p)
  BY <1>1, <1>2, <1>4, <1>5 DEF Asks, Follows, Flow!RequestFits
<1> DEFINE Q == {q}
<1>7. Moved({r}, Q) /\ \A x \in Q : Flow!RequestFits(x) /\ Follows(x, r, p)
  BY <1>1, <1>6
<1> HIDE DEF p, Q
<1> QED BY <1>2, <1>4, <1>5, <1>7, AnswerStep

\* The step an answer leads to fits what the page shows (identify, startReset, done).
LEMMA FinishStep ==
    ASSUME Flow!IInv, NEW r \in requests, Flow!Finish(r)
    PROVE  Flow!IInv'
<1> DEFINE p == [tab[r.t] EXCEPT !.pending = FALSE, !.step = r.next]
<1>1. /\ r.waits /\ UNCHANGED <<Flow!server, cookie, sent, lost, faults, visits>>
      /\ r.answer = "ok" /\ r.kind \in {"identify", "startReset", "me", "meAfterShop"}
      /\ tab' = [tab EXCEPT ![r.t].pending = FALSE, ![r.t].step = r.next]
      /\ requests' = requests \ {r} /\ Flow!RequestFits(r)
  BY AnsweredWaits DEF Flow!Finish, Flow!counts, Flow!IInv
<1> DEFINE Q == {}
<1>2. Moved({r}, Q)
  BY <1>1 DEF Moved
<1>3. r.t \in Tabs /\ tab \in [Tabs -> Flow!Page] /\ tab[r.t] \in Flow!Page /\ PageFits(tab[r.t])
  BY <1>1, PageOf
<1>4. /\ r.kind = "identify" => r.as = tab[r.t].id
      /\ r.kind = "startReset" =>
            r.as = tab[r.t].id /\ r.as = Mobile /\ tab[r.t].step = "password"
  BY <1>1 DEF Flow!IInv, Flow!Waiting
<1>5. /\ p \in Flow!Page /\ p.step = r.next /\ p.id = tab[r.t].id /\ p.n = tab[r.t].n
      /\ tab' = [tab EXCEPT ![r.t] = p]
  <2>1. r.next \in Flow!Steps
    BY <1>1 DEF Flow!RequestFits, Flow!Steps
  <2> QED BY <1>1, <1>3, <2>1 DEF Flow!Page
<1>6. PageFits(p)
  BY <1>1, <1>3, <1>4, <1>5 DEF PageFits, Flow!RequestFits
<1>7. cookie' \in Flow!Ids \cup {None} /\ sent' \in Nat /\ lost' \in 0..MaxLosses
  BY <1>1 DEF Flow!IInv, Flow!TypeOK
<1>8. \A q \in Q : Flow!RequestFits(q) /\ Follows(q, r, p)
  OBVIOUS
<1> HIDE DEF p, Q
<1> QED BY <1>1, <1>2, <1>5, <1>6, <1>7, <1>8, AnswerStep

\* The invariant holds when nobody has opened a page.
LEMMA FlowInit == Flow!Init => Flow!IInv
<1> SUFFICES ASSUME Flow!Init PROVE Flow!IInv
  OBVIOUS
<1>1. Flow!TypeOK
  BY FlowTypeInit
<1>2. /\ requests = {} /\ challenges = {} /\ used = << >> /\ password[Login] # None
      /\ shops[Login] = 1 /\ \A i \in Flow!Ids : shops[i] <= 1
      /\ \A t \in Tabs : tab[t].step = "identifier"
  BY FlowAssumption DEF Flow!Init, Flow!Closed, Flow!Ids, Flow!LoginAssumption
<1> QED BY <1>1, <1>2 DEF Flow!IInv, Flow!OneTrial, Flow!OneCreates, Flow!CodeUsedOnce,
                          Flow!CodesFresh, Flow!StepFits, Flow!Waiting

\* Every step of the browser or the server keeps it.
LEMMA FlowStep == Flow!IInv /\ [Flow!Next]_flowVars => Flow!IInv'
<1> SUFFICES ASSUME Flow!IInv, [Flow!Next]_flowVars PROVE Flow!IInv'
  OBVIOUS
<1> USE DEF Flow!Kinds
<1>1. ASSUME NEW c \in challenges, Flow!Tick(c) PROVE Flow!IInv'
  BY <1>1, TickStep
<1>2. ASSUME NEW t \in Tabs, Flow!Visit(t) PROVE Flow!IInv'
  BY <1>2, VisitStep
<1>3. ASSUME NEW t \in Tabs, Flow!ChangeIdentifier(t) PROVE Flow!IInv'
  <2> DEFINE p == [tab[t] EXCEPT !.step = "identifier"]
  <2>1. tab[t] \in Flow!Page
    BY DEF Flow!IInv, Flow!TypeOK
  <2>2. p \in Flow!Page /\ p.n = tab[t].n /\ p.step = "identifier"
    BY <2>1 DEF Flow!Page, Flow!Steps
  <2> HIDE DEF p
  <2>3. /\ tab' = [tab EXCEPT ![t] = p] /\ ~tab[t].pending /\ tab[t].n # 0
        /\ UNCHANGED <<Flow!server, cookie, requests, Flow!counts>>
    BY <1>3 DEF Flow!ChangeIdentifier, p
  <2> QED BY <2>2, <2>3, ShownStep
<1>4. ASSUME NEW t \in Tabs, NEW id \in Flow!Ids, Flow!TypeIdentifier(t, id) PROVE Flow!IInv'
  <2> DEFINE p == [tab[t] EXCEPT !.id = id]
  <2>1. tab[t] \in Flow!Page /\ tab[t].step = "identifier"
    BY <1>4 DEF Flow!IInv, Flow!TypeOK, Flow!TypeIdentifier
  <2>2. p \in Flow!Page /\ p.n = tab[t].n /\ p.step = "identifier"
    BY <2>1 DEF Flow!Page
  <2> HIDE DEF p
  <2>3. /\ tab' = [tab EXCEPT ![t] = p] /\ ~tab[t].pending /\ tab[t].n # 0
        /\ UNCHANGED <<Flow!server, cookie, requests, Flow!counts>>
    BY <1>4 DEF Flow!TypeIdentifier, p
  <2> QED BY <2>2, <2>3, ShownStep
<1>5. ASSUME NEW t \in Tabs, Flow!Identify(t) PROVE Flow!IInv'
  BY <1>5, RunStep DEF Flow!Identify
<1>6. ASSUME NEW t \in Tabs, Flow!StartReset(t) PROVE Flow!IInv'
  BY <1>6, RunStep DEF Flow!StartReset
<1>7. ASSUME NEW t \in Tabs, Flow!CreateShop(t) PROVE Flow!IInv'
  BY <1>7, RunStep DEF Flow!CreateShop
<1>8. ASSUME NEW t \in Tabs, NEW pw \in Passwords, Flow!LogIn(t, pw) PROVE Flow!IInv'
  BY <1>8, RunStep DEF Flow!LogIn
<1>9. ASSUME NEW t \in Tabs, NEW pw \in Passwords, NEW code \in 1..Len(used),
             Flow!SignUp(t, code, pw) \/ Flow!Reset(t, code, pw)
      PROVE  Flow!IInv'
  <2>1. code \in Nat
    BY DEF Flow!IInv, Flow!TypeOK
  <2> QED BY <1>9, <2>1, RunStep DEF Flow!SignUp, Flow!Reset
<1>10. ASSUME NEW r \in requests, Flow!Check(r) PROVE Flow!IInv'
  BY <1>10, CheckMoves, QuietStep DEF Flow!Check
<1>11. ASSUME NEW r \in requests, NEW stored \in BOOLEAN, Flow!Issue(r, stored) PROVE Flow!IInv'
  BY <1>11, IssueStep
<1>12. ASSUME NEW r \in requests, Flow!PasswordLogin(r) PROVE Flow!IInv'
  BY <1>12, PasswordMoves, QuietStep DEF Flow!PasswordLogin
<1>13. ASSUME NEW r \in requests, Flow!TakeChallenge(r) PROVE Flow!IInv'
  BY <1>13, TakeStep
<1>14. ASSUME NEW r \in requests, NEW session \in BOOLEAN, Flow!Apply(r, session) PROVE Flow!IInv'
  BY <1>14, ApplyStep
<1>15. ASSUME NEW r \in requests, Flow!LockAdmin(r) PROVE Flow!IInv'
  BY <1>15, LockStep
<1>16. ASSUME NEW r \in requests, Flow!StoreShop(r) PROVE Flow!IInv'
  BY <1>16, StoreStep
<1>17. ASSUME NEW r \in requests, Flow!Me(r) PROVE Flow!IInv'
  BY <1>17, MeMoves, QuietStep DEF Flow!Me
<1>18. ASSUME NEW r \in requests, Flow!Lose(r) \/ Flow!Refuse(r) \/ Flow!GoOn(r) \/ Flow!Finish(r)
       PROVE  Flow!IInv'
  BY <1>18, LoseStep, RefuseStep, GoOnStep, FinishStep
<1>19. CASE UNCHANGED flowVars
  <2>1. UNCHANGED <<password, shops, challenges, used, cookie, tab, requests, sent, lost, faults, visits>>
    BY <1>19 DEF flowVars
  <2> QED BY <2>1 DEF Flow!IInv, Flow!TypeOK, Flow!OneTrial, Flow!OneCreates, Flow!CodeUsedOnce,
                      Flow!CodesFresh, Flow!StepFits, Flow!Waiting, Flow!RequestFits
<1> QED
  BY <1>1, <1>2, <1>3, <1>4, <1>5, <1>6, <1>7, <1>8, <1>9, <1>10, <1>11, <1>12, <1>13, <1>14,
     <1>15, <1>16, <1>17, <1>18, <1>19
     DEF Flow!Next

-----------------------------------------------------------------------------
(* The theorems *)

\* The login page and its server by themselves: a code is accepted once, an account creates
\* one trial shop, and the form asks for what fits, for every number of tabs, requests,
\* failures and reloads (verifyChallenge, createSelfServiceShop, LoginPage).
THEOREM FlowCorrect == Flow!Spec => [](Flow!TypeOK /\ Flow!CodeUsedOnce /\ Flow!StepFits /\ Flow!OneTrial)
<1>1. Flow!IInv => Flow!TypeOK /\ Flow!CodeUsedOnce /\ Flow!StepFits /\ Flow!OneTrial
  BY DEF Flow!IInv
<1>2. Flow!IInv /\ [Flow!Next]_Flow!vars => Flow!IInv'
  BY FlowStep DEF flowVars, Flow!vars
<1> QED BY <1>1, <1>2, FlowInit, PTL DEF Flow!Spec

\* The same where the page shares a run with the limiter.
THEOREM LoginCorrect == MCSpec => []LoginSafe
<1>1. MCInit => Flow!IInv
  BY FlowInit DEF MCInit
<1>2. Flow!IInv /\ [MCNext]_<<part, vars, flowVars>> => Flow!IInv'
  BY FlowStep DEF MCNext
<1>3. Flow!IInv => LoginSafe
  BY DEF Flow!IInv, LoginSafe
<1> QED BY <1>1, <1>2, <1>3, PTL DEF MCSpec
=============================================================================
