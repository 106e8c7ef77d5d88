------------------------------- MODULE LoginLimiter -------------------------------
(* The limiter of logins (auth.go), for the requests that come from one address.  A
   handler asks it at its beginning and tells it about the outcome at its end, and
   takes its lock for each by itself; verifying a code only tells.  Its other requests,
   the clock and the end of the process come in between: it is kept in memory.  *)
EXTENDS Integers, Sequences

CONSTANTS
    Requests,  \* requests from the address
    Limit,     \* 5 in the code
    Window,    \* fifteen minutes, the length of a block as well
    None,      \* no entry
    MaxTime    \* bound: the clock

ASSUME LimiterAssumption ==
    /\ Limit \in Nat \ {0} /\ Window \in Nat \ {0} /\ MaxTime \in Nat
    /\ None \notin [failures : Nat, first : Nat, until : Nat]

VARIABLES
    now,       \* the clock
    attempt,   \* the entry of the address
    stage,     \* the requests
    log        \* when its logins failed since one succeeded; the code keeps no such log

vars == <<now, attempt, stage, log>>

-----------------------------------------------------------------------------

\* until is 0 where the code has no time.
Attempt == [failures : Nat, first : Nat, until : Nat]

Init ==
    /\ now = 0 /\ attempt = None
    /\ stage = [r \in Requests |-> "idle"]
    /\ log = << >>

Blocked == attempt # None /\ attempt.until > now

\* allow; an old entry goes away.
Allow(r) ==
    /\ stage[r] = "idle"
    /\ stage' = [stage EXCEPT ![r] = IF Blocked THEN "refused" ELSE "trying"]
    /\ attempt' = IF attempt # None /\ ~Blocked /\ now - attempt.first >= Window THEN None ELSE attempt
    /\ UNCHANGED <<now, log>>

\* signupVerify and verifyPasswordReset do not ask.
Verify(r) ==
    /\ stage[r] = "idle"
    /\ stage' = [stage EXCEPT ![r] = "trying"]
    /\ UNCHANGED <<now, attempt, log>>

\* Variant: failures add up for ever.
FirstEver(t) == attempt = None

\* Whether a failure at time t opens a new window.
OpensWindow(t) == attempt = None \/ t - attempt.first >= Window

\* Variant: the failure that opens a window is not counted.
FailuresSince(t) == IF OpensWindow(t) THEN 0 ELSE attempt.failures + 1

FailuresWith(t) == IF OpensWindow(t) THEN 1 ELSE attempt.failures + 1

\* The entry with one more failure at time t.
OneMore(t) ==
    [failures |-> FailuresWith(t), first |-> IF OpensWindow(t) THEN t ELSE attempt.first,
     until |-> IF FailuresWith(t) >= Limit THEN t + Window
               ELSE IF OpensWindow(t) THEN 0 ELSE attempt.until]

Fail(r) ==
    /\ stage[r] = "trying"
    /\ stage' = [stage EXCEPT ![r] = "done"]
    /\ attempt' = OneMore(now)
    /\ log' = Append(log, now)
    /\ UNCHANGED now

\* Variant: a success leaves the entry as it is.
KeptEntry == attempt

ClearedEntry == None

\* clear
Clear(r) ==
    /\ stage[r] = "trying"
    /\ stage' = [stage EXCEPT ![r] = "done"]
    /\ attempt' = ClearedEntry
    /\ log' = << >>
    /\ UNCHANGED now

\* Another error, or a question about an account: nothing is told.
End(r) ==
    /\ stage[r] = "trying"
    /\ stage' = [stage EXCEPT ![r] = "done"]
    /\ UNCHANGED <<now, attempt, log>>

Tick ==
    /\ now < MaxTime
    /\ now' = now + 1
    /\ UNCHANGED <<attempt, stage, log>>

\* The process ends and begins again, without its requests.
Restart ==
    /\ attempt' = None
    /\ stage' = [r \in Requests |-> IF stage[r] = "trying" THEN "done" ELSE stage[r]]
    /\ UNCHANGED <<now, log>>

Next ==
    \/ Tick \/ Restart
    \/ \E r \in Requests : Allow(r) \/ Verify(r) \/ Fail(r) \/ Clear(r) \/ End(r)

Spec == Init /\ [][Next]_vars

-----------------------------------------------------------------------------
(* Properties *)

TypeOK ==
    /\ now \in Nat /\ log \in Seq(Nat)
    /\ attempt \in Attempt \cup {None}
    /\ stage \in [Requests -> {"idle", "trying", "refused", "done"}]
    /\ attempt # None => attempt.failures > 0 /\ attempt.first <= now

\* The failures the entry counts are the last ones of the log, none of them before the
\* window began, and the block is reckoned from the very last.
EntryMatchesLog ==
    attempt # None =>
       /\ attempt.failures <= Len(log)
       /\ \A i \in 1..Len(log) : i > Len(log) - attempt.failures =>
             attempt.first <= log[i] /\ log[i] < attempt.first + Window
       /\ attempt.failures >= Limit => attempt.until = log[Len(log)] + Window
       /\ attempt.failures < Limit => attempt.until = 0

\* Whoever is blocked has failed as often as the limit says within one window and with
\* no success among them, and is blocked for one window from the last failure, in
\* whatever order requests asked and told (allow, fail, clear).
BlockJustified ==
    Blocked =>
       /\ Len(log) >= Limit
       /\ log[Len(log)] - log[Len(log) - Limit + 1] < Window
       /\ attempt.until = log[Len(log)] + Window
=============================================================================
