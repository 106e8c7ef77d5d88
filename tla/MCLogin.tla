-------------------------------- MODULE MCLogin --------------------------------
(* Five requests against the limiter (LoginLimiter, the server alone), or the login page
   (LoginFlow): opened once, with enough requests to come from a mobile number to the
   first shop, or twice, in one tab or two, with fewer.  A behaviour is of one part; the
   other never begins.  *)
EXTENDS LoginLimiter

CONSTANTS
    Tabs, Mobile, Login, Passwords, MaxRequests, MaxLosses, MaxFaults, MaxVisits,
    FewRequests  \* bound: requests sent by a button before a page is opened again or by it

VARIABLES
    part,  \* "limiter" or "flow"
    password, shops, challenges, used, cookie, tab, requests, sent, lost, faults, visits

flowVars ==
    <<password, shops, challenges, used, cookie, tab, requests, sent, lost, faults, visits>>

Flow == INSTANCE LoginFlow WITH Patient <- TRUE

ASSUME FlowAssumption == Flow!LoginAssumption

MCInit == part \in {"limiter", "flow"} /\ Init /\ Flow!Init

\* Where the page is opened again there are few requests.
Presses == \E t \in Tabs : ~tab[t].pending /\ tab'[t].pending
Small == visits' > 1 /\ (visits' > visits \/ Presses) => sent < FewRequests

MCNext ==
    \/ part = "limiter" /\ Next /\ UNCHANGED <<part, flowVars>>
    \/ part = "flow" /\ Flow!Next /\ Small /\ UNCHANGED <<part, vars>>

MCSpec == MCInit /\ [][MCNext]_<<part, vars, flowVars>> /\ Flow!Fairness

-----------------------------------------------------------------------------

(* A code is accepted once, by whichever of its requests comes first; the form asks for
   what the account it names calls for; and an account creates one trial shop, whatever
   its tabs send and repeat after a lost answer (verifyChallenge, identify,
   createSelfServiceShop).  *)
LoginSafe == Flow!TypeOK /\ Flow!CodeUsedOnce /\ Flow!StepFits /\ Flow!OneTrial

(* Every task of the form ends, with what follows it (run).  *)
PendingEnds == \A t \in Tabs : tab[t].pending ~> ~tab[t].pending
=============================================================================
