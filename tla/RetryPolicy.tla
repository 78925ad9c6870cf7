----------------------------- MODULE RetryPolicy -----------------------------
(***************************************************************************)
(* What automatic recovery promises for every inbound message: it is       *)
(* answered once, and if the answer was an error it is tried again at most *)
(* Budget times, until it settles or is given up for good.  How a try      *)
(* works, and which process makes it, is left to the implementation.       *)
(***************************************************************************)
EXTENDS Naturals

CONSTANTS
    Rows,       \* messages
    Budget      \* tries per message, at least one

VARIABLES
    phase,      \* Rows -> unseen, working, open, settled or abandoned
    left        \* Rows -> the tries recovery still has for it

policyVars == <<phase, left>>

PolicyInit ==
    /\ phase = [r \in Rows |-> "unseen"]
    /\ left = [r \in Rows |-> Budget]

Accept(r) ==
    /\ phase[r] = "unseen"
    /\ phase' = [phase EXCEPT ![r] = "working"]
    /\ UNCHANGED left

Answer(r) ==
    /\ phase[r] = "working"
    /\ \E p \in {"open", "settled"} : phase' = [phase EXCEPT ![r] = p]
    /\ UNCHANGED left

TrySucceeds(r) ==
    /\ phase[r] = "open"
    /\ phase' = [phase EXCEPT ![r] = "settled"]
    /\ UNCHANGED left

TryFails(r) ==
    /\ phase[r] = "open"
    /\ left[r] > 0
    /\ left' = [left EXCEPT ![r] = @ - 1]
    /\ phase' = [phase EXCEPT ![r] = IF left[r] = 1 THEN "abandoned" ELSE "open"]

PolicyNext ==
    \E r \in Rows : Accept(r) \/ Answer(r) \/ TrySucceeds(r) \/ TryFails(r)

PolicySpec == PolicyInit /\ [][PolicyNext]_policyVars

PolicyFairness ==
    \A r \in Rows : /\ WF_policyVars(Answer(r))
                    /\ WF_policyVars(TrySucceeds(r) \/ TryFails(r))

FairPolicySpec == PolicySpec /\ PolicyFairness
=============================================================================
