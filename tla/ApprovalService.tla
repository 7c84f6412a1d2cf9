-------------------------- MODULE ApprovalService --------------------------
(***************************************************************************)
(* What the app promises those who log in through it: a login ends with    *)
(* the password only if the user has allowed that very login, the user is  *)
(* asked about a login at most once, and the end of a login is final.      *)
(***************************************************************************)
CONSTANT Login

VARIABLES
    decision,   \* per login, what the user (or the auto-approve setting) said
    outcome     \* per login, how its command ended

vars == <<decision, outcome>>

Decision == {"none", "allowed", "denied"}
Failure  == {"failed", "timeout", "invalid", "notRunning", "killed"}
Outcome  == {"none", "password", "denied"} \cup Failure

Init ==
    /\ decision = [l \in Login |-> "none"]
    /\ outcome = [l \in Login |-> "none"]

\* The login may have ended by then.
Decide(l) ==
    /\ decision[l] = "none"
    /\ \E d \in {"allowed", "denied"} : decision' = [decision EXCEPT ![l] = d]
    /\ UNCHANGED outcome

Release(l) ==
    /\ outcome[l] = "none"
    /\ decision[l] = "allowed"
    /\ outcome' = [outcome EXCEPT ![l] = "password"]
    /\ UNCHANGED decision

Refuse(l) ==
    /\ outcome[l] = "none"
    /\ decision[l] = "denied"
    /\ outcome' = [outcome EXCEPT ![l] = "denied"]
    /\ UNCHANGED decision

Fail(l) ==
    /\ outcome[l] = "none"
    /\ \E f \in Failure : outcome' = [outcome EXCEPT ![l] = f]
    /\ UNCHANGED decision

Next == \E l \in Login : Decide(l) \/ Release(l) \/ Refuse(l) \/ Fail(l)

Spec == Init /\ [][Next]_vars
-----------------------------------------------------------------------------
TypeOK ==
    /\ decision \in [Login -> Decision]
    /\ outcome \in [Login -> Outcome]

\* A password that was handed out was allowed, and a refusal is the user's.
Consent ==
    \A l \in Login :
        /\ outcome[l] = "password" => decision[l] = "allowed"
        /\ outcome[l] = "denied"   => decision[l] = "denied"

\* The user is asked about a login at most once, and the end of a login is final: a late
\* decision changes neither.
Final ==
    [][\A l \in Login :
          /\ decision[l] # "none" => decision'[l] = decision[l]
          /\ outcome[l] # "none"  => outcome'[l] = outcome[l]]_vars
=============================================================================
