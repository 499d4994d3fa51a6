---------------------------- MODULE RelayContract ----------------------------
(***************************************************************************)
(* What Polymux Connect promises the caller of a relayed HTTP request: one *)
(* answer per request that was passed on, an answer of the Host only when  *)
(* the Host really performed the request, and a refusal (offline, busy, a  *)
(* body that is too large or cannot be read) only of a request the Host    *)
(* never performs, so that a caller may retry it.  A request that was      *)
(* given up may have been performed, or be performed later: that is all a  *)
(* caller can conclude from a 502, 503 or 504.                             *)
(***************************************************************************)
CONSTANT Requests

VARIABLES
    state,      \* [Requests -> "idle", "asked", "passed", "refused", "answered",
                \*  "abandoned"]
    performed   \* the requests the Host's own server has handled

contractVars == <<state, performed>>

ContractInit ==
    /\ state = [r \in Requests |-> "idle"]
    /\ performed = {}

Ask(r) ==
    /\ state[r] = "idle"
    /\ state' = [state EXCEPT ![r] = "asked"]
    /\ UNCHANGED performed

Refuse(r) ==
    /\ state[r] \in {"idle", "asked"}
    /\ r \notin performed
    /\ state' = [state EXCEPT ![r] = "refused"]
    /\ UNCHANGED performed

\* The request has been read to its end and is on its way to the Host.
PassOn(r) ==
    /\ state[r] = "asked"
    /\ state' = [state EXCEPT ![r] = "passed"]
    /\ UNCHANGED performed

Perform(r) ==
    /\ state[r] \in {"passed", "abandoned"}
    /\ performed' = performed \cup {r}
    /\ UNCHANGED state

Answer(r) ==
    /\ state[r] = "passed"
    /\ r \in performed
    /\ state' = [state EXCEPT ![r] = "answered"]
    /\ UNCHANGED performed

\* A disconnection or a restart of the relay gives up on several at once.
GiveUp(R) ==
    /\ \A r \in R : state[r] \in {"asked", "passed"}
    /\ state' = [r \in Requests |-> IF r \in R THEN "abandoned" ELSE state[r]]
    /\ UNCHANGED performed

ContractNext ==
    \/ \E r \in Requests : Ask(r) \/ Refuse(r) \/ PassOn(r) \/ Perform(r) \/ Answer(r)
    \/ \E R \in SUBSET Requests : GiveUp(R)

\* Nobody waits for ever for a request that was passed on.
ContractLive ==
    \A r \in Requests : (state[r] = "passed") ~> (state[r] \in {"answered", "abandoned"})

ContractSpec == ContractInit /\ [][ContractNext]_contractVars /\ ContractLive
=============================================================================
