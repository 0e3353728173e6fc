--------------------------- MODULE GatewayContract ---------------------------
(***************************************************************************)
(* What the gateway promises a client, whatever happens inside: a tool     *)
(* call is refused, or its query is sent to the database at most once and  *)
(* the call answered with the rows or an error; it is answered at most     *)
(* once; and the answer is one that its stage can give.  Of the codes,     *)
(* policy_denied alone leaves open whether the database was asked: it      *)
(* refuses a plan, and also an output that is too large.                   *)
(***************************************************************************)
EXTENDS Naturals

CONSTANTS
    Requests,   \* the tool calls
    NoAnswer    \* not answered

VARIABLES
    answer,     \* answer[r]: "rows", an error code of error.rs, or NoAnswer
    executed    \* executed[r]: how often r's query was sent to the backend

contractVars == <<answer, executed>>

\* The codes a refused request can get.
Refusals == {"invalid_request", "rate_limited", "policy_denied"}

\* What can become of a query: its rows, too many of them, no answer.
Results == {"rows", "policy_denied", "backend_unavailable"}

ContractInit ==
    /\ answer = [r \in Requests |-> NoAnswer]
    /\ executed = [r \in Requests |-> 0]

Refuse(r) ==
    /\ answer[r] = NoAnswer
    /\ executed[r] = 0
    /\ \E code \in Refusals : answer' = [answer EXCEPT ![r] = code]
    /\ UNCHANGED executed

SendQuery(r) ==
    /\ answer[r] = NoAnswer
    /\ executed[r] = 0
    /\ executed' = [executed EXCEPT ![r] = 1]
    /\ UNCHANGED answer

Reply(r) ==
    /\ answer[r] = NoAnswer
    /\ executed[r] = 1
    /\ \E result \in Results : answer' = [answer EXCEPT ![r] = result]
    /\ UNCHANGED executed

ContractNext == \E r \in Requests : Refuse(r) \/ SendQuery(r) \/ Reply(r)

ContractSpec == ContractInit /\ [][ContractNext]_contractVars
=============================================================================
