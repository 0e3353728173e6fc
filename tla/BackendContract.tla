--------------------------- MODULE BackendContract ---------------------------
(***************************************************************************)
(* What a backend promises to ToolRuntime (ReadOnlyBackend::execute_select *)
(* in backend/mod.rs), whatever its connections go through: a statement is *)
(* sent to the database at most once, a call comes to one outcome and      *)
(* keeps it, and rows only come from a statement that has run.             *)
(***************************************************************************)
EXTENDS Naturals

CONSTANTS
    Calls,      \* the calls of execute_select
    NoOutcome   \* the call is under way, or has not been made

VARIABLES
    outcome,    \* outcome[c]: "rows", "error" or NoOutcome
    ran         \* ran[c]: how often the statement of c was sent

backendVars == <<outcome, ran>>

BackendInit ==
    /\ outcome = [c \in Calls |-> NoOutcome]
    /\ ran = [c \in Calls |-> 0]

Send(c) ==
    /\ outcome[c] = NoOutcome
    /\ ran[c] = 0
    /\ ran' = [ran EXCEPT ![c] = 1]
    /\ UNCHANGED outcome

Rows(c) ==
    /\ outcome[c] = NoOutcome
    /\ ran[c] = 1
    /\ outcome' = [outcome EXCEPT ![c] = "rows"]
    /\ UNCHANGED ran

\* Also without having run: no connection could be had.
Error(c) ==
    /\ outcome[c] = NoOutcome
    /\ outcome' = [outcome EXCEPT ![c] = "error"]
    /\ UNCHANGED ran

BackendNext == \E c \in Calls : Send(c) \/ Rows(c) \/ Error(c)

BackendSpec == BackendInit /\ [][BackendNext]_backendVars
=============================================================================
