------------------------------- MODULE Gateway -------------------------------
(***************************************************************************)
(* Tool calls going through ToolRuntime (mcp.rs), several at a time, while *)
(* the policy is reloaded: validation, rate limit, plan building, audit,   *)
(* the backend, the output limit, metrics, and the answer.                 *)
(*                                                                         *)
(* Every handler shares the policy, the audit log and the registry with    *)
(* the others and gives up control at each await (the audit write, the     *)
(* backend), so a handler is one action per step between two of these.     *)
(*                                                                         *)
(* The parts that have modules of their own appear here by what those      *)
(* modules show: the limiter lets a call through or not (RateLimiter), and *)
(* a build comes to the verdict of the active policy, unless a reload      *)
(* falls into it (QueryBuild).  The registry is module Metrics, extended:  *)
(* a handler records its outcome by the registry's own steps.              *)
(*                                                                         *)
(* Definitions whose name starts with Faulty are broken variants of the    *)
(* definition that follows them; no action uses one.                       *)
(***************************************************************************)
EXTENDS Metrics, Sequences, Functions

CONSTANTS
    Policies,    \* [admits, max_output_bytes]: whom it admits, and the limit
    Sizes,       \* lengths that a serialized response can have
    MaxReloads,  \* bound: reloads in one behaviour
    Wirings,     \* for each call, the collaborators that its tool may have
    NoAnswer     \* no answer, event or size yet

\* What a client can be told: the rows, or a code of error.rs.
Codes == {"rows", "invalid_request", "rate_limited", "policy_denied",
          "backend_unavailable"}

\* with_rate_limiter, with_metrics, and the audit log given to `new`.
Collaborators == {"limiter", "metrics", "audit"}

ASSUME GatewayAssumption ==
    /\ \A policy \in Policies : /\ policy.admits \subseteq Requests
                                /\ policy.max_output_bytes \in Nat
    /\ Sizes \subseteq Nat
    /\ MaxReloads \in Nat
    /\ Wirings \subseteq [Requests -> SUBSET Collaborators]
    /\ NoAnswer \notin Codes

VARIABLES
    history,     \* every policy that has been active, the active one last
    attached,    \* attached[r]: the collaborators of the tool that serves r
    handler,     \* handler[r]: where the handler of r is
    audit,       \* the lines of the audit log, [request, outcome]
    lost,        \* the events whose write failed
    executed,    \* executed[r]: how often r's plan was sent to the backend
    answer       \* what the client was answered

vars == <<metricVars, history, attached, handler, audit, lost, executed, answer>>

active == history[Len(history)]

AuditEvent == [request : Requests, outcome : {"accepted", "rejected"}]

\* Where a handler can be: what it does next, or is waiting for.
Places == {"new", "limit", "build", "building", "audit", "query", "awaiting",
           "pool", "check", "record", "recording", "done", "panicked"}

\* `event` is the outcome to audit, `result` what will be answered; `since`,
\* `replied` and `checked` are history: places in `history`.
Handler == [pc : Places,
            event : {"accepted", "rejected", NoAnswer}, result : Codes \cup {NoAnswer},
            size : Sizes \cup {NoAnswer}, since : Nat, replied : Nat, checked : Nat]

NewHandler == [pc |-> "new", event |-> NoAnswer, result |-> NoAnswer,
               size |-> NoAnswer, since |-> 0, replied |-> 0, checked |-> 0]

Init ==
    /\ MetricsInit
    /\ history \in {<<policy>> : policy \in Policies}
    /\ attached \in Wirings
    /\ handler = [r \in Requests |-> NewHandler]
    /\ audit = <<>>
    /\ lost = {}
    /\ executed = [r \in Requests |-> 0]
    /\ answer = [r \in Requests |-> NoAnswer]

Has(r, collaborator) == collaborator \in attached[r]

At(r, pc) == handler[r].pc = pc

Goto(r, pc) == handler' = [handler EXCEPT ![r].pc = pc]

Refuse(r, code, pc) ==
    handler' = [handler EXCEPT ![r].pc = pc, ![r].result = code,
                               ![r].event = "rejected"]

-----------------------------------------------------------------------------
\* validate_request_id, the shape checks and the conversion of the values:
\* a malformed call fails before ToolRuntime::prepare, and nothing audits it.
Validate(r) ==
    /\ At(r, "new")
    /\ \/ Goto(r, "limit")
       \/ handler' = [handler EXCEPT ![r].pc = "record",
                                     ![r].result = "invalid_request"]
    /\ UNCHANGED <<metricVars, history, attached, audit, lost, executed, answer>>

\* rate_limiter.allow(request_id), where there is one.
LimitRate(r) ==
    /\ At(r, "limit")
    /\ \/ Goto(r, "build")
       \/ Has(r, "limiter") /\ Refuse(r, "rate_limited", "audit")
    /\ UNCHANGED <<metricVars, history, attached, audit, lost, executed, answer>>

BeginBuild(r) ==
    /\ At(r, "build")
    /\ handler' = [handler EXCEPT ![r].pc = "building", ![r].since = Len(history)]
    /\ UNCHANGED <<metricVars, history, attached, audit, lost, executed, answer>>

\* What a build can come to.  A request that the builder finds malformed may
\* fail for that before it fails for the policy.  A reload during the build
\* leaves any outcome open, the panic of check_column included.
Verdicts(r) ==
    IF handler[r].since = Len(history)
    THEN IF r \in active.admits THEN {"accepted", "invalid_request"}
                                ELSE {"policy_denied", "invalid_request"}
    ELSE {"accepted", "policy_denied", "invalid_request", "panicked"}

EndBuild(r) ==
    /\ At(r, "building")
    /\ \E verdict \in Verdicts(r) :
          \/ /\ verdict = "accepted"
             /\ handler' = [handler EXCEPT ![r].pc = "audit", ![r].event = "accepted"]
          \/ /\ verdict \in {"policy_denied", "invalid_request"}
             /\ Refuse(r, verdict, "audit")
          \/ /\ verdict = "panicked"
             /\ Goto(r, "panicked")
    /\ UNCHANGED <<metricVars, history, attached, audit, lost, executed, answer>>

\* record_audit: the line is appended, or the error of the write dropped; a
\* tool without an audit log goes on.
Audit(r) ==
    LET event == [request |-> r, outcome |-> handler[r].event]
    IN  /\ At(r, "audit")
        /\ \/ Has(r, "audit") /\ audit' = Append(audit, event) /\ UNCHANGED lost
           \/ Has(r, "audit") /\ lost' = lost \cup {event} /\ UNCHANGED audit
           \/ ~Has(r, "audit") /\ UNCHANGED <<audit, lost>>
        /\ Goto(r, IF handler[r].event = "accepted" THEN "query" ELSE "record")
        /\ UNCHANGED <<metricVars, history, attached, executed, answer>>

\* The audit write is not awaited.
FaultySendQuery(r) ==
    /\ At(r, "query") \/ (At(r, "audit") /\ handler[r].event = "accepted")
    /\ executed' = [executed EXCEPT ![r] = @ + 1]
    /\ Goto(r, "awaiting")
    /\ UNCHANGED <<metricVars, history, attached, audit, lost, answer>>

\* backend.execute_select(&plan)
SendQuery(r) ==
    /\ At(r, "query")
    /\ executed' = [executed EXCEPT ![r] = @ + 1]
    /\ Goto(r, "awaiting")
    /\ UNCHANGED <<metricVars, history, attached, audit, lost, answer>>

\* A failed query is sent again.
FaultyBackendReplies(r) ==
    /\ At(r, "awaiting")
    /\ \/ \E size \in Sizes :
             handler' = [handler EXCEPT ![r].pc = "pool", ![r].size = size,
                                        ![r].replied = Len(history)]
       \/ IF executed[r] < 2 THEN Goto(r, "query")
          ELSE handler' = [handler EXCEPT ![r].pc = "record",
                                          ![r].result = "backend_unavailable"]
    /\ UNCHANGED <<metricVars, history, attached, audit, lost, executed, answer>>

\* The rows arrive, or any error of the driver.
BackendReplies(r) ==
    /\ At(r, "awaiting")
    /\ \/ \E size \in Sizes :
             handler' = [handler EXCEPT ![r].pc = "pool", ![r].size = size,
                                        ![r].replied = Len(history)]
       \/ handler' = [handler EXCEPT ![r].pc = "record",
                                     ![r].result = "backend_unavailable"]
    /\ UNCHANGED <<metricVars, history, attached, audit, lost, executed, answer>>

\* record_pool_metrics
RecordPool(r) ==
    /\ At(r, "pool")
    /\ IF Has(r, "metrics") THEN SetPoolMetrics ELSE UNCHANGED metricVars
    /\ Goto(r, "check")
    /\ UNCHANGED <<history, attached, audit, lost, executed, answer>>

\* The response is held to the limit of the policy its plan was built under.
FaultyCheckOutput(r) ==
    /\ At(r, "check")
    /\ handler' = [handler EXCEPT
          ![r].pc = "record", ![r].checked = Len(history),
          ![r].result = IF handler[r].size <= history[handler[r].since].max_output_bytes
                        THEN "rows" ELSE "policy_denied"]
    /\ UNCHANGED <<metricVars, history, attached, audit, lost, executed, answer>>

\* enforce_serialized_output_limit, on the policy that is active by now.
CheckOutput(r) ==
    /\ At(r, "check")
    /\ handler' = [handler EXCEPT
          ![r].pc = "record", ![r].checked = Len(history),
          ![r].result = IF handler[r].size <= active.max_output_bytes
                        THEN "rows" ELSE "policy_denied"]
    /\ UNCHANGED <<metricVars, history, attached, audit, lost, executed, answer>>

\* A call counts as accepted once its query has run.
FaultyOutcomeRecorded(r) ==
    CASE handler[r].result = "backend_unavailable" -> "backend_error"
      [] OTHER -> IF executed[r] > 0 THEN "accepted" ELSE "rejected"

\* record_accepted_metric, record_backend_error_metric, record_rejected_metric.
OutcomeRecorded(r) ==
    CASE handler[r].result = "rows" -> "accepted"
      [] handler[r].result = "backend_unavailable" -> "backend_error"
      [] OTHER -> "rejected"

BeginRecording(r) ==
    /\ At(r, "record")
    /\ Has(r, "metrics")
    /\ StartRecording(r, OutcomeRecorded(r))
    /\ Goto(r, "recording")
    /\ UNCHANGED <<history, attached, audit, lost, executed, answer>>

Record(r) ==
    /\ At(r, "recording")
    /\ RecordingStep(r)
    /\ UNCHANGED <<history, attached, handler, audit, lost, executed, answer>>

\* The result is serialized (execute_json) and handed to the transport, once it
\* is recorded if the tool has a registry.
Answer(r) ==
    /\ \/ At(r, "recording") /\ Recorded(r)
       \/ At(r, "record") /\ ~Has(r, "metrics")
    /\ answer' = [answer EXCEPT ![r] = handler[r].result]
    /\ Goto(r, "done")
    /\ UNCHANGED <<metricVars, history, attached, audit, lost, executed>>

\* Policy::reload
Reload(policy) ==
    /\ Len(history) <= MaxReloads
    /\ policy # active
    /\ history' = Append(history, policy)
    /\ UNCHANGED <<metricVars, attached, handler, audit, lost, executed, answer>>

\* The steps a handler takes on its own.
HandlerStep(r) ==
    \/ LimitRate(r) \/ BeginBuild(r) \/ EndBuild(r) \/ Audit(r)
    \/ SendQuery(r) \/ RecordPool(r) \/ CheckOutput(r)
    \/ BeginRecording(r) \/ Record(r) \/ Answer(r)

Next ==
    \/ \E r \in Requests : Validate(r) \/ HandlerStep(r) \/ BackendReplies(r)
    \/ \E policy \in Policies : Reload(policy)

\* The runtime keeps polling every handler that can go on.  The backend may
\* never reply: no statement has a timeout, only the wait for a connection.
Fairness == \A r \in Requests : WF_vars(HandlerStep(r))

Spec == Init /\ [][Next]_vars /\ Fairness

-----------------------------------------------------------------------------
\* Every variable has its type.
TypeOK ==
    /\ MetricsTypeOK
    /\ history \in Seq(Policies) \ {<<>>}
    /\ attached \in [Requests -> SUBSET Collaborators]
    /\ handler \in [Requests -> Handler]
    /\ audit \in Seq(AuditEvent)
    /\ lost \subseteq AuditEvent
    /\ executed \in [Requests -> Nat]
    /\ answer \in [Requests -> Codes \cup {NoAnswer}]

Audited(r, outcome) ==
    LET event == [request |-> r, outcome |-> outcome]
    IN  event \in Range(audit) \cup lost

\* No query of a tool with an audit log reaches the database before its
\* acceptance has been written to the log, or its write has failed.
AuditPrecedesQuery ==
    \A r \in Requests : Has(r, "audit") /\ executed[r] > 0 => Audited(r, "accepted")

\* The audit log tells which answered calls of its tools reached the database:
\* those it has as accepted, and no call twice or both ways.
AuditTellsWhatWasSent ==
    /\ \A i, j \in DOMAIN audit : audit[i].request = audit[j].request => i = j
    /\ \A r \in Requests :
          /\ ~(Audited(r, "accepted") /\ Audited(r, "rejected"))
          /\ Has(r, "audit") /\ answer[r] # NoAnswer =>
                (executed[r] > 0 <=> Audited(r, "accepted"))

\* Rows that are returned fit the limit of a policy that was active between
\* the backend's reply and the check, however old the plan is.
RowsFitALimitOfTheirTime ==
    \A r \in Requests : handler[r].result = "rows" =>
        \E i \in handler[r].replied..handler[r].checked :
            handler[r].size <= history[i].max_output_bytes

\* When no call is under way the counters agree with what the clients of tools
\* with a registry were told.
MetricsMatchAnswers ==
    LET Measured == {r \in Requests : Has(r, "metrics")}
        Told(codes) == Cardinality({r \in Measured : answer[r] \in codes})
    IN  (\A r \in Requests : handler[r].pc \in {"new", "done", "panicked"}) =>
            /\ counter["accepted"] = Told({"rows"})
            /\ counter["backend_errors"] = Told({"backend_unavailable"})
            /\ counter["total"] = Cardinality({r \in Measured : answer[r] # NoAnswer})
            /\ counter["total"] = counter["accepted"] + counter["rejected"]
            /\ Len(latencies) = counter["total"]

\* The gateway does what GatewayContract promises.
Contract == INSTANCE GatewayContract WITH answer <- answer, executed <- executed

KeepsContract == Contract!ContractSpec

\* Every call that has begun comes to an answer, unless its build panics or
\* the backend never replies to its query: handlers do not wait for each
\* other, and neither reloads nor lost audit lines hold one up.
CallsEnd ==
    \A r \in Requests :
        ~At(r, "new") ~> (At(r, "done") \/ At(r, "panicked") \/ []At(r, "awaiting"))

\* audit.rs:1 "Structured audit events for every accepted or rejected gateway
\* operation.", docs/mcp-tools.md:33 "Audit events are recorded for accepted
\* and rejected requests.": an answered call has its event in the log, unless
\* the write was attempted and failed.
EveryCallIsAudited ==
    \A r \in Requests : answer[r] # NoAnswer =>
        Audited(r, "accepted") \/ Audited(r, "rejected")
=============================================================================
