--------------------------- MODULE GatewayProofs ---------------------------
(***************************************************************************)
(* Proofs about the gateway for any number of calls, policies and reloads: *)
(* every safety property of Gateway, and that it implements                *)
(* GatewayContract.                                                        *)
(*                                                                         *)
(* The invariant says, for each place a handler can be at, what has been   *)
(* done for its call by then: queries sent, lines audited, outcomes        *)
(* recorded.  A step moves one handler (OneHandlerMoves), so each action   *)
(* only has to be looked at for the call it serves.                        *)
(***************************************************************************)
EXTENDS Gateway, MetricsProofs

USE GatewayAssumption

Typed ==
    /\ history \in Seq(Policies) \ {<<>>}
    /\ attached \in [Requests -> SUBSET Collaborators]
    /\ handler \in [Requests -> Handler]
    /\ audit \in Seq(AuditEvent)
    /\ lost \subseteq AuditEvent
    /\ executed \in [Requests -> Nat]
    /\ answer \in [Requests -> Codes \cup {NoAnswer}]

Ending == {"record", "recording", "done"}

\* What has been sent and answered for r, and what it will be told.
CallShape(r) ==
    LET h == handler[r]
    IN  /\ h.pc \in {"new", "limit", "build", "building", "audit", "query", "panicked"}
              => executed[r] = 0
        /\ h.pc \in {"awaiting", "pool", "check"} => executed[r] = 1
        /\ h.pc = "audit" => \/ h.event = "accepted"
                             \/ h.event = "rejected" /\ h.result \in Contract!Refusals
        /\ h.pc \in Ending => \/ executed[r] = 0 /\ h.result \in Contract!Refusals
                              \/ executed[r] = 1 /\ h.result \in Contract!Results
        /\ answer[r] = IF h.pc = "done" THEN h.result ELSE NoAnswer

\* What has been audited for r, or its writing tried, if its tool has a log.
AuditShape(r) ==
    LET h == handler[r]
    IN  /\ h.pc \in {"new", "limit", "build", "building", "audit", "panicked"}
              => ~Audited(r, "accepted") /\ ~Audited(r, "rejected")
        /\ Has(r, "audit") =>
              /\ h.pc \in {"query", "awaiting", "pool", "check"} => Audited(r, "accepted")
              /\ h.pc \in Ending => (executed[r] = 1 <=> Audited(r, "accepted"))
        /\ ~(Audited(r, "accepted") /\ Audited(r, "rejected"))

AuditOnce == \A i, j \in DOMAIN audit : audit[i].request = audit[j].request => i = j

\* Where in the history of policies r's response was checked.
OutputShape(r) ==
    LET h == handler[r]
    IN  /\ h.replied <= Len(history)
        /\ h.pc \in {"pool", "check"} => 1 <= h.replied
        /\ h.result = "rows" =>
              /\ h.pc \in Ending
              /\ 1 <= h.replied /\ h.replied <= h.checked /\ h.checked <= Len(history)
              /\ h.size <= history[h.checked].max_output_bytes

\* What has been recorded in the registry for r.
RecordShape(r) ==
    LET h == handler[r]
    IN  /\ h.pc \notin {"recording", "done"} => recording[r].outcome = NoSample
        /\ IF Has(r, "metrics")
           THEN /\ h.pc \in {"recording", "done"} =>
                      recording[r].outcome = OutcomeRecorded(r)
                /\ h.pc = "done" => Recorded(r)
           ELSE h.pc # "recording" /\ recording[r].outcome = NoSample

Shape(r) == CallShape(r) /\ AuditShape(r) /\ OutputShape(r) /\ RecordShape(r)

GatewayInv ==
    /\ MetricsInv
    /\ Typed
    /\ AuditOnce
    /\ \A r \in Requests : Shape(r)

-----------------------------------------------------------------------------
(* Records of handlers.                                                    *)

\* A handler that is given a place is a handler.
LEMMA Moved ==
    ASSUME NEW h \in Handler, NEW pc \in Places
    PROVE  [h EXCEPT !.pc = pc] \in Handler
  BY DEF Handler

\* A handler that is given a result as well is a handler.
LEMMA MovedWithResult ==
    ASSUME NEW h \in Handler, NEW pc \in Places, NEW code \in Codes, NEW i \in Nat,
           NEW event \in {"accepted", "rejected"}
    PROVE  /\ [h EXCEPT !.pc = pc, !.result = code] \in Handler
           /\ [h EXCEPT !.pc = pc, !.event = event] \in Handler
           /\ [h EXCEPT !.pc = pc, !.result = code, !.event = event] \in Handler
           /\ [h EXCEPT !.pc = pc, !.checked = i, !.result = code] \in Handler
  BY DEF Handler

\* A handler that is given a place in the history is a handler.
LEMMA MovedInHistory ==
    ASSUME NEW h \in Handler, NEW pc \in Places, NEW i \in Nat
    PROVE  /\ [h EXCEPT !.pc = pc, !.since = i] \in Handler
           /\ \A size \in Sizes : [h EXCEPT !.pc = pc, !.size = size, !.replied = i] \in Handler
  BY DEF Handler

\* Replacing the handler of one call replaces no other.
LEMMA OneReplaced ==
    ASSUME handler \in [Requests -> Handler], NEW r \in Requests, NEW h \in Handler,
           handler' = [handler EXCEPT ![r] = h]
    PROVE  /\ handler' \in [Requests -> Handler]
           /\ handler'[r] = h
           /\ \A q \in Requests \ {r} : handler'[q] = handler[q]
  OBVIOUS

-----------------------------------------------------------------------------
(* The steps.                                                              *)

\* A step that moves one handler leaves the other calls as they are.
LEMMA OneHandlerMoves ==
    ASSUME GatewayInv, NEW r \in Requests, MetricsInv', Typed', AuditOnce',
           history' = history, attached' = attached,
           \A q \in Requests \ {r} :
              /\ handler'[q] = handler[q]
              /\ executed'[q] = executed[q]
              /\ answer'[q] = answer[q]
              /\ recording'[q] = recording[q]
              /\ \A outcome \in {"accepted", "rejected"} :
                    Audited(q, outcome)' <=> Audited(q, outcome),
           Shape(r)'
    PROVE  GatewayInv'
<1>1. ASSUME NEW q \in Requests \ {r} PROVE Shape(q)'
  <2>1. Shape(q)
    BY DEF GatewayInv
  <2>2. CallShape(q)'
    BY <2>1 DEF Shape, CallShape, Contract!Refusals, Contract!Results
  <2>3. AuditShape(q)'
    BY <2>1 DEF Shape, AuditShape, Has
  <2>4. OutputShape(q)'
    BY <2>1 DEF Shape, OutputShape
  <2>5. RecordShape(q)'
    BY <2>1 DEF Shape, RecordShape, OutcomeRecorded, Recorded, Has
  <2>6. QED
    BY <2>2, <2>3, <2>4, <2>5 DEF Shape
<1>2. QED
  BY <1>1 DEF GatewayInv

\* A step that only moves a handler.
LEMMA OnlyHandlerMoves ==
    ASSUME GatewayInv, NEW r \in Requests, handler' \in [Requests -> Handler],
           \A q \in Requests \ {r} : handler'[q] = handler[q],
           UNCHANGED <<metricVars, history, attached, audit, lost, executed, answer>>,
           Shape(r)'
    PROVE  GatewayInv'
<1>1. MetricsInv'
  BY RegistryStep DEF GatewayInv
<1>2. Typed' /\ AuditOnce'
  BY DEF GatewayInv, Typed, AuditOnce
<1>3. \A q \in Requests \ {r} :
         /\ recording'[q] = recording[q]
         /\ \A outcome \in {"accepted", "rejected"} :
               Audited(q, outcome)' <=> Audited(q, outcome)
  BY DEF metricVars, Audited
<1>4. QED
  BY <1>1, <1>2, <1>3, OneHandlerMoves

\* Before anything is sent or audited for a call: the steps from "new" to
\* "building" keep it so.
LEMMA EarlyMove ==
    ASSUME GatewayInv, NEW r \in Requests, NEW h \in Handler,
           handler[r].pc \in {"new", "limit", "build", "building"},
           handler' = [handler EXCEPT ![r] = h],
           UNCHANGED <<metricVars, history, attached, audit, lost, executed, answer>>,
           h.replied = handler[r].replied,
           \/ /\ h.pc \in {"limit", "build", "building", "panicked"}
              /\ h.result = handler[r].result
           \/ /\ h.pc = "audit" /\ h.event = "accepted"
              /\ h.result = handler[r].result
           \/ /\ h.pc = "audit" /\ h.event = "rejected"
              /\ h.result \in Contract!Refusals
           \/ /\ h.pc = "record"
              /\ h.result \in Contract!Refusals
    PROVE  GatewayInv'
<1>1. Shape(r)
  BY DEF GatewayInv
<1>2. /\ handler' \in [Requests -> Handler] /\ handler'[r] = h
      /\ \A q \in Requests \ {r} : handler'[q] = handler[q]
  BY OneReplaced DEF GatewayInv, Typed
<1>3. CallShape(r)'
  BY <1>1, <1>2 DEF Shape, CallShape, Ending
<1>4. AuditShape(r)'
  BY <1>1, <1>2 DEF Shape, AuditShape, CallShape, Audited, Ending, Has
<1>5. OutputShape(r)'
  <2>1. h.result # "rows"
    BY <1>1 DEF Shape, OutputShape, Ending, Contract!Refusals
  <2>2. QED
    BY <1>1, <1>2, <2>1 DEF Shape, OutputShape
<1>6. RecordShape(r)'
  BY <1>1, <1>2 DEF Shape, RecordShape, metricVars, Has
<1>7. QED
  BY <1>2, <1>3, <1>4, <1>5, <1>6, OnlyHandlerMoves DEF Shape

\* Validate, LimitRate, BeginBuild and EndBuild are early moves.
LEMMA EarlyStepsPreserve ==
    ASSUME GatewayInv, NEW r \in Requests,
           Validate(r) \/ LimitRate(r) \/ BeginBuild(r) \/ EndBuild(r)
    PROVE  GatewayInv'
<1>1. /\ handler \in [Requests -> Handler] /\ handler[r] \in Handler
      /\ Len(history) \in Nat
  BY DEF GatewayInv, Typed
<1>2. /\ {"invalid_request", "rate_limited", "policy_denied"} = Contract!Refusals
      /\ Contract!Refusals \subseteq Codes
  BY DEF Contract!Refusals, Codes
<1>3. /\ handler[r].pc \in {"new", "limit", "build", "building"}
      /\ UNCHANGED <<metricVars, history, attached, audit, lost, executed, answer>>
  BY DEF Validate, LimitRate, BeginBuild, EndBuild, At
<1>4. ASSUME NEW pc \in {"limit", "build", "building", "panicked"}, Goto(r, pc)
      PROVE  GatewayInv'
  <2> DEFINE h == [handler[r] EXCEPT !.pc = pc]
  <2>1. h \in Handler
    BY <1>1, Moved DEF Places
  <2>2. handler' = [handler EXCEPT ![r] = h]
    BY <1>1, <1>4 DEF Goto
  <2>3. h.pc = pc /\ h.replied = handler[r].replied /\ h.result = handler[r].result
    BY <1>1 DEF Handler
  <2>4. QED
    BY ONLY GatewayInv, <1>3, <1>4, <2>1, <2>2, <2>3, EarlyMove
<1>5. ASSUME NEW code \in Contract!Refusals, Refuse(r, code, "audit")
      PROVE  GatewayInv'
  <2> DEFINE h == [handler[r] EXCEPT !.pc = "audit", !.result = code, !.event = "rejected"]
  <2>1. h \in Handler
    BY <1>1, <1>2, MovedWithResult DEF Places
  <2>2. handler' = [handler EXCEPT ![r] = h]
    BY <1>1, <1>5 DEF Refuse
  <2>3. /\ h.pc = "audit" /\ h.event = "rejected" /\ h.result = code
        /\ h.replied = handler[r].replied
    BY <1>1 DEF Handler
  <2>4. QED
    BY ONLY GatewayInv, <1>3, <1>5, <2>1, <2>2, <2>3, EarlyMove
<1>6. CASE handler' = [handler EXCEPT ![r].pc = "record", ![r].result = "invalid_request"]
  <2> DEFINE h == [handler[r] EXCEPT !.pc = "record", !.result = "invalid_request"]
  <2>1. h \in Handler
    BY <1>1, <1>2, MovedWithResult DEF Places
  <2>2. handler' = [handler EXCEPT ![r] = h]
    BY <1>1, <1>6
  <2>3. /\ h.pc = "record" /\ h.result = "invalid_request"
        /\ h.replied = handler[r].replied
    BY <1>1 DEF Handler
  <2>4. h.result \in Contract!Refusals
    BY <1>2, <2>3
  <2>5. QED
    BY ONLY GatewayInv, <1>3, <2>1, <2>2, <2>3, <2>4, EarlyMove
<1>7. CASE handler' = [handler EXCEPT ![r].pc = "building", ![r].since = Len(history)]
  <2> DEFINE h == [handler[r] EXCEPT !.pc = "building", !.since = Len(history)]
  <2>1. h \in Handler
    BY <1>1, MovedInHistory DEF Places
  <2>2. handler' = [handler EXCEPT ![r] = h]
    BY <1>1, <1>7
  <2>3. h.pc = "building" /\ h.result = handler[r].result /\ h.replied = handler[r].replied
    BY <1>1 DEF Handler
  <2>4. QED
    BY ONLY GatewayInv, <1>3, <2>1, <2>2, <2>3, EarlyMove
<1>8. CASE handler' = [handler EXCEPT ![r].pc = "audit", ![r].event = "accepted"]
  <2> DEFINE h == [handler[r] EXCEPT !.pc = "audit", !.event = "accepted"]
  <2>1. h \in Handler
    BY <1>1, MovedWithResult DEF Places, Codes
  <2>2. handler' = [handler EXCEPT ![r] = h]
    BY <1>1, <1>8
  <2>3. /\ h.pc = "audit" /\ h.event = "accepted" /\ h.result = handler[r].result
        /\ h.replied = handler[r].replied
    BY <1>1 DEF Handler
  <2>4. QED
    BY ONLY GatewayInv, <1>3, <2>1, <2>2, <2>3, EarlyMove
<1>9. CASE Validate(r)
  BY <1>4, <1>6, <1>9 DEF Validate
<1>10. CASE LimitRate(r)
  BY <1>2, <1>4, <1>5, <1>10 DEF LimitRate
<1>11. CASE BeginBuild(r)
  BY <1>7, <1>11 DEF BeginBuild
<1>12. CASE EndBuild(r)
  BY <1>2, <1>4, <1>5, <1>8, <1>12 DEF EndBuild
<1>13. QED
  BY <1>9, <1>10, <1>11, <1>12

\* The line of a call is the first of that call.
LEMMA AuditPreserves ==
    ASSUME GatewayInv, NEW r \in Requests, Audit(r)
    PROVE  GatewayInv'
<1> DEFINE event == [request |-> r, outcome |-> handler[r].event]
           next == IF handler[r].event = "accepted" THEN "query" ELSE "record"
           h == [handler[r] EXCEPT !.pc = next]
<1>1. /\ Typed /\ Shape(r) /\ MetricsInv
      /\ handler[r].pc = "audit" /\ handler[r] \in Handler
      /\ UNCHANGED <<metricVars, history, attached, executed, answer>>
  BY DEF GatewayInv, Audit, Goto, At, Typed
<1>2. h \in Handler
  BY <1>1, Moved DEF Places
<1>3. handler' = [handler EXCEPT ![r] = h]
  BY <1>1 DEF Audit, Goto, Typed
<1>4. /\ handler' \in [Requests -> Handler] /\ handler'[r] = h
      /\ \A q \in Requests \ {r} : handler'[q] = handler[q]
  BY <1>1, <1>2, <1>3, OneReplaced DEF Typed
<1>5. /\ h.pc = next /\ h.event = handler[r].event /\ h.result = handler[r].result
      /\ h.size = handler[r].size /\ h.replied = handler[r].replied
      /\ h.checked = handler[r].checked
  BY <1>1 DEF Handler
<1>6. handler[r].event \in {"accepted", "rejected"}
  BY <1>1 DEF Shape, CallShape
<1>7. event \in AuditEvent /\ event.request = r
  BY <1>6 DEF AuditEvent
<1>8. \/ audit' = Append(audit, event) /\ lost' = lost
      \/ lost' = lost \cup {event} /\ audit' = audit
      \/ ~Has(r, "audit") /\ audit' = audit /\ lost' = lost
  BY DEF Audit
<1>9. Typed'
  <2>1. audit' \in Seq(AuditEvent)
    <3>1. \A line \in AuditEvent : Append(audit, line) \in Seq(AuditEvent)
      BY <1>1 DEF Typed
    <3>2. audit \in Seq(AuditEvent)
      BY <1>1 DEF Typed
    <3>3. QED
      BY <1>7, <1>8, <3>1, <3>2
  <2>2. lost' \subseteq AuditEvent
    BY <1>1, <1>7, <1>8 DEF Typed
  <2>3. QED
    BY <1>1, <1>4, <2>1, <2>2 DEF Typed
<1>10. ASSUME NEW i \in DOMAIN audit PROVE audit[i].request # r
  <2>1. audit[i] \in AuditEvent /\ audit[i] \in Range(audit)
    BY <1>1 DEF Typed, Range
  <2>2. /\ audit[i] = [request |-> audit[i].request, outcome |-> audit[i].outcome]
        /\ audit[i].outcome \in {"accepted", "rejected"}
    BY <2>1 DEF AuditEvent
  <2>3. ~Audited(r, "accepted") /\ ~Audited(r, "rejected")
    BY <1>1 DEF Shape, AuditShape, Has
  <2>4. QED
    BY <2>1, <2>2, <2>3 DEF Audited
<1>11. AuditOnce'
  <2>1. CASE audit' = audit
    BY <2>1 DEF GatewayInv, AuditOnce
  <2>2. CASE audit' = Append(audit, event)
    <3>1. /\ DOMAIN audit' = DOMAIN audit \cup {Len(audit) + 1}
          /\ audit'[Len(audit) + 1] = event
          /\ \A i \in DOMAIN audit : audit'[i] = audit[i]
      BY <1>1, <1>7, <2>2 DEF Typed
    <3>2. QED
      BY <1>7, <1>10, <3>1 DEF GatewayInv, AuditOnce
  <2>3. QED
    BY <1>8, <2>1, <2>2
<1>12. \/ Range(audit') \cup lost' = Range(audit) \cup lost \cup {event}
       \/ ~Has(r, "audit") /\ Range(audit') \cup lost' = Range(audit) \cup lost
  <2>1. CASE audit' = audit
    BY <1>8, <2>1
  <2>2. CASE audit' = Append(audit, event) /\ lost' = lost
    <3>1. /\ DOMAIN audit' = DOMAIN audit \cup {Len(audit) + 1}
          /\ audit'[Len(audit) + 1] = event
          /\ \A i \in DOMAIN audit : audit'[i] = audit[i]
      BY <1>1, <1>7, <2>2 DEF Typed
    <3>2. Range(audit') = Range(audit) \cup {event}
      BY <3>1 DEF Range
    <3>3. QED
      BY <2>2, <3>2
  <2>3. QED
    BY <1>8, <2>1, <2>2
<1>13. \/ \A q \in Requests, outcome \in {"accepted", "rejected"} :
             Audited(q, outcome)' <=>
               Audited(q, outcome) \/ (q = r /\ outcome = handler[r].event)
       \/ /\ ~Has(r, "audit")
          /\ \A q \in Requests, outcome \in {"accepted", "rejected"} :
                Audited(q, outcome)' <=> Audited(q, outcome)
  BY <1>12 DEF Audited
<1>14. CallShape(r)'
  BY <1>1, <1>4, <1>5, <1>6 DEF Shape, CallShape, Ending
<1>15. AuditShape(r)'
  BY <1>1, <1>4, <1>5, <1>6, <1>13 DEF Shape, AuditShape, CallShape, Ending, Has
<1>16. OutputShape(r)'
  BY <1>1, <1>4, <1>5 DEF Shape, OutputShape, Ending
<1>17. RecordShape(r)'
  BY <1>1, <1>4, <1>5 DEF Shape, RecordShape, metricVars, Has
<1>18. MetricsInv'
  BY <1>1, RegistryStep
<1>19. \A q \in Requests \ {r} : recording'[q] = recording[q]
  BY <1>1 DEF metricVars
<1>20. QED
  BY <1>1, <1>4, <1>9, <1>11, <1>13, <1>14, <1>15, <1>16, <1>17, <1>18, <1>19,
     OneHandlerMoves DEF Shape

\* A query is sent for a call that has not sent one.
LEMMA SendQueryPreserves ==
    ASSUME GatewayInv, NEW r \in Requests, SendQuery(r)
    PROVE  GatewayInv'
<1> DEFINE h == [handler[r] EXCEPT !.pc = "awaiting"]
<1>1. /\ Typed /\ Shape(r) /\ MetricsInv /\ AuditOnce
      /\ handler[r].pc = "query" /\ handler[r] \in Handler
      /\ executed' = [executed EXCEPT ![r] = @ + 1]
      /\ UNCHANGED <<metricVars, history, attached, audit, lost, answer>>
  BY DEF GatewayInv, SendQuery, At, Typed
<1>2. h \in Handler
  BY <1>1, Moved DEF Places
<1>3. handler' = [handler EXCEPT ![r] = h]
  BY <1>1 DEF SendQuery, Goto, Typed
<1>4. /\ handler' \in [Requests -> Handler] /\ handler'[r] = h
      /\ \A q \in Requests \ {r} : handler'[q] = handler[q]
  BY <1>1, <1>2, <1>3, OneReplaced DEF Typed
<1>5. /\ h.pc = "awaiting" /\ h.result = handler[r].result
      /\ h.replied = handler[r].replied
  BY <1>1 DEF Handler
<1>6. /\ executed[r] = 0 /\ executed'[r] = 1 /\ executed' \in [Requests -> Nat]
      /\ \A q \in Requests \ {r} : executed'[q] = executed[q]
  BY <1>1 DEF Typed, Shape, CallShape
<1>7. Typed' /\ AuditOnce'
  BY <1>1, <1>4, <1>6 DEF Typed, AuditOnce
<1>8. \A q \in Requests, outcome \in {"accepted", "rejected"} :
         Audited(q, outcome)' <=> Audited(q, outcome)
  BY <1>1 DEF Audited
<1>9. CallShape(r)'
  BY <1>1, <1>4, <1>5, <1>6 DEF Shape, CallShape, Ending
<1>10. AuditShape(r)'
  BY <1>1, <1>4, <1>5, <1>8 DEF Shape, AuditShape, Ending, Has
<1>11. OutputShape(r)' /\ RecordShape(r)'
  BY <1>1, <1>4, <1>5 DEF Shape, OutputShape, RecordShape, Ending, metricVars, Has
<1>12. MetricsInv'
  BY <1>1, RegistryStep
<1>13. \A q \in Requests \ {r} : recording'[q] = recording[q]
  BY <1>1 DEF metricVars
<1>14. QED
  BY <1>1, <1>4, <1>6, <1>7, <1>8, <1>9, <1>10, <1>11, <1>12, <1>13,
     OneHandlerMoves DEF Shape

\* The backend's reply, or its failure, ends the wait for it.
LEMMA BackendRepliesPreserves ==
    ASSUME GatewayInv, NEW r \in Requests, BackendReplies(r)
    PROVE  GatewayInv'
<1>1. /\ Typed /\ Shape(r)
      /\ handler \in [Requests -> Handler] /\ handler[r] \in Handler
      /\ handler[r].pc = "awaiting"
      /\ UNCHANGED <<metricVars, history, attached, audit, lost, executed, answer>>
  BY DEF GatewayInv, BackendReplies, Typed, At
<1>2. Len(history) \in Nat /\ 1 <= Len(history)
  BY <1>1 DEF Typed
<1>3. \A outcome : Audited(r, outcome)' <=> Audited(r, outcome)
  BY <1>1 DEF Audited
<1>4. ASSUME NEW size \in Sizes,
             handler' = [handler EXCEPT ![r].pc = "pool", ![r].size = size,
                                        ![r].replied = Len(history)]
      PROVE  GatewayInv'
  <2> DEFINE h == [handler[r] EXCEPT !.pc = "pool", !.size = size, !.replied = Len(history)]
  <2>1. h \in Handler
    BY <1>1, <1>2, MovedInHistory DEF Places
  <2>2. handler' = [handler EXCEPT ![r] = h]
    BY <1>1, <1>4
  <2>3. /\ handler' \in [Requests -> Handler] /\ handler'[r] = h
        /\ \A q \in Requests \ {r} : handler'[q] = handler[q]
    BY <1>1, <2>1, <2>2, OneReplaced
  <2>4. h.pc = "pool" /\ h.replied = Len(history) /\ h.result = handler[r].result
    BY <1>1 DEF Handler
  <2>5. CallShape(r)' /\ AuditShape(r)' /\ RecordShape(r)'
    BY <1>1, <1>3, <2>3, <2>4 DEF Shape, CallShape, AuditShape, RecordShape, Ending,
       metricVars, Has
  <2>6. OutputShape(r)'
    BY <1>1, <1>2, <2>3, <2>4 DEF Shape, OutputShape, Ending
  <2>7. QED
    BY <1>1, <2>3, <2>5, <2>6, OnlyHandlerMoves DEF Shape
<1>5. CASE handler' = [handler EXCEPT ![r].pc = "record",
                                      ![r].result = "backend_unavailable"]
  <2> DEFINE h == [handler[r] EXCEPT !.pc = "record", !.result = "backend_unavailable"]
  <2>1. h \in Handler
    BY <1>1, MovedWithResult DEF Places, Codes
  <2>2. handler' = [handler EXCEPT ![r] = h]
    BY <1>1, <1>5
  <2>3. /\ handler' \in [Requests -> Handler] /\ handler'[r] = h
        /\ \A q \in Requests \ {r} : handler'[q] = handler[q]
    BY <1>1, <2>1, <2>2, OneReplaced
  <2>4. /\ h.pc = "record" /\ h.replied = handler[r].replied
        /\ h.result = "backend_unavailable"
    BY <1>1 DEF Handler
  <2>5. CallShape(r)' /\ AuditShape(r)' /\ RecordShape(r)'
    BY <1>1, <1>3, <2>3, <2>4 DEF Shape, CallShape, AuditShape, RecordShape, Ending,
       metricVars, Contract!Results, Has
  <2>6. OutputShape(r)'
    BY <1>1, <2>3, <2>4 DEF Shape, OutputShape
  <2>7. QED
    BY <1>1, <2>3, <2>5, <2>6, OnlyHandlerMoves DEF Shape
<1>6. QED
  BY <1>4, <1>5 DEF BackendReplies

\* The reading of the pool goes into the registry only.
LEMMA RecordPoolPreserves ==
    ASSUME GatewayInv, NEW r \in Requests, RecordPool(r)
    PROVE  GatewayInv'
<1> DEFINE h == [handler[r] EXCEPT !.pc = "check"]
<1>1. /\ Typed /\ Shape(r) /\ MetricsInv /\ AuditOnce
      /\ handler[r].pc = "pool" /\ handler[r] \in Handler
      /\ SetPoolMetrics \/ UNCHANGED metricVars
      /\ UNCHANGED <<history, attached, audit, lost, executed, answer>>
  BY DEF GatewayInv, RecordPool, At, Typed
<1>2. h \in Handler
  BY <1>1, Moved DEF Places
<1>3. handler' = [handler EXCEPT ![r] = h]
  BY <1>1 DEF RecordPool, Goto, Typed
<1>4. /\ handler' \in [Requests -> Handler] /\ handler'[r] = h
      /\ \A q \in Requests \ {r} : handler'[q] = handler[q]
  BY <1>1, <1>2, <1>3, OneReplaced DEF Typed
<1>5. /\ h.pc = "check" /\ h.result = handler[r].result
      /\ h.replied = handler[r].replied
  BY <1>1 DEF Handler
<1>6. Typed' /\ AuditOnce'
  BY <1>1, <1>4 DEF Typed, AuditOnce
<1>7. \A q \in Requests, outcome \in {"accepted", "rejected"} :
         Audited(q, outcome)' <=> Audited(q, outcome)
  BY <1>1 DEF Audited
<1>8. CallShape(r)' /\ AuditShape(r)'
  BY <1>1, <1>4, <1>5, <1>7 DEF Shape, CallShape, AuditShape, Ending, Has
<1>9. recording' = recording
  BY <1>1 DEF SetPoolMetrics, metricVars
<1>10. OutputShape(r)' /\ RecordShape(r)'
  BY <1>1, <1>4, <1>5, <1>9 DEF Shape, OutputShape, RecordShape, Ending, Has
<1>11. MetricsInv'
  BY <1>1, SetPoolMetricsPreserves, RegistryStep
<1>12. QED
  BY <1>1, <1>4, <1>6, <1>7, <1>8, <1>9, <1>10, <1>11, OneHandlerMoves DEF Shape

\* The response passes when the policy active at the check allows its size.
LEMMA CheckOutputPreserves ==
    ASSUME GatewayInv, NEW r \in Requests, CheckOutput(r)
    PROVE  GatewayInv'
<1>1. /\ Typed /\ Shape(r)
      /\ handler \in [Requests -> Handler] /\ handler[r] \in Handler
      /\ handler[r].pc = "check"
      /\ UNCHANGED <<metricVars, history, attached, audit, lost, executed, answer>>
  BY DEF GatewayInv, CheckOutput, Typed, At
<1>2. Len(history) \in Nat /\ 1 <= Len(history)
  BY <1>1 DEF Typed
<1>3. \A outcome : Audited(r, outcome)' <=> Audited(r, outcome)
  BY <1>1 DEF Audited
<1>4. PICK code \in {"rows", "policy_denied"} :
         /\ code = "rows" => handler[r].size <= active.max_output_bytes
         /\ handler' = [handler EXCEPT ![r].pc = "record", ![r].checked = Len(history),
                                       ![r].result = code]
  BY DEF CheckOutput
<1> DEFINE h == [handler[r] EXCEPT !.pc = "record", !.checked = Len(history),
                                   !.result = code]
<1>5. h \in Handler
  BY <1>1, <1>2, MovedWithResult DEF Places, Codes
<1>6. handler' = [handler EXCEPT ![r] = h]
  BY <1>1, <1>4
<1>7. /\ handler' \in [Requests -> Handler] /\ handler'[r] = h
      /\ \A q \in Requests \ {r} : handler'[q] = handler[q]
  BY <1>1, <1>5, <1>6, OneReplaced
<1>8. /\ h.pc = "record" /\ h.replied = handler[r].replied /\ h.size = handler[r].size
      /\ h.result = code /\ h.checked = Len(history)
  BY <1>1 DEF Handler
<1>9. CallShape(r)' /\ AuditShape(r)' /\ RecordShape(r)'
  BY <1>1, <1>3, <1>7, <1>8 DEF Shape, CallShape, AuditShape, RecordShape, Ending,
     metricVars, Contract!Results, Has
<1>10. OutputShape(r)'
  BY <1>1, <1>2, <1>4, <1>7, <1>8 DEF Shape, OutputShape, Ending, active
<1>11. QED
  BY <1>1, <1>7, <1>9, <1>10, OnlyHandlerMoves DEF Shape

\* The outcome of a call is determined when its recording begins.
LEMMA BeginRecordingPreserves ==
    ASSUME GatewayInv, NEW r \in Requests, BeginRecording(r)
    PROVE  GatewayInv'
<1> DEFINE h == [handler[r] EXCEPT !.pc = "recording"]
<1>1. /\ Typed /\ Shape(r) /\ MetricsInv /\ AuditOnce
      /\ handler[r].pc = "record" /\ handler[r] \in Handler
      /\ Has(r, "metrics") /\ StartRecording(r, OutcomeRecorded(r))
      /\ UNCHANGED <<history, attached, audit, lost, executed, answer>>
  BY DEF GatewayInv, BeginRecording, At, Typed
<1>2. h \in Handler
  BY <1>1, Moved DEF Places
<1>3. handler' = [handler EXCEPT ![r] = h]
  BY <1>1 DEF BeginRecording, Goto, Typed
<1>4. /\ handler' \in [Requests -> Handler] /\ handler'[r] = h
      /\ \A q \in Requests \ {r} : handler'[q] = handler[q]
  BY <1>1, <1>2, <1>3, OneReplaced DEF Typed
<1>5. /\ h.pc = "recording" /\ h.result = handler[r].result
      /\ h.replied = handler[r].replied /\ h.checked = handler[r].checked
      /\ h.size = handler[r].size
  BY <1>1 DEF Handler
<1>6. Typed' /\ AuditOnce'
  BY <1>1, <1>4 DEF Typed, AuditOnce
<1>7. \A q \in Requests, outcome \in {"accepted", "rejected"} :
         Audited(q, outcome)' <=> Audited(q, outcome)
  BY <1>1 DEF Audited
<1>8. CallShape(r)' /\ AuditShape(r)'
  BY <1>1, <1>4, <1>5, <1>7 DEF Shape, CallShape, AuditShape, Ending, Has
<1>9. OutputShape(r)'
  BY <1>1, <1>4, <1>5 DEF Shape, OutputShape, Ending
<1>10. OutcomeRecorded(r) \in Outcomes /\ OutcomeRecorded(r)' = OutcomeRecorded(r)
  BY <1>4, <1>5 DEF OutcomeRecorded, Outcomes
<1>11. /\ recording'[r].outcome = OutcomeRecorded(r)
       /\ \A q \in Requests \ {r} : recording'[q] = recording[q]
  BY <1>1 DEF StartRecording, MetricsInv, MetricsTypeOK
<1>12. RecordShape(r)'
  BY <1>1, <1>4, <1>5, <1>10, <1>11 DEF RecordShape, Has
<1>13. MetricsInv'
  BY <1>1, <1>10, StartRecordingPreserves
<1>14. QED
  BY <1>1, <1>4, <1>6, <1>7, <1>8, <1>9, <1>11, <1>12, <1>13, OneHandlerMoves DEF Shape

\* The steps of recording change no outcome.
LEMMA RecordPreserves ==
    ASSUME GatewayInv, NEW r \in Requests, Record(r)
    PROVE  GatewayInv'
<1>1. /\ Typed /\ Shape(r) /\ MetricsInv /\ AuditOnce
      /\ handler[r].pc = "recording"
      /\ RecordingStep(r)
      /\ UNCHANGED <<history, attached, handler, audit, lost, executed, answer>>
  BY DEF GatewayInv, Record, At
<1>2. Typed' /\ AuditOnce'
  BY <1>1 DEF Typed, AuditOnce
<1>3. \A q \in Requests, outcome \in {"accepted", "rejected"} :
         Audited(q, outcome)' <=> Audited(q, outcome)
  BY <1>1 DEF Audited
<1>4. /\ recording'[r].outcome = recording[r].outcome
      /\ \A q \in Requests \ {r} : recording'[q] = recording[q]
  <2>1. recording[r] \in Recording
    BY <1>1 DEF MetricsInv, MetricsTypeOK
  <2>2. CASE PushLatency(r)
    BY <1>1, <2>1, <2>2 DEF PushLatency, MetricsInv, MetricsTypeOK, Recording
  <2>3. CASE \E c \in Counters : Increment(r, c)
    BY <1>1, <2>1, <2>3 DEF Increment, MetricsInv, MetricsTypeOK, Recording
  <2>4. QED
    BY <1>1, <2>2, <2>3 DEF RecordingStep
<1>5. MetricsInv'
  BY <1>1, IncrementPreserves, PushLatencyPreserves DEF RecordingStep
<1>6. CallShape(r)' /\ AuditShape(r)' /\ OutputShape(r)'
  BY <1>1, <1>3 DEF Shape, CallShape, AuditShape, OutputShape, Has
<1>7. RecordShape(r)'
  BY <1>1, <1>4 DEF Shape, RecordShape, OutcomeRecorded, Has
<1>8. QED
  BY <1>1, <1>2, <1>3, <1>4, <1>5, <1>6, <1>7, OneHandlerMoves DEF Shape

\* A call is answered with its result, once.
LEMMA AnswerPreserves ==
    ASSUME GatewayInv, NEW r \in Requests, Answer(r)
    PROVE  GatewayInv'
<1> DEFINE h == [handler[r] EXCEPT !.pc = "done"]
<1>1. /\ Typed /\ Shape(r) /\ MetricsInv /\ AuditOnce
      /\ \/ handler[r].pc = "recording" /\ Recorded(r)
         \/ handler[r].pc = "record" /\ ~Has(r, "metrics")
      /\ handler[r] \in Handler
      /\ answer' = [answer EXCEPT ![r] = handler[r].result]
      /\ UNCHANGED <<metricVars, history, attached, audit, lost, executed>>
  BY DEF GatewayInv, Answer, At, Typed
<1>2. h \in Handler
  BY <1>1, Moved DEF Places
<1>3. handler' = [handler EXCEPT ![r] = h]
  BY <1>1 DEF Answer, Goto, Typed
<1>4. /\ handler' \in [Requests -> Handler] /\ handler'[r] = h
      /\ \A q \in Requests \ {r} : handler'[q] = handler[q]
  BY <1>1, <1>2, <1>3, OneReplaced DEF Typed
<1>5. /\ h.pc = "done" /\ h.result = handler[r].result
      /\ h.replied = handler[r].replied /\ h.checked = handler[r].checked
      /\ h.size = handler[r].size /\ handler[r].result \in Codes \cup {NoAnswer}
  BY <1>1 DEF Handler
<1>6. /\ answer'[r] = handler[r].result
      /\ answer' \in [Requests -> Codes \cup {NoAnswer}]
      /\ \A q \in Requests \ {r} : answer'[q] = answer[q]
  BY <1>1, <1>5 DEF Typed
<1>7. Typed' /\ AuditOnce'
  BY <1>1, <1>4, <1>6 DEF Typed, AuditOnce
<1>8. \A q \in Requests, outcome \in {"accepted", "rejected"} :
         Audited(q, outcome)' <=> Audited(q, outcome)
  BY <1>1 DEF Audited
<1>9. CallShape(r)' /\ AuditShape(r)'
  BY <1>1, <1>4, <1>5, <1>6, <1>8 DEF Shape, CallShape, AuditShape, Ending, Has
<1>10. OutputShape(r)'
  BY <1>1, <1>4, <1>5 DEF Shape, OutputShape, Ending
<1>11. recording' = recording
  BY <1>1 DEF metricVars
<1>12. RecordShape(r)'
  BY <1>1, <1>4, <1>5, <1>11 DEF Shape, RecordShape, OutcomeRecorded, Recorded, Has
<1>13. MetricsInv'
  BY <1>1, RegistryStep
<1>14. QED
  BY <1>1, <1>4, <1>6, <1>7, <1>8, <1>9, <1>10, <1>11, <1>12, <1>13,
     OneHandlerMoves DEF Shape

\* A reload appends to the history; what was checked before stays checked.
LEMMA ReloadPreserves ==
    ASSUME GatewayInv, NEW policy \in Policies, Reload(policy)
    PROVE  GatewayInv'
<1>1. /\ Typed /\ MetricsInv /\ AuditOnce
      /\ history' = Append(history, policy)
      /\ UNCHANGED <<metricVars, attached, handler, audit, lost, executed, answer>>
  BY DEF GatewayInv, Reload
<1>2. /\ history' \in Seq(Policies) \ {<<>>}
      /\ Len(history') = Len(history) + 1 /\ Len(history) \in Nat
      /\ \A i \in 1..Len(history) : history'[i] = history[i]
  BY <1>1 DEF Typed
<1>3. Typed' /\ AuditOnce'
  BY <1>1, <1>2 DEF Typed, AuditOnce
<1>4. MetricsInv'
  BY <1>1, RegistryStep
<1>5. ASSUME NEW r \in Requests PROVE Shape(r)'
  <2>1. Shape(r) /\ handler[r] \in Handler
    BY <1>1 DEF GatewayInv, Typed
  <2>2. CallShape(r)' /\ AuditShape(r)'
    BY <1>1, <2>1 DEF Shape, CallShape, AuditShape, Audited, Has
  <2>3. RecordShape(r)'
    BY <1>1, <2>1 DEF Shape, RecordShape, OutcomeRecorded, Recorded, metricVars, Has
  <2>4. handler[r].replied \in Nat /\ handler[r].checked \in Nat
    BY <2>1 DEF Handler
  <2>5. OutputShape(r)'
    BY <1>1, <1>2, <2>1, <2>4 DEF Shape, OutputShape
  <2>6. QED
    BY <2>2, <2>3, <2>5 DEF Shape
<1>6. QED
  BY <1>3, <1>4, <1>5 DEF GatewayInv

-----------------------------------------------------------------------------
(* The invariant holds of every behaviour.                                 *)

\* No call has begun.
LEMMA GatewayInit == Init => GatewayInv
<1> SUFFICES ASSUME Init PROVE GatewayInv
  OBVIOUS
<1>1. MetricsInv
  BY RegistryInit DEF Init
<1>2. NewHandler \in Handler
  BY DEF NewHandler, Handler, Places
<1>3. Typed
  <2>1. history \in Seq(Policies) \ {<<>>}
    <3>1. PICK policy \in Policies : history = <<policy>>
      BY DEF Init
    <3>2. QED
      BY <3>1
  <2>2. handler \in [Requests -> Handler]
    BY <1>2 DEF Init
  <2>3. /\ attached \in [Requests -> SUBSET Collaborators]
        /\ audit \in Seq(AuditEvent) /\ lost \subseteq AuditEvent
        /\ executed \in [Requests -> Nat]
        /\ answer \in [Requests -> Codes \cup {NoAnswer}]
    BY DEF Init
  <2>4. QED
    BY <2>1, <2>2, <2>3 DEF Typed
<1>4. AuditOnce
  BY DEF Init, AuditOnce
<1>5. ASSUME NEW r \in Requests PROVE Shape(r)
  <2>1. /\ handler[r] = NewHandler /\ executed[r] = 0 /\ answer[r] = NoAnswer
        /\ audit = <<>> /\ lost = {}
    BY DEF Init
  <2>2. CallShape(r)
    BY <2>1 DEF CallShape, NewHandler, Ending
  <2>3. AuditShape(r)
    BY <2>1 DEF AuditShape, NewHandler, Ending, Audited, Range, Has
  <2>4. OutputShape(r)
    BY <1>3, <2>1 DEF OutputShape, NewHandler, Codes, Typed
  <2>5. RecordShape(r)
    BY <2>1 DEF RecordShape, NewHandler, Init, MetricsInit, Idle, Has
  <2>6. QED
    BY <2>2, <2>3, <2>4, <2>5 DEF Shape
<1>6. QED
  BY <1>1, <1>3, <1>4, <1>5 DEF GatewayInv

\* Every step of the gateway, of a handler or a reload, preserves the
\* invariant.
THEOREM GatewayStep == GatewayInv /\ [Next]_vars => GatewayInv'
<1> SUFFICES ASSUME GatewayInv, [Next]_vars PROVE GatewayInv'
  OBVIOUS
<1>1. CASE UNCHANGED vars
  <2>1. UNCHANGED <<metricVars, history, attached, handler, audit, lost, executed, answer>>
    BY <1>1 DEF vars
  <2>2. MetricsInv'
    BY <2>1, RegistryStep DEF GatewayInv
  <2>3. Typed' /\ AuditOnce'
    BY <2>1 DEF GatewayInv, Typed, AuditOnce
  <2>4. ASSUME NEW r \in Requests PROVE Shape(r)'
    <3>1. Shape(r)
      BY DEF GatewayInv
    <3>2. CallShape(r)' /\ AuditShape(r)' /\ OutputShape(r)'
      BY <2>1, <3>1 DEF Shape, CallShape, AuditShape, OutputShape, Audited, Has
    <3>3. RecordShape(r)'
      BY <2>1, <3>1 DEF Shape, RecordShape, OutcomeRecorded, Recorded, metricVars, Has
    <3>4. QED
      BY <3>2, <3>3 DEF Shape
  <2>5. QED
    BY <2>2, <2>3, <2>4 DEF GatewayInv
<1>2. CASE \E r \in Requests : Validate(r) \/ HandlerStep(r) \/ BackendReplies(r)
  BY <1>2, EarlyStepsPreserve, AuditPreserves, SendQueryPreserves,
     BackendRepliesPreserves, RecordPoolPreserves, CheckOutputPreserves,
     BeginRecordingPreserves, RecordPreserves, AnswerPreserves DEF HandlerStep
<1>3. CASE \E policy \in Policies : Reload(policy)
  BY <1>3, ReloadPreserves
<1>4. QED
  BY <1>1, <1>2, <1>3 DEF Next

\* The invariant holds of every behaviour of the gateway.
THEOREM GatewayInvariance == Spec => []GatewayInv
  BY GatewayInit, GatewayStep, PTL DEF Spec

-----------------------------------------------------------------------------
(* What follows from it.                                                   *)

\* Every variable of the gateway always has its type.
THEOREM GatewayTyped == Spec => []TypeOK
<1>1. GatewayInv => TypeOK
  BY DEF GatewayInv, MetricsInv, Typed, TypeOK
<1>2. QED
  BY <1>1, GatewayInvariance, PTL

\* No query is sent before its acceptance is in the audit log, or its
\* writing has failed.
THEOREM AuditComesFirst == Spec => []AuditPrecedesQuery
<1>1. ASSUME GatewayInv PROVE AuditPrecedesQuery
  <2>1. ASSUME NEW r \in Requests, Has(r, "audit"), executed[r] > 0
        PROVE  Audited(r, "accepted")
    <3>1. Shape(r) /\ handler[r].pc \in Places
      BY <1>1 DEF GatewayInv, Typed, Handler
    <3>2. QED
      BY <2>1, <3>1 DEF Shape, CallShape, AuditShape, Ending, Places, Contract!Refusals, Has
  <2>2. QED
    BY <2>1 DEF AuditPrecedesQuery
<1>2. QED
  BY <1>1, GatewayInvariance, PTL

\* The audit log has one line for a call at most, and has an answered call
\* as accepted exactly when its query was sent.
THEOREM AuditTells == Spec => []AuditTellsWhatWasSent
<1>1. ASSUME GatewayInv PROVE AuditTellsWhatWasSent
  <2>1. ASSUME NEW r \in Requests
        PROVE  /\ ~(Audited(r, "accepted") /\ Audited(r, "rejected"))
               /\ Has(r, "audit") /\ answer[r] # NoAnswer =>
                     (executed[r] > 0 <=> Audited(r, "accepted"))
    <3>1. Shape(r)
      BY <1>1 DEF GatewayInv
    <3>2. answer[r] # NoAnswer => handler[r].pc = "done"
      BY <3>1 DEF Shape, CallShape
    <3>3. QED
      BY <3>1, <3>2 DEF Shape, CallShape, AuditShape, Ending, Has
  <2>2. QED
    BY <1>1, <2>1 DEF AuditTellsWhatWasSent, GatewayInv, AuditOnce
<1>2. QED
  BY <1>1, GatewayInvariance, PTL

\* Rows are returned only under the output limit of a policy that was active
\* after the backend had replied.
THEOREM RowsFit == Spec => []RowsFitALimitOfTheirTime
<1>1. ASSUME GatewayInv PROVE RowsFitALimitOfTheirTime
  <2>1. ASSUME NEW r \in Requests, handler[r].result = "rows"
        PROVE  \E i \in handler[r].replied..handler[r].checked :
                  handler[r].size <= history[i].max_output_bytes
    <3>1. Shape(r) /\ handler[r].replied \in Nat /\ handler[r].checked \in Nat
      BY <1>1 DEF GatewayInv, Typed, Handler
    <3>2. /\ handler[r].checked \in handler[r].replied..handler[r].checked
          /\ handler[r].size <= history[handler[r].checked].max_output_bytes
      BY <2>1, <3>1 DEF Shape, OutputShape
    <3>3. QED
      BY <3>2
  <2>2. QED
    BY <2>1 DEF RowsFitALimitOfTheirTime
<1>2. QED
  BY <1>1, GatewayInvariance, PTL

\* Whenever no call is under way, the counters are what clients were told.
THEOREM MetricsMatch == Spec => []MetricsMatchAnswers
<1> DEFINE Measured == {r \in Requests : Has(r, "metrics")}
<1>1. ASSUME GatewayInv,
             \A r \in Requests : handler[r].pc \in {"new", "done", "panicked"}
      PROVE  /\ counter["accepted"] = Cardinality({r \in Measured : answer[r] \in {"rows"}})
             /\ counter["backend_errors"] =
                  Cardinality({r \in Measured : answer[r] \in {"backend_unavailable"}})
             /\ counter["total"] = Cardinality({r \in Measured : answer[r] # NoAnswer})
             /\ counter["total"] = counter["accepted"] + counter["rejected"]
             /\ Len(latencies) = counter["total"]
  <2>1. MetricsInv /\ BalancedAtRest
    BY <1>1, RestBalances DEF GatewayInv
  <2>2. ASSUME NEW r \in Requests
        PROVE  \/ /\ recording[r].outcome = NoSample /\ ~Recorded(r)
                  /\ answer[r] = NoAnswer \/ r \notin Measured
               \/ /\ recording[r].outcome = OutcomeRecorded(r)
                  /\ recording[r].outcome # NoSample
                  /\ Recorded(r) /\ recording[r].pending = {} /\ r \in Measured
                  /\ answer[r] = handler[r].result /\ answer[r] \in Codes
    <3>1. Shape(r)
      BY <1>1 DEF GatewayInv
    <3>2. CASE handler[r].pc \in {"new", "panicked"}
      BY <2>1, <3>1, <3>2 DEF Shape, CallShape, RecordShape, MetricsInv, PendingFits,
         Recorded
    <3>3. CASE handler[r].pc = "done" /\ ~Has(r, "metrics")
      BY <2>1, <3>1, <3>3 DEF Shape, RecordShape, MetricsInv, PendingFits, Recorded
    <3>4. CASE handler[r].pc = "done" /\ Has(r, "metrics")
      <4>1. /\ recording[r].outcome = OutcomeRecorded(r) /\ Recorded(r)
            /\ answer[r] = handler[r].result
        BY <3>1, <3>4 DEF Shape, CallShape, RecordShape
      <4>2. answer[r] \in Codes
        BY <3>1, <3>4, <4>1 DEF Shape, CallShape, Ending, Contract!Refusals,
           Contract!Results, Codes
      <4>3. recording[r].outcome # NoSample
        <5>1. OutcomeRecorded(r) \in Outcomes
          BY DEF OutcomeRecorded, Outcomes
        <5>2. QED
          BY <4>1, <5>1, MetricsAssumption
      <4>4. recording[r].pending = {}
        BY <2>1, <4>1 DEF MetricsInv, PendingFits, Recorded
      <4>5. QED
        BY <3>4, <4>1, <4>2, <4>3, <4>4
    <3>5. QED
      BY <1>1, <3>2, <3>3, <3>4
  <2>3. \A r \in Requests : ~UnderWay(r)
    BY <2>2 DEF UnderWay, Recorded
  <2>4. Counted("accepted") = {r \in Measured : answer[r] \in {"rows"}}
    <3>1. ASSUME NEW r \in Requests
          PROVE  r \in Counted("accepted") <=> r \in Measured /\ answer[r] = "rows"
      BY <2>2, GatewayAssumption DEF Counted, OutcomeRecorded, Increments, Codes
    <3>2. QED
      BY <3>1 DEF Counted
  <2>5. Counted("backend_errors") = {r \in Measured : answer[r] \in {"backend_unavailable"}}
    <3>1. ASSUME NEW r \in Requests
          PROVE  r \in Counted("backend_errors") <=>
                   r \in Measured /\ answer[r] = "backend_unavailable"
      BY <2>2, GatewayAssumption DEF Counted, OutcomeRecorded, Increments, Codes
    <3>2. QED
      BY <3>1 DEF Counted
  <2>6. {r \in Requests : Recorded(r)} = {r \in Measured : answer[r] # NoAnswer}
    BY <2>2, GatewayAssumption
  <2>7. /\ counter["accepted"] = Cardinality(Counted("accepted"))
        /\ counter["backend_errors"] = Cardinality(Counted("backend_errors"))
        /\ Len(latencies) = Cardinality({r \in Requests : Recorded(r)})
    BY <2>1 DEF MetricsInv, CountersCount, Counters
  <2>8. /\ counter["total"] = counter["accepted"] + counter["rejected"]
        /\ counter["total"] = Len(latencies)
    BY <2>1, <2>3 DEF BalancedAtRest
  <2>9. QED
    BY <2>4, <2>5, <2>6, <2>7, <2>8
<1>2. GatewayInv => MetricsMatchAnswers
  BY <1>1 DEF MetricsMatchAnswers
<1>3. QED
  BY <1>2, GatewayInvariance, PTL

-----------------------------------------------------------------------------
\* The gateway implements GatewayContract: sending a query and answering are
\* steps of the contract, the other steps leave its variables alone.
THEOREM ContractKept == Spec => KeepsContract
<1>1. Init => Contract!ContractInit
  BY DEF Init, Contract!ContractInit
<1>2. ASSUME GatewayInv, [Next]_vars
      PROVE  [Contract!ContractNext]_<<answer, executed>>
  <2>1. CASE UNCHANGED vars
    BY <2>1 DEF vars
  <2>2. ASSUME NEW r \in Requests, SendQuery(r)
        PROVE  Contract!SendQuery(r)
    <3>1. Shape(r) /\ executed \in [Requests -> Nat] /\ handler[r].pc = "query"
      BY <1>2, <2>2 DEF GatewayInv, Typed, SendQuery, At
    <3>2. answer[r] = NoAnswer /\ executed[r] = 0
      BY <3>1 DEF Shape, CallShape
    <3>3. QED
      BY <2>2, <3>1, <3>2 DEF SendQuery, Contract!SendQuery
  <2>3. ASSUME NEW r \in Requests, Answer(r)
        PROVE  Contract!Refuse(r) \/ Contract!Reply(r)
    <3>1. /\ Shape(r) /\ handler[r].pc \in {"record", "recording"}
          /\ answer' = [answer EXCEPT ![r] = handler[r].result]
          /\ UNCHANGED executed
      BY <1>2, <2>3 DEF GatewayInv, Answer, At
    <3>2. /\ answer[r] = NoAnswer
          /\ \/ executed[r] = 0 /\ handler[r].result \in Contract!Refusals
             \/ executed[r] = 1 /\ handler[r].result \in Contract!Results
      BY <3>1 DEF Shape, CallShape, Ending
    <3>3. QED
      BY <3>1, <3>2 DEF Contract!Refuse, Contract!Reply
  <2>4. ASSUME NEW r \in Requests,
               Validate(r) \/ BackendReplies(r) \/ LimitRate(r) \/ BeginBuild(r)
                 \/ EndBuild(r) \/ Audit(r) \/ RecordPool(r) \/ CheckOutput(r)
                 \/ BeginRecording(r) \/ Record(r)
        PROVE  UNCHANGED <<answer, executed>>
    BY <2>4 DEF Validate, BackendReplies, LimitRate, BeginBuild, EndBuild, Audit,
       RecordPool, CheckOutput, BeginRecording, Record
  <2>5. ASSUME NEW policy \in Policies, Reload(policy)
        PROVE  UNCHANGED <<answer, executed>>
    BY <2>5 DEF Reload
  <2>6. QED
    BY <1>2, <2>1, <2>2, <2>3, <2>4, <2>5 DEF Next, HandlerStep, Contract!ContractNext
<1>3. QED
  BY <1>1, <1>2, GatewayInvariance, PTL
     DEF Spec, KeepsContract, Contract!ContractSpec, Contract!contractVars
=============================================================================
