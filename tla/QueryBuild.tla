----------------------------- MODULE QueryBuild -----------------------------
(***************************************************************************)
(* The query builder (query.rs) while the policy is being reloaded.        *)
(*                                                                         *)
(* A build consults the shared Policy handle many times, and every         *)
(* consultation takes the read lock anew: check_table and the limits once, *)
(* check_column and check_filter_operator twice, first to resolve the      *)
(* table key and then to look the key up.  Policy::reload may take the     *)
(* write lock between any two of them.                                     *)
(*                                                                         *)
(* Script(request) is the order in which a build consults the policy; a    *)
(* behaviour walks each request's script, one action per lock acquisition. *)
(* What a build does to its own data after a check (quoting an identifier, *)
(* comparing value kinds, pushing binds) is part of that check's action.   *)
(*                                                                         *)
(* Definitions whose name starts with Faulty are broken variants of the    *)
(* definition that follows them; no action uses one.                       *)
(***************************************************************************)
EXTENDS Policy, Sequences

CONSTANTS
    Policies,    \* the policies that may be active
    Requests,    \* the requests a behaviour builds
    Builders,    \* concurrent calls of build()
    Unset,       \* an absent limit
    Star,        \* the column of COUNT(*)
    NoKey,       \* no table key resolved
    MaxReloads   \* bound: reloads in one behaviour

ASSUME PoliciesAssumption == \A policy \in Policies : IsPolicyConfig(policy)

ASSUME SentinelAssumption ==
    /\ Unset \notin Nat
    /\ Star \notin Names
    /\ NoKey \notin TableName
    /\ MaxReloads \in Nat

VARIABLES
    history,  \* every policy that has been active, the active one last
    build     \* build[b]: the progress of a call of build()

vars == <<history, build>>

active == history[Len(history)]

-----------------------------------------------------------------------------
(* Requests.  A filter is [column, operator, text, value_to]: whether its  *)
(* value is text and whether value_to is present.  An operation of an      *)
(* aggregate is [column, alias_ok], Star standing for the column of        *)
(* COUNT with "*".                                                         *)

Filter == [column : Names, operator : Operators, text : BOOLEAN, value_to : BOOLEAN]

IsRequest(r) ==
    /\ r.tool \in {"select", "search", "aggregate"}
    /\ r.table \in TableName
    /\ CASE r.tool = "select" ->
              /\ r.columns \in Seq(Names)
              /\ r.filters \in Seq(Filter)
              /\ r.limit \in Nat \cup {Unset}
         [] r.tool = "search" ->
              /\ r.columns \in Seq(Names)
              /\ r.searchable_columns \in Seq(Names)
              /\ r.limit \in Nat \cup {Unset}
         [] r.tool = "aggregate" ->
              /\ r.operations \in Seq([column : Names \cup {Star}, alias_ok : BOOLEAN])
              /\ r.filters \in Seq(Filter)

ASSUME RequestsAssumption == \A r \in Requests : IsRequest(r)

\* The value kinds that build_filters demands of an operator.
FilterShape(f) ==
    CASE f.operator = "Between" -> f.value_to
      [] f.operator \in {"FullText", "Like", "ILike"} -> f.text /\ ~f.value_to
      [] OTHER -> ~f.value_to

\* query_complexity.  Its saturation at u32::MAX is out of reach of the
\* lengths a request in memory can have.
QueryComplexity(primary, secondary) == primary + 2 * secondary

-----------------------------------------------------------------------------
(* Scripts.  A step is a consultation of the policy; `ok` is what the      *)
(* build's own checks that follow the consultation come to, and `filter`   *)
(* the number of the filter whose values the step binds, 0 for none.       *)

TableStep(table) ==
    [check |-> "table", ok |-> ValidTableReference(table), filter |-> 0]

ColumnStep(column) ==
    [check |-> "column", column |-> column, ok |-> ValidIdentifier(column),
     filter |-> 0]

\* In build_filters the identifier is quoted after the operator check.
FilterColumnStep(f) ==
    [check |-> "column", column |-> f.column, ok |-> TRUE, filter |-> 0]

OperatorStep(f, i) ==
    [check |-> "operator", column |-> f.column, operator |-> f.operator,
     ok |-> ValidIdentifier(f.column) /\ FilterShape(f), filter |-> i]

LimitStep(limit) ==
    [check |-> "limit", limit |-> limit, ok |-> TRUE, filter |-> 0]

ComplexityStep(n) ==
    [check |-> "complexity", complexity |-> n, ok |-> TRUE, filter |-> 0]

\* COUNT(*) consults nothing; it only has its alias to quote.
OperationStep(operation) ==
    IF operation.column = Star
    THEN [check |-> "none", ok |-> operation.alias_ok, filter |-> 0]
    ELSE [check |-> "column", column |-> operation.column,
          ok |-> ValidIdentifier(operation.column) /\ operation.alias_ok,
          filter |-> 0]

\* validate_columns
ColumnSteps(columns) == [i \in DOMAIN columns |-> ColumnStep(columns[i])]

\* build_filters: check_column and check_filter_operator for each filter.
FilterSteps(filters) ==
    [i \in 1..(2 * Len(filters)) |->
        LET n == (i + 1) \div 2
        IN  IF i % 2 = 1 THEN FilterColumnStep(filters[n])
                         ELSE OperatorStep(filters[n], n)]

SelectScript(r) ==
    <<TableStep(r.table)>> \o ColumnSteps(r.columns) \o
    <<LimitStep(r.limit),
      ComplexityStep(QueryComplexity(Len(r.columns), Len(r.filters)))>> \o
    FilterSteps(r.filters)

SearchScript(r) ==
    <<TableStep(r.table)>> \o ColumnSteps(r.columns) \o
    ColumnSteps(r.searchable_columns) \o
    <<LimitStep(r.limit),
      ComplexityStep(QueryComplexity(Len(r.columns), Len(r.searchable_columns)))>>

AggregateScript(r) ==
    <<TableStep(r.table)>> \o
    [i \in DOMAIN r.operations |-> OperationStep(r.operations[i])] \o
    <<ComplexityStep(QueryComplexity(Len(r.operations), Len(r.filters)))>> \o
    FilterSteps(r.filters)

Script(r) ==
    CASE r.tool = "select" -> SelectScript(r)
      [] r.tool = "search" -> SearchScript(r)
      [] r.tool = "aggregate" -> AggregateScript(r)

\* EmptyColumns, EmptySearchColumns and EmptyAggregates: checked first.
NonEmpty(r) ==
    CASE r.tool = "select" -> r.columns # <<>>
      [] r.tool = "search" -> r.columns # <<>> /\ r.searchable_columns # <<>>
      [] r.tool = "aggregate" -> r.operations # <<>>

-----------------------------------------------------------------------------
(* A build.  `outcome` is "building", "accepted", "panicked" or the error  *)
(* code that public_error_for_query maps the error to.  A bind is known by *)
(* where its value comes from, <<filter number, "value" or "value_to">> or *)
(* <<0, "limit">> or <<0, "text">>; a placeholder [index, stands_for] is   *)
(* "$index" written where that value belongs.                              *)

\* Placeholders are numbered from $0.
FaultyNotStarted ==
    [request |-> Unset, step |-> 0, key |-> NoKey, since |-> 0, until |-> 0,
     from |-> NoKey, limit |-> Unset, bind_index |-> 0, binds |-> <<>>,
     placeholders |-> {}, outcome |-> "none"]

NotStarted ==
    [request |-> Unset, step |-> 0, key |-> NoKey, since |-> 0, until |-> 0,
     from |-> NoKey, limit |-> Unset, bind_index |-> 1, binds |-> <<>>,
     placeholders |-> {}, outcome |-> "none"]

Init ==
    /\ history \in {<<policy>> : policy \in Policies}
    /\ build = [b \in Builders |-> NotStarted]

Running(b) == build[b].outcome = "building"

Step(b) == Script(build[b].request)[build[b].step]

AtStep(b, checks) ==
    /\ Running(b)
    /\ build[b].step <= Len(Script(build[b].request))
    /\ Step(b).check \in checks

End(b, outcome) ==
    /\ build' = [build EXCEPT ![b].outcome = outcome, ![b].until = Len(history)]
    /\ UNCHANGED history

\* self.columns.is_empty() and its like, before the policy is consulted.
Begin(b) ==
    /\ build[b].outcome = "none"
    /\ \E r \in Requests :
          build' = [build EXCEPT ![b] =
                      [NotStarted EXCEPT
                         !.request = r, !.step = 1, !.since = Len(history),
                         !.until = Len(history),
                         !.outcome = IF NonEmpty(r) THEN "building"
                                     ELSE "invalid_request"]]
    /\ UNCHANGED history

\* A BETWEEN filter takes one placeholder number instead of two.
FaultyPushFilter(state, n) ==
    LET between == state.request.filters[n].operator = "Between"
        value == <<n, "value">>
        value_to == <<n, "value_to">>
        i == state.bind_index
    IN  [state EXCEPT
            !.binds = @ \o (IF between THEN <<value, value_to>> ELSE <<value>>),
            !.placeholders = @ \cup {[index |-> i, stands_for |-> value]} \cup
                (IF between THEN {[index |-> i + 1, stands_for |-> value_to]} ELSE {}),
            !.bind_index = i + 1]

\* build_filters writes "$i" and pushes the value it stands for: two of
\* them for BETWEEN, one otherwise.
PushFilter(state, n) ==
    LET between == state.request.filters[n].operator = "Between"
        value == <<n, "value">>
        value_to == <<n, "value_to">>
        i == state.bind_index
    IN  [state EXCEPT
            !.binds = @ \o (IF between THEN <<value, value_to>> ELSE <<value>>),
            !.placeholders = @ \cup {[index |-> i, stands_for |-> value]} \cup
                (IF between THEN {[index |-> i + 1, stands_for |-> value_to]} ELSE {}),
            !.bind_index = i + (IF between THEN 2 ELSE 1)]

\* The consultation passed with `state`: the build's own checks follow, then
\* the next step of its script.
Passed(b, state) ==
    IF ~Step(b).ok THEN End(b, "invalid_request")
    ELSE LET pushed == IF Step(b).filter = 0 THEN state
                       ELSE PushFilter(state, Step(b).filter)
         IN  /\ build' = [build EXCEPT ![b] =
                            [pushed EXCEPT !.step = @ + 1, !.key = NoKey]]
             /\ UNCHANGED history

\* validate_table; the plan reads from the table as requested.
CheckTable(b) ==
    LET table == build[b].request.table
    IN  /\ AtStep(b, {"table"})
        /\ IF Unresolved(active, table) THEN End(b, "policy_denied")
           ELSE Passed(b, [build[b] EXCEPT !.from = table])

\* The requested name is kept for the look-up instead of the resolved key.
FaultyResolveKey(b) ==
    LET table == build[b].request.table
    IN  /\ AtStep(b, {"column", "operator"})
        /\ build[b].key = NoKey
        /\ IF Unresolved(active, table) THEN End(b, "policy_denied")
           ELSE /\ build' = [build EXCEPT ![b].key = table]
                /\ UNCHANGED history

\* The first half of check_column and check_filter_operator: the key is
\* resolved and the read lock released.
ResolveKey(b) ==
    LET table == build[b].request.table
    IN  /\ AtStep(b, {"column", "operator"})
        /\ build[b].key = NoKey
        /\ \/ /\ Unresolved(active, table)
              /\ End(b, "policy_denied")
           \/ /\ \E key \in DOMAIN active.tables :
                    /\ ResolvesTo(active, table, key)
                    /\ build' = [build EXCEPT ![b].key = key]
              /\ UNCHANGED history

\* The second half, under a new read lock, on the policy that is active now.
LookUpColumn(b) ==
    /\ AtStep(b, {"column"})
    /\ build[b].key # NoKey
    /\ KeyPresent(active, build[b].key)
    /\ IF ColumnListed(active, build[b].key, Step(b).column)
       THEN Passed(b, build[b]) ELSE End(b, "policy_denied")

LookUpOperator(b) ==
    /\ AtStep(b, {"operator"})
    /\ build[b].key # NoKey
    /\ KeyPresent(active, build[b].key)
    /\ IF OperatorListed(active, build[b].key, Step(b).column, Step(b).operator)
       THEN Passed(b, build[b]) ELSE End(b, "policy_denied")

\* config.tables[&key] with a key that a reload has removed.
LookUpPanics(b) ==
    /\ AtStep(b, {"column", "operator"})
    /\ build[b].key # NoKey
    /\ ~KeyPresent(active, build[b].key)
    /\ End(b, "panicked")

CheckLimit(b) ==
    /\ AtStep(b, {"limit"})
    /\ IF RowLimitAllowed(active, Step(b).limit, Unset)
       THEN Passed(b, [build[b] EXCEPT !.limit =
                         RowLimit(active, Step(b).limit, Unset)])
       ELSE End(b, "policy_denied")

CheckComplexity(b) ==
    /\ AtStep(b, {"complexity"})
    /\ IF ComplexityAllowed(active, Step(b).complexity)
       THEN Passed(b, build[b]) ELSE End(b, "policy_denied")

\* COUNT(*): no column to check.
SkipCheck(b) ==
    /\ AtStep(b, {"none"})
    /\ Passed(b, build[b])

\* What is pushed once all checks have passed: the limit of a select after
\* its filters' values; the text and the limit of a search, whose $1 stands
\* in every predicate; nothing for an aggregate.
LastBinds(state) ==
    CASE state.request.tool = "select" -> Append(state.binds, <<0, "limit">>)
      [] state.request.tool = "search" -> <<<<0, "text">>, <<0, "limit">>>>
      [] state.request.tool = "aggregate" -> state.binds

LastPlaceholders(state) ==
    CASE state.request.tool = "select" ->
            {[index |-> Len(LastBinds(state)), stands_for |-> <<0, "limit">>]}
      [] state.request.tool = "search" ->
            {[index |-> 1, stands_for |-> <<0, "text">>],
             [index |-> 2, stands_for |-> <<0, "limit">>]}
      [] state.request.tool = "aggregate" -> {}

\* Ok(QueryPlan { sql, binds })
Finish(b) ==
    /\ Running(b)
    /\ build[b].step > Len(Script(build[b].request))
    /\ build' = [build EXCEPT ![b] =
                   [build[b] EXCEPT
                      !.outcome = "accepted",
                      !.until = Len(history),
                      !.binds = LastBinds(build[b]),
                      !.placeholders = @ \cup LastPlaceholders(build[b])]]
    /\ UNCHANGED history

\* Policy::reload, and the last step of a reload_from_file that could load
\* and resolve its file; one that could not changes nothing.
Reload(policy) ==
    /\ Len(history) <= MaxReloads
    /\ policy # active
    /\ history' = Append(history, policy)
    /\ UNCHANGED build

BuildStep(b) ==
    \/ Begin(b) \/ CheckTable(b) \/ ResolveKey(b)
    \/ LookUpColumn(b) \/ LookUpOperator(b) \/ LookUpPanics(b)
    \/ CheckLimit(b) \/ CheckComplexity(b) \/ SkipCheck(b) \/ Finish(b)

Next ==
    \/ \E b \in Builders : BuildStep(b)
    \/ \E policy \in Policies : Reload(policy)

Spec == Init /\ [][Next]_vars

-----------------------------------------------------------------------------
(* What a request may do, read off a policy directly.                      *)

\* The columns a request names, in whatever role.
ColumnsOf(r) ==
    CASE r.tool = "select" ->
            {r.columns[i] : i \in DOMAIN r.columns} \cup
            {r.filters[i].column : i \in DOMAIN r.filters}
      [] r.tool = "search" ->
            {r.columns[i] : i \in DOMAIN r.columns} \cup
            {r.searchable_columns[i] : i \in DOMAIN r.searchable_columns}
      [] r.tool = "aggregate" ->
            ({r.operations[i].column : i \in DOMAIN r.operations} \ {Star}) \cup
            {r.filters[i].column : i \in DOMAIN r.filters}

FiltersOf(r) ==
    IF r.tool = "search" THEN {} ELSE {r.filters[i] : i \in DOMAIN r.filters}

\* The keys of the policy that the docs let a table name stand for.
KeysFor(policy, table) ==
    LET same == {key \in DOMAIN policy.tables : key = table}
        qualified == {key \in DOMAIN policy.tables :
                        key.relation = table.relation /\ key.schema # NoSchema}
    IN  IF same # {} \/ table.schema # NoSchema THEN same
        ELSE IF \A k1, k2 \in qualified : k1 = k2 THEN qualified ELSE {}

FilterListed(table, f) ==
    f.column \in DOMAIN table.filter_operators =>
        f.operator \in table.filter_operators[f.column]

TermsOf(r) ==
    CASE r.tool = "select" -> Len(r.columns) + 2 * Len(r.filters)
      [] r.tool = "search" -> Len(r.columns) + 2 * Len(r.searchable_columns)
      [] r.tool = "aggregate" -> Len(r.operations) + 2 * Len(r.filters)

LimitOf(policy, r) ==
    IF r.limit = Unset THEN policy.default_row_limit ELSE r.limit

\* The policy allows the request if its table goes by the name `table`.
AdmissibleAs(policy, table, r) ==
    /\ \E key \in KeysFor(policy, table) :
          /\ ColumnsOf(r) \subseteq policy.tables[key].columns
          /\ \A f \in FiltersOf(r) : FilterListed(policy.tables[key], f)
    /\ r.tool # "aggregate" => LimitOf(policy, r) <= policy.max_row_limit
    /\ TermsOf(r) <= policy.max_query_complexity

Admissible(policy, r) == AdmissibleAs(policy, r.table, r)

\* docs/mcp-tools.md:141, 159-160: value_to is "required for `between`, ignored
\* otherwise", and a pattern or full-text filter takes a text.
DocumentedShape(f) ==
    /\ f.operator = "Between" => f.value_to
    /\ f.operator \in {"FullText", "Like", "ILike"} => f.text

\* A request as the documents ask for it.
WellFormed(r) ==
    /\ NonEmpty(r)
    /\ ValidTableReference(r.table)
    /\ ColumnsOf(r) \subseteq ValidIdentifiers
    /\ r.tool = "aggregate" => \A i \in DOMAIN r.operations : r.operations[i].alias_ok
    /\ \A f \in FiltersOf(r) : DocumentedShape(f)

\* A value_to that the documents say is ignored.
StrayValueTo(r) == \E f \in FiltersOf(r) : f.operator # "Between" /\ f.value_to

\* Every value a plan for the request has to bind.
ValuesOf(r) ==
    CASE r.tool = "search" -> {<<0, "text">>, <<0, "limit">>}
      [] OTHER ->
            (IF r.tool = "select" THEN {<<0, "limit">>} ELSE {}) \cup
            {<<i, "value">> : i \in DOMAIN r.filters} \cup
            {<<i, "value_to">> : i \in
                {j \in DOMAIN r.filters : r.filters[j].operator = "Between"}}

-----------------------------------------------------------------------------
(* Properties.                                                             *)

Ended(b) == build[b].outcome \notin {"none", "building"}

Accepted(b) == build[b].outcome = "accepted"

\* The policies active at some time during a build, by their place in history.
During(b) == build[b].since .. build[b].until

\* Every variable has its type.
TypeOK ==
    /\ history \in Seq(Policies) \ {<<>>}
    /\ \A b \in Builders :
          /\ build[b].request \in Requests \cup {Unset}
          /\ build[b].step \in Nat
          /\ build[b].since \in 0..Len(history)
          /\ build[b].until \in build[b].since..Len(history)
          /\ build[b].key \in TableName \cup {NoKey}
          /\ build[b].from \in TableName \cup {NoKey}
          /\ build[b].limit \in Nat \cup {Unset}
          /\ build[b].bind_index \in Nat \ {0}
          /\ build[b].outcome \in {"none", "building", "accepted", "policy_denied",
                                   "invalid_request", "panicked"}

\* The walk through a script that no reload disturbs comes to exactly what
\* the policy says of the request as a whole: it accepts the well-formed
\* requests the policy admits and no others, and blames the right side.  The
\* one exception is where the code contradicts docs/mcp-tools.md:141: a stray
\* value_to is not ignored (query.rs:319, 332, 345), it is an invalid request.
\* The name that the SQL reads from is one the policy lists, or stands for
\* exactly one key, and that key is the one the rest was checked under.
UndisturbedBuildIsExact ==
    \A b \in Builders :
        (Ended(b) /\ build[b].since = build[b].until) =>
            LET policy == history[build[b].since]
                r == build[b].request
            IN  /\ build[b].outcome # "panicked"
                /\ Accepted(b) <=>
                      Admissible(policy, r) /\ WellFormed(r) /\ ~StrayValueTo(r)
                /\ Accepted(b) => AdmissibleAs(policy, build[b].from, r)
                /\ build[b].outcome = "policy_denied" => ~Admissible(policy, r)
                /\ build[b].outcome = "invalid_request" => ~WellFormed(r) \/ StrayValueTo(r)

\* Whatever is reloaded meanwhile, the table that an accepted plan names, its
\* limit, its cost and each column and operator were allowed by a policy active
\* during the build, the latter under a key that a policy active no later
\* resolved the table to.
PlanCoveredWhileBuilding ==
    \A b \in Builders : Accepted(b) =>
        LET r == build[b].request
            Listed(Test(_)) ==
                \E i, j \in During(b) :
                    /\ i <= j
                    /\ \E key \in KeysFor(history[i], r.table) :
                          /\ key \in DOMAIN history[j].tables
                          /\ Test(history[j].tables[key])
        IN  /\ WellFormed(r)
            /\ \E i \in During(b) : KeysFor(history[i], build[b].from) # {}
            /\ \A column \in ColumnsOf(r) :
                  LET Allowed(table) == column \in table.columns
                  IN  Listed(Allowed)
            /\ \A f \in FiltersOf(r) :
                  LET Allowed(table) == f.column \in table.columns /\ FilterListed(table, f)
                  IN  Listed(Allowed)
            /\ r.tool # "aggregate" =>
                  \E i \in During(b) : /\ build[b].limit = LimitOf(history[i], r)
                                       /\ build[b].limit <= history[i].max_row_limit
            /\ \E i \in During(b) : TermsOf(r) <= history[i].max_query_complexity

\* In an accepted plan every placeholder has a number that is bound, the
\* value bound there is the one it was written for, every bound value is
\* used, and no value of the request is missing: filters that bind two
\* values do not shift the ones after them, nor the limit.
PlaceholdersBindTheirValues ==
    \A b \in Builders : Accepted(b) =>
        LET binds == build[b].binds
            placeholders == build[b].placeholders
        IN  /\ {h.index : h \in placeholders} = DOMAIN binds
            /\ \A h \in placeholders : binds[h.index] = h.stands_for
            /\ {h.stands_for : h \in placeholders} = ValuesOf(build[b].request)

\* A build panics only when a reload during it removed a key that the
\* request's table resolved to.
PanicMeansKeyRemoved ==
    \A b \in Builders : build[b].outcome = "panicked" =>
        \E i, j \in During(b) :
            i < j /\ ~(KeysFor(history[i], build[b].request.table)
                         \subseteq DOMAIN history[j].tables)

-----------------------------------------------------------------------------
(* What comments and docs say of the builder, and the code does not do.    *)

\* policy.rs:79 "Rejects any column not explicitly allow-listed for the
\* given table.": a check answers, whatever is reloaded meanwhile.
ChecksAnswer == \A b \in Builders : build[b].outcome # "panicked"

\* docs/mcp-tools.md:50 "atomically replaces the policy used by subsequent
\* tool requests": an accepted plan is one that a single policy admits.
DecidedByOnePolicy ==
    \A b \in Builders : Accepted(b) =>
        \E i \in During(b) : Admissible(history[i], build[b].request)

\* policy.rs:74 "Rejects any table not explicitly present in the allow-list.":
\* an accepted plan reads from a table that is a key of the policy.
PlanReadsListedTable ==
    \A b \in Builders : Accepted(b) =>
        \E i \in During(b) : build[b].from \in DOMAIN history[i].tables
=============================================================================
