------------------------------- MODULE Policy -------------------------------
(***************************************************************************)
(* The checks of the policy engine (policy.rs) as operators over ONE       *)
(* policy, the one a check finds under the read lock.  QueryBuild calls    *)
(* them from the steps of a build, where the policy can be replaced        *)
(* between two of them.                                                    *)
(*                                                                         *)
(* A table name is a record [schema, relation]: `schema` is what stands    *)
(* before the last dot, NoSchema when there is none.  A policy key, a      *)
(* requested table and the table in the SQL text are all table names.      *)
(*                                                                         *)
(* Definitions whose name starts with Faulty are broken variants of the    *)
(* definition that follows them; nothing uses them.                        *)
(***************************************************************************)
EXTENDS Naturals

CONSTANTS
    NoSchema,           \* the schema of an unqualified table name
    Names,              \* schema, relation and column names
    ValidIdentifiers,   \* the names that quote_identifier accepts
    Operators           \* FilterOperator: the kinds of filter in use

ASSUME NamesAssumption ==
    /\ NoSchema \notin Names
    /\ ValidIdentifiers \subseteq Names

TableName == [schema : Names \cup {NoSchema}, relation : Names]

Qualified(table) == table.schema # NoSchema

IsTableConfig(table) ==
    /\ table.columns \subseteq Names
    /\ DOMAIN table.filter_operators \subseteq Names
    /\ \A column \in DOMAIN table.filter_operators :
          table.filter_operators[column] \subseteq Operators

\* max_output_bytes plays no part before the backend has answered: the
\* module Gateway has it.
IsPolicyConfig(policy) ==
    /\ DOMAIN policy.tables \subseteq TableName
    /\ \A key \in DOMAIN policy.tables : IsTableConfig(policy.tables[key])
    /\ policy.default_row_limit \in Nat
    /\ policy.max_row_limit \in Nat
    /\ policy.max_query_complexity \in Nat

-----------------------------------------------------------------------------
\* The keys `schema.table` that an unqualified table name can stand for.
Candidates(policy, table) ==
    {key \in DOMAIN policy.tables :
        Qualified(key) /\ key.relation = table.relation}

\* resolve_table_key returns `key`: the name itself when it is a key, else
\* the one schema-qualified key with that relation, for unqualified names only.
ResolvesTo(policy, table, key) ==
    \/ key = table /\ table \in DOMAIN policy.tables
    \/ /\ table \notin DOMAIN policy.tables
       /\ ~Qualified(table)
       /\ Candidates(policy, table) = {key}

\* resolve_table_key returns TableNotAllowed or AmbiguousTableReference.
Unresolved(policy, table) ==
    \A key \in DOMAIN policy.tables : ~ResolvesTo(policy, table, key)

\* The indexing config.tables[&key]: it panics when the key is not there.
KeyPresent(policy, key) == key \in DOMAIN policy.tables

\* The column is looked for in every table of the policy.
FaultyColumnListed(policy, key, column) ==
    \E other \in DOMAIN policy.tables : column \in policy.tables[other].columns

ColumnListed(policy, key, column) == column \in policy.tables[key].columns

\* The column is allow-listed and its operator list, if it has one, holds
\* the operator.
OperatorListed(policy, key, column, operator) ==
    LET lists == policy.tables[key].filter_operators
    IN  /\ ColumnListed(policy, key, column)
        /\ column \in DOMAIN lists => operator \in lists[column]

RowLimit(policy, requested, Unset) ==
    IF requested = Unset THEN policy.default_row_limit ELSE requested

\* The default row limit is trusted: only a requested limit is compared.
FaultyRowLimitAllowed(policy, requested, Unset) ==
    requested # Unset => requested <= policy.max_row_limit

\* resolve_row_limit: the default is held to the maximum as well.
RowLimitAllowed(policy, requested, Unset) ==
    RowLimit(policy, requested, Unset) <= policy.max_row_limit

ComplexityAllowed(policy, complexity) ==
    complexity <= policy.max_query_complexity

-----------------------------------------------------------------------------
ValidIdentifier(name) == name \in ValidIdentifiers

\* quote_table_reference: one dot at most, every part an identifier.  A
\* schema that holds a dot is a name that is not a valid identifier.
ValidTableReference(table) ==
    /\ Qualified(table) => ValidIdentifier(table.schema)
    /\ ValidIdentifier(table.relation)
=============================================================================
