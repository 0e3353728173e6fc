---------------------------- MODULE MCQueryBuild ----------------------------
(* Policies and requests for TLC.  The policies differ in every way that    *)
(* matters to a build under reload: a key removed, renamed into a schema,   *)
(* made ambiguous; a column, an operator or a limit taken away; a default   *)
(* row limit above the maximum.                                             *)
EXTENDS QueryBuild

MCNames == {"users", "logs", "audit", "crm", "a.b", "id", "name", "e-mail"}
MCValidIdentifiers == MCNames \ {"a.b", "e-mail"}
MCOperators == {"Equals", "Like", "ILike", "FullText", "Between"}

Users == [schema |-> NoSchema, relation |-> "users"]
AuditUsers == [schema |-> "audit", relation |-> "users"]
CrmUsers == [schema |-> "crm", relation |-> "users"]
DottedLogs == [schema |-> "a.b", relation |-> "logs"]

Free == [column \in {} |-> {}]
Table(columns, operators) == [columns |-> columns, filter_operators |-> operators]
PolicyOf(tables, default, max, complexity) ==
    [tables |-> tables, default_row_limit |-> default, max_row_limit |-> max,
     max_query_complexity |-> complexity]

MCPolicies == {
    PolicyOf([t \in {Users} |-> Table({"id", "name"},
                [c \in {"name"} |-> {"Like", "Equals"}])], 2, 5, 6),
    PolicyOf([t \in {Users, AuditUsers, DottedLogs} |->
                IF t = Users THEN Table({"id"}, Free)
                ELSE Table({"id", "name", "e-mail"},
                           [c \in {"id"} |-> {"Equals", "Between"}])], 3, 3, 9),
    PolicyOf([t \in {AuditUsers} |-> Table({"id", "name", "e-mail"}, Free)], 6, 5, 6),
    PolicyOf([t \in {AuditUsers, CrmUsers} |-> Table({"id", "name"}, Free)], 1, 9, 4)}

F(column, operator, text, value_to) ==
    [column |-> column, operator |-> operator, text |-> text, value_to |-> value_to]
Select(table, columns, filters, limit) ==
    [tool |-> "select", table |-> table, columns |-> columns, filters |-> filters,
     limit |-> limit]
Search(table, columns, searchable, limit) ==
    [tool |-> "search", table |-> table, columns |-> columns,
     searchable_columns |-> searchable, limit |-> limit]
Op(column, alias_ok) == [column |-> column, alias_ok |-> alias_ok]
Aggregate(table, operations, filters) ==
    [tool |-> "aggregate", table |-> table, operations |-> operations,
     filters |-> filters]

MCRequests == {
    Select(Users, <<"id", "name">>, <<F("name", "Like", TRUE, FALSE)>>, Unset),
    Select(Users, <<"id">>, <<F("id", "Between", FALSE, TRUE),
                              F("name", "Equals", FALSE, FALSE)>>, 3),
    Select(Users, <<"id">>, <<F("id", "Equals", FALSE, TRUE)>>, 4),
    Select(AuditUsers, <<"name">>, <<F("id", "FullText", TRUE, FALSE)>>, Unset),
    Select(AuditUsers, <<"e-mail">>, <<>>, 1),
    Select(CrmUsers, <<"id">>, <<F("id", "ILike", FALSE, FALSE)>>, 9),
    Select(DottedLogs, <<"id">>, <<>>, 1),
    Select(Users, <<>>, <<>>, 1),
    Search(Users, <<"id">>, <<"name">>, Unset),
    Search(AuditUsers, <<"id">>, <<"e-mail">>, 2),
    Aggregate(Users, <<Op(Star, TRUE)>>, <<>>),
    Aggregate(Users, <<Op("id", TRUE), Op(Star, FALSE)>>, <<>>),
    Aggregate(Users, <<Op("id", TRUE)>>, <<F("id", "Between", FALSE, FALSE)>>),
    Aggregate(AuditUsers, <<Op(Star, TRUE), Op("name", TRUE)>>,
              <<F("id", "Between", FALSE, TRUE)>>)}
=============================================================================
