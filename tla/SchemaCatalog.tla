---------------------------- MODULE SchemaCatalog ----------------------------
(***************************************************************************)
(* What a process does with its pool (main.rs): `mcp stdio` serves calls   *)
(* with it; without that argument a Postgres pool loads the schema once,   *)
(* SchemaCatalog::load of schema.rs, and is dropped.                       *)
(*                                                                         *)
(* The load makes its queries one after the other, each on whatever        *)
(* session it gets and in no common transaction, while others may change   *)
(* the database.  The first error ends it.  Relations and columns are what *)
(* the queries are put together from; the five other lists are kept as     *)
(* their queries return them, so only those queries are modelled.          *)
(*                                                                         *)
(* Definitions whose name starts with Faulty are broken variants of the    *)
(* definition that follows them; no action uses one.                       *)
(***************************************************************************)
EXTENDS ConnectionPool, Sequences, Functions

CONSTANTS
    Databases,    \* sets of relations [schema, name, kind, columns]
    MaxChanges    \* bound: changes of the database in one behaviour

Queries == <<"tables", "views", "columns", "indexes", "constraints",
             "triggers", "routines", "sequences">>

\* Each query is a call of the pool, named for its list.
QueryCalls == Range(Queries)

ASSUME CatalogAssumption ==
    /\ QueryCalls \subseteq Calls
    /\ \A db \in Databases : \A r \in db :
          /\ r = [schema |-> r.schema, name |-> r.name, kind |-> r.kind,
                  columns |-> r.columns]
          /\ r.kind \in {"table", "view"}
          /\ \A t \in db : r.schema = t.schema /\ r.name = t.name => r = t
    /\ MaxChanges \in Nat

VARIABLES
    serving,     \* the process was started as `mcp stdio`
    database,    \* the relations there are
    changes,     \* how often they have changed
    found,       \* found[q]: the rows of query q
    stable       \* history: what has been there since the load began

catalogVars == <<serving, database, changes, found, stable>>

vars == <<poolVars, catalogVars>>

Init ==
    /\ PoolInit
    /\ serving \in BOOLEAN
    /\ database \in Databases
    /\ changes = 0
    /\ found = [q \in QueryCalls |-> {}]
    /\ stable = {}

-----------------------------------------------------------------------------
(* The rows of the queries, read when the statement starts.                *)

Listed(kind) ==
    {[schema |-> r.schema, name |-> r.name] : r \in {r \in database : r.kind = kind}}

ColumnRows ==
    UNION {{[schema |-> r.schema, relation |-> r.name, name |-> column] :
               column \in r.columns} : r \in database}

RowsOf(q) ==
    CASE q = "tables" -> Listed("table")
      [] q = "views" -> Listed("view")
      [] q = "columns" -> ColumnRows
      [] OTHER -> {}

\* The rows are attached to every relation of the same name.
FaultyAttachColumns(relation, columns) ==
    {column.name : column \in {c \in columns : c.relation = relation.name}}

\* attach_columns: a relation has the columns with its schema and name.
AttachColumns(relation, columns) ==
    {column.name : column \in
        {c \in columns : c.schema = relation.schema /\ c.relation = relation.name}}

\* The tables and views of the catalogue that `load` returns.
Catalogued ==
    LET Entries(query, kind) ==
            {[schema |-> r.schema, name |-> r.name, kind |-> kind,
              columns |-> AttachColumns(r, found["columns"])] : r \in found[query]}
    IN  Entries("tables", "table") \cup Entries("views", "view")

-----------------------------------------------------------------------------
LoadBegun == call[Queries[1]].pc # "new"

Loaded == \A q \in QueryCalls : call[q].outcome = "rows"

LoadFailed == \E q \in QueryCalls : call[q].outcome = "error"

\* A tool call of a server asks for a connection.
AskSelect(c) ==
    /\ serving
    /\ c \notin QueryCalls
    /\ Ask(c)
    /\ UNCHANGED catalogVars

\* load awaits each query before it makes the next.
AskQuery(i) ==
    /\ ~serving
    /\ \A j \in 1..(i - 1) : call[Queries[j]].outcome = "rows"
    /\ Ask(Queries[i])
    /\ stable' = IF i = 1 THEN database ELSE stable
    /\ UNCHANGED <<serving, database, changes, found>>

\* The statement reads the database as it is when it starts.
ExecuteCall(c) ==
    /\ Execute(c)
    /\ found' = IF c \in QueryCalls THEN [found EXCEPT ![c] = RowsOf(c)] ELSE found
    /\ UNCHANGED <<serving, database, changes, stable>>

\* The other steps of the pool.
PoolStep ==
    /\ \/ \E c \in Users : AcquireStep(c)
       \/ \E s \in Slots : CloseIdle(s) \/ Return(s)
       \/ ProbeDone
       \/ \E c \in Calls : Reply(c) \/ Convert(c)
    /\ UNCHANGED catalogVars

AskProbe ==
    /\ Ask(Probe)
    /\ UNCHANGED catalogVars

\* Someone else creates, drops or alters relations during the load.
ChangeDatabase ==
    /\ LoadBegun /\ ~Loaded /\ ~LoadFailed
    /\ changes < MaxChanges
    /\ \E other \in Databases \ {database} :
          /\ database' = other
          /\ stable' = stable \cap other
    /\ changes' = changes + 1
    /\ UNCHANGED <<poolVars, serving, found>>

Next ==
    \/ AskProbe
    \/ \E c \in Calls : AskSelect(c) \/ ExecuteCall(c)
    \/ \E i \in DOMAIN Queries : AskQuery(i)
    \/ PoolStep
    \/ ChangeDatabase

\* A call that has its connection sends its statement.
Fairness ==
    /\ PoolFairness
    /\ \A c \in Calls : WF_vars(ExecuteCall(c))

Spec == Init /\ [][Next]_vars /\ Fairness

-----------------------------------------------------------------------------
\* A catalogue that was loaded has every relation that was there unchanged
\* from the first query on, with exactly its columns, and once, whatever
\* changed around it between the queries.
StableRelationsAreExact ==
    Loaded => \A r \in stable :
        {entry \in Catalogued : entry.schema = r.schema /\ entry.name = r.name} = {r}
=============================================================================
