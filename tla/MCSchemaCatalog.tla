--------------------------- MODULE MCSchemaCatalog ---------------------------
(* A pool of two sessions, and small databases: users is a table of two      *)
(* schemas; alice's goes, gains a column, or turns into a view, while bob's  *)
(* stays or goes.                                                            *)
EXTENDS SchemaCatalog

Relation(schema, kind, columns) ==
    [schema |-> schema, name |-> "users", kind |-> kind, columns |-> columns]

Bobs == Relation("bob", "table", {"id"})

MCDatabases ==
    {{Bobs, Relation("alice", "table", {"id", "email"})},
     {Bobs, Relation("alice", "view", {"email"})},
     {Bobs},
     {Relation("alice", "table", {"email"})}}
=============================================================================
