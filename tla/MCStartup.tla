----------------------------- MODULE MCStartup -----------------------------
(* Two families of scenarios: one environment with every file and command,  *)
(* for the interleavings, and many environments with one start, for the     *)
(* choice of the backend.                                                   *)
EXTENDS Startup, TLC

CONSTANTS i1, i2, t1, t2

MCInits == {i1, i2}

Named(name, backend, env) == [name_valid |-> name, backend |-> backend, env |-> env]

\* Profiles with tables of their own, one of them with its own variable.
Profiles == [dev |-> [policy |-> {t1}, connection |-> Named(TRUE, "unset", <<>>)],
             prod |-> [policy |-> {t2},
                       connection |-> Named(TRUE, "postgres", [url |-> "PROD_URL"])],
             odd |-> [policy |-> {t1}, connection |-> Named(FALSE, "unset", <<>>)],
             other |-> [policy |-> {t1}, connection |-> Named(TRUE, "oracle", <<>>)]]

With(profile, profiles) ==
    [profile |-> profile, policy |-> {t1, t2}, profiles |-> profiles,
     connection |-> Named(TRUE, "sqlite", <<>>)]

\* Shared variables: url_env holds for whichever backend is tried.
Shared == [DefaultConfig EXCEPT !.connection = Named(TRUE, "auto", [url |-> "SHARED_URL"])]

MCFiles == {With(profile, Profiles) : profile \in {"dev", "prod", "odd", "other", "gone"}}
               \cup {With(NoProfile, Profiles), With("gone", <<>>)}

MCConfigs == MCFiles \cup {DefaultConfig, Shared}
                 \cup {Template([backend |-> backend]) : backend \in Selectors}

MCTables == {t1, t2}

MCConnections ==
    {config.connection : config \in MCConfigs}
        \cup UNION {{config.profiles[name].connection : name \in DOMAIN config.profiles} :
                      config \in MCConfigs}

MCEdits == {Absent, Unreadable, With("gone", Profiles), With("prod", Profiles)}

NotRun == [run |-> FALSE, force |-> FALSE, name_valid |-> TRUE, backend |-> "auto"]

Variables == UNION {{DefaultNames[kind][role] : role \in DOMAIN DefaultNames[kind]} :
                       kind \in Kinds} \cup {"PROD_URL", "SHARED_URL"}

EnvWith(good) == [v \in Variables |-> IF v \in good THEN "good" ELSE "unset"]

Bases == {{}, {"DB_URL"}, {"DB_HOST", "DB_USER", "DB_NAME"}, {"MYSQL_URL"},
          {"MYSQL_HOST", "MYSQL_USER", "MYSQL_DATABASE"}, {"SQLITE_URL"},
          {"SQLITE_PATH"}, {"DB_URL", "MYSQL_URL"}, {"MYSQL_URL", "SQLITE_PATH"},
          {"SHARED_URL"}}

\* Each base, with at most one variable that reads otherwise.
Envs == {[EnvWith(base) EXCEPT ![v] = reading] :
            base \in Bases, v \in Variables,
            reading \in {"unset", "blank", "bad", "zero"}}

Setting(override, root, home, audit, stdio, choice, env) ==
    [override |-> override, root |-> root, home |-> home, audit |-> audit,
     stdio |-> stdio, choice |-> choice, env |-> env]

Files(content) ==
    [p \in Paths |-> CASE p = "dot_datagate" -> content
                       [] p = "project" -> With("dev", Profiles)
                       [] p = "override" -> Unreadable
                       [] OTHER -> Absent]

Race(stdio, force, content) ==
    [setting |-> Setting(FALSE, TRUE, FALSE, TRUE, stdio, "unset",
                         EnvWith({"SQLITE_PATH", "PROD_URL"})),
     file |-> Files(content), edits |-> MCEdits,
     options |-> (i1 :> [run |-> TRUE, force |-> force, name_valid |-> TRUE,
                         backend |-> "sqlite"]
               @@ i2 :> [run |-> TRUE, force |-> FALSE, name_valid |-> TRUE,
                         backend |-> "mysql"])]

Races == {Race(TRUE, force, content) : force \in BOOLEAN,
                                       content \in MCFiles \cup {Absent, Unreadable}}
             \cup {Race(FALSE, TRUE, With("prod", Profiles))}

Corners == {[setting |-> Setting(override, root, home, FALSE, TRUE, "unset",
                                 EnvWith({"SQLITE_PATH", "PROD_URL"})),
             file |-> Files(Absent), edits |-> {},
             options |-> (i1 :> [NotRun EXCEPT !.run = TRUE, !.name_valid = valid]
                       @@ i2 :> NotRun)] :
                override \in BOOLEAN, root \in BOOLEAN, home \in BOOLEAN,
                valid \in BOOLEAN}

Start(choice, content, env) ==
    [setting |-> Setting(FALSE, TRUE, TRUE, FALSE, TRUE, choice, env),
     file |-> Files(content), edits |-> {},
     options |-> (i1 :> NotRun @@ i2 :> NotRun)]

Backends ==
    {Start(choice, DefaultConfig, env) : choice \in Kinds \cup {"unset"}, env \in Envs}
        \cup {Start(choice, Shared, env) : choice \in {"unset", "mysql"}, env \in Envs}
        \cup {Start(choice, content, EnvWith(base)) :
                 choice \in {"auto", "blank", "unknown"}, base \in Bases,
                 content \in {DefaultConfig, Shared}}

MCScenarios == Races \cup Corners \cup Backends
=============================================================================
