--------------------------- MODULE Configuration ---------------------------
(***************************************************************************)
(* What config.rs makes of a parsed configuration file and of the          *)
(* environment: the profile in force, the policy and the connection it     *)
(* selects, and the settings of a backend read from the variables that the *)
(* connection names.  Operators only; Startup has the steps that use them. *)
(*                                                                         *)
(* A policy stands here for the tables it allows: DenyAll is the default   *)
(* PolicyConfig.  A value of a variable is known by how it reads: not set, *)
(* blank (or not Unicode), the number 0, a text that neither parses as a   *)
(* number nor as a URL nor as an option list, or a good one.               *)
(*                                                                         *)
(* Definitions whose name starts with Faulty are broken variants of the    *)
(* definition that follows them; nothing uses them.                        *)
(***************************************************************************)
EXTENDS Naturals

CONSTANTS
    NoProfile,     \* Config.profile is None
    Tables,        \* the tables that policies allow
    Connections    \* ConnectionConfig: [name_valid, backend, env]

Kinds == {"postgres", "mysql", "sqlite"}

Selectors == Kinds \cup {"auto"}

\* The order of the automatic choice.
AutoOrder == <<"postgres", "mysql", "sqlite">>

DenyAll == {}

DefaultConnection == [name_valid |-> TRUE, backend |-> "unset", env |-> <<>>]

DefaultConfig == [profile |-> NoProfile, policy |-> DenyAll,
                  connection |-> DefaultConnection, profiles |-> <<>>]

\* A profile, or the flat sections of a file.
IsProfile(profile) ==
    profile.policy \subseteq Tables /\ profile.connection \in Connections

IsConfig(config) ==
    /\ IsProfile(config)
    /\ NoProfile \notin DOMAIN config.profiles
    /\ \A name \in DOMAIN config.profiles : IsProfile(config.profiles[name])

-----------------------------------------------------------------------------
\* A profile counts only if the file has profiles at all: otherwise the flat
\* sections hold, whatever `profile` says.
ProfileCounts(config) ==
    config.profile # NoProfile /\ DOMAIN config.profiles # {}

UnknownProfile(config) ==
    ProfileCounts(config) /\ config.profile \notin DOMAIN config.profiles

FlatSections(config) ==
    [policy |-> config.policy, connection |-> config.connection]

FaultySections(config) ==
    IF config.profile \in DOMAIN config.profiles
    THEN [config.profiles[config.profile] EXCEPT !.connection = config.connection]
    ELSE FlatSections(config)

\* The sections in force, of a configuration without an unknown profile.
Sections(config) ==
    IF ProfileCounts(config) THEN config.profiles[config.profile]
                             ELSE FlatSections(config)

\* effective_connection fails.
RejectsConnection(config) ==
    UnknownProfile(config) \/ ~Sections(config).connection.name_valid

\* DATAGATE_BACKEND, when it is set at all, decides over the connection.
ResolveSelector(choice, connection) ==
    LET wanted == IF choice # "unset" THEN choice ELSE connection.backend
    IN IF wanted = "unset" THEN "auto"
       ELSE IF wanted \in Selectors THEN wanted ELSE "invalid"

-----------------------------------------------------------------------------
DefaultNames ==
    [postgres |-> [url |-> "DB_URL", options |-> "DB_OPTIONS", host |-> "DB_HOST",
                   port |-> "DB_PORT", user |-> "DB_USER",
                   password |-> "DB_PASSWORD", database |-> "DB_NAME",
                   max_connections |-> "DB_MAX_CONNECTIONS",
                   acquire_timeout_secs |-> "DB_ACQUIRE_TIMEOUT_SECS"],
     mysql |-> [url |-> "MYSQL_URL", host |-> "MYSQL_HOST", port |-> "MYSQL_PORT",
                user |-> "MYSQL_USER", password |-> "MYSQL_PASSWORD",
                database |-> "MYSQL_DATABASE",
                max_connections |-> "MYSQL_MAX_CONNECTIONS",
                acquire_timeout_secs |-> "MYSQL_ACQUIRE_TIMEOUT_SECS"],
     sqlite |-> [url |-> "SQLITE_URL", path |-> "SQLITE_PATH",
                 max_connections |-> "SQLITE_MAX_CONNECTIONS",
                 acquire_timeout_secs |-> "SQLITE_ACQUIRE_TIMEOUT_SECS"]]

\* The variable of each role: the one the connection names, for whichever
\* backend it is read, else the default.
EnvNames(connection, kind) ==
    [role \in DOMAIN DefaultNames[kind] |->
        IF role \in DOMAIN connection.env THEN connection.env[role]
                                          ELSE DefaultNames[kind][role]]

\* How the variables of a backend read.
Readings(kind, env, connection) ==
    [role \in DOMAIN DefaultNames[kind] |-> env[EnvNames(connection, kind)[role]]]

Text == {"zero", "bad", "good"}

Number == {"zero", "good"}

PoolRoles == {"max_connections", "acquire_timeout_secs"}

\* The roles that locate the database.
Locators(kind) ==
    IF kind = "sqlite" THEN {"url", "path"}
    ELSE {"url", "host", "port", "user", "password", "database"}

\* from_connection_env returns None: pool settings and options alone do not
\* make a backend.
Missing(kind, env, connection) ==
    \A role \in Locators(kind) : Readings(kind, env, connection)[role] = "unset"

\* read_component_connection succeeds.
ComponentsRead(reading) ==
    /\ {reading.host, reading.user, reading.database} \subseteq Text
    /\ reading.port \in Number \cup {"unset"}
    /\ reading.password \in Text \cup {"unset"}

\* The location reads: a URL hides the components, and for SQLite the path,
\* which must not be blank all the same.
LocationReads(kind, reading) ==
    IF kind = "sqlite"
    THEN /\ reading.url \in {"unset", "zero", "good"}
         /\ reading.path \in Text \cup {"unset"}
    ELSE IF reading.url # "unset" THEN reading.url = "good" ELSE ComponentsRead(reading)

\* from_connection_env returns neither an error nor None.
Complete(kind, env, connection) ==
    LET reading == Readings(kind, env, connection)
    IN /\ ~Missing(kind, env, connection)
       /\ LocationReads(kind, reading)
       /\ "options" \in DOMAIN reading => reading.options \in {"unset", "good"}
       /\ \A role \in PoolRoles : reading[role] \in Number \cup {"unset"}

\* The backends that the automatic choice passes over.
FaultyPassedOver(kind, env, connection) == ~Complete(kind, env, connection)

PassedOver(kind, env, connection) == Missing(kind, env, connection)

\* The backend that is read: the one asked for, or the first of AutoOrder that
\* is not passed over.
Takes(kind, selector, env, connection) ==
    \/ kind = selector
    \/ /\ selector = "auto"
       /\ \E n \in DOMAIN AutoOrder :
             /\ kind = AutoOrder[n]
             /\ ~PassedOver(kind, env, connection)
             /\ \A k \in 1..(n - 1) : PassedOver(AutoOrder[k], env, connection)

\* resolve_backend_config: a kind, "none" of them, or "invalid" for an error.
ResolveBackend(selector, env, connection) ==
    LET taken == {kind \in Kinds : Takes(kind, selector, env, connection)}
    IN IF taken = {} THEN "none"
       ELSE IF \E kind \in taken : ~Complete(kind, env, connection) THEN "invalid"
       ELSE CHOOSE kind \in taken : TRUE

FaultyPoolUsable(kind, env, connection) ==
    Readings(kind, env, connection).max_connections # "zero"

\* connect refuses a pool of no connections and one that does not wait.
PoolUsable(kind, env, connection) ==
    \A role \in PoolRoles : Readings(kind, env, connection)[role] # "zero"

\* The variables whose presence doctor reports.
RequiredEnvNames(selector, env, connection) ==
    IF selector = "auto" THEN {}
    ELSE LET name == EnvNames(connection, selector)
         IN IF selector = "sqlite" THEN {name.url, name.path}
            ELSE IF env[name.url] # "unset" THEN {name.url}
            ELSE {name.host, name.user, name.database}
=============================================================================
