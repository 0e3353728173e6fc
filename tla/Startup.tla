------------------------------ MODULE Startup ------------------------------
(***************************************************************************)
(* The processes of main.rs around one configuration file: a server that   *)
(* starts (main), `init` commands that create or overwrite the project's   *)
(* .datagate/datagate.toml, and a `doctor`.  Each is a process of its own, *)
(* so their file operations interleave, and an init may stop anywhere.     *)
(*                                                                         *)
(* A handler is one action per file operation or await; what main computes *)
(* between two of them is part of the action.  The environment does not    *)
(* change during a behaviour and is the same for all processes.            *)
(*                                                                         *)
(* Definitions whose name starts with Faulty are broken variants of the    *)
(* definition that follows them; no action uses one.                       *)
(***************************************************************************)
EXTENDS Configuration, Sequences, Functions

CONSTANTS
    Absent,      \* there is no file
    Unreadable,  \* a file that cannot be read or is not valid TOML
    Unread,      \* nothing has been read yet
    Configs,     \* parsed configurations that files can hold
    Inits,       \* the init commands
    MaxEdits,    \* bound: edits in one behaviour
    Scenarios    \* [setting, file, edits, options]: how a behaviour begins

\* Where resolve_config_path can point.
Paths == {"override", "dot_datagate", "project", "user", "relative"}

\* What main, init and doctor get from their environment and command line:
\* `override`, `root` and `home` say whether these places are known, `choice`
\* is DATAGATE_BACKEND, `audit` that AUDIT_LOG_PATH is set.
IsSetting(setting) ==
    /\ {setting.override, setting.root, setting.home,
        setting.audit, setting.stdio} \subseteq BOOLEAN
    /\ setting.choice \in Selectors \cup {"unset", "blank", "unknown"}

\* The file that init writes for its options; `--backend auto` is accepted.
Template(option) ==
    [profile |-> "dev", policy |-> DenyAll, connection |-> DefaultConnection,
     profiles |-> [name \in {"dev"} |->
        [policy |-> DenyAll,
         connection |-> [name_valid |-> TRUE, backend |-> option.backend,
                         env |-> CASE option.backend = "sqlite" -> [path |-> "SQLITE_PATH"]
                                   [] option.backend = "mysql" -> [url |-> "MYSQL_URL"]
                                   [] OTHER -> [url |-> "DB_URL"]]]]]

Contents == Configs \cup {Absent, Unreadable}

\* An empty file is valid TOML and parses to the default configuration.
ASSUME ConfigsAssumption ==
    /\ {Absent, Unreadable, Unread} \cap Configs = {}
    /\ Unread \notin {Absent, Unreadable}
    /\ DefaultConfig \in Configs
    /\ \A config \in Configs : IsConfig(config)
    /\ MaxEdits \in Nat
    /\ \A scenario \in Scenarios :
          /\ IsSetting(scenario.setting)
          /\ scenario.edits \subseteq Contents
          /\ scenario.file \in [Paths -> Contents]
          /\ \A i \in Inits :
                /\ scenario.options[i].backend \in Selectors
                /\ {scenario.options[i].run, scenario.options[i].force,
                    scenario.options[i].name_valid} \subseteq BOOLEAN
                /\ Template(scenario.options[i]) \in Configs

VARIABLES
    setting,   \* the environment
    options,   \* options[i]: the options of init command i
    file,      \* file[p]: what is at path p
    past,      \* history: every content of .datagate/datagate.toml, in order
    edits,     \* what others may still put there, and how often
    server,    \* the server's handler
    init,      \* init[i]: what command i does next, or how it ended
    doctor     \* the doctor's handler

vars == <<setting, options, file, past, edits, server, init, doctor>>

\* `read` is the content the policy comes from, `begun` the one the start read.
Init ==
    /\ \E scenario \in Scenarios :
          /\ setting = scenario.setting
          /\ options = scenario.options
          /\ file = scenario.file
          /\ past = <<scenario.file["dot_datagate"]>>
          /\ edits = [left |-> MaxEdits, contents |-> scenario.edits]
          /\ init = [i \in Inits |->
                        IF scenario.options[i].run THEN "check" ELSE "not_run"]
    /\ server = [pc |-> "audit", path |-> "relative", begun |-> Unread, read |-> Unread,
                 policy |-> DenyAll, connection |-> DefaultConnection,
                 backend |-> "none", error |-> "none"]
    /\ doctor = [pc |-> "resolve", path |-> "relative", read |-> Unread,
                 status |-> "none", policy |-> DenyAll, lacking |-> FALSE]

-----------------------------------------------------------------------------
\* The explicit path is taken whether or not it exists, the project's only if
\* they do.
ResolveConfigPath ==
    LET there == {p \in {"dot_datagate", "project"} : setting.root /\ file[p] # Absent}
    IN CASE setting.override -> "override"
         [] ~setting.override /\ "dot_datagate" \in there -> "dot_datagate"
         [] ~setting.override /\ there = {"project"} -> "project"
         [] ~setting.override /\ there = {} ->
               IF setting.home THEN "user" ELSE "relative"

\* A configuration that cannot be loaded gives way to the default one.
LoadedOrDefault(content) ==
    IF content \in {Absent, Unreadable} THEN DefaultConfig ELSE content

Selector(config) == ResolveSelector(setting.choice, Sections(config).connection)

Backend(config) ==
    ResolveBackend(Selector(config), setting.env, Sections(config).connection)

FaultyStartPolicy(config) ==
    IF UnknownProfile(config) THEN config.policy ELSE Sections(config).policy

StartPolicy(config) ==
    IF UnknownProfile(config) THEN DenyAll ELSE Sections(config).policy

FaultyStartVerdict(config) ==
    IF RejectsConnection(config) THEN "connection" ELSE Backend(config)

\* What main comes to between the two awaits: the error of the first of its
\* fallible steps that fails, or the backend to connect to, or "none", which
\* is an error for the stdio server only.
StartVerdict(config) ==
    IF RejectsConnection(config) THEN "connection"
    ELSE IF Selector(config) = "invalid" THEN "selector"
    ELSE LET backend == Backend(config)
         IN IF backend = "invalid" THEN "environment"
            ELSE IF backend = "none" /\ setting.stdio THEN "no_backend"
            ELSE backend

Stay(others) == UNCHANGED <<setting, options, others>>

\* The startup line of the audit log; if it cannot be written, the start ends.
RecordStart ==
    /\ server.pc = "audit"
    /\ \/ server' = [server EXCEPT !.pc = "resolve"]
       \/ /\ setting.audit
          /\ server' = [server EXCEPT !.pc = "failed", !.error = "audit"]
    /\ Stay(<<file, past, edits, init, doctor>>)

FaultyResolvePath ==
    /\ server.pc = "resolve"
    /\ file[ResolveConfigPath] # Absent
    /\ server' = [server EXCEPT !.pc = "load", !.path = ResolveConfigPath]
    /\ Stay(<<file, past, edits, init, doctor>>)

ResolvePath ==
    /\ server.pc = "resolve"
    /\ server' = [server EXCEPT !.pc = "load", !.path = ResolveConfigPath]
    /\ Stay(<<file, past, edits, init, doctor>>)

\* Config::load and all that main makes of it before it connects.
Load ==
    /\ server.pc = "load"
    /\ \E config \in {LoadedOrDefault(file[server.path])} :
       \E verdict \in {StartVerdict(config)} :
       LET loaded == [server EXCEPT !.begun = file[server.path],
                                    !.read = file[server.path],
                                    !.policy = StartPolicy(config)]
       IN server' =
            IF verdict \in Kinds
            THEN [loaded EXCEPT !.pc = "connect", !.backend = verdict,
                                !.connection = Sections(config).connection]
            ELSE IF verdict = "none" THEN [loaded EXCEPT !.pc = "finished"]
            ELSE [loaded EXCEPT !.pc = "failed", !.error = verdict]
    /\ Stay(<<file, past, edits, init, doctor>>)

\* The database may be out of reach.  Outside of stdio mode the start only
\* tries the connection, and for Postgres reads the schema.
Connect ==
    /\ server.pc = "connect"
    /\ \/ server' = [server EXCEPT !.pc = "failed", !.error = "connect"]
       \/ /\ PoolUsable(server.backend, setting.env, server.connection)
          /\ server' = [server EXCEPT !.pc =
                           IF setting.stdio THEN "serving"
                           ELSE IF server.backend = "postgres" THEN "schema"
                           ELSE "finished"]
    /\ Stay(<<file, past, edits, init, doctor>>)

LoadSchema ==
    /\ server.pc = "schema"
    /\ \/ server' = [server EXCEPT !.pc = "finished"]
       \/ server' = [server EXCEPT !.pc = "failed", !.error = "schema"]
    /\ Stay(<<file, past, edits, init, doctor>>)

FaultyReloadFromFile ==
    /\ server.pc = "serving"
    /\ LET content == file[server.path]
       IN server' = [server EXCEPT !.read = content,
                                   !.policy = StartPolicy(LoadedOrDefault(content))]
    /\ Stay(<<file, past, edits, init, doctor>>)

\* Policy::reload_from_file, which a host of the library calls with the path
\* the server started with: any error leaves the policy alone.
ReloadFromFile ==
    /\ server.pc = "serving"
    /\ LET content == file[server.path]
       IN /\ content \notin {Absent, Unreadable}
          /\ ~UnknownProfile(content)
          /\ server' = [server EXCEPT !.read = content,
                                      !.policy = Sections(content).policy]
    /\ Stay(<<file, past, edits, init, doctor>>)

-----------------------------------------------------------------------------
Write(content) ==
    /\ file' = [file EXCEPT !["dot_datagate"] = content]
    /\ past' = Append(past, content)

FaultyCheckExisting(i) ==
    /\ init[i] = "check"
    /\ init' = [init EXCEPT ![i] = "create"]
    /\ Stay(<<file, past, edits, server, doctor>>)

\* The name is validated and, without --force, an existing file refused.
CheckExisting(i) ==
    /\ init[i] = "check"
    /\ init' = [init EXCEPT ![i] =
                  IF /\ options[i].name_valid
                     /\ setting.root
                     /\ options[i].force \/ file["dot_datagate"] = Absent
                  THEN "create" ELSE "refused"]
    /\ Stay(<<file, past, edits, server, doctor>>)

\* fs::write creates the file or truncates it, and then writes the text.
Create(i) ==
    /\ init[i] = "create"
    /\ init' = [init EXCEPT ![i] = "write"]
    /\ Write(DefaultConfig)
    /\ Stay(<<edits, server, doctor>>)

WriteTemplate(i) ==
    /\ init[i] = "write"
    /\ init' = [init EXCEPT ![i] = "done"]
    /\ Write(Template(options[i]))
    /\ Stay(<<edits, server, doctor>>)

\* An I/O error, or the end of the process from outside.
Stop(i) ==
    /\ init[i] \in {"check", "create", "write"}
    /\ init' = [init EXCEPT ![i] = "stopped"]
    /\ Stay(<<file, past, edits, server, doctor>>)

\* Someone else replaces or removes the file, in one step.
Edit ==
    /\ edits.left > 0
    /\ edits' = [edits EXCEPT !.left = @ - 1]
    /\ \E content \in edits.contents : Write(content)
    /\ Stay(<<server, init, doctor>>)

InitStep(i) == CheckExisting(i) \/ Create(i) \/ WriteTemplate(i) \/ Stop(i)

-----------------------------------------------------------------------------
ResolveDoctorPath ==
    /\ doctor.pc = "resolve"
    /\ doctor' = [doctor EXCEPT !.pc = "load", !.path = ResolveConfigPath]
    /\ Stay(<<file, past, edits, server, init>>)

FaultyDiagnosis(content) ==
    IF content \in {Absent, Unreadable}
    THEN [status |-> "deny_all", policy |-> DenyAll, lacking |-> FALSE]
    ELSE [status |-> "ok", policy |-> content.policy, lacking |-> FALSE]

\* What doctor prints of a content: that everything is denied, an error, or
\* the policy and whether a required variable is not set.
Diagnosis(content) ==
    IF content \in {Absent, Unreadable}
    THEN [status |-> "deny_all", policy |-> DenyAll, lacking |-> FALSE]
    ELSE IF RejectsConnection(content) \/ Selector(content) = "invalid"
    THEN [status |-> "failed", policy |-> DenyAll, lacking |-> FALSE]
    ELSE [status |-> "ok", policy |-> Sections(content).policy,
          lacking |-> \E name \in RequiredEnvNames(Selector(content), setting.env,
                                                   Sections(content).connection) :
                          setting.env[name] = "unset"]

Diagnose ==
    /\ doctor.pc = "load"
    /\ LET content == file[doctor.path]
           diagnosis == Diagnosis(content)
       IN doctor' = [doctor EXCEPT !.pc = "done", !.read = content,
                                   !.status = diagnosis.status,
                                   !.policy = diagnosis.policy,
                                   !.lacking = diagnosis.lacking]
    /\ Stay(<<file, past, edits, server, init>>)

-----------------------------------------------------------------------------
ServerStep == RecordStart \/ ResolvePath \/ Load \/ Connect

Next == \/ ServerStep
        \/ LoadSchema
        \/ ReloadFromFile
        \/ \E i \in Inits : InitStep(i)
        \/ Edit
        \/ ResolveDoctorPath
        \/ Diagnose

\* main runs on; the pool gives up connecting after its timeout, but no
\* statement has one, so the schema may never come.
Spec == Init /\ [][Next]_vars /\ WF_server(ServerStep)

-----------------------------------------------------------------------------
Stages == {"audit", "resolve", "load", "connect", "schema", "serving", "finished",
           "failed"}

Errors == {"none", "audit", "connection", "selector", "environment", "no_backend",
           "connect", "schema"}

Server == [pc : Stages, path : Paths,
           begun : Contents \cup {Unread}, read : Contents \cup {Unread},
           policy : SUBSET Tables, connection : Connections,
           backend : Kinds \cup {"none"}, error : Errors]

Doctor ==
    [pc : {"resolve", "load", "done"}, path : Paths, read : Contents \cup {Unread},
     status : {"none", "deny_all", "failed", "ok"}, policy : SUBSET Tables,
     lacking : BOOLEAN]

\* The state has its type.
TypeOK ==
    /\ file \in [Paths -> Contents]
    /\ past \in Seq(Contents)
    /\ edits \in [left : 0..MaxEdits, contents : SUBSET Contents]
    /\ server \in Server
    /\ init \in [Inits -> {"not_run", "check", "create", "write", "done",
                           "refused", "stopped"}]
    /\ doctor \in Doctor

\* A table is granted by the profile a content names, or by its flat section if
\* the file has no profiles or names none.
Grants(content, table) ==
    /\ content \in Configs
    /\ \/ /\ content.profile \in DOMAIN content.profiles
          /\ table \in content.profiles[content.profile].policy
       \/ /\ content.profile = NoProfile \/ DOMAIN content.profiles = {}
          /\ table \in content.policy

\* Whatever the file goes through while the server starts or reloads, half
\* written by init included, every table the server allows is granted by one
\* whole content that the file has had, and never by a profile that was not
\* selected; no file, a broken one or an unknown profile allow nothing.
GrantsComeFromTheFile ==
    LET contents == IF server.path = "dot_datagate" THEN Range(past)
                                                    ELSE {file[server.path]}
    IN \/ server.policy = DenyAll
       \/ \E content \in contents : \A table \in server.policy : Grants(content, table)

\* A server never begins with an unknown profile, nor with the connection of
\* one profile and the policy of another: both are of the profile that the one
\* content it read names, or of the flat sections.
OneProfileRules ==
    server.pc \in {"connect", "serving"} =>
        LET config == LoadedOrDefault(server.begun)
            section == IF config.profile \in DOMAIN config.profiles
                       THEN config.profiles[config.profile]
                       ELSE FlatSections(config)
        IN /\ \/ config.profile \in DOMAIN config.profiles \cup {NoProfile}
              \/ DOMAIN config.profiles = {}
           /\ server.connection = section.connection
           /\ server.read = server.begun => server.policy = section.policy

\* The backend is the one that DATAGATE_BACKEND or else the connection asks
\* for.  Left to itself, main takes one only when no variable locates a
\* database for any backend before it, complete or not.
BackendIsTheOneAsked ==
    server.backend # "none" =>
        LET asked == IF setting.choice # "unset" THEN setting.choice
                                                 ELSE server.connection.backend
        IN \/ server.backend = asked
           \/ /\ asked \in {"auto", "unset"}
              /\ \E n \in DOMAIN AutoOrder :
                    /\ server.backend = AutoOrder[n]
                    /\ \A k \in 1..(n - 1) : \A role \in Locators(AutoOrder[k]) :
                          setting.env[EnvNames(server.connection, AutoOrder[k])[role]]
                              = "unset"

\* A server never serves from a pool without connections or without patience.
PoolNeverEmpty ==
    server.pc = "serving" =>
        \A role \in PoolRoles :
            setting.env[EnvNames(server.connection, server.backend)[role]]
                \in {"unset", "good"}

\* What doctor says of a file is what a start makes of it: the same policy, an
\* error for an error, and where the start finds no trace of the backend that
\* was asked for, the variables it lacks.
DoctorForetellsTheStart ==
    (doctor.pc = "done" /\ doctor.read = server.begun) =>
        /\ doctor.status = "failed" <=>
               /\ doctor.read \in Configs
               /\ server.error \in {"connection", "selector"}
        /\ (doctor.status # "failed" /\ server.read = server.begun)
               => doctor.policy = server.policy
        /\ LET connection == Sections(doctor.read).connection
               kind == ResolveSelector(setting.choice, connection)
           IN (/\ doctor.status = "ok"
               /\ kind # "auto"
               /\ \A role \in Locators(kind) :
                     setting.env[EnvNames(connection, kind)[role]] = "unset")
                  => doctor.lacking

\* If nobody passes --force or edits the file, a file that was there when the
\* commands began survives any number of them, at any point they stop.
UnforcedInitKeepsTheFile ==
    (past[1] # Absent /\ edits.left = MaxEdits /\ \A i \in Inits : ~options[i].force)
        => file["dot_datagate"] = past[1]

\* A reload that fails leaves the active policy of a server alone: it changes
\* only to the policy of a content that loads and whose profile is known.
FailedReloadKeepsPolicy ==
    [][(server.pc = "serving" /\ server'.policy # server.policy) =>
            /\ file[server.path] \in Configs
            /\ \A table \in server'.policy : Grants(file[server.path], table)
            /\ ~UnknownProfile(file[server.path])]_vars

\* Every start comes to an end, it serves, finishes or fails, unless the
\* database never answers for its schema: no file, environment or command that
\* runs beside it can hold it up.
StartEnds ==
    \/ <>(server.pc \in {"serving", "finished", "failed"})
    \/ <>[](server.pc = "schema")

\* What docs/configuration.md:129 says of an unknown profile: the start goes on
\* with a policy that denies everything.
UnknownProfileStartsDenied ==
    server.pc = "failed" =>
        \/ server.error \notin {"connection"}
        \/ ~UnknownProfile(LoadedOrDefault(server.begun))
=============================================================================
