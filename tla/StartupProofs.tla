--------------------------- MODULE StartupProofs ---------------------------
(***************************************************************************)
(* Proofs about Startup, for any files, environments, number of init       *)
(* commands and of edits.                                                  *)
(*                                                                         *)
(* The properties speak of the content that the server read; that it still *)
(* counts when the file has changed needs the history of the file          *)
(* (FileInv) and, per property, what the server keeps of that content.     *)
(***************************************************************************)
EXTENDS Startup, TLAPS

\* What the content at a path was since the beginning.
Had(path) == IF path = "dot_datagate" THEN Range(past) ELSE {file[path]}

OptionsOK == \A i \in Inits : Template(options[i]) \in Configs

FileInv == /\ past # <<>>
           /\ file["dot_datagate"] = past[Len(past)]

\* A policy that allows something is the one of a content that the file had.
PolicyInv ==
    server.policy # DenyAll =>
        /\ server.pc \notin {"audit", "resolve", "load"}
        /\ server.read \in Configs \cap Had(server.path)
        /\ ~UnknownProfile(server.read)
        /\ server.policy = Sections(server.read).policy

\* What the start read determines the connection, and the policy until a
\* reload reads something else.
ConnectionInv ==
    server.pc \in {"connect", "serving"} =>
        LET config == LoadedOrDefault(server.begun)
        IN /\ ~UnknownProfile(config)
           /\ server.begun \in Contents
           /\ server.connection = Sections(config).connection
           /\ server.read = server.begun => server.policy = Sections(config).policy

\* Where no command may overwrite the file, none is about to.
UnforcedInv ==
    (past[1] # Absent /\ edits.left = MaxEdits /\ \A i \in Inits : ~options[i].force)
        => /\ past = <<past[1]>>
           /\ \A i \in Inits : init[i] \notin {"create", "write"}

IInv == /\ TypeOK /\ OptionsOK /\ FileInv
        /\ PolicyInv /\ ConnectionInv /\ BackendIsTheOneAsked /\ UnforcedInv

-----------------------------------------------------------------------------
\* What Configuration makes of a well-formed configuration.

\* The sections in force are sections of the file.
LEMMA SectionsOfAConfig ==
    ASSUME NEW config, IsConfig(config), ~UnknownProfile(config)
    PROVE  /\ Sections(config).policy \subseteq Tables
           /\ Sections(config).connection \in Connections
BY DEF IsConfig, IsProfile, UnknownProfile, Sections, ProfileCounts, FlatSections

\* Whatever a path holds, the server goes on with a configuration.
LEMMA LoadedIsAConfig ==
    ASSUME NEW content \in Contents
    PROVE  /\ LoadedOrDefault(content) \in Configs
           /\ IsConfig(LoadedOrDefault(content))
BY ConfigsAssumption DEF LoadedOrDefault, Contents

\* The values that resolving a backend can come to.
LEMMA ResolvedBackends ==
    ASSUME NEW selector, NEW env, NEW connection
    PROVE  ResolveBackend(selector, env, connection) \in Kinds \cup {"none", "invalid"}
BY DEF ResolveBackend

\* A backend that is resolved is the one asked for or automatically chosen.
LEMMA ResolvedBackendIsTaken ==
    ASSUME NEW selector, NEW env, NEW connection,
           ResolveBackend(selector, env, connection) \in Kinds
    PROVE  Takes(ResolveBackend(selector, env, connection), selector, env, connection)
BY DEF ResolveBackend, Kinds

\* Every role that locates a database has a variable.
LEMMA LocatorsAreNamed ==
    ASSUME NEW kind \in Kinds
    PROVE  Locators(kind) \subseteq DOMAIN DefaultNames[kind]
BY DEF Kinds, Locators, DefaultNames

\* The automatic choice tries backends only, one after the other.
LEMMA OrderOfKinds ==
    ASSUME NEW n \in DOMAIN AutoOrder
    PROVE  /\ AutoOrder[n] \in Kinds
           /\ n \in Nat
           /\ \A k \in 1..(n - 1) : k \in DOMAIN AutoOrder /\ AutoOrder[k] \in Kinds
BY DEF AutoOrder, Kinds

\* The verdicts of a start, and that only a known profile gets a backend.
LEMMA Verdicts ==
    ASSUME NEW config
    PROVE  /\ StartVerdict(config) \in Kinds \cup {"none", "connection", "selector",
                                                  "environment", "no_backend"}
           /\ StartVerdict(config) \in Kinds
                 => /\ StartVerdict(config) = Backend(config)
                    /\ ~UnknownProfile(config)
<1>1. Backend(config) \in Kinds \cup {"none", "invalid"}
  BY ResolvedBackends DEF Backend
<1>2. QED
  BY <1>1 DEF StartVerdict, RejectsConnection, Kinds

\* Updates that keep the server's type, one per kind of step.
LEMMA ServerMoves ==
    ASSUME NEW s \in Server, NEW stage \in Stages
    PROVE  [s EXCEPT !.pc = stage] \in Server
BY DEF Server

\* The server ends with an error.
LEMMA ServerFails ==
    ASSUME NEW s \in Server, NEW stage \in Stages, NEW error \in Errors
    PROVE  [s EXCEPT !.pc = stage, !.error = error] \in Server
BY DEF Server

\* The server knows the path of its file.
LEMMA ServerResolves ==
    ASSUME NEW s \in Server, NEW stage \in Stages, NEW path \in Paths
    PROVE  [s EXCEPT !.pc = stage, !.path = path] \in Server
BY DEF Server

\* The server knows what to connect to.
LEMMA ServerConnects ==
    ASSUME NEW s \in Server, NEW stage \in Stages, NEW kind \in Kinds,
           NEW connection \in Connections
    PROVE  [s EXCEPT !.pc = stage, !.backend = kind, !.connection = connection] \in Server
BY DEF Server

\* The stages and errors that the steps of the server name.
LEMMA StagesAndErrors ==
    /\ {"resolve", "load", "connect", "schema", "serving", "finished", "failed"}
          \subseteq Stages
    /\ {"audit", "connection", "selector", "environment", "no_backend", "connect",
        "schema"} \subseteq Errors
BY DEF Stages, Errors

\* The path comes out as one of the known places.
LEMMA PathResolved == ResolveConfigPath \in Paths
BY DEF ResolveConfigPath, Paths

-----------------------------------------------------------------------------
\* Every scenario begins in the invariant.
LEMMA InitEstablishes == Init => IInv
<1> SUFFICES ASSUME Init PROVE IInv
  OBVIOUS
<1>1. PICK scenario \in Scenarios :
         /\ options = scenario.options
         /\ file = scenario.file
         /\ past = <<scenario.file["dot_datagate"]>>
         /\ edits = [left |-> MaxEdits, contents |-> scenario.edits]
         /\ init = [i \in Inits |-> IF scenario.options[i].run THEN "check"
                                                               ELSE "not_run"]
  BY DEF Init
<1>2. /\ file \in [Paths -> Contents] /\ scenario.edits \subseteq Contents
      /\ OptionsOK /\ MaxEdits \in Nat /\ DefaultConnection \in Connections
  <2>1. DefaultConfig \in Configs /\ IsConfig(DefaultConfig)
    BY ConfigsAssumption
  <2>2. DefaultConnection \in Connections
    BY <2>1 DEF IsConfig, IsProfile, DefaultConfig
  <2>3. QED
    BY <1>1, <2>2, ConfigsAssumption DEF OptionsOK
<1>3. TypeOK
  <2>1. file["dot_datagate"] \in Contents
    BY <1>2 DEF Paths
  <2>2. past \in Seq(Contents)
    BY <1>1, <2>1
  <2>3. server \in Server
    <3>1. server = [pc |-> "audit", path |-> "relative", begun |-> Unread,
                    read |-> Unread, policy |-> {}, connection |-> DefaultConnection,
                    backend |-> "none", error |-> "none"]
      BY DEF Init, DenyAll
    <3>2. "relative" \in Paths /\ {} \subseteq Tables /\ DefaultConnection \in Connections
      BY <1>2 DEF Paths
    <3> HIDE DEF DefaultConnection
    <3>3. QED
      BY <3>1, <3>2 DEF Server, Stages, Errors
  <2>4. doctor \in Doctor
    BY DEF Init, Doctor, Paths, DenyAll
  <2>5. edits \in [left : 0..MaxEdits, contents : SUBSET Contents]
    BY <1>1, <1>2
  <2>6. init \in [Inits -> {"not_run", "check"}]
    BY <1>1
  <2>7. QED
    BY <1>2, <2>2, <2>3, <2>4, <2>5, <2>6 DEF TypeOK
<1>4. FileInv /\ UnforcedInv
  BY <1>1 DEF FileInv, UnforcedInv
<1>5. PolicyInv /\ ConnectionInv /\ BackendIsTheOneAsked
  BY DEF Init, PolicyInv, ConnectionInv, BackendIsTheOneAsked
<1>6. QED
  BY <1>2, <1>3, <1>4, <1>5 DEF IInv

\* A step that leaves the file to itself keeps what is said of it alone.
LEMMA FileUntouched ==
    ASSUME IInv, UNCHANGED <<setting, options, file, past, edits>>
    PROVE  OptionsOK' /\ FileInv' /\ \A path : Had(path)' = Had(path)
BY DEF IInv, OptionsOK, FileInv, Had

\* The first steps of a start, before it has a policy.
LEMMA ServerBeginsKeeps ==
    ASSUME IInv, RecordStart \/ ResolvePath
    PROVE  IInv'
<1>1. /\ server \in Server /\ UNCHANGED <<setting, options, file, past, edits, init, doctor>>
      /\ server.pc \in {"audit", "resolve"}
  BY DEF IInv, TypeOK, RecordStart, ResolvePath, Stay
<1>2. server' \in Server
  <2>1. CASE RecordStart
    <3>1. \/ server' = [server EXCEPT !.pc = "resolve"]
          \/ server' = [server EXCEPT !.pc = "failed", !.error = "audit"]
      BY <2>1 DEF RecordStart
    <3>2. server \in Server /\ {"resolve", "failed"} \subseteq Stages /\ "audit" \in Errors
      BY <1>1, StagesAndErrors
    <3>3. [server EXCEPT !.pc = "resolve"] \in Server
      BY <3>2, ServerMoves
    <3>4. [server EXCEPT !.pc = "failed", !.error = "audit"] \in Server
      BY <3>2, ServerFails
    <3>5. QED
      BY <3>1, <3>3, <3>4
  <2>2. CASE ResolvePath
    <3>1. server' = [server EXCEPT !.pc = "load", !.path = ResolveConfigPath]
      BY <2>2 DEF ResolvePath
    <3>2. server \in Server /\ "load" \in Stages /\ ResolveConfigPath \in Paths
      BY <1>1, PathResolved, StagesAndErrors
    <3>3. [server EXCEPT !.pc = "load", !.path = ResolveConfigPath] \in Server
      BY <3>2, ServerResolves
    <3>4. QED
      BY <3>1, <3>3
  <2>3. QED
    BY <2>1, <2>2
<1>3. TypeOK'
  BY <1>1, <1>2 DEF IInv, TypeOK
<1>4. OptionsOK' /\ FileInv' /\ UnforcedInv'
  BY <1>1, FileUntouched DEF IInv, UnforcedInv
<1>5. /\ server'.pc \in {"resolve", "load", "failed"}
      /\ server.policy = server'.policy /\ server.backend = server'.backend
      /\ server.connection = server'.connection
  BY <1>1 DEF RecordStart, ResolvePath, Server, Stages, Errors
<1>6. server'.policy = DenyAll
  BY <1>1, <1>5 DEF IInv, PolicyInv
<1>7. PolicyInv' /\ ConnectionInv'
  BY <1>5, <1>6 DEF PolicyInv, ConnectionInv
<1>8. BackendIsTheOneAsked'
  BY <1>1, <1>5 DEF IInv, BackendIsTheOneAsked
<1>9. QED
  BY <1>3, <1>4, <1>7, <1>8 DEF IInv

\* What Load leaves in the server, for the verdict it comes to.
LEMMA LoadKeeps ==
    ASSUME IInv, Load
    PROVE  IInv'
<1> DEFINE content == file[server.path]
           config == LoadedOrDefault(content)
           verdict == StartVerdict(config)
           loaded == [server EXCEPT !.begun = content, !.read = content,
                                    !.policy = StartPolicy(config)]
<1>1. /\ server \in Server /\ UNCHANGED <<setting, options, file, past, edits, init, doctor>>
      /\ server.pc = "load"
  BY DEF IInv, TypeOK, Load, Stay
<1>2. /\ verdict \in Kinds =>
            server' = [loaded EXCEPT !.pc = "connect", !.backend = verdict,
                                     !.connection = Sections(config).connection]
      /\ verdict \notin Kinds =>
            server' = IF verdict = "none" THEN [loaded EXCEPT !.pc = "finished"]
                      ELSE [loaded EXCEPT !.pc = "failed", !.error = verdict]
  BY DEF Load
<1>3. /\ server.path \in Paths /\ content \in Contents
      /\ config \in Configs /\ IsConfig(config)
  BY <1>1, LoadedIsAConfig DEF Server, IInv, TypeOK
<1>4. /\ verdict \in Kinds \cup {"none", "connection", "selector", "environment",
                                "no_backend"}
      /\ verdict \in Kinds => verdict = Backend(config) /\ ~UnknownProfile(config)
  BY Verdicts
<1>5. StartPolicy(config) \subseteq Tables
  BY <1>3, SectionsOfAConfig DEF StartPolicy, DenyAll
<1>6. verdict \in Kinds => Sections(config).connection \in Connections
  BY <1>3, <1>4, SectionsOfAConfig
<1> HIDE DEF config, verdict
<1>7. loaded \in Server /\ loaded.policy = StartPolicy(config)
      /\ loaded.read = content /\ loaded.begun = content /\ loaded.path = server.path
      /\ loaded.backend = server.backend /\ loaded.connection = server.connection
  BY <1>1, <1>3, <1>5 DEF Server
<1> HIDE DEF loaded
<1>8. server' \in Server
  <2>1. CASE verdict \in Kinds
    <3>1. server' = [loaded EXCEPT !.pc = "connect", !.backend = verdict,
                                   !.connection = Sections(config).connection]
      BY <1>2, <2>1
    <3>2. QED
      BY <1>6, <1>7, <2>1, <3>1, StagesAndErrors, ServerConnects, Zenon
  <2>2. CASE verdict \notin Kinds /\ verdict = "none"
    <3>1. server' = [loaded EXCEPT !.pc = "finished"]
      BY <1>2, <2>2
    <3>2. QED
      BY <1>7, <3>1, StagesAndErrors, ServerMoves, Zenon
  <2>3. CASE verdict \notin Kinds /\ verdict # "none"
    <3>1. server' = [loaded EXCEPT !.pc = "failed", !.error = verdict]
      BY <1>2, <2>3
    <3>2. verdict \in Errors
      BY <1>4, <2>3, StagesAndErrors
    <3>3. QED
      BY <1>7, <3>1, <3>2, StagesAndErrors, ServerFails, Zenon
  <2>4. QED
    BY <2>1, <2>2, <2>3
<1>9. /\ server'.policy = StartPolicy(config) /\ server'.path = server.path
      /\ server'.read = content /\ server'.begun = content
      /\ server'.pc \in {"connect", "finished", "failed"}
      /\ server'.pc = "connect" => verdict \in Kinds
      /\ verdict \in Kinds => /\ server'.backend = verdict
                              /\ server'.connection = Sections(config).connection
      /\ verdict \notin Kinds => /\ server'.backend = server.backend
                                 /\ server'.connection = server.connection
  <2>1. CASE verdict \in Kinds
    BY <1>2, <1>7, <2>1 DEF Server
  <2>2. CASE verdict \notin Kinds /\ verdict = "none"
    BY <1>2, <1>7, <2>2 DEF Server
  <2>3. CASE verdict \notin Kinds /\ verdict # "none"
    BY <1>2, <1>7, <2>3 DEF Server
  <2>4. QED
    BY <2>1, <2>2, <2>3
<1>10. TypeOK'
  BY <1>1, <1>8 DEF IInv, TypeOK
<1>11. OptionsOK' /\ FileInv' /\ UnforcedInv'
  BY <1>1, FileUntouched DEF IInv, UnforcedInv
<1>12. PolicyInv'
  <2>1. SUFFICES ASSUME server'.policy # DenyAll
                 PROVE  /\ content \in Configs \cap Had(server.path)
                        /\ ~UnknownProfile(content)
                        /\ server'.policy = Sections(content).policy
    BY <1>1, <1>9, FileUntouched DEF PolicyInv
  <2>2. ~UnknownProfile(config) /\ server'.policy = Sections(config).policy
    BY <1>9, <2>1 DEF StartPolicy
  <2>3. config # DefaultConfig
    BY <2>1, <2>2 DEF DefaultConfig, Sections, ProfileCounts, FlatSections, DenyAll
  <2>4. content \in Configs /\ config = content
    BY <1>3, <2>3 DEF config, LoadedOrDefault, Contents
  <2>5. content \in Had(server.path)
    <3>1. past \in Seq(Contents) /\ past # <<>>
      BY DEF IInv, TypeOK, FileInv
    <3>2. past[Len(past)] \in Range(past)
      BY <3>1 DEF Range
    <3>3. QED
      BY <3>2 DEF Had, IInv, FileInv
  <2>6. QED
    BY <2>2, <2>4, <2>5
<1>13. ConnectionInv'
  BY <1>3, <1>4, <1>9 DEF ConnectionInv, config, StartPolicy
<1>14. BackendIsTheOneAsked'
  <2>1. CASE verdict \notin Kinds
    BY <1>1, <1>9, <2>1 DEF IInv, BackendIsTheOneAsked
  <2>2. CASE verdict \in Kinds
    <3> DEFINE connection == Sections(config).connection
               selector == ResolveSelector(setting.choice, connection)
    <3>1. Takes(verdict, selector, setting.env, connection)
      BY <1>4, <2>2, ResolvedBackendIsTaken DEF Backend, Selector
    <3>2. CASE selector = verdict
      BY <1>1, <1>9, <2>2, <3>2 DEF BackendIsTheOneAsked, ResolveSelector, Kinds
    <3>3. CASE selector = "auto" /\ selector # verdict
      <4>1. PICK n \in DOMAIN AutoOrder :
               /\ verdict = AutoOrder[n]
               /\ \A k \in 1..(n - 1) : Missing(AutoOrder[k], setting.env, connection)
        BY <3>1, <3>3 DEF Takes, PassedOver
      <4>2. \A k \in 1..(n - 1) : \A role \in Locators(AutoOrder[k]) :
               setting.env[EnvNames(connection, AutoOrder[k])[role]] = "unset"
        BY <4>1, LocatorsAreNamed, OrderOfKinds DEF Missing, Readings
      <4>3. (IF setting.choice # "unset" THEN setting.choice ELSE connection.backend)
               \in {"auto", "unset"}
        BY <3>3 DEF ResolveSelector
      <4>4. QED
        BY <1>1, <1>9, <2>2, <4>1, <4>2, <4>3 DEF BackendIsTheOneAsked
    <3>4. QED
      BY <3>1, <3>2, <3>3 DEF Takes
  <2>3. QED
    BY <2>1, <2>2
<1>15. QED
  BY <1>10, <1>11, <1>12, <1>13, <1>14 DEF IInv

\* What a path holds now is among what it has held.
LEMMA CurrentContentWasHad ==
    ASSUME IInv, NEW path \in Paths
    PROVE  file[path] \in Contents \cap Had(path)
<1>1. past \in Seq(Contents) /\ past # <<>> /\ file \in [Paths -> Contents]
  BY DEF IInv, TypeOK, FileInv
<1>2. past[Len(past)] \in Range(past)
  BY <1>1 DEF Range
<1>3. QED
  BY <1>1, <1>2 DEF Had, IInv, FileInv

\* Connecting and reading the schema touch neither policy nor connection.
LEMMA ConnectKeeps ==
    ASSUME IInv, Connect \/ LoadSchema
    PROVE  IInv'
<1>1. /\ server \in Server /\ server.pc \in {"connect", "schema"}
      /\ UNCHANGED <<setting, options, file, past, edits, init, doctor>>
  BY DEF IInv, TypeOK, Connect, LoadSchema, Stay
<1>2. /\ server' \in Server /\ server'.pc \in {"failed", "serving", "schema", "finished"}
      /\ server'.pc = "serving" => server.pc = "connect"
      /\ server'.path = server.path /\ server'.policy = server.policy
      /\ server'.read = server.read /\ server'.begun = server.begun
      /\ server'.connection = server.connection /\ server'.backend = server.backend
  BY <1>1 DEF Connect, LoadSchema, Server, Stages, Errors
<1>3. TypeOK'
  BY <1>1, <1>2 DEF IInv, TypeOK
<1>4. OptionsOK' /\ FileInv' /\ UnforcedInv'
  BY <1>1, FileUntouched DEF IInv, UnforcedInv
<1>5. PolicyInv'
  BY <1>1, <1>2, FileUntouched DEF IInv, PolicyInv
<1>6. ConnectionInv'
  BY <1>1, <1>2 DEF IInv, ConnectionInv
<1>7. BackendIsTheOneAsked'
  BY <1>1, <1>2 DEF IInv, BackendIsTheOneAsked
<1>8. QED
  BY <1>3, <1>4, <1>5, <1>6, <1>7 DEF IInv

\* A reload takes the policy of the content that is at the path now.
LEMMA ReloadKeeps ==
    ASSUME IInv, ReloadFromFile
    PROVE  IInv'
<1> DEFINE content == file[server.path]
<1>1. /\ server \in Server /\ server.pc = "serving" /\ server.path \in Paths
      /\ UNCHANGED <<setting, options, file, past, edits, init, doctor>>
  BY DEF IInv, TypeOK, ReloadFromFile, Stay, Server
<1>2. /\ content \in Configs \cap Contents \cap Had(server.path)
      /\ content = LoadedOrDefault(content)
      /\ ~UnknownProfile(content) /\ IsConfig(content)
      /\ server' = [server EXCEPT !.read = content, !.policy = Sections(content).policy]
  BY <1>1, CurrentContentWasHad, ConfigsAssumption
  DEF ReloadFromFile, Contents, LoadedOrDefault
<1>3. Sections(content).policy \subseteq Tables
  BY <1>2, SectionsOfAConfig
<1> HIDE DEF content
<1>4. /\ server' \in Server /\ server'.pc = "serving" /\ server'.path = server.path
      /\ server'.read = content /\ server'.policy = Sections(content).policy
      /\ server'.begun = server.begun /\ server'.connection = server.connection
      /\ server'.backend = server.backend
  BY <1>1, <1>2, <1>3 DEF Server, Stages
<1>5. TypeOK'
  BY <1>1, <1>4 DEF IInv, TypeOK
<1>6. OptionsOK' /\ FileInv' /\ UnforcedInv'
  BY <1>1, FileUntouched DEF IInv, UnforcedInv
<1>7. PolicyInv'
  BY <1>1, <1>2, <1>4, FileUntouched DEF PolicyInv
<1>8. ConnectionInv'
  BY <1>1, <1>2, <1>4 DEF IInv, ConnectionInv
<1>9. BackendIsTheOneAsked'
  BY <1>1, <1>4 DEF IInv, BackendIsTheOneAsked
<1>10. QED
  BY <1>5, <1>6, <1>7, <1>8, <1>9 DEF IInv

-----------------------------------------------------------------------------
\* A step that does not touch the server keeps what is said of it, if what the
\* files had is only added to.
LEMMA ServerUntouched ==
    ASSUME IInv, UNCHANGED <<setting, server>>,
           \A path \in Paths : Had(path) \subseteq Had(path)'
    PROVE  PolicyInv' /\ ConnectionInv' /\ BackendIsTheOneAsked'
<1>1. server.path \in Paths
  BY DEF IInv, TypeOK, Server
<1>2. PolicyInv'
  BY <1>1 DEF IInv, PolicyInv
<1>3. ConnectionInv' /\ BackendIsTheOneAsked'
  BY DEF IInv, ConnectionInv, BackendIsTheOneAsked
<1>4. QED
  BY <1>2, <1>3

\* A write adds to what the file has held.
LEMMA WriteAdds ==
    ASSUME IInv, NEW content \in Contents, Write(content)
    PROVE  /\ file' \in [Paths -> Contents] /\ past' \in Seq(Contents)
           /\ FileInv'
           /\ past' # <<>> /\ past'[1] = past[1]
           /\ \A path \in Paths : Had(path) \subseteq Had(path)'
<1>1. past \in Seq(Contents) /\ past # <<>> /\ file \in [Paths -> Contents]
  BY DEF IInv, TypeOK, FileInv
<1>2. past' = Append(past, content) /\ file' = [file EXCEPT !["dot_datagate"] = content]
  BY DEF Write
<1>3. /\ past' \in Seq(Contents) /\ Len(past') = Len(past) + 1
      /\ past'[Len(past')] = content
      /\ \A n \in DOMAIN past : n \in DOMAIN past' /\ past'[n] = past[n]
  BY <1>1, <1>2
<1>4. past' # <<>> /\ past'[1] = past[1]
  BY <1>1, <1>3
<1>5. Range(past) \subseteq Range(past')
  BY <1>3 DEF Range
<1>6. FileInv' /\ file' \in [Paths -> Contents]
  BY <1>1, <1>2, <1>3, <1>4 DEF FileInv, Paths
<1>7. \A path \in Paths : Had(path) \subseteq Had(path)'
  BY <1>1, <1>2, <1>5 DEF Had
<1>8. QED
  BY <1>3, <1>4, <1>6, <1>7

\* Create and WriteTemplate: only a command that may do so writes.
LEMMA OverwriteKeeps ==
    ASSUME IInv, NEW i \in Inits, Create(i) \/ WriteTemplate(i)
    PROVE  IInv'
<1>1. /\ init[i] \in {"create", "write"}
      /\ UNCHANGED <<setting, options, edits, server, doctor>>
  BY DEF Create, WriteTemplate, Stay
<1>2. PICK content \in Contents : Write(content)
  BY ConfigsAssumption DEF Create, WriteTemplate, IInv, OptionsOK, Contents
<1>3. init' \in [Inits -> {"not_run", "check", "create", "write", "done",
                           "refused", "stopped"}]
  BY DEF IInv, TypeOK, Create, WriteTemplate
<1>4. TypeOK' /\ FileInv'
  BY <1>1, <1>2, <1>3, WriteAdds DEF IInv, TypeOK
<1>5. OptionsOK'
  BY <1>1 DEF IInv, OptionsOK
<1>6. UnforcedInv'
  BY <1>1, <1>2, WriteAdds DEF IInv, UnforcedInv
<1>7. QED
  BY <1>1, <1>2, <1>4, <1>5, <1>6, WriteAdds, ServerUntouched DEF IInv

\* An edit counts as one, so that the file is no longer left to init.
LEMMA EditKeeps ==
    ASSUME IInv, Edit
    PROVE  IInv'
<1>1. /\ UNCHANGED <<setting, options, server, init, doctor>>
      /\ edits \in [left : 0..MaxEdits, contents : SUBSET Contents]
  BY DEF Edit, Stay, IInv, TypeOK
<1>2. PICK content \in Contents : Write(content)
  BY <1>1 DEF Edit
<1>3. /\ edits' \in [left : 0..MaxEdits, contents : SUBSET Contents]
      /\ edits'.left < MaxEdits
  BY <1>1, ConfigsAssumption DEF Edit
<1>4. TypeOK' /\ FileInv'
  BY <1>1, <1>2, <1>3, WriteAdds DEF IInv, TypeOK
<1>5. OptionsOK' /\ UnforcedInv'
  BY <1>1, <1>3, ConfigsAssumption DEF IInv, OptionsOK, UnforcedInv
<1>6. QED
  BY <1>1, <1>2, <1>4, <1>5, WriteAdds, ServerUntouched DEF IInv

\* A command that checks or stops writes nothing.
LEMMA CommandKeeps ==
    ASSUME IInv, NEW i \in Inits, CheckExisting(i) \/ Stop(i)
    PROVE  IInv'
<1>1. UNCHANGED <<setting, options, file, past, edits, server, doctor>>
  BY DEF CheckExisting, Stop, Stay
<1>2. init' \in [Inits -> {"not_run", "check", "create", "write", "done",
                           "refused", "stopped"}]
  BY DEF IInv, TypeOK, CheckExisting, Stop
<1>3. TypeOK'
  BY <1>1, <1>2 DEF IInv, TypeOK
<1>4. UnforcedInv'
  <2>1. SUFFICES ASSUME past[1] # Absent, edits.left = MaxEdits,
                        \A j \in Inits : ~options[j].force
                 PROVE  \A j \in Inits : init'[j] \notin {"create", "write"}
    BY <1>1 DEF IInv, UnforcedInv
  <2>2. file["dot_datagate"] # Absent
    BY <2>1 DEF IInv, UnforcedInv, FileInv
  <2>3. init'[i] \notin {"create", "write"}
    BY <2>1, <2>2 DEF IInv, TypeOK, CheckExisting, Stop
  <2>4. \A j \in Inits \ {i} : init'[j] = init[j]
    BY DEF IInv, TypeOK, CheckExisting, Stop
  <2>5. QED
    BY <2>1, <2>3, <2>4 DEF IInv, UnforcedInv
<1>5. QED
  BY <1>1, <1>3, <1>4, FileUntouched, ServerUntouched DEF IInv

\* The doctor only reads.
LEMMA DoctorKeeps ==
    ASSUME IInv, ResolveDoctorPath \/ Diagnose
    PROVE  IInv'
<1>1. /\ UNCHANGED <<setting, options, file, past, edits, server, init>>
      /\ doctor \in Doctor
  BY DEF ResolveDoctorPath, Diagnose, Stay, IInv, TypeOK
<1>2. doctor' \in Doctor
  <2>1. CASE ResolveDoctorPath
    BY <1>1, <2>1, PathResolved DEF ResolveDoctorPath, Doctor
  <2>2. CASE Diagnose
    <3> DEFINE content == file[doctor.path]
               diagnosis == Diagnosis(content)
    <3>1. content \in Contents
      BY <1>1 DEF Doctor, IInv, TypeOK
    <3>2. /\ diagnosis.status \in {"deny_all", "failed", "ok"}
          /\ diagnosis.policy \subseteq Tables
          /\ diagnosis.lacking \in BOOLEAN
      BY <3>1, SectionsOfAConfig, ConfigsAssumption
      DEF Diagnosis, Contents, RejectsConnection, DenyAll
    <3>3. doctor' = [doctor EXCEPT !.pc = "done", !.read = content,
                                   !.status = diagnosis.status,
                                   !.policy = diagnosis.policy,
                                   !.lacking = diagnosis.lacking]
      BY <2>2 DEF Diagnose
    <3> HIDE DEF content, diagnosis
    <3>4. QED
      BY <1>1, <3>1, <3>2, <3>3 DEF Doctor
  <2>3. QED
    BY <2>1, <2>2
<1>3. TypeOK'
  BY <1>1, <1>2 DEF IInv, TypeOK
<1>4. UnforcedInv'
  BY <1>1 DEF IInv, UnforcedInv
<1>5. QED
  BY <1>1, <1>3, <1>4, FileUntouched, ServerUntouched DEF IInv

\* Every step keeps the invariant,
LEMMA StepKeeps == IInv /\ [Next]_vars => IInv'
<1> SUFFICES ASSUME IInv, [Next]_vars PROVE IInv'
  OBVIOUS
<1>1. CASE RecordStart \/ ResolvePath
  BY <1>1, ServerBeginsKeeps
<1>2. CASE Load
  BY <1>2, LoadKeeps
<1>3. CASE Connect \/ LoadSchema
  BY <1>3, ConnectKeeps
<1>4. CASE ReloadFromFile
  BY <1>4, ReloadKeeps
<1>5. CASE \E i \in Inits : InitStep(i)
  BY <1>5, OverwriteKeeps, CommandKeeps DEF InitStep
<1>6. CASE Edit
  BY <1>6, EditKeeps
<1>7. CASE ResolveDoctorPath \/ Diagnose
  BY <1>7, DoctorKeeps
<1>8. CASE UNCHANGED vars
  <2>1. UNCHANGED <<setting, options, file, past, edits, server, init, doctor>>
    BY <1>8 DEF vars
  <2>2. TypeOK' /\ UnforcedInv'
    BY <2>1 DEF IInv, TypeOK, UnforcedInv
  <2>3. QED
    BY <2>1, <2>2, FileUntouched, ServerUntouched DEF IInv
<1>9. QED
  BY <1>1, <1>2, <1>3, <1>4, <1>5, <1>6, <1>7, <1>8 DEF Next, ServerStep

\* which therefore holds throughout.
LEMMA Invariance == Spec => []IInv
<1>1. QED
  BY InitEstablishes, StepKeeps, PTL DEF Spec

-----------------------------------------------------------------------------
\* The state of the processes and files keeps its type.
THEOREM StartupTyped == Spec => []TypeOK
<1>1. IInv => TypeOK
  BY DEF IInv
<1>2. QED
  BY <1>1, Invariance, PTL

\* Whatever interleaves with the start and the reloads, the server allows only
\* what one whole content of its file granted to the profile it selected.
THEOREM GrantsOfTheFile == Spec => []GrantsComeFromTheFile
<1>1. IInv => GrantsComeFromTheFile
  <2> SUFFICES ASSUME IInv, server.policy # DenyAll
               PROVE  \E content \in Had(server.path) :
                         \A table \in server.policy : Grants(content, table)
    BY DEF GrantsComeFromTheFile, Had
  <2>1. /\ server.read \in Configs \cap Had(server.path)
        /\ ~UnknownProfile(server.read)
        /\ server.policy = Sections(server.read).policy
    BY DEF IInv, PolicyInv
  <2>2. \A table \in server.policy : Grants(server.read, table)
    BY <2>1 DEF Grants, Sections, FlatSections, UnknownProfile, ProfileCounts
  <2>3. QED
    BY <2>1, <2>2
<1>2. QED
  BY <1>1, Invariance, PTL

\* A server never begins with an unknown profile, nor with the policy of one
\* profile and the connection of another.
THEOREM OneProfile == Spec => []OneProfileRules
<1>1. IInv => OneProfileRules
  <2> SUFFICES ASSUME IInv, server.pc \in {"connect", "serving"}
               PROVE  OneProfileRules
    BY DEF OneProfileRules
  <2> DEFINE config == LoadedOrDefault(server.begun)
  <2>1. /\ ~UnknownProfile(config) /\ server.begun \in Contents
        /\ server.connection = Sections(config).connection
        /\ server.read = server.begun => server.policy = Sections(config).policy
    BY DEF IInv, ConnectionInv
  <2> HIDE DEF config
  <2>2. CASE config.profile \in DOMAIN config.profiles /\ config.profile # NoProfile
    <3>1. Sections(config) = config.profiles[config.profile]
      BY <2>2 DEF Sections, ProfileCounts
    <3>2. QED
      BY <2>1, <2>2, <3>1 DEF OneProfileRules, config
  <2>3. CASE config.profile \notin DOMAIN config.profiles
    <3>1. Sections(config) = FlatSections(config)
      BY <2>1, <2>3 DEF Sections, UnknownProfile
    <3>2. config.profile = NoProfile \/ DOMAIN config.profiles = {}
      BY <2>1, <2>3 DEF UnknownProfile, ProfileCounts
    <3>3. QED
      BY <2>1, <2>3, <3>1, <3>2 DEF OneProfileRules, config
  <2>4. CASE config.profile = NoProfile /\ NoProfile \in DOMAIN config.profiles
    BY <2>1, <2>4, LoadedIsAConfig, ConfigsAssumption DEF IsConfig, config
  <2>5. QED
    BY <2>2, <2>3, <2>4
<1>2. QED
  BY <1>1, Invariance, PTL

\* The backend is the one asked for, or the first that any variable points to.
THEOREM BackendAsked == Spec => []BackendIsTheOneAsked
<1>1. IInv => BackendIsTheOneAsked
  BY DEF IInv
<1>2. QED
  BY <1>1, Invariance, PTL

\* Any number of init commands without --force, stopped anywhere, leave an
\* existing file alone.
THEOREM UnforcedInitHarmless == Spec => []UnforcedInitKeepsTheFile
<1>1. IInv => UnforcedInitKeepsTheFile
  BY DEF IInv, UnforcedInv, FileInv, UnforcedInitKeepsTheFile
<1>2. QED
  BY <1>1, Invariance, PTL

\* A reload that fails leaves the policy of a server alone.
THEOREM FailedReloadHarmless == Spec => FailedReloadKeepsPolicy
<1> DEFINE Kept ==
        (server.pc = "serving" /\ server'.policy # server.policy) =>
            /\ file[server.path] \in Configs
            /\ \A table \in server'.policy : Grants(file[server.path], table)
            /\ ~UnknownProfile(file[server.path])
<1>1. ASSUME IInv, [Next]_vars PROVE [Kept]_vars
  <2> SUFFICES ASSUME server.pc = "serving", server'.policy # server.policy
               PROVE  Kept
    OBVIOUS
  <2>1. ReloadFromFile
    BY <1>1 DEF Next, ServerStep, RecordStart, ResolvePath, Load, Connect, LoadSchema,
                InitStep, CheckExisting, Create, WriteTemplate, Stop, Edit, ResolveDoctorPath,
                Diagnose, Stay, vars
  <2> DEFINE content == file[server.path]
  <2>2. /\ server \in Server /\ server.path \in Paths
    BY <1>1 DEF IInv, TypeOK, Server
  <2>3. /\ content \in Configs /\ ~UnknownProfile(content)
        /\ server'.policy = Sections(content).policy
    BY <1>1, <2>1, <2>2, CurrentContentWasHad DEF ReloadFromFile, Contents, Server
  <2>4. \A table \in server'.policy : Grants(content, table)
    BY <2>3 DEF Grants, Sections, FlatSections, UnknownProfile, ProfileCounts
  <2>5. QED
    BY <2>3, <2>4
<1>2. QED
  BY <1>1, Invariance, PTL DEF Spec, FailedReloadKeepsPolicy

-----------------------------------------------------------------------------
(* What a start comes to.  The two properties about it need what IInv does   *)
(* not say: that a connecting server read a complete backend, what becomes   *)
(* of the verdict on the content that the start read, and what doctor noted. *)

\* What the server connects to was read in full, and it serves only once the
\* pool was found usable.
PoolInv ==
    /\ server.pc \in {"connect", "serving"} =>
          /\ server.backend \in Kinds
          /\ Complete(server.backend, setting.env, server.connection)
    /\ server.pc = "serving" => PoolUsable(server.backend, setting.env, server.connection)

Refusals == {"connection", "selector"}

\* A start reads once; it ends with a refusal of the configuration if and only
\* if its verdict on that content was one, and its policy is the one that the
\* content gives until a reload reads another.
VerdictInv ==
    IF server.pc \in {"audit", "resolve", "load"} \/ server.begun = Unread
    THEN server.begun = Unread /\ server.error \notin Refusals
    ELSE LET config == LoadedOrDefault(server.begun)
         IN /\ server.error \in Refusals <=> StartVerdict(config) \in Refusals
            /\ server.pc \in {"connect", "schema"} => server.error \notin Refusals
            /\ server.read = server.begun => server.policy = StartPolicy(config)

\* What doctor printed is its diagnosis of the content it read.
DoctorInv ==
    doctor.pc = "done" =>
        /\ doctor.read \in Contents
        /\ doctor.status = Diagnosis(doctor.read).status
        /\ doctor.policy = Diagnosis(doctor.read).policy
        /\ doctor.lacking = Diagnosis(doctor.read).lacking

OutcomeInv == IInv /\ PoolInv /\ VerdictInv /\ DoctorInv

\* A backend is taken only when it reads completely.
LEMMA ResolvedBackendIsComplete ==
    ASSUME NEW selector, NEW env, NEW connection,
           ResolveBackend(selector, env, connection) \in Kinds
    PROVE  Complete(ResolveBackend(selector, env, connection), env, connection)
<1> DEFINE taken == {kind \in Kinds : Takes(kind, selector, env, connection)}
<1>1. "none" \notin Kinds /\ "invalid" \notin Kinds
  BY DEF Kinds
<1>2. /\ taken # {}
      /\ \A kind \in taken : Complete(kind, env, connection)
      /\ ResolveBackend(selector, env, connection) = CHOOSE kind \in taken : TRUE
  BY <1>1 DEF ResolveBackend
<1> HIDE DEF taken
<1>3. (CHOOSE kind \in taken : TRUE) \in taken
  BY <1>2
<1>4. QED
  BY <1>2, <1>3

\* A pool that reads and is usable has connections and patience.
LEMMA UsablePools ==
    ASSUME NEW kind \in Kinds, NEW env, NEW connection, NEW role \in PoolRoles,
           Complete(kind, env, connection), PoolUsable(kind, env, connection)
    PROVE  env[EnvNames(connection, kind)[role]] \in {"unset", "good"}
<1>1. role \in DOMAIN DefaultNames[kind]
  BY DEF Kinds, PoolRoles, DefaultNames
<1>2. Readings(kind, env, connection)[role] = env[EnvNames(connection, kind)[role]]
  BY <1>1 DEF Readings
<1>3. /\ Readings(kind, env, connection)[role] \in Number \cup {"unset"}
      /\ Readings(kind, env, connection)[role] # "zero"
  BY DEF Complete, PoolUsable
<1>4. QED
  BY <1>2, <1>3 DEF Number

\* The environment stays, and with it every verdict and diagnosis.
LEMMA JudgementsStay ==
    ASSUME UNCHANGED setting
    PROVE  \A config : /\ StartVerdict(config)' = StartVerdict(config)
                       /\ Diagnosis(config)' = Diagnosis(config)
BY DEF StartVerdict, Backend, Selector, Diagnosis

\* The refusals that a verdict can be.
LEMMA VerdictRefuses ==
    ASSUME NEW config
    PROVE  StartVerdict(config) \in Refusals
              <=> RejectsConnection(config) \/ Selector(config) = "invalid"
<1>1. Backend(config) \in Kinds \cup {"none", "invalid"}
  BY ResolvedBackends DEF Backend
<1>2. QED
  BY <1>1 DEF StartVerdict, Refusals, Kinds

\* Before the start has read anything there is no verdict.
LEMMA OutcomeBegins == Init => OutcomeInv
<1> SUFFICES ASSUME Init PROVE OutcomeInv
  OBVIOUS
<1>1. server.pc = "audit" /\ server.begun = Unread /\ server.error = "none"
  BY DEF Init
<1>2. doctor.pc = "resolve"
  BY DEF Init
<1>3. QED
  BY <1>1, <1>2, InitEstablishes DEF OutcomeInv, PoolInv, VerdictInv, DoctorInv, Refusals

\* The steps before the start has read anything.
LEMMA OutcomeBeforeLoad ==
    ASSUME OutcomeInv, RecordStart \/ ResolvePath
    PROVE  PoolInv' /\ VerdictInv'
<1>1. /\ server \in Server /\ server.pc \in {"audit", "resolve"}
      /\ server.begun = Unread /\ server.error \notin Refusals
  BY DEF OutcomeInv, IInv, TypeOK, VerdictInv, RecordStart, ResolvePath
<1>2. /\ server'.pc \in {"resolve", "load", "failed"} /\ server'.begun = Unread
      /\ server'.error \notin Refusals
  BY <1>1 DEF RecordStart, ResolvePath, Server, Refusals
<1>3. QED
  BY <1>2 DEF PoolInv, VerdictInv

\* Load comes to the verdict and takes a backend only if it reads completely.
LEMMA OutcomeOfLoad ==
    ASSUME OutcomeInv, Load
    PROVE  PoolInv' /\ VerdictInv'
<1> DEFINE content == file[server.path]
           config == LoadedOrDefault(content)
           verdict == StartVerdict(config)
<1>1. /\ server \in Server /\ UNCHANGED setting
      /\ server.pc = "load" /\ server.error \notin Refusals
      /\ content \in Contents /\ content # Unread
  <2>1. /\ server \in Server /\ UNCHANGED setting /\ server.pc = "load"
        /\ server.error \notin Refusals
    BY DEF OutcomeInv, IInv, TypeOK, VerdictInv, Load, Stay
  <2>2. content \in Contents
    BY <2>1 DEF OutcomeInv, IInv, TypeOK, Server
  <2>3. QED
    BY <2>1, <2>2, ConfigsAssumption DEF Contents
<1>2. /\ server'.begun = content /\ server'.read = content
      /\ server'.policy = StartPolicy(config)
      /\ server'.pc \in {"connect", "finished", "failed"}
      /\ server'.pc = "connect" <=> verdict \in Kinds
      /\ verdict \in Kinds => /\ server'.backend = verdict
                              /\ server'.connection = Sections(config).connection
      /\ server'.error = IF verdict \in Kinds \cup {"none"} THEN server.error ELSE verdict
  <2>1. /\ verdict \in Kinds =>
              server' = [server EXCEPT !.begun = content, !.read = content,
                                       !.policy = StartPolicy(config),
                                       !.pc = "connect", !.backend = verdict,
                                       !.connection = Sections(config).connection]
        /\ verdict = "none" =>
              server' = [server EXCEPT !.begun = content, !.read = content,
                                       !.policy = StartPolicy(config), !.pc = "finished"]
        /\ verdict \notin Kinds \cup {"none"} =>
              server' = [server EXCEPT !.begun = content, !.read = content,
                                       !.policy = StartPolicy(config), !.pc = "failed",
                                       !.error = verdict]
    BY <1>1 DEF Load, Server, Kinds
  <2> HIDE DEF content, config, verdict
  <2>2. "none" \notin Kinds
    BY DEF Kinds
  <2>3. QED
    BY <1>1, <2>1, <2>2 DEF Server
<1>3. Kinds \cap Refusals = {} /\ "none" \notin Refusals
  BY DEF Kinds, Refusals
<1>4. PoolInv'
  <2>1. SUFFICES ASSUME verdict \in Kinds
                 PROVE  Complete(verdict, setting.env, Sections(config).connection)
    BY <1>1, <1>2 DEF PoolInv
  <2>2. QED
    BY <2>1, Verdicts, ResolvedBackendIsComplete DEF Backend
<1>5. VerdictInv'
  BY <1>1, <1>2, <1>3, JudgementsStay DEF VerdictInv
<1>6. QED
  BY <1>4, <1>5

\* Whether the database answers changes neither the verdict nor the pool.
LEMMA OutcomeOfConnecting ==
    ASSUME OutcomeInv, Connect \/ LoadSchema
    PROVE  PoolInv' /\ VerdictInv'
<1>1. /\ server \in Server /\ UNCHANGED setting /\ server.pc \in {"connect", "schema"}
      /\ server.error \notin Refusals
  BY DEF OutcomeInv, IInv, TypeOK, VerdictInv, Connect, LoadSchema, Stay, Refusals
<1>2. /\ server'.begun = server.begun /\ server'.read = server.read
      /\ server'.policy = server.policy /\ server'.backend = server.backend
      /\ server'.connection = server.connection
      /\ server'.pc \in {"schema", "serving", "finished", "failed"}
      /\ server'.error \notin Refusals
      /\ server'.pc = "serving" =>
            /\ server.pc = "connect"
            /\ PoolUsable(server.backend, setting.env, server.connection)
  BY <1>1 DEF Connect, LoadSchema, Server, Refusals
<1>3. PoolInv'
  BY <1>1, <1>2 DEF OutcomeInv, PoolInv
<1>4. VerdictInv'
  BY <1>1, <1>2, JudgementsStay DEF OutcomeInv, VerdictInv
<1>5. QED
  BY <1>3, <1>4

\* A reload leaves the verdict and the pool alone.
LEMMA OutcomeOfReload ==
    ASSUME OutcomeInv, ReloadFromFile
    PROVE  PoolInv' /\ VerdictInv'
<1> DEFINE content == file[server.path]
<1>1. /\ server \in Server /\ UNCHANGED setting /\ server.pc = "serving"
      /\ ~UnknownProfile(content) /\ LoadedOrDefault(content) = content
      /\ server' = [server EXCEPT !.read = content, !.policy = Sections(content).policy]
  BY DEF OutcomeInv, IInv, TypeOK, ReloadFromFile, Stay, LoadedOrDefault
<1> HIDE DEF content
<1>2. /\ server'.begun = server.begun /\ server'.error = server.error
      /\ server'.pc = server.pc /\ server'.backend = server.backend
      /\ server'.connection = server.connection
      /\ server'.read = content /\ server'.policy = Sections(content).policy
  BY <1>1 DEF Server
<1>3. PoolInv'
  BY <1>1, <1>2 DEF OutcomeInv, PoolInv
<1>4. content = server.begun =>
         server'.policy = StartPolicy(LoadedOrDefault(server.begun))'
  BY <1>1, <1>2 DEF StartPolicy
<1>5. VerdictInv'
  BY <1>1, <1>2, <1>4, JudgementsStay DEF OutcomeInv, VerdictInv
<1>6. QED
  BY <1>3, <1>5

\* The doctor notes its diagnosis of what it read.
LEMMA OutcomeOfDoctor ==
    ASSUME OutcomeInv, ResolveDoctorPath \/ Diagnose
    PROVE  DoctorInv'
<1>1. doctor \in Doctor /\ UNCHANGED setting
  BY DEF OutcomeInv, IInv, TypeOK, ResolveDoctorPath, Diagnose, Stay
<1>2. CASE ResolveDoctorPath
  BY <1>1, <1>2 DEF ResolveDoctorPath, Doctor, DoctorInv
<1>3. CASE Diagnose
  <2> DEFINE content == file[doctor.path]
  <2>1. content \in Contents
    BY <1>1 DEF Doctor, OutcomeInv, IInv, TypeOK
  <2>2. doctor' = [doctor EXCEPT !.pc = "done", !.read = content,
                                 !.status = Diagnosis(content).status,
                                 !.policy = Diagnosis(content).policy,
                                 !.lacking = Diagnosis(content).lacking]
    BY <1>3 DEF Diagnose
  <2> HIDE DEF content
  <2>3. /\ doctor'.read = content /\ doctor'.status = Diagnosis(content).status
        /\ doctor'.policy = Diagnosis(content).policy
        /\ doctor'.lacking = Diagnosis(content).lacking
    BY <1>1, <2>2 DEF Doctor
  <2>4. QED
    BY <1>1, <2>1, <2>3, JudgementsStay DEF DoctorInv
<1>4. QED
  BY <1>2, <1>3

\* The other steps leave the environment and the two processes alone.
LEMMA OutcomeUntouched ==
    ASSUME OutcomeInv, UNCHANGED setting
    PROVE  /\ UNCHANGED server => PoolInv' /\ VerdictInv'
           /\ UNCHANGED doctor => DoctorInv'
<1>1. ASSUME UNCHANGED server PROVE PoolInv' /\ VerdictInv'
  <2>1. PoolInv'
    BY <1>1 DEF OutcomeInv, PoolInv
  <2>2. VerdictInv'
    BY <1>1, JudgementsStay DEF OutcomeInv, VerdictInv
  <2>3. QED
    BY <2>1, <2>2
<1>2. ASSUME UNCHANGED doctor PROVE DoctorInv'
  BY <1>2, JudgementsStay DEF OutcomeInv, DoctorInv
<1>3. QED
  BY <1>1, <1>2

\* Every step keeps what a start comes to,
LEMMA OutcomeKept == OutcomeInv /\ [Next]_vars => OutcomeInv'
<1> SUFFICES ASSUME OutcomeInv, [Next]_vars PROVE OutcomeInv'
  OBVIOUS
<1>1. IInv'
  BY StepKeeps DEF OutcomeInv
<1>2. UNCHANGED setting
  BY DEF Next, ServerStep, RecordStart, ResolvePath, Load, Connect, LoadSchema,
         ReloadFromFile, InitStep, CheckExisting, Create, WriteTemplate, Stop, Edit,
         ResolveDoctorPath, Diagnose, Stay, vars
<1>3. CASE ServerStep \/ LoadSchema \/ ReloadFromFile
  <2>1. UNCHANGED doctor
    BY <1>3 DEF ServerStep, RecordStart, ResolvePath, Load, Connect, LoadSchema,
                ReloadFromFile, Stay
  <2>2. PoolInv' /\ VerdictInv'
    BY <1>3, OutcomeBeforeLoad, OutcomeOfLoad, OutcomeOfConnecting, OutcomeOfReload
    DEF ServerStep
  <2>3. QED
    BY <1>1, <1>2, <2>1, <2>2, OutcomeUntouched DEF OutcomeInv
<1>4. CASE ResolveDoctorPath \/ Diagnose
  <2>1. UNCHANGED server
    BY <1>4 DEF ResolveDoctorPath, Diagnose, Stay
  <2>2. QED
    BY <1>1, <1>2, <1>4, <2>1, OutcomeOfDoctor, OutcomeUntouched DEF OutcomeInv
<1>5. CASE (\E i \in Inits : InitStep(i)) \/ Edit \/ UNCHANGED vars
  <2>1. UNCHANGED <<server, doctor>>
    BY <1>5 DEF InitStep, CheckExisting, Create, WriteTemplate, Stop, Edit, Stay, vars
  <2>2. QED
    BY <1>1, <1>2, <2>1, OutcomeUntouched DEF OutcomeInv
<1>6. QED
  BY <1>3, <1>4, <1>5 DEF Next

\* so that it holds throughout.
LEMMA OutcomeInvariant == Spec => []OutcomeInv
<1>1. QED
  BY OutcomeBegins, OutcomeKept, PTL DEF Spec

\* Whatever the environment holds and however often the start is tried, a
\* server serves only from a pool with connections that waits for one.
THEOREM PoolsServe == Spec => []PoolNeverEmpty
<1>1. OutcomeInv => PoolNeverEmpty
  BY UsablePools DEF OutcomeInv, PoolInv, PoolNeverEmpty
<1>2. QED
  BY <1>1, OutcomeInvariant, PTL

\* Where nothing locates the database of the selected kind, a variable that
\* doctor requires is not set.
LEMMA RequiredAreLocators ==
    ASSUME NEW kind \in Kinds, NEW env, NEW connection,
           \A role \in Locators(kind) : env[EnvNames(connection, kind)[role]] = "unset"
    PROVE  \E name \in RequiredEnvNames(kind, env, connection) : env[name] = "unset"
<1>1. CASE kind = "sqlite"
  BY <1>1 DEF Locators, RequiredEnvNames
<1>2. CASE kind # "sqlite"
  BY <1>2 DEF Locators, RequiredEnvNames, Kinds
<1>3. QED
  BY <1>1, <1>2

\* What doctor says of a content is what a start that reads the same content
\* makes of it, with any environment and whatever happens to the file between
\* the two reads.
THEOREM DoctorForetells == Spec => []DoctorForetellsTheStart
<1>1. OutcomeInv => DoctorForetellsTheStart
  <2> SUFFICES ASSUME OutcomeInv, doctor.pc = "done", doctor.read = server.begun
               PROVE  DoctorForetellsTheStart
    BY DEF DoctorForetellsTheStart
  <2> DEFINE content == doctor.read
             config == LoadedOrDefault(content)
             diagnosis == Diagnosis(content)
             connection == Sections(content).connection
             kind == ResolveSelector(setting.choice, connection)
  <2>1. /\ content \in Contents /\ content # Unread
        /\ doctor.status = diagnosis.status /\ doctor.policy = diagnosis.policy
        /\ doctor.lacking = diagnosis.lacking
    BY ConfigsAssumption DEF OutcomeInv, DoctorInv, Contents
  <2>2. /\ server.error \in Refusals <=> StartVerdict(config) \in Refusals
        /\ server.read = server.begun => server.policy = StartPolicy(config)
    BY <2>1 DEF OutcomeInv, VerdictInv
  <2>3. CASE content \in {Absent, Unreadable}
    <3>1. diagnosis.status = "deny_all" /\ diagnosis.policy = DenyAll
      BY <2>3 DEF Diagnosis
    <3>2. content \notin Configs
      BY <2>3, ConfigsAssumption
    <3>3. StartPolicy(config) = DenyAll
      BY <2>3 DEF LoadedOrDefault, StartPolicy, DefaultConfig, Sections, ProfileCounts,
                  FlatSections
    <3>4. QED
      BY <2>1, <2>2, <3>1, <3>2, <3>3 DEF DoctorForetellsTheStart, Refusals
  <2>4. CASE content \notin {Absent, Unreadable}
    <3>1. content \in Configs /\ config = content
      BY <2>1, <2>4 DEF Contents, LoadedOrDefault
    <3>2. diagnosis.status = "failed" <=> StartVerdict(config) \in Refusals
      BY <2>4, <3>1, VerdictRefuses DEF Diagnosis
    <3>3. diagnosis.status # "failed" =>
             /\ diagnosis.policy = StartPolicy(config)
             /\ kind \in Selectors
             /\ diagnosis.lacking =
                   \E name \in RequiredEnvNames(kind, setting.env, connection) :
                       setting.env[name] = "unset"
      BY <2>4, <3>1 DEF Diagnosis, StartPolicy, RejectsConnection, Selector,
                        ResolveSelector, Selectors
    <3>4. ASSUME doctor.status = "ok", kind # "auto",
                 \A role \in Locators(kind) :
                    setting.env[EnvNames(connection, kind)[role]] = "unset"
          PROVE  doctor.lacking
      <4>1. kind \in Kinds
        BY <2>1, <3>3, <3>4 DEF Selectors
      <4>2. QED
        BY <2>1, <3>3, <3>4, <4>1, RequiredAreLocators
    <3> HIDE DEF config, diagnosis, connection, kind
    <3>5. doctor.status = "failed" <=> content \in Configs /\ server.error \in Refusals
      BY <2>1, <2>2, <3>1, <3>2
    <3>6. (doctor.status # "failed" /\ server.read = server.begun)
             => doctor.policy = server.policy
      BY <2>1, <2>2, <3>3
    <3>7. QED
      BY <3>4, <3>5, <3>6 DEF DoctorForetellsTheStart, Refusals, connection, kind
  <2>5. QED
    BY <2>3, <2>4
<1>2. QED
  BY <1>1, OutcomeInvariant, PTL
=============================================================================
