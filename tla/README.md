# Formal models of DataGate

DataGate (`src/`, Rust) is an MCP gateway: a client calls the tools `select`,
`search` and `aggregate`, and DataGate checks each call against an allow-list
policy, turns it into a parameterized read-only query, runs it and returns the
rows. The modules here model the gateway's own logic in TLA+, check it on small
instances with TLC, and prove its main properties for every instance with
TLAPS.

Paths below are relative to the repository root (`src/policy.rs`,
`docs/mcp-tools.md`).

    tlc -workers 2 -config Gateway.cfg MCGateway.tla
    tlapm GatewayProofs.tla

## Inventory

| Part | State | Operations | Talks to | Hard about it | Correct when |
|---|---|---|---|---|---|
| Rate limiter `rate_limit.rs` | map from client id to (window start, count), under a mutex | `allow` | called by ToolRuntime | the clock is read before the lock; callers race at the last slot | no window exceeds its quota, windows of a client are disjoint, nobody is rejected without cause |
| Policy engine `policy.rs` | the active policy, under a read-write lock | `check_*`, `resolve_row_limit`, `reload`, `reload_from_file` | called by the builder and ToolRuntime; handle shared by all | each check locks anew, two of them twice; reloads fall in between | a check answers, for the policy that is active |
| Query builder `query.rs` | none of its own: one build's position, predicates, binds | three `build` methods | policy engine | a build mixes many reads of the shared policy; placeholder numbering | accepts what the policy admits, binds every value where it belongs |
| Tool runtime `mcp.rs` | per call: what is prepared, answered, recorded | `prepare`, `execute` | limiter, builder, audit, backend, metrics | several awaits; four ways out; each records and answers differently | audited before queried, at most one query and one answer, metrics agree |
| Audit log `audit.rs` | a JSON-lines file | `record` | ToolRuntime, main | the write may fail and the failure is dropped | one event per audited call, the right outcome |
| Metrics `metrics.rs` | four relaxed atomics, latencies and pool reading under mutexes | `record_*`, `set_pool_metrics`, `snapshot`, `performance_profile` | ToolRuntime | counters are neither updated nor read together | they add up at rest; a snapshot covers its samples |
| Errors `error.rs` | none | constructors | all | - | a client is told what happened to its call |
| Transport `mcp_transport.rs` | backend handle, policy handle | three tools, `serve_stdio` | ToolRuntime, rmcp | the served tools have no audit log, limiter or metrics | a call keeps the contract whichever collaborators its tool has |
| Configuration `config.rs` | none | `load`, `effective_policy`, `effective_connection`, environment parsing | main, `reload_from_file` | fallbacks, profiles, partial environments | a bad configuration denies everything |
| Startup and commands `main.rs` | process start, the configuration file | `main`, `init`, `doctor` | all | order of fallible steps; check-then-write | docs' fallbacks hold |
| Backends `backend/*.rs` | a sqlx connection pool | `connect`, `execute_select`, `pool_metrics` | databases | pool limit, acquire timeout, no statement timeout, read-only set after connect | no query on a connection that is not read-only; calls end |
| Schema catalogue `schema.rs` | a loaded catalogue | `load` | Postgres | several queries, no transaction, while others change the database | what does not change is listed once, with its columns |
| npm wrapper `packaging/npm/bin` | a cache directory | `ensureBinary`, `main` | GitHub releases | concurrent and interrupted launches | runs a complete binary or fails |
| Benchmark, packaging, CI | - | - | - | - | - |

`PROJECT.json` lists every part with its status, and under `hazards` what in
this code is hard to test, each at its line, with the properties that watch it.

## Modules

    Policy <- QueryBuild <- MCQueryBuild
                  ^- QueryScriptProofs <- QueryBuildProofs
    RateLimiter <- MCRateLimiter
         ^- RateLimiterProofs
    Metrics <- MCMetrics
         ^- MetricsProofs <----.
         ^- Gateway <- MCGateway
                ^- GatewayProofs   (also extends MetricsProofs)
    GatewayContract   (instantiated by Gateway as Contract)
    Configuration <- Startup <- MCStartup
                        ^- StartupProofs
    ConnectionPool <- SchemaCatalog <- MCSchemaCatalog
                           ^- SchemaCatalogProofs
    BackendContract   (instantiated by ConnectionPool as Contract)
    NpmWrapper <- MCNpmWrapper
         ^- NpmWrapperProofs

In every module a definition named `Faulty...` is a broken variant of the
definition after it, a bug that code could plausibly have. No action uses one;
substituting it for that definition makes TLC find a property violated, which is
how each property was shown to be able to fail.

**RateLimiter** models `allow` as its two steps. `Stamp` is `Instant::now()`,
taken before the lock; `Allow` and `Reject` are the two outcomes of the locked
section, both starting from `CurrentEntry` (insert a missing entry, restart an
expired one). `duration_since` saturates, so a stamp older than the window
counts as no time. The calls keep a record of their decision (`window`, `at`)
as history for the properties.

**Policy** has each check as an operator over one policy, the one found under a
read lock. **QueryBuild** walks a build through the consultations it makes
(`Script`), one action per lock acquisition: `check_column` and
`check_filter_operator` take the lock twice (`ResolveKey`, then `LookUpColumn`,
`LookUpOperator` or `LookUpPanics`), and `Reload` may fall between any two.
What the builder does on its own after a check (quoting, comparing value kinds,
pushing binds) belongs to that check's action. A table name is a pair of schema
and relation, an identifier is valid or not, and SQL text is abstracted to the
table it reads and the placeholders it contains.

**Metrics** takes `metrics.rs` apart to single atomic operations: a recorder's
increments become visible in any order (they are `Relaxed`), the latency is
pushed after them under the mutex, and a snapshot looks at the latencies, copies
the pool reading and then loads the counters in any order. `quiet` in the
snapshot is history. `Percentile` is the arithmetic of `percentile_95` and
`percentile`, and `Profile` what `performance_profile` makes of it.

**Gateway** is `ToolRuntime` with whatever audit log, limiter and metrics its tool
was built with (`attached`; the transport of `mcp_transport.rs` attaches none): one record
per handler with its place, one action per step between two awaits (or two
accesses to shared state). It extends Metrics, so a handler records its outcome
by the registry's own steps, interleaved with a snapshot. The limiter and the
builder appear by their verdicts: the limiter may let any call through or not,
and a build comes to the active policy's verdict unless a reload fell into it,
when any verdict is possible, a panic included. This is what
`UndisturbedBuildIsExact` of QueryBuild justifies, for every request and policy
since it is proved. **GatewayContract** is the
abstract specification: refuse, or query once and reply once.

**Configuration** has `config.rs` as operators over a parsed file and the
environment: which section is in force (`Sections`), which variables a backend
reads (`EnvNames`), and whether they are missing, complete or an error. A variable
is known by how it reads (not set, blank, the number 0, bad, good), a policy by
the tables it allows. **Startup** puts three kinds of processes around one
configuration file: the server of `main`, `init` commands and a `doctor`. Each
file operation or await is an action, so the file may change, or be half written,
between any two of them, and an init may stop anywhere. `past`, the contents that
the file has had, is history. `reload_from_file` is an action of a serving server;
`main` itself never calls it, a host of the library may.

**ConnectionPool** is a backend: `connect` and its first connection (`Probe`), then
`execute_select` in up to `max_connections` sessions. A call waits, takes an idle
session or opens one, which `after_connect` sets read-only before the call has it;
it runs its statement once, lets go of the session and converts the rows. The
pool is sqlx's, modelled from what the backends rely on. The three backends have
the same text except for the statement of `after_connect` and the conversions, so
one module stands for all, and the map names lines of one or another of them.
**BackendContract** is the abstract specification: a statement is sent at most
once, and a call comes to one outcome. **SchemaCatalog** extends the pool by what
the process does with it: a server's tool calls, or the eight queries of
`SchemaCatalog::load`, during which someone else may change the database. Each
query reads the database when it starts; `stable`, the relations that have been
there unchanged since the first query was asked for, is history.

**NpmWrapper** has the launcher's file operations on the cache directory, one
action each: the archive that every launch downloads to, the nested path that tar
unpacks to, and the path of the binary. A file is the set of its parts that are on
disk; tar unlinks and creates anew, so a file is known by the launch that wrote it
and keeps being written after another launch has renamed it.

| Code | Definition |
|---|---|
| `RateLimiter::allow` | `Stamp`, `CurrentEntry`, `Allow`, `Reject` |
| `Policy::resolve_table_key` | `Candidates`, `ResolvesTo`, `Unresolved` |
| `Policy::check_column`, `check_filter_operator` | `ResolveKey`, then `LookUpColumn`/`LookUpOperator`/`LookUpPanics` |
| `Policy::resolve_row_limit`, `check_complexity` | `CheckLimit`, `CheckComplexity` |
| `Policy::reload` | `Reload` (QueryBuild and Gateway) |
| `SelectRequest::build` and its two siblings | `SelectScript`, `SearchScript`, `AggregateScript`, `Finish` |
| `build_filters` | `FilterSteps`, `FilterShape`, `PushFilter` |
| `MetricsRegistry::record_*`, `record_latency` | `StartRecording`, `Increment`, `PushLatency` |
| `MetricsRegistry::snapshot` | `ReadLatencies`, `ReadPool`, `Load` |
| `validate_request_id`, shape checks, `convert_filters` | `Validate` |
| `ToolRuntime::prepare` | `LimitRate`, `BeginBuild`, `EndBuild`, `Audit` |
| `ToolRuntime::execute` | `SendQuery`, `BackendReplies`, `RecordPool`, `CheckOutput`, `BeginRecording`, `Record`, `Answer` |
| `Config::effective_policy`, `effective_connection` | `Sections`, `UnknownProfile`, `RejectsConnection` |
| `from_connection_env` of the three backends | `Missing`, `LocationReads`, `Complete` |
| `resolve_backend_selector`, `resolve_backend_config` | `ResolveSelector`, `Takes`, `ResolveBackend` |
| `main` | `RecordStart`, `ResolvePath`, `Load`, `Connect`, `LoadSchema` |
| `run_init` | `CheckExisting`, `Create`, `WriteTemplate`, `Stop` |
| `run_doctor` | `ResolveDoctorPath`, `Diagnose` |
| `Policy::reload_from_file` | `ReloadFromFile` |
| `percentile_95`, `percentile`, `profile_from_latencies` | `PercentileIndex`, `Percentile`, `SnapshotP95`, `Profile` |
| `ToolRuntime::new`, `with_rate_limiter`, `with_metrics` | `attached`, `Has` |
| `connect` of the three backends | `Ask(Probe)`, `Open`, `Connect`, `AfterConnect`, `ProbeDone`, `TimeOut` |
| `execute_select` of the three backends | `Ask`, `TakeIdle`, `Open`, `Execute`, `Reply`, `Convert` |
| sqlx's own tasks | `Return`, `CloseIdle` |
| `SchemaCatalog::load`, `attach_columns` | `AskQuery`, `RowsOf`, `AttachColumns`, `Catalogued` |
| `ensureBinary` | `Begin`, `Rename` |
| `download` | `OpenArchive`, `Receive`, `Abort`, `CloseArchive` |
| `extract` | `StartTar`, `Unpack`, `EndTar` |
| `findBinary` | `FindAtRoot`, `FindNested` |
| `main` of the wrapper | `Spawn` |

## Runs

| Run | Instance | What it shows |
|---|---|---|
| `rate_limiter` | 5 calls, 2 clients, quota 2, window 2, at most 1 tick between stamp and lock, clock to 4 | quota per window, disjoint windows, earned rejections, a bound on bursts in real time, windows that only advance |
| `query_build` | 14 requests, 4 policies, up to 2 reloads, 1 build | an undisturbed build is exact, with the one exception that the docs contradict; a disturbed one is covered by policies of its time; placeholders; the only cause of a panic |
| `metrics` | 3 recorders, a repeated snapshot | the counters balance at rest; snapshots cover their samples, exactly if quiet; percentiles are those of the nearest rank |
| `gateway` | 2 calls, 2 policies, 1 reload, sizes 1 and 2, tools with all collaborators, some or none | audit before query, audit agrees with what was sent, output limit, metrics agree with answers, the contract, every call ends |
| `startup` | 1 server, 2 inits, 1 doctor and 1 edit on 9 initial contents; 4000 starts in different environments | what a server allows comes from one content and one profile; the backend is the one asked for; the pool is usable; doctor agrees with a start; an unforced init and a failed reload change nothing; every start ends |
| `schema_pool` | 2 sessions, 3 tool calls or the 8 queries of a load, 4 databases, 2 changes | no session is lost or shared; read-only before use; a loaded catalogue is exact on what did not change; the pool implements BackendContract; no call waits in the pool for ever |
| `npm_wrapper` | 3 launches, files of 2 parts, interruptions anywhere | a broken binary takes two overlapping launches; leftovers harm nobody; every launch ends unless the network does not answer |
| `checks_answer`, `decided_by_one_policy`, `plan_reads_listed_table`, `every_call_is_audited`, `unknown_profile` | as `query_build`, `gateway` and `startup` | TLC's counterexample to what a comment or a doc says (below) |

Bounds, and why they suffice:

* `MaxTime`, five calls: a client can fill a window, be rejected, expire it with
  a third stamp and fill the next one, while a call stamped before all that still
  waits. `MaxDelay` bounds only how stale a stamp may be; all safety is proved for
  any delay bound, and `BurstBound` depends on it.
* One build is enough in `query_build`: builds only read the policy and share
  nothing else (`QueryBuildProofs` covers any number). Two reloads let a key disappear and come back within a build;
  three distinct policies can meet in one plan. The policies differ in every way
  that a check can tell (a key removed, renamed into a schema, made ambiguous; a
  column, operator or limit taken away; a default limit above the maximum), and
  the requests make every script long enough to be cut at each check.
* `gateway` uses two policies, of which one admits a call that the other does
  not and has the smaller output limit, so that both directions of a reload
  matter. A third call adds no new pair of interacting handlers: handlers share
  only the policy, the log and the registry, and `GatewayProofs` covers any
  number.
* `startup` has two families of initial states, because interleavings and
  environments do not affect each other. The races have every content (profiles
  known, unknown, unset, with an invalid name or backend; no file; a broken file)
  under two inits, one of them with and without `--force`, a doctor, and one edit,
  which can fall before, between or after their steps; further edits only repeat
  what the second init does already. The environments are ten that locate a
  database (by URL, by components, by path, two at once, shared), each with any
  one variable reading otherwise.
* `metrics` has two different latencies in any order, at most three samples;
  `ProfilesByRank` covers every number of them.
* `schema_pool`: two sessions and three calls make one call wait while the others
  hold, open or return theirs. The databases differ by a table dropped, replaced
  by a view, or altered, beside one of the same name in another schema; two
  changes let a relation go away and come back. A load is one caller, so its
  queries need no third session.
* `npm_wrapper`: with two parts a file can be absent, partial or whole. Two
  launches are needed for a broken binary, the third is one that comes after.
* Deadlock checking is off where a behaviour really ends: all calls are done and
  the bound on reloads or the clock is reached.

Fairness: `Gateway` assumes weak fairness of each handler's own steps, because
the async runtime polls every handler that is ready and no lock is held across an
await. It assumes nothing of `BackendReplies`: the pools have an acquire timeout,
but no statement has one, so a query may never return. `CallsEnd` therefore says
that a call which has begun is answered, panics in its build, or waits for the
backend forever. `Validate`, the arrival of a call, and `Reload` are not fair
either. `Startup` assumes weak fairness of the server's own steps up to and
including the connection, which the pool's acquire timeout ends. It assumes none of
`LoadSchema`, because its statements have no timeout; `StartEnds` names that case.
Reloads, commands and edits need not happen. The pool (`PoolFairness`) assumes that
the acquire timeout expires, that a call which has its connection goes on, and that a
session that was let go of is returned. It assumes nothing of the database: neither
that a connection comes up nor that a statement is answered. `NpmWrapper` assumes
that a launch goes on, and nothing of the network: `OpenArchive`, `Receive` and
`Abort` are not fair, and `LaunchEnds` names the launch that waits for them.

## Where the code and its documentation differ

* `ChecksAnswer` (`policy.rs:86`, `:111`): a reload that removes the resolved key
  between the two locks makes the index panic. `PanicMeansKeyRemoved` shows that
  nothing else does.
* `DecidedByOnePolicy` (`query.rs:152`): a plan can pass half of its checks under
  the old policy and half under the new one, although the reload is described as
  atomic for subsequent requests. What still holds is
  `PlanCoveredWhileBuilding`.
* `PlanReadsListedTable` (`query.rs:157`): the key a name resolves to is used for
  the checks, the requested name for the SQL. What holds (`UndisturbedBuildIsExact`) is
  that the name in the SQL is a key of the policy, or is unqualified and stands by the
  policy's rule for the one key that everything else was checked under.
* A `value_to` beside an operator other than `between`: `docs/mcp-tools.md:141` says
  it is "required for `between`, ignored otherwise", but `convert_filters` passes it
  on (`mcp.rs:375`) and `build_filters` refuses it (`query.rs:319`, `:332`, `:345`), so
  the client gets `invalid_request`. `WellFormed` in QueryBuild is the documents' rule,
  not the code's (which is `FilterShape`), and `UndisturbedBuildIsExact` states the
  difference: of the well-formed requests that the policy admits, exactly those with
  `StrayValueTo` are refused. The run has such a request; without this exception in
  the property TLC finds it refused.
* `EveryCallIsAudited` (`mcp.rs:194`): malformed calls leave before the audit.
  `AuditTellsWhatWasSent` is what holds: whatever reached the database is audited.
* `UnknownProfileStartsDenied` (`main.rs:125`): the policy of an unknown profile
  falls back to deny-all, but its connection does not and ends the start, although
  `docs/configuration.md:129` has it start with a deny-all policy. What holds is that
  no server begins with an unknown profile (`OneProfileRules`).

Beyond these the models show behaviour that no document speaks of, or that the
models abstract from:

* Two first launches of the npm wrapper share a cache. One can rename the file that
  the other's tar is still writing; if that other one is then interrupted, a partial
  binary stays at the cached path and every later launch runs it, since
  `ensureBinary` only looks whether the path exists
  (`copilot-datagate.js:92`). `BrokenBinaryTakesTwo` says that nothing less does it.
* A download that breaks off after the response has begun settles no promise
  (`copilot-datagate.js:74-77`): node exits with nothing said (`Abort`, "vanished").
  An error of the file (`:77`) does reject the promise, and the launch fails.
* An interruption of a launch (`Stop`) takes a running tar with it, as one from the
  terminal does. A tar that outlives a node killed alone is not modelled.
* The tools that `mcp_transport.rs:44-78` serves have no audit log, limiter or metrics,
  while `docs/configuration.md:150-155` describes `RATE_LIMIT_REQUESTS` and
  `AUDIT_LOG_PATH`; only the start itself is audited.
* Plans are written in the dialect of Postgres; SQLite replaces `ILIKE`
  (`sqlite.rs:68`), MySQL runs the text as it is (`mysql.rs:70`).

## Proofs

The assumptions are the named `ASSUME`s of the modules: a positive quota and
window, finite sets of calls and requests, natural-number limits, and sentinel
values distinct from real ones. TLC evaluates them in the runs.

`RateLimiterProofs` proves `TypeOK`, `QuotaPerWindow`, `WindowsAreDisjoint`,
`RejectionsAreEarned` and `WindowOnlyAdvances`. None of these is inductive: that
a full window stays full needs the stored count to be the number of allowed calls
of that window (`CountMatches`), and that a late caller cannot open a second
window over an old one needs every decided window to be no later than the stored
one (`NoLaterWindow`). `IInv` adds these two. `CurrentEntryShape` describes what
the operator returns, and each action then has its lemma.

`BurstBound` is about real time, for which `TimingInv` keeps how far stamp, window
and decision of a call lie apart: a window that decides between t and t + W - 1
began at most W + D - 1 ticks before t. Windows are W apart (`WindowsAreDisjoint`),
so cutting the stretch of possible starts into pieces of length W leaves at most
one window in each (`Pieces`), and `GroupsBound` counts: a set that falls into
q + 1 groups of at most m elements embeds into a product of intervals.

`QueryScriptProofs` says what a script consists of, whatever its order: for each
tool the set of its steps, that every step asks about something in its request
(`StepAsks`), that together they ask about all of it (`ScriptCovers`), and that a
script whose own checks all hold belongs to a well-formed request without a stray
`value_to` (`AllOkMeansBuildable`). `QueryBuildProofs` proves the five properties of
QueryBuild from it, for any policies, requests, builds and number of reloads. The
properties speak of builds that have ended, the actions see one consultation, so
`BuildInv` says what a build at step n of its script knows: of every earlier step,
that its own check holds and that a policy met since the build began passed the
consultation (`PassedBefore`, `Consulted`); that a resolved key was the key of a
policy met by then; and that the placeholders written so far number the binds and
stand for the values of the filters passed so far (`Aligned`, `FilterValues`).
Consultations name the policies by their place in the history, which reloads only
append to, so a reload keeps all of it. At `Finish` the build has passed every
step, and `ScriptCovers` turns that into a statement about the request; with no
reload the policies met are one, and the statement becomes an equivalence.

`MetricsProofs` proves the five properties of Metrics. `CountersCount` says that
each counter is the cardinality of the set of recorders that have incremented it;
the balance at rest is then about disjoint sets, and `SnapshotSaw` (what a
snapshot has loaded is at least what it sampled) follows because a recorder's
increments precede its push. The step lemmas are about one recorder moving; the
registry appears as a part of Gateway by the same lemmas.

`GatewayProofs` proves every safety property of Gateway and that it implements
GatewayContract, for any number of calls, policies and reloads. `GatewayInv` is
the registry's invariant together with, per handler, what its place implies:
queries sent (`CallShape`), lines audited (`AuditShape`), limits checked
(`OutputShape`) and outcomes recorded (`RecordShape`). Since every step moves one
handler (`OneHandlerMoves`), the other handlers' conjuncts are preserved once and
for all. `ContractKept` shows each step to be a contract step or a stutter.

`StartupProofs` proves the eight safety properties of Startup for any files, environments and
number of inits. `PolicyInv` says that the server's policy is the one that the
profile of `server.read` selects, and that this content is one its path has had;
`FileInv` keeps the file equal to the last entry of `past`, and `ConnectionInv` ties
connection and backend to what the start read (`server.begun`, which reloads leave
alone). `UnforcedInv` is what an unforced init needs: while an existing file is
there, no command gets past its check.

`OutcomeInv` adds what a start comes to. `PoolInv`: a connecting server has read a
complete backend (`ResolvedBackendIsComplete`), and a serving one found its pool
usable, which for a role that must read as a number leaves unset and good.
`VerdictInv`: the start has read nothing yet, or it ended with a refusal if and only
if its verdict on what it read is one. `DoctorInv`: doctor's note is its diagnosis of
what it read. Verdict and diagnosis are functions of content and environment, and
the environment stays (`JudgementsStay`), so that a doctor and a start that read the
same content agree although they ran at different times (`DoctorForetells`).

`ProfilesByRank` (MetricsProofs) starts from `PercentileByRank`: the index
`(n*p-1)/100` into n sorted values is inside and has the nearest rank, for every n
and every p from 1 to 100. `Sorted` is some ascending arrangement of the values; that
there is one (`ArrangementExists`) needs no induction, since the number of values that
come before a value, ties broken by position, is a permutation of the places. How many
values are at most a bound does not depend on the arrangement
(`PercentileOfArrangement`).

`SchemaCatalogProofs` proves the safety properties of ConnectionPool and
SchemaCatalog for any number of slots and calls, and that the pool implements
BackendContract. `PoolInv` adds to the type invariant when a call has a session and
how often its statement has run by then (`Fits`), which status of the session fits
the place of its call (`Serves`), and that a session which serves or idles has been
set read-only (`SetReadOnly`). `CatalogInv` adds that what a finished query has found is right about
every relation that is still stable (`RightAbout`): a change takes away what it
touches from `stable`, and the queries read whatever is there, so the parts of the
catalogue agree on it although they were read at different times.

`NpmWrapperProofs` proves the type invariant, `LeftoversDoNoHarm` and
`BrokenBinaryTakesTwo` for any number of launches and parts. Its invariant ties the
parts that a launch's tar has written to its place, says where each launch's file can
be, and that for a launch alone archive and nested file are its own.

Every safety property and action property of the passing runs is proved, and so are
both refinements. Only model-checked: `CallsEnd`, `StartEnds`, `CallsLeaveThePool` and
`LaunchEnds`, because liveness under fairness is out of the prover's reach; and that
the five disagreements of the `violation` runs are reachable, which takes a behaviour
and not a proof. Safety is proved of `Spec` with its fairness, which the proofs do not
use.

## Not modelled, and why

* A handler that is dropped while it waits (the transport cancels a request), and
  the `internal_error` of a response that cannot be serialized: neither leaves
  state behind that another call reads, except a missing metric.
* The panic of a build is modelled as the end of its handler. Mutexes are not
  poisoned by it: a read guard does not poison its lock, and a build holds no
  other.
* `saturating_add` and `u32::try_from(..).unwrap_or(u32::MAX)` in
  `query_complexity` and the output size: out of reach of the lists and responses
  that fit in memory under the shape limits of `mcp.rs`.
* What `main` builds and drops: a metrics snapshot, a performance profile, a rate
  limiter that nothing is attached to.
* Startup reads a file as a whole. A reader that catches init between truncation and
  the end of the write finds the empty file; the text itself is short enough for one
  write. An environment that changes while `main` runs is left out: nothing in the
  process sets a variable.
* Partial lines in the audit file, SQL text, logging, CLI parsing, JSON
  conversion of rows (only that it may fail), the benchmark and packaging metadata.
* `main` calls no `reload`; Gateway models the library's runtime, in which a host may.
* A caller that is dropped while it waits for a session, and the closing of the pool
  with the process. The lists of indexes, constraints, triggers, routines and
  sequences: they are kept as their queries return them.
* The redirects of a download, the names of archives and platforms, and Windows,
  where a file that is being written cannot be renamed.

## Plan

Done: RateLimiter, Policy and QueryBuild, Metrics with its percentiles, Gateway with
its contract and the wirings of its tools, Configuration and Startup, ConnectionPool
with its contract, SchemaCatalog, NpmWrapper, and the proofs above, which now state
every safety property that a run checks. Next, in this order:

1. What the liveness properties rest on, as far as it is safety: that a handler which
   is under way has an enabled step of its own (stated without ENABLED, by the guards),
   for Gateway, ConnectionPool and NpmWrapper.
2. That Gateway's build step allows every verdict QueryBuild comes to, as a theorem
   about the two modules' invariants.
