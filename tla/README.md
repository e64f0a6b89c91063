# Formal model of systemlens

systemlens indexes a Java/Spring repository into a local SQLite database
(`.systemlens/findings.db`) and derives from it endpoints, architecture
relations and interprocedural flows. This directory holds TLA+ modules for the
parts of the program whose correctness depends on an order of events: TLC
checks them on small instances, TLAPS proves the results listed below for every
value of the constants.

## 1. Inventory

| Part | State it keeps | Operations | Hard behaviour |
|---|---|---|---|
| Index run (`indexing/service.py`) | hashes, delta, resume checkpoint, all in memory | `index_repo`: discovery, inventory, delta, purge, extraction, decision to run the flow stage | files change while it runs; it dies anywhere; the next run must repair |
| Call-graph stage (`indexing/call_graph_stage.py`) | flow rows and six status rows, through the store | provisional snapshot, engine, checkpoints, final reconciliation | commits in the middle of its work; engine deadline; resume from a checkpoint |
| Store (`storage/sqlite.py`) | the database, the write lock | `transaction`, `commit_checkpoint`, rollback, one `replace_*` per table | the lock is free for an instant at each checkpoint |
| Call-graph join (`indexing/code_flows.py`) | cursor over input methods, flows found | `materialize_call_graph_flows`, merge, reconciliation | bounded search with cycles; batches at time-dependent places |
| File inventory and delta (`indexing/file_inventory.py`, `scanner/rest_inheritance.py`) | none of their own; hashes, markers and identities of the last index | hash inventory, files to extract again | three expansion rules applied one after the other; facts of a file that did not change |
| Build layout (`discovery/build/projects.py`) | none | projects of a repository, their identities, what is excluded, who owns a file | declarations found in any order; an identity depends on all the others |
| Parse cache (`discovery/java/parser.py`) | parsed files of the run | `parse_java`, `clear_analysis_caches` | an entry is never checked against the file again |
| Engines (`engines/codeql`, `engines/joern`) | cached analyzer database and its stamp | open, calls, methods, payload types | crash between two file operations, deadline |
| External processes (`indexing/source_generation.py`) | child process, its group, timer, output | `run_with_progress`, one deadline per phase | the timer races the end of the process; a descendant keeps the output open |
| Flow calculation (`application/flow_calculation.py`) | none | `flows calculate` over the persisted call graph, whole or one module | runs at another process's checkpoint; leaves signature and status as they are |
| Graph facts (`application/graph_facts.py`) | facts by namespace | import, complete-manifest deletion | rewrites flows outside an index run |
| Topology (`render/graph.py`, `indexing/code_flows.py`) | relations, status of flows | links between services, reconciliation, links rebuilt by an export | three constructions of the same links must agree |
| Flow consistency (`application/flow_consistency.py`) | none | stale-read diagnostic of a call graph | orders two effects by source lines where the program runs them concurrently |
| Runtime observations (`application/runtime_observations.py`) | bounded history of collections | add, prune, report | pruning at the limit; collections stored late; a report reads between commits |
| Projections, exports, web, viewer, CLI | none of their own | read the committed index | may read between two commits |
| Extraction (`scanner/`, `indexing/java_symbols.py`, `discovery/build`) | analysis caches | recognise Java, Spring, Kafka, Maven, Gradle | sequential; breadth of syntax |

How they interact: the CLI opens a `Store` and calls `index_repo`, which holds
one transaction for the whole run. The run calls discovery and the extractors,
which share the parse cache, then the call-graph stage. The stage opens an
engine, joins its calls into flows, and calls `commit_checkpoint` of the store
in the middle; at each of these commits other processes (a second index, an
export, the web server, `flows calculate`) see the database, and a writer among
them may take the lock. Progress callbacks run between a checkpoint and the
next step. What each part must guarantee:

- run and stage: a snapshot that says it is current is exactly that of the files;
- store: what is visible between commits is explicitly partial, and never newer
  in one table than in another;
- resume: skipping done work loses nothing and keeps nothing of other work;
- delta: an incremental run leaves what a full one would;
- parse cache: facts belong to the content whose hash is recorded;
- engine caches: a stamp vouches only for the database it was written for;
- external processes: exactly one outcome, and the child is gone afterwards;
- join: every path within the bounds, each once, and no other;
- flow calculation: over a settled index it changes nothing;
- topology: a link is drawn where a request can go, the same one by index,
  calculation and export;
- flow consistency: a read an execution can show stale is reported;
- history and namespaces: what is deleted is what nothing else refers to.

The hazards behind these, each at its line of code, are listed in
`PROJECT.json` with the properties that cover them.

## 2. Modules

| Module | Content |
|---|---|
| `IndexRun` | the index run, the call-graph stage, the transactions and checkpoints, files that change, crashes, deadlines, several processes |
| `PublishedSnapshot` | the abstract promise to readers: complete and exact, or explicitly partial |
| `MCIndexRun` | names for the constants of the TLC instances |
| `EngineCache` | the database of CodeQL or Joern that is kept between commands, its stamp, the file operations that replace it and the sessions that query it |
| `MCEngineCache` | names for the constants of the TLC instances |
| `EngineCache_proofs` | the cache is sound when only index runs use it |
| `FlowJoin` | the search of the call graph from one entry method, the grouping of its routes into flows, reachability rows, the last deduplication |
| `MCFlowJoin` | the methods, classes, modules and calls of the TLC instances |
| `FlowJoin_proofs` | the search records only routes the program can take, misses none within its bounds, and its work is linear |
| `EngineSession` | the external commands of one index run: process groups, timer, reader, deadlines of the phases |
| `MCEngineSession` | names for the constants of the TLC instances |
| `EngineSession_proofs` | one outcome, only whole answers, nothing left of a command |
| `FlowCalculation` | extends `IndexRun` by `flows calculate` and the persisted call edges |
| `MCFlowCalculation` | names for the constants of the TLC instances |
| `Routes` | matching and ranking of REST routes (pure operators) |
| `Topology` | links between services as the index, `flows calculate` and an export build them, and the status of flows |
| `MCTopology` | the inventories of endpoints and facts of the TLC instances |
| `StaleReads` | the stale-read diagnostic beside all executions of a program |
| `MCStaleReads` | the programs of the TLC instances |
| `RuntimeHistory` | observers that store collections, the bounded history, a report that reads meanwhile |
| `MCRuntimeHistory` | names for the constants of the TLC instances |
| `RuntimeHistory_proofs` | every commit holds exactly the rows of its recorded collections, the newest ones of each source and no more; a report only goes forward |
| `BuildLayout` | which directories are Maven projects, their identities, the directories left out, the owner of a file (pure operators) |
| `Delta` | which files an incremental run extracts again, and the facts they then have |
| `MCDelta` | the repositories and the edits of the TLC instances |
| `Topology_proofs` | matching, dispatch and exported links agree with the requests and the indexed links |
| `Delta_proofs` | modules, settings and routes are current after every run; a build has the projects it declares |
| `FlowCalculation_proofs` | of the index run: type correctness, signed snapshots, facts that match their hash, no flow of a deleted file, a settled snapshot is exact, every step is one of `PublishedSnapshot`; resumes lose no flow and take back no progress, alone and beside calculations; a calculation over a settled index agrees with the index run |
| `StaleReads_proofs` | for every program of the shape the diagnostic supposes, a stale read is diagnosed and a reported risk is behind its own publication |

### State of `IndexRun` and the code

| Variable | Code |
|---|---|
| `tree` | the source files; a content is a version number, 0 is an absent file |
| `db` | the committed database: `hashes` is table `files`, `facts` the content the endpoint rows were extracted from, `flows` table `code_flows`, the others the rows of `meta` |
| `work` | the database as the open transaction sees it |
| `lock` | the process between `BEGIN IMMEDIATE` and the commit |
| `run[r]` | local variables of `_index_repo` and `run_call_graph_stage`: `hash` is `current_hashes`, `view` the parse cache, `joined` and `cursor` the flows and the offset of the join, `calls` whether the engine's call set was cut, `page` the projects the progress export has reported |
| `edits`, `troubles` | counters of the environment's bounds |

One run is the sequence of actions `Begin` (lock, caches cleared, discovery),
`Inventory` or `Refuse` (hashes; resume validated), `Extract` (purge, scan,
hashes recorded), then `Skip`, or `StageStart` (`_mark_flow_snapshot_in_progress`
up to the start of the engine), `CallGraphCheckpoint`, any number of
`JoinCheckpoint` and `ProgressCheckpoint`, `InputOutputCheckpoint` and `Finish`.
Every checkpoint commits and frees the lock; `Reopen` takes it again, `LockLost`
is the `StoreLockedError`. `Stop` is a crash, an I/O error or an error of the
engine or of the export: the transaction rolls back. `Edit` changes a file.

A flow is a record of what it was computed from (`src`), its entry, its engine
signature and whether its call set was cut. This is what the properties tell
apart: routes, steps and identifiers are not represented. A file stands for one
input method. A join batch may end after any entry, because the code ends one
after 25 entries, 5000 transitions or 5 seconds.

Abstractions a reader should know: the inventory hashes all files in one step
and extraction reads each changed file once; the delta is the set of changed and
deleted files without its expansion; every deleted file takes with it all flows computed from it
(`_mark_flow_snapshot_in_progress` decides flow by flow, from their paths);
the runs never pass an explicit engine or refresh one module's view; the
resume's tolerance for changed presentation files is not modelled, since such
files have no facts. The engine reads the files through the same view as the
extractors (the source engine parses through the shared cache; an external
analyzer copies the files at its start).

### State of `EngineCache` and the code

| Variable | Code |
|---|---|
| `sources` | what `project_java_sources` would copy now; its value also stands for its fingerprint and for the answers of a database built from it |
| `cached` | `.systemlens/codeql/java-database` or `.systemlens/joern/cpg.bin`: what it was built from (`of`) and whether all of it is there (`whole`) |
| `stamp` | `java-database.fingerprint` or `cpg.fingerprint` |
| `lock` | the store's write lock, held by an index run for as long as its session is open (no checkpoint falls inside one) |
| `engine`, `crossDevice` | whose cache it is, and whether `shutil.move` leaves the file system; chosen at the start |
| `run[r]` | `fingerprint`, the database in the temporary directory (`database`, `built`), the path that was yielded (`at`), the last answer |

`Project` copies and hashes the sources, `Reuse` and `Miss` are the lookup,
`Create` the analyzer. CodeQL then takes `RemoveStamp`, `StartRemoval`,
`EndRemoval` (`rmtree`), `Move` (a rename, or across file systems a copy that
`EndCopy` ends and `Cleanup` follows) and `WriteStamp`; Joern takes
`RemoveStamp`, `StartCopy`, `EndCopy`, `WriteStamp`. `KeepWhereItIs` is the
`except OSError`, `Query` one query of the session, `Stop` a crash, a failing
analyzer or its deadline. The processes are index runs, which hold the lock,
and `analyze compare-engines`, which does not. Copying and hashing the sources
are one step: the copy is private and hashed after it ended. An analyzer that
reports success without a database is left out, and so is a process that an
operation of another one makes fail, beyond `KeepWhereItIs` and `Stop`.

### State of `FlowJoin` and the code

| Variable | Code (`materialize_call_graph_flows`) |
|---|---|
| `calls` | the adjacency of the call graph; every subset of `Pool` is an initial state |
| `queue`, `visited` | the deque of routes and the set of method/confidence states |
| `route`, `todo` | the route of the popped state and its `eligible_targets` not yet followed |
| `explored` | the counter of transitions |
| `flows` | `flow_groups`: for each pair of ends and status the distinct routes; the representative is the least of them, in the order of `record_flow` |
| `direct` | `direct_flows`, the flows of reachability rows |
| `published` | the list that is returned |

`Start` records the outputs of the entry itself, `Pop` takes a route, records
the data access of its last method and computes the calls to follow, `Follow`
and `FollowCycle` are the two sides of the cycle test in the loop over them,
`UseRow` is one reachability row, `Return` the last lines. The code follows the
calls in the order of their places; the model allows every order. Any row may
come, true or not. The trigger is one with an endpoint identifier: for a
scheduler, which has none, the test for pairs already joined compares nothing
(line 1855), so `RowsAddNothing` says nothing about scheduled entries.
`Ancestors` is reflexive, as `JavaSymbols.ancestors` is; the rule for a join
without source symbols (`entry_dispatch_allowed`) is not modelled.
`IndexRun` takes the result of this search as one step for each entry.

### State of `EngineSession` and the code

| Variable | Code |
|---|---|
| `options` | engine, generating roots, cached database or not, and whether the output is streamed; chosen at the start |
| `now`, `deadline`, `due` | `time.monotonic()`, the deadline of the phase (source generation, engine session), the end of the running command's `remaining_timeout` |
| `at` | the command of `Commands(options)` that runs: Maven or Gradle per root, `codeql database create`, `codeql query run` and `bqrs decode`, `joern-parse`, `joern-export` |
| `pc`, `raised` | control of `run_with_progress` and the exception on its way out |
| `timer`, `expired` | the `threading.Timer` of a streamed command and the flag of `expire()` |
| `child`, `status`, `member`, `stray` | the command, another process of its group, a process that left the group and kept the standard output |
| `cut` | was a process killed before its output was whole? |
| `calls`, `result` | whether the stage has the calls; complete, partial, aborted or failed |

`Start` is `Popen` with `start_new_session` and the timer, `EndOfOutput`,
`Wait`, `CheckExpired`, `CancelTimer`, `JoinTimer`, `StopGroup` and `Reap` are
the reader from its loop through the `finally` block; `LimitReached` is the
`TimeoutExpired` of `communicate()`. `Fire` and `TimerKill` are the timer's
thread, between any two steps of the reader. `Interrupt` is an exception of
the progress callback or Ctrl-C. A command may close its output early, fail, or
never end. The query for the payload types of strategy1 and the decoding of rows
are never streamed (`Silent`); the other commands are, when progress is asked for.
Which roots generate sources and whether a database is cached are inputs; what a
query means is left out. So is a group number that the system gives to another
process between the reaping of a command and the last `stop()`.

### State of `FlowCalculation` and the code

The variables of `IndexRun`, `edges` (the `call_edges` rows: the tree they come
from, whether the engine was cut, the limits) and a counter. The steps of the
index run are those of `IndexRun`; `PersistEdges` and `FinishRun` add what they
do to the edges. `OpenCalculation`, `Calculate` and `AbandonCalculation` are one
`flows calculate`: it takes the lock where an index run has freed it, rebuilds
the flows of all modules or one from the stored endpoints, methods and edges and
from the files on disk, keeps the other modules' flows whose endpoints exist,
and leaves all rows of `meta`. Each file is a module. The progress export is off
here; what facts add is in `Topology`.

### State of `Topology` and the code

| Variable | Code |
|---|---|
| `endpoints` | rows of `endpoints`; the evidence that the code finds in a snippet is a field |
| `facts` | the accepted event facts |
| `relations` | the rows of `architecture_relations` between services |
| `status` | the topology status of each flow |
| `calculations` | counter of the bound |

`Index` is the last part of an index run: `build_graph`, the relations and
`reconcile_code_flows`. `ImportFacts` leaves a set of facts, `Calculate` is
`flows calculate` over them. `EdgesFromRelations` is what exports show. `Routes`
holds the rules of one route: segments are literals, templates and `**`, methods
may be `ANY`. The reference for both is what a request is: a list of literals. A
route accepts it segment by segment (`Fits`), and a dispatcher prefers, as ADR-77
says, a route without `**`, then one that names more of the request (`Narrower`,
which compares the segments that are left open and not their number, so that two
routes which each name something else are not ordered), then one with an explicit
method. Strategy1's target policy and relations that are not between services
are left out.

### State of `StaleReads` and the code

`program` is a set of sites in handlers (a call, a publication, a write or a
read, at a line of the handler or inside a helper), `verdict` what
`_call_graph_stale_reads` says of it on the flows the index would hold,
`threads` and `seen` an execution: a REST call runs inside its caller, a
publication starts a thread. A thread is its stack of handler runs, the innermost
last, each with the places it has still to pass, and it goes on in the last run
that has any left (`Active`). `Order`, `SiteOrder` and `BranchVerdict` are the
comparison of two departures and the decision on one pair of a write and a read.
The diagnostic is a pure function and is computed
once, at the start; the steps are those of the running program, and the
properties compare the two. The endpoints of a handler, the paths and the
branch labels follow `code_flows.py`, `call_graph.py` and
`flow_consistency.py`.

### State of `BuildLayout` and `Delta` and the code

| Variable | Code |
|---|---|
| `tree` | the repository on disk: for each path its content, or `None` |
| `index` | `content` is table `files`, `facts` what was extracted of each file (module identity, settings read, request mappings), `identity` the persisted `module_identities` |
| `fresh`, `edits` | no edit since the last run; counter of the bound |

`BuildLayout` has no state: `MavenProjects` is the loop of `_maven_projects`,
whose passes are counted instead of watched for a change (as many as directories
are enough, which is proved), and
`Layout` is `build_layout`, `Owner` and `Indexed` say who owns a file and
whether it is in the inventory. `Index(full)` is the part of `_index_repo` from
the delta to the stored hashes: `Rescanned` starts from changed and deleted
files and applies `Dependents` (build files and configuration), `LinkedTo`
(inherited mappings, by the persisted `Markers` and the current `Links`) and
`OfChangedModules`, each over the result of the one before. `Edit` changes,
adds or deletes one file. What a file means is reduced to what these rules are
about: `MappingsOf` is the mapping extractor with its inheritance, `Settings`
the configuration files a lookup reads, `Module` the owner's identity. Gradle
builds, strategy1, `@Value` fields of other files and the catalogue of
`kafka.yml` are left out; a type has one supertype. `IndexRun` takes the delta
as the changed and deleted files alone.

Two restrictions of the instance are limits of the code and not of the model.
With `OutsideInputs = FALSE` every file that is read is itself indexed: a
workspace without a root descriptor is indexed below its builds only, and a
configuration beside them is read and never hashed. And links are of one level,
as the documentation says ("The rescan stops at those direct partners").

### State of `RuntimeHistory` and the code

| Variable | Code |
|---|---|
| `db`, `work` | tables `runtime_collections`, `runtime_observations`, `runtime_error_groups`: committed, and as the open transaction sees them |
| `lock`, `job` | the write lock, and where each `systemlens observe` command is: queried, writing, pruning |
| `now`, `batches` | the clock a collection reads at its start, and a counter |
| `report` | what `observe report --compare-previous` has read and its next statement |

`Collect` queries a backend without the lock, `Begin`, `Write`, `Prune` and the
commit follow; an observer may fail anywhere. Legacy rows are those of an index
that was written before the history existed. Each `SELECT` of the report is a
step, since it opens no read transaction.

## 3. Runs

All runs are exhaustive. Deadlock checking is on, except where the commands or
the execution that is modelled really end: `RuntimeHistory`, `Topology`,
`StaleReads` and `Delta`. Each run's module is the `MC` module of its specification
(`FlowCalculation` for that of `IndexRun`).

| Run | Instance | Shows |
|---|---|---|
| `IndexRunSingle` | 1 process, 2 files, 2 edits, 2 troubles, engine or none, deadline, export, fairness | type, signed snapshots finished, facts current, settled snapshots exact, no deleted file in flows, refinement of `PublishedSnapshot`, and under fairness indexing always settles again |
| `IndexRunWriters` | 2 processes with resumes, edits between runs | writers that alternate and resume each other's join keep every checkpoint's prefix and settle without losing a flow; that nothing stale is left without resumes is `SettledIsExact`, for any number of processes |
| `FlowCalculation` | 1 run with resume, 1 calculator, 2 files, 2 edits, 2 troubles, 2 calculations | a calculation at any checkpoint loses no flow and breaks no resume; over a settled index it gives the index's flows back |
| `EngineCacheIndex` | 2 index runs, either engine, move by rename or across file systems, 3 sources, 2 edits, 2 troubles | stamps vouch, answers belong to the projection, a database is always found |
| `EngineSession` | both engines, up to 2 generating roots, timeout 2, helper processes inside and outside the group, interrupts | only whole answers are used, a deadline is no failure, nothing outlives its command, limits end with the phase, the pass ends |
| `Delta` | 6 repositories of 4 directories, 2 edits, incremental and full runs in any order | routes, modules and settings are those of a scan of the whole repository; a build is laid out as its declarations say, in whatever order they are found |
| `FlowJoin` | 7 methods, every subset of 12 calls, 3 hops | routes are sound and complete within the limit, the best confidence wins, work is linear, rows add nothing |
| `Topology` | all inventories of one or two routes of up to 2 segments from 2 literals, 2 templates and `**`, pairs of 3 segments; 4096 inventories of calls, contracts, gateways, manifests and topics | matching agrees with the requests both routes accept, a complete flow goes where the dispatcher sends it, an export shows the indexed links |
| `StaleReads` | the programs of the shape `Decided` with 2 handlers below the root, in their own methods and in helpers, and with 3 in their own methods; started by a request or a message | a stale read has a diagnostic; a reported risk is behind its own publication |
| `RuntimeHistory` | 2 sources, one groups errors, 2 observers, depth 2, 3 collections, 3 seconds, 1 report | commits hold whole collections, the depth is kept, only the oldest leave, a report never goes back in time |
| `IndexRunCutResume` | deadline, crash | violation: flows of a cut call set are committed as resumable |
| `StaleReadsBetween` | a helper called between two effects of its caller | violation: a read behind the helper's publication has no diagnostic |

More instances are kept for reading and are not part of the regular runs. TLC
finds each property violated. The last column is the sentence of the repository
that the counterexample contradicts, where there is one:

| Instance | Counterexample | Against |
|---|---|---|
| `IndexRunStaleSeed` | a resume at entry 0 publishes flows of the former snapshot | docs/ADR.md:659-679, "The final reconciliation replaces the provisional flows" |
| `IndexRunCheckpointFlags` | the input-output checkpoint is committed as complete | docs/spec-tech/persistence.md:107-112, "marked `code_flow_snapshot_status=partial` without a code-flow signature" |
| `IndexRunStaleWriter` | an edit in the gap of a checkpoint: old flows are signed over a newer inventory | docs/spec-tech/persistence.md:107-112 |
| `IndexRunEarlyParse` | discovery parses before the inventory: hash of the new content, facts of the old | docs/spec-fonc/incrementality.md:6-7, "A normal run parses added or changed files" |
| `IndexRunRevert` | the hash of a content that came back, the facts of the one before it | the same |
| `IndexRunHtmlResume` | a resume after a project checkpoint publishes too few flows | docs/spec-tech/data-model.md:755-768, "can therefore skip completed IN methods" |
| `FlowCalculationLimits` | a calculation with other limits leaves the signature of the old ones, and the next index skips the stage | docs/spec-tech/indexing.md:292-293, docs/spec-fonc/cli.md:17 |
| `FlowCalculation` with `Reverts = TRUE` | an edit after the index, taken back after a calculation: the flows of the edit stay | the same |
| `EngineCacheCompare` | a comparison replaces the database another session queries | docs/spec-fonc/cli.md:371, "It persists nothing" |
| `EngineCacheStaleStamp` | a stamp beside the database of the other process | docs/spec-tech/indexing.md:162-163, "leaves no stale stamp" |
| `EngineCacheHalfMoved` | the half-removed temporary database is queried | docstring, engines/codeql/database.py:244, "return where it now lives" |
| `EngineSessionGeneration` | a deadline while sources are generated aborts the index | docs/spec-fonc/cli.md:413, "A timeout is a soft boundary for the index" |
| `EngineSession` with invariant `OneBudget` | generation and engine have a budget each | docs/spec-fonc/cli.md:405-407, one budget "including source generation" |
| `EngineSessionEscape` | a process that left the group keeps the output open: the pass never ends | docs/spec-fonc/cli.md:409-412 |
| `FlowJoinCycles` | two methods that call each other, both called by the entry, have no cycle flow | docs/spec-tech/algorithms.md:60, "The traversal keeps call direction, source evidence, ambiguity, and cycles" |
| `FlowJoinAlternatives` | after the second grouping a flow counts the survivors of the first | docs/spec-tech/data-model.md:739-742 |
| `TopologyExport` | two sites of one call collapse into the first | docstring, render/graph.py:783-785 |
| `TopologyWildcards` | of two `**` routes the less specific one is taken | docs/ADR.md:1832-1834 |
| `TopologyAlias` | a call that no route matches loses its link when it names the service by an alias | docs/spec-tech/extraction-rules.md:504-507 |
| `Topology` with invariant `FactsDegradeNoFlow` | an imported fact turns a complete flow into a partial one | (none) |
| `RuntimeHistory` with invariant `ReportIsOfOneSnapshot` | observations and errors of two collections in one report | docs/spec-tech/indexing.md:147 |
| `RuntimeHistory` with invariant `ComparesWithOlder` | a collection stored between two statements of `observe report --compare-previous`: the report compares a collection with itself | docs/spec-fonc/cli.md:501-504, "against the previous collection of the same source and interval" |
| `Delta` with `OutsideInputs = TRUE` | a configuration beside the builds of a workspace changes, and the files that read it keep its old values | docs/spec-fonc/incrementality.md:9-10, "Root-level or ambiguous inputs force a full refresh" |
| `Delta` with `Contents <- Redeclared` | a controller that redeclares all mappings of its interface goes, and the interface is left without routes | docs/spec-fonc/extraction-rules.md:195-196, "The declaring type keeps its mappings only when no inheritor is indexed" |
| `Delta` with `Contents <- PrefixOnly` and 3 edits | the prefix of an interface that maps nothing changes, and its controller keeps the old one | docs/spec-fonc/extraction-rules.md:191-194, "the first inherited one" |

The regular instance of `StaleReads` takes the programs that `Decided` describes,
and each part of that description is needed. With `Programs <- Repeated`,
`Scheduled`, `OwnTopic`, `OneLine` or `Diamond` in its cfg, and in the run
`StaleReadsBetween`, `StaleReadIsDiagnosed` is violated: a departure made twice,
the flows of a scheduler (each a root of its own), a publication to a topic the
same service consumes, two departures on one line, a longer path beside the
shortest one, and a helper called between two effects of its caller. The first
five are limits of a static diagnostic; `OneLine` contradicts the docstring at
application/flow_consistency.py:150-152 ("Equal or cross-file sites remain unordered").
The last is an error of the comparison: the effects of a handler's own method
are one flow, so beside the flow of the helper the first steps that differ are
not the two departures, and the line of another effect decides. It also reports
a risk for a helper that reads before the publication (`RiskIsBehindPublication`
is violated by the same programs).

Bounds. Two files are enough for one entry to be joined while another is not,
and for a deletion beside a surviving file. Two edits give a content, its
successor and a deletion. Two troubles allow a crash during the repair of a
crash, or a crash after a deadline; each run counts them in `MaxTroubles`. Two
projects are the fewest for which the export drops flows. Two processes are the
fewest that alternate; their symmetry is used where no liveness is checked.
The options (`AllowResume`, `AllowTimeout`, `AllowProgressHtml`, `OtherLimits`, `Escapes`,
`ParseBeforeInventory`, `EditsDuringRuns`, `Reverts`) separate the causes: the
passing runs have off what a violation run shows to break the property, and the
violation runs have on only what they need. In `IndexRunSingle` files do not change
during a run; its instance with `EditsDuringRuns = TRUE`, `ParseBeforeInventory = FALSE`
and `Reverts = FALSE`, with the invariants `SignedSnapshotIsFinished`, `FactsAreCurrent` and
`NoDeletedFileInFlows`, also passes (439,370 states), and the theorems on these
three hold for it. A hazard that only an option of this kind reaches names in its
note the instance, or the theorem, that is about it.

The methods of the join are an entry, a template body that the entry's class
inherits, the step it calls with an override in the entry's class and one in a
sibling class, two helpers of a shared module and a method of another
application. The twelve calls are of all three kinds; together they have
cycles through the entry and beside it, a method that an inferred call reaches
before an exact one, two routes of different length to one output, and routes
of four calls that the limit of three must cut.

In the cache runs three sources are a database, its successor and a third that
is neither; two troubles are a crash or a failed operation during the repair of
another.

A timeout of two seconds lets a phase pass one deadline between two commands or
inside one; one second of slack lets the clock pass it. Two generating roots are
the fewest that share a limit. Three collections at depth two are the fewest of
which one must leave, and three seconds the fewest that order them all. Two
calculations allow one at a checkpoint and one over the settled index that
follows. In `Delta`, four directories with one inside another allow a project that is
declared from above, from beside or from below, two of one name, and one that is
excluded; two edits allow a change before or after a run that must keep what the
first run left, and two changes in one run. The six repositories are one declared
build, several builds in a directory, both with and without inheritance, a build
whose deepest module declares another, and overridden mappings.
Two routes of one service are enough for a tie or an inversion of
ranks; the number of segments (at most two and a `**`) is enough for each rule
to differ from the others. Two handlers already give a fork whose sides are a
publication and the handler itself or a call; a third puts a call before or
behind it, and helpers put the two sides into two flows of one handler.

`findings` in `PROJECT.json` quotes both sides of the violation runs. The
resume violations concern only `--resume-call-graph-join`; the other ones of the
index run need a second writer in the gap of a checkpoint or an edit during a
run; those of the cache need a comparison beside an index run, or a removal that
fails half way; those of the report need a collection stored between two of its
statements; those of the join, the topology and the stale reads need nothing but
the code that is indexed.

Fairness. Of `IndexRun` (`FairSpec`, used by `IndexRunSingle`): a started process keeps
taking its steps unless something stops it: weak fairness of `Advance(r)`. The
documents and the messages (`relancez systemlens index`) ask the user to run it
again after a failure: strong fairness of `PlainIndex(r)`, strong because a run
with other options may hold the lock from time to time. Nothing is assumed of
edits, crashes and deadlines, whose number is bounded. Of `EngineSession`:
the thread of the run, the timer's thread and the clock go on (weak fairness of
each), which the operating system gives. No command has to end, to say anything
or to close its output; only a process that left the group for a short while
(`Escapes = "briefly"`) ends by itself, and where it need not
(`EngineSessionEscape`) the pass does not end.

## 4. Proofs

Assumptions on the constants: `SizesAssumption` (naturals, at least one
project), `NamesAssumption` (`NoRun` and `NoSig` name nothing else),
`OptionsAssumption` (the options are Booleans). `EngineCache` has assumptions of
the same kind: names that are distinct, the two engines, Boolean options,
natural bounds; `FlowJoin` that the entry is a method, calls join methods and
are finitely many, and the hop limit is a natural; `EngineSession` that the timeout is positive;
`RuntimeHistory` that the depth is positive, that no observer is `NoOne` and
that the intervals and bounds are naturals; `BuildLayout` that the directories
are a tree, listed in the order of their depth, `Topology` that inventories are
finite, with paths whose wildcard comes last, and `Delta` that paths lie in
directories and repositories have the given contents. The sets of processes and
signatures are arbitrary, and so are the numbers of files, edits and troubles.

| Theorem | Statement | Argument |
|---|---|---|
| `TypeCorrect` | `Spec => []TypeOK` | `TypeOK` is inductive; one step per action |
| `SignedIsFinished` | `Spec => []SignedSnapshotIsFinished` | strengthened to `work` and to the phases between `StageStart` and `Finish`, where no signature may be in `work` while the lock is held |
| `FactsCurrentUnderEdits` | without early parse and reverts, `Spec => []FactsAreCurrent` | every version a run has read is at most the newest one, and a file whose recorded hash differs from its facts has since got a newer version, which the hash can never match again |
| `SettledIsExact` | without edits during runs and without resume, `Spec => [](SettledHasNothingStale /\ SettledMissesNothing)` | while a run is active its inventory and its view are the tree; `joined` is exactly the join of the first `cursor` entries; a signed `db` or `work` is exact for its own inventory |
| `StampIsSound`, `SessionsAreSound`, `SessionsHaveTheirDatabase` | without comparisons and failing removals, `[]StampVouches`, `[]AnswersAreOfProjection`, `[]OpenedIsThere` | whoever is not idle holds the lock, so all others are idle; while the cache is replaced there is no stamp, and the cache and the temporary directory hold what the phase says (`Replacing`); an open session has a whole database of its projection (`Serving`) |
| `SearchTyped`, `JoinIsSound` | `Spec => []SearchTypeOK`, `Spec => []NothingInvented` | `SearchInv`: queued routes are possible and simple, the calls to follow leave the end of the current route, and there is room for one; `AppendCall`, `AppendPossible` and `AppendSimple` say what one call more does to a route |
| `EngineSession_proofs!TypeCorrect`, `NothingIsLeft` | `Spec => []TypeOK`, `Spec => []NothingOutlivesItsCommand` | the group is empty from `StopGroup` on, and a timer that may still fire is there only before `JoinTimer`; by phases of the reader |
| `DeadlineIsNoFailure`, `WholeAnswers` | `Spec => []FailureIsItsOwn`, `Spec => OnlyWholeAnswers` | whoever killed a writer has set a flag first: the timer `expired`, the reader `raised`; the reader looks at the flag after it has reaped the command, so a kill it does not know of can only come after that and find nobody writing |
| `LimitsAreShared` | `Spec => []LimitsEndWithPhase` | `due` is now plus the lesser of the timeout and what is left |
| `RuntimeHistory_proofs!TypeCorrect`, `WholeHistory` | `Spec => []TypeOK`, `Spec => []HistoryIsWhole` | the committed tables and those of an open transaction are each whole at the phases where they can be committed; between `Write` and `Prune` the difference is the new collection |
| `DepthIsKept`, `NewestAreKept` | `Spec => []DepthIsBounded`, `Spec => OnlyTheOldestLeave` | `DepthInv`: the committed history is finite and within its depth, and what a transaction prunes is the committed history with one collection more, so a commit removes at most one, and then one with `Keep` newer ones (`CommitKeepsTheNewest`) |
| `ReportsOnlyAdvance` | `Spec => []PartsOnlyAdvance` | `AdvanceInv`: what the report has read was in the history once, and whatever left it since had newer ones that stay, so the newest of a source never gets older |
| `NoFlowOfDeletedFiles` | one process, or no edits during runs: `Spec => []NoDeletedFileInFlows` | `DeletedInv`: rows of `db`, and of `work` except just before the stage, are of files their own inventory knows; while a run is between its purge and its end, its view and its inventory know the same files |
| `RunsPublishSnapshots` | one process, without edits during runs and resume: `Spec => PublishesSnapshots` | the refinement of `PublishedSnapshot`: at every commit the database is exact for its files or says that it is partial (`SnapshotInv`, on top of the invariant of `SettledIsExact`); every other step stutters |
| `ResumesLoseNothing`, `SettledIsComplete` | `PlainRuns`: `Spec => []CheckpointHoldsItsPrefix`, `Spec => []SettledMissesNothing` | `ResumeInv`: a resumable checkpoint fits the inventory it was taken for and comes with the flows of the entries it counts; a seeded run holds the same; the join from a cursor completes the prefix (`JoinIsComplete`) |
| `ResumesAdvance` | `PlainRuns`, one process: `Spec => ResumeKeepsProgress` | `ProgressInv`: until the analysis is complete, the cursor of a resumed run is that of the committed join and of its own transaction |
| `CalculationsAgreeWithRuns` | no edits during runs, `SameEdges`, the limits of the run: `CalculationSpec => CalculationGivesIndexFlows` | `EdgeInv`: the persisted edges serve a signed index (`Serves`: they are whole, of its inventory and its engine, or absent where it has none), and they serve every run past its engine, which will sign; what a calculation builds from such edges and the files is what the run expects |
| `CalculationsLoseNothing` | `PlainCalculations`: `CalculationSpec => [](CheckpointHoldsItsPrefix /\ SettledMissesNothing)` | `CalculationInv`: the parts of `ResumeInv`, `EdgeInv`, and the edges serve a join checkpoint as they serve a signature (`JoinEdges`). A calculation leaves hashes, signature and checkpoint, and rebuilds what such edges give; a file that was edited since is an exception the invariant makes (`Owed`), which matters no more once the edit is indexed |
| `CalculationsKeepProgress` | `PlainCalculations`, one process: `CalculationSpec => ResumeKeepsProgress` | `ProgressInv` speaks of cursors only, which no step of a calculation moves |
| `JoinIsComplete`, `EntryCyclesAreFound` | `Spec => []NothingMissed`, `Spec => []EntryCycleIsFound` | `BreadthInv`, the invariant of breadth-first search: queued routes are in the order of their lengths and at most one apart (`QueueInv`); for every state of a level that has been taken there is a visited state no deeper and no weaker (`LevelInv`, `ClosedInv`); what is visited and taken has its flows (`FlowsInv`, `CycleInv`). When the queue is empty, every level up to the limit is closed (`Joined`), and the representative of a group is as sure as its surest route |
| `RowsAreRedundant` | `Spec => []RowsAddNothing` | a route that witnesses a row is within the levels of the search, whose end has its flow by `Joined` |
| `SearchIsLinear` | `Spec => []WorkIsLinear` | `WorkInv`: the calls followed and to follow are no more than the calls of states that have left the queue, each of which leaves it once |
| `ModulesStayCurrent` | `Spec => []ModulesAreCurrent` | the module of an indexed file follows from the persisted identities of the directories above it (`ModuleIsAbove`), which are all as before for a file that no rule extracts again (`SameModule`); of directories above one there is always a deepest (`DeepestIsInside`) |
| `SettingsStayCurrent` | with no input outside the index, `Spec => []SettingsAreCurrent` | each file has the settings of the configuration the index records; whoever reads a touched configuration is below the project that owns it (`ReadersAreDependents`) |
| `RoutesStayCurrent` | with no input outside the index and `OneLevel`, `Spec => []RoutesAreCurrent` | each type has the mappings that follow from the recorded files (`RoutesAreOfTheIndex`); the mappings of an heir name the type they are from (`HeirsAreMarked`), so a type that is not extracted again has no link, of the index or of the repository, to a touched one, and what it inherits and whether it is inherited are as before (`SameRoutes`) |
| `MatchingIsByRequests` | with `TemplatesAccept`, `Spec => []RoutesMatchSharedRequests` | a path is its fixed segments and perhaps the wildcard (`PathParts`, `FitsByPosition`); a request of both is built a position at a time from the literals the two segments there accept (`MatchesShare`) |
| `CompleteIsDispatched` | with `OneWildRoute`, `Spec => []CompleteMeansDispatched` | `LinksInv`: flows into calls have the status the index's own links give them, facts or not; a plain call has the links of the routes it selects and no other (`PlainCallLinks`), a fixed URL selects the accepting routes of the lowest rank (`SelectedByFixedUrl`), and who beats another has a lower rank (`BeatenIsRankedLower`) |
| `ExportsShowTheLinks` | `Spec => []ExportShowsTheIndexedLinks` | a link's source is evidence for the relation it is persisted as (`LinksHaveTheirSource`), so none is lost and none is added; a call alone on its line is its relation's only evidence (`SameRoutes`) |
| `StaleReadsAreDiagnosed`, `RisksAreBehindPublications` | every program `Decided`: `Spec => []StaleReadIsDiagnosed`, `Spec => []RiskIsBehindPublication` | `Inv`, below |
| `BuildsStayDeclared` | `Spec => []AggregatorsDeclareTheirBuild` | a kept directory is declared, or ungoverned with every descriptor above it kept before it (`Justified`, an invariant of the visits because they go by depth), so no governor found later can be above it; a pass keeps one more or changes nothing (`PassGrows`), so that as many as there are directories reach a fixpoint |

The proof about `StaleReads` has two halves. What the verdict is: in a tree of
calls each handler has one route (`RouteUnique`), which the path search finds;
the routes of the write and of the read part at one handler, and where `Decided`
holds the comparison follows the lines of the two departures there
(`OrderIsOfLines`, `VerdictSays`). What an execution may do: the write's chain is
the departures to it and the write itself, the read's chain likewise. `Inv` says
that at most one place of each chain is still to come and where (`Once`), and,
for every pair of places to come, how their threads and stack depths are related
by the fork: in one thread until the publication, afterwards with the
publisher among the causes of the thread that owes the write (`AllRelated`), with
the departures not yet made in the order of their lines; `seen` is then what the verdict allows (`SeenSays`).
`RelatedKept` and `OnceKept` are the steps, an action at a time. The invariant is
needed because neither property speaks of a place not yet reached. TLC checked it
on the instances of the run before it was proved.

Hypotheses. Beyond the assumptions on constants, a theorem assumes only options
and circumstances without which TLC finds the property violated, or which the
property is not about:

- no edits during runs (`SettledIsExact`, `RunsPublishSnapshots`, the resumes and the calculations):
  `IndexRunStaleWriter` and `IndexRunEarlyParse`; for `FactsCurrentUnderEdits` only
  the early parse and contents that come back are excluded (`IndexRunRevert`);
- no resume (`SettledIsExact`, `RunsPublishSnapshots`): `IndexRunStaleSeed`;
- `PlainRuns`: neither deadlines (`IndexRunCutResume`) nor progress exports
  (`IndexRunHtmlResume`), and one engine configuration unless there is one process.
  Two processes with two engines lose flows: while the first is in the gap of a
  checkpoint the second starts its stage under its own signature, and the first
  then commits its cursor and its rows under that signature (the instance of
  `IndexRunWriters` with two engines violates `CheckpointHoldsItsPrefix` and, after
  a resume, `SettledMissesNothing`);
- `SameEdges` (one process, or one signature and no deadlines): two runs of two
  signatures in each other's checkpoint gaps leave the edges of one beside the
  signature of the other, and a calculation then replaces its flows (TLC, the
  instance of `FlowCalculation` with two runs and two engines);
- the limits of the runs (`OtherLimits = FALSE`): `FlowCalculationLimits`; and no
  content that comes back (`Reverts = FALSE`) for `CalculationsLoseNothing`: the
  instance of `FlowCalculation` with `Reverts = TRUE`;
- one process, where the property compares a commit with the one before
  (`RunsPublishSnapshots`, `ResumesAdvance`, `CalculationsKeepProgress`) or files are edited during runs
  (`NoFlowOfDeletedFiles`): a second writer may commit in the gap of a checkpoint,
  and each of these is violated with two processes;
- the cache theorems: no comparisons and no failing removals (`EngineCacheCompare`,
  `EngineCacheStaleStamp`, `EngineCacheHalfMoved`);
- `Decided` (`StaleReadsAreDiagnosed`, `RisksAreBehindPublications`): no scheduler starts
  the root, the source places tell the effects of a method apart, there is one
  write and one read, calls form a tree between services with each effect at one
  line, and no helper is called between two effects of its caller (`Scheduled`,
  `OneLine`, `Diamond`, `OwnTopic`, `Repeated`, `StaleReadsBetween`). One write and
  one read are what the property is about: the diagnostic judges pairs one by one;
- `OneWildRoute` (no service has two routes that end in `**`): `TopologyWildcards`;
- `TemplatesAccept` (some segment satisfies each template): a template that nothing
  satisfies matches a `**` without a request in common;
- `OneLevel` (supertypes have none of their own, map something if they have a prefix, and
  no heir redeclares all they map) and `~OutsideInputs`: the instances of `Delta`
  with `Redeclared`, `PrefixOnly` and `OutsideInputs = TRUE`. The documentation
  itself limits the rescan to direct partners. The contents of the regular run
  satisfy it, with heirs that come, go and change.

Induction. The theorems on `FlowJoin` and `BuildLayout` need the value of recursive
functions and a minimal counterexample over numbers. `LeastNumber` gets it from
the library's theorem that the naturals are well-founded, `Iterates` shows that a
function given by its first value and its steps exists (so that a recursive
definition satisfies its equation), and `LevelsAre`, `LongerAre` or `VisitsAre`
apply it.

Only model-checked: liveness (`AlwaysSettlesAgain`, `PassEnds`), which is outside
the prover. Every other property of the passing runs is stated by a theorem. The types of `EngineCache`,
`EngineSession` and of the search of `FlowJoin` are proved and have no run of their
own.

## 5. Plan

Done: the index run and its stage, the store's transactions, both engine caches,
the external commands, the join of one entry, `flows calculate`, the links
between services, the stale-read diagnostic, the runtime history, the delta and
the build layout. Next:

1. `FlowJoin`: the resume seeds and the merge with the same-method flows
   (`combine_code_flows`).
2. `FactNamespace`: validation and deletion of imported facts by namespace.
3. `UniqueIds`: identifiers that two batches compute alike.
4. `CallGraphRefresh`: refresh of one module's view over a persisted graph.
5. Federation: a reader of several indexes that are being written.

Proofs to add: those of the modules above. The theorems on resumes could do without
their hypothesis on deadlines if the checkpoint of a cut call set were no longer
resumable (`IndexRunCutResume`).

Not modelled: extraction of facts from Java syntax and build files, rendering,
the browser viewer, message wording, the analyzers themselves. Their hardness is
breadth of input, which unit tests sample better than a model checker.
