# FastProxy-Server in TLA+

FastProxy-Server is one Go process: an HTTP API over a SQLite repository of
subscriptions, nodes, groups and rules, a compiler that turns a selection of
them into a configuration document for one of two proxy cores (mihomo,
sing-box), and a supervisor that runs one core at a time.  This directory holds
TLA+ models of its parts, TLC configurations that check them on small
instances, and TLAPS proofs of the properties that matter most.

All paths below are relative to `src/`.

## 1. The system

### Components

| Component | State | Operations | Module |
|---|---|---|---|
| Core supervisor `internal/core/supervisor.go` | `cmd` + `cmdDone`, `status`, `firewallSnapshot` under `mu`; one wait goroutine per process | `Stop`, `Start`, `Restart`, the clean-up of a failed start, `wait` | `Supervisor`, `CoreSlot` |
| Firewall state `internal/core/firewall_state.go` | iptables, ip rules and routes of the kernel | `Capture`, `Restore` | part of `Supervisor` |
| Adapters and health check `internal/core/adapter.go`, `validation.go` | none | command line, `HealthCheck`, `Validate` | parts of `Supervisor`, `RuntimeApply` |
| Runtime apply `internal/api/runtime.go` | one configuration file per core | `startActiveRuntime` and its handlers, selecting the core, `handleRuntimeStatus` | `RuntimeApply` |
| Runtime compiler `internal/api/runtime.go` | none: a function of one read of the store | `compileRuntime`, `mihomoRuntimeConfig`, `singBoxRuntimeConfig` | `RuntimeCompile`, `RuntimeConfig` |
| Global configuration `internal/repository/store.go` | one row: fields, name servers, rules of names, inbounds | read (which fills in defaults), update, update of inbounds | `RuntimeConfig` |
| Subscriptions and derived sets `internal/repository/store.go` | rows by kind and name under `Store.mu` | create, rename, delete; managed node sets | `SubscriptionStore` |
| Subscription sync `internal/subsync/service.go` | locals of each refresh | `RefreshSubscription`, auto updater | `SubSync` |
| Importer `internal/importer/service.go` | locals of each import | `ImportClash`, `ImportPlainNodes`, `CreateManualNode`, `DeleteManualNode` | `Imports` |
| Rule sources `internal/repository/rule_sources.go`, `rule_source_snapshots.go`, `cmd/rule-source-snapshot` | repositories; three tables of an index | create, update, delete; refresh in full or for one core; pages, search, lookup | `RuleSourceIndex`, `RuleSources`, `RuleSourceReads` |
| Core binaries `internal/core/download.go`, `embedded_binary.go`, resources of the runtime | files in the data directory | download, upload, extract, `ResolveBinary` | `CoreCache` |
| Node cache `internal/repository/node_cache.go` | `node_cache_nodes`, `node_cache_sources` | upsert per source, lookup by tag | `LocalData`; its rows of sources also in `SubscriptionStore` |
| Health history, operation events `internal/repository/` | `health_check_samples`, `operation_events` | record, latest, trend, clean-up; record, page | `LocalData` |
| SQLite file `internal/repository/local_sqlite.go` | the database file | open, reset when corrupt | `LocalData` |
| HTTP API `internal/api/server.go` | none | some 90 routes | those of the runtime, the configuration, subscriptions, imports, rule sources, binaries, health checks |
| Entry point `cmd/fastproxy-server/main.go` | none | start, graceful shutdown | the shutdown, in `Supervisor` and others |
| Web files, daemon installation | none | I/O | not modelled |

### How they interact

* Every HTTP request is a goroutine.  The supervisor and the store each have a
  mutex; nothing holds both, no lock is held while waiting (for a process, the
  network, a command of the operating system), and no request holds a lock from
  one critical section to its next.
* A runtime handler reads the store twice (selection, then everything else),
  writes a file, runs the core on it to validate it, and calls
  `Supervisor.Restart`, which is `Stop` and then `Start` with nothing in between.
  The core reads the file when it comes up, later still.
* A refresh reads its subscription, downloads without a lock, and applies the
  result in up to seven critical sections.  The auto updater and the handlers
  run refreshes independently of each other.  An import and a manual edit of nodes
  go through up to five critical sections of the same store.
* A refresh of a rule source reads its repository, downloads one tree per core, and
  stores an index, in full or for one core, whatever has become of the repository.
* Handlers that install binaries share the names of files, with no lock at all: only
  renames and what a file starts with tell a finished one from another.
* Processes end whenever they like; the wait goroutine of each reports it to
  the supervisor.  The server process itself ends without stopping its core.

### What is hard here

Interleavings of supervisor calls with each other and with the death of a core;
cleaning up network rules exactly once, after the core and before the next one;
state read in one critical section and written in a later one (the status, the
configuration, a subscription); a shared file rewritten between check and use;
references between nodes, groups, rules and rule sets that must all exist in
the compiled document although users rename and delete any of them; operations
that fail half way, or are cut off by the end of the server between two file
operations; times and versions that are compared as text.  `PROJECT.json` lists each such hazard with its line and
the properties that cover it.

### What makes each component correct

* Supervisor: at most one managed core; a process leaves the slot once; none
  runs unmanaged except where the code gives up on it; installed network rules
  are never forgotten; `starting` and `stopping` always end; every call returns.
* Runtime apply: a core runs the document its request compiled, and that
  document was validated; the status names the core that is managed.
* Compiler: every reference in a document is defined in it; nothing the user
  selected is lost that could have been kept; no rule changes into one that
  matches everything; foreign names are not asked of default servers; rules of
  names decide in their order; both cores take a configuration alike.
* Store and sync: names of nodes are unique over sets, deleted subscriptions are
  not referred to, a refresh touches no subscription but its own, stores all of
  what it downloaded, and a failure stays visible; an import is whole, and a manual
  edit keeps the other nodes.
* Rule sources: what an index offers exists and can be saved, its branches are those
  its files come from, and all reads show all of it.
* Core binaries: a file under its final name is whole, and a cached binary can be
  started.
* Local data: a source has the nodes it brought last; the latest check is the newest;
  pages of events are complete; clean-up keeps the newest.

## 2. The modules

### `CoreSlot` — abstract specification

What the supervisor promises about processes, in five actions: a process is
launched into the empty slot only, dies, is reaped, or is let go of.  `OneManaged`
follows: every live process is in the slot or was let go of.

### `Supervisor`

One action per critical section of `s.mu`, per blocking operation between two of
them, and per event of the operating system.  `pc[c]` says where in the code the
goroutine `c` is:

| Actions | Code |
|---|---|
| `StopBegin`, `StopKill(Fails)`, `StopAwait`, `StopCancelled`, `StopClear` | `Stop` |
| `RestoreDone`, `RestoreFails`, `RestoreForget` | `restoreFirewallState` |
| `StartProcess`, `StartRefused`, `HealthPasses`, `HealthFails`, `SetRunning` | `Start`, `waitHealthy`, `setRunning` |
| `FailRead`, `FailKill(Fails)`, `FailAwait`, `FailMark` | `stopAfterStartFailure` |
| `WaitReaps`, `WaitCloses` | `wait`, whose deferred `close(done)` runs after its unlock |
| `ProcServes`, `ProcExits`, `ProcCrashes` | the core: external |
| `ServerRestarts` | `main.go`, which shuts down HTTP only |

A process identity stands for the `*exec.Cmd`, its done channel and the firewall
snapshot stored with it.  `Start` is only called by `Restart`.  The health check
asks an address, so any serving process answers it.  The 5 seconds of a failed
start may pass at any time (`FailAwait` needs nothing), as may the deadline of a
health check.  `letGo` is history: processes taken out of `s.cmd` although their
exit had not been observed.

Abstracted: log lines, `StartedAt`, error texts, and the contents of a snapshot
(every restore ends in a clean-up of both cores' rules, whatever it restored
before).

### `RuntimeApply` — `Supervisor` composed with the handlers and the store

EXTENDS `Supervisor`: its steps are used unchanged (`Proceed`, `Launch`, `Load`,
`Close`, `OtherProcStep`), next to the handlers' steps `Choose`, `Compile`,
`OpenFile`, `WriteFile`, `Validate`, `CallRestart` and the store's `Edit`,
`SelectRead`, `SelectWrite`.  The configuration is the selected core and a
revision of everything else; a file holds a revision, or is torn or absent.
`kind`, `meant`, `loaded` and `trusted` record, per process, what it was started
as, what its request had compiled, what it read and whether that was checked.
They are reset when a process is closed, so that its identity leaves no trace.
Two requests for one core write one file.  `crossed` and `shared` are history: the requests
whose file another one has written since their own, and the cores that were started by
such a request or whose file was written before they came up.

### `RuntimeCompile`

The store is edited by actions (save or delete node, group and rule sets, pick
rule sets, edit rule source repositories and configured rule sets); the compiler
is a chain of operators on the state, in the order of the code:

    SelectedGroups, SelectedRules -> References -> SelectedNodes    Selection
    Sanitize (Available, CleanRefs, CleanGroups, CleanRules)        Input
    Mihomo                     SingBox (Fits, Rendered, RenderedRuleSets, Detours)

`Sanitize` runs twice, in `compileRuntime` and again in each renderer.  A rule
list is a function from positions to rules, so dropping rules is restricting the
function, and order is kept by construction.  Groups of one tag in two selected
sets are resolved by the order in which the store lists them (`groupOlder`).

Abstracted: transports and the other options of nodes, rule providers of mihomo,
trimming and case of tags, nesting of rules deeper than two levels, and which of
several equally good detours is taken (the first: the model has the set of
candidates).

### `RuntimeConfig`

EXTENDS `RuntimeCompile` by the stored configuration and what both cores are given of
it.  `Current` is a read: it fills in fields, servers and inbounds (`Backfilled`) and
replaces the proxy servers of an older release (`Legacy`, `Replaced`); a read stores what it
filled in.  Servers are a function from positions, of which a replacement leaves some out;
only their order counts.  The rest are operators in the order of the code:

    FakeIPRules, LeakPreventionRules, UserRules, ClashModeRules, CatchAll
      -> Merged                                   DnsRules, Final, Resolver    SingBoxDns
    EndpointsOf, NameserverPolicy, MihomoPorts                                 MihomoDns

A name is what matches it: a query is a set of keys (`domain` x, `rule_set` y), a mode
of the core, whether it asks for an address, and whether the answer of an
evaluated server is good.  `AnsweredBy` walks the rules of a document as sing-box
does, and so says which server a query ends at.  The name of a server is its role and
its number among those of that role (`ServerName`), counted anew for mihomo
(`PolicyName`).  Inbounds have a kind, a port and a switch: `SingBoxInbounds` leaves out
tproxy where the server does not run on Linux, `MihomoPorts` has the five kinds that mihomo
has a port for, and a tun inbound is neither.  Left out: the ports of servers, listen
addresses, subnets, strategies, timeouts, caches, wildcards.

### `SubscriptionStore` and `SubSync`

`SubscriptionStore` has one action per critical section of `Store.mu` on
subscriptions, node sets, rule sets, group sets and the references of profiles.
`SubSync` adds refreshes, several at once: `Refresh`, `Read`, `Fetched` or
`FetchFails`, `SaveNodes`, `SaveCache`, `GroupsRead`/`Update`/`Create`,
`RulesRead`/`Update`/`Create`, `SaveFails`, `Finish` or `MarkSyncFailure`.  A handler with a
single critical section is an action of the store; the refresh that follows a
POST or PUT of a subscription is an ordinary refresh by name.

A node set is the set of its node names; rule and group sets are their
existence; `LastSyncedAt` is whether it is set; a provider answers anything.
A PUT that carries a sync status of its own is left out.  Every save of a refresh may fail
(`SaveFails`: a name used elsewhere or twice, a row deleted meanwhile, the database); of
handlers and of the last step of a refresh only the errors that follow from the data are
modelled.

Two variables are history.  `parts[r]` is what a refresh has stored of its download:
`StoredBy` looks at what is in the store after each of its steps, not at where the refresh
goes from there.  `unchecked` holds the node sets that were last saved by `CreateNodeSet`
or `UpdateNodeSet`, which do not check node names as `UpsertManagedNodeSet` does.

### `Imports`

EXTENDS `SubSync` by goroutines that import.  `at[i]` is where an import is:
`SaveSubscription`, `SaveManaged` or `SavePlain`, `CacheNodes`, `SaveGroups`,
`SaveRules`, each one critical section, and `ReadNodeSet` before a manual edit.
`SaveManaged` may be refused (a node name that is in another set); what was saved
before stays.  Parsing comes before everything and is left out: an import holds any set
of nodes.

### `RuleSourceIndex`, `RuleSources`, `RuleSourceReads`

`RuleSourceIndex` has no variables: which files of a tree fit a core, the index made
of them, pages, filters and what may be saved as an asset, on paths that are
sequences of segments with an extension.  Where the code goes by the text of a name, the
names' relations are constants: `Rest` is what `strings.TrimPrefix` leaves of a name behind
another (the root of a mapping is cut from a path as text, also inside a name), and
`LikeWord` and `LikePrefix` say what `LIKE` matches besides the text itself (other case, and
anything for an underscore).  `RuleSources` adds the repositories, the
tables of the indexes (a row, directories, entries) and the handlers that refresh
them: `StartIndexRefresh` or `StartSelectableRefresh`, a `Fetch` per core (or
`FetchFails`), and `StoreIndex` or `StoreSelectable`.  `DeleteRepository` may stop after
any of its four statements.  `RuleSourceReads` adds pages, searches and lookups, from
the tables or, for a built-in repository without a row, from the snapshot in the
program.

### `CoreCache`

One action per file operation of a call: `Create`, `CopyBegins`, `CopyEnds` or
`CopyFails`, `Rename`, `Extract`, `Install`, `Chmod`.  A call that has a file open
follows the file (`fd`), not its name, as two calls that share a temporary name do on
Unix.  A file is whether it starts as an executable does (`header`, all that the code
looks at), whether it is whole, whether it may be executed, whose contents were written
into it, and, as history, which calls were about to rename it.  `Extract` reads the archive
that has the name at that moment, which another call may be writing.  A torn archive may be
noticed or not (`Unpacked`): of a `.tar.gz` nothing is read behind the binary, its checksum
neither.  `Crash` is the end of the server anywhere; the files stay.

### `LocalData`

The node cache, the health checks and the operation events.  A time is a second and
the digits of its fraction, and `TextOrder` compares two of them as SQLite compares
their texts: `0.5Z` sorts behind `0.51Z`.  A health check finds its node in
one critical section (`StartCheck`) and records its result in another (`RecordSample`),
with the time at which it started.  A sample has the type its user gave the check.
`Cleanup`, `EventPage`, `Latest` and `Trend` all go by `Rank`, the place of a row in the
order of the queries.

A row of the node cache has the source that wrote it, and the ids of its subscription and
its node set.  Nodes are asked for by one of these two: `NodesOfSubscription` is about one
source, `NodesOfSet` about all that have the node set (`NodeSetOf`): the subscription
that it belongs to, imports into it, and edits by hand.

A client reads events page by page (`ReadFirst`, `ReadNext`), each page in a critical
section of its own, and events are recorded in between.  `reader` holds what it asked for
and `nextOffset`, and as history what there was when it began and what it was shown.

### MC and proof modules

The `MC...` modules add symmetry sets, state constraints and the sets of saved
resources.  `SupervisorProofs`, `RuntimeApplyProofs`, `RuntimeCompileProofs`,
`SubSyncProofs`, `ImportsProofs`, `RuleSourcesProofs` (with those of
`RuleSourceReads`), `CoreCacheProofs` and `LocalDataProofs` hold the theorems.
Operators named `...Mutant` are plausible wrong versions of the definition after them;
no specification uses them.  `PROJECT.json` says which property each one breaks.

## 3. What is checked

| Run | Instance | Shows |
|---|---|---|
| `supervisor` | 2 clients, 2 cores, 2 processes, kill may fail, 1 server restart | `ImplementsSlot` (refinement of `CoreSlot`), `OneManagedCore`, `RulesRemembered`, and the inductive invariant `IInv` |
| `supervisor_live` | 2 clients, 1 core, 2 processes, kill works | `CallsReturn`, `TransitionsEnd` under fairness |
| `runtime_apply` | 2 requests, 1 editor, 2 cores, 2 processes, 1 edit or 1 server restart | `StatusNamesCore`, `ValidatedBeforeRun`, `RunsWhatWasCompiled`, `RestoreIsLast`, `SnapshotNotOverwritten` |
| `runtime_compile` | 2 set names, 4 tags, 2 rule sets, 1 repository; 280 saved configurations | `ReferencesDefined`, `KnownTargetsKept`, `NoCatchAllByAccident`, `OnlyLostRepositories`; `DnsReferencesDefined`, `NoLeak`, `RulesDecide`, `CoresAgree` |
| `subsync` | 2 names, 1 node name, 1 refresh, all edits, with and without the check of names | `NodeNamesUnique`, `DeletedIsDereferenced`, `RefreshKeepsSubscriptions`, `FailureStays` |
| `subsync_overlap` | 1 name, 2 node names, 2 refreshes or 1 refresh and 1 import, saves that fail | `RefreshIsComplete`, `FailureRecorded`, `ImportIsComplete`, `ManualEditKeepsOthers` |
| `rule_sources` | the built-in and one user's repository, 2 branches, 2 refreshes | `RefsNameFiles`, `OtherCoresKept`, `OfferedFilesExist`, `OfferedFilesSavable`, `ReadsShowEveryEntry`, `SearchAgrees` |
| `core_cache` | 2 clients, 3 calls, 2 releases and an upload, 1 end of the server | `InstalledIsWhole`, `CachedIsStartable` |
| `local_data` | 1 subscription, imports and edits of its node set, 2 nodes of one tag, 2 handlers, 2 types of checks, 3 times, 3 rows in all; 1 reader, 4 events | `SourceListsItsNodes`, `LatestIsNewest`, `CleanupKeepsNewest`, `EventPagesComplete` |
| `supervisor_running`, `compile_rule_sets`, `core_newest` | | findings, section 5 |

Each of the passing runs finishes its whole state space.  Deadlock is checked in all of
them but those of `CoreCache`, which stop when `MaxCalls` are used up.

### Bounds, and why they are enough

* Two clients: the code compares what a call has read with what is there now,
  so one other call in between is what it can meet; a third repeats it.  Nothing
  in the proofs of section 4 bounds their number.
* Two processes cover "mine" and "another one".  Identities are never reused in
  `Supervisor`, so its runs end in states in which every start is refused.
* `MaxBoots`: one restart leaves one core behind.  It is 0 where fairness is
  assumed (a restart only cuts calls off).
* `MaxRevs`: one edit gives an old and a new configuration.  `OneOfAll`: an edit
  or a restart, not both: what a restart leaves behind does not depend on the revision; and
  once two requests have been under way at once (`overlap`, a variable of the run), no restart
  and no file but that of the selected core, which is where two requests meet.  Two calls
  in the supervisor at once are the question of `supervisor`.
* Four tags: two nodes, and two groups one of which may have the other as a
  member; every tag may be missing.  Two names: a selected and an unselected
  set, or two of one tag.  The saved resources (`MCRuntimeCompile`) were chosen so
  that each stage of the compiler has something to drop and something to keep.
* Configurations are every combination of those in `MCRuntimeConfig` (each mode of filters
  with lines of the other modes, servers without address before others, an older
  release's, repeated values, rules to servers that are gone), over stores with at most
  one group set: groups are what a configuration meets, as detours.
* One node name in `subsync` makes every two node sets clash, and two names let a
  subscription be renamed onto and away from a clash.  `VIEW Seen` of the two runs leaves
  variables out of what tells states apart that neither a step nor a property of the run
  reads: in `subsync` the cached nodes, `alone` and `parts`, in `subsync_overlap`
  `unchecked`.
* One name in `subsync_overlap`: it is about goroutines that write the same rows.
  `TwoAtOnce`: with an import under way one refresh runs beside it; two refreshes
  without.
* Rule sources: the trees hold a file for every rule of the code (both cores, two
  extensions of one logical path, compiled classical rules, a file at the root, hidden and
  ignored ones, and names that begin with the root `geo`), and one branch has two trees.
  The searches ask for each clause, for several, for a pattern and for a prefix in
  capitals.  `Bounded` leaves out states with an
  index of both repositories, which never meet.
* Three calls that install: one that has finished and two at once.  Two releases, of
  which the second sorts before the first.
* Three times: two of one second whose texts sort the other way round, and one of the
  next.  `Rows` bounds the rows of all tables together, since no operation looks at
  two tables except a check at a node; while a client reads events there is nothing else.
  Four events are two pages, one event that moves a page, and one more.

`ValidatedBeforeRun` and `RunsWhatWasCompiled` are about any number of requests and except
the cores in `shared`: when two requests share the file, a core can come up from one that was
rewritten after its check, or from another request's document.  `StatusNamesCore`,
`RestoreIsLast` and `SnapshotNotOverwritten` are about one call of the supervisor at a
time, because that is where they hold: a failed start writes its core into the status
although another request's core is managed, and one call restores while another starts.
Failing kills are covered by `supervisor` only.

### Fairness

`supervisor_live` assumes weak fairness of three things and no others: a process
that was sent SIGKILL exits; the wait goroutine of a process that has exited runs
its critical section and closes done; and a call in progress takes its next step
when it has one (goroutines are scheduled, the deadlines of 10, 5 and 15 seconds
pass, commands end by their context).  Nothing makes a client call, hang up, or a
core come up or die by itself.  Neither clients' cancellations nor failures of the
kill (which `KillMayFail = FALSE` excludes) are needed to end anything: `Stop` waits
for done without a deadline of its own and is released by the wait goroutine.

## 4. What is proved

For every value of the constants, from the named assumptions in the modules only.
Every safety invariant, action property and refinement of the passing runs is the
statement of a theorem.

**Supervisor** (`SupervisorProofs`): `IInvCorrect`, and from it `TypeCorrect`,
`RulesAreRemembered`, `TransitionsHaveProcess`, `StartingHasItsStarter`,
`OneCoreIsManaged`, and `SupervisorImplementsSlot`, the refinement of `CoreSlot`.

`RulesRemembered` is not inductive.  A restore drops the snapshot in a later
critical section than the one that read it, so one has to know that the process
it was read with has left the slot by then (`SavedLeftSlot`), that a call holds the
snapshot of the process it saw (`SeenWithSaved`), that the snapshot of a managed
process is the stored one and its exit is not handled (`SlotUnreaped`), that a
live process is managed or let go of (`UnreapedKnown`), that a new process is
referred to by nothing (`UnusedFresh`), and that between the removal of the rules
and the critical section that forgets them no managed process adds any, unless
another start has replaced the snapshot (`RestoredClean`).  The same conjuncts map
every step to a step of `CoreSlot` or a stutter.  The number of clients, cores,
processes and restarts is unbounded here.

`RestoreComesLast` and `SnapshotsAreNotOverwritten` have the hypothesis `OneCaller`
(`Clients` has at most one member), as the properties do: with two callers both fail, since
one call starts a core while the other restores.  What carries them is `CallOwns`: what
a single call has read of the slot, the snapshot and the status is what is there, or what
the exit of the process has made of it.

**Runtime apply** (`RuntimeApplyProofs`): for any number of requests, `ApplyTypeCorrect`,
`ValidatedBeforeTheyRun` and `CoresRunWhatWasCompiled`, with restarts of the server and kills that
fail.  They rest on `FileIsPlanned` (from the writing of its file to the launch the file holds
the request's revision, and from validation on it is checked, unless another request has
opened it since: `crossed`) and `ReadsItsFile` (the same of a process that has yet to read
it, and of what it has read: `shared`).  For one request at a time (`OneCaller`):
`StatusAlwaysNamesCore`, which needs that a call that is starting a core wants what the
managed process was started as (`NamesCore`); and with kills that work, until the server
ends, `AloneNothingIsShared`: nothing is excepted from the two then.  That needs
`UndisturbedStart` (a core that a failed start gave up on is dead, and one that still has to
come up is that of the call in progress).  Lemma `AppliesSupervisor` carries the theorems
about `Supervisor` over: each step of the composition is one of its steps or leaves it alone.

**Compiler** (`RuntimeCompileProofs`): `ReferencesAreDefined`, `KnownTargetsAreKept`,
`CatchAllsAreMeant`, `DetourIsDefined`, `OnlyRepositoriesAreLost`.  The invariant of the
store is only its type; the work is in lemmas about the operators: `SanitizeCloses`
(what `Sanitize` returns refers to nothing outside itself, whatever it was given),
`InputIsClosed` (so does the second pass), `RenderedIsPart` (rendering adds no
reference), `SanitizeKeepsMatchers` and `InputKeepsMatchers` (a rule that survives
keeps its matchers), `SanitizeKeepsRule` and `SanitizeKeepsMembers` (what refers only
to known tags survives both passes unchanged), `TargetsAreReferences` (the nodes such
a rule needs are among those selected).

**Configuration** (`RuntimeCompileProofs` too): `DnsRefersToWhatIsThere`,
`ForeignNamesDoNotLeak`, `RulesAlwaysDecide`, `CoresAlwaysAgree`.  The invariant is that
the store holds a configuration (`IsConfig`; `ConfigCorrect`), and what fills one in on
a read keeps it one, with every field in place (`BackfilledIsConfig`).  The rest is about lists of
any length.  `FlattenSteps` and `MergeSteps` give the steps that a flattened and a merged
list are made by; facts about them follow with the first step that would break them
(`Least`).  A set of rules that is closed under joining two neighbours (`JoinClosed`) contains
the merged list if it contains the list (`MergedType`), so references and leaks need only
be shown of the rules as written: `RulesAreWritten` says which those are.  For answers,
the order counts.  The rules before the first one of the user that speaks of a name are
`Silent` (`SpeakingPlaced`); merging keeps what is silent before it (`MergesFirst`), can
only make the rule itself wider (`MergeContinues`, `Grown`), and neither joins nor separates the
four rules that ask two servers in turn (`EvaluatedPlaced`).  Behind silent rules, such a rule
decides (`RouteAnswers`, `EvaluatedAnswers`).  `CoresAlwaysAgree` rests on names being
unique (`NamesAreUnique`, `NamesAreNumbered`): for both cores the servers of a role are
counted with those that are not written, so that a name means the same server to both.
Its part on inbounds is for both kinds of operating systems: on Linux all that mihomo has a
port for is where sing-box listens; elsewhere all but tproxy.

**Store and sync** (`SubSyncProofs`): `IInvCorrect` (type and `RefreshHolds`: a refresh
under way has a name and a copy), `TypeCorrect`, `SyncKeepsSubscriptions`, `FailuresStay`,
`NamesStayUnique` and `NoDanglingReference`, all for saves with and without the check of
names.  `NamesStayUnique` is about the node sets outside `unchecked`.
`NoDanglingReference` has the one exception the code has: a rename returns its error after
the subscription row was renamed, when the node set cannot follow.  By `ClashOfNames` this
happens only when another set uses a name of one of its nodes; by `NamesStayUnique` one
of the two sets was then saved without the check.

**Imports and refreshes** (`ImportsProofs`): `RefreshesAreComplete`,
`FailuresAreRecorded`, `ImportsAreComplete`, `ManualEditsKeepOthers`, for any number of
refreshes, imports and edits at once.  `FailureRecorded` says that a refresh that returns
has stored all four parts or has noted its failure; `PartsHold` is what carries it: at each
of its points but `fail` a refresh has stored what the steps before were to store, which
each step has to show of the store it leaves (`PartsNext`).  `ImportIInv` also says what a goroutine that nothing has
written beside (`alone`) has saved when it is at a given point (`RefreshKept`,
`ImportKept`); the proof has one step per action, of the goroutine itself, of another one
(which makes it lose its place in `alone`), and of the store.

**Rule sources** (`RuleSourcesProofs`): `TypeCorrect`, `IndexesNameBranches`,
`OthersAreKept`, `OfferedExist`, `OfferedSavable`, `SearchesAgree`, `ReadsAreComplete`.
`RefsNameFiles` is inductive together with the types; what carries it
are lemmas that an index, made of any tree or changed for one core, names the branches
of its files (`BuildIndexType`, `WithSelectableType`), and that a deletion removes
entries before their row.  `FileIInv` adds that what a refresh holds comes from a tree
of its branch, and that the stored files exist and can be saved (`StoredAreSound`, `JobPaths`).
Where a file offered was in its tree is `WasIn`: under the root, outside it, or where the
root ended inside a name (`RootFound` and `RootAndRest` put the root back before what was
left).  `SearchesAgree` is about any patterns: the tables find what a snapshot
with these entries finds, and the same where one thing is asked for that is no pattern.
`ReadIInv` adds that the tables agree (every directory above an entry is listed, entries
have a row) and hold finitely many entries.  The rest of `ReadsAreComplete` is about
orders and pages: a finite set has an order without repetition (`OrderExists`, by
well-founded induction on its size, `OrderedCorrect`), a page ends where the next one begins
(`PartsMeet`), and a client that follows the pages from any offset sees what is
behind it (`WalkSeesAll`), however the page limit divides the number of rows.

**Core binaries** (`CoreCacheProofs`): `TypeCorrect`, `CachedAreStartable`,
`InstalledAreWhole`.  `InPlace` says which file a call works on.  `InstalledIsWhole` needs
`WInv` beside it: a temporary file knows all calls that are about to rename it, and a call
whose open file was renamed away had company (`Known`); a call without company has its
own file open and nothing else written into it, and the file is whole when it renames it
(`Single`); a file that is not whole is being written, holds several contents, or was cut
off (`Broken`).  `Torn` adds that torn contents, in a file or on their way into one, come out
of an archive that several calls wrote (`TornNext`).

**Local data** (`LocalDataProofs`): `TypeCorrect`, `SourcesListTheirNodes`, with `Listed`
(what is listed is stored, and is what its source brought last) and `Checked` (a node under
check is stored); `CleanupsKeepTheNewest`, `LatestIsTheNewest`, `EventPagesAreComplete`.  The
last three begin with the comparison of times as texts: it is a total order that respects
seconds, so the rows of a query have ranks, and these number them from 1 without a gap.
For a client that reads pages while events are recorded, `Reading` is the invariant: of what
was there when it began and that it asks for, all that it has not seen ranks behind
`nextOffset`, and each row it was shown again, or will be, stands against one recorded since
(`Reads`).

The assumptions on constants are those a program run meets: repositories and trees are of
their types, trees are finite and have no empty path, times are seconds and digits,
bounds are naturals, and `None` is no value of another kind.

**Only model-checked**: `CallsReturn` and `TransitionsEnd`, since liveness under
fairness is out of the prover's reach.

## 5. Findings

1. `supervisor_running` (`RunningHasProcess`): `setRunning` does not look whether the
   core is still there.  One that dies between the answer to its health check and
   `setRunning` is reported as running, and nothing corrects it.
2. `compile_rule_sets` (`RuleSetsDefined`): a rule may name every configured rule set,
   also one that is not rendered because its repository was deleted or mapped to
   another core; the tests expect such a rule to be left out.
   `OnlyLostRepositories` proves that this is the only way to it.
3. `core_newest` (`NewestIsUsed`): of the cached versions the last by name is used,
   so v1.9 although v1.10 is there; the repository's README promises the newest.

Reading and modelling also showed the following, none of which contradicts anything the
repository says clearly enough for a run of its own:

* README.md:70 (environment variables always win, downloads only on request) is not what
  `ResolveBinary` does; README.md:40 describes a snapshot (`runtime/active.json`)
  which the code no longer has.
* Rule sources: a repository may be renamed to the id of the built-in one, which then
  hides it; creating one silently replaces one of the same id; a failed refresh of the
  built-in repository stores the snapshot over a newer index; files outside the root of a
  mapping are indexed under an address with the root in front, and so are files whose
  path begins like it (root `geo` makes `site/cn.yaml` of `geosite/cn.yaml`, with the address
  `geo/site/cn.yaml`, and there is neither); entries of single cores keep their
  extension, so that a lookup by logical path misses them; a search finds `geo-ip` for
  `geo_ip` in the tables, by `LIKE`, and not in the snapshot; a file that is only an
  extension (`.yaml`) is in no index.
* Binaries: two calls that install one version at once can leave a torn file that
  starts like an executable and is resolved from then on; the end of the server between
  rename and chmod leaves one that cannot be started and that no update replaces.  A torn
  `.tar.gz` need not be noticed, since its checksum comes behind the binary and is not read.
* Local data: a node deleted by hand from an imported set stays listed under the node set,
  since the row of its import has the same node set; a client that reads pages of events
  while others are recorded is shown events again.
* Inbounds: on macOS an enabled tproxy inbound listens under mihomo and not under sing-box.
* The reset of a corrupt file deletes all tables, those of resources included.
* Names: `fakeip` and `fake_ip` as mode mean fake-ip to mihomo only; deleting a server
  shifts the names of those after it, and rules go with the names; a read of an older
  release's configuration leaves rules that name its second proxy server; of two rules
  for one name sing-box takes the first and mihomo the last.

## 6. Not modelled, and the plan

Left for later, in this order:

1. `AutoUpdate`: the schedule of the auto updater as a caller of `SubSync`.
2. `FirewallState`: the commands of a restore, of which `Supervisor` has the result.
3. In `RuntimeCompile`: rule providers of mihomo; in `RuntimeApply`: the controller
   proxy, which takes its address from the stored configuration.
Modules that share the repository's mutex are composed where they share rows
(`Imports` with `SubSync`); rule sources, local data and subscriptions share none.

Not planned: parsers of node links, of Clash files and of sing-box documents
(string handling), the field by field copies of node options into documents, SQL
queries of lists, static files, the installation of the daemon, the choice of
a release's asset for a platform, and the two cores themselves.
