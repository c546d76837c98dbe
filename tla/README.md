# tokensave: a verification project

tokensave keeps a code graph of a project in SQLite and serves it to coding
agents. This directory holds TLA+ models of the parts of it in which the order
of steps matters, the TLC configurations that check them on small instances,
and theorems about them that TLAPS proves for every value of the constants.
Paths below are relative to the repository; `indexing.rs` and the like without
a directory are under `src/tokensave/`.

## 1. Inventory

### Processes and what they share

There is no daemon. Several processes work on one project at the same time:
the MCP server of every agent session (`src/serve.rs`, `src/mcp/server.rs`),
git hooks, and command-line invocations. They share, in `.tokensave/`:

| shared state | written by | guarded by |
|---|---|---|
| `tokensave.db`, `branches/*.db` (libsql, WAL) | index, sync, targeted sync, recovery, branch copy | `sync.lock`; SQLite transactions per commit |
| `dirty` | index, sync, recovery (`guard.rs`) | `sync.lock` when written and cleared, nothing when probed |
| `sync.lock` | index, sync, targeted sync, recovery, gc | exclusive creation of the file, pid inside |
| `branch-add.lock` | branch add, auto-track, set-default, gc | the same protocol, with polling |
| `branch-meta.json` | branch commands, auto-track, gc, every sync (`last_synced_at`) | the branch lock, the sync lock, or nothing |
| `~/.tokensave/config.toml`, `state.toml` | every process | a sidecar lock file |
| `~/.tokensave/servers/` | MCP servers | a file per server |
| the working tree, git refs and HEAD | editors, git | nothing |

### Components

| component | state | operations | hard behaviour |
|---|---|---|---|
| locks (`guard.rs`) | lockfile, guard objects | acquire, reclaim a dead holder's file, poll, release | create/write/read/unlink are separate calls; holders die |
| graph index (`indexing.rs`, `src/db`) | files, nodes, edges, unresolved_refs, bulk-load mode, sentinel | full index, sync, branch transition, targeted sync, recovery at open | a failure or crash between any two commits; a sentinel only some operations write |
| change detection (`src/sync.rs`, `staleness.rs`, extraction) | content hash, mtime and size per row | prefilter, hash, touch, lazy check | read and stat race the editor; two different mtime tests |
| resolution (`src/resolution`) | edges, references | full and narrowed passes | convergence of narrowed passes with the full one |
| branch store (`src/branch.rs`, `branch_meta.rs`, `branch/gc.rs`) | branch-meta.json, database files | track, add, remove, gc, set-default, open | read-modify-write under different locks, crash between unlink and save |
| branch context (`runtime.rs`, `mod.rs`, `guard.rs`) | HEAD, open handle, content of its database | lease, ensure_current_checkout | checkout while a sync extracts |
| MCP server (`src/mcp/server.rs`) | requests in flight, lease, detached work, counters | serve loop, concurrent reads, lazy sync, version re-index, idle exit, shutdown | detached tasks, panics, four ways to end |
| worker pool (`src/extraction_worker.rs`) | child processes, queue | extract with watchdog, respawn | a worker dies or hangs; all give up |
| token counter (`src/cloud.rs`, server) | running total, flushed total, pending_upload | count, flush, shut down | failed upload, concurrent saves |
| user configuration (`src/user_config.rs`) | two TOML files | load, merge, save | several processes with stale copies |
| migrations (`src/db/migrations.rs`) | schema version | migrate in an exclusive transaction | two versions of the program |

The rest (extractors, MCP tool handlers, agent integrations, context builder,
accounting, reports, upgrade, command line) is sequential data transformation
or I/O; `PROJECT.json` lists each with the reason it is not modelled.

### What makes each component correct

* Locks: two processes are never inside; a release removes one's own file; an
  attempt ends.
* Graph index: with no writer and no sentinel the tables describe the recorded
  files whole; the sentinel stands while they may not; a full index repairs
  everything; a sync records what its scan saw; operations end.
* Change detection: a row that passes for current is current; a sync during
  which nobody edits leaves the row right; an outdated row is refreshed.
* Branch store: branches have databases of their own; a tracked branch has its
  database; no update of the metadata is lost; gc removes no database in use.
* Branch context: a database holds the content of its own branch; a torn one is
  marked; calls are served from the branch that is checked out.
* Worker pool: a file of a batch is done or reported, once; the pool returns;
  what a shutdown cut short is not taken for the whole.
* User configuration: a save stores its own process's edits and nobody else's.
* Token counter: a token is uploaded, and once.
* MCP server: what a client asked is answered; the server leaves, and not under
  a call.

## 2. Plan

The modules in the order in which they were written, and what each rests on:

1. `SyncLock`, `AdvisoryLock`: the lock everything else relies on.
2. `GraphIndex`: the operations on one database under faults.
3. `FileFreshness`: one row against one file.
4. `BranchStore`, `BranchMeta`, `BranchTable`: metadata and database files
   under the two locks and under none.
5. `WorkerPool`: threads, workers and watchdogs of one extraction.
6. `StateMerge`, `UserConfig`: the two configuration files of a machine.
7. `TokenLedger`: how credited tokens reach the worldwide counter; uses
   `StateMerge` for the merges and takes a load or a save as one step, which
   `UserConfig` justifies.
8. `McpServer`, `RequestService`: the serve loop, and what its client sees of it;
   the lease the loop hands out is `BranchContext`'s.
9. `BranchContext`: HEAD, the two handles of a server, the content of the branch
   databases and the one sentinel; the sync lock is one step (`AdvisoryLock`).

Left: the copy of a database composed with `BranchStore`; the fetches of
`cloud.rs`.

## 3. What is modelled

### SyncLock, AdvisoryLock (`guard.rs`)

`lockfile` is the linked inode: who created it and what it says. `pc[p]` is the
place of process p between two filesystem calls of `try_acquire_sync_lock` or
`try_acquire_branch_operation_lock`; one action is one call (`CreateNew`,
`WritePid`, `ReadPid`, `Unlink`, `Recreate`, `Release`), or one decision
(`Refuse`, `DeclareStale`, `Poll`, `TimeOut`). `Crash` may happen between any
two. A write goes to the inode the handle was opened on, also after it was
unlinked. `Waits` selects the branch lock, which polls a live holder; the sync
lock is the same protocol with the answer `Waits = FALSE`, and every behaviour
of it is one of the branch lock whose time is up at once. `evicted` is a history
variable: somebody unlinked the file of a live process that had created it.

`AdvisoryLock` is what callers believe in: a guard at a time, until the lock is
broken. `SyncLock` implements it with `holders` the processes between creation
and removal of their file and `broken` the history variable.

### GraphIndex (`indexing.rs`, `mod.rs`, `guard.rs`, `src/db/queries`)

The tables are abstracted to what an interruption can leave inconsistent:
`rows` and `nodes` hold a version per file (0: none), `local` the files whose
extracted edges are stored, `refs` those whose raw references are, `binds` the
resolved edges between files. `job` is the working state of the operation that
holds the lock, `pc` its next commit. One action is one commit: the full index
is `StartIndex, WriteSentinel, BeginBulkLoad, Clear, ExtractAll,
InsertAllNodes, InsertAllEdges, UpsertAllFiles, InsertAllRefs, EndBulkLoad,
Finish`; a sync is `StartSync, WriteSentinel, Scan`, `RemoveNodes`/`RemoveRow`
per deleted file, `Extract`, `ReplaceFile`/`InsertNodes`/`InsertRefs`/
`UpsertFile` per changed file, `InsertQueuedEdges, Resolve, Finish`. A targeted
sync skips the sentinel, a branch transition may refuse (`RefuseTransition`).
Opening is `OpenProject, ProbeWriter, LockRecovery`. `Edit` is the outside
world, `Fail` an early return, `Crash` a death.

Abstractions: the sync lock is one step (its protocol is SyncLock); each bulk
insert of a full index is one step; a file's references point to one symbol,
with the files that define it in `Cand` and the resolver's preference in
`Rank`. Left out: artifact rows, body documents, the Ruby repairs, the
language-detection fingerprint, and the dispatch metadata that turns the next
sync into a full re-extraction.

### FileFreshness (`src/sync.rs`, `staleness.rs`, `indexing.rs`, extraction)

One file and its row. `ReadSource`, `StatSource` and `StoreRow` are the three
system-visible steps of `process_request` and its in-process twin: read, parse,
stat, store. `StartSync`, `Prefilter`, `HashSource`, `RecordTouch` and
`RemoveDeleted` are the sync; `LazyCheck`, `LazyWait`, `LazyStart`, `LazyRemove`
and `LazyGiveUp` are `sync_if_stale_silent`; `StartIndex` and `ClearRows` the
full index. `Edit` and `Touch` happen at any moment. `raced` and `calm` are
history variables: an edit fell between the read and the stat of the stored
row; no edit happened since the operation started or since the read.
An mtime is given out once (nanosecond resolution); with `Backdates` it may be
older than earlier ones.

### BranchStore, BranchMeta, BranchTable (`src/branch.rs`, `branch_meta.rs`, `branch/gc.rs`, `commands.rs`)

`BranchMeta` holds the methods of the type of that name as operators. `meta` is
branch-meta.json: the default branch and, per branch, the database file of its
entry. `disk` are the database files that exist, `refs` the local branches of
git. `job[p]` is the working state of process p's command: the copy of the
metadata it will save, the file `branch add` copies to, what gc has yet to
consider, protects and is about to unlink; `pc[p]` is its next step.

| action | code |
|---|---|
| `StartTrack`, `Copy`, `Save` | `branch add`, `track_branch_copy` (also at every open): under the branch lock, load, choose the file, copy a parent's database, save |
| `StartSetDefault`, `StartReconcile`, `Save` | `branch set-default`; the rename of a vanished default at every open; branch lock |
| `StartRemove`, `Unlink` (per file), `Save` | `branch remove` and `removeall`; no lock |
| `StartTouch`, `Save` | `last_synced_at`, under the sync lock of a sync, or bare at the end of `branch add` |
| `StartGc`, `GcSkip`/`GcCondemn` (per branch), `Unlink`, `Save`, `GcDone` | `collect_stale_indexes`; both locks; the saves come one per branch |
| `OpenIndex`, `Register`, `Switch`, `Exit` | a server: open, registry entry, `BranchRuntime::lease` after a checkout, shutdown |
| `Fail`, `Crash` | an early return or a death at any point of a command |
| `GitBranch` | git creates and deletes branches at any moment |

A branch name has a readable file, which several names may share after
sanitizing, and a hashed one of its own. `overtaken` is history: the locks of
the commands that changed the metadata since this one loaded it. `moved` and
`strayed` are histories of the two ways in which a branch can lose its file
without a bug in the command at work: a hashed file that a rename gave to a
branch of another name (`unique_branch_db_file` does not check the hashed name
against the entries), and a deletion cut short, or missed by a save from an
older copy of the metadata.

`BranchTable` is what callers take the file for: a table on which every command
acts in one step. `BranchStore` implements it, except for a save by a command
that was overtaken by one with no lock in common (`Exposed`): those are the
commands without a lock, and the pair of a sync's timestamp and a branch
command. This names exactly the lost updates that the code allows.

Abstractions: a lock is one step (SyncLock has its protocol) and is free after
its holder's death; the names of the parent and the timestamps decide nothing
that is modelled; any tracked branch git knows may be the nearest ancestor;
branches that are checked out are among those of git, which does not delete
them; gc meets its candidates in any order. Left out: the first metadata, which
init writes, a corrupt file, symbolic links in `.tokensave`, and four bytes of
SHA-256 that collide (`BranchAssumption`). The initial states are the tables
that commands run one by one leave behind (`Settled`).

### WorkerPool (`src/extraction_worker.rs`, its callers in `indexing.rs`)

A thread of `worker_thread` is at `pc[t]`: `Pull` takes the front of the queue,
`Send`, `Read`, `JoinWatchdog` and `Verdict` are the round trip with its
watchdog, `FileAnswer` and `Skip` file the outcome, `Respawn` replaces a dead or
killed worker or gives up, `Leave` and `Reap` close the worker's stdin and wait
for it. The watchdog (`WatchdogFires`, `WatchdogKills`) and the worker process
(`WorkerAnswers`, `WorkerExits`, `WorkerDies`) interleave with every one of
them. `Join` is the caller when all threads are over; `CheckCancelled` is its
look at the shutdown flag. A full index and a sync look before they write
("checking"); a targeted sync writes at once ("patching"), looks afterwards and
then reports that the index was left marked stale, though it writes no sentinel
(indexing.rs:1108-1168, cancel.rs:102). Left out: the extraction in the process
itself when no worker can be spawned at the start, the framing of the pipe. Files that are
still queued when every thread has given up are neither results nor skipped;
they keep no row, so the next sync takes them up.

### StateMerge, UserConfig (`src/user_config.rs`)

`StateMerge` holds the merge functions: a counter adds the delta since the load,
a time keeps the larger, the agents apply additions and removals. `UserConfig`
has the two files, and per instance (a process's loaded `UserConfig`) its values
and the baselines it loaded. `Load` and the two saves hold the sidecar lock and
are one step each: `SaveBoth` is the save that writes both files, `SaveStateOnly`
the one whose config.toml could not be merged or written after state.toml was.
Between them instances edit (`AddTokens`, `StampUpload`, `ToggleAgent`,
`TogglePreference`) and files get garbled (`Corrupt`). One counter, one time,
one set and boolean preferences stand for the fields of their kind. `added`,
`edited` and `booked` are histories of what a save ought to store. `blind` names
the exception: an instance that found no state.toml has no baseline, and its
save overwrites one written since (user_config.rs:1306), against the
description of `save` (user_config.rs:1078-1080). Left out: the legacy layout
with state in config.toml, loads that take no lock, symbolic links, the paired
version fields.

### TokenLedger (`server.rs`, `cloud.rs`, `global.rs`, `global_db.rs`, `main.rs`)

`db` is the project's total, `row` the project's in the global database, `file`
state.toml, `service` what the worldwide counter received. A server credits
(`Call`), mirrors (`ToDb`, `ToRow`), and flushes (`Gate`, `FlushLoad`,
`FlushPost`, `FlushSave`), or flushes for the last time (`Shutdown`, `ExitLoad`,
`ExitPost`, `ExitSave`, `Exit`) or is killed. A command uploads what is pending
when it starts (`CommandLoad`, `CommandPost`, `CommandSave`) and adds what the
row lacks of the database (`ReadDb`, `ReadRow`, `WriteRow`, `AddLoad`,
`AddSave`). An upload may fail, or count and lose its answer; a save may fail.
`Tick` is time, in units of the 30 s check, with the daily gate shortened.

`doubled` and `lost` are histories naming each way in which the code counts a
token again or drops one: *lost answer*, *unsaved* (the save after an upload
failed), *race* (two processes upload the same pending count), *retry* (an
upload fails, its delta is saved and still owed: finding), *row* (a command
finds database and row out of step, between `ToDb` and `ToRow` of a server);
*killed*, *unsaved*, *blind* (see UserConfig). The properties say there is no
other. Left out: several branch databases of one project, a shutdown that
overlaps a call after the drain of 5 s, database writes that fail.

### McpServer, RequestService (`src/mcp/server.rs`)

`lines` and `responses` are the two channels of the loop, `loop` its place,
`call[r]` how far the handling of request r is. The loop parks, and wakes for a
line (`TakeLine`), the end of input (`InputCloses`, `ResponsesEnd`, `Leave`), an
answer (`WriteResponse`), a signal (`Stopped`) or the idle deadline
(`DeadlinePasses`, then `IdleExit`, which tests what runs in two halves). A read
is spawned with a permit (`FreePermit`, `SpawnTask`); an edit is handled in the
loop. A call on the local graph goes through `TakeLease`,
`maybe_reindex_on_version_bump`, `maybe_sync_if_stale` or `StopWaiting` (its
budget), `Dispatch`, `Release`; every handler may `Panic`. `Drain` and
`Shutdown` end the server. `CatchUpEnds`, `LazySyncEnds` and `ReindexEnds` are
the detached work, which need not end.

`RequestService` is what a client may rely on, without tasks, channels, counters
and lease: a queue of requests and, per request, whether it is queued, worked
on, ready to be answered, answered or dropped. Requests are taken up in the order
sent and once each; reads go on side by side up to a limit, and nothing is taken
up during an edit; an answer is given once. An end of input leaves nothing
undone or unsaid, idleness nothing undone, a signal no edit. `McpServer` implements
it: `Waiting` puts the read that waits for a permit back in front of the channel,
and `Progress` reads the stage of a request off its handler, the channel of
responses and what was written; an answer that were written and still in the
channel is at no stage of the service, so that a second writing of it would be
seen. What the service does not promise is that an edit waits for the reads under
way (finding 9).

What the model shows of the code beyond the properties: the panic of a spawned
call leaves it counted in flight for ever, so such a server is never idle (the
exception in `SilentServerLeaves`); an idle exit may cut a re-index that a call
started between the two halves of the test, or drop an answer that is computed
and not yet written; an exit may cut a lazy sync although server.rs:1418 says
that an in-flight sync is never dropped part-way. Left out: notifications, pings
and parse errors (answered at once, no state), the 30 s cooldowns, panics of
calls in the loop, the opt-out of the budget, writes that fail while the client
is there.

### BranchContext (`runtime.rs`, `mod.rs`, `guard.rs`, `indexing.rs`, `staleness.rs`, `src/branch.rs`)

`tree` is the state of the working tree: what is checked out, and a stamp that
grows with each checkout, which stands for the mtimes. A database holds the set
of tree states its rows were read from (`rows`), may be `torn`, and the project
has one `dirty` file. A server has the handle it started with (`initial`) and
the one the lease published (`current`), and two tasks: the call that holds the
lease, and the server's own (start, catch-up, lazy sync). `Lease` keeps,
refreshes or switches the handle; a switch is `AutoTrack` (with the copy of a
parent's database, torn if somebody is writing it), `Open` (which recovers if
it finds the sentinel), a sync, `Publish`. A sync is `AwaitLock, Check` (the
first comparison with the checkout), for the targeted one `Prune`, else `Begin`
(sentinel) and `Scan`, then `Read`, `Confirm` (the second comparison) and
`Write`; the two kinds do read and compare in different orders, as in the code.
`Checkout` and `Crash` happen at any moment.

`foreign[b]` names how rows of another checkout came into b's database:
*copied* from the parent, *borrowed* (a fallback handle serves and syncs another
branch's database, against runtime.rs:46-47), *back* (git left and returned
between the two comparisons), *late* (the full sync compares before it
extracts and not after, indexing.rs:1486 and 1625, although guard.rs:316-317
asks to never start writing a different checkout into the old index), *pruned*
(the targeted sync removes deleted files before its second comparison).
`unmarked[b]` names how a torn database came to lack the sentinel: a *targeted*
sync writes none, a write on another branch *cleared* it for the whole project,
or the torn state was *copied*. `ForeignRowsExplained` and `TornIsMarked` say
that there is no other way. Left out: projects without branch metadata, the
limits on automatic syncs, the dispatch metadata, version re-index and
migrations, gc (BranchStore), other processes' syncs, failing database writes.

## 4. What the runs show

| run | instance | states | shows |
|---|---|---|---|
| sync_lock | 3 processes, 1 poll | 40 thousand | exclusion until an eviction, own file, no eviction on a fresh reading, every attempt ends, refinement of AdvisoryLock |
| sync_lock_race | 2 processes | | two guards at once (finding) |
| graph_faults | 2 processes, 2 files, 1 version, all operations and faults | 1.2 million | the sentinel marks every torn graph but the three kinds of `lost`; it stands over every writer; a full index repairs |
| graph_versions | 1 process, 2 files, 2 versions | 79 thousand | an unmarked graph is not torn; a sync records what it scanned; every operation ends |
| freshness | 3 contents, 2 of equal size, 4 mtimes, all operations | 267 thousand | skipped rows are right but for the raced ones, quiet syncs end fresh, stale rows are refreshed |
| branch_store | 2 processes, 1 of them a server, 3 names with one readable file, 3 commands | 590 thousand (up to symmetry) | branches share no file but the moved ones, tracked branches keep their file, no update is lost between commands with a common lock, gc spares what it must |
| worker_pool | 2 threads, 3 files | 43 thousand | a file is in one place, workers are fresh, only whole batches are written as such, the pool returns |
| user_config | 2 instances, 1 agent, 2 preferences, 4 edits | 311 thousand | counts add up, saves store their own edits, the upload time advances, garbage is kept |
| token_ledger | 2 servers, 1 command, 2 tokens, 5 instants | 3.0 million (up to symmetry) | no token lost or counted twice but in the named ways |
| token_retry | 1 server, 1 command | | a failed upload counts its tokens twice (finding) |
| mcp_server | 2 snapshot reads, 1 local read, 1 edit, 2 permits | 263 thousand | end of input answers all, idle exit abandons no call, checkpoint after the calls, the server leaves, refinement of RequestService |
| branch_context | 2 branches and a detached HEAD, 3 checkouts, 1 crash | 1.4 million | foreign rows and torn databases only in the named ways, published handles fit, calls follow the checkout |

Seven further configurations are counterexamples that belong beside the runs:
TLC finds the property of each violated, with the code as it is.

| configuration | module | property | what happens |
|---|---|---|---|
| MCGraphTargeted | MCGraphIndex | NoSilentPartialGraph | a targeted sync that fails leaves no mark |
| MCGraphResync | MCGraphIndex | SyncRedoesAbandonedWork | a sync clears the mark of work it did not redo |
| MCGraphDrift | MCGraphIndex | SyncConverges | syncs bind a reference differently from a full index |
| MCFreshRace | MCFileFreshness | EditsAreSeen | an edit during the parse is hidden |
| MCFreshBackdated | MCFileFreshness | ChangesArePickedUp | the lazy sync overlooks a file with an older mtime |
| MCBranchServed | MCBranchStore | GcSparesServed | gc deletes the database of a server that followed a checkout |
| MCServeOrder | McpServer | EditsRunAlone | an edit overtakes reads that arrived before it |

One more passes: MCGraphTwo checks `UnmarkedIsNotTorn` on three files, two of them
candidates for the third's reference, with failures and crashes (2.3 million
states): where MCGraphDrift finds syncs to drift, nothing is torn.

The type invariants of SyncLock, GraphIndex, FileFreshness, WorkerPool, UserConfig,
McpServer and BranchContext are not repeated in the runs: they are proved (section 6).

Why the bounds are enough. Exclusion breaks with two processes; a third is
there to take the lock between an unlink and the second create. In GraphIndex a
second process matters because it probes, opens and recovers while the first
writes; two files are the referring and the referred-to one; drift needs a
third, a second candidate. A second version matters only for an edit between
the scan and the extraction, so it has its own run, with one process. In
FileFreshness, four mtimes are the first one and three writes: one before, one
during and one after an operation. In BranchStore three commands are one that
is overtaken, one that overtakes it and one, of git or a server, that changes
what gc looks at; three names are two that claim the readable file and the
default. The symmetry permutes the names together with their hashed files.
In WorkerPool two threads share a queue of three files, so that one thread
takes a second file with a worker that answered, was killed or was replaced,
and the other is in any place meanwhile. Two instances of UserConfig are the
saver and the one overtaken; four edits let each edit twice, which the save
after a merge needs. In TokenLedger two servers and a command are one of each
pair that can race; two tokens are one uploaded and one owed; five instants
cross the gate of three and the retry after two. `OneWrong` ends a behaviour
after a second thing named by `doubled` or `lost`: from the first on both
balances are excused on one side. Two permits for three reads make one wait.
Three checkouts are one before, and a leaving and returning during, an
operation.

Deadlock is not checked in any run: a project at rest with every bound used up
is a legitimate end.

Fairness. `SyncLock!FairSpec` and `GraphIndex!FairSpec` schedule the steps of a
running operation (weakly: a step stays enabled until it is taken); nobody is
obliged to start an operation or to die. `FileFreshness!FairSpec` also assumes
that the lazy sync is asked again and again, as it is by every tool call after
the cooldown; nobody is obliged to run an index or a sync, to edit or to time
out. `WorkerPool!Spec` lets threads, timers and the caller run on, and a worker
exit when its stdin is closed; nothing makes a worker answer.
`McpServer!FairSpec` schedules every task that can run (tokio does), and takes a
wake-up that comes again and again; clients, signals and detached work are under
no obligation, and `SilentServerLeaves` assumes, as its premise, that the
detached work does end. `BranchContext!FairSpec` schedules the two tasks and
says that calls keep coming; the checkouts are bounded, so git comes to rest.
`UserConfig` and `TokenLedger` promise nothing that needs fairness.

`lost` in `PartialIsMarked` is not an escape for everything: it is set only
where a targeted sync is cut short after its first write, an incremental
operation starts on a graph that is already marked (and will clear the mark),
or the resolver's node load fails and is taken for an empty list
(`unwrap_or_default()`, indexing.rs:1715 and 1185). The first two are named in
section 5; the third contradicts the same contract in the same way.

## 5. Findings

Listed, with a run each:

1. **The sync lock can be held twice** (`sync_lock_race`, guard.rs:172): a
   contender reads the lockfile between its creation and the write of the pid.
2. **A failed upload counts its tokens twice** (`token_retry`, server.rs:1671):
   `maybe_flush_worldwide` saves the pending count with the delta in it and
   leaves `last_flushed_tokens` where it was, which its own comment
   (server.rs:1633-1637) gives as the reason not to save.

Where the code and a text of the repository disagree, with the configuration
that shows it:

3. **A failed targeted sync leaves no mark** (`MCGraphTargeted`,
   indexing.rs:1023): docs/reliability/CRASH-RECOVERY-CONTRACT.md:11 says that
   no failed operation silently exposes a partial graph.
4. **A sync does not redo what an abandoned one left** (`MCGraphResync`,
   indexing.rs:1816), against cancel.rs:13-16: a sync never reads the sentinel,
   finds the rows up to date and clears it. Only a new open repairs.
5. **Syncs drift from a full index** (`MCGraphDrift`, indexing.rs:1700), against
   indexing.rs:600-604: resolution is skipped when nothing was extracted, and
   never removes an edge that a better candidate has displaced.
6. **An edit during the parse is hidden** (`MCFreshRace`,
   extraction_worker.rs:155), against CHANGELOG.md:610.
7. **The lazy sync overlooks older files** (`MCFreshBackdated`,
   staleness.rs:124), against docs/guide/INDEXING.md:63.
8. **gc deletes the database of a server that followed a checkout**
   (`MCBranchServed`, branch/gc.rs:92), against branch/gc.rs:66-68: the registry
   keeps naming the database the server started with.
9. **An edit overtakes earlier reads** (`MCServeOrder`, server.rs:2038), against
   CHANGELOG.md:176: the loop handles it without waiting for spawned reads.
   Reads of the local graph queue for the branch lease, so the overlap remains
   for reads of graphs they name.

Named as an exception in a property, and found reachable that way: *borrowed*
and *late* rows (BranchContext), the *blind* first save (UserConfig), *race* and
*row* double counting (TokenLedger).

## 6. What is proved

For every value of the constants that meets the named assumptions:

* `SyncLockProofs` (`LockAssumption`): types, `HolderOwnsFile`,
  `ExclusiveUnlessEvicted`, `FreshReadingNeverEvicts`, and the refinement of
  `AdvisoryLock`. The inductive invariant says that until an eviction the
  linked file belongs to every process that is inside, and that a file's pid is
  empty or its creator's: exclusion alone is not inductive, because `Release`
  and `Unlink` remove a path and not a file. `AttemptsRunDown` is the part of
  `AttemptEnds` that needs no fairness: every step of an attempt lowers a natural
  number, four for each poll that is left and the place, and no other process
  raises it.
* `GraphIndexProofs` (`GraphAssumption`): types, `WriterIsMarked`,
  `FullIndexRepairs`, `SyncCoversScan` and, with the hypothesis `OneCandidate`
  (every reference has at most one candidate, as in the run), `PartialIsMarked`.
  The invariant relates the step of the holder of the lock to the operation in
  `job` and, along the full index, says step by step which tables are already
  whole: a table is only known to be whole because the clear emptied it first.
  Along a sync (`ProgressOf`) the graph is whole except for the files it has in
  hand (`WholeBut`), of which no edge is stored until the queued edges and the
  resolution at the end; a sync that has nothing in hand has not begun to write
  (`BatchOf`), so that an interruption that leaves no mark leaves a whole graph.
  Without that hypothesis `UnmarkedIsNotTorn` says what is left: an unmarked graph
  has no half-written file and no edge to a file that is gone, and can differ from
  a full index's only in which candidate a reference is bound to and whether it is
  bound. That it does differ, with two candidates, is finding 5 of section 5, so
  that the hypothesis of `PartialIsMarked` cannot be dropped.
  `OperationsRunDown` is the part of `LockReleased` that needs no fairness: every
  step of an operation lowers a natural number (at most six for each file still
  to be removed or rewritten, and the place in the sequence), and edits and other
  processes leave it alone. It rests on the number of files being finite
  (`GraphAssumption`), on the job's lists only shrinking after the scan, and on
  `BatchOf`, by which a file just deleted or rewritten is one of the job's.
* `FileFreshnessProofs` (`FreshnessAssumption`): types, `StampTellsContent`, `SyncEndsFresh`.
  The invariant says that every mtime in a row, a record or a scan was carried
  by some write, and that a record whose read is still calm describes the file;
  the proof shows that the touch path is sound because it stores the stat of
  the scan, which is older than the read. `SyncEndsFresh` follows from
  `UndisturbedSync`: until the next edit, what a sync has in hand belongs to the
  content its scan saw, and a skip is justified by `StampTellsContent` or is
  that of a raced row.
* `BranchStoreProofs` (`BranchAssumption`, `ProcAssumption`): types, with the
  default always tracked, `OwnFiles`, `TrackedHasFile`, the refinement of
  `BranchTable`, and `GcSparesOthers`. One inductive invariant (`IInv`) carries
  all five. Its core is `Working`: a running command holds its locks, so
  nothing they exclude has overtaken it; and as long as nothing has, the copy
  it will save is one whole command applied to what the file says now
  (`Current`), and what gc has condemned is the unshared file of the branch it
  drops (`Careful`). `Steps` shows that every command starts that way,
  `BystanderWorks` that a step of another process leaves it so.

* `WorkerPoolProofs` (`PoolAssumption`): types, `FileInOnePlace`,
  `FreshWorkerForEachFile`, `WritesWholeBatch`. The invariant (`ThreadInv`) ties
  each thread's place to its worker, pipe and watchdog; a killed worker is
  either still to be judged or its thread has given up.
  `PoolRunsDown` and `NoThreadIsHeldUp` are the safety half of `PoolReturns`: the
  steps that are left are bounded by the files not yet taken, and a thread
  that waits for an answer, for its watchdog or for its worker finds what it waits
  for, or a watchdog still running that brings it about.
* `StateFileProofs` (`FileAssumption`, `LedgerAssumption`), in three parts.
  `UserConfig`: types, `PendingIsSum`, `SavesExactlyOwnEdits`,
  `UploadTimeNeverGoesBack`, `GarbageNeverOverwritten`, and two laws of the
  merges: saves that count commute, a save without edits stores nothing.
  `EditsOf` says that what an instance has in memory is its baseline changed by
  its history of edits, which is what makes a merge exact.
  Sums: what `SumFunction` of a function on a finite set is when the set is
  empty, one value changes, or all are zero. The induction over the subsets of a
  finite set is the well-foundedness of strict inclusion (`SubsetInduction`),
  stated about the set of subsets for which a claim holds and not about an
  operator.
  `TokenLedger`: types, `NothingLost`, `NothingCountedTwice`, and what they come
  to when every process has ended. The two balances are not inductive: `StepInv`
  adds what a process in the middle of a flush holds: before the upload what it
  loaded and what it owes, between upload and save either still that, or nothing
  and exactly that much sent; and that a process which loaded a file finds one
  when it saves. Each step is then shown to move the balance by no less than what was earned unless
  it enters a name in `lost`, and by no more unless it enters one in `doubled`
  (`Accounted`), looking at its own process only; that the balance moves by that
  much is a fact about sums (`SumMoves`).
* `McpServerProofs` (`RequestAssumption`): types, `EndOfInputAnswersAll`,
  `IdleExitAbandonsNoCall`, `CheckpointAfterCalls`. A request is in one place
  from the channel to the client (`AnswerInv`), and every spawned call that is
  handled is counted before the loop can look at the count (`BusyInv`).
  `ServesAsPromised` is the refinement of `RequestService`. It needs `OnceInv` in
  addition: no request is twice in a channel, or in a channel and at a stage that
  has left it behind, and every read under way holds a permit. There is a lemma
  for each step of the loop and one for all steps of a call, of which the client
  sees only the end of the work.
* `BranchContextProofs` (`ContextAssumption`): types, `TornIsMarked`,
  `ForeignRowsExplained`, `PublishedFits`. `Base` says what each task may hold
  at each place and that a handle names a branch whose database it opened;
  `Watch` that the lock is held through a write and that a job has kept count of
  the checkouts since its first comparison, so that a second comparison that
  succeeds leaves only the named ways for foreign rows.

Only model-checked: everything about liveness (`AttemptEnds`, `LockReleased`,
`StaleRowIsRefreshed`, `PoolReturns`, `ClosedConnectionEndsServer`,
`SilentServerLeaves`, `FollowsCheckout`), which is out of the prover's reach, and
the violations of section 5. Every safety property that a run checks is proved.
For the first, second and fourth of the liveness properties the arguments from
which they follow by fairness are proved too, as measures that every step lowers:
`AttemptsRunDown`, `OperationsRunDown`, `PoolRunsDown`. That a measure which is
lowered again and again reaches its end is the step left to TLC, because it needs
fairness and ENABLED.

Assumptions the results rest on: a pid is not reused while a lockfile names it;
SQLite commits are atomic and durable; two writes of a file have different
nanosecond mtimes; equal hashes are equal contents.

## 7. Not modelled

Most of the repository's lines compute and do not coordinate. The extractors
(some 65,000 lines of tree-sitter walks), the definitions and handlers of the
MCP tools, the integrations that rewrite the configuration files of twenty
agents, reports, rankings, price sums and formatting are sequential functions of
their input: a model of them would restate them, and an example tests them
better. The share of the lines that the models stand for is therefore small and
will stay small; what they cover is the code in which two processes, two tasks or
a failure meet.

Of the code that does coordinate, these parts are left out, and why: migrations
(each is one exclusive SQLite transaction, what can be wrong is its SQL); the
fetches of `cloud.rs` with their cooldowns (only what is displayed depends on
them); the download and replacement of the executable (`upgrade.rs`: external
services); the monitor's ring buffer (one write under a file lock, read only to
be displayed); the profiler. The
limits of each model are named in its part of section 3.
