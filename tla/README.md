# Formal models of luci-app-mihomo

TLA+ modules, TLC configurations and TLAPS proofs for the panel of
luci-app-mihomo: the Go service `luci-mihomo` (`src/src`), the LuCI pages
(`src/htdocs`), the ucode bridge (`src/ucode`) and the init scripts
(`src/root/etc/init.d`) with which it edits and controls Mihomo on an OpenWrt
router. Source paths below are relative to the repository; `config.go` and the
other Go files without a directory are in `src/src/internal/panel/`.

## 1. The system

The panel is one process that procd keeps running. It listens on a Unix socket;
pages in the browser reach it through the LuCI bridge. It edits the
configuration of a second process, Mihomo, which procd runs too, reads Mihomo's
controller over another Unix socket and keeps statistics in a bbolt database.

| Part | State | Operations | Interacts with |
|---|---|---|---|
| Configuration manager (`config.go`) | base (`config.base.yaml`), draft and active overrides, effective `config.yaml`; `.transaction.json` and `.backup-N` while a transaction is open; a mutex | `initialize` (recover, create, reconcile), `Config`, `Override`, `Preview`, `SaveDraft`, `ApplyBase`, `ApplyOverrides`; inside them `commit`, `beginTransaction`, `restoreTransaction`, `finishTransaction`, `recoverTransaction`, `waitHealthy`, `rollbackAfterReload` | files, `mihomo -t`, the init script, the controller |
| File primitives (`files.go`) | none | `atomicWrite`, `copyFile`, `syncDirectory`, `readLimitedFile` | the file system |
| Service control (`service.go`, `init.d/mihomo`) and Mihomo | procd's instance; what the process has loaded; a pending SIGHUP | `Running`, `Action` (start, stop, restart, reload), procd's respawn | effective file |
| HTTP application (`app.go`) | none beyond its parts | a handler per route; `serviceAction` runs beside the manager's mutex | everything |
| Process lifecycle (`main.go`, `init.d/luci-mihomo`) | the socket, the context | start, SIGTERM, `Shutdown`, procd's respawn | everything |
| Collector (`collector.go`) | overview, known connections, rules, a backoff per stream | traffic, connection, metadata, memory, log and flush loops | Mihomo client, StatsStore, LogRing |
| StatsStore (`stats.go`) | pending minute and day accumulators, two database buckets | `RecordSample`, `RecordClosed`, `Flush` (which prunes), `History`, `Aggregates`, `Clear`, `Close` | Collector, handlers |
| Log ring and log page (`logring.go`, `view/mihomo/logs.js`) | bounded ring with sequence numbers; the page's cursor and entries | `Add`, `Query`; poll, filter, clear | Collector, browser |
| YAML merge (`yamlmerge.go`) | none (a pure function) | `mergeYAML`, its operators on keys, arrays and maps | Configuration manager |
| Override and configuration pages (`overrides.js`, `config.js`) | edited items, revision, digest of the preview, dirty flag | load, edit, save, preview, apply | bridge |
| LuCI bridge (`mihomo.uc`) | none | forwards a request; its timeout | pages, HTTP application |
| Mihomo client, overview page, API helpers, editor, packaging | see `components` in `PROJECT.json` | | |

### What is hard, and what correctness means

*Configuration manager.* One apply replaces two files and reloads a process; any
step may fail, the panel may die between any two steps, and the service is
controlled by others at the same time. Correct means: a change of several files
is seen whole or not at all; an error leaves the files as they were; after any
crash the next start resolves what was left; the effective file is always what
base and active overrides merge to; the running Mihomo uses that file.

*Service control.* `Running`, the reload and the health check are read at
different times and act on a service that `serviceAction`, procd and an
administrator change. A reload is a signal: it is handled later.

*Pages and bridge.* Several browsers edit the same base and the same draft;
answers arrive late, after further edits, or never, while the operation behind
them goes on. Correct means: no lost update, and what is applied is what was
previewed.

*Collector and StatsStore.* Two loops and the handlers share state; a flush may
fail after taking what it flushes; clear, prune and close race with it. Correct
means: every closed connection is counted once, nothing is lost or doubled.

*Log ring and page.* A cursor that outlives the ring it points into, polls in
flight when the filter changes. Correct means: each matching entry is shown once.

*YAML merge.* Results depend on the order of overrides and keys. Correct means:
the effective text is a function of base and overrides with the documented
meaning of each operator.

`PROJECT.json` lists these as `hazards`, each at its line.

## 2. The modules

| Module | Content |
|---|---|
| `ConfigFiles` | the four files, what may be in them, `InSync`, the state of a fresh installation |
| `AtomicConfig` | the abstract specification: the four files are one value that whole operations change |
| `ConfigTransaction` | `config.go` with the init scripts and Mihomo, step by step; properties and the inductive invariant |
| `ConfigTransaction_proofs` | the theorems about the files, and the refinement of `AtomicConfig` |
| `ConfigService_proofs` | the theorems about what Mihomo has loaded |
| `ConfigSessions` | the two configuration pages in several browsers, the bridge, and the manager's operations as single steps with their checks of revision and digest |
| `ConfigSessions_proofs` | the theorems about it |
| `YamlMerge` | `yamlmerge.go`: the merge of override lists into a base, entry by entry, and what the documentation says of it |
| `YamlMerge_proofs` | the theorems about it, for documents of any size and depth |
| `Recursion` | that recursive functions over the natural numbers exist, and induction over sets of numbers, for the proofs about the merge |
| `LogPage` | `logring.go` and `logs.js`: the bounded ring and a page that polls it |
| `LogPage_proofs` | the theorems about it |
| `StatsLedger` | the abstract specification of the statistics: where each recorded connection is, with a flush as one step |
| `StatsStore` | `stats.go`: accumulators, flush, limits, pruning, clear, close |
| `StatsStore_proofs` | the theorems about it, with a lemma for each operation, and the refinement of `StatsLedger` |
| `Collector` | `collector.go`: extends `StatsStore` with the loops that feed it, Mihomo's connections and the stop of the panel |
| `Collector_proofs` | the theorems about it, from the lemmas of `StatsStore_proofs` |
| `MCConfigTransaction`, `MCConfigSessions`, `MCYamlMerge`, `MCLogPage`, `MCStatsStore`, `MCCollector` | the instances TLC checks |

`ConfigFiles` is shared by the two models of the configuration, and so is
`AtomicConfig`: `ConfigTransaction` shows that a journalled commit implements its
operations, `ConfigSessions` uses them as single steps and shows that pages and
bridge add no other change. `StatsStore` implements `StatsLedger`, and `Collector`
extends `StatsStore`. `YamlMerge` and
`LogPage` stand alone; the former computes what `ConfigFiles` takes as `Merge`.

### How `ConfigTransaction` corresponds to the code

The mutex `manager.mu` serialises the manager's operations, so the panel is one
sequential process: `pc` says where it is, `then` what the running finish or
restore belongs to (a commit, its abort, a rollback after the reload, or a
recovery), `caller` whether `initialize` or a handler runs.

| Variables | Code |
|---|---|
| `file`, `backup`, `journal` | `/etc/mihomo`: the four files, `.backup-0` and `.backup-1`, `.transaction.json` (empty when there is none) |
| `changes`, `record`, `at`, `failed` | `commit`'s argument, the `transactionRecord` in memory, the index of the running loop, whether `failures` is not empty |
| `wasRunning` | the result of `service.Running` that the operation goes on with |
| `reply` | the last answer: refused, saved, applied, failed, rolledBack |
| `running`, `loaded`, `hup` | procd's instance, the text Mihomo has loaded, a SIGHUP it has not handled |
| `before`, `faults` | history: the files when the transaction or request began; number of faults so far |

`initialize` is `Start`, `RecoverTransaction`, `ProbeRecovered`, `CreateMissing`,
`AllPresent`, and then one of `CreateEffective`, `UpToDate`, `ReconcileRefused`
and `Reconcile`. A handler is `Refuse`, `SaveDraft`, `ApplyBase` or
`ApplyOverrides`. `commit` is `Probe`, then `Backup` for each file and
`WriteJournal` (`Discard` is the deferred clean-up when either fails), then
`WriteFile` for each file, `Written`, and, if the probe found the service
running, `Reload` and `Healthy` or `Unhealthy`; `RemoveJournal` and `Clean` are
`finishTransaction`, `RestoreEntry` and `AllRestored` are `restoreTransaction`,
`Restart` is the restart of `rollbackAfterReload` and of `initialize`.
Concurrent with these are `Crash`, `HandleReload` and `ServiceEventHappens`.

Each operation on one file is a step, and `Try` gives it three outcomes: it
happens; it returns an error without effect (`MayFail`); it returns an error
after its effect (`MayFailLate`), which is what `atomicWrite` does when the
rename succeeded and `syncDirectory` failed. Removing backups ignores errors, so
`RemoveBackups` removes any of them. Which steps may fail, and what may happen
to the service beside the manager, are constants.

Abstracted: documents and override lists are abstract values and the merge is a
function of both (`Merge`); validation and the checks of revision and digest,
which change no file, are the action `Refuse`; temporary files, permissions and
message texts are left out. The file system loses nothing in a crash. That is
true of a power failure too as far as the code goes: `atomicWrite` and the
removal of the journal return only after `syncDirectory`, so of the operations
of a transaction only the last one and removals of backups can be undone by it.

### How `ConfigSessions` corresponds to the code

A page's `content` is what its editors hold, `revision` is `data.baseRevision`
or `state.draftRevision`, `dirty` and `preview` are its fields (`previewDigest`,
`previewDraftRevision` and the panel with the merged text are always set
together). A revision, which is a SHA-256, is modelled by the content it hashes,
the digest of a preview by base and draft, of which the effective text is a
function. `filled` and `seen` are history: the document an editor was last
filled with, and what a user had before him when he gave an order.

`SaveDraft`, `Preview`, `ApplyOverrides`, `ApplyBase`, `Reload` and `Edit` are
the buttons and editors of `overrides.js` and `config.js`. `setBusy` disables a
button while its order runs, so an order of a page does not overlap itself,
except "reload", which has no such guard, and "apply" of an override page, whose
button `updateState` enables again; different orders of a page may overlap.
A request is a message in `pending` from `Send` until the page has handled its
answer (`ReceiveSaved`, `ReceivePreview`, `ReceiveDocument`, `ReceiveApplied`;
a preview with unsaved changes and an apply send a second request, `Follow`).
In between the manager executes it (`Execute`: the handler with `Accepted`, its
checks, and the change of the files) or refuses it or fails (`Fail`). The bridge
may give up a request that is not executed yet (`GiveUp`): the page gets an
error, the operation stays in `lost` and is executed later or never
(`ExecuteLost`). It may also lose an answer (`LoseAnswer`).

### How `YamlMerge` corresponds to the code

A document is a sequence of entries, in the order of `yaml.Node.Content`, and may
repeat a key; a key is its sequence of characters, because the operators are
characters of it. `ParseMergeKey`, `MappingIndex`, `SetMappingNode` and
`MergeMapping` are the functions of these names, `MergeEntry` the body of the
loop with `MergeArray` its case for `+key` and `key+`, `MergedUpTo` the loop. A
step `MergeOverride` is one round of `mergeYAML`'s loop, `Finish` sets
`external-controller-unix`.

`mergeMapping` calls itself for the mappings in mappings. The model counts the
levels: `Merging[n]` is the function for mappings with at most `n` levels in
them, and `MaxDepth` is how deep a document nests, which the vendored parser
bounds by 10000 (`max_flow_level` and `max_indents` in `scannerc.go`).

Below the second line, `Documented` says what the documentation promises, in a
different shape. The meaning of a document (`Said`) has no order and no
positions: it is a set of named values, and of several entries with one name the
first counts. What an override makes of a name depends on the current value of
that name and on the entries that name it, and on nothing else (`OverriddenUpTo`).

Left out: an alias is a leaf (the code looks at the kind of a node, so an alias
in the base is replaced and not merged), and the reading and writing of text.

### How `LogPage` corresponds to the code

An entry's sequence number is its place in `log`; the ring's slice is `oldest ..
next - 1`. `Add` is one call under `ring.mu`: its loop drops the shortest prefix
after which the rest fits (`Fits`). A query is a message in `polls`: `Serve` is
`Query` under the read lock, with `Answer` the longest prefix of the matches
within the limit and `LatestCursor` the cursor returned with it. `TimedPoll` is
LuCI's `poll`, which does not call a function whose last promise is pending;
`ResetQuery` and `TogglePause` start polls of their own, which may overlap it.
`shown` is history: all the page received since the last reset. So `clearLocal`
and the limit of 2000 lines on display, which leave the cursor alone, have no
action. `Restart` is a new process of the panel with a new ring: requests that
were not answered fail, an answer that was sent may still arrive and set the
cursor, and the numbers in `shown` no longer name anything.

`disturbed` is history too: polls overlapped or the panel restarted since the
last reset. The code makes no promise then: two polls with one cursor add the
same lines twice, and a poll that was under way when the filter changed adds
lines of the old filter and moves the new query's cursor.

### How `StatsStore` and `Collector` correspond to the code

The fields of `StatsStore` and the two bbolt buckets are `pendingMinutes`,
`pendingDaily`, `storedMinutes` and `storedDaily`. An aggregate is modelled as
the bag of the connections it counts; its count and its totals are sums over
that bag, so two aggregates are added exactly where bags are. A minute's point is
an average; the model keeps the number of samples it averages. `store.mu` makes
an operation one critical section (`holder`). `RecordClosed` takes a step for
each dimension and `flushLocked` one for each entry of the map it took, in any
order, because Go iterates over maps in any order and both loops have limits
that depend on what came before. `Take` replaces the maps, `FlushSlot` is one
iteration on the bucket as the transaction sees it (`tx`), `Commit` prunes and
commits, `Fail` rolls back and merges the maps back. `Close` is a flush whose end
closes the store; `Gone` and `Open` are the death and the next start of the panel.

`StatsLedger` is what all this amounts to for a connection in a dimension: it is
in one `place`, `none`, `memory`, `stored` or `gone`, and moves by `Count`, `Flush`,
`Clear` and `Die`. It knows neither slots nor limits nor loops, `Flush` is one
step, and only what is older than the retention may go in one. In the store a
pair is `stored` if the bucket has the connection in a slot of the dimension, in
`memory` if a pending map or the map of the running flush has it, `none` if it has
not been recorded or its recording has not got to the dimension, and else `gone`.

`pruneStats` moves a bbolt cursor on after each deletion. The vendored bbolt
iterates over the original page of a leaf, unless the transaction has written to
it; then over the node from which the key has just been removed, and the next key
is passed over. What a prune leaves is therefore any set of expired entries
without its first and without two in a row, if there were writes
(`PrunedMinutes`; `PrunedSlots` is coarser, as the order of keys within a day is
not modelled: at most half).

`Collector` adds Mihomo's connections (`live`), the poll that compares an answer
with `previous` and records what is gone one connection after the other
(`PollAnswered`, `RecordNext`, `PollDone`), the poll without an answer
(`PollFailed`), a sample between the moment its time is taken and `RecordSample`
(`TrafficReceived`, `TrafficRecorded`), `FlushTick`, the clearing handler, and
SIGTERM: the context is cancelled and `App.Close` waits for the loops before it
closes the store (`CloseStore`). `connected` is the field both loops set.
Left out: the loops that only keep the last value they got (memory, version,
rules), the log loop, the backoff, and the size of traffic.

## 3. The runs

### Configuration

These use the instance of `MCConfigTransaction`: two documents and two override
lists. A text is a pair of the document a user wrote and of the list merged into
it (`raw` for none), so every mixture of an old and a new file is a different
state: base and effective of two applies never look alike, and an effective file
merged with the draft differs from one merged with the active list. No
transaction of the code has more than two files.

| Run | Faults | Service events | Shows |
|---|---|---|---|
| `crash_safety` | 2, all tolerable ones | all six | the safety properties, the inductive invariant, the refinement and liveness |
| `undisturbed` | 2, without crash, failing restart or failing write | none | Mihomo and the files agree |
| `unsynced_journal` | 1, late failure of the journal | none | finding 1 |
| `user_stop` | none | stop | finding 2 |

`MaxFaults` is the only bound on behaviours; it counts crashes and failing steps
(an unhealthy controller, a stopped service and a backup that stays are not
faults and come without limit). Two faults include a crash during the recovery
from a crash, a failing step followed by a crash in its restore, and two failing
steps of one operation. Operations are not bounded: the state space is finite
because documents are.

`crash_safety` checks

- `JournalRecovers`: as long as a journal is on disk, recovering from it gives
  exactly the files from before the transaction, wherever it, its rollback or an
  earlier recovery has got to;
- `ServingInSync`: when the panel serves, no transaction is open and the
  effective file is the merge of base and active overrides;
- `ErrorsChangeNothing`: an answer that reports an error leaves base, active and
  effective files as they were (a draft whose directory could not be synced may
  have been saved);
- `AppliedIsCommitted`: "applied" is answered only when the new contents are in
  place and no journal is left to undo them;
- `FoundStoppedStays`: a commit, a rollback or a recovery starts no Mihomo that the
  panel's probe found stopped, whatever fails and whatever others do meanwhile;
- `ReloadedIsLoaded`: after an apply that reports a reload, Mihomo, if it runs
  and has handled its signal, uses the effective file, whatever others did. An
  apply whose probe was killed by the request's context writes the files, reports
  no reload and makes none: no property covers it, and no doc says what it
  promises;
- `ImplementsAtomic`: the refinement of `AtomicConfig`, below;
- `TypeOK`: no path ever holds a document of the other kind;
- `JournalResolved`: every journal is resolved;
- `ServesAgain`: once the configuration has been reconciled, the panel serves
  again.

The last two need fairness, so the run uses `FairSpec`: weak fairness of the panel's own steps (`Initialize`
and `Transaction`), which its goroutine and the bounded waits of every command
and request justify, procd's `respawn 3600 5 5` for the start, and weak fairness
of Mihomo's handling of a signal. No handler has to be called and no event has
to happen. procd gives up after five short-lived starts in a row; two faults are
within that limit.

`undisturbed` checks `RunningUsesEffective`: whenever the panel serves, the
running Mihomo uses the effective file, also after a failed reload, an unhealthy
controller or a commit that fails at its last step. Its configuration says what
this needs: nobody else touches the service, the restart works, the probe is not
killed by the request's context, and writes do not fail. The last exclusion is
one of the things found: `commit` restores the files after a failed write
without restarting the service (`config.go:402-407`), so a signal of an earlier
reload that Mihomo handles between the two writes makes it load a text that is
then undone.

### Statistics

`stats_store` checks the store alone, where any connection may be recorded at any
time and the store may be flushed, cleared, closed, reopened or killed. Three
connections with three values (one of them "Other" itself), limits of one key
instead of 512 and 4096, days of two minutes and a retention of one, so that
every limit is reached, exceeded by one, and reached again by a second flush; one
sample and one fault.

- `ReportedOnce`, `ReportedRight`: what `Aggregates` reports counts each
  connection at most once in a dimension, on its day, under its value or "Other";
- `NothingLost`: nothing leaves the reports but by clearing, by the death of the
  process before a successful flush, or by age. Its exceptions are those of the
  code: a clearing that fails has dropped what was pending, and a sample that
  comes after a flush in its own minute starts that minute again;
- `Bounded`: the limits hold, but for "Other" and one entry. With two values beside
  "Other" the limit of what is stored is exceeded by a second flush if it is not
  counted with the first; that of what is pending cannot be, and is left to the
  theorem. With one sample no minute is started again either, so that exception of
  `NothingLost` is not met in this run;
- `Stored`, `ExpiredGone`: what is recorded reaches the database, and what has
  expired leaves it, under weak fairness of the critical sections, of `flushLoop`
  and of the restart by procd;
- `ImplementsLedger`: the store implements `StatsLedger`. It says what
  `NothingLost` leaves open: a clearing that fails, a `Close` whose flush fails and
  the death of the process lose what was in memory and nothing that a flush had
  stored, a recording that is interrupted counts for the dimensions it has done
  or for none, and a store that is closed takes nothing.

`collector` checks the loops with the store: two connections, two days, one
sample, one fault. `ReportedOnce` again, now with the code's own source of
records; `ReportedIsClosed`: a poll without an answer closes nothing;
`NothingDropped`: no record meets a closed store, since `App.Close` waits for the
loops; `SeenIsRecorded`: a connection a poll has seen is recorded after it is
gone; `DisconnectShown`: when Mihomo stays away the overview says so, although
two loops set the same field; `ImplementsLedger`: the ledger holds for the calls the
loops make, so none of them records a connection again. Fairness is strong for the steps that need
`store.mu`: `sync.RWMutex` lets no waiting writer starve. Neither Mihomo nor the
user has to do anything.

`skipped_prune` shows finding 5 in the instance of `stats_store`.

### Pages

`config_pages` has one configuration page, two override pages, two documents and
three override lists, one of which the manager normalizes to another; three
orders in all, two requests under way at a time, and one operation that goes on
after the bridge has given it up. Editing is not bounded. Three orders let two
pages save or apply against each other and one of them retry after a timeout, or
one preview, another page change something, and the first apply. The override
pages, and the documents, are interchangeable (`SYMMETRY`; the run has no
liveness property). `stale_preview` is the same instance without symmetry.

- `NoLostUpdate`: a base or a draft is replaced only on behalf of a user whose
  editor was last filled with the very content that is replaced. It is about
  what the user saw, not about the revision sent with the request, and it holds
  for an operation that is executed after its page got an error and retried;
- `AppliedIsPreviewed`: the active overrides change, and the effective file
  without a new base, only by an apply whose user had this effective text before
  him. Base, draft and active may have changed since;
- `CleanIsStored`: an override page without unsaved changes shows the content of
  the revision it would name. It holds also when the answer of a save throws away
  what was edited since, which no property forbids;
- `TypeOK`, which includes that the four files are in step.

### Merge

`yaml_merge` merges up to two overrides into a base. A base has up to two keys,
one of which may begin with an operator character or be empty, or one key twice;
an override one key in any of the spellings (plain, each operator, escaped,
empty, the socket's) or two that may name the same key, with a leaf, an array, or
a mapping with a key of its own. This is enough for each operator to meet a
missing key, a leaf, an array, a mapping, a repeated key, and the result of an
earlier entry or override. One level of mappings in mappings is enough for TLC;
the theorems hold for any number.

- `MergedAsDocumented`: the loop, with its lookups and updates in place, makes of
  the document what `Documented` says, and refuses exactly what that calls a
  misuse;
- `PositionsKept`: a key keeps its place, also one that the base repeats, and new
  keys follow, each once and none empty;
- `Addressable`: every key that is not empty, also one that looks like an
  operator, can be written so that a given operator applies to it;
- `TypeOK`: the result nests no deeper than what it is made of, and a refused
  merge, which `mergeMapping` leaves half done, leaves nothing.

### Logs

`log_page` has a ring of two entries and three bytes, messages of one or two
bytes, so that either limit drops one or two entries; answers of one entry, two
filters, three lines, one restart and two orders. Lost answers are not bounded.

- `TypeOK`, which includes `WithinLimits`: the ring never holds more entries or more
  bytes than its limits, but for one entry alone that is longer;
- `DropsOnlyExcess`: nor does it drop what it has room for;
- `NothingSkipped`: what the ring still has up to the page's cursor, and the
  filter matches, is shown, as long as nothing disturbed the page. An answer
  that ends at its limit moves the cursor to its last entry, one without a match
  to the newest of all;
- `NothingTwice`: under the same condition an answer's entries are newer than all
  that is shown;
- `EntriesShown`: an entry that matches is shown in the end, unless the ring drops
  it, the user chooses another filter or pauses, or the page is disturbed;
- `CursorHeals`: after a restart of the panel a page with a cursor beyond the new
  ring's numbers follows the new entries in the end. It holds because a query
  without a match answers with the newest number, although it is smaller; the
  entries below it are skipped until the filter changes.

Fairness: LuCI repeats the poll, the panel serves some of infinitely many
requests and the page receives some of infinitely many answers (strong, since
each may be lost). Nobody has to log anything. The run does not check deadlock:
when the bounds are used up and the page is paused, nothing is left to happen.
`yaml_merge` does not either: `Finish` ends it.

### Tolerable faults

`crash_safety`, `undisturbed` and the proofs exclude two kinds of faults, named in
`TolerableFaults`: a rollback that fails (the restore of a file or the removal
of the journal after it), and a late failure, at `syncDirectory`, of writing the
journal, of removing it in a commit, or of a step of a rollback. A recovery at
start may fail in every way; it is repeated at the next start. The first of the
late failures is the run `unsynced_journal`. Of the others the model shows, with
`MayFail` and `MayFailLate` set to them:

- a rollback that cannot restore a file leaves the new ones, and
  `ErrorsChangeNothing` is violated; the text of the answer says that the old
  configuration was restored, its field `rolledBack` that it was not;
- a panel that dies between the removal of the journal and the restart that
  belongs to the rollback leaves Mihomo with the configuration that was undone,
  and `RunningUsesEffective` is violated: the next start finds no journal.

### Findings

1. `unsynced_journal`: `beginTransaction` (`config.go:474-499`) treats every
   error of the journal's `atomicWrite` as "no journal". When the rename
   succeeded and the sync of the directory failed, the deferred function removes
   the backups and leaves the journal. A next start cannot recover from it.
2. `user_stop`: the README (`src/README.md:25`) says of an apply "A stopped service
   remains stopped." Most naturally that is a service which is stopped when the
   apply begins, and of the one that the apply's probe finds stopped it holds
   (`FoundStoppedStays`, in `crash_safety` and proved). `StoppedRemainsStopped`
   takes it of any moment of an apply by a handler: the service is probed once,
   before the files are written; if it runs then, is stopped through
   `serviceAction` afterwards, and the controller does not become healthy, the
   rollback starts it. What a service started after the probe loads is not part
   of this property, nor of another.
3. `stale_preview`: the override page says "Preview is current. Review it, then
   explicitly apply it." (`overrides.js:176`) when the answer to a preview comes,
   also if the items were edited since it was asked for. The edits are neither in
   the preview nor in what is then applied, and the reload after the apply drops
   them. `changed` clears the digest of a preview for just this reason, but only
   one that is there already.
4. `unresolved_operator`: the README (`src/README.md:27`) describes operators and
   escapes of keys at any depth of a recursive merge. Where the base has no
   mapping to merge with, `mergeMapping` inserts the override's mapping as a copy
   (`yamlmerge.go:118`), and `key+`, `key!` or `<key>` in it become names in the
   effective file. Mihomo's own check of the file may or may not notice.
5. `skipped_prune`: the README (`src/README.md:29`) says statistics are "flushed
   periodically, and pruned after 30 days". One flush deletes only every other
   expired entry of a leaf it has also written to (`stats.go:335-353`); the rest
   goes in later flushes.

## 4. The proofs

Every theorem holds for all values of the constants that satisfy the assumptions
named; TLC evaluates the same assumptions for its instances. `ASSUME`s of the
modules only say of which types the constants are. Where a theorem names a
property that a run of section 3 checks, the run shows it on a small instance.
The inductive invariants (`TransactionInv`, `ServiceInv` and the others) were
checked in the same instances when they were written and are not part of the
runs.

### The files: `ConfigTransaction_proofs`

For all documents, override lists, merge functions and numbers of faults, and
for all sets of faults and service events within `TolerableFaults`:

| Theorem | Says |
|---|---|
| `TransactionSafety` | `Spec => []TransactionInv` |
| `TypeCorrect` | `Spec => []TypeOK` |
| `JournalAlwaysRecovers` | `Spec => []JournalRecovers` |
| `AlwaysServingInSync` | `Spec => []ServingInSync` |
| `ErrorsNeverChange` | `Spec => []ErrorsChangeNothing` |
| `AppliedIsAlwaysCommitted` | `Spec => AppliedIsCommitted` |
| `TransactionImplementsAtomic` | `Spec => Atomic!Spec` |

Assumptions: `DataAssumption` and `MergeAssumption` (the merge of a text and a
list is a text; `NoFile` is neither), `FaultAssumption` (the constants are of
their types), and `TolerableFaults`.

*The inductive invariant.* None of the properties is inductive: that a journal
gives back the old files while `WriteFile` overwrites them depends on what
`Backup` copied before there was a journal. `TransactionInv` follows the data
through the transaction, one named part per phase:

- `JournalInv`: the journal names each path once, its backups hold `before`, and
  every file it does not name is untouched;
- `PhaseInv`: at which places a journal is on disk and equal to the record in
  memory, and which purposes a finish or a restore can have there;
- `BeginInv`: until the journal is written no file has changed, and the first
  entries of the record describe the first changes;
- `WriteInv`: which files are new while writing, and all of them afterwards;
- `RestoreInv`: which files are old again while restoring, and all afterwards;
- `RequestInv` and `SyncInv`: the changes are those of one of the three
  operations for the directory `before`, so that committing them gives files
  that are in sync again.

`InitInv` proves it for the initial states; there is one lemma per action
(`BackupStep`, `WriteFileStep`, …) with a step for each part the action can
disturb, and `NextInv` puts them together. `TransactionSafety` is the temporal
conclusion and the other safety theorems follow from it.

*The refinement.* `AtomicConfig` sees `RecoveredConfig`: the directory as
`recoverTransaction` would leave it if the panel died now. While a journal is on
disk that is `before`, whatever the files look like; without one it is the
files. `RecoveredIsView` proves this from the invariant. So of a whole apply only
one step is visible, the removal of the journal in a commit (`CommitImplements`):
that is where the change happens, and `RequestInv` says which abstract operation
it is. The removal of the journal after a restore is a stutter because the files
equal `before`. The creation of files by `initialize` and the saving of a draft
are single steps on both levels (`CreateImplements`, `DraftImplements`), all
others are stutters (`OthersStutter`).

### Mihomo: `ConfigService_proofs`

| Theorem | Under | Says |
|---|---|---|
| `ReloadIsLoaded` | `TolerableFaults` | `Spec => []ReloadedIsLoaded` |
| `RunningIsEffective` | `Undisturbed` | `Spec => []RunningUsesEffective` |
| `FoundStoppedAlwaysStays` | `TolerableFaults` | `Spec => FoundStoppedStays` |

All rest on `TransactionInv`. `ServiceInv` adds that from the reload of a commit
on a running Mihomo without a pending signal has loaded the effective file: the
reload leaves a signal, everybody else who starts or signals Mihomo makes it read
the same file, and the file changes only in the next operation.

`Undisturbed` is what the run `undisturbed` excludes: service events, crashes,
and failures of the restart, the probe and the writes. `UndisturbedInv` says that
Mihomo has loaded the effective file except between the last write and the
reload and during a rollback; that the probe's answer stays right while the
operation lasts; that an abort, which does not restart anything, happens only
when nothing runs; and that there is no journal to recover from, since nothing
dies. So every way out of the exceptions passes a signal or a restart.

`ProbedInv` says that the panel waits for health or restarts Mihomo only where its
last probe found it running, and rolls back with a restart only then. A restart
is the only step of the panel that starts anything (`OnlyRestartStarts`).

### Pages: `ConfigSessions_proofs`

For any number of pages, requests and lost operations and for all documents:
`SessionTypes` (`[]TypeOK`), `CleanPagesAreStored` (`[]CleanIsStored`),
`NoUpdateIsLost` (`NoLostUpdate`), `AppliedWasPreviewed` (`AppliedIsPreviewed`)
and `SessionsAreAtomic` (`OnlyWholeOperations`, `[][Atomic!Next]_config`, which no run
checks: it ties this model, whose manager changes the files in one step, to
`AtomicConfig`, which `ConfigTransaction` implements; what a timeout of the bridge
does is the matter of `NoLostUpdate`). `SessionInvariant` is the
inductive part: a request under way, or lost and still to be executed, names as
revision what its user had before him, an activation the digest of the preview
he saw, and a page without unsaved changes shows the content of its revision. An
operation compares revision and digest with the files in the step in which it
changes them, so what it replaces is what the user saw.

### Logs: `LogPage_proofs`

For every size of the ring, limit of an answer, set of messages and filters:
`LogTypes` (`[]TypeOK`, with the limits of entries and of bytes: the loop of `Add` ends
where the rest fits, and nothing but a restart touches the ring otherwise),
`NoEntryIsSkipped` (`[]NothingSkipped`) and `NoEntryIsShownTwice`
(`[]NothingTwice`), from `PageFollowsRing` (`[]FollowInv`). The last two hold under
the condition their properties name: as long as polls did not overlap and the
panel did not restart since the page's last reset. The invariant says that then
the page's cursor is one the ring has given, everything shown lies at or before
it, and at most one poll is under way. That poll was asked with the page's own filter and cursor, so its
answer takes up just behind what the page shows.

### Statistics: `StatsStore_proofs` and `Collector_proofs`

For all connections, dimensions, values, limits, days and numbers of faults:

| Theorem | Says |
|---|---|
| `StoreSafety` | `Spec => []StoreInv` |
| `StoreTypes` | `Spec => []TypeOK` |
| `NoneCountedTwice` | `Spec => []ReportedOnce` |
| `CountedUnderItsKey` | `Spec => []ReportedRight` |
| `StoreStaysBounded` | `Spec => []Bounded` |
| `NothingIsLost` | `Spec => NothingLost` |
| `StoreIsLedger` | `Spec => ImplementsLedger` |
| `CollectorSafety` | `CollectorSpec => []CollectorInv` |
| `CollectorTypes` | `CollectorSpec => []CollectorTypeOK` |
| `CollectedOnce` | `CollectorSpec => []ReportedOnce` |
| `OnlyClosedReported` | `CollectorSpec => []ReportedIsClosed` |
| `StopDropsNothing` | `CollectorSpec => NothingDropped` |
| `CollectorKeepsLedger` | `CollectorSpec => ImplementsLedger` |

What is reported is the sum of three maps: the bucket, what is pending, and what
a flush has taken. `OnceInv` says that no connection is in two of them, or in two
slots of one, in a dimension. It is not inductive while a flush runs, because
the commit replaces the bucket by what the transaction sees; so it says the same
of a second triple: the bucket of the transaction, what is pending, and what the
loop has still to write (`Remaining`). Between flushes both triples agree, taking
turns the second into the first, and each step of the loop moves one slot from
`Remaining` to the bucket, also when the limit redirects it to "Other".
`LimitInv` relates the counts that the flush caches to the keys there are: a
cached count is never too low. `HolderInv` says that nothing is pending during a
flush, so that putting back after a failure adds to nothing. `KeepInv`, for
`NothingIsLost`, says that what was taken is in the bucket of the transaction
once the loop has done it, and that an orderly stop leaves nothing pending.

The lemmas of `StatsStore_proofs` are about operations, not about when they are
called. `Collector_proofs` uses them for the collector's calls: `PollInv` says that
what a poll will record has neither been recorded nor is open, also when
connections come and go, polls fail and the panel starts again; `StopInv` that
the store is not closed while a poll compares.

*The refinement of the ledger.* One step of a flush is visible, its `Commit`
(`CommitImplements`); taking the maps, writing the slots and putting them back are
stutters, because the map that is being flushed counts as memory
(`FlushingImplements`, `FailImplements`). That the commit moves everything that was
in memory or stored to `stored`, but for what has expired, is `KeepInv` with
`RightInv`, which gives a slot the day on which its connections were recorded. That
it adds nothing else needs one more invariant, `SourceInv`: what the transaction
sees was in the bucket or is in the map it flushes. `RecordDimensionImplements` is
`Count`, since `OnceInv` has the connection nowhere in the dimension yet;
`RecordClosedImplements` is `Record`, which counts nothing in an open store.
`Operation` names everything a caller can make the store do, so that
`OperationImplements` serves both theorems: for the store alone every step of `Next`
is one, for the collector every step of `CollectorNext` (`StepIsOperation`).

### The merge: `YamlMerge_proofs`, with `Recursion`

For every alphabet of keys, all documents of any size and depth, any set of
overrides and any number of them:

| Theorem | Says |
|---|---|
| `TypeCorrect` | `Spec => []TypeOK` |
| `KeepsPositions` | `Spec => []PositionsKept` |
| `MergesAsDocumented` | `Spec => []MergedAsDocumented` |
| `KeysAddressable` | `Spec => []Addressable` |

Assumption: `MergeAssumption`, which says of which types the constants are, that
an unreadable text is no document, and that the socket's key is not empty.

The state machine is the small part: `MergedAsDocumented` and `PositionsKept` are
inductive together with `TypeOK`. What has to be shown is that one call of
`mergeMapping` agrees with the documentation (`Agrees`): both refuse, or the result
extends the target and means what is documented. It is shown in four layers.

1. *Lookup and update.* `IndexFound` and `IndexUnique` say that `MappingIndex` is
   the first place of a key, `SetEntry` that an update gives its key the value,
   changes the first value of no other key, although a key may occur several
   times, and moves none.
2. *One entry* (`ArrayEntry`, `OneEntry`). For each operator, and each kind of
   value it finds and brings, the entry is refused where the documentation calls
   it a misuse, or is an update with a value of the documented meaning. For two
   mappings this uses `InnerAgrees`, the statement for one level less.
3. *The loop* (`LoopInv`). After `i` entries the mapping has the keys of the target
   and those the entries name, and for every key, the loop's value means what the
   entries for that key alone make of it. So one loop over all keys comes to the
   same as a loop for each key (`LevelAgrees`).
4. *The recursion* (`MergeAgrees`). Induction over the levels.

The provers have no induction principle that could be instantiated with a
predicate. `Recursion` states one for sets, `SetInduction`, which is a plain
first-order fact that follows from the well-foundedness of `<`, and a proof by
induction names the set of numbers for which its claim holds. The same module
proves that the equation of a recursive function has a solution
(`RecursiveFunctionExists`, from approximations up to each number), so that the
function its definition chooses satisfies it; this lemma says nothing of the
program. `YamlMerge_proofs` takes an instance for each of its eight recursive
functions (the lemmas `...Equation`).

That every key can be addressed (`SpelledParses`) is case analysis over the rules of
`parseMergeKey`, in their order: the rules before the intended one do not fit the
spelling, whatever characters the key itself has.

### What is only model-checked

The liveness properties (fairness and `ENABLED` are outside what the provers
handle): `JournalResolved`, `ServesAgain`, `Stored`, `ExpiredGone`, `SeenIsRecorded`,
`DisconnectShown`, `EntriesShown`, `CursorHeals`. `DropsOnlyExcess` too: it needs that a
sum over a set grows with the set, an induction over data. The statements of the
violation runs do not hold.

## 5. Not modelled, and the plan

Left out of the modelled parts:

- *Configuration*: the limit of `readLimitedFile` (a base below the limit of an
  upload can merge into an effective file above the limit of a read); the
  contents of documents, which `ConfigFiles` takes as abstract values;
- *Merge*: aliases, which the code takes as leaves, styles and comments, and the
  parsing and writing of YAML by its library;
- *Service and process*: the checks of the secure controller, the socket, the
  order of shutdown, and procd's limit of five short-lived starts;
- *HTTP application*: routing, decoding, sizes and the handlers that only read;
- *Bridge*: the list of endpoints, the limits of request and response, HTTP
  framing;
- *Collector*: the loops that copy a value into the overview (version, rules,
  memory) and the backoff of streams.

Not planned: the Mihomo client and the public address (network input and
output), the overview page, the API helpers and the editor (presentation),
packaging, translations and menus (data).

What would add most next:

1. the streams of the collector with their backoff and the failure that is
   logged once, beside `Collector`: a loop waits with the backoff it had before
   the stream delivered, so that a first success after a long outage can be
   followed by 30 seconds without log lines;
2. the socket and the order of shutdown with procd's limit, beside
   `ConfigTransaction`, whose `FairSpec` takes a later start for granted;
3. late failures of the commit and the rollback (section 3, *Tolerable faults*)
   as runs of their own.

## 6. Running it

In this directory, with TLC, TLAPS and the community modules on the path:

    tlc -workers 2 -config crash_safety.cfg MCConfigTransaction.tla
    tlc -workers 2 -config config_pages.cfg MCConfigSessions.tla
    tlc -workers 2 -config yaml_merge.cfg MCYamlMerge.tla
    tlc -workers 2 -config log_page.cfg MCLogPage.tla
    tlc -workers 2 -config stats_store.cfg MCStatsStore.tla
    tlc -workers 2 -config collector.cfg MCCollector.tla
    tlapm ConfigTransaction_proofs.tla
    tlapm ConfigService_proofs.tla
    tlapm ConfigSessions_proofs.tla
    tlapm LogPage_proofs.tla
    tlapm StatsStore_proofs.tla
    tlapm Collector_proofs.tla
    tlapm Recursion.tla
    tlapm YamlMerge_proofs.tla

`PROJECT.json` lists all runs with the properties each checks, a mutation of a
definition that breaks each property (the operators marked "Faulty variant"), the
source lines each definition stands for, the hazards and the theorems.
