# TLA+ models of the gameap plugin runtime

This directory holds TLA+ models of the WASM plugin runtime under `src/`, the
TLC configurations that check them, and `PROJECT.json`, which records the
components, the runs, the mutants, the map from definitions to source lines,
the findings and the hazards.

## 1. The system (inventory)

| Part | Source | State | Operations | Concurrency |
|---|---|---|---|---|
| In-memory plugin storage repository | `internal/repositories/inmemory/plugin_storage.go` | `entries` (ID → entry), `nextID`, three secondary indexes (plugin ID, key, entity key → ID set), one `RWMutex` | `Save` (via `resolveEntryID`: update by explicit ID, upsert of the natural key, or insert), `Delete`, `DeleteByPlugin`, `Find` (filter, sort, paginate) | every method is one critical section |
| SQL storage repositories | `internal/repositories/{sqlite,mysql}/plugin_storage.go` | a table | `Save` = SELECT, then UPDATE or INSERT; `Delete`, `DeleteByPlugin`, `Find` | no transaction around Save |
| Host storage library | `internal/plugin/hostlibrary/storage.go`, `common.go` | none (bound to one plugin ID) | `Get`, `Set`, `Delete` (Find, then Delete by ID), `List` | calls of one plugin are serialised by its instance; plugins run in parallel |
| Event dispatcher | `pkg/plugin/dispatcher.go` | subscription map (event → `[]*LoadedPlugin`), `subscriptionsOK`, one `RWMutex` | `RefreshSubscriptions` (write lock), `Dispatch` and `HasSubscribers` (read lock) | any number of Dispatch goroutines, Refresh concurrently; guests called while the read lock is held |
| Plugin Manager | not in this repository (spec 4.1) | the registry of loaded plugins | `Load`, `Unload`, `GetPlugins` | its own lock; the Dispatcher borrows its handles |
| ID codec | `pkg/plugin/id.go` | none | `ParsePluginID`, `CompactPluginID` | pure |
| Plugin registry repositories | `internal/repositories/{inmemory,mysql,postgres}/plugins.go` | plugin rows, a `uint32` counter (in-memory) or the table's ID sequence | `Save`, `Find`/`FindAll` (filter, sort, paginate), `Delete`, `Exists` | one RWMutex (in-memory) |
| Domain facades, server control | `internal/plugin/hostlibrary/*.go` | none (repositories not in this repository) | one repository or controller call each | server control may dispatch PRE_/POST_ events |
| env host module | `pkg/plugin/env_host.go` | none | `abort`, `console.log` string decoding | pure |
| Cache, HTTP, log libraries | `internal/plugin/hostlibrary/{cache,http,log}.go` | none | key prefixing, bounded fetch, logging | I/O |

How they interact: a loaded plugin calls the host libraries; the storage
library turns each call into repository calls bound to the plugin's numeric ID
(derived from its info ID by the ID codec). The host calls guests through the
Dispatcher, which borrows `LoadedPlugin` handles from the Manager. A guest
that drives server control can re-enter the Dispatcher.

The hard behaviours: the storage library's Delete is two critical sections;
Save has three paths, one of which trusts the caller's ID; the entity index
maps nil to the zero values; Refresh and Dispatch interleave under Go's
writer-preferring RWMutex; the Dispatcher keeps handles across Manager Unload;
the codec's decimal rule shadows base-32 strings made of the letters 2..7;
a guest can re-enter Dispatch through server control while its dispatch
holds the read lock; the in-memory plugin registry hands out IDs from a
counter that explicit IDs do not move, and sorts and pages by code of its
own where the SQL registries use ORDER BY and LIMIT/OFFSET.

## 2. Modules

| Module | Models | State ↔ code | Actions ↔ code |
|---|---|---|---|
| `PluginStorage` | the in-memory storage repository | `entries`, `nextID`, `pluginIDIndex`, `keyIndex`, `entityIndex` are the struct's fields; `clock` is `time.Now()` | `Save(id, e)` (its three disjuncts are the three paths of `resolveEntryID`), `Delete`, `DeleteByPlugin`; `FindFirst` is `Find` (`getFilteredEntryIDs`), then `FirstPage` (`sortEntries` by ID and `applyPagination` with `Limit 1`) |
| `StorageLibrary` | the host storage library over `PluginStorage` | `resp` (last response), `pending[p]` (the ID Delete found between its two critical sections) | `Get`, `Set`, `List`, `DeleteFind` + `DeleteByID` (the two halves of `Delete`), `Purge` (host `DeleteByPlugin`) |
| `PluginKV` | the abstract promise of the storage capability (spec 4.3, 4.4, 8.1, 8.2, 8.8) | `kv[p][tuple]` | `Get`, `Set`, `Delete`, `List`, `DeleteByPlugin`; `GetFailed`, `ListFailed` (an error, nothing changed), `SetFailed`, `DeleteFailed` (an error, and the write took effect or not) |
| `SqlStorage` | the storage library over the sqlite/mysql repository | `rows` (the table), `lastID` (auto-increment), `pc[s]` (a session between two statements of Save or Delete: the ID found), `resp`, `failures` (statements that returned an error) | `Get` (one SELECT), `List` (one SELECT of the plugin's rows, entity-filtered, then the key-prefix filter), `SaveSelect` + `SaveWrite` (`findExistingEntryID`, then `update` or `insert`, whose table is `Written`), `DeleteFind` + `DeleteByID`, `Purge` (`DeleteByPlugin` while the plugin's sessions are idle); the error paths: `FindFails` (Get, List or Delete's Find), `OnSelectError` (Save's early return), `SaveWriteFails` and `DeleteByIDFails` (the write committed or not) |
| `Dispatcher` | the dispatcher, the Manager it borrows from, and server control re-entering it | `subscriptions`, `subsOK`, the lock (`writer`, `readers`), `rsnap` (Refresh's `GetPlugins` slice), per Dispatch goroutine `dpc`, `event`, `snap0`/`dsnap` (subscriber list), `result`, `nested`; `live`/`loads` are the Manager's registry; `invoked`/`outs` are history | `RefreshLock`/`RefreshAcquire`/`RefreshVisit`/`RefreshUnlock`, `DispatchBegin`/`DispatchVisit`/`DispatchEnd` (`HandleOutcome` is the body of the loop after `HandleEvent`), `Load`/`Unload`; in `SpecNested` also `GuestControl` (a guest calling `ServerControl.Start` etc.) and `NestedDispatch` (`DispatchServerEvent` taking the read lock again) |
| `PluginRegistry` | the plugin registry repositories | `backend` (chosen in Init from `Backends`), `plugins` (ID → row: name, priority, status, category), `counter` (in-memory `nextID`, mysql AUTO_INCREMENT, postgres sequence), `saves`, `lastCall` | `Save` (`InMemorySave`; for SQL, `Apply` of the `Outcome` that `MysqlSave` or `PostgresSave` computes, or, when `SqlFaults` holds, of one of `SqlSaveErrors`: the Exists SELECT failing, or the UPDATE/INSERT failing after committing or not), `Delete`, `DeleteFails` (committed or not); `MemFind` (in-memory `Find`: `MatchesFilter`, `InsertionSort` with `Less`, `MemPage`) and `SqlFind` (SQL `find`: `SqlFilter`, ORDER BY, LIMIT/OFFSET) are operators |
| `RegistryAbstract` | what the registry promises (spec 3) | `table` (ID → plugin), `call` | `SaveAt` (Save with an ID), `SaveNew` (a new plugin at a free non-zero ID, which Save reports), `SaveFailed` (an error, after the effect of `SaveAt`/`SaveNew` or none), `Delete`, `DeleteFailed`; `PluginRegistry` maps `plugins` and `lastCall` onto it (`RegistryRefinement`) |
| `EnvHost` | the `env` host module | `mem` (the guest's linear memory, bytes), `hasMem` (whether the instance exports a memory), `writes`, `reads` (the strings the last call decoded, with the memory they were read from) | `GuestStore` (the guest runtime laying out a string: length header at ptr-4, UTF-16LE units) and `GuestSetLength` (any other header) are guest steps; `ConsoleLog` and `Abort` read their arguments with `ReadAssemblyScriptString`, which uses `HeaderOK`, `AboveGuard`, `ReadOK` and the recursive `Utf16LEToString` |
| `IdCodec` | the codec | `id`, `enc`, `parsed` of the last call | `CompactThenParse(n)` |
| `MCStorage`, `MCSqlStorage`, `MCDispatcher`, `MCPluginRegistry` | model values and small constants for TLC | | |

A handle `<<p, n>>` is the n-th `LoadedPlugin` of plugin p: it tells a
re-loaded plugin's handle apart from the one the dispatcher kept. Guest
results are chosen nondeterministically from a small set of records
(`err`, `handled`, `cancel`, `writes`); a guest's modified data is abstracted
to one key whose value names the writer.

In `PluginRegistry`, Go's map iteration order is any permutation of the
matching rows (`SetToSeqs`). `sort.Slice` sorts at most 12 elements by
insertion sort, and the model does the same (`Sift`, `InsertionSort`), so ties
keep their iteration order. The SQL answer is every order of the rows that
ORDER BY allows. Names and statuses are naturals standing for their strings'
lexicographic rank. Priorities are Go ints of `IntWidth` bits, and the
in-memory `"priority"` comparison wraps.

## 3. Runs

| Run | Config | Expect | What it shows |
|---|---|---|---|
| `storage` | `StorageLibrary.cfg` | pass | two plugins' Get/Set/List/Delete and host DeleteByPlugin interleaved keep `IndexesInSync`, `NaturalKeyUnique`, `CreatedAtKept`, and refine `PluginKV` (`KVRefinement`) |
| `storage_entity_zero` | `StorageEntityZero.cfg` | violation | with entity ID 0, Get of (key, no type, 0) returns the entry of (key, no type, no ID) (`KVRefinement`) |
| `dispatcher` | `Dispatcher.cfg` | pass | two Dispatch goroutines, a Refresh and the Manager: `SnapshotConsistent`, `DispatchFollowsReference` (the result equals a recursive reference of spec 8.4-8.6), `SubscriptionsSound`, `RefreshCompletes` |
| `dispatcher_unloaded` | `DispatcherUnloaded.cfg` | violation | HandleEvent is called on a plugin unloaded since the last Refresh (`NoInvokeUnloaded`) |
| `dispatcher_nested` | `DispatcherNested.cfg` | violation | a guest starts a server from inside HandleEvent while a Refresh waits for the lock: the nested RLock and the Refresh wait on each other forever (`RefreshCompletes`) |
| `sql_storage` | `SqlStorage.cfg` | pass | one session per plugin: Get, Set, Delete and List over the SQL repository keep natural keys unique and refine `PluginKV`; a nil entity field matches only NULL (`IS NULL`); one statement may fail, and a failed write may have committed, yet every error reaches the guest and a retry never duplicates a row |
| `sql_storage_race` | `SqlStorageRace.cfg` | violation | two sessions of one plugin Save one natural key: both SELECTs find nothing, both INSERT (`NaturalKeyUnique`) |
| `registry` | `PluginRegistry.cfg` | pass | over the mysql and the postgres registry (one per behaviour, chosen in Init), with every statement allowed to fail before or after committing, Save/Delete implement `RegistryAbstract` (`RegistryRefinement`): a new plugin gets and reports an ID no plugin holds, even after explicit-ID inserts (mysql moves AUTO_INCREMENT past them; postgres fails with a duplicate key), and a failed call touches no row its success would not have |
| `registry_find` | `PluginRegistryFind.cfg` | pass | over every table the mysql and postgres Saves and Deletes reach, the in-memory and SQL Find agree on every bounded query (`QueryBackendsAgree`) |
| `registry_inmemory_overwrite` | `PluginRegistryInMemory.cfg` | violation | in-memory Save(ID 1), then Save(ID 0): the new plugin gets ID 1 and replaces the first (`NewPluginKeepsOthers`) |
| `id_codec_roundtrip` | `IdCodecRoundTrip.cfg` | violation | `ParsePluginID(CompactPluginID(215)) = 24` |
| `env_host_utf8` | `EnvHostUtf8.cfg` | violation | the guest stores "é" (U+00E9) and calls console.log: `utf16LEToString` gives the single byte 0xE9, not the UTF-8 bytes C3 A9 that spec 6 ("Module format") asks for (`ReadsAsSpecified`) |

Each property of a passing run has a mutant in `PROJECT.json`. A mutant is a
variant of one mapped definition, changed the way a plausible bug would change
it: an index forgotten, a guard dropped, checks swapped, an off-by-one, a
comparison reversed. TLC finds the property violated under the variant.

Two divergences of the in-memory registry were found with TLC by widening the
`registry_find` bounds. They are listed as hazards in `PROJECT.json`:
* With `IntWidth = 2` and priorities {-2, 1}, `QueryBackendsAgree` fails:
  the subtraction wraps.
* With a query of limit 0, `QueryBackendsAgree` also fails: the in-memory page
  is empty, and SQL uses `DefaultLimit`.

## 4. Bounds

* Storage: plugins {1, 2}, one key, one entity type, and entity IDs {1} ({0}
  for `storage_entity_zero`), so each plugin has four natural keys: global,
  typed, ID-only, and typed with ID. There are two payloads.
  * `MaxClock` bounds the number of Saves. It is 2: two Saves are enough for
    two entries of one plugin, two plugins sharing a key, and an upsert after
    a Delete.
  * Deletes and Gets are unbounded.
  * List requests are all entries, a key prefix, and two entity filters
    (`MCListReqs`). The violation runs leave List out.
* SQL storage: sessions s1 and s2, either for plugins 1 and 2 or both for
  plugin 1.
  * One key, one entity type and no entity IDs, so the natural keys
    (a, NULL, NULL) and (a, server, NULL) differ only in a NULL column.
  * Two payloads and at most three inserted rows. A Save starts only while
    the counter can take every insert already decided on, so the bound never
    blocks a session midway. Three rows allow an insert, a delete and a
    re-insert.
  * List requests (`MCListReqs`): all of a plugin's entries, a key prefix no
    key has, and the entity type without an ID, which must match only rows
    whose entity ID is NULL. The violation run leaves List out.
  * `MaxFailures` bounds the failed statements: 1 in `sql_storage`, 0 in
    the violation run. One failure is enough for each error path, and for a
    write that commits, reports failure and is retried by a later Set.
* Dispatcher: three plugins (a and b enabled; c disabled but subscribed) and
  two events (one cancellable).
  * The passing run has two Dispatch goroutines. Their read sections can
    overlap, so a Refresh that waits for the lock can meet a read lock that is
    never free. Only Go's writer preference (no new reader while a writer
    waits) lets it through, and `RefreshCompletes` checks exactly that.
  * `MaxLoads[p]` bounds the loads of each plugin. In the passing run the
    disabled plugin c may be loaded a second time and a and b once, which
    keeps the two-goroutine run near a minute. `dispatcher_unloaded` loads
    every plugin twice with one goroutine; `dispatcher_nested` loads each
    once.
  * Guest results: the passing run has error, handled+write and
    cancel+handled. The violation runs use five results: error,
    handled+write, silent, cancel+handled and cancel+write.
* Registry: both SQL backends of the pass run, mysql and postgres, are
  initial states; the in-memory one is its own run.  Names {1, 2}, priorities {0, 1}, two statuses, and one category or
  none, so rows can tie on (priority, name).
  * Explicit IDs {1, 2}, at most three Saves (the table has at most three
    rows), and a 2-bit in-memory counter (8 bits for priorities).
  * `registry` (the refinement) keeps one priority, one status and no
    category, since Save copies those columns alike on every path, and
    allows four Saves, so that an explicit-ID insert, a new plugin, a
    failed write that committed and a later new plugin fit in one behaviour.
    `registry_find` has no statement errors (`SqlFaults = FALSE`): a failed
    call leaves a table a successful or an absent call also leaves.
  * The queries combine five filters (none, IDs, names, statuses,
    categories), the default order and three explicit ones, and four pages:
    none, cut by the limit, cut by the end, and past the end.
  * Limits are positive and priorities in range. The two divergences above
    lie outside these bounds.
* env host: 8 bytes of memory, strings of at most two code units drawn from
  A, é, α, €, and a high and a low surrogate (`CodeUnits`), headers of length
  1 (odd) and 1 MiB + 2 (above the guard), two guest writes. Every pointer
  0..8 is read, 1..3 included (below 4, `ptr-4` wraps in uint32). These cover
  every branch of `readAssemblyScriptString` and of the per-unit encoding.
  The violation run fails on the first divergence it finds (é); with other
  code units the same property fails on a surrogate pair or an odd length.
* ID codec: IDs 0..1023 cover one-byte and two-byte compact forms. TLC's
  integers are 32-bit, so wider IDs are out of reach.

## 5. Fairness

`Dispatcher` assumes weak fairness for the steps of a Refresh that holds or
waits for the lock, and for the loop steps of a Dispatch. A runnable
goroutine is scheduled, and the Manager bounds every guest call (spec 5).
`SpecNested` also makes the nested RLock weakly fair: the guest is blocked in
it and does nothing else. Callers that start a Refresh or a Dispatch, the
Manager's Load and Unload, and guests choosing to call server control are not
assumed to act. The storage and registry runs check safety only.

## 6. Not modelled, and why

* The ServerController that dispatches PRE_*/POST_* events is not in this
  repository. `NestedDispatch` follows spec 1: it dispatches before acting.
  The nested dispatch's own guest calls are one step. The Manager's
  per-instance lock is also outside the repository, so calling the same busy
  instance again is not modelled.
* `Find` of the storage repositories with other sort orders and `Offset`: the
  storage library always passes no order, and either `Limit 1` or no page.
* The postgres array codec (`stringsToPostgresArray` and
  `parsePostgresArrayToStrings`) and the JSON columns are not modelled. The
  codec drops a trailing empty element on parse (`{a,""}` comes back as `[a]`);
  it is listed as a hazard.
* `Dispatcher.HasSubscribers`, `DispatchTaskEvent` and
  `ServerControlAdapter` have no caller in `src/`. The adapter's
  `mapEventType` is a fixed table.
* The domain facades (servers, nodes, games, users, daemon tasks, settings)
  are not modelled. Each is one call into a repository outside this
  repository. Read without a model: no facade checks the plugin's declared
  permissions (spec 4.3), and `FindServers` reports `Total` as the length of
  the returned page.
* The cache library's key prefix is chosen by the Manager, outside this
  repository, so whether two plugins' prefixed keys can collide is not
  checked.
* `mysql/plugin_storage.go` runs the same statements as the sqlite
  repository, in the same order. It differs in column quoting, placeholders,
  time columns, and taking the new ID from `LastInsertId` instead of
  `RETURNING id`. Only the last is a state change: an INSERT that commits
  and still returns an error, which `SaveWriteFails` models. The statements
  are mapped to the sqlite file and the error paths to the mysql one.
* `SqlStorage.Purge` runs only while no session of the plugin is inside a
  call; sqlite `DeleteByPlugin` has no such guard. Its caller (plugin
  uninstall) is not in this repository. A purge between a session's two
  statements ends in a state that some order of the whole calls reaches, but
  the step-by-step refinement would report it; the guard keeps that out.
* A Save whose UPDATE finds its row deleted by a concurrent Delete reports
  success with nothing stored. Ordering the Set before the Delete explains
  every response, so this is not checked as a lost write.
* A failed `DeleteByPlugin` is one statement that commits or not: a `Purge`
  or a stuttering step, so it has no action of its own.
* The example plugin `examples/server-logger` does not build. `events.go`
  declares `GetSubscribedEvents`, `HandleEvent` and `eventTypeName` a second
  time in the package of `main.go`, and it uses an undefined `eventCounter`.
  Its HandleEvent never cancels, which the dispatcher's guest results cover.
* The WASM marshalling, the cache/HTTP/log libraries, the SDK and the example
  plugin are not modelled: they are I/O or guest code.
* The FNV-1a fallback of `ParsePluginID` is kept symbolic: 64-bit arithmetic
  is out of TLC's reach.

## 7. Plan for the next sittings

1. The postgres array codec as operators, checked against a reference over
   short strings. This needs a run slot, which means merging or retiring a
   violation run.
2. The nested dispatch calling a guest whose instance is busy. This needs a
   model of the Manager's instance lock.
3. A violation run for the postgres reuse of deleted explicit IDs: the
   sequence never moves past an explicit ID, so after Save(ID 2), Delete(2)
   two new plugins get IDs 1 and 2, and the second takes the ID of the
   deleted plugin (and with it any rows keyed by that plugin ID).
   `RegistryAbstract` allows reuse, as spec 3 does not forbid it; a run
   would need a property that does.
