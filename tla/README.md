# OzenDB in TLA+

OzenDB is a desktop database client (Tauri 2: a Rust backend, a Vue 3 frontend) for MongoDB,
PostgreSQL and MySQL. It keeps connections, secrets, histories and settings on the device and
syncs the shared ones between a user's devices, end-to-end encrypted. This directory holds
TLA+ models of the parts that run concurrently, survive failures or have to agree with each
other, the TLC configurations that check them, and proofs for TLAPS. Source paths below are
relative to `src/`; those without a directory of `src/src` or `src-tauri` are in
`src-tauri/src/`.

1. [The system](#1-the-system)
2. [The modules and how they follow the code](#2-the-modules-and-how-they-follow-the-code)
3. [What is checked](#3-what-is-checked)
4. [What is proved](#4-what-is-proved)
5. [What the models found](#5-what-the-models-found)
6. [What is not modelled](#6-what-is-not-modelled)
7. [Plan](#7-plan)

To check a run: `tlc -config MCSqlWork.cfg MCSqlWork`. To check proofs: `tlapm MySqlRunsProofs.tla`.

## 1. The system

The backend is a set of Tauri commands over state managed in `lib.rs:96-141`; the frontend
calls them from `src/src/appApi/` and `src/src/engines/*/api/`. Each command is an async task;
several run at once, and at every await anything else may happen.

| Component | State | Operations | Meets | Hard because |
| --- | --- | --- | --- | --- |
| **Merge rules** `sync/merge.rs`, `record.rs`, `settings.rs` | none | rank two copies, merge a store, age deleted markers | the sync pass | devices sync in any order, again and again, with clocks that differ; a deletion must outlive every old copy |
| **Sync pass** `sync/pass.rs`, `snapshot.rs`, `state.rs` | `SyncState` (`last_sync`, the kept server copy) | download, read stores, merge, upload a version, save store by store, save the state | stores, server, schedule | edits and other devices' uploads fall between its steps; it may stop at any of them; answers get lost |
| **Sync schedule** `sync/schedule.rs`, `edits.rs` | `Plan`, trigger queue, edit counter | triggers, edit wait, retry, hold, close | sync pass, app start and quit | waits, retries, holds and edits overlap a running sync |
| **Account and keys** `sync/account.rs`, `setup.rs`, `keys.rs`, `entitlement.rs` | session and data key (keychain), wrapped keys, Premium answer, `PendingSetup` | sign in and out, delete, refresh, set up, unlock, relock, turn off | sync pass, server, keychain | no lock covers the parts; commands overlap at every await and writes fail one by one |
| **Connection records and secrets** `storage/mod.rs`, `commands/connection.rs`, `sync/secrets.rs`, `keychain.rs` | `connections.json` with a cache in front, keychain entries | add, edit, delete, move, open; the sync of both | sync pass, pool | a record in a file and its password in a keychain, changed one after the other, while a sync reads and writes both |
| **Persistence** `json_store.rs`, `persist.rs`, the histories and keyed stores | a JSON file per store | update, load, set an unreadable file aside | every store | crash between temporary file and rename; readers without the lock that move files |
| **Connection pool** `pool.rs` | per connection: handles by database, a tunnel, a setup lock | `client`, `ensure_tunnel`, `remove` | all database commands, edits, sync | several maps with a lock each, none held while anything is opened |
| **SSH tunnels, host keys** `ssh.rs`, `known_hosts/` | tunnels, pending prompts, keys on file | establish, check a key, prompt, answer, time out | pool, user, sync of known hosts | an answer races its timeout, other prompts and other devices |
| **SQL tabs, PostgreSQL** `src/src/engines/sql/workspaces/`, `commands/postgres/{transaction,cancel,query}.rs` | a tab's run object, held transactions, running statements | run, begin, commit, rollback, cancel, close | the server's sessions | Cancel signals a session from outside while statements end and sessions change hands |
| **SQL runs, MySQL** `commands/mysql/{transaction,cancel,script,query}.rs` | as above | as above, with `KILL QUERY` and time limits | as above | a KILL finds whatever runs on the session when it arrives; deadlocks and DDL end a transaction behind the tab's back |
| **Row grid edits** `commands/*/row_write.rs`, row histories | staged changes, a history | save, undo | tables, other clients | what a tab staged may be stale by the time it is saved or undone |
| **Table tabs** `commands/sql/`, `commands/*/browse.rs`, `workspaces/table*.js` | boxes, joins, sort, SQL, page, count | type, join, switch modes, page | the server | two forms of one query have to mean the same; ties and late answers |
| **Imports and exports, SQL** `commands/*/transfer.rs`, `commands/import/csv.rs` | a running import's batch | export, import | tables, files | a file has to be read back as it was written; a failed import leaves nothing |
| **SQL for MongoDB** `commands/mongo/sql/` | none | translate a SELECT | the console | two languages whose operators differ at NULL, patterns and precedence |
| **MongoDB commands** `commands/mongo/`, `commands/access.rs` | collection history | documents, collections, indexes, users, GridFS, undo | pool, server, connection edits | the read-only flag, the server and the documents change while a command waits |
| **Transfers, MongoDB** `commands/{import,export}.rs`, `commands/mongo/{copyops,duplicate}` | watermarks of incremental exports | import, copy, duplicate, export | servers, files | cut short in the middle, over data others change |
| **Shell** `shell/` | a worker and an engine per tab, a dispatcher | run, cursor, stop, close | MongoDB, connection edits | scripts that never answer, stops and closes that race them |
| **Operations** `operations.rs`, `useOperations.js` | live list, log of finished ones | start, finish, clear, list | long commands, the pane | two lists read in two steps, answers and events in any order |
| **Open tabs and session** `stores/tabs.js`, `useSessionPersistence.js` | tabs and their saved form | open, close, restore | every workspace | restore races with the user |
| **Crypto, HTTP, URIs, menu, schema queries, rendering** | none | conversions and I/O | – | – |

`PROJECT.json` lists all of them with their sources and status, and under `hazards` every place
found where one can go wrong that a unit test would hardly reach.

What makes them correct, in a sentence each. Merges agree in whatever order they are made; a
sync undoes no edit, rolls nothing back, revives nothing deleted and ends in agreement. No edit
stays unsent while something could send it. Data is sealed for the account it belongs to and
stays readable. A deleted connection keeps no secret and a typed one lasts. A store's file
changes by whole changes or not at all. A command gets a live handle made with the settings it
read, over a tunnel whose key the user trusts, and ends. A commit that is reported happened; a
stop ends its own run and no other; only a Commit makes a transaction's writes permanent. The
history holds committed edits and an undo overwrites nothing newer. What a tab shows, exports
or translates is what its query says. A read-only connection writes nothing. A transfer's
answer is true and its watermark skips nothing. The pane shows what has ended.

## 2. The modules and how they follow the code

One module per component; `MC*` modules instantiate them for TLC and `*Proofs` hold the
theorems. Components that share no state are checked side by side in one run: an `MC` module
instantiates each, and every behaviour is of one of them while the others stay in one of their
initial states, so a run costs the sum of their state spaces and not the product.

| Module | Models | Checked by | Proofs |
| --- | --- | --- | --- |
| Merge | the merge rules | through SyncPass | SyncPassProofs |
| SyncPass | the sync of any number of devices | MCSyncedRecords, MCStoresAndAccount, MCSyncing | SyncPassProofs |
| SyncSchedule | when syncs run | MCSyncing | SyncScheduleProofs |
| SyncAccount, AccountData | sign-in, setup and keys, and what the server holds of them | MCStoresAndAccount | SyncAccountProofs |
| Connections, ConnectionSecrets | records and secrets of connections, and their sync | MCSyncedRecords | ConnectionsProofs |
| JsonStore, KeptLog, StoreChanges | a store's file, the log it implements, what commands change | MCFilesAndTunnels | TransfersProofs |
| ConnectionPool | handles and tunnels of a connection | MCFilesAndTunnels | |
| HostKeys | SSH host keys and their prompts | MCFilesAndTunnels |  |
| SqlTab | PostgreSQL tabs, transactions, Cancel | MCSqlWork, MCSqlTab | SqlTabProofs |
| MySqlRuns | MySQL runs, transactions, stops | MCRunsAndShell | MySqlRunsProofs |
| RowEdits | saving and undoing row edits | MCDataEdits | RowEditsProofs |
| TableSql | a table tab's boxes and its SQL | MCSqlWork, MCTableSql | |
| TablePages | its pages and count | MCSqlWork, MCTablePages | |
| SqlTransfers | CSV exports and imports of tables | MCSqlWork | |
| SqlQuery | the console's SQL as MongoDB queries | MCSqlWork, MCSqlQuery | |
| MongoCommands | MongoDB commands, the read-only gate, GridFS, undo | MCDataEdits, MCMongoCommands | |
| Transfers | imports, copies, duplicates, incremental exports | MCMongoWork, MCTransfers | TransfersProofs |
| Shell | the shell's sessions | MCRunsAndShell | |
| Operations | the operations pane | MCMongoWork | |

The sync modules share boundaries rather than state: a sync is an interval with an answer in
SyncSchedule, its steps in SyncPass, the session and keys it read in SyncAccount, and one
device's records and secrets in Connections. Likewise a command of MongoCommands, Transfers or
Shell gets its client from ConnectionPool, which is an await of theirs.

`PROJECT.json` maps every definition to the lines it translates. Beside the definition it
replaces each module also holds the wrong variants ("a mistake the checks must catch") that
show that each property can fail. Ghost variables, which only watch, are named where they occur.

### Merge

A slot is what a store holds under one id: `updated_at`, `deleted`, `uploaded_at` of the
record's stamp, and a number for its content that keeps the order of its serialized form (what
`merge.rs rank` falls back to). An id not held is the slot `Absent`, outranked by every record,
so "only one side has it" needs no case. `Winner`, `Outranks`, `SettingOutranks`, `Stale`,
`UploadTime`, `MergeRecord`, `MergeSetting` are the functions of `merge.rs` and `settings.rs`.

### SyncPass

Per device `live` (the stores), `last_sync` and `kept` (`SyncState`), `pc` and `pass` (what
`pass()` holds in locals); on the server one versioned `server` copy and whether it accepts
uploads (`premium`). In the order of `pass.rs`:

| Action | Code |
| --- | --- |
| `StartSync`, `Again`, `Ended` | the loop of `sync()` over `MAX_PASSES` |
| `Download` | `download()`, with "not modified" answered from the kept copy |
| `ReadStore`, `ReadLastStore` | `Snapshot::read`, one store at a time, then the merge and the decision to upload |
| `Upload`, `UploadUnanswered`, `UploadOvertaken`, `UploadRefused` | `upload()` naming the version it replaces, and its four outcomes; a refusal is `receive_only` |
| `SaveStore` | `replace_if_unchanged` of one store, under its lock |
| `SaveState` | the end of `save()`: `last_sync` moves only if every store was replaced |
| `CutShort` | a failing call or write, or the app quitting, at any step |
| `Put`, `Delete`, `ChangeSetting` | edits of the stamped stores under the store's lock |

Time is one clock a device reads with a constant error `Skew[d]`. `reached`, the newest deletion
that ever reached the server per record, is a ghost.

### SyncSchedule

`plan`, `triggers`, `edits`, `seen` are `Plan`, the channel, the edit counter and the watch
receiver of `schedule.rs`. `TakeTriggers`, `Prepared`, `Wake`, `Due` and `SyncEnds` are the
branches of `run()` with `answer()`, `prepare()` and `sync()`; `PlanAfter` is `plan_after`. Waits
are what is left of them, which `Tick` counts down. `Stop` and `StartAgain` end the app and start
it with nothing remembered. Ghosts: `uploaded`, `earlier`, `excused`, `limited`, `closing`, `tried`.

### SyncAccount

The device keeps `session`, `data_key`, `wrapped`, `entitlement`, `state`, `pending`; the server
which sessions are valid and, per account, the key its data is sealed with and the key the
wrapped copies hold (`sealed`, in AccountData with the properties about it, so that MCStoresAndAccount
and the proofs speak of the same definitions). The schedule, the account dialog and the sync dialog run one command each
at a time, as the code's tasks and dialogs do. A command is a program of steps
(`running[r].at`), one per await or write; every write may fail (`Fails`). `Forget*` are the writes
of `Device::forget`; `KeepDataKey` and `KeepWrapped` are the keychain and the file of
`SyncKeysStorage::save`, between which another command may read both. A pass reads its session and
keys at once; relock's loop is one step, its upload being conditional on the version checked. Two
ghosts stand for what the code does not guard against (section 5): `raced`, whether commands have
overlapped, and `torn`, whether a data key was ever saved beside another key's wrapped copies.

### Connections

`disk` and `cache` are `connections.json` and `Storage::cache`, `ring` the keychain entries,
`server` the other devices' copy, `task` what each command holds between its awaits, `sync` what
the running sync holds in memory, and `secrets_lock` is `Storage::secrets`. `NewSecrets` and `Add` are
`save_connection`, `FindForEdit` and `UpdateSecret`, `UpdateRecord` are `update_connection` with
`save_edit`, `DeleteRecord` and `DeleteSecrets` `delete_connection`; `Move`, `DetachFolder`,
`SetOpen` and `Load` the others; `SyncRecords`, `SyncSecrets`, `SyncUpload`, `SyncWrite`,
`SyncSaveSecret` and `SyncEnds` are the pass as `snapshot.rs` and `secrets.rs` see it. Keychain
calls and writes fail one by one, and `Crash` drops what is in memory. ConnectionSecrets holds what
the device keeps and the properties of it. Ghosts: `typed`, the secret last typed here with the
stamp of the newest change here that left it so, and `torn`, whether a sync read an edit's record,
or a later change of it, without the edit's secret.

### JsonStore, KeptLog, StoreChanges

`file` is a store's file, parseable or not, `task` what each thread holds between calls to the
file system, `lock` the store's mutex. `Lock`/`Update`/`WriteTemporary`/`Rename` are a change
under the lock with `atomic_write`'s two halves; `Load`/`Read`/`Quarantine` a reader without it
(`read_json`, `quarantine_corrupt`); each may fail, `Crash` ends all threads, and `Damage` is a
file some other program spoilt. StoreChanges has what the commands change in every kind of
store: the five histories with their limits and order, the keyed stores, the error log. KeptLog
is the abstract specification of all that: one log that changes by whole changes, given up only
where its file could not be read. `ChangesAreWhole` is `Kept!Spec` under the refinement mapping
`log <- the log the file parses to`.

### ConnectionPool

One saved connection: `handles`, `tunnel`, `alive`, the queue of the setup lock `waiting`
(tokio's mutex is fair), and per command its place in `connect`/`ensure_tunnel`. Every read or
write of a map is an action, since no lock is held across two of them; `Dial`, `Handshake`,
`Authenticate` (`ssh.rs establish`) and `Make` may fail, and a handshake may last for ever. `Edit`,
`Disconnect`, `RemoveHandles`, `RemoveTunnel` and `TunnelDies` may fall between. The three engines' maps of handles are one. `overtaken` (ghost) remembers whether a change fell
into a connect under way.

### HostKeys

Per handshake `hs`; `pending` is `HostKeyPrompts`, `dialog` and `warning` what
`useSshHostKey.js` shows, `replies` the answers on their way, `store` `known_hosts`.
`CheckServerKey` is `check_server_key`'s three outcomes, `Resolve` and `PromptTimesOut` the two ways
out of its prompt, `Establish` and `TunnelFails` what follows. `Forget` and `OtherDevice` change the
keys on file meanwhile. `trusted` (ghost) is what the user has said to trust.

### SqlTab

`tab` is the run object of each tab (`mode`, `runId`, `txId`), `run` the commands a run goes
through, `tx` the entries of `PgTransactions` and what the server makes of them, `cancel` each
`cancel_pg_query`, `free` the pool's free sessions. Actions are what a tab, a command or the
server does between two waits. `hasty` (ghost) remembers tabs that were closed or switched while
their transaction began (section 5). Left out: Explain, scripts of several statements, results.

### MySqlRuns

`run` has each run's place in `run_mysql_query`, `run_on` and `limited`, the statements left of
its script, and its `Running` (`hold`: its connection is known to Cancel; `stop`: what stopped
it); `tx` is `MySqlTransactions` with what its session on the server does and what is pending
there; `kill` is each stop under way; `kept` the writes that are permanent. `Register`,
`Acquire`/`Lock`, `RunOn`, `NextStatement`, `Arrive`, `Execute`, `EndStatement` are a run from its
command to its answer; `Execute` has the server's ends of a statement: done, failed, a deadlock
that rolls the transaction back, a statement that commits by itself. `Cancel` and `TimeLimit` are
the two ways into `Running::stop`, whose `StopLocks`, `Kill` and `KillFails` take the connection
lock and send the KILL; `Finish` is `finish`'s COMMIT or ROLLBACK. A tab begins one transaction.

### RowEdits

One table with a key and one other column, in rows some transaction may have locked. A tab
`Load`s, stages changes against what it loaded (`StartSave`), and a save executes them in one
transaction (`Execute`, `SaveFails`, `Commit`) and records its edits afterwards (`Record`), both
engines differing in the key they record (`MySqlEntry`, `PgEntry`). `UndoPg` is PostgreSQL's one
statement, `UndoReads` and `UndoWrites` MySQL's read for update and write. `OtherClient` writes
rows no transaction holds. A row that is locked makes the next writer wait.

### TableSql, TablePages

TableSql writes boxes, joins, sort and shown columns as SQL (`BuildSelectSql`) and reads edited
SQL back (`IsRead`, `Adopted`: `read_select.rs`, `adopt`), and has what each engine's
`where_clause` makes of a box, so that what the two modes ask the server for can be compared. A
query is its syntax tree, and a text a sequence of characters that escaping and quoting act on.
TablePages is `tableLoad.js` over the browse and count of a table and its joins: `Page` has the
order the server gives rows that tie, chosen anew at each call, and a load may be answered after
a newer one (`Loaded`, `LoadFails`).

### SqlTransfers, SqlQuery

SqlTransfers writes rows as CSV the way each engine does, reads them by `CsvReader` character by
character, and imports them by batches of a transaction (`ReadRow`, `SendInsert`, `SendToCopy`,
`SendFails`, `CopyFails`, `Commit`). SqlQuery is `sql_to_mql` and `filter.rs` on syntax trees:
`CondToJ`, `FlattenBool`, `CanMerge`, `LikeToRegex` and the rest, with what MongoDB's operators
mean (`Satisfies`, `RegexMatches`) beside what the SQL says. `ReadPastClauses` and the `escape` of a
`LIKE` are what the translation accepts and drops.

### MongoCommands

`cmd` has the running commands: the record a command resolved its connection to, and the calls
it has left. `MayRun` and `Resolved` are the gate of `AppContext` (`Access`). `client` is the pool's
map of clients, by the id of the connection and whatever its settings: `Connected` takes the cached
one, `Opened` is `get_or_create` and `Evict` the `remove` that follows the save of an edit (`evicting`
between the two). `torn` (ghost) has the connections that a connect used, or may have cached a
client for, between an edit's save and the end of its eviction. `Effect` is what each
command does to the server: documents with the image that undo needs, collections, indexes,
users, functions, aggregations, and GridFS buckets, whose files and chunks are separate calls.
`EditConnection` and `OtherClient` come in between. `RestoreHistory` is the undo.

### Transfers

`job` has each transfer's place in its loop: `ImportStep` (parser and sender of
`stream_import`), `DropTarget`, `ReadToCopy` and `InsertCopy` of `copyops.rs`, `Duplicate`, and
the export's `FindWindow`, `First`, `ReadOn`, `FlushExport`, `SetWatermark`. A cursor returns
documents in the order of their `_id`, those inserted ahead of it too; the order is of all BSON
types (`Type`), while the `$gt` and `$lte` of an incremental export (`Window`) hold within one. `Fails` is an error of a
server or a file at that place, `Quit` the end of the process. Ghosts: `exported`, `passed`.

### Shell

`tab` is a console in the frontend, `engine` its entry in `ShellEngine::sessions`, `worker` the
thread of `session_loop` with the script it evaluates and the MongoDB call it waits for.
`SubmitEval` binds a submission to the connection's record; `MongoCall` refuses what the record
says is read-only (`ReadOnlyRefusal`); `Return` is the server's answer, which a slow server may
never give, except to the calls the shell caps. `Close` drops the session.

### Operations

`live` and `store` are the registry's two lists, `asks` a `list_operations` between the two
reads, `shown` the pane's list, `seen` (ghost) the ends it has shown. `Work` is `tracked`:
a command starts, finishes, is stored in the log and leaves the live list, each a step.

## 3. What is checked

Twelve runs, the longest of about three and a half minutes with two workers.

| Run | Module, cfg | Properties | What it shows |
| --- | --- | --- | --- |
| `synced_records` | MCSyncedRecords | `KeptCopyMatchesServer`, `DeletedStaysDeleted`, `SyncNeverUndoesAnEdit`; `DeletedKeepsNoSecrets`, `TypedSecretLastsUnlessTorn` | a record is deleted, re-created and synced by two devices until its marker is erased, with a failed or unanswered call and a lapse of Premium; a connection with its secrets is edited, deleted and synced on one device while another uploads |
| `stores_and_account` | MCStoresAndAccount | `LastSyncMeansSaved`; `SealedForItsAccount`, `DataStaysReadable` | first syncs of two stores read and saved one after the other while edits fall between; the account's commands over each other's steps, with failing writes and calls |
| `syncing` | MCSyncing | `NoEditForgotten`, `QuitTriesToSend`, `EditsReachServer` (liveness); `DevicesConverge` (liveness) | two runs of the app with edits, requests, changes of readiness, and syncs that end in every way at every minute of the waits; once edits stop, devices that are synced again and again end with the server's copy, clocks apart and a lapse included |
| `files_and_tunnels` | MCFilesAndTunnels | `ChangesAreWhole` (refinement of KeptLog); `CommandsGetLiveHandles`, `ConnectsEnd` (liveness); `OnlyTrustedKeys` | a store's file through failures, crashes and files set aside; connects through tunnels that die, edits and disconnects; host keys asked for, answered, forgotten and timed out |
| `data_edits` | MCDataEdits | `HistoryIsOfCommits`, `SavesAreWhole`, `UndoOverwritesNothing`; `OthersKeepReadOnly`, `UndoIsExact`, `ListedFilesKeepTheirChunks` | row saves and undos of two tabs and another client; MongoDB commands while the connection is edited and another client writes |
| `sql_work` | MCSqlWork | `CommitTellsTheTruth`, `NothingLeftOpen`, `CancelStopsItsOwnRun`; `ExportsReadBack`, `ImportIsWhole`; `ModesAgree`; `PagesAddUp`; `FindsWhatItSays` | PostgreSQL tabs on two sessions; CSV of both engines; boxes against SQL; pages over every small table; the console's SQL |
| `runs_and_shell` | MCRunsAndShell | `ReportedWritesAreKept`, `KillStopsItsOwnRun`, `OnlyCommitsKeep`; `WritesAreAllowed`, `SlowTabsHoldNobodyUp` (liveness) | MySQL scripts and transactions over a full pool with Cancel, time limits, deadlocks; shell tabs whose scripts, cursors and stops overlap edits of the connection |
| `mongo_work` | MCMongoWork | `NothingSkipped`, `AnswersAreTrue`, `TransfersEnd` (liveness); `PaneHearsOfEnds` (liveness) | transfers that end, fail or are cut short while another client writes; the pane that follows operations |
| `mongo_read_only` | MCMongoCommands, ReadOnly | `ReadOnlyIsKept`: violated | section 5 |
| `transfers_same` | MCTransfers, Same | `CopyKeepsItsSource`: violated | section 5 |
| `transfers_mixed` | MCTransfers, Mixed | `FirstExportTakesAll`: violated | section 5 |
| `sql_tab_switch` | MCSqlTab, Switch | `OpenTransactionsCanBeEnded`: violated | section 5 |

Every property of a passing run has a mutant in `PROJECT.json`: a variant of one definition,
wrong the way a plausible bug would be, under which the run finds that property violated.

### Bounds, and why they are enough

All bounds sit in guards or in the sets of a `.cfg`, and are named there.

- **Syncing** (MCSyncedRecords, MCSyncing, MCStoresAndAccount): two devices, since merging is
  binary and its laws are proved. One record, markers that live for 1 unit and a clock up to 3
  are the whole life of a deletion, with a device away for longer; two edits delete and
  re-create; one fault and one lapse fall anywhere. There a sync takes no time on the clock,
  though its steps interleave. Two stores of two records, `MAX_PASSES` 2 and time that passes
  during syncs let one store be replaced and the other left alone. In MCSyncing the second clock is
  1 ahead and markers outlive the run, so that what is compared is not erased meanwhile; edits and
  faults are two together (`Few`): two edits, or one beside a fault.
- **Connections**: one connection, one secret, one folder, one command at a time beside a sync,
  another device and the clock up to `LastTime` 2: an edit here, one there, and a deletion between
  them; one failed write or keychain call or crash.
- **SyncAccount**: two accounts with a session each, two keys, one failed write or call, and at
  most two commands at once (`MaxAtOnce`): what a third could find, one of the two leaves behind.
- **SyncSchedule**: two edits and one request per run of the app, three syncs that do not send
  everything, one change of readiness, two runs. Waits of 3 and 2 minutes and of 1, 2, 4
  between retries stand for 5, 2 and the growing list; the proofs hold for all of them.
- **JsonStore**: two threads, two changes, two failures, every kind of store, lists of one entry
  and sizes small enough that each limit of `StoreChanges` is hit; the proof holds for all.
- **ConnectionPool**: two commands, two databases, two tunnels and two changes: one may fall
  between any two steps of each connect. **HostKeys**: two handshakes, hosts and keys, so that an
  answer can come for another prompt and a key for another host.
- **SqlTab**: two tabs, two sessions and two runs: a session can pass from a cancelled run to
  another tab's, and two held transactions fill the pool that Cancel needs a session of.
- **MySqlRuns**: two tabs, two runs of up to two statements and a pool of one: a held
  transaction already fills it. The tabs are alike, so the first to run is given (`OfFirstTab`).
- **RowEdits**: two tabs and saves, two rows with two values, one write of another client, saves
  of up to two statements. Keys and values are alike, so tables are taken up to renaming
  (`Canonical`).
- **MongoCommands**: one saved connection, which an edit moves between two servers and makes
  read-only or not, two commands at once, one document, one change of the connection or another
  client and one restore. A second connection adds nothing to the gate, since clients are cached by
  connection and no property compares two; the target of `copyUsers` is the connection itself. A document is small or too big for the history.
- **TableSql**, **SqlQuery**: a few values per type with NULL among them, patterns with every
  special character, two tables and one join; every box, every edit of the SQL listed in
  MCTableSql and MCSqlQuery, and in two steps. **TablePages**: tables with ties and missing
  partners, limits below, at and above the cap, two loads in flight.
- **SqlTransfers**: cells of up to three characters over every special one, NULL and the empty
  text; two columns and up to three rows, of which the first two are equal (`FewRows`): two batches.
- **Transfers**: two jobs, two collections of up to two documents whose `_id`s are of one type
  (two in MCTransfersMixed), one other write or failure;
  files of none, one or eight elements over batches of two, which fill the queue from parser to sender.
- **Shell**: two tabs, one of whose servers may never answer, documents in two databases, one
  edit of the connection, scripts of one call. **Operations**: two operations, a log of one.

`CHECK_DEADLOCK FALSE` is set where a bounded model really stops: all edits used, all runs done.

### Fairness

- **SyncPass** (`syncing`): a sync that has begun goes on (`SyncGoesOn`: its task is polled and its
  calls have timeouts). Nothing makes one begin: there is no periodic sync (`sync/schedule.rs:3`), so
  that each device is synced again, after an edit, at a start or by "Sync now", is a hypothesis of
  `DevicesConverge` (`SyncedAgain`), and so is Premium that lasts in the end (`PremiumStands`). None on
  edits, the clock or faults. MCSyncing states it as "every sync ends", which is the same: a sync has
  `MAX_PASSES` passes of finitely many steps.
- **SyncSchedule**: weak fairness of time and of the schedule's task. A sync ends with some answer
  because every HTTP call has a timeout.
- **ConnectionPool**: weak fairness of each command's own steps (`OwnStep`). The dial and the
  authentication end by their timeouts, and the setup lock is a fair mutex, modelled as a queue. The
  SSH handshake has no timeout (`ssh.rs:306-309`, `:330`), and none is assumed: that handshakes end is a
  hypothesis of `ConnectsEnd` (`HandshakesEnd`). A bastion that stops answering in one holds the
  setup lock, and every later command of that connection waits.
- **Shell**: weak fairness of each session's worker thread, and of a server's answer only for tabs
  whose server is not the slow one and for calls the shell gives a time limit (`Capped`).
- **Transfers**: weak fairness of a job's next step, each of which is a call that answers, or
  fails. **Operations**: of a command's next step and of the answers of the list.

Everything else states safety only: those commands are the user's, or wait for a server.

## 4. What is proved

TLAPS checks the theorems below for every value of the constants, from the assumptions the
modules name (bounds are naturals, constants are of their types); nothing is taken on trust.

**SyncPassProofs**, of Merge: `WinnerIsNotOutranked`, `WinnerCommutes`, `WinnerIdempotent`,
`WinnerAssociates`. For the laws, slots are as stores hold them: only a marker has an upload time,
and it has no content. Lemmas say that ranks ignore upload times and what `MergeRecord` and
`MergeSetting` keep of either side.

**SyncPassProofs**, of SyncPass: `TypeCorrect`, `KeptCopyCorrect` (`KeptCopyMatchesServer`), `NoEditUndone`
(`SyncNeverUndoesAnEdit`), `NoRollBack` (`UploadsNeverRollBack`), for any number of devices,
stores and ids, any skews, faults and lapses. The inductive invariant is
`TypeOK /\ CopiesInv /\ MergedInv`:

- `CopiesInv`: whatever copy a device holds, kept or in a pass, is of a version the server has
  had, and equals the server's if it is of the current one. Without it "not modified" could
  answer with anything.
- `MergedInv`: between merging and saving, the merged snapshot still holds nothing that the stores
  as read, or the downloaded copy, outrank. `replace_if_unchanged` and the versioned upload then
  carry this over to what is on disk and on the server at the moment of writing: the store is what
  was read, the server holds what was downloaded.

`NoEditUndone` and `NoRollBack` are action properties: one step per action that writes a store or
the server, from the invariant and the merge lemmas.

**SyncPassProofs**, of deletions: `DeletedHolds` (`DeletedStaysDeleted`) on the hypothesis `InStep`, that of
the run `synced_records`: the devices' clocks agree, a sync takes no time beside a marker's life,
and all start from one synced copy of live records. None of the three can go; TLC finds a deleted
record back each time:

- clocks apart: the device that is ahead erases the marker before a slower one counts as away;
- long syncs: one that began before a marker's life ended, and so is not stale, uploads the record
  after a later sync has erased the marker;
- a first upload without an answer: `last_sync` is still unset, which is never stale, so that
  device brings its record back however long it was away.

The inductive invariant `LifeInv` is about devices that were away. A slot is *old* when the newest
deletion uploaded has overtaken it. The server holds none; a device that holds one has *missed* the
deletion: it last synced no later than any marker of it was uploaded and, once the marker is erased,
longer ago than a marker lives, so its next merge gives the slot up. Every copy in a pass is
covered, for what is saved, or uploaded without an answer, outlives the pass.

`SavedHolds` (`LastSyncMeansSaved`) asks only that clocks agree and that Premium does not lapse:
first syncs and long ones included. `SavedInv` says what a pass has saved and will have: nothing
older than the copy it keeps, and that copy is of no time ahead of now (`TimesInv`), so an edit made
meanwhile is no older. `SavedWhenRefused` is the same with uploads refused, on `InStep`: what is
saved then was merged against a copy the server keeps, and `OutlivesInv` says that a live record
of that copy is newer than any uploaded marker held here, so none erases it. With long syncs a
refused upload does violate it (TLC): the marker held here erases a record that another device's
long sync has brought back, and `last_sync` moves on without it.

**SyncScheduleProofs**: every safety property of the schedule, for all waits, bounds and sets of
failures. The inductive invariant is
`TypeOK /\ Counts /\ Running /\ Holding /\ Asked /\ SentIsUploaded /\ OffIsQuiet /\ Noticed`: a
running sync has seen the edits it stands for and runs outside a hold; what is left of the hold is
never less than what the server asked for; a request to quit is sent once and a sync that answers
it has been tried; an unsent edit is unseen or has a wait. `NoEditForgotten` alone is not
inductive: `prepare()` runs between taking a trigger and answering it, and an edit that a sync
took up stays safe only because that sync counted no more than it had seen. Theorems:
`TypeCorrect`, `SentIsSent`, `OffStaysQuiet`, `NothingForgotten`, `HoldKept`, `QuitTried`.

**TransfersProofs**, of JsonStore, the file an export's watermark is kept in: `FileIsKept`
(`ChangesAreWhole`): the store implements KeptLog, for any threads, kinds of store, changes, limits
and failures, from `BoundsAssumption` of JsonStore. Step by step: a rename is KeptLog's
`Commit`, a file moved aside its `GiveUp`, damage and a failed read its `Harm`, and all else
stutters. The inductive invariant is `Shape /\ Locked /\ Changing /\ Harmed /\ BaseKept`: a thread
holds what its place in the code needs; one that reads, or holds a new content, for a change has
the lock; a file nobody could read, or a content read from nothing, has been noted as harm; and
`BaseKept`, the heart
of it: what is about to be swapped in was made from what the file still holds, or from what was
set aside under the command's hand, or from nothing once the file could not be read.

**MySqlRunsProofs**: `TypeCorrect`, `KillsItsOwn` (`KillStopsItsOwnRun`), `OnlyCommits`
(`OnlyCommitsKeep`), `ReportedKept` (`ReportedWritesAreKept`), for any tabs, pool, runs and lengths
of scripts. The inductive invariant is
`TypeOK /\ Held /\ Waits /\ InTurn /\ Manual /\ OwnPending /\ Accounted`:

- `Held`, `InTurn`: a KILL on its way holds its run on the session, and a tab has one active run,
  so nothing else executes where the KILL arrives. This is `KillsItsOwn`.
- `Manual`, `OwnPending`: autocommit stays off on a transaction's session and what is pending there
  was written by the tab's runs, so only a COMMIT, or a statement that commits by itself, keeps it.
  This is `OnlyCommits`; without `Manual` a statement after a deadlock would commit by itself.
- `Accounted`: each statement of a run that ended well is pending, kept, or lost to a deadlock of a
  later run that has been, or will be, told. `ReportedWritesAreKept` alone is not inductive: it speaks
  of answers given and of transactions committed, and neither says what a running script did.

The proofs treat steps alike that do alike: `Turns` is a run that goes on, `Writes` what may happen
to the data meanwhile, and one lemma (`TurnsOn`) preserves the invariant over both.

**RowEditsProofs**: `TypeCorrect`, `HistoryHolds` (`HistoryIsOfCommits`), `SavesHold`
(`SavesAreWhole`), `UndoHolds` (`UndoOverwritesNothing`), for any tabs, keys, values and saves. The
inductive invariant is `TypeOK /\ OwnIds /\ MySqlKeys`, `JobOK` of every tab and `Kept` of every entry:

- `Running`: a save that is under way holds exactly the rows its done statements touched, and has
  left there what they leave. What a statement leaves at a row it touches does not depend on what was
  there (`AfterIs`), so at the Commit the save's rows are what all of it makes of the rows
  that are durable by then, whatever others wrote beside it (`CommitMakesDurable`).
- `Reading`: an undo that read its row `FOR UPDATE` holds it, and it is still as the entry left
  it; with `MySqlKeys`, the row it locked is the row the edit left. This is `UndoHolds`.
- `Kept`, `OwnIds`: an entry's save has committed; ids of saves are not used twice, so the end of
  one says nothing about another. This is `HistoryHolds`.

`SavesAreWhole` and `UndoOverwritesNothing` speak of `Durable`, the table without what open
transactions wrote: every action either leaves it alone (`*KeepsDurable`) or makes it what the
property says (`*MakesDurable`).

**TransfersProofs**, of Transfers: `TypeCorrect`, `NothingIsSkipped` (`NothingSkipped`), `AnswersHold`
(`AnswersAreTrue`), for any number of commands, connections, documents, files and failures. The
only assumption is that of Transfers on its constants, among them that `_id`s are ordered by type first.
`NothingSkipped`, and what the invariant says of watermarks, is about collections whose `_id`s are of
one type (`OneType`); for others it is false (section 5). The inductive invariant is
`TypeOK /\ SkippedInv /\ WorkInv`:

- `SkippedInv` is `NothingSkipped` with `InPlace` and `Covers` of every command. `Covers` says of an
  incremental export on its way that every document up to its boundary was written by an earlier
  one, came too late for one, was left out by its filter, or is written or due in this one; its
  last step, which sets the watermark to that boundary, turns this into `NothingSkipped`.
  `NothingSkipped` alone says nothing of an export that has not ended, so it is not inductive.
  Every other step is one lemma's matter (`Arrives`): whatever it brings to a collection behind a
  watermark, or behind the boundary of an export, is noted as passed, and nothing noted is lost.
- `WorkInv`, of every command: what was there all along is still there (`Present`), is copied or
  ahead of the copy's cursor (`Copying`), written or ahead of the export's (`Exporting`). For an
  import (`InOrder`), what is inserted, in the receiver's hand, in the channel and in the parser's
  batch are, in this order, a beginning of the file (`Taken`). `AnswersHold` is what this says when
  a command ends: with the cursor or the channel at its end there is nothing ahead any more.

**SqlTabProofs**: `TypeCorrect`, `CommitsTellTheTruth` (`CommitTellsTheTruth`), `NothingIsLeft`
(`NothingLeftOpen`), `CancelsItsOwn` (`CancelStopsItsOwnRun`), for any tabs, sessions and runs, from
`ConstantsAssumption` (there is a tab, and no session is called `NoSession`). The inductive invariant is
`TypeOK /\ Exclusive /\ OnSessions /\ Cancels /\ TabRuns /\ Begins /\ Remembered /\ Truthful
/\ NothingLeftOpen`:

- `Exclusive`: a session has one user, a run of its own, a transaction or a Cancel that signals, or
  is free; `OnSessions`: the runs of a transaction use its session one at a time. So where a Cancel's
  signal arrives nothing executes but its run, which `Cancels` says still has that session: the
  signal is sent under `in_statement`, and `End` waits for it. This is `CancelsItsOwn`.
- `Remembered`: a transaction the server aborted is one whose failure the backend remembers, or whose
  failing run still has the session and is about to tell; so a COMMIT that could be lost is refused.
  With `Truthful` (what was reported is done, before the commit too) this is `CommitsTellTheTruth`,
  which alone says nothing of a transaction that is still open.
- `TabRuns`, `Begins`: a run has its tab for itself until it answers, and a transaction that begins
  has a tab without one, which its user closed or switched meanwhile if it is not open and manual.
  This is what a tab needs when its transaction has begun, and so `NothingIsLeft`.

**SyncAccountProofs**: `TypeCorrect`, `ReadableHolds` (`DataStaysReadable`), `SealedHolds`
(`SealedForItsAccount`), for any number of accounts, sessions, keys, failures and commands at once,
from `ConstantsAssumption`.

- `Matching`, as long as `~torn`: the two keys the server holds of an account are one; so are the
  data key and the wrapped copies of the device, if it has both, and the halves in the hand of every
  command that syncs or saves keys; and one that is between its two writes finds nothing of another
  key on either side. `DataStaysReadable` alone says nothing of what a command is about to upload.
- `PendingOwn`, `HoldOwn`: keys that are held were made for the account of the session they are held
  under. They need no `~raced`: `PendingSetup::take` asks for the session.
- `Alone`, as long as `~raced`: one command runs, and the keys of the device, of that command and of
  every account on the server were made for the account in question; while a sign-in forgets, what
  it has passed is gone, or it keeps no session in the end (`OwnCommand`). `PendingOwn`, `HoldOwn`
  and `Alone` are inductive together and are `SealedHolds`.

**ConnectionsProofs**: `TypeCorrect`, `DeletionForgetsSecrets` (`DeletedKeepsNoSecrets`),
`TypedSecretKept` (`TypedSecretLastsUnlessTorn`), for any number of connections, commands, secrets,
changes and failures, from `NamesAssumption`. Neither property says what a sync holds in memory or
what the server has, which the next sync may write over the keychain; so the invariant is about
every copy of a record. `Order`, `Mirror`, `Locks` and `Halfway` hold whatever fails: no copy is
ahead of the clock; what a sync read or merged is older than the record here, or of one change with
it; the lock is held by whoever is between two writes; and what those two writes leave meanwhile.
As long as nothing failed and no sync read a torn edit (`Clean`), the secrets follow the stamps:

- `Fits` is both properties at once, of the connections no sync is about to save;
- `Reads`, `Saves`: what a sync read of a record is with the secret in the keychain, and what it is
  about to save is what the two properties ask for;
- `Agree`: a copy with the stamp of the record here, on the server or in a sync, has the secret typed
  here, so a sync that wins with it gives back what was typed;
- `Untorn`: no copy has the stamp of an edit, or of a change on top of it, whose secret is yet to
  be written. It is what a torn read breaks, and all it breaks.
**Model-checked only.** All liveness (out of the provers' reach). What recursion or folds over data
compute: `ModesAgree`, `PagesAddUp`, `FindsWhatItSays`, `ExportsReadBack`. Not yet proved:
`CommandsGetLiveHandles` (ConnectionPool), `OnlyTrustedKeys` (HostKeys), `ImportIsWhole` (SqlTransfers), `OthersKeepReadOnly`, `UndoIsExact`
and `ListedFilesKeepTheirChunks` (MongoCommands) and `WritesAreAllowed` (Shell).
## 5. What the models found

Four runs show the code doing something other than it says:

- **mongo_read_only** – `CHANGELOG.md:178` says a read-only connection blocks every way of
  writing, and `:231-233` that `$out` and `$merge` stages are refused. `run_aggregate`
  (`commands/mongo/query.rs:354`) asks for read access and never looks at the pipeline.
- **transfers_same** – `commands/mongo/copyops.rs:59-60` says a copy of a collection onto itself is
  refused, because it would be wiped before it is read. The guard compares ids of saved
  connections; through a second one to the same server the collection is dropped (`:61`, `:87`).
- **transfers_mixed** – `export_watermarks.rs:9` says that with no watermark an incremental export
  takes everything. The boundary is the largest `_id` of a descending sort, types first
  (`admin/transfer.rs:198-205`), but `$lte` finds values of its own type only (`:124`): where `_id`s
  are of two types, documents of the lesser type are not exported, and the watermark passes them,
  as `$gt` does with every type but its own afterwards. `NothingSkipped` is therefore about
  collections of one type (`OneType`).
- **sql_tab_switch** – `SqlPanel.vue:38-39` says the mode switch holds still while a transaction
  is open. It is disabled by `txId`, set when the transaction has begun: switched before that,
  the tab has a transaction, a disabled switch and no Commit or Rollback button.

Some properties exempt what is known to go wrong, each by a ghost, so that they say what holds
otherwise: `torn` (Connections: a sync that read an edit's record before its secret was written,
`sync/snapshot.rs:96`), `raced` and `torn` (SyncAccount), `overtaken` (ConnectionPool), `hasty` (SqlTab),
`torn` (MongoCommands, below), and `SaysMore` and `NamesSkip` (SqlQuery, below).
`LastSyncMeansSaved` is checked without clock skew, which can break it.

The proof of `DataStaysReadable` found one more. `setup.rs:153-154` says data "must never end up
locked with" another key, "nobody could read it any more". `SyncKeysStorage::save` (`keys.rs:67`)
writes the data key to the keychain, then its wrapped copies to a file. If the second write fails,
or a pass reads between the two, the device has the key of one setup and the copies of another; a
pass that then finds the server's data removed uploads both together (`first_upload`). The
invariant could not be proved without excluding this, so `torn` does. Put `NobodyIsLockedOut`, the
same without `torn`, for `DataStaysReadable` in MCStoresAndAccount.cfg, and TLC shows the run.

So did the proof about connections. `commands/connection/edit.rs:13` says that an edit's secrets
and its record "change together, so a sync can't slip in between"; but `Snapshot::read`
(`sync/snapshot.rs:96`) takes no lock, and one that reads between the two writes sends the new record
with the old secret, which comes back over the typed one. `torn` sets this apart. The proof failed
until `torn` also spoke of a move or a tag change between the two writes (`record.rs:93`), which
gives the record a later stamp: with one more change than the run has, the properties as first
stated were false. Put `TypedSecretLasts`, without `torn`, for `TypedSecretLastsUnlessTorn` in
MCSyncedRecords.cfg, and TLC shows the run.

Seen while modelling, and not shown by a run:

- *Syncing.* A first edit on a device whose clock is behind loses the merge (`record.rs:29`, by
  design of last-writer-wins). Edits an earlier run of the app left unsent do not count as unsent
  (`sync/schedule.rs:199`); a sync that fails with an error that is neither "unreachable" nor
  "limited" plans no retry (`:204`). A sync in flight saves its state again after sync was turned
  off (`sync/pass.rs:149`), and an unlock its keys after sign-out (`commands/sync_setup.rs:93`). A
  late "session gone" signs the next session out (`sync/run.rs:114`); handles of changed
  connections are evicted only at the end of a sync (`:110`). A refused keychain removal is never
  retried (`pass.rs:52`).
- *Connections.* `update_connection` writes back stale `open`, `folder_id` and `last_accessed`
  (`commands/connection.rs:308`); `save_connection` reports an error after it has saved, when the
  warm connect fails (`:178`); histories of connections deleted by a sync are never purged
  (`sync/run.rs:109`); the cache keeps what a failed write did not store (`storage/mod.rs:306`).
- *Pool and tunnels.* A command that read old settings and is still opening its client caches it
  after the eviction (`pool.rs:117`), and one that connects between an edit's save and its eviction
  is given the cached client of the former settings (`pool.rs:187`, `:200`): a write the new
  settings allow may then go to the former server, although the gate's comment has "one consistent
  view" (`commands/mod.rs:97-99`). `OthersKeepReadOnly` says that nothing else leads a command to another
  server, and exempts a connection so connected (`torn`). A host key may change between check and record
  (`ssh.rs:234`); the handshake has no timeout (`:330`); a second prompt replaces the first
  (`useSshHostKey.js:19`).
- *Stores.* A reader that found a file corrupt moves aside whatever is there by then, also the good
  file a writer has put in its place (`persist.rs:98`); KeptLog allows for it (`GiveUp`).
- *SQL.* Cancel before a run is registered finds nothing (`commands/postgres/cancel.rs:118`) and
  gives up when the pool is full (`:122`). MySQL's Cancelled is told for a write that was done
  (`commands/mysql/cancel.rs:122`). The line a failed COPY blames is the batch's
  (`commands/postgres/transfer.rs:113`); blank rows are skipped and "" comes back NULL
  (`commands/mysql/transfer.rs:204`). Items of "any of" with spaces, a pattern ending in a
  backslash, `NULLS FIRST`, `TABLESAMPLE` and a column named like a joined table do not survive the
  way through SQL mode; `LIMIT 0` means 100 rows, and a limit above 10000 pages by more than it
  loads (`tableLoad.js:83`).
- *MongoDB.* A GridFS copy lists files before their chunks (`gridfs/mod.rs:289`). Undo overwrites
  later edits and follows the connection to another server (`commands/mongo/history.rs:88`). A
  filtered and a whole export share a watermark (`admin/transfer.rs:149`); a smaller `_id` inserted
  later is never exported. A duplicate's check of its target and its `$out` are two calls
  (`duplicate/mod.rs:41`). The shell's read-only flag is read after an await (`shell.rs:34`), a
  worker spawned after its tab closed never ends (`shell.rs:37`), and a bare cursor's error is
  swallowed (`shell/engine.rs:235`). Several shell calls have no time limit. `ORDER BY` of one field
  twice, and a column named skip, translate wrongly (`commands/mongo/sql/mod.rs:94`).
- *The console's SQL.* `translate_sql` promises "the parts of an equivalent MongoDB find query"
  (`mongo/sql/mod.rs:380-381`), and `:13-18` that what is out of scope is rejected. But what it does not
  look at is accepted and dropped: `WITH`, `FETCH`, `FOR UPDATE`, `TOP`, `QUALIFY`, `NULLS FIRST`,
  `TABLESAMPLE`, `* EXCEPT` (`:206`, `:243`, `:267`, `:336-369`), and the `ESCAPE` of a `LIKE`
  (`filter.rs:125`), so that such a statement finds other documents, more of them, or in another
  order than it says. `FindsWhatItSays` sets these apart (`SaysMore`); every other statement is checked.
- *Operations.* Answers of the list may arrive out of order, an event between the first answer and
  the listener is missed, and 200 newer entries hide a running operation.

## 6. What is not modelled

- Pure functions over text or bytes: cryptography, URIs, parsing of SQL and of shell scripts, EJSON,
  formatting, query builders. They have no state and are unit-tested. SyncAccount takes encryption
  as: data opens with the key it was sealed with and with no other.
- Pure I/O: HTTP requests, file dialogs, menus, schema and activity queries (one query each).
- Open tabs and their session (`stores/tabs.js`, `useSessionPersistence.js`): the next module.
- Rendering and event wiring of the frontend; the live tests.
- Typed SQL that sqlparser cannot read (`ABORT`, `PREPARE TRANSACTION`) in SqlTab, and the connection
  pooler behind which a Cancel may reach another client's statement (`postgres/cancel.rs:17-20`).
- Within modelled components: Explain, scripts of several statements on PostgreSQL, results; the polling of a
  sign-in and the ages of the Premium answer; imports and exports of connections; JSON and XLSX
  formats; dates and numbers in filters; the JavaScript language of the shell.

## 7. Plan

Done: all modules of section 2, their runs, and the proofs of section 4.

Next:

1. **Tabs**: what is restored is what was open; the restore races the user.
2. Theorems, most important first: `CommandsGetLiveHandles` of ConnectionPool; `ImportIsWhole` of SqlTransfers.
