# dbdock in TLA+

Specifications, model-checking configurations and proofs for dbdock: a command
line tool and a TypeScript library that backs databases up, restores, copies and
migrates them, changes them under the protection of a checkpoint, and keeps a
directory's configuration and change records in step with DBDock Cloud. Paths
below are relative to `src/src/` of the repository.

## 1. The system

| part | state it keeps | operations | hard because |
|---|---|---|---|
| guarded changes (`changes/guard.ts`, `restore.ts`, `database.ts`; commands `run`, `undo`, `restore <id>`) | a session lock in the database; nothing else in memory between runs | `runGuardedChange`: lock, dump, manifest, running record, change, final record, send, close; `restoreCheckpoint` verifies, empties and loads | any step may fail or be the last before a kill; the lock goes with the session, the child process does not; undo decides before it locks |
| change records (`changes/records.ts`, `history.ts`) | one JSON file per change, with a `synced` mark; the records Cloud has | save, send, mark, retry; search for the change to undo | `sync` works from copies read earlier, beside running changes |
| checkpoint store (`changes/storage.ts`, `standalone/*`) | dump files and manifests | dump, then manifest; read and verify | a clean-up of plain backups in the same store removes checkpoints too |
| restore (`standalone/restore-standalone.ts`, `database-lock.ts`, `cli/commands/restore.ts`) | a lock of its own, a temporary file, the database while it is emptied and filled | download, checksum, trial decode, selection of schemas, reset, restore tool | the file is read twice; the lock may be lost half way; the tool outlives its parent; what a reset may drop depends on owner and platform |
| configuration sync (`cloud/sync-engine.ts`, `queue.ts`, `diff.ts`, `local-state.ts`) | a state file per directory: baseline revision and hashes, queue, dead letters; Cloud's revision | push: diff and queue; drain: ask, compare, push, acknowledge; retry and dead letter; pull | several machines, lost answers, repeated keys, whole-file writes from stale copies |
| clean-up and recycle bin (`cli/utils/retention.ts`, `storage/safe-storage.adapter.ts`, adapters) | the objects of a store, by key | evaluate and apply retention, move to trash, restore, purge | three writes per deletion, no lock at all, two kinds of listing, copies that take time |
| scheduler, backup service, alerts, service retention (`scheduler/*`, `backup/*`, `alerts/*`, `wal/*`) | cron jobs, a schedule file, backup objects and their metadata | load and edit schedules, pg_dump into an upload, metadata, alerts, daily retention | overlapping runs and edits; the exit of pg_dump races the end of its output; one failure in a chain of steps that each swallow or pass on errors |
| database copies (`cli/commands/copydb.ts`, `driver-copy.ts`) | the target database, half made | drop, create, load, sequences, foreign keys; or pg_dump piped into pg_restore | one snapshot per table, batches sent again, exit codes that are tolerated |
| migration (`migration/*`, `cli/commands/cross-migrate.ts`) | the target, an error table, a plan | analyse a sample, plan, create, read and write in batches; dry and incremental runs | no transaction, the source changes, the plan may not fit the data |
| deletion guard (`storage/deletion-guard.ts`) | times of recent deletions | validate a key, count a deletion | boundary of a sliding window |
| authentication (`cloud/oauth.ts`, `auth-token.ts`, `credentials.ts`) | tokens of an account | login, refresh | two processes refresh one token |
| encryption (`crypto/*`) | none | frame, encrypt, decrypt a stream | chunk boundaries |
| the rest (configuration, prompts, formatting) | files and text | load, validate, format | little that is concurrent |

How they interact. The commands call the library code directly. Processes meet
in few places: the **database** (session locks and contents), the **record
directory** (`.dbdock/changes`), the **state file** (`.dbdock/state.json`), the
**configuration file** (`dbdock.config.json`, which `dbdock schedule`, the
library's ScheduleManager and the scheduler of a running host share) and the
**object store**; machines meet in the store and in **Cloud**. The modules are cut
along those places. `PROJECT.json` lists every component, the ones without a
module too, and the hazards at their lines.

What makes each part correct:

* guarded changes: one change at a time; what was in the database stays
  recoverable; a record implies a checkpoint taken before; a restore that says
  it succeeded has restored everything; undo undoes the last change; the lock is
  given back.
* records: Cloud is told only what is final, nothing final changes, everything
  final is sent in the end.
* restore: nothing is emptied for a file that has not been proved; what the
  platform runs is left alone; success means exactly the backup.
* sync: the baseline is what Cloud held at its revision; unforced pushes lose
  nothing; a job is applied once and never dropped.
* recycle bin: nothing is lost before its time in the trash is over; the minimum
  of backups stays; the trash is emptied.
* backup service: the jobs are those of the file; a completed backup has an
  object; nobody is told two verdicts of one backup.
* copies and migration: what is reported as done is there, what is not is
  reported; nothing is written outside the place that was asked for; a run ends.

## 2. Modules

Each module `M` comes with `MCM`, which names the sets of its instances, and one
`.cfg` for each run; `MProofs` holds the theorems.

| module | models | state against code |
|---|---|---|
| `GuardedChange` | guarded changes, records, checkpoint store | `lock` the advisory lock, `pc`/`op`/`cp` the position in `runGuardedChange`, its request and its checkpoint; `db` contents; `content`, `scope` what each checkpoint holds and what there may be in the schemas it replaces; `stored`, `manifests` dump files and manifests; `rec`, `synced` the record files, `cloud` what Cloud has; `batch`, `arrived` the loop of `syncRecords`; `orphans` children of killed processes |
| `Restores` | `dbdock restore`, `restoreBackupStandalone` with and without `lockDatabase` | `lock`, `lost` the restore lock and the programs that saw its connection end; `pc`, `job`, `copy` the position, the request and the temporary file; `todo` the drops of a reset without a transaction, `left`, `err` the restore tool and what it reported; `orphans` tools of killed programs; `engine` PostgreSQL or MySQL |
| `CloudSync` | configuration sync | `file` the state file, `mem` the copy a process works on, `todo` the due jobs it read and has not done (the one at work is the first of them in the copy's queue), `known` the revision it has asked for, `answer` the acknowledgement in flight; `history`, `log` Cloud's revisions and what made them |
| `SharedConfig` | what configuration sync promises, without requests and queues: versions to which a directory adds what it drafted on the last of them, whole, or by force | an abstract specification; CloudSync instantiates it with the refinement mapping `Shared` (the drafts are the jobs of the state file) |
| `RecycleBin` | clean-up, soft deletion, restoration, purge | `objects` the store with kinds for backups, trash copies and their metadata; `plan` the list a process works off, `item`, `stamp` the deletion or restoration under way; `cutoff` the clock |
| `ServiceBackups` | the backup service in a NestJS host: schedules and their editors, backups, alerts, daily retention | `file`, `torn`, `editor`, `draft` the configuration file and its editors; `jobs`, `registered` the cron library and `registeredJobs`; `phase`, `dump`, `object`, `meta`, `todo` one `createBackup` each; `clean`, `victim`, `old` the retention |
| `DatabaseCopy` | `dbdock copydb`, by the driver and by pg_dump into pg_restore | `source`, and of the target `there`, `rows`, `doubled`, `typed`, `fks`, `next`; `todo` the tables the present loop has before it, taken in the order of `topologicalSort` (whose search `visit` is a recursive function, one step of it per number), `cursor`, `batch`, `tries` the rest of the loops; `dump`, `restored`, `errors` the two tools |
| `MongoToPostgres` | `dbdock migrate` from MongoDB | `plan` the mappings, one per collection analysed; `rows`, `kids`, `keys`, `log` by schema (`public`, or the one of a dry run); `due`, `fetched`, `batch`, `pending` the cursor and the statements under way |
| `PostgresToMongo` | `dbdock migrate` to MongoDB | `design`, `rows` the source, a row with its first column, the last column of its key and its references; `documents` the target with their `_id` and what is embedded; `total`, `offset`, `page`, `built` the pages of a table |

One action stands for one step between two points where another process can
act: a request, a file written, an `await` on the database. `syncPush` between
reading and writing the state file does not wait and is one action; `drain` is
one action per request and per write; a batch of a migration is one action per
statement. Variables marked *history* observe and are never read by a guard.
Definitions that begin with `\* Slip:` are plausible mistakes, each used to show
that a property notices it; no action of `Next` uses them.

What is abstracted. Contents of a database are a set of data: a change may leave
any set, a dump is a copy of it, a partial load a subset. In GuardedChange a
dump, once whole, stays whole; in Restores a file is whole, cut, made with
another key or gone, and decryption, decompression and checksum are what they
find out about it. A resource of the configuration is its hash. Rows are ids;
in MongoToPostgres a document is the shape its fields have, since types decide
which statements are refused; the rows a batch becomes are a set, written in the
order `Place` gives them. A page of PostgresToMongo is any set of rows that
`ORDER BY 1` with that `LIMIT` and `OFFSET` may return: rows of equal first
columns come in any order, and in another one for the next page. Its foreign keys
have one column and lead to tables whose primary key has one
(`DesignsAssumption`); of several documents with one `_id` in a batch any may
stay; no column of a table is named like an embedding. A checkpoint of
GuardedChange replaces a set of places (`scope`): all there are on MySQL, on
PostgreSQL those of the schemas that are there when it is saved, and CASCADE may
take more (`Reset`). The order of keys in a listing is left out. Times
are the numbers of writes.

What is outside `src/` and taken from its use: Cloud compares `If-Match` with
its revision and answers a known `Idempotency-Key` as it did before
(`cloud/api-client.ts:352-403`); `ingestChange` stores the record under its id;
the database ends a session's lock with the session, a transaction is undone
whole and a statement that is refused leaves nothing; an object store replaces an
object at once, a local file grows; the cron library keeps a job until it is
stopped; pg_dump, pg_restore and the other tools read their input, may report
errors and go on, and outlive a killed parent.

## 3. Runs

| run | instance | shows |
|---|---|---|
| `core` | GuardedChange: PostgreSQL, 2 processes, 1 datum, 2 checkpoints, 2 kills, plain backups and clean-ups in the same bucket | TypeOK, LockedAlone, NothingLost, RestoreExact, CheckpointFirst |
| `live` | GuardedChange: 1 process beside `dbdock sync`, linked, 3 checkpoints, no data, 1 kill, fair | CloudHonest, UndoesLastChange, RecordsFinal, LockReleased, EventuallySent |
| `restores` | Restores: 2 programs, 2 backups in a bucket and encrypted, 2 schemas of which a platform runs one, 3 objects, 2 restores of six kinds, 1 fault | ExactWhenTold, ProvedFirst |
| `platform` | the same | that PlatformUntouched, which the repository's README promises, does not hold |
| `machines` | CloudSync: 2 directories, 2 keys, 3 jobs, 2 edits, 1 failure, with and without `--force` | BaselineHonest, WholeConfigs, JobsKept, AppliedOnce; SharedSpec, that it implements SharedConfig |
| `bucket` | RecycleBin: S3/R2, 2 processes, 2 backups, 7 writes | MinBackupsStay, SoftDeletion |
| `disk` | RecycleBin: local disk, 1 process, 2 backups, 7 writes, fair | CopiesWhole, TrashEmptied |
| `service` | ServiceBackups: 2 names, 2 editors, 2 backups, 2 channels, 4 events | JobsFollowFile, CompletedStored, OneVerdict |
| `copies` | DatabaseCopy: 3 tables that refer to each other and themselves, the six modes, 2 writes of the application, 1 failure, fair | CopiedRight, FreshIds, KeysComplete, DataAccepted, Ends |
| `documents` | MongoToPostgres: 2 collections, sample of 1, batches of 2, 1 write, 2 runs with one plan (dry, full, incremental), 1 failure, fair | KidsHaveParents, Accounted, TwiceOnlyAfterRefusal, DryRunApart, RunEnds |
| `tables` | PostgresToMongo: seven designs of 4 tables, pages of 2, 1 write, 2 runs, 1 failure, fair | PlacesFilled, PagesComplete, NoLeftovers, RunEnds |
| `dry` | the same | that DryRunChangesNothing, which the command announces, does not hold |

Bounds, and why they are enough. Two processes give every pairwise interleaving
of the steps, and nothing in the code counts processes. Two checkpoints are an
operation and the restore of what it took; `live` has a third so that a change may
lie between an undo and its target. One datum is there or not in the database, in
a dump, in a scope, which is what the properties ask: no guard of GuardedChange
looks at data, and each action and each property treats every datum by itself, so
a second one only repeats the first. In `live` there is none, since records, locks
and the choice of undo do not depend on data. One kill shows every place for it;
`core` has two, since the children of two killed processes may write at once. `core`
runs on PostgreSQL, where the scope of a checkpoint may be less than the database;
on MySQL it is all of it and a reset may stop half way, which the theorems cover
along with any number of data. Three sync jobs are one of each directory and one queued
on what the other left; with two keys a job may carry a part of a configuration.
Seven writes are two backups, the deletion of one (copy and metadata), its
restoration and another deletion of it. They do not reach the one way in which
CopiesWhole lets a part replace a whole (a restore killed half way, another
deletion, two restores: thirteen writes); a search with three backups and thirteen
writes found it, and the proof covers it for any number. In `restores` the backups hold less and
more than the role may empty, one object of the platform uses one of the
application, and the two restores differ in lock, strictness, checksum and
schemas. In `service` four events are an edit, a reload, a backup and a fault,
in any order and number; nothing is kept (`MinKept` 0), so that retention can
reach a backup. In `copies` the batch holds one row, so that a table of two takes
two batches and the second can fail; the names are in an order the references
are not. In `documents` the sample sees one document, so that the other may not
fit the plan, and one of a batch of two may be refused. The seven
designs of `tables` have each way a table can be placed (a collection, one row
embedded, many, a junction with and without columns of its own, a table too large,
one two keys away, one that refers to itself) and each way in which one place is
written over by another: two keys of one child, two junctions to one table, a
junction and a table of that name, a column that is unique only with another. One
has tables whose first column is not their key, and a key of two columns.

Deadlock is checked in every run but `restores`, `platform` and `service`, whose programs
stop when the last restore, or event, the bounds allow is over. The copies and
migrations end by themselves and have an action for having ended.

`SharedStore` is an S3 or R2 bucket that holds plain backups beside checkpoint
dumps. A clean-up there takes old checkpoints by design: NothingLost and
CheckpointFirst let a checkpoint go once Keep newer dumps were taken, and the
theorem CleanUpKeeps says that no newer one goes. Without `SharedStore` no clean-up
reaches the checkpoints. That is a local directory of their own: `checkpoints`
below the project directory, the default, or DBDOCK_CHECKPOINT_DIR
(`changes/config.ts:41-57`). A local path that the configuration names is shared
with plain backups, and is not modelled: the local clean-up counts trash copies as
backups (section 5), so it may take a checkpoint that is among the newest.

Fairness. In `live` a process that is not killed goes on (no step waits for
anything but an answer, and every request has a timeout or ends with the
connection), and `dbdock sync` is run again and again with Cloud not refusing for
ever: strong fairness of sending and marking, weak of the rest. In `disk` the clock goes on and the daily job
(`scheduler/scheduler.service.ts:125`) is not killed every time. In `copies`,
`documents` and `tables` the command goes on by itself: all it waits for are
answers, which come or time out; the application that writes and the user who
starts a run are under no fairness.

## 4. Proofs

The theorems hold for every value of the constants, that is for any number of
processes, data, backups, schemas, documents and bounds, from the assumptions
named in the modules. Those only say that bounds and sizes are naturals (at
least one backup is kept), flags are Booleans, and that what constants name
exists: every process works in some directory (`DirAssumption`), backups hold
objects of the database's schemas (`SchemasAssumption`), entries are schedules
(`EntriesAssumption`), shapes and modes are of the kinds the code has; that no two
tables and no two collections of a migration have one name
(`TablesAssumption`, `CollectionsAssumption`); that a foreign key of a migration leads
to a table whose primary key has one column (`DesignsAssumption`); and that the rows a
migration finds have ids of their own and refer to rows that are there
(`ContentsAssumption`: the database's keys see to that).

`GuardedChangeProofs`:

| theorem | argument |
|---|---|
| TypeCorrect | TypeInv, which is TypeOK with: checkpoint numbers are at most `last`, a process between dump and close has one (`Numbered`) |
| LockExcludes | LockedAlone is inductive with TypeOK: a lock is only taken when there is none, and every step that leaves the guarded part, a kill included, gives it back |
| CleanUpKeeps | KeepInv: a dump outside the Keep newest has at least Keep newer ones (a fact about cardinalities, lemma CleanedIsOld), so it is no longer among those to be kept |
| CloudIsHonest, FinishedRecordsStay | RecordInv: what `sync` has read or sent but not marked is final and is what the file says, and only the process that holds the lock writes a record, before it is final. TypeInv and LockedAlone are needed: two holders would write one record |
| CheckpointsComeFirst | CheckpointInv: CheckpointFirst together with the position of the one process under way (dump there, manifest there, database undisturbed since); that the dump of a manifest is stored or old follows from KeepInv (lemma StoredOrOld) |
| RestoresAreExact | ScopeInv: a checkpoint holds nothing outside the schemas it replaces. RestoreInv: once emptied and until told, what is in those schemas is what the load put there, or the database is disturbed; neither the target's dump nor its scope changes |
| NothingIsLost | FoundInv: what was found is in the database or in a checkpoint that is stored or old, and while a change runs it is in a checkpoint even without the database. It rests on all of the above: CheckpointFirst for the dump, the lock for nobody else writing |
| UndoIsExact | UndoInv: from its search on, the target of an undo is the newest change with a record, the undo's own excepted. For one process (`OneProcess`): with two it does not hold, see section 5 |

`CloudSyncProofs`:

| theorem | argument |
|---|---|
| BaselinesAreHonest | BaselineInv: besides the files, the copy of every process and the answer in flight are right at the revision they name, so that a late write-back, an acknowledgement and a repeated answer bring in nothing wrong; Cloud only adds revisions (lemma PushGrows), so what was right stays right. It needs no type of the queue: CloudShape, that `history` and `log` are sequences, is enough |
| JobsAreAppliedOnce, ConfigsAreWhole | QueueInv: BaselineInv, and of every job in a file or in a copy of one, that it has the key it was queued with and that its changes are the difference between its goal and what Cloud held at its base (`Sound`); of Cloud's log, that no key is in it twice and that an unforced entry made its goal (LogInv). The second follows from the first since an unforced push is based on the last revision (lemma DiffApplied). Needed of BaselineInv: a new job is the difference to the baseline of its file |
| JobsAreKept | with one process in each directory (`OneEach`): CopyInv, that the queue of a process at work is that of its file, because nobody else writes that (lemma OthersInStep), and that a job is taken off for an answer only when it is in the log, there being one job at work (lemma CurrentOne) |
| SyncIsAListOfVersions | SharedSpec, with one process in each directory: from QueueInv and CopyInv, each step is one of SharedConfig (lemma SharedNext). Only six actions touch a file or Cloud (lemma QuietSteps); the others are stutters. A new job is a draft; a push publishes the draft of its job, or something by force; an acknowledgement, a failure and a pull learn a version and forget drafts (lemma Learns) |
| TypesCorrect | QueueInv with identifiers bounded by the jobs there have been (IdsInv). Cloud has no more than MaxJobs revisions because the log maps them one to one to jobs (lemma LogShort) |

`RestoresProofs`:

| theorem | argument |
|---|---|
| OthersLostOnlyToCascade | what a reset names lies in restorable schemas (NamedInv); what goes beside it is what CASCADE takes with it, or what a tool without reset drops. This is what is left of PlatformUntouched |
| BackupsProvedFirst | a program that drops or is about to has read its file to the end, and the file is as it was or the program is `spoilt` |
| RestoresAreExact | an invariant on each step of a locked restore: what its reset still has to drop, what its tool still has to create, and that whoever else fills does it without the lock, so that the program is `disturbed` |
| TypeCorrect | TypeOK is inductive as it stands: what a tool is fed is a part of its backup (lemma SourceFile), and only what is there is dropped |

`ServiceBackupsProofs`:

| theorem | argument |
|---|---|
| ReloadsAreClean | JobsInv: `registeredJobs` is the set of names that have a job, and there is at most one; a reload stops them all first |
| CompletedAreStored | a backup that is saving or later has its object, unless the retention removed it; the retention marks what it removes |
| VerdictsAgree | in each phase, what has been told and what is still to be tried; a verdict is told only after the metadata of its kind was stored, or its storing was given up |
| TypeCorrect | TypeOK with JobsInv: a reload stops one job for each name in the registry, so there must be one |

`DatabaseCopyProofs`, all from one inductive invariant (IInv), which is built in
layers:

| theorem | argument |
|---|---|
| TypeCorrect | Types and Course: in which order the loops come, and what of the target is there in each |
| TablesCopiedRight | Arrived: of the table under copy, the target holds what its snapshot held less the cursor and the batch, and of the batch what a lost answer may have left; Emptied: a table not yet copied is empty, also after a cascade; Opened: what the snapshots are of. A batch that lands twice lands once, since ids are kept apart (lemma BatchLands) |
| NextIdsFresh | Fresh: a table whose sequence was set has its ids below the next one, and nothing lands after that |
| KeysAreComplete | Quiet and KeysAdded: while nobody writes every snapshot is the present source, which keeps its own foreign keys (SourceKept), so that those of the copied tables are satisfied (lemma KeysHold) |
| DataIsAccepted | Excused: a table that failed waits for one on a cycle. A batch is refused only for a row that is not there yet, of a table at or after this one in the order of the sort (lemma Refusal). What the sort promises is proved about the search itself: in every state of it, a sorted table comes after those it refers to or is on a cycle, and each table on the way leads to the first (Search, lemmas Entrance, Exit); after twice as many steps as there are tables all are sorted (SearchDone). The induction over the steps is lemma NatSetInduction, from the least element of a set of numbers (LeastNat) |

`MongoToPostgresProofs`:

| theorem | argument |
|---|---|
| DryRunsStayApart | every statement of a run goes to its schema, and whether the run is dry changes only when it starts |
| NoOrphans | Parents: each row still pending of a child table has its parent's row pending before it, or written. Rows are taken in the order of Place, so the first of a batch of one kind has no parent left before it (lemma ParentsGoFirst) |
| TwiceMeansRefused | OnlyOnce: in the first run a child row that is still pending is not in its table yet, unless its document is one of those written alone, and only documents fetched so far have rows of the collection under way |
| TypeCorrect | Planned: every collection that was analysed has a mapping, whatever the sample (lemma MappingTypes). TwicePerRun: a run writes a child row at most once with its batch and once with its document, and what it has still to write it has not written so yet. OneFate: what is on its way has neither arrived nor been given up, since the cursor returns a document once |
| NothingLost | Arrivals (each document of the open collection is due, fetched, in the batch, or settled: in the target or among the errors) and PublicKept (what a run that is not dry has counted as arrived is written, and no statement takes it away) |

`PostgresToMongoProofs`:

| theorem | argument |
|---|---|
| TypeCorrect | OnTheWay: what is left of a page and what was built of it are of different rows, and together no more than a page. The rows of a page have places of their own, so there are no more of them than the page size (lemma PageFits), and the offset grows by a page only while rows are left |
| NothingLeftOver | FreshDocuments: a collection is cleared before its first page, so what is in it, built, or in the page was read in this run, unless the table is still to be cleared (Uncleared) |
| NoPageMissed | PagesKept: of the rows counted, those in the first `offset` places have been read. In a table that begins with its key, ids and places run in parallel, so that a page is the rows in its places (lemmas PlaceById, CountById), and a write that is neither a deletion nor a row before others moves no row (lemma PlacesUnderWrites) |
| EveryPlaceFilled | QuietRun: while nobody writes, `due` is the table, and the parts of each document are those of its rows; and every row with a place is mapped, or the last one to write its field in the document of a mapped row, through each of the ways of embedding (lemma PlaceMeansEmbedded, which needs that foreign keys hold) |

`RecycleBinProofs` (TypeCorrect for both kinds of store; the next two for a bucket,
whose copies are whole or not there; the last for both kinds, local disk included,
where an object grows while it is written):

| theorem | argument |
|---|---|
| TypeCorrect | Types, which is inductive: a key has one object, what a process works on is an object a run can have written, and times are those of writes |
| DeletionIsSoft | BucketInv: a process that deletes an original has its copy and its metadata in the trash, with a stamp no purge has reached (the clock cannot have passed a write made after the deletion began); a purge has planned only what is older than the cutoff; a restore is alone and puts the backup back before it removes the copy |
| MinimumStays | SparingInv: whatever any process has planned to delete, from however old a list, has MinKept newer backups now. A deletion keeps that: the newer ones of anything planned are never the ones that go, as those have MinKept newer ones of their own (lemmas Beside and Going) |
| CopiesStayWhole | AloneInv: with one process (`OneProcess`), what it knows of the object it works on stays true until it is done with it: a copy that has ended is whole if the original is, a restore that copies back has written over no whole backup unless it began with a part. Each step that can take a backup away then leaves a whole described copy, takes an object of the trash, or restores a part (lemmas CopyKeepsSafe, LosingAlone). CopiesOnly: what a purge and the end of a restore remove is never a backup |

JobsAreKept and SyncIsAListOfVersions of CloudSyncProofs (`OneEach`), UndoIsExact
of GuardedChangeProofs and CopiesStayWhole (`OneProcess`) have a condition on the
processes in their statement, the one their runs meet, and two of RecycleBinProofs
the kind of store (`~Local`), as their run has it; no other needs more than the modules say.

## 5. What the models say about the code

Read with its docs and comments, the code differs from what one would expect in
these places. Each is in a module as the code has it; where a property would not
hold because of it, the property says so in its condition.

* Undo takes its target from a history that another process may add to before it
  has the lock (`cli/commands/undo.ts:20`). UndoesLastChange is claimed for one
  process; no property covers two.
* A killed dbdock loses its lock at once, its child goes on
  (`cli/commands/run.ts:21`): what that child writes under another operation's
  lock makes the database `disturbed`, and NothingLost, RestoreExact and the dump
  of CheckpointFirst except it. LockedAlone speaks of dbdock processes only.
* The lock of a plain restore and the lock of a guarded change have different
  keys (`standalone/database-lock.ts:73`, `changes/database.ts:59`): they do not
  exclude each other.
* A restore looks at the connection of its lock before and in the reset only
  (`standalone/database-lock.ts:104`): ExactWhenTold excepts restores that lost it,
  and on MySQL those whose file changed between the proof and the load.
* `sync --force` pushes the jobs of the queue in order, an old one also when the
  directory has changed since (`cloud/sync-engine.ts:200`): Cloud may be left with
  an older configuration after a sync that reports success.
* The local listing matches substrings (`storage/adapters/local.adapter.ts:162`),
  so that trash copies count as backups and a clean-up after another leaves fewer
  than minBackups. MinBackupsStay is claimed of buckets.
* For the same reason a local clean-up plans to delete trash copies. A key
  `.trash/.../backup-...` passes the guard and, beginning with the prefix of the
  trash, is removed at once (`storage/safe-storage.adapter.ts:91-113`), however
  fresh the copy: a clean-up may delete for good what another has just moved there,
  although CHANGELOG.md:60 says that deletes are soft and purged only after trashRetentionDays.
  CopiesWhole excuses what goes with an object of the trash; SoftDeletion is
  claimed of buckets.
* restoreFromTrash beside a deletion of the same backup may lose it
  (`storage/safe-storage.adapter.ts:127`): the restored original is what the
  deletion removes. Restores run by themselves in RecycleBin.
* restoreFromTrash writes the trash copy over whatever has the original's key
  (`storage/safe-storage.adapter.ts:158-187`). A part left by a killed restore may
  be taken for the backup by the next clean-up; once the whole copy is restored,
  restoring that part replaces it. CopiesWhole excepts this, the one way in which
  one process loses a backup without an object of the trash going.
* A dropped object takes what uses it along (CASCADE,
  `standalone/database-lock.ts:284`), also in schemas that the repository's
  README.md:43 and CHANGELOG.md:22,26 say are never touched: the run `platform`. Nothing else
  outside the schemas a role may empty goes: OthersLostOnlyToCascade.
* A dry run to MongoDB empties the target's collections and fills them again
  (`migration/engines/postgres-to-mongo.engine.ts:87`), although
  `cli/commands/cross-migrate.ts:78` says that it makes no changes: the run `dry`.
* A migration to MongoDB that reports success leaves rows out. An embedding is
  stored under the name of the child table, or the plural of the other one
  (`migration/mappers/postgres-to-mongo.mapper.ts:201-204, 259`), so a second key of
  the child, or a second junction to a table, writes over the first; a column of a
  UNIQUE constraint over several counts as unique
  (`migration/analyzers/postgres.analyzer.ts:141-150`), and of the rows that share
  its value one is embedded; of a key of several columns `_id` is the last, and rows
  that agree in it replace each other. PlacesFilled says which rows are kept.
* Its pages are ordered by the first column
  (`migration/engines/postgres-to-mongo.engine.ts:106`), which need not be unique
  (PRIMARY KEY (tenant_id, id)) and may be updated: rows may miss every page.
  PagesComplete is about tables that begin with their key.
* "All foreign keys valid" (`cli/commands/cross-migrate.ts:450`) is printed
  whenever none was refused, those that were never tried included.
* pg_restore's exit code 1 counts as success in a copy, and so does a pg_dump that
  dies without a word (`cli/commands/copydb.ts:422`). When pg_restore ends first,
  pg_dump may wait on a pipe that nobody reads: Ends speaks of the answer of the
  command, not of the end of its process.
* The driver copies each table in a snapshot of its own while the application
  writes, and passes over foreign keys that are refused
  (`cli/commands/driver-copy.ts:541, 972`). KeysComplete is about a quiet source.
* The backup service marks a backup completed when the output of pg_dump ends, and
  only logs its exit (`backup/backup.service.ts:263`): CompletedStored lets the
  object be cut short, and no property forbids it.
* When the metadata of a failed backup cannot be saved no channel is told
  (`backup/backup.service.ts:174`), also when the store has it and only the answer
  was lost, and also after a completed one was stored: OneVerdict allows for it.
* The service retention sorts by `startTime.getTime()` of metadata read back from
  JSON, where it is a string (`wal/retention.service.ts:98`): with two backups the
  sort throws and nothing is deleted.
* Archiving a WAL file pipes a stream into itself; the error ends the host
  (`archiveWalFile` in ServiceBackups).
* `dbdock schedule` and ScheduleManager write the whole file from what they read
  (`cli/commands/schedule.ts:35`): one of two edits at once is lost.

## 6. Only model-checked, and not modelled

Every safety property and every action property a passing run checks is also a theorem, and
so is TypeOK of every module with a run of its own. Liveness stays with TLC
(LockReleased, EventuallySent, TrashEmptied, Ends and both RunEnds): the
proof system has no rules for fairness here. So does, for CopiesWhole, anything
but one process: the runs do not check it of several, since two clean-ups at once
may each take the other's half-written object for whole.

The library's induction theorems cannot be instantiated by the provers at hand;
where an induction is needed (the search of `topologicalSort`, positions in a
sequence) it is over a set of numbers that is a subset of a given one, which needs
no operator parameter. No proved module has a RECURSIVE operator.

That the two sides of configuration sync come to agree is not checked: CloudSync has
no fairness. `--force` alone does not do it, since a repeated answer takes the
baseline back to an older revision and only a pull brings it forward.

Not modelled: see `PROJECT.json`, where each component has its reason. The main
ones are the deletion limit (it needs a model of time that no other module has,
and only ever refuses what the others do), tokens (what the server does with a
spent refresh token is not in the repository), the framing and ciphers of
encryption, and configuration, prompts and project commands, which are one
process and one file.

## 7. Plan

Done: GuardedChange, CloudSync with SharedConfig, RecycleBin, Restores,
ServiceBackups, DatabaseCopy, MongoToPostgres and PostgresToMongo with their
runs; the proofs of section 4.

Left, in this order:

1. A composition of Restores with GuardedChange on one database, to say what a
   plain restore beside a guarded change may still promise.
2. CopiesWhole on local disk for several processes, and a local directory that
   checkpoints share with plain backups.
3. Convergence of configuration sync after lost answers, under fairness.
4. `DeletionLimit`: the sliding window as a machine over time, proved that no
   window holds more than the limit. `TokenRefresh`, once the server's answer to a
   spent token is known.
