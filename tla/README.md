# NexusCloud: a TLA+ verification project

NexusCloud is a self-hosted file server (Go) with a desktop client (Flutter)
that keeps local folders in sync with it, and a web interface. This directory
models the parts of it where several actors, two stores and failures meet,
checks them with TLC on small instances, and proves the most important results
with TLAPS for instances of every size. Paths below are relative to
`src/nexuscloud/`.

Contents: 1. the system; 2. what is modelled; 3. the runs; 4. the proofs;
5. what the project found; 6. what is not modelled, and the plan.

## 1. The system

### 1.1 Inventory

| component | state it keeps | operations | what is hard, and what makes it correct |
|---|---|---|---|
| File store `internal/storage/file_service.go` | tables `files`, `file_versions`; the physical tree and the version store of a pool | Upload, RestoreVersion, Delete, RestoreFile, PermanentlyDeleteFile, PurgeExpiredTrash, MoveFile | no lock and no transaction over database and disk: catalogue and disk agree, the content of a file is never lost, versions are never rewritten, trash is never overwritten |
| Directory tree (same service, `directory_sql_repository.go`) | table `directories`, the paths of everything below | Mkdir, MoveDirectory, DeleteDirectory, RestoreDirectory | a rename of a whole tree on disk and in the database; a folder in the trash and what lies below it |
| Local provider `local_provider.go`, `path.go` | the files of a pool | Write, Read, Move, Delete, Mkdir | atomic replacement through a staging file, paths that stay inside the pool |
| Sharing `file_service_sharing.go`, `share.go` | table `shares` | create, list, revoke, browse, download and upload through a link, access of users and groups | life cycle checked before acting, limits that hold when requests race, a grant put together by several queries while the tree moves |
| Storage pools, layout, bootstrap | table `storage_pools`, the resolver's cache | create, toggle, resolve, migrate the layout | runs at start-up; a file never leaves its pool |
| Backup manager `internal/backup` | table `backup_jobs`, folders or a remote server | Run, incremental Run, retention, Verify, Restore, RestoreToPool | crash in the middle, retention against a run that links to what is pruned, files that change while they are read |
| Remote backup receiver `api/v1/backup_remote_handlers.go` | folders and jobs of another server's runs | put file, put manifest, finalize, read, remove | a job exists only when everything has arrived |
| Authentication `internal/auth` | sessions, invitations, passkeys and their ceremonies, TOTP secrets | login, second factor, redeem, register, logout | invitations and ceremonies that two requests take up at once, rows that are inserted for an account which is deleted meanwhile |
| Users and groups `internal/users` | tables `users`, `user_roles`, `groups`, `user_groups` | CRUD, membership, from the API and from commands | whole-row updates of a copy read earlier, creation in two statements, cascades |
| WebDAV `internal/webdav` | locks of the process, tokens | PUT, MKCOL, MOVE, COPY, DELETE, LOCK over the file store | methods that are several calls of the file store, bodies that break off |
| HTTP API `internal/api/v1` | none | decode, authorize, one service call, encode | - |
| Security, audit `internal/security`, `internal/audit` | counters in memory, an append-only table | limit, record, list | - |
| Server process `internal/server` | tickers | trash purge, scheduled backup, shutdown | background passes that interleave with requests |
| Sync engine `client/lib/features/sync/domain/services/sync_engine.dart` | nothing between passes but the manifest | one pass over a pair of folders: walk, compare, transfer, move, delete, save | two folders that others write meanwhile, a crash at any step, a server that answers late or not at all: the sides converge, and nothing of the user's is lost |
| Local trash, manifest (`client/.../sync/data`) | files of the client | moveToTrash, restore, purge; read, write | atomic write of the manifest |
| Scheduler, watcher, pairs (`client/.../sync/domain/services`) | timers, watched folders, running pairs | tick, file event, sync now | an event that comes while a pair runs |
| File transfer (`client/.../files/data`) | `.part` files | resumable download, upload | what is resumed is what was asked for |
| Database, migrations, CLI, configuration, client updates, disk/RAID/snapshot information, web interface | - | - | constraints appear as guards; the rest is plumbing |

`PROJECT.json` lists the same components with their status, and every hazard
with the properties that watch it.

### 1.2 How the parts interact

* An HTTP, WebDAV or link request becomes one or more calls of `FileService`.
  A call is a sequence of SQL statements and provider calls; nothing keeps two
  calls apart, and the trash purge of `internal/server` is one more caller.
* A public link is read once at the start of a request; everything after works
  with that copy, except the one `UPDATE` that counts a download. A share with a
  user or a group is looked for anew by every request, two queries per folder.
* The commands of the shell (`nexuscloud users`, `files`, `backup`, ...) are
  processes of their own on the same database and the same pools.
* The backup manager reads the table of files and the pools while both change,
  and writes to a folder or to another NexusCloud, whose receiver keeps rows of
  its own about the same jobs.
* The sync engine sees the server only through single requests (list, download,
  upload, rename, delete) and the local folder only through single file
  operations. Its one memory is the manifest, written at the end of a pass. The
  clock, the folder watcher and a button start its passes, in one event loop.

The modules and how they use each other (an arrow is EXTENDS, `=>` is
"implements", checked or proved):

```
FileStore <- FileStoreInv <- FileStoreProofs <- FileStoreStepProofs
FileStoreInv <- FileStoreRefinement <- MCFileStore, FileStoreStepProofs
FileStore => VersionedStore
DirectoryTree <- WebDAV <- MCWebDAV     WebDAV <- WebDAVInv <- WebDAVProofs
ShareLink <- ShareLinkProofs, MCShareLink
ShareGrants <- ShareGrantsProofs, MCShareGrants
Accounts <- SignIn <- MCSignIn, SignInProofs     SignIn => Accounts
Backup <- MCBackup       Backup <- BackupInv <- BackupProofs
SyncEngine <- MCSyncEngine          SyncWatcher <- SyncWatcherProofs
```

## 2. What is modelled

### 2.1 `FileStore`: the file operations over catalogue and disk

State: `rows` (table files), `vrows` (table file_versions), `disk` (what lies
at each path), `vault` (the version store), `versioning` (the configuration of
this start), `req` (where each request is and what it has read), plus three
history variables: `faults`, `doomed` (files whose permanent deletion has
begun, until a new file takes the id) and `exposed` (files whose content the code
itself stopped protecting).

Every repository call and every provider call is one step, so all interleavings
of requests at that granularity are explored. A request has a program counter
named after the function and the call it is about to make:

| code | actions |
|---|---|
| `Upload` 147-228 | `UploadBegin` (or `UploadBeginBlind` when the trash lookup fails), `UploadRead` (`UploadReadBlind`), then a snapshot when the content differs, `UploadPlace`, `UploadCommit` |
| `snapshotVersion`, `enforceMaxVersions` | `SnapshotNumber`, `SnapshotMove`, `SnapshotRecord`, `PruneList`, then `PruneContent` and `PruneRow` per surplus version |
| `RestoreVersion` 360-408 | `RestoreVersionBegin`, a snapshot or `RestoreDiscard`, `RestorePlace`, `RestoreRow`, `RestoreCommit` |
| `Delete`, `RestoreFile` | one update each |
| `permanentlyDeleteFile`, `PurgeExpiredTrash` | `EraseBegin` or `PurgeBegin`, `EraseContent`, `EraseList`, `EraseVault` per version, `EraseHistory`, `EraseFile`, which goes on to the next file of a purge |
| `MoveFile` 549-609 | `MoveBegin`, `MoveRename`, `MoveRow`, `MoveUndo` |
| an error, the end of the process, a restart with another configuration | `Fail`, `Crash`, `Reconfigure` |

`Disjoint` chooses between two kinds of instance: requests that start only when
no request in flight works on the same file or path (what a single user does),
and requests that cross in every way. The runs are of the first kind; for the
second, two theorems hold (section 4) and section 5 says what the code does not
keep.

Abstractions, each named in the module: a blob stands for its SHA-256; a key is
the natural key and the physical path derived from it; staging files are
private; of the retention policies only the count is modelled (the default); a
failed call has no effect. The row of a version is identified by its number,
while the code deletes it by the row's id. For requests that keep apart this is
the same. Where requests cross, the number may by then be that of another row, so
`PruneRow` and `RestoreRow` may also find the row gone although its number is
recorded (`RowGone`).

`FileStoreInv` holds the inductive invariants of the proofs: `NInv`, `IInv`,
`HInv`, `SInv`; that of the mapping, `RInv`, is in `FileStoreRefinement`.

**`VersionedStore`** is what all this is for, as whoever calls the store sees it:
files with a name, a content and a history, every operation one step, and no
step that loses a content. `FileStoreRefinement` maps one to the other. The
content of a file is what lies at its path, and while the path is empty the one
its row names. A version is what lies in the version store under a recorded
number, except one that a request has made and not yet followed by the new
content: overwriting puts the old content into the history and the new one in
its place at one instant, the rename of the new content. A file is gone with the
first step of its permanent deletion. The refinement is checked and proved without
failures, for requests that keep apart, and for an unlimited history
(`MaxVersions = 0`): pruning would be a second way out of a history, which
`HistoryBounded` and `Recoverable` treat instead. So neither `filestore_intact`
nor the refinement says anything of what pruning does to a history:
`filestore_restore` and `filestore_fault`, with limits of 1 and 2, do.

### 2.2 `ShareLink`: a public link and its limits

State: `link` (the row), `resource` (the shared file or folder exists), `now`,
`req` (what each request does), `served` (history: contents handed out).
`Resolve` is `ResolvePublicShareForAccess` with the permission check of the
operation; `Lookup` fetches the file or folder; `IncrementDownloadCount` is the
counting `UPDATE`; `Read` opens the content; `Stream` is one `Read` of
`errLimitReader` by the copy loop of an upload, with the body handing out any
number of bytes it likes. `CreateShare`, `RevokeShare`, `Erase` (with the
cascade) and `Tick` go on in between. Contents are their sizes.

### 2.3 `SyncEngine`: one pair of folders in the mode "both"

State: the server (`remote`, `trashed`, `kept`), the local disk (`local`,
`copies`, `bin`, `mounted`), the manifest (`base`), the pass in progress
(`pass`), the deletions waiting for a confirmation (`pending`), a logical
`clock`, bounds (`edits`, `faults`) and three history variables: `exposed` (local
contents that a pass took for synced without comparing them, or left on one side
of a conflict), `lost` (paths whose local file the user deleted or renamed) and
`taken` (those whose local file a pass took away and no manifest written since
knows to be gone).

| code | actions |
|---|---|
| `syncNow`, `_runSync` 228-343 | `Begin`, `GiveUp` (the folder is missing), `Save` |
| `_walkRemote`, `_walkLocal` | `WalkRemote`, `WalkLocal`, one path at a time |
| `_reconcilePass` 482-545, `_reconcileBothPresent` | `Collect`, `Skip`, `DownloadChanged`, `UploadChanged`, `Compare` |
| `_detectAndApplyMoves` | `MoveOnServer`, `MoveBreaks`, `MoveLocally` |
| the two loops over new files 564-590 | `DownloadNew`, `UploadNew`; an upload is `Send` and then `Touch`, which sets the local date |
| `_resolveDeletes` | `Held`, `DeleteOnServer`, `DeleteLocally`, `Postponed` |
| errors, the end of the client | `RequestFails`, `HalfDownloaded`, `Dies`, `MoveBreaks` |

The users (`LocalWrite`, `LocalDelete`, `LocalRename`, `Unplug`, `RemoteWrite`,
`RemoteDelete`, `RemoteRestore`, `RemoteRename`) act between passes and, with
`MidPass`, between any two requests of a pass. The server's side is `FileStore`
seen through its API: upload keeps what it replaces as a version and is refused
under a name in the trash, rename is refused onto a name in use.

Abstractions: a key is a path in a folder of its own; all contents have one
size, so that dates and hashes do the work; a folder comes and goes between passes
or during the remote walk, not while the local one is read. Dates are stamps of
one clock, which goes on by `gap` with every write, one of `Gaps` for a behaviour; `Close` takes two of
them for equal when they are at most `Tolerance` apart, the two seconds of
`_mtimeTolerance`.

The passes themselves are started by `SyncWatcher` (2.5).

### 2.4 `DirectoryTree` and `WebDAV`: folders

State: `dirs` and `files` (the two tables of paths), `disk` (a content, a folder
or nothing at every path), `req` (the calls each request has still to make),
bounds, and two history variables: `calm` (so far, requests under way at the
same time were about unrelated paths, and no crash left a move half done) and
`crossed` (rows that once had something in their way: a file whose path a folder
had too, or a file or folder below the path of a file, section 5).

| code | actions |
|---|---|
| `Mkdir` | `MkdirCheck`, `MkdirDisk`, `MkdirRow` |
| `MoveDirectory` 716-767 | `MoveCheck`, `MoveDisk`, `MoveDirectoryTree` (the transaction over both tables), `MoveUndo` |
| `DeleteDirectory`, `RestoreDirectory`, `permanentlyDeleteDirectory` | `DeleteCheck`, `DeleteDisk`, `SoftDeleteDirectory`; `RestoreCheck`, `RestoreRow`, `RestoreDisk`; `EraseCheck`, `EraseDisk`, `EraseRow` |
| `PurgeExpiredTrash` | `PurgeFiles`, `PurgeDirectories` |
| operations on files | one action each; their steps are the subject of `FileStore` |
| `nexuscloud files` upload, mkdir, rm, mv, trash restore | `UploadRequest`, `MkdirRequest`, `RmRequest`, `MvRequest`, `TrashRestoreRequest` |
| WebDAV `MKCOL`, `PUT`, `DELETE`, `MOVE` | `Mkcol`; `OpenForWrite`, `UploadBegins`, `BodyBreaks`, `CloseUpload`; `RemoveAll`, `RemoveTree`, `DeleteFile`; `Move`, `Rename`, then `MoveOverFile` or `MoveOneFile` or the move of a folder |
| WebDAV `COPY` of a file, in `CopySpec` only | `Copy`, `SourceBreaks`, and the steps of a `PUT` |
| a statement that fails, the end of the process | `DatabaseError`, `Crash` |

`MoveDirectoryTree` fails by itself, too, when a row it would write collides
with the unique key of its table. What `os.Rename`, `os.Remove` and
`os.MkdirAll` refuse is in `CanMove`, `CanRemove`, `CanMkdirAll` and `OutOfReach`
(a path that leads through a file, `ENOTDIR`, which is no "not empty"), and a
rename that is refused may all the same have made the folder it was to go into
(`NotMoved`). A lookup of the trash that fails is taken for a free name
(`NamePasses`). A WebDAV method is a list of calls that is worked off one by one,
and grows: the removal of a folder lists it and goes down.

A `PUT` is an `Upload` that reads a pipe. `UploadBegins` is its look at the trash,
when the file is opened; `BodyBreaks` is the body that ends too early or is too
long, of which a part has gone through the pipe, with the error in the tracker;
`CloseUpload` is the `Close` that x/net calls in any case, and what it does with
the pipe (`PipeEnds`) depends on the tracker alone. A `COPY` opens its destination
as a `PUT` does, with an empty body of its own, so that the tracker can never tell.

### 2.5 `SyncWatcher`: what starts the passes

State: the list of pairs, their configuration and the scheduler's timer; the
watcher's flag, what it watches and its debounce timers (`notices`); whether the
watcher still has to hear of the last saved list (`stale`); the session; the
passes that run and the calls of `syncAllNow` that wait for them; `dirty` (pairs
with a change that is not on the server), `unreadable`, and `excused` (history:
changes the watcher is known to forget). Everything lives in one event loop, so
an action is what runs between two awaits.

| code | actions |
|---|---|
| `AutoSyncScheduler._tick` | `Tick`: session and list are read again every time; ticks may overlap |
| `MultiPairSyncCoordinator.syncAllNow` | `SyncNext` and `Release`: an `ApiException` goes on with the list, anything else ends it |
| `SyncEngine.syncNow`, `_inFlightByPairKey` | `StartPass`, joined by whoever asks for the same pair; `WalkRemote`, `WalkLocal`, `Transfer`, `EndPass` |
| `LocalChangeWatcherService` | `SetEnabled`, `UpdatePairs`, `Fire`; an event and its debounce timer are one notice |
| settings page | `AddPair`, `RemovePair`, `EditPair`, `UpdateSettings`, `SyncAll` |
| the user, the folders, the process | `LocalChange`, `LoginOrLogout`, `SwitchAccess`, `Restart` |

### 2.6 `ShareGrants`: shares with users and groups

State: `dirs`, `files`, `shares`, `users`, `member`, `now`, and `req`: a request
of a guest, the path it read, how far up that path it has come, what it has
found. `Ask` reads the row, `Own` the shares on the resource itself, `LookUp` the row
of one more folder and `AskShares` the shares on it, wherever it lies by then;
`Arrive` decides at the root, `Store` is the upload that follows. A request keeps
the instant at which it began to climb, as the code does. The
expiry is compared as the code compares it: as text, without the fraction of a
whole second (`SortsAfter`).

Each request carries the history the properties need: the limits of all shares
that covered its resource at some instant (`ever`), and the shares that covered
it at every instant so far (`reads`, `uploads`), told from the tree and not from
the queries. `late` says that something changed after the request had lost track:
its resource had moved or gone, the folder whose shares it was about to ask for no
longer lay above the resource or was in the trash, or the clock had left the second
of the climb (`Current`). From then on one change can put a share in the way of the
climb that never covered the resource, and nothing in the code prevents that: trash
the folder after its lookup, and a share made on it then still lets in. Whoever
moves a row, and a query that fails, ends what is promised (`Unpromised`): a climb
may miss a folder that changes its place meanwhile.

`MoveDirectory` is refused where the rename is (into itself, onto a folder that
is not empty) and where the transaction is (a path that would have two rows of one
table).

### 2.7 `Backup`: the manager and the receiver

State: the catalogue and the contents of the pools (`row`, `disk`) and the `mode`
of each pool (active with a policy, active with `off`, disabled), the jobs of this
server and of the receiver, the destination: `copy` (the directory entry of each
file in each job's folder, naming the job that made the inode, so that hard links
share contents), `bytes` (what each inode holds, sealed with which key), `note`
(the manifests); `run` (what each of the processes does), and history: `doomed`
(jobs whose removal has begun) and, in `run`, the files that were active since the
run began and those that a call failed for.

| code | actions |
|---|---|
| `Manager.Run` | `Begin`, `FindReference`, `ListPool`, `LinkFile` or `CopyFile` (also after a link that failed), `WriteManifest`, `Finalize` (remote), `Finish` |
| `pruneOldBackups` | `PruneList`, then `RemoveJob` and `DropRow` for each; `RemoveBreaks` |
| `fail` | `MarkFailed` |
| `Restore`, `RestoreToPool`, `Verify` | `Open`, then `RestoreFile`, or `VerifyFile`, `UploadFile` and `RecordFile` (the bytes and then the row), or `CheckFile`; `FileFails` (any call for one file fails); `Report` |
| `backup_remote_handlers.go` | `CopyFile`, `WriteManifest`, `Finalize`, `RemoveJob`, `ReceiverPrunes` |
| schedule loop, commands | `ScheduledRun`; `RunCommand`, `RestoreCommand`, `VerifyCommand`, `RestoreToPoolCommand` |
| what goes wrong | `Breaks` (a call fails, the context expires, an answer of the receiver is lost), `Dies`, `Rot` |
| the rest of the server | `Write`, `Commit`, `Delete`, `SetPool`, `Age` |

Jobs are numbered in the order they start, which is the order `ListJobs` gives them
unless two start within one second: `started_at` is compared as text that leaves
out the zeros at its end. Such jobs are not modelled. A restore of a file writes
what it reads and then compares; what is not as the manifest says is removed, and
the removal may fail. A file whose calls fail is blamed whatever its copy is like
(`FileFails`), and a part of it may be left in the folder.

### 2.8 `Accounts` and `SignIn`

`Accounts` has the tables `users`, `user_roles`, `groups`, `user_groups`,
`invitations`, and `task`, what each request has still to do. An operation is the
sequence of its statements: `Read` and `UpdateUser` (every edit of an account, and
the end of a login, writes back the whole row it read before), `InsertUser`,
`AssignRole`, `RecordUse` (a creation, and a redemption with the use it counts at
the end), `DeleteUser` with its cascades, `LookUpMember` and `AddUserToGroup`.
Which fields, roles and names are asked for is the business of the handlers and
the commands, one action each; a PATCH may name the status, what the owner may
edit, both or none, and a login sets its date (`ReadForLogin`). `made`, `lost` and
`halfMade` are history.

`SignIn` adds sessions, passkeys, WebDAV tokens, ceremonies and `visit`, how far a
request has come: `Login`, `SecondFactor`, `CreateSession`, `RecordLogin`;
`BeginWebAuthnLogin`, `FinishWebAuthnLogin`, `DeleteCeremony`, `ValidateLogin`,
`PersistLoginResult` (the passkey is looked up again to keep its counter),
`FinishRegistration`; `ValidateToken`, `LoadUser`, `RequireAdmin`, which reads the
roles in a statement of its own, and `Handler`, behind which are the operations of
`Accounts`. `served` is history: which request was let in, as whom, by which
ceremony. The deletion of an account takes its doors with it (`Cascade`), in the
same statement. Identifiers are never used again, as `idgen.New` makes them; an
invitation that has expired, and a session that has, is one that was revoked.

## 3. The runs

| run | checks | instance | why it is enough |
|---|---|---|---|
| `filestore_intact` | `InStep`, `Undisturbed`, `PriorContentKept`, `ImplementsVersionedStore` | 2 requests, 2 paths, 2 contents, 2 files, 2 version numbers, no failure, every operation, both versioning settings | two files and two paths are enough for a move, a purge of several files and an upload beside it; two versions for a loop with a second turn |
| `filestore_fault` | `IInv`, `Recoverable`, `HistoryBounded`, `HistoryImmutable` | history of 2, version numbers up to 3, one failure or crash at any step | the smallest history that survives a failure; the theorems below cover the rest |
| `webdav_tree` | `TypeOK`, `FilesStand`, `FoldersStand`, `SourceGoesLast`, `NothingTorn` | a WebDAV client and a client of the API, 2 names, depth 2, 2 folders, 2 files, 3 requests, one failure (a broken body is one), from every tree | a folder, something in it and a place to move it to; the third request meets what the first two left, or the failure did; the theorems hold for any number of requests |
| `sharelink_limits` | `LimitKept`, `CutAtTheLimit`, `IInv` | 2 requests, limits and bodies up to 3 bytes read 2 at a time, one place | two requests race for one place; bodies below, at and above the limit, with reads that end at, before and after it |
| `share_grants` | `TypeOK`, `GrantedWhileCovered`, `NeverOverlooked` | every tree of 2 folders and a file, every share, one request of a guest, one change, step of the clock or failed query at any point of it | a climb has up to four queries; one change between two of them is the least that makes them disagree, and the theorems hold for any number of changes and requests |
| `accounts` | `TypeOK`, `NothingOutlivesItsUser`, `InvitationUses`, `RoleOrFailure`, `CeremonyServesItsOwn` | an administrator, a user with TOTP or a passkey, two newcomers, an invitation for one use, 2 requests at once, 3 operations, one failure | every pair of operations crosses, after or before a third |
| `backup_retention` | `TypeOK`, `Restorable`, `NothingMissed`, `LastGoodKept` | 3 jobs, 2 runners, 2 files of one pool, one act of a user, one failure; a command with a policy by days, the schedule incremental and keeping one | one job to link to, a second that makes it surplus, a third that links to it while it is removed: the least with which a run links to what another prunes; a failure leaves a half-removed job or a row |
| `backup_restore` | `Restorable`, `ReceiverKnows`, `RestoreIsExact` | 2 jobs, 2 files, 2 contents, 2 keys, one act (a restore is one), 2 failures; jobs sealed, incremental on those, or at a receiver | a restore of either job with the right key, the other or none, a removal, a bad sector and a failed call around it; a lost request or answer at every point of an upload |
| `sync_settles` | `TypeOK`, `Settles`, `NothingLost`, `DeletesFollowLosses` | 2 paths, 2 contents, 3 acts or failures (at most 1 failure) at any moment, writes that follow each other within the tolerance or further apart, deletions above 1 need a confirmation | a rename takes two paths; a conflict takes an act on each side, and the third act or the failure hits any step of the passes before and after |
| `watcher` | `TypeOK`, `Attended`, `EventuallySynced`, `CallsEnd` | 2 pairs, a tick and the button, 2 acts, one failed request or restart | the second pair stands behind one that fails; two acts are a change and what makes the watcher forget it |
| `filestore_restore` | `RestoreKeepsTarget`, violated | a history of 1, uploads and restores, no failure | section 5 |
| `sync_conflict` | `ConflictNeverOverwritten`, violated | 1 path, 2 contents, 3 acts, no failure | section 5 |

What the properties say:

* `InStep`: without a failure, outside the files in work, the disk holds at
  every path what the row says, and the version store exactly the versions of
  the table.
* `Undisturbed`: no step touches a file that no request has read (trash
  included).
* `PriorContentKept`: replacing a content leaves it in the history.
* `ImplementsVersionedStore`: every operation is one step of `VersionedStore`.
* `Recoverable`: a history of N versions survives N-1 failures: the content
  the catalogue names is still in the pool, at the path, on its way or in the
  version store.
* `HistoryBounded`: a missed pruning is made up for.
* `HistoryImmutable`: the row or bytes of a recorded version are deleted or
  restored, never rewritten, as long as requests keep apart.
* `FilesStand`, `FoldersStand`: what a row describes lies where it says, however
  folders are moved, undone, put into the trash and taken out around it.
* `SourceGoesLast`: a MOVE over a file removes its source only when another file
  holds the content, as long as no other request works on related paths.
* `NothingTorn`: a body that broke off never becomes the content of a file,
  although `Close` is called all the same.
* `LimitKept`, `CutAtTheLimit`: the two limits of a link.
* `GrantedWhileCovered`, `NeverOverlooked`: whoever is let in had a share at some
  instant of the request (unless a change came `late`, after one that left the
  climb with what was no longer true), and whoever had one throughout, while
  nothing moved, is not turned away or held to less.
* `NothingOutlivesItsUser`: no session, passkey, token, ceremony, role,
  membership or invitation is left of a deleted account, or arrives after it.
* `InvitationUses`: accounts made and uses counted agree, and redemptions that
  overlap overspend an invitation by less than one use per request.
* `RoleOrFailure`: an account without a role is a creation under way or failed.
* `CeremonyServesItsOwn`: a ceremony serves only what and whom it was begun for, and
  one that has served is gone: whoever is served after another had read it before.
* `Restorable`, `NothingMissed`: a completed job that retention left alone keeps
  its manifest and every content, and misses no file that was there throughout.
* `ReceiverKnows`: the receiver lists no job of which the manifest, or a file that it
  names, has not arrived, and the origin takes no job for completed that the
  receiver does not list. (A job that has all arrived may be unlisted: the request
  that registers it was lost.)
* `RestoreIsExact`: what a restore does not report is what the manifest says, and a
  restore or verification blames a file only when its job is being removed, its
  copy is bad or sealed with another key, or a call for it failed.
* `LastGoodKept`: retention never begins with the last good backup of a folder.
* `Settles`: a clean pass that nobody disturbs leaves both sides with the same
  content at every path, or a conflict copy, or a deletion to confirm,
  whatever crashed or failed before. It exempts a write within the tolerance of
  the dates of the last pass (`Overlooked`) and what the engine has stopped
  comparing (`exposed`).
* `NothingLost`: what a pass overwrites or removes locally is still in the
  local trash, in a conflict copy or on the server, with the same exemptions
  (`Unseen`, `exposed`).
* `DeletesFollowLosses`: a pass deletes a file on the server only when the folder is
  there and the local file was taken away, by the user or by a pass that did not
  live to write its manifest. The second is what the code should not do, and does
  (`DeletesAreTheUsers`, section 5).
* `Attended`: a change of a watched folder has a timer or a pass at work, unless
  one of the listed reasons excuses it.
* `EventuallySynced`: whatever the watcher forgets, the clock takes to the server.
* `CallsEnd`: nobody waits for a pass for ever.

**Fairness.** Only `SyncWatcher` assumes any, and only liveness needs it: weak
fairness of every pass (`Pass`), of the shots (`Fire`), of the clock (`Tick`),
of the loop over the pairs (`SyncNext`) and of `UpdatePairs`. One event loop runs
every ready callback and every timer that is due; `Timer.periodic` goes off
again and again; a request is answered or runs into its timeout, and a walk of a
folder ends. Nobody is assumed to press a button, to log in or to make a folder
readable: `EventuallySynced` speaks of pairs that stay as they are (`Steady`).

**Deadlock** is checked in the instances that go on for ever: the file store
and the sync engine. In the others the bounded requests, acts and jobs are used up
and the system rests: `sharelink_limits` and `share_grants` (every request is made
once), the runs on folders and on accounts (`MaxOps`), the runs on backups
(`MaxJobs`, `MaxWrites`), and `watcher` when the user has switched the timer off.

**Bounds** are constants named in the modules: `MaxNum`, `MaxFaults`, `MaxEvents`,
`MaxOps`, `MaxActs`, `MaxJobs`, `MaxWrites`, `Depth`, `MaxUses`,
`MaxAutoDeleteBatch` (a constant of the code, 1 instead of 10), `Tolerance` and
`Gaps` (the two seconds are one unit of the clock, and in one behaviour every write
comes one, in another two after the last), `Horizon`, `MaxSize`, `MostAllowed`,
`LargestBody`. The guards
`LatestVersionNum(i) < MaxNum` stop an instance from starting an operation that
would need a higher number than it has.

## 4. The proofs

| module | theorem | establishes |
|---|---|---|
| `FileStoreProofs` | `TypeInvariant` | `TypeOK`, races, failures and restarts included |
| `FileStoreProofs` | `VersionNumbersGrow` | `NumbersGrow`, by `NInv`: whatever requests cross, the newest recorded number of a file never falls |
| `FileStoreProofs` | `RequestsGrounded` | `GInv`: what a request has read still holds when it acts |
| `FileStoreProofs` | `ContentInvariant`, `NoContentLost` | `IInv` is inductive and implies `Recoverable` |
| `FileStoreProofs` | `VersionsNeverRewritten` | `HistoryImmutable` |
| `FileStoreStepProofs` | `OthersUndisturbed` | `Undisturbed` |
| `FileStoreStepProofs` | `HistoryInvariant`, `HistoryStaysBounded` | `HInv` is inductive and implies `HistoryBounded` |
| `FileStoreStepProofs` | `OrderInvariant`, `StoresInStep`, `PriorContentIsKept` | `SInv` is inductive and implies `InStep` and `PriorContentKept` |
| `FileStoreStepProofs` | `TargetSurvives` | `RestoreKeepsTarget` for an unlimited history |
| `FileStoreStepProofs` | `MappingInvariant`, `StoreImplementsPromise` | `ImplementsVersionedStore`: the refinement, step by step |
| `ShareLinkProofs` | `ShareInvariant`, `DownloadsLimited`, `UploadsCutAtTheLimit` | `LimitKept` and `CutAtTheLimit` |
| `ShareGrantsProofs` | `Types`, `Covers`, `NobodyOverlooked` | `TypeOK`, `GrantedWhileCovered` and `NeverOverlooked`, by `CoverInv` and `PromiseInv` |
| `SignInProofs` | `AccountsTyped`, `RightsHaveOwners`, `InvitationsCounted`, `RolesAreGiven` | types, `RightsOwned`, `InvitationUses`, `RoleOrFailure` of `Accounts` |
| `SignInProofs` | `SignInImplementsAccounts` | every step of `SignIn` is a step of `Accounts` or leaves it alone |
| `SignInProofs` | `SignInTypeCorrect`, `NothingLeftOver`, `CeremoniesServeTheirOwn`, `InvitationsCountedAtSignIn`, `RolesAreGivenAtSignIn` | the properties of the run `accounts` |
| `BackupProofs` | `JobsHaveOneOwner`, `BackupTypeCorrect` | `Ownership`, `TypeOK` |
| `BackupProofs` | `RetentionHolds`, `LastGoodBackupKept` | `Retention`, `LastGoodKept` |
| `BackupProofs` | `ContainedHolds`, `CompletedIsRestorable`, `ReceiverIsTold`, `RestoresAreExact`, `RunsMissNothing` | `Contained`, `Restorable`, `ReceiverKnows`, `RestoreIsExact`, `NothingMissed` |
| `WebDAVProofs` | `Invariant`, `TypeCorrect` | `IInv` of `WebDAVInv` is inductive; `TypeOK` |
| `WebDAVProofs` | `FilesStandAlways`, `FoldersStandAlways`, `TreeAlone` | `FilesStand`, `FoldersStand`, with WebDAV clients and without |
| `WebDAVProofs` | `CopyBeforeRemoval`, `NothingTornAlways` | `SourceGoesLast`, `NothingTorn` |
| `SyncWatcherProofs` | `ChangesAreAttended` | `Attended` |

They hold for every number of requests, files, folders, paths, contents, versions,
shares, guests, accounts, invitations, jobs, runners, pairs and failures. They assume the
ASSUMEs of their modules, which say what the code's types say: limits are
numbers, requests are finitely many, and the value that stands for nothing (a
null) is none of the values it stands beside (`NoRowAssumption`,
`NothingAssumption`, `NoFileAssumption`, the last conjuncts of the others).

The theorems of the file store hold under further conditions, each for a reason:

* `TypeInvariant` and `VersionNumbersGrow`: none. `VersionNumbersGrow` speaks of
  the steps taken while versioning is on, as `NumbersGrow` does.
* All others: `Disjoint`, and versioning is not switched off (`"reconfigure"
  \notin Ops`). Section 5 shows that crossing requests do lose content, so there
  is nothing to prove without the first, and content replaced while versioning
  is off has no copy by design.
* `StoresInStep`: no limit on the versions, or no version is restored. With both,
  a restore can find its version pruned and leave the path empty
  (`filestore_restore`); `SInv`, which is proved for all instances, says exactly
  that much (`AtRest`).
* The refinement and `TargetSurvives`: `MaxVersions = 0`. The refinement also
  takes `MaxFaults = 0`: a handler that is cut short is no whole operation.

**`NumbersGrow`, for requests that cross.** No run checks it: the theorem covers
every instance. That no number is used twice it does not say, and it is not so
(section 5). The newest number of a file falls only
if its newest version is deleted. `NInv` follows what each request is going to
delete: the versions on a pruning list and the version a restore takes out are
behind the newest one (`Behind`), because the snapshot that came before made a
newer one. That one is safe in turn: no list of another request can hold it, being
behind the newest as well. Nothing is asked of a file whose permanent deletion has
begun.

**The argument for `NoContentLost`.** `Recoverable` is not inductive: that the
content of a file is *somewhere* in its history says nothing about the next
pruning, which removes old versions and does not know which one is the good one.
After a failure between the placing of new bytes and the update of the row, the
row names a content that is no longer at the path and exists only as a version;
each later upload pushes it one version further down. So `IInv` says how far:
the content is at the path (`AtPath`), or on its way to a new path (`Moving`),
or moved to the version store and not recorded yet, with nothing at the path
(`Loose`), or a recorded version with no more newer versions than failures
happened, counting the blob at the path as one to come (`InHistory`, `Shadow`,
`Placed`). With fewer failures than versions kept, the pruning never reaches it.
Two further layers carry this: `GInv` (what a request has read is still so, and
the bytes between its two stores are where its program counter says, because
requests in flight keep apart), and `UInv` (what an earlier step of the same
request has left behind). Each step of `Next` has one lemma per layer; frame
lemmas (`OthersGrounded`, `OthersUnderway`, `OthersSafe`) treat all the
requests and files a step does not touch at once.

**The argument for `HistoryBounded`.** While a request prunes, its list and what
it leaves must be tied together: after the list, at most `MaxVersions` versions
remain (`Trimming`), so the one version too many is gone when the loop ends. A
failure leaves at most one version too many and adds one to `faults`; the next
pruning lists all that is above the limit and makes up for it.

**The argument for `InStep` and `PriorContentKept`.** `SInv` says for each place
of a handler how far the two stores are apart: what lies at the path
(`PathSound`), which recorded versions have lost their content (`Missing`,
`VaultSound`), where the content that is being replaced has gone (`Aside`,
`AsideSound`), what a restore will find (`TargetSound`), and what lies at a path
that no row names (`FreePathSound`). It is asked of every file, at work or not:
`InStep` itself, which speaks of files at rest, says nothing about the handler
that is about to come to rest.

**The refinement.** The steps of a handler split in two: those nobody sees, for
which the mapped files and versions are shown to stay equal, and the one that is
the operation: the rename of the new content for an overwrite or a restore, the
insertion of a row, the update of a row, the first deletion of an erasure. Both
halves work file by file: `Content` and `Hidden` describe the mapped state by
the row and the worker of one file, and one frame lemma says that what a step
does not touch is seen as before. `RInv` adds what the guards of the abstract
operations ask for and the catalogue alone does not show: that the file is not
in the trash, that the content differs, that the version a snapshot made is the
newest.

**The argument for the tree.** Neither `FilesStand` nor `FoldersStand` is
inductive: they say nothing of the files below a folder that has been renamed on
disk and not in the tables, and the undo must bring these back. `IInv`
(`WebDAVInv`) has two layers. `Sound` holds whatever the requests do: one row per
path in each table, what is on disk lies in folders (`InFolders`), nothing torn
(`Whole`), the calls of a request in the order that the code makes them and with
what each of them must hold by then (`Queues`, `WellMade`), and every row that has
something in its way is in `crossed` (`Noted`). `Calm` holds while requests under
way are about unrelated paths: the calls of two requests reach no paths in common
(`Apart`), what a call has read of its row is still so (`ReadStill`), and half a
move (`HalfWay`) is described from the new place: what the rows below the old path
describe lies at the same place below the new one, nothing lies at the old, and no
row below the new path is in the way of the way back (`Renamed`). `Leaving` names
the requests that have taken the folder of an active row away. The proof has one
frame lemma (`OthersKept`): a step touches rows and places only below the paths of
its own request (`Touches`), so it leaves what the others rely on; `StepKept` then
asks for each step only what it does to its own call, to the files and to the
folders. The lemmas on paths (`BelowOrder`, `RebasedBack`, `RebasedOrder`) say
that moving a tree there and back changes no path, and those on the disk
(`MovedIs`, `UploadedDiskIs`, `RemovedIs`) what `os.Rename`, `os.MkdirAll` and
`os.Remove` leave. `NothingTorn` is the conjunct `Whole`: what goes through the
pipe may be torn, and it stays out of the tables and off the disk because
`CloseUpload` asks the tracker, and because a `PUT` has no content of its own to
copy (`WellMade`: this is where a `COPY` would break the proof, section 5). A file
is moved only when its path is no folder and nothing lies below it, or it is
`crossed`; that a folder lies below a file is ruled out by `Noted`.

**The argument for a link.** Counting happens before serving, so what is served
plus what is about to be read never exceeds the count; `Unborn` says that a link
starts with nothing on its way, which an invariant on `link # None` alone cannot
know. For uploads, `Counted` keeps `remaining = limit - got`, and a read may
take it to -1 and no further.

**The argument for grants.** A climb looks at one folder after the other while the
tree changes, so what it has seen fits no single state. `Covered` follows what
it *could still find* (`Findable`): the shares on the folder it has just looked up
and on those at or above the place it has come to, in force at the instant it goes
by. As long as the request is
`Current`, each of these covers the resource by that very state
(`FindableCovers`), and is in `ever`. The first change that ends this must leave
nothing more to be found (`Narrows`); from then on all that is `Findable` is in
`ever`, and a second change makes the request `late`. Most changes keep the
request current, and an erasure only takes away. What needs an argument is a
folder that moves and takes the resource along (`MoveDirectoryNarrows`): the rows
that move with it could come to lie on the path the request still climbs. They
cannot: the old place and the new one would both be prefixes of that path, so one
would lie below the other, which the code refuses in one direction and `os.Rename`
in the other.
`Promised` is the opposite: a share that has covered the resource all the time is
still ahead of the climb or has been found (`Lies`). Where the climb reaches the
folder of such a share, the share counts although the request goes by an earlier
instant, since it is in force beyond the present second (`CertainIsInForce`); at
the root nothing can lie ahead, which is what a refusal, a fallback to reading and
the choice of the largest limit (`MostPermissiveIs`) need.

**The argument for accounts.** `InvitationUses` counts requests, so the set of
requests that are redeeming an invitation (`Redeeming`) and of those that have
made their account (`Creating`) must change by one request at a time; the lemmas
`SubsetCount` and `OneMoves` say what that does to a cardinality. With `k`
requests redeeming, `used + k` stays below `max` plus the number of requests,
because one that starts found `used < max`. The invariant `AccountsInv` adds the
types, which say what a request holds at each of its statements (`Tasks`),
`NotYetUsed` (an invitation that is still to be made has made nobody, or the
count would start wrong) and `RightsOwned` (the foreign keys, which make a late
insertion fail). `SignInProofs` needs one fact beyond that: a
request whose visit has not read a row yet has nothing to do in `Accounts`
(`VisitsTyped`), so that the step that reads it is a `Read` of `Accounts`. Then
each step of `SignIn` is a step of `Accounts` or a stutter, and what is proved of
the one holds in the other. `CeremonyInv` is for the ceremonies: a request that
has read one knows a ceremony that was there, one past the deletion knows that it
is gone, and one that was accepted has a purpose and an account that fit it. That
two requests read it before either deletes it, no invariant excludes.

**The argument for backups.** Four layers, each proved with the ones before.
`TInv`: types, and what is listed has a content. `Ownership`: a job that is not
closed has one runner, so no other writes its row or its folder. `Retention`:
what a run has on its list to remove, and what is being removed, has a good newer
backup, which nobody else's list holds for the same reason; the newest of a list
goes first out of reach (`Prunes`). `Contained`: the hard links make two folders
share an inode, so a folder may only hold inodes of jobs that nobody writes any
more (`Linked`); then a manifest tells the truth about what is there
(`Truthful`) for ever, and a completed job has all of it (`Whole`) until a
retention begins with it. What runs and restores have in hand is described next
to it (`Copies`, `Ends`, `Restores`): a run past its manifest has a whole folder,
which is why a receiver that registers a job has all of it, and a restore that
blames a file for no failed call has found it bad, sealed with another key or
going.

**The argument for the watcher.** `Attended` speaks of watched pairs, and a pair
may become watched at any time: `UpdatePairs` puts it on the list without asking
whether a change is waiting. `NeverIdle` asks the same of all pairs.

Only model-checked, and why:

* `EventuallySynced` and `CallsEnd`: liveness, which needs rules for fairness and
  ENABLED that the prover does not have.
* `SyncEngine` (`TypeOK`, `Settles`, `NothingLost`, `DeletesFollowLosses`): not
  proved (section 6).
* `SyncWatcher.TypeOK`: the list of pairs is filtered with `SelectSeq`, a
  recursive definition, whose range the prover cannot derive.

Out of reach altogether: liveness and ENABLED, induction over data structures,
and modules with RECURSIVE operators (there are none).

## 5. What the project found

### Shown by a run

Two runs must end in a violation, with the code and the promise quoted in
`PROJECT.json`:

* `filestore_restore`: restoring the oldest version of a full history prunes
  that version first; the restore fails and its content is gone.
* `sync_conflict`: the pass after a conflict overwrites the local side of it.

### What the code does not keep

These are stated as definitions in the modules, so that they can be put into a
configuration (the one named, or that of the component), but no run checks them:
TLC finds each of them violated.

* `HistoryImmutable` (`FileStore`) for requests that cross. Two uploads of one file
  read the same highest version number (`version_sql_repository.go:62`), and the
  second puts the content of the first over the version that the first has made;
  `UNIQUE (file_id, version_num)` refuses its record, and the former content is
  gone, although an upload "aparta automáticamente el contenido anterior como una
  versión del historial en vez de perderlo" (`docs/storage.md:97`).
  `FileStoreRestore.cfg` with `Disjoint = FALSE` shows it.
* `DeletesAreTheUsers` (`SyncEngine`, `SyncEngineSettles.cfg`). A pass that takes a
  deletion of the server to the local folder and dies before it writes the manifest
  makes the next pass take the missing file for one that "el usuario borró"
  (`docs/architecture/decisions/ADR-013-borrados-sync-bidireccional.md:28`):
  restored on the server meanwhile, it is deleted there (`sync_engine.dart:501`,
  `:725`). `DeletesFollowLosses` says what is left.
* `EachRestoresAlone` (`Backup`, `BackupRestore.cfg`). Any backup can be restored by
  itself (`../docs/backup-y-recuperacion.md:95-97`). A plain incremental run
  takes an encrypted backup as its reference, because only the encryption of the
  new run is looked at (`manager.go:215`), and links to sealed contents, which the
  manifest of the new job has no key for. `Restorable` says what is left: the
  content is stored, sealed with the key of the job that copied it.
* `NothingTorn` (`WebDAV`, `WebDAVTree.cfg` with `CopySpec`). A `COPY` whose source
  fails in the middle stores the part that was read, although "un fallo nunca deja
  nada visible" for "el destino de un COPY" either (`filesystem.go:504-505`): what
  tells `Close` of a failure watches the body of the request (`:565-572`), and that
  of a `COPY` is empty.
* `CeremonySingleUse` (`SignIn`, `Accounts.cfg`). A ceremony is for "uso único"
  (`webauthn.go:138-139`). Two requests can read it before either deletes it, and the
  deletion of a row that is gone is no error (`webauthn_repository.go:226`): both are
  served. `CeremonyServesItsOwn` says what is left: whoever is served after another
  had read the ceremony before it was deleted.
* `LoginOnlyDates` (`SignIn`, `Accounts.cfg`). The end of a login "actualiza
  LastLoginAt" (`authenticator.go:127`). It writes back the whole row it had read
  (`:155`), and an account that was disabled meanwhile is active again.
* `AsideFirst` (`FileStore`). The content of a file is put aside before another
  takes its place. Two uploads to one path that cross both read the catalogue
  before either writes, and the second rename replaces the first content
  without a version; and `Upload` takes any error of its lookup
  (`file_service.go:198`) for "no such file". The theorems about contents
  therefore assume `Disjoint`.
* `PurgeSparesRestored` (`FileStore`). The purge deletes what is in the trash.
  It works through a list it read at its start, so a file that is restored
  before its turn is deleted for good (`file_service.go:916`).
* `ExhaustedCanBeBrowsed` (`ShareLink`). A link whose downloads are used up can
  still be browsed, as a comment of the repository says; the life-cycle check
  (`share.go:81`) refuses it before the kind of request is looked at.
* `AllChangesTravel` (`SyncEngine`). As `Settles`, for every change. A local edit
  of a file that was renamed on the server is taken for synced and never
  uploaded (`sync_engine.dart:849`). `Settles` and `NothingLost` set such
  contents aside (`exposed`), and those of `sync_conflict`.
* `FolderErasureSparesFiles` (`DirectoryTree`). Erasing a folder never takes the
  content of a file with it (`file_service.go:834`). `MoveDirectory` asks whether
  its own destination is taken, not the places of what lies below: put `c/b`
  into the trash, erase `c`, move a folder `a` with a file `a/b` to `c`, and
  erasing the trashed folder `c/b` removes the file. `FilesStand` and
  `FoldersStand` set aside the rows that ever had something in their way
  (`crossed`).
* A restored folder can have no place. `RestoreDirectory` sets the row back and
  then makes the folder (`file_service.go:882`), and `MkdirAll` fails when a file
  has meanwhile taken the path of a parent: put `a/b` and then `a` into the
  trash, erase `a`, upload a file `a`, restore `a/b`. The row stays active. For
  the same reason a file whose path is a folder on disk, which the case above
  leaves behind, takes what lies below along when it is moved. Both take more
  requests than the bound of `webdav_tree`; the attempt to prove `FilesStand`
  and `FoldersStand` showed them, and `crossed` now covers them.
* `RedeemIsOneOperation` (`Accounts`). A redemption is "una única operación
  lógica" (`invitation_service.go:68`), so an invitation would never be used more
  often than it allows. Two that cross both find the last use free;
  `InvitationUses` says how far this goes.
* The watcher drops a shot that finds its pair running, because the pass "ya va a
  dejar el árbol al día" (`local_change_watcher_service.dart:165-168`), and
  `../docs/cliente-de-escritorio.md:68-69` says that the client reacts at once. A pass
  that has walked the folder before the change, or that fails, does not take
  it: until the next tick of the clock the change waits. `Attended` lists the
  reasons (`excused`), `EventuallySynced` says that the clock makes up for it.
* A pass that ends with something else than an `ApiException` ends the loop over
  the pairs for that call: the pairs behind an unreadable folder are reached by
  their own watcher only (`Steady` asks that the folders before a pair can be
  read). On the settings page the same exception leaves `_syncing` true
  (`sync_settings_page.dart:278-299`): the button stays disabled until the page is
  opened again. The flag is presentation and not in the model.
* What a pass downloads over a local file was decided from a walk made earlier: a
  write of the user in between is overwritten and was never uploaded
  (`sync_engine.dart:969`). `NothingLost` speaks of passes that nobody disturbs
  (`pass.quiet`).
* A crash between the two halves of a move (`MoveFile`, `MoveDirectory`) leaves
  rows that point to where nothing lies, and nothing repairs them. `Recoverable`
  (`exposed`) and `FilesStand` (`calm`) set them aside.

## 6. Not modelled, and what is left

* WebDAV: the table of locks, which only keeps well-behaved clients apart; `COPY` of
  a folder (one of a file is in `CopySpec`, which the runs and the proofs leave out:
  section 5); `PROPFIND` and `GET` (reads).
* File store and folders with the trash switched off; retention by age and by
  size; quotas.
* Sync engine: the one-way modes, empty folders, names that differ in case; the
  `.part` files of an interrupted download; the pages of the client.
* Sign-in: the signatures of passkeys and what a counter says, which belong to a
  library (that the passkey is looked up again for it is `PersistLoginResult`); the
  rate limiter and the audit log, which no other component reads.
* Pools: bootstrap and the migration of the layout, run once at start-up in one
  thread; migrations of the database.
* Presentation, encoding of requests, cryptography, parsing of configurations,
  queries of the operating system.

Of these, the one-way modes and the locks of WebDAV would add most. Among the
proofs, the types of `SyncEngine` and `DeletesFollowLosses` come next.
