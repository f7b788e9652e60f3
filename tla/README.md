# OperaLibre in TLA+

OperaLibre is a self-hosted audiobook server with a web client and native apps.
This directory models the parts of it where a wrong interleaving costs somebody
something: the listening position that several devices share through the server,
the queue of read-along jobs and the schedules that feed it, updates that
replace the server's own files, the identifiers that books keep over scans, purchases
fetched through Libation, accounts and sessions, and the log of what was
listened to. The modules are translated from the source at this commit;
`PROJECT.json` maps every definition to the lines it stands for.

Contents: [inventory](#inventory) · [modules](#modules) · [runs](#runs) ·
[properties](#properties) · [fairness](#fairness) ·
[disagreements with the documentation](#disagreements-between-code-and-documentation) ·
[proofs](#proofs) · [what is not modelled](#what-is-not-modelled) · [plan](#plan)

## Inventory

Paths are relative to `src/`; `server/` stands for `apps/server/src/`, `web/` for
`apps/web/src/`.

### Components, their state and their operations

| Component | State | Operations | What makes it correct | Modelled by |
|---|---|---|---|---|
| **Server progress** `server/progress.rs`, `abs.rs`, `storage.rs` (`ProgressStore`) | one row per listener and book (revision, place, completion, recording), the last rollback copies | `PUT progress`, `PUT completion`, Audiobookshelf `PATCH`, account removal; each decides and writes in one transaction | revisions order places; no unintended jump back; one recording never runs backwards; lost places recoverable; `accepted` is a receipt | `ProgressRules`, `ProgressServer` |
| **Device progress sync** `web/reliability.ts`, `useProgressSync.ts`, `useLibrary.ts`, `progressSeekIntent.ts` | a durable journal and seek intent per book; in memory the player's head, a save queue of one entry, seek generations, calls in flight | save, drain, reply, replay after reload, adoption of a newer server place, kill | no blind overwrite, nothing unsent dropped, no self-inflicted conflict, convergence | `ProgressClient`, `ProgressSync` |
| **Job table** `server/jobs.rs` | jobs by id under one `RwLock`, the queue file | create with deduplication, status changes, pruning, `JobGuard` | unfinished jobs never pruned; one unfinished job per unit of work | `SyncTable`, `SyncQueue` (read-along), `LibationDownloads` (Libation) |
| **Read-along queue** `server/sync.rs` | ranks, pause flags, checkpoints, one worker slot, `sync_lifecycle`, `sync_update_pause` | request, batch, `resume_queue`, move, pause, resume, remove, the worker, restore | accepted work is durable and eventually run once; a running job's files are its own; sections are not lost | `SyncTable`, `SyncQueue`, `SyncLedger` |
| **Read-along schedules** `server/sync_schedule.rs` | schedules and the nightly rule in one file each, the lock around them | schedule, cancel, tick every 15 s, nightly and manual sweep, outcomes | a start is made once over any crash; a night is used once; outcomes reach their schedules | `SyncSchedule` over `SyncLedger` |
| **Server updates** `server/updates.rs`, `update_channel.rs`, `update_manifest.rs` | `InstallGuard`, staging folders, cached answers, the channel, the add-on | check, change the channel, install, install the front end, install, remove and enable the add-on, hand-off to the launcher | one package at a time; what was shown is what is installed; no worker under an update | the stop of the queue: `SyncQueue`; the hand-off's other side: `LauncherUpdate` |
| **Launcher** `apps/launcher/src/main.rs`, `server/update_trial.rs` | installed, staged and backed-up files, snapshots, restore markers, the server process | stage, install, start, trial, commit, roll back, roll back again | after any kill or failure the old version and its data can be had back; the result file is true | `LauncherUpdate` |
| **Library scan** `server/library.rs`, `scan_input.rs` | the identities file, the catalogue, overrides, works, places | scan, withheld scan, edit, export, restore | identifiers stay with their recording; a half-mounted library does not detach books | `LibraryIdentities`, `LibraryScan` |
| **Libation** `server/libation.rs`, `libation_download.rs`, `libation_recovery.rs` | intents, requests, the bulk intent, jobs, grants, the Libation lock | download, request, approve, reject, "download everything", recover after a start | an intent survives until its job has an outcome; a title is imported once; access is earned | `LibationDownloads` |
| **Accounts** `server/auth.rs`, `agent.rs` (tokens), `storage.rs` (sessions) | users, sessions, agent tokens, media-token links, the throttle | sign in and out, change and reset passwords, roles, create and delete, issue tokens, sweep | an old credential dies with its password; guesses are bounded; a deletion is complete | `LoginThrottle`, `Accounts`, `Listeners` |
| **Reading log, statistics** `server/reading_log.rs`, `reading.rs`, `activity.rs`, `progress.rs` (bookkeeping) | open sittings, history rows, completions, daily totals | checkpoint, flush, close, shut down | listening is counted once | `ReadingLog`, `Listeners` |
| **Storage, backup, restore** `server/storage.rs`, `backup.rs`, `db.rs`, `migrate.rs` | documents cached over files and SQLite, the state gate, snapshots | atomic write, `mutate`, snapshot, restore | memory follows disk; no request sees half a restore | `update_book` in `ProgressServer`, the stores of `Accounts`, the restore of `LibraryScan`; the rest not |
| **Alignment** `server/alignment.rs`, `sync_report.rs` | sync maps | align a section with its text | the quality of a match | no: one step of a worker |
| **Uploads** `server/upload.rs` | partial uploads | begin, append, finish | | no |
| **Catalogue, media, covers, works, feeds** `catalogue.rs`, `media.rs`, `covers.rs`, `works.rs`, `opds.rs`, `companions.rs`, `metadata_input.rs` | little | serve files | | no |
| **Faststart jobs, Libro accounts** `faststart*.rs`, `libro*.rs` | jobs of other kinds, stored sign-ins | | | no |
| **Configuration, start** `config.rs`, `app.rs`, `main.rs` | | | | no, but for the shutdown seen by the modules above |
| **Native apps** `apps/web/ios`, `apps/web/android`, `apps/macos` | their own copies of a place, downloads, a front-end update | | | no |
| **Web user interface, scripts, packaging, add-ons** | | | | no |

### How they interact

* A device talks to the server in single HTTP calls: a save, the library listing, a
  progress fetch. A call may be lost, answered late or repeated; nothing orders two
  calls except the revision and recording each carries.
* All three progress writers (a client's checkpoint, a completion, an Audiobookshelf
  write) meet in `ProgressStore::update_book`, one transaction with the rollback copy.
  What follows a stored place (daily total, sitting, completion) is written step by step
  afterwards, each with its own lock.
* HTTP requests, the schedule's tick, the batch task, `JobGuard` and the workers share
  the job table through its lock; what they read under it is stale once they await.
* `sync_lifecycle` (a fair read-write lock) keeps updates apart from requests and
  workers: requests and workers hold it for reading, `pause_for_update` takes it for
  writing, `sync_update_pause` asks workers to let go, `sync_queue_changed` wakes those
  waiting for their turn.
* The queue file is written under the table's lock and read once at start; a job's
  checkpoint file and the sync map are written by its worker without it.
* The schedules hold a job's identifier and learn its outcome twice over: when it ends,
  and from the restored queue at a start.
* An update is handed to a second process, the launcher, which waits for the server to
  leave; from then on the two meet only in files and in one request that commits.
* A scan, an edit, a restore and a listener's save all name books by identifiers that
  live in a file of their own, apart from the database that refers to them.
* The Libation lock is held by one job while an external program runs; intents,
  requests, jobs and grants live in four stores, written one after the other.
* Users, sessions and agent tokens are three cached stores; a change of an account
  writes them in a fixed order, and requests of others run between two writes.

### What is hard here

1. **Late and repeated messages** against a server that remembers one row: revisions,
   recordings and seek intents all exist because one of them was not enough.
2. **The base revision of an edit** chosen among several revisions a device has heard of.
3. **A kill** of an app between journal and reply, of the server between any two steps
   of a job, a handoff or a purchase, of the launcher between any two file operations.
4. **Two critical sections per request** of the job table, with a client that may
   vanish, a control or a second request in between.
5. **Snapshots**: `resume_queue` walks a list of jobs read long before; a scan publishes
   books computed from files read before the last edit.
6. **Saves that fail**, before or after the file was replaced.
7. **Waking**: a worker sleeps until notified, so every step that can make it first must
   notify; an update must reach those who sleep.
8. **Undoing late**: the rollback of one update may run after the next one began, and
   over what an earlier, killed rollback left.
9. **Handlers dropped by their client** at any await: the copy in memory and the file
   part, a guard is released, a task that was about to be spawned is not.
10. **Full tables**: the throttle, the sessions, the job history and the path aliases all
    drop something when they are full.

`PROJECT.json` lists the hazards one by one, at their lines, with the properties that
watch them and, where no property does, the reason.

## Modules

```
ProgressRules ─┬─ ProgressServer ─┬── MCProgressServer
               └─ ProgressClient ─┴── ProgressSync ─┬── MCProgressSync
                                                    └── ProgressProofs
SyncTable ─┬── SyncQueue ─┬── MCSyncQueue
           │              └────────┐
           └── SyncTableProofs ────┴── SyncQueueProofs (extends both)
SyncLedger ◄─ INSTANCE ── SyncQueue
     └── SyncSchedule ─┬── MCSyncSchedule
                       └── SyncScheduleProofs
LauncherUpdate ─┬── MCLauncherUpdate
                └── LauncherProofs
LibraryIdentities ── LibraryScan ─┬── MCLibraryScan
                                  └── LibraryProofs
LibationDownloads ─┬── LibationProofs
                   └── MCLibationDownloads
LoginThrottle ── Accounts ──┬── Listeners ─┬── MCListeners
ReadingLog ─────────────────┘              └── ListenersProofs
```

**ProgressRules** — the pure decisions of `progress.rs` and `abs.rs`: revisions
(`NextRevision`), staleness, the position guards, `StoresCheckpoint`, `IsAccepted`, and
what an Audiobookshelf write means. Positions are whole-book offsets; the thresholds in
seconds are constants. `base` 0 is the empty string (no server copy observed), `None` a
client that sends none.

**ProgressServer** — one listener's row in one book. `UpdateProgress`,
`UpdateBookCompletion`, `AbsUpdateProgress` and `RemoveUser` are the four handlers that
write it; each is one action because `update_book` reads, decides and writes inside one
transaction. The clock is any value of `Clock` at every step: it may stand still or be
set back. Requests are arbitrary checkpoints, so this module covers every client,
correct or not. `displaced` is a history of the places that were moved far back.

**ProgressClient** — the pure functions of `reliability.ts` and `progressSeekIntent.ts`:
what a new pending copy inherits, when a reply replaces the journal, how a queued edit
is rebased, when a fetched place is adoptable.

**ProgressSync** — several devices and the server. One JavaScript turn between two
awaits is one action. `requests` only grows: a request once sent may be handled later,
again, or never; `Fails` loses a reply or a call whether or not the server got it.
`Kill` forgets `mem` and keeps `disk`. `Listen` and `Seek` are the user (`persistProgress`
with everything it calls), `StartSave`/`SaveReturns` the drain, `RequestListing`/
`ListingArrives`/`ReplayReturns` the shelf and its replay, `FetchForAdoption`/
`FinishAdoption` the foreground adoption. `stored` and `taken` are history variables.

**SyncTable** — the job table as functions of the table: what a request joins
(`SameWork`, `Covers`), order and moves, pruning, the status changes, what the file
holds (`Snapshot`) and what a restart makes of it (`Restored`).

**SyncQueue** — everything that changes that table. One critical section of the table's
write lock, the save inside it included, is one action:

| Code | Actions |
|---|---|
| `enqueue_sync_map_inner` | `EnqueueBegin` (first lock), `EnqueueCommit` (second lock, save, spawn), `CallerGone` (the client vanishes between them) |
| `enqueue_sync_batch` and its task | `EnqueueBatch`, then `DispatchNext` per book |
| `resume_queue` | `StartResume` (the snapshot), then `ResumeNext` per job, for each of its three callers |
| `control_sync_job`, `remove_sync_job` | `Move`, `Pause`, `Resume`, `RemoveJob` |
| `claim_sync_slot`, the worker, `pause_at_checkpoint`, `save_checkpoint` | `Check`, `Claim`, `ReadCheckpoint`, `ContinueRun`, `StopForPause`, `AlignSection`, `PublishMap`, `FailRun`, `Report`, `StopForUpdate` |
| `JobGuard` | `Panic`, `RequeueFallen` |
| `pause_for_update`, `SyncUpdatePause` | `BeginUpdate`, `HoldForUpdate`, `KeepUpdate`, `AbandonUpdate`, `UndoUpdate` |
| `restore_queue` | `Crash`, `Handoff` |
| a library scan | `Rescan` |
| replaced files, another add-on, model or build (`checkpoint_fingerprint`) | `InputsChange`, `Handoff` |

A job's identifier is its place in creation order. `sync_lifecycle` is not a variable:
its readers are the requests in flight, a batch being dispatched and the live workers,
its writer is `writer`, and a waiting writer already keeps readers out (`CanRead`), as
tokio's fair lock does. `accepted` and `dismissed` are history variables. All that
`checkpoint_fingerprint` covers is one number per job, `inputs`, which may change at any
time and change back; a run keeps the number it began with, each checkpoint it writes
carries it (`prints`), and a later run takes the sections up only if the number is still
its own. A checkpoint that does not parse, as one of another version's format, is the
same case; any other error of reading it fails the run (`FailRun`).

**SyncLedger** — the abstract specification of that queue: what became of every job
that somebody was answered with, and which of them were closed (withdrawn, or their
outcome recorded). It promises that an accepted job stays accepted until it ends, that
an outcome is final, that nothing is forgotten before it was closed, and that a book has
one job under way. `SyncQueue` instantiates it with a mapping from table, file and
history (`Ledger`), and `KeepsLedger` is the whole of its specification.

**SyncSchedule** — `sync_schedule.rs` over the ledger rather than over the queue: a
request for a book is `Accept`, a job ends, its result is pruned or withdrawn. `holder`
is the lock around the schedule file, held over a whole tick, but not yet when a request
for a new time is checked, which may have passed once it is stored (`ScheduleBook`); the tick's loop is one
action per schedule and phase, because each saves the file. A crash may fall between
saving an outcome here and saving the queue there.

**LauncherUpdate** — `apply_update` and `roll_back` of the launcher, one action per file
operation, with the servers it stops and starts. A store has the format of the build
that last wrote it and may be reached through a write-ahead log; a copy put back is told
from the original, because the log of one does not fit the other.

**LibraryIdentities** — `resolve_library_identities` with its passes, the manifest and
the rules for a shrunken library, as functions of the stored identities and the scanned
groups. **LibraryScan** — the disk, which may change before, during and after a walk; the
scan, one action per phase between two awaits (walk, resolve, save identities, save
works, publish); files that open but cannot be read, for which a path stands in for the
digest and no duration is known, while the scan goes on; edits of metadata, which are
stored under one lock and shown under another; saved places; export and both halves of a
restore, whose way back may fail as well.

**LibationDownloads** — one title of several Audible accounts: the intents of readers
who may download directly, requests of those who may not, the administrator's
"download everything", the jobs and workers behind them, grants, and the recovery after
a start. Each lock of the code is one action; a call of a client can be dropped at every
await.

**LoginThrottle**, **Accounts**, **ReadingLog**, **Listeners** — the first and third are
pure: the tables as one hold of their lock changes them. `Accounts` has a pool of
requests, each an operation and how far it got (`at`); an action is what one request does
between two awaits, and each of the three stores is a pair, the copy in memory and the
one on disk. `Listeners` adds the checkpoints of signed-in listeners, what is recorded
after each, the sweeper and the shutdown, and runs the parts of a deletion that belong
to the reading log.

Definitions commented as mutated forms are small wrong variants of a definition beside
them. No specification uses them: they are kept so that each property can be shown to
fail when the code is wrong in that way (`PROJECT.json`, `mutants`).

## Runs

`tlc -workers 2 -config <cfg>.cfg <module>`: each takes at most some two minutes.

| Run | Distinct states | What it shows |
|---|---|---|
| ProgressServer | 70,904 | the server properties, for any sequence of requests |
| ProgressSync | 362,595 | two devices, two edits each behaviour, with failed calls, restarts, reordering and repetition; that devices settle |
| SyncQueue | 1,260,432 | seven rows: requests, a batch, controls and crashes over two books, one fault around an update, two updates, changed inputs or a changed build; the refinement of `SyncLedger` |
| SyncLive | 218,148 | liveness: a batch of two books, one update, one control, one crash |
| SyncSchedule | 1,355,278 | two schedules and the sweep over two books, one fault |
| LauncherUpdate | 1,506,937 | two kinds of installation, rows of failures, kills, starts by the service |
| LibraryScan | 1,422,149 | three recordings on three paths, ten rows of what may happen, files that cannot be read among it |
| LibationDownloads | 284,453 | one title of two accounts, ten rows |
| Listeners | 894,107 | three ids, three addresses, fourteen rows |
| SyncJoin | violation | a whole-book request answered with a re-run |
| SyncDedupe | violation | two unfinished jobs for one book |
| RefusedSave | violation | listening after a refused save lost to the server's copy |

A row of `Bounds` (or `Rows`) says how often each kind of event may happen in one
behaviour. Rows take the place of one large bound: a behaviour with two faults needs no
third edit, and one with three edits no fault.

## Properties

Each run checks only the properties listed under its name. An excuse in a property
(a history variable or a conjunct on `used`, `faults`, …) is a limit of the code that
the model showed; each is explained here.

### ProgressServer

* `RevisionsOrderPlaces` — the revision never goes back while the row exists, and a
  write that changes the place raises it. A client's base therefore names the place it
  saw. It depends on `next_progress_timestamp` and on the exception for a write that
  only changes the completion.
* `RecordingsOnlyAdvance` — under one recording the place changes only with a larger
  sequence.
* `DisplacedPlacesAreKept` — the rollback copies are exactly the newest rows that a
  write moved far back, by whichever of the three routes.
* `AcceptedMeansStored` — an `accepted` reply means that the row has this checkpoint's
  place and recording. The client rebases its queued edits on this flag alone.

Bounds: a book of positions 0..3 with thresholds that tell every guard apart, clock
readings 1 and 3 (so revisions come both from the clock and from the row), two
recordings with sequences 1 and 2, bases that match, are older, are empty or absent,
checkpoints past the end, revisions up to 4, one rollback copy (so that retention
drops). Checkpoints with a base carry no timestamps, which the rules do not read there.

### ProgressSync

* `NoBlindOverwrite` — a device's save replaces another device's row only if the saver
  took up that row's place (adopted it, or made a deliberate seek knowing of it).
* `EditsAreStoredInOrder` — the server never returns to an older edit of the same
  device, however late its requests arrive, other devices' writes in between included.
* `PendingUntilDecided` — a pending journal gives way only to a later edit, the answer
  to that very edit, or the place fetched by a player that was refused a save and made
  no seek since. That the fetched place rules the journal out by its base cannot be said:
  a refused suspect reset leaves the mark while the base stays current. `RefusedSave`
  shows what that costs.
* `AloneNeverOverruled` — a device nobody competes with is never told that its place was
  overruled, until it is restarted. After a restart it does happen (with four user
  actions): an intent recorded after the journaled rewind no longer authorizes it
  (`progressSeekOptions`), and the replay goes out unflagged.
* `DevicesSettle` — in the end nothing is left to send, and every open player is at the
  server's place.

Bounds: positions 0..2, seeks to the start and the end, listening one step at a time,
zero slack so that every distance counts, a backup drop small enough that a return to the
start can be refused as a suspect reset; two edits by any of two devices, with a failed
call, a restart, or both an extra listing and a failure. `MaxCalls` bounds library
loads, replays and adoptions in flight together. The server's clock stands still: with a
base in every request only the order of revisions matters, and they count up by
themselves. `RefusedSave` has three edits and a failed call: a save that is refused because
the other device moved the place, and a later one that does not get through.

### SyncQueue, SyncLive

* `OneJobPerBook` — never two unfinished jobs for one book, in memory or in the file.
* `AcceptedAreDurable` — an accepted job is in the file until it finishes or its removal
  is asked for, and as long as no save failed with its pause and its rank.
* `QueuedJobsAreAttended` — a queued job always has somebody who will start it. When a
  client vanishes between the two critical sections of its request (`used.gone`) the job
  stays in the table, unsaved, and nothing starts it before a restart or a removal.
* `RunningJobsAreProtected` — the job a worker is at is `running` in the table, so
  nobody removes it with its checkpoint or starts its book again. Excused are a failed
  save (the request that created a job removes it again though others joined it), a lost
  EPUB (see `SyncDedupe`), and a panic: the guard of a worker that fell requeues its job
  even when, after an update undone late, a second worker already runs it.
* `UpdatesAreExclusive` — while an update holds the queue no worker runs, and the file
  has every unfinished job as one to recover.
* `SectionsOnlyAdvance` — completed sections are given up only with the job, its
  failure, or its published map, or for the first section of a run whose inputs or
  build are not those they were aligned with, as `docs/api.md:123` says; and a checkpoint
  never mixes sections of two inputs. A file replaced while its job runs is noticed only
  by the next run: the one under way goes on with the fingerprint it began with.
* `KeepsLedger` — every step is a step of `SyncLedger` or none. The promise lapses
  (`Lapsed`) after a failed save and after a book lost its EPUB, for the reasons above.
* `QueueMoves` (`SyncLive`) — an update gets the queue, and every queued job's turn
  comes. Not with a lost EPUB: `update_job_finished` fails the first job of the queue
  without waking the worker that is first now, which sleeps on until some later change.

`MCRows` are the rows of what may happen: `Work` (a request and a batch over two books,
two controls), `Restarts` (one control, one crash), `ControlsAndRestarts` (one book, two
controls and a crash), `Faults` (a whole book and a re-run of it asked for, one update,
one fault of any kind at any point), `Updates` (two updates, the first of which may be
undone after the second began), `OtherInputs` (two sections, two controls, two changes of
the inputs, perhaps back to the first) and `OtherBuild` (an update that may bring other
inputs, one control, one change). Two books and two jobs are enough for creation, order,
moves and pruning with `MAX_TRACKED_JOBS` 1; two sections give a stop before, between
and after them. Three tasks are the most `SyncLive` can have alive, so its bound never
blocks a spawn; in the other run it may, which only leaves behaviours out of safety
checks.

### SyncSchedule

* `AtMostOnce` — one schedule starts its book once, wherever the server stopped between
  marking it, queueing the job and recording which it was; a night is swept once.
* `ResultsAreTrue` — a schedule shows "result not available" only when its job was
  withdrawn or had ended before they were linked (`excused`); the count of queued books
  is that of the run whose time is shown.
* `StartsSettle` — a due start does not wait for ever.

A replayed handoff has no lateness check: a schedule that was `dispatching` when the
server stopped is started whenever it is up again, though `docs/api.md:206` speaks of
missed starts. A crash may fall between saving an outcome and saving the queue.

Bounds: two books, one schedule each and the nightly rule, two readings of a day of two
ticks, two requests by others, one fault.

### LauncherUpdate

* `WayBackIsKept` — each old file is installed or in the backup; until the update is
  accepted or rolled back, the old build can read the data or the snapshot of both
  stores is there.
* `OldBuildReadsItsData` — a rollback starts the old build only on data it can read, and
  on a pair of stores.
* `ResultIsTrue` — `update-result.txt` tells what is installed and running.
* `NothingIsLost` — acknowledged changes are in the data, the failed build's data or the
  snapshot; `failed-data` never holds what a restore put back.

The attempt to prove `WayBackIsKept` showed a case the run's rows had not reached: a new
server whose PID was not saved is taken for the old one, so that the rollback counts as
done and deletes the snapshot; when its result cannot be written, an older
`rollbackFailed` is left to be read. `Undecided` therefore excuses a `rollbackFailed` that
an `excused` rollback left, once its snapshot is gone.

Other limits of the code seen here: a wait for the old server that times out leaves the
server down (launcher `main.rs:546`); a kill between moving the write-ahead log aside and
recording `restore-required` can make a later run decide that nothing was upgraded; a
new server whose PID was not saved and that could not be stopped (`excused`) may be taken
for the restored one, and the snapshot be deleted while it runs. "Open OperaLibre"
(`start_server`) takes no `update.lock` and is not modelled.

Bounds: a combined installation, and a server-only one without `VERSION.txt` on a volume
without hard links whose new build knows no trials; a failure and a kill, two failures, a
kill and a supervised start, or a lost PID.

### LibraryScan

* `IdsKeepTheirRecording` — an identifier never passes to another recording. A book of
  the same shape may take one over, and so may any of equal track count when the stored
  length is missing; a file replaced between reading its digest and its tags stores what
  no book has, and so does one that could not be read: two recordings that were unread
  under one path share a stand-in (both `doubtful`).
* `PlacesAreReachable` — a saved place or an edition of a work refers to a book of the
  identities file. `stranded` are those of a restore killed between its two stores, or
  whose way back failed too (`backup.rs:245`), and the books a restore leaves in the catalogue that its identities do not know.
* `EditsAreShown` — an edit is shown once its request ended. Two editors of one book at
  once may leave the older edit shown until the next scan (`crossed`).
* `ShrinkIsConfirmed` — the library shrinks to less than half only after the same set was
  found by `Confirmations` recorded walks in a row. A scan whose save failed does not
  break a run of observations.
* `KnownBooksKeepTheirIds` — from one publication to the next a book keeps its identifier
  and those of its files, and the identities know what is published (`Knows`). Three
  ways: left as it was (`KeptInPlace`), with the contents its identity was last saved with
  somewhere else or under other names (`KeptWhenMoved`), rewritten in place with its file
  names and its length (`KeptWhenRewritten`). Each says when the evidence is ambiguous, and then nothing is
  promised: copies of a book among the scanned ones or the identities, equal files in
  one book, a copy where the identity or the track has been. The comparison is with the
  identities the scan started from, which are not always those of the last publication:
  a scan that was saved and failed before it published moves them ahead of the
  catalogue, a restored backup puts them back, and either may lose a book of which they
  no longer say what was published. A rewritten book must also have been seen within
  `StaleAfter` scans, with a stored length that is its own.

  A book that is moved, touched or rewritten while a file of it opens but cannot be read
  is published with a stand-in for its digest (`library.rs:1202`), and under a new
  identifier where nothing else tells it: no property promises otherwise. The old identity
  stays, with the places that refer to it, and a scan that can read the files as they were
  finds it by their digests, whatever was published between. For that `KeptWhenMoved`
  compares with the identities and not with the catalogue.

Constants are scaled: `MaxHistory` 2 (8), `MaxAliases` 3 (32), `StaleAfter` 1 (3),
`Confirmations` 2 (3). Three recordings on three paths allow a move, a copy and a
bystander; the rows combine edits of the disk, mount errors, failed saves, kills, edits
of metadata and restores two or three at a time.

### LibationDownloads

* `IntentsAreKept` — an accepted intent is kept until its job has an outcome of its own,
  except one handed to a job of the same title after the shutdown was announced (`late`).
* `RequestsAreTrue` — a completed request means access, and access was earned: started,
  or approved, from an account that owned the title.
* `TitleIsImportedOnce` — the title is put into the library once.
* `IntentsSettle` — the server comes to rest with no intent and no approved request left,
  unless the end of one could not be saved or was dropped with its call (`stuck`).

An orphaned queued job may stay for the life of the server; attaching a request twice, or
recovering it twice, may turn a completed request into a failed one. Bounds: one title of
two accounts, one reader who may download and one who must ask, an administrator; ten
rows of starts, requests, rulings, purchases, "download everything", faults, ends and
changes of ownership. The branch of `LinkRequest` for a request that is gone, and
`RecoverIntent` stopping at a shutdown, are not reached within them.

### Listeners

* `CredentialsAreCurrent` — after a reset no session or token obtained with an earlier
  password works, except while a change is between its writes (`halfway`).
* `LinksFollowSessions` — media links lead to exactly the sessions there are, when no
  change of sessions is under way and none was dropped before publishing (`unpublished`).
* `GuessesAreBounded`, `LocksAreKept` — a network has no more wrong guesses per lockout
  than its limit; making room in the table never lifts a lock. Only the limit by address
  is a true budget: a success refunds an account's and a name's count, though the comment
  on `LoginThrottleKeys` says that it "leaves the other two to expire on their own".
* `ListeningIsKept` — daily totals, sittings and completions show what was listened to,
  once, unless a stop cut the bookkeeping (`cut`): `TotalsAreKept`, `SittingsAreKept` and
  `CompletionsAreKept`. A failed flush is not retried before
  another checkpoint, and a late checkpoint can set the end of a sitting back.
* `DeletedIsForgotten` — nothing of a deleted account is left, unless a request of it was
  under way or a sweep had already taken its rows (`lingering`), which the comment on
  `forget_user` ("cannot be flushed to disk after the logs are purged") does not cover. A
  deletion that failed in a later step cannot be repeated: the user is gone (404).

Constants are scaled: limits 5/25/50 to 2, lockout 60 s to 2 ticks, table caps
10,000/50,000 to 4/6, sessions 20/1,000 to 2/3, agents 10 to 1, a gap of 10 minutes to
1 tick, the flush 1–15 minutes to 1–2, `MinSession` and `Grace` to 2, a book to 3. A tick
is a minute of a monotone clock. Three ids are the owner, a reader and whoever takes the
reader's name later; two addresses of one network and one of another.

## Fairness

* `FairSyncSpec` (`ProgressSync`): a queued save is sent, served and its reply taken
  (`WF(Save)`); the shelf is loaded again and again (`SF(Reload)`) and a paused player
  returns to the foreground again and again (`SF(Resume)`). These two recur in the app for
  as long as it is used; strong fairness says that the model's bound `MaxCalls`, which the
  app does not have, cannot starve one of them for ever. Nothing makes a listener act, a
  call fail or an app die.
* `FairSpec` (`SyncQueue`): `WF(Task)` — the runtime runs some task that can go on; one
  condition for all of them together, since none can go on for ever while another waits.
  `WF(Recovery)` — the scheduler ticks and its calls go on. `WF(EnqueueCommit(c))` — a
  request in flight goes on. Users, faults and failing runs are under no fairness; an
  update that holds the queue may be kept or given up, but not sit for ever.
* `FairScheduleSpec`: the tick and the sweep go on once begun and begin when due, and the
  library, which a start needs, is scanned (`ScanLibrary`).
* `LibationSpec`: every task runs, a scan follows a start, and an announced shutdown ends
  and the server starts again.
* `LauncherSpec`, `Spec` of the other modules: none, and no liveness is claimed.

Deadlock is checked in `SyncSchedule` and `LauncherUpdate`. Elsewhere a system in which
nobody acts and nothing is left to do may stop, as does the model at its bounds.

## Disagreements between code and documentation

* **SyncJoin.** `server/sync.rs` says that a queued whole-book sync covers any chapters
  and a queued re-run only its own, "and must finish before anything wider". A re-run
  takes its chapters under a second lock. A whole-book request that gets there between
  the two sees a job with no chapters, which is how a whole-book job looks, and is told
  that it is covered.
* **SyncDedupe.** `docs/api.md` says that jobs are deduplicated by book. Two
  `resume_queue` calls may hold the same job in their snapshots. The first starts it; the
  second, if the book has lost its EPUB since, sets it to `failed` without looking at its
  status. When the EPUB is back a new request makes a second job for the book, and the
  first worker, asked to pause, puts the failed job back as `paused`.
* **RefusedSave.** `App.tsx` says of the mark a refused save leaves that "any newer local
  checkpoint supersedes it", and `usePlaybackRestore.ts` that keeping it would "let a later
  foreground return discard new offline listening". `persistProgress` takes the mark away
  for a deliberate seek only. A player that listens on after a refusal, and whose next save
  fails, loses that listening to the server's copy when it returns to the foreground.

## Proofs

`tlapm M.tla` checks the modules named `…Proofs`; every theorem holds for every value of
the constants that meets the module's named assumptions. These say that numbers are
naturals, that `None` differs from what it is compared with, that rows and messages have
their types (`RulesAssumption`, `ServerAssumption`, `ClientAssumption`, `SyncAssumption`,
`TableAssumption`, `NoneAssumption`,
`QueueAssumption`, `EntryAssumption`, `ScheduleAssumption`, `LibationConstants`,
`LauncherAssumption`, `AccountsAssumption`, `LibraryConstants`, `ScanAssumption`); TLC evaluates them in
the run of each component. No bound
of a run is assumed: the rows of what may happen, the numbers of books, jobs, sections,
requests, faults and restarts are arbitrary.

Every inductive invariant was first checked by TLC on the run of its component, and each
is a conjunction of named parts with one lemma per action.

### ProgressProofs

| Theorem | States |
|---|---|
| `ServerTypeCorrect` | `Spec => []TypeOK` |
| `RevisionsAreOrdered` | `Spec => RevisionsOrderPlaces` |
| `RecordingsAreOrdered` | `Spec => RecordingsOnlyAdvance` |
| `DisplacedPlacesKept` | `Spec => []DisplacedPlacesAreKept` |
| `AcceptedRepliesAreStored` | `Spec => []AcceptedMeansStored` |
| `SyncIsSound` | `SyncSpec => []SyncInv` |
| `OverwritesAreInformed` | `SyncSpec => NoBlindOverwrite` |
| `EditsStayInOrder` | `SyncSpec => EditsAreStoredInOrder` |
| `EditsWaitForTheServer` | `SyncSpec => PendingUntilDecided` |
| `AloneStaysUnoverruled` | `SyncSpec => []AloneNeverOverruled` |

The first five are about the server alone. Their argument has one waist, the lemma `StepShape`: whatever the request, a step keeps the
row, removes it, or stores a row that may follow it, with a rollback copy exactly when
the place drops. Lemmas about the rules (`ClampedInBook`, `NextRevisionAdvances`, …)
establish it handler by handler, and the theorems are read off it. `TypeOK` is
inductive; the other two invariants are inductive together with it. For
`DisplacedPlacesAreKept` the one fact that is not propositional is `NewestOfAppend`:
trimming before an append loses nothing that trimming after it keeps, so the bounded
table of copies and the unbounded history stay in step.

The others are about devices and the server together, for any number of devices,
edits, lost answers, retries and deaths of the app. That overwrites are informed and edits
in order is not inductive: a save that is stored now was put together long ago, sent twice perhaps, and rebased in between.
`SyncInv` therefore says, besides types,

* `KnownInv`: what a device takes for the server's revision, on its shelf, in a listing or
  in a place it fetched, is at most the newest one issued;
* `JournalInv`, `QueueInv`, with `OwnRecording`, `InOrder`, `Leads` and `Recent`: a device's
  recordings bear its name and the number of the edit that began them, so the sequence
  within a recording follows the edits, and the copy it keeps is its newest edit;
* `Informed`: a copy whose base is the row's newest revision was made after every edit
  of its device that was stored; that is what makes a base worth comparing;
* `RequestInv`, `CallInv`: what is in flight carries an edit that was made, and an answer
  is of a revision that was issued, of the row itself if it is the newest;
* `SeekInv`: the numbering of deliberate seeks;
* `StoredInv`: the row is the last edit of its device that was stored.

The waist here is `SaveIs`: the server keeps the row, or stores an edit later than all that
were stored of that device (`StoresEdit`). `OverwritesAreInformed` and `EditsStayInOrder` are read from it.
`EditsWaitForTheServer` needs only that an answer carries the edit it is to: a journal
turns from pending to synced in three actions (`JournalSettles`), and where an answer does
it the journal has not changed since its edit was sent (`SettledByItsReply`).

`AloneStaysUnoverruled` takes an invariant of its own (`AllAlone`), on top of `SyncInv`: a
device that is alone, with no app restarted, could still be refused by what it sent itself,
a rewind that arrives unflagged or before the place it goes back from. `AloneInv` says why not:

* `LineInv`: it has one recording, and the player is at its journal's place or further on;
* `RowInv`: the row is its latest stored edit, and a synced journal is the row;
* `CallsInv`, with `Decided`: an answer comes with its edit stored, and a refused edit had
  been overtaken by a later one that was stored;
* `BehindInv`, with `SoughtBack`: the journal is behind a place that is the row's, or may
  yet be, only with a seek on record made after that place;
* `FlagInv`: and a request behind such a place says that it was sought, and that it goes
  back when it goes near the start;
* `EntryInv`: a queued save knows of the seek on record, unless that is newer.

`AloneRefused` draws the conclusion: the server takes an edit, keeps it, or has a later one.
A refusal then concerns a journal that is no longer the one sent, which leaves no mark; and
nothing fetched is newer than a synced journal, so nothing is adopted (`AloneAdopts`).

### SyncTableProofs, SyncQueueProofs

| Theorem | States |
|---|---|
| `QueueIsSound` | `Spec => []QueueInv` |
| `QueueRunsABookOnce` | `Spec => [](used.rescans = 0 => OneJobPerBook)` |
| `QueueKeepsAccepted` | `Spec => []AcceptedAreDurable` |
| `QueueAttendsToAll` | `Spec => []QueuedJobsAreAttended` |
| `QueueProtectsRuns` | `Spec => []RunningJobsAreProtected` |
| `QueueStopsForUpdates` | `Spec => []UpdatesAreExclusive` |
| `QueueKeepsSections` | `Spec => SectionsOnlyAdvance` |
| `QueueImplementsLedger` | `Spec => KeepsLedger` |

`SyncTableProofs` has the lemmas on the table's operators: what a status change, a
pruning, a move, the snapshot and the restoration do to the jobs they touch and that they
leave the others alone. `QueueInv` is

* `Typed`, and `FreshInv`: what was not created yet is in no table, file, rank or task;
* `SlotInv`: at most one worker is at work;
* `DoneInv`: a run is never behind a checkpoint of the inputs it began with, and once it
  has sections the checkpoint is of those inputs;
* `RunInv`: the job a worker is at is `running`, until one of the property's excuses has
  happened, and is not over before it left, whatever failed;
* `UpdateInv`: the pause signal is that of the newest update, the writer keeps readers
  out, and an update that holds the queue has nothing running, in memory or in the file,
  and every unfinished job in the file;
* `OneJobInv`: one unfinished job for a book, in the table and in the file (as long as no
  book was rescanned);
* `AcceptedAreDurable`, which is inductive with `Typed` and `FreshInv`;
* `AttendedInv`: a queued job has a task of its own, a place in a recovery under way or
  due, or a request that will commit it (as long as no client vanished);
* `LedgerInv`: what the ledger is told of an accepted job is what table and file agree
  on, and what finished was reported.

`OneJobPerBook` needs the premise on rescans: `SyncDedupe` shows how a book that loses
its EPUB between two recoveries gets a second job. The refinement goes step by step:
each action of the queue is mapped to a step of `SyncLedger` or to a stutter, and where
`Lapsed` excuses it, the excuse is carried along as the property states it.

### SyncScheduleProofs

| Theorem | States |
|---|---|
| `ScheduleIsSound` | `ScheduleSpec => []ScheduleInv` |
| `SchedulesStartOnce` | `ScheduleSpec => []AtMostOnce` |
| `SchedulesTellTheTruth` | `ScheduleSpec => []ResultsAreTrue` |
| `SchedulesKeepTheLedger` | `ScheduleSpec => LedgerSpec` |

The schedules are built over the ledger the queue
implements, so what the schedules rely on is what the queue promises. Parts of
`ScheduleInv`: types; `LockInv` (who holds the schedule lock, and what it is doing);
`BegunInv` (of the jobs a schedule began at most one is left that the queue has not
forgotten, of its book and begun no earlier than it was due); `HandInv` (the entry the tick hands off is
marked `dispatching` until the result was saved, and none of its jobs is left when one is
asked for); `ClosedInv` and `LinkInv` (only what ended is closed; a submitted schedule's
job exists, and nobody has closed it unless the schedule came too late for it); `OneInv`
(one job under way for a book, from the ledger); `NightInv` (a slot that was swept is
behind the rule's next one); `ReportInv` and `ReportsAreOwn` (the count a sweep will show
is that of the run whose time it shows); `OutcomesAreKept`, a part of the property.

### LauncherProofs

| Theorem | States |
|---|---|
| `LauncherInvariant` | `LauncherSpec => []LauncherInv` |
| `LauncherKeepsAWayBack` | `LauncherSpec => []WayBackIsKept` |
| `LauncherStartsOldBuildOnItsData` | `LauncherSpec => []OldBuildReadsItsData` |
| `LauncherReportsTheTruth` | `LauncherSpec => []ResultIsTrue` |
| `LauncherLosesNothing` | `LauncherSpec => []NothingIsLost` |

`LauncherInv` says for every place of the program (`pc`) what is true of the disk:
`TodoInv` (the files still to be moved or copied), `FilesInv` (where each old and each
new file is), `ServerInv` (which build may be running and on what), `CopiesInv` (which
copies of the stores are whole and of whose data), `RestoreInv` (what the restore marker
and an earlier, interrupted restore left), `ResultInv` (what the result file says).
The steps are proved one by one, for every set of files, supervised or not, with or
without hard links, and for any number of failures and kills.

`LauncherLosesNothing` rests on `LossInv`, inductive relative to `LauncherInv`:
`BeforeInv` (every database there is, copies and log included, has what was acknowledged
before the update, and while the file itself is moved away the snapshot is there);
`AfterInv` (an open gate means that the new build is up and its commit on the way to
being accepted, so no rollback can begin); `OriginalsInv` (a file that was put back is
never kept, because the marker is set before anything is); `MovedInv` (what is not in its
place is kept, and the log comes last); `WrittenInv` (each store the failed build wrote
is kept, or still on the list, or in the log that is on it; a checkpoint through a hard
link does not undo that); `FinalInv` (a final result comes without a snapshot).

### LibationProofs

| Theorem | States |
|---|---|
| `TitlesAreImportedOnce` | `LibationSpec => []TitleIsImportedOnce` |
| `AccessIsEarnedAlways` | `LibationSpec => []AccessIsEarned` |
| `IntentsAreKeptAlways` | `LibationSpec => []IntentsAreKept` |
| `RequestsAreTrueAlways` | `LibationSpec => []RequestsAreTrue` |

Each rests on an invariant of its own, with the lemmas about steps shared:

* `ImportInv`: a worker that fetches holds the Libation lock (`LockIsHeld`) and the title
  was not there when it looked (`FetchedWhileMissing`);
* `EarnInv`: every step on the way from a request or an intent to a grant carries the
  evidence of ownership or of a ruling with it;
* `KeepInv`: a running job has a task (`JobsRun`); a job the shutdown stops is told so;
  whoever follows a job hears of its outcome or of that stop, or is in `late`
  (`Followed`, `FollowedAll`);
* `CompletionInv`: a task that will complete a request comes after a grant to its reader.

### ListenersProofs

| Theorem | States |
|---|---|
| `AccountsAreSound` | `ListenersSpec => [](AccountInv /\ OpenInv)` |
| `LinksFollow` | `ListenersSpec => []LinksFollowSessions` |
| `CredentialsStayCurrent` | `ListenersSpec => []CredentialsAreCurrent` |
| `DeletedStayForgotten` | `ListenersSpec => []DeletedIsForgotten` |
| `GuessesStayBounded` | `ListenersSpec => []GuessesAreBounded` |
| `LocksStayKept` | `ListenersSpec => LocksAreKept` |
| `SittingsStayKept` | `ListenersSpec => []SittingsAreKept` |
| `CompletionsStayKept` | `ListenersSpec => []CompletionsAreKept` |

Neither property about credentials is inductive: between two writes of a change they
are false, and a restart takes memory from what a cut-off change left on disk. So
`AccountInv` speaks of both copies and of every request under way:

* `LinkInv`: whoever publishes links holds the gate (`gate`), and what it will publish are
  the sessions there are, so a later change cannot be overwritten by an earlier one;
* `LockInv`: a request that issues or withdraws a credential holds the credential lock
  (`issuance`), so at most one is between its look at the account and its last write;
* `NewInv`: the id of an account being created is in no store, no session, no token and no
  other request, so nothing old can become a credential of it;
* `CopiesInv`: memory and disk agree on an account's password and last reset, unless a
  fault cut a change of it (`halfway`);
* `SessionInv`, `AgentInv`: each session, in memory or on disk, belongs to its account's
  password in both copies, and each agent token is no older than the last reset; the
  excuse is `halfway` or the one change under way that is just removing it;
* `OngoingInv`: the second look at the account still holds for a request that is to write a
  session or token, and a reset that has come to the tokens has left no session.

`DeletedIsForgotten` follows from `GoneInv`, over `AccountInv`: for each step a deletion
has come to (`Past`), what the steps before it removed is gone in both copies and cannot
return (`AccountLeft`, `SessionsLeft`, `AgentsLeft`, `PlaceLeft`, `SittingsLeft`,
`HistoryLeft`), because no request of that account is left to bring it back. The accounts
excused, in `lingering`, are those for which one was. `NextFrames` first says which
actions can touch which store, so that each part needs to look only at those.

`GuessesStayBounded` rests on `GuessInv`. Its core is `Covers`: the entry of a network
stands for every wrong guess of its last lockout window. They all belong to the entry's
current run, the entry is as recent as they are, and its count, which stays within the
limit, is no lower than their number; so a counter that starts again at zero, or that is
swept as stale, leaves no recent guess uncounted. `TryingInv` says that a sign-in whose
password is being looked at still has its charge, one of its own, in the runs it
remembers: a success therefore gives back its own charge and nobody else's. Sweeping and
making room are known by what they keep (`Thins`), and `Passes` and `Attempting` divide
the steps into those that leave the table and those that try a password.
`LocksStayKept` needs of the same lemmas that thinning and charging keep a refusal
(`ThinnedRefuses`, `ChargedRefuses`); the steps that may end a lock are those that give a
guess back, and a restart, and these do not only add to `guesses`.

`SittingsStayKept` and `CompletionsStayKept` are two of the three conjuncts of
`ListeningIsKept`, which the run checks whole. A sitting is kept when it is open, or is
about to be written, or has one row that is complete, or was too short. The danger is a
row written late: it replaces the row of the same sitting, and an older, shorter one would
undo a newer. `KeptInv` excludes that.

* `TimesInv`: a checkpoint under way is at most one tick behind the clock;
* `LogInv`: sittings have numbers of their own, all below the next, and whatever is open or
  written is a sitting there was;
* `PendInv`: a sitting whose row is still to be written was flushed so lately that it can
  neither be flushed again nor be closed before the write. After a flush the next is two
  ticks off at least, for which `ReadingLogAssumption` has `FlushFirst < FlushMax`
  (60 s and 15 minutes in `reading_log.rs`), and the sweeper takes no sitting so fresh;
* `StoredInv`: a sitting of an account that is not deleted, untouched by a fault, long
  enough and not dirty is on its way to the history or in it once, with all of its time;
* `SameInv`: memory and disk agree on what is recorded until a fault parts them.

Besides these, `DoneInv` counts: completions and the requests about to add one
(`Finishing`) are as many as the finishes. Both theorems rest on the model's clock, which
makes no write of the history longer than a minute.

### LibraryProofs

| Theorem | States |
|---|---|
| `LibraryIsSound` | `Spec => []LibraryInv` |
| `PlacesStayReachable` | `Spec => []PlacesAreReachable` |
| `EditsStayShown` | `Spec => []EditsAreShown` |
| `ShrinkingIsConfirmed` | `Spec => ShrinkIsConfirmed` |
| `IdentitiesAreSound` | `Spec => []IdentityInv` |
| `RecordingsKeepTheirIds` | `Spec => []IdsKeepTheirRecording` |
| `ScansKeepBooks` | `Spec => []KeepingInv` |
| `BooksKeepTheirIds` | `Spec => KnownBooksKeepTheirIds` |

A scan is judged, resolved, saved and published in separate steps, and edits, places,
backups and kills fall between them, so each property needs to know what a scan has in
hand:

* `LockInv`, `StoreInv`: a scan and a restore exclude each other, and what each phase holds
  and each store and backup contains;
* `ReachInv`: what any database refers to, saved or in a backup, its own identities know,
  and the books of a scan are known to the identities it is about to save, which keep
  every book known before (`ResolveKeepsBooks`). A restore is judged by the database it
  would put back;
* `EditInv`: an edit whose request has not ended is the one in the database, or was
  overtaken (`crossed`), and a scan resolved before an edit shows no title of its own,
  which is why publication reads the overrides again;
* `ShrinkInv`: the counted observations are the last that were recorded, in every backup
  too (`Counts`), and a scan that shrinks the library was confirmed by the identities it
  will replace.

`IdsKeepTheirRecording` compares what was published under an identifier long ago with what
is now, and a scan decides by digests, counts and lengths, never by recordings. Its
invariant, `IdentityInv`, therefore says that everything an identifier was or may be given
to has one shape, how many tracks and how long (`OneShape`): what was published, the books
of a scan in hand, and the identities in the file, in every backup and in what a scan is
about to save. An identity no scan has matched is what the older build left (`Inherited`);
a matched one agrees with the shape in its digests, current and remembered, in its count
and its length, and no path of a track of it is hidden (`Matched`). That rests on
`ShapeOfDigest`, a digest determines the shape of the files it is of, on an argument for
each pass that its evidence implies the shape (`MatchedEvidence`, `InheritedByDigest`,
`InheritedBySidecar`, `FirstClaims`, `LastClaims`), and on what refreshing does to an
identity (`RefreshedMatches`). Identifiers drawn are above all in use (`DrawnInv`). The
other steps give no identifier to a book (`Quiet`), and leave one that had a shape with it.
`doubtful` are the identifiers excused: those for which a scan stored a length that no
book had, or a stand-in for the digest of a file, because either could not be read.

`KnownBooksKeepTheirIds` is the converse: what a scan recognises it must not lose. The
passes claim only what nothing else in the pass competes for, so a claim is proved by
showing that every competitor is excluded (`Unopposed`), pass by pass, for each of the
three ways a book can be told: `ClaimedInPlace`, `ClaimedByDigest`, `ClaimedByLayout`,
and `FilesClaimed` for its tracks. The last pass needs no such argument: whatever is
claimed has evidence (`ClaimsHaveEvidence`), so a matched identity that nothing contests
was claimed before it (`ClaimedUncontested`). No pass claims anything twice
(`PassesApart`, `TracksApart`), hence each group writes an entry of its own
(`Resolution`) and the entry knows the group (`ScanKnows`). A published book may be
anything by the time a scan publishes, so the invariant speaks of no particular
catalogue: `KeptInv` says that a scan with resolved books keeps, for whatever books one
compares it with, what the three ways promise; of a rewritten book only if it was read
(`WasRead`), both times. Between resolving and publishing nothing else writes the
identities (`ResolvedStays`), and what is published is audio, and was read unless its
identifier is `doubtful` (`AudioInv`). `ListedInv` keeps the lists of paths lists and the
identifiers of tracks below the next draw; `IdentityInv` gives a rewritten book the shape
by which pass 5 knows it.

### What is only model-checked

* Liveness (`DevicesSettle`, `QueueMoves`, `StartsSettle`, `IntentsSettle`): the prover
  has no rules for fairness, nor for `ENABLED`.
* `TotalsAreKept`, the first conjunct of `ListeningIsKept`: it compares sums over requests
  and over sittings, and a fact about a sum needs an induction over the set that is summed,
  which no installed prover can do. The other two conjuncts are proved.

## What is not modelled

**Progress.** The IndexedDB copy of the journal and its recovery, native players and
their own journals, `usePlaybackRestore`, journals of versions before the pending mark,
recordings at the largest integer, the shelf hydrated before the first listing.
Completions and Audiobookshelf writes are not composed with devices: `ProgressSync` has
the checkpoint handler alone. Sending a listing or an adoption fetch and the server's read
of it are one action; what the device does with the answer is a later one. Library loads
chained behind a replay are modelled by waiting for it. Whether a seek came after a copy is
told by the device's clock (`IntentAuthorizes`); for a copy that has synced the code compares
the server's `updatedAt` with it (`progressSeekIntent.ts:49`), which is the same only while
the two clocks agree.

**Queue.** Jobs of other kinds on the same table; an unreadable queue file (the server
starts without a queue); a task cancelled while it saves; the add-on installation's
`try_write` of `sync_lifecycle`; what an alignment produces. A worker's report, its guard
and the release of its slot are one action.

**Updates.** Download, verification and unpacking of a release, the installation of the
front end and of the add-on. Two things were seen while reading: `install_frontend` is
not a task of its own, so a client that vanishes releases `InstallGuard` while the
blocking exchange of folders still runs; and a status check that overlaps an installation
may cache a stale answer for fifteen minutes.

**Library.** The fingerprint cache, by which a file of unchanged size and time is not read
again (any read may fail in the model, which is more than the code allows); stand-ins left
by an older build, of which `Legacy` has none; covers, companions, the retry loop at
start, identity files of a newer format. **Libation.** Disconnecting or removing accounts, legacy
profiles, deleting local copies, caches of listings, sign-in. **Accounts.** First-run
setup, progress sharing, avatars, book access, agents switched on and off and their last
use, Direct Libation access in `password_reset_needs_owner`, the capacity of the password
worker, Libro credentials, requests by media token, and two accounts of one name created within one
second of each other, the first deleted in between, which would share an id (`auth.rs:1579`). The activity totals and
`finish_seen` are not removed by a deletion.

**Storage.** Atomic writes of a file under power loss (`storage.rs:97`): the other
modules assume that a save either happened or left the old file.

**Everything else** in the inventory that no module is named for. The reasons are in
`PROJECT.json`, component by component: planned, or without a protocol worth checking
(serving files, parsing, presentation), or beyond a model checker (alignment of audio
with text).

## Plan

In order of what a mistake costs:

1. **UpdateInstall** — download, staging, `InstallGuard`, front end and add-on of
   `updates.rs`, composed with `LauncherUpdate` at the hand-off.
2. **AtomicFile** — write, sync, rename, sync of the directory under power loss; the
   assumption the other modules make about saves becomes its theorem.
3. **ProgressRestore** — native and restored playback, completions and Audiobookshelf
   writes composed with `ProgressSync`.
4. **StateGate** — requests, cached stores and a restore of a backup.
5. **FaststartJobs**, **Uploads**, Android's download attempts and budgets.
