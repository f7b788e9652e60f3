------------------------------ MODULE SyncQueue ------------------------------
(***************************************************************************)
(* The read-along queue of sync.rs: requests, batches, recovery, queue     *)
(* controls, the workers that align one book at a time, and the server     *)
(* update that stops them.                                                 *)
(*                                                                         *)
(* Every step taken while the job table's write lock is held, the save of  *)
(* the queue file included, is one action; an await without the lock ends  *)
(* the action.  A save may fail, before or after the file was replaced.    *)
(***************************************************************************)
EXTENDS SyncTable

CONSTANTS
  Caller,    \* requests in flight at once
  Worker,    \* model bound: spawned tasks alive at once
  Token,     \* server updates, 1 .. n
  Rows       \* model bounds, one row per behaviour: what requests ask for (a book
             \* and a set of chapters, {} the whole book), the sets of books a
             \* sweep may ask for, the sections a run aligns, how many updates there
             \* are, how often each thing goes wrong, and how often all of them but
             \* the controls together

\* A request between its two critical sections, and a spawned task.
Call == [job : Id, wanted : SUBSET Chapter, created : BOOLEAN]
WorkerState ==
  [job : Id,
   done : Nat,   \* sections aligned
   print : Nat,  \* checkpoint_fingerprint of the inputs the run began with
   at : {"checking", "parked", "acquiring", "starting", "pausing", "aligning",
         "failing", "publishing", "fallen"}]

Kind == {"errors", "crashes", "panics", "controls", "gone", "rescans", "inputs"}

ASSUME QueueAssumption ==
  /\ IsFiniteSet(Token) /\ Token = 1 .. Cardinality(Token)
  /\ IsFiniteSet(Book) /\ None \notin Call \cup WorkerState
  /\ \A r \in Rows :
       /\ r.wanted \subseteq Book \X SUBSET Chapter
       /\ r.batches \subseteq SUBSET Book
       /\ {r.sections, r.updates, r.faults} \subseteq Nat
       /\ r.limit \in [Kind -> Nat]

VARIABLES
  jobs,      \* the table in memory
  disk,      \* the saved queue file
  ckpt,      \* completed sections in each job's checkpoint file
  nextId,
  calls,     \* per caller, a request between its two critical sections
  batch,     \* accepted jobs of a batch still to be dispatched
  due,       \* origins about to call resume_queue
  resuming,  \* per origin, the jobs resume_queue has still to request
  workers,
  signal,    \* sync_update_pause: the token workers stop for, or 0
  writer,    \* the token holding sync_lifecycle for writing, or 0
  updates,   \* per token, how far pause_for_update came
  readable,  \* books the library can hand out for alignment
  inputs,    \* all that a job's fingerprint would cover now: the server's alignment
             \* code, the add-on and its settings, the text and the tracks
  prints,    \* the fingerprint saved in each job's checkpoint file
  used,
  row,       \* the bounds of this behaviour
  accepted,  \* history: requests answered with a job
  dismissed, \* history: jobs an administrator asked to remove
  reported   \* history: jobs whose outcome was recorded for the schedules

tableVars   == <<jobs, disk, ckpt, nextId>>
callVars    == <<calls, batch, due, resuming>>
updateVars  == <<signal, writer, updates>>
fileVars    == <<readable, inputs, prints>>
historyVars == <<accepted, dismissed, reported>>
queueVars == <<tableVars, callVars, updateVars, historyVars, workers, fileVars, used>>
queueRunVars == <<queueVars, row>>

\* Who calls resume_queue: the scheduler's tick, a resume, a failed update.
Origin == {"tick", "control", "update"}

Init ==
  /\ jobs = EmptyTable /\ disk = EmptyTable
  /\ ckpt = [j \in Id |-> 0]
  /\ nextId = 1
  /\ calls = [c \in Caller |-> None]
  /\ batch = <<>> /\ due = {}
  /\ resuming = [o \in Origin |-> <<>>]
  /\ workers = [w \in Worker |-> None]
  /\ signal = 0 /\ writer = 0
  /\ updates = [t \in Token |-> "unused"]
  /\ readable = Book
  /\ inputs = [j \in Id |-> 0] /\ prints = inputs
  /\ row \in Rows
  /\ used = [what \in Kind |-> 0]
  /\ accepted = {} /\ dismissed = {} /\ reported = {}

-----------------------------------------------------------------------------
(* Shared steps.                                                           *)

MayFail(what) ==
  /\ used[what] < row.limit[what]
  /\ FoldFunctionOnSet(+, 0, used, Kind \ {"controls"}) < row.faults

Spend(what) == MayFail(what) /\ used' = [used EXCEPT ![what] = @ + 1]

Saves(table) == disk' = Snapshot(table) /\ UNCHANGED used

\* An error after the rename leaves the new file in place.
SaveFails(table) == Spend("errors") /\ disk' \in {disk, Snapshot(table)}

\* Where the caller only logs the error.
TriesToSave(table) == Saves(table) \/ SaveFails(table)

\* sync_lifecycle is held for reading by requests in flight, a batch being
\* dispatched and live workers; a waiting writer already keeps readers out.
IsReader(w) == workers[w] # None /\ workers[w].at # "fallen"
NoReaders ==
  /\ \A c \in Caller : calls[c] = None
  /\ batch = <<>>
  /\ \A w \in Worker : ~IsReader(w)
CanRead == signal = 0 /\ writer = 0 /\ \A t \in Token : updates[t] # "undoing"

\* notify_waiters
Woken(tasks) ==
  [w \in Worker |-> IF tasks[w] # None /\ tasks[w].at = "parked"
                    THEN [tasks[w] EXCEPT !.at = "checking"] ELSE tasks[w]]

FreeWorkers == {w \in Worker : workers[w] = None}

\* The spawned task, then the wake-up.
StartWorker(j) ==
  /\ FreeWorkers # {}
  /\ workers' = Woken([workers EXCEPT ![CHOOSE w \in FreeWorkers : TRUE] =
                         [job |-> j, at |-> "checking", done |-> 0, print |-> 0]])

\* update_job_finished.  A schedule whose outcome could not be saved keeps
\* every result.
FinishJob(j, status) ==
  \/ /\ jobs[j] = None
     /\ jobs' = PruneFinishedJobs(jobs)
     /\ UNCHANGED <<disk, used, reported>>
  \/ /\ jobs[j] # None
     /\ \E ended \in {Ended(jobs, j, status)} : \E pruned \in {Pruned(ended)} :
          \/ /\ jobs' = pruned /\ TriesToSave(pruned)
             /\ reported' = reported \cup {j}
          \/ /\ jobs' = ended /\ Spend("errors") /\ disk' = Snapshot(ended)
             /\ UNCHANGED reported

-----------------------------------------------------------------------------
(* enqueue_sync_map_inner for a new request: create_queued_job takes the   *)
(* table's lock, then the request names the job under the lock again.      *)

EnqueueBegin(c, book, wanted) ==
  LET same == SameWork(jobs, book)
      Asked(j, created) == [calls EXCEPT ![c] =
                             [job |-> j, wanted |-> wanted, created |-> created]]
  IN  /\ calls[c] = None
      /\ CanRead
      /\ book \in readable
      /\ \/ /\ same # {}
            /\ calls' = Asked(Max(same), FALSE)
            /\ UNCHANGED <<jobs, nextId>>
         \/ /\ same = {}
            /\ nextId \in Id
            /\ jobs' = PruneFinishedJobs(Update(jobs, nextId, NewJob(book, FALSE)))
            /\ nextId' = nextId + 1
            /\ calls' = Asked(nextId, TRUE)
      /\ UNCHANGED <<disk, ckpt, batch, due, resuming, workers, updateVars,
                     historyVars, fileVars, used>>

\* The job a request created takes its rank and its chapters.
Named(call) ==
  IF call.created /\ jobs[call.job] # None
  THEN Update(jobs, call.job,
         [jobs[call.job] EXCEPT !.rank = NextRank(jobs), !.chapters = call.wanted,
                                !.pending = jobs[call.job].status = "queued"])
  ELSE jobs

\* A worker is about to be spawned for the job.
Dispatched(table, j) ==
  IF table[j] = None THEN table
  ELSE Update(table, j, [table[j] EXCEPT !.pending = FALSE])

EnqueueCommit(c) ==
  LET call  == calls[c]
      j     == call.job
      named == Named(call)
      refused == ~call.created /\ jobs[j] # None /\ ~Covers(jobs[j], call.wanted)
  IN  /\ call # None
      /\ calls' = [calls EXCEPT ![c] = None]
      /\ \/ /\ refused
            /\ UNCHANGED <<jobs, disk, used, workers, accepted>>
         \/ /\ ~refused
            /\ Saves(named)
            /\ accepted' = accepted \cup {[job |-> j, wanted |-> call.wanted]}
            /\ IF call.created
               THEN jobs' = Dispatched(named, j) /\ StartWorker(j)
               ELSE jobs' = named /\ UNCHANGED workers
         \/ /\ ~refused
            /\ SaveFails(named)
            /\ jobs' = IF call.created THEN Without(named, {j}) ELSE named
            /\ UNCHANGED <<workers, accepted>>
      /\ UNCHANGED <<ckpt, nextId, batch, due, resuming, updateVars, dismissed, reported,
                     fileVars>>

\* The client closes the connection: the handler is dropped at its await.
CallerGone(c) ==
  /\ calls[c] # None
  /\ Spend("gone")
  /\ calls' = [calls EXCEPT ![c] = None]
  /\ UNCHANGED <<tableVars, batch, due, resuming, workers, updateVars, historyVars,
                 fileVars>>

-----------------------------------------------------------------------------
(* enqueue_sync_batch: all books are accepted in one save, then dispatched *)
(* one at a time.                                                          *)

WithoutWork(books) == {b \in books : SameWork(jobs, b) = {}}

EnqueueBatch(new) ==
  LET ids    == nextId .. nextId + Len(new) - 1
      BookOf(j) == new[j - nextId + 1]
      Created(pending) ==
        PruneFinishedJobs([j \in Id |->
          IF j \in ids THEN NewJob(BookOf(j), pending) ELSE jobs[j]])
  IN  /\ batch = <<>>
      /\ CanRead
      /\ new # <<>> /\ ids \subseteq Id
      /\ nextId' = nextId + Len(new)
      /\ \/ /\ Saves(Created(TRUE))
            /\ jobs' = Created(FALSE)
            /\ batch' = [k \in DOMAIN new |-> [book |-> new[k], job |-> nextId + k - 1]]
            /\ accepted' = accepted \cup {[job |-> j, wanted |-> {}] : j \in ids}
         \/ /\ SaveFails(Created(TRUE))
            /\ jobs' = Without(Created(TRUE), ids)
            /\ UNCHANGED <<batch, accepted>>
      /\ UNCHANGED <<ckpt, calls, due, resuming, workers, updateVars, dismissed, reported,
                     fileVars>>

DispatchNext ==
  LET entry == Head(batch)
      j     == entry.job
  IN  /\ batch # <<>>
      /\ batch' = Tail(batch)
      /\ \/ /\ ~CanRead  \* an update began: left for recovery
            /\ jobs' = IF jobs[j] = None THEN jobs
                       ELSE Update(jobs, j, [jobs[j] EXCEPT !.pending =
                                               jobs[j].status = "queued"])
            /\ UNCHANGED <<disk, used, workers, reported>>
         \/ /\ CanRead /\ entry.book \notin readable
            /\ FinishJob(j, "failed")
            /\ UNCHANGED workers
         \/ /\ CanRead /\ entry.book \in readable
            /\ jobs' = Dispatched(jobs, j)
            /\ StartWorker(j)
            /\ UNCHANGED <<disk, used, reported>>
      /\ UNCHANGED <<ckpt, nextId, calls, due, resuming, updateVars, accepted, dismissed,
                     fileVars>>

-----------------------------------------------------------------------------
(* resume_queue: a snapshot of the pending jobs, then one request for      *)
(* each.                                                                   *)

Pending == {j \in Tracked(jobs) : jobs[j].pending}

StartResume(origin) ==
  /\ resuming[origin] = <<>>
  /\ IF origin = "tick" THEN Pending # {} /\ UNCHANGED due
     ELSE origin \in due /\ due' = due \ {origin}
  /\ IF signal # 0 THEN UNCHANGED resuming
     ELSE \E order \in InOrder(jobs, Pending) :
            resuming' = [resuming EXCEPT ![origin] =
              [k \in DOMAIN order |-> [book |-> jobs[order[k]].book, job |-> order[k]]]]
  /\ UNCHANGED <<tableVars, calls, batch, workers, updateVars, historyVars,
                 fileVars, used>>

ResumeNext(origin) ==
  LET left   == resuming[origin]
      entry  == Head(left)
      j      == entry.job
      marked == IF jobs[j] = None THEN jobs
                ELSE Update(jobs, j, [jobs[j] EXCEPT !.pending =
                                        jobs[j].status = "queued"])
  IN  /\ left # <<>>
      /\ resuming' = [resuming EXCEPT ![origin] = Tail(left)]
      /\ \/ /\ ~CanRead  \* CONFLICT: retried by a later tick
            /\ UNCHANGED <<jobs, disk, used, workers, reported>>
         \/ /\ CanRead /\ entry.book \notin readable
            /\ FinishJob(j, "failed")
            /\ UNCHANGED workers
         \/ /\ CanRead /\ entry.book \in readable
            /\ Saves(marked)
            /\ jobs' = Dispatched(marked, j)
            /\ StartWorker(j)
            /\ UNCHANGED reported
         \/ /\ CanRead /\ entry.book \in readable
            /\ SaveFails(marked)
            /\ jobs' = marked
            /\ UNCHANGED <<workers, reported>>
      /\ UNCHANGED <<ckpt, nextId, calls, batch, due, updateVars, accepted,
                     dismissed, fileVars>>

-----------------------------------------------------------------------------
(* An administrator's controls.  One that cannot be saved changes nothing. *)

Control(table) ==
  /\ used.controls < row.limit.controls
  /\ \/ /\ used' = [used EXCEPT !.controls = @ + 1]
        /\ disk' = Snapshot(table)
        /\ jobs' = table
        /\ workers' = Woken(workers)
     \/ /\ MayFail("errors")
        /\ used' = [used EXCEPT !.controls = @ + 1, !.errors = @ + 1]
        /\ disk' \in {disk, Snapshot(table)}
        /\ UNCHANGED <<jobs, workers>>

Move(j, up) ==
  /\ j \in Queued(jobs)
  /\ Control(Moved(jobs, j, up))
  /\ UNCHANGED <<ckpt, nextId, callVars, updateVars, historyVars, fileVars>>

Pause(j) ==
  /\ j \in Active(jobs)
  /\ Control(Update(jobs, j, Paused(jobs[j])))
  /\ UNCHANGED <<ckpt, nextId, callVars, updateVars, historyVars, fileVars>>

\* Mutant of Resume: a job whose worker has still to stop may be resumed.
ResumeStopping(j) ==
  /\ j \in Unfinished(jobs) /\ jobs[j].pause
  /\ "control" \notin due /\ resuming["control"] = <<>>
  /\ Control(Update(jobs, j, Resumed(jobs, j)))
  /\ due' = IF jobs' # jobs THEN due \cup {"control"} ELSE due
  /\ UNCHANGED <<ckpt, nextId, calls, batch, resuming, updateVars, historyVars,
                 fileVars>>

Resume(j) ==
  /\ j \in InStatus(jobs, "paused")
  /\ "control" \notin due /\ resuming["control"] = <<>>
  /\ Control(Update(jobs, j, Resumed(jobs, j)))
  /\ due' = IF jobs' # jobs THEN due \cup {"control"} ELSE due
  /\ UNCHANGED <<ckpt, nextId, calls, batch, resuming, updateVars, historyVars,
                 fileVars>>

\* remove_sync_job: the checkpoint file goes once the removal is saved.
RemoveJob(j) ==
  /\ j \in Tracked(jobs) \ InStatus(jobs, "running")
  /\ Control(Without(jobs, {j}))
  /\ ckpt' = IF jobs' # jobs THEN [ckpt EXCEPT ![j] = 0] ELSE ckpt
  /\ dismissed' = dismissed \cup {j}
  /\ UNCHANGED <<nextId, callVars, updateVars, accepted, reported, fileVars>>

-----------------------------------------------------------------------------
(* A worker: it waits to be first, takes the only slot, aligns section     *)
(* after section, and reports.  claim_sync_slot.                           *)

AtWork(w) ==
  /\ workers[w] # None
  /\ workers[w].at \in {"starting", "pausing", "aligning", "failing", "publishing"}
SlotIsFree == \A w \in Worker : ~AtWork(w)

IsAt(w, at) == workers[w] # None /\ workers[w].at = at
Goes(w, at) == workers' = [workers EXCEPT ![w].at = at]

\* Mutant of Leaves: the queue is not woken.
LeavesQuietly(w) == workers' = [workers EXCEPT ![w] = None]

\* The task ends: its slot is free and the others look again.
Leaves(w) == workers' = Woken([workers EXCEPT ![w] = None])

Check(w) ==
  LET j == workers[w].job
  IN  /\ IsAt(w, "checking")
      /\ IF j \notin Queued(jobs) THEN workers' = [workers EXCEPT ![w] = None]
         ELSE Goes(w, IF IsFirst(jobs, j) THEN "acquiring" ELSE "parked")
      /\ UNCHANGED <<tableVars, callVars, updateVars, historyVars, fileVars, used>>

Claim(w) ==
  LET j == workers[w].job
  IN  /\ IsAt(w, "acquiring")
      /\ SlotIsFree
      /\ IF IsFirst(jobs, j)
         THEN /\ jobs' = Update(jobs, j, [jobs[j] EXCEPT !.status = "running"])
              /\ Goes(w, "starting")
         ELSE Goes(w, "checking") /\ UNCHANGED jobs
      /\ UNCHANGED <<disk, ckpt, nextId, callVars, updateVars, historyVars,
                     fileVars, used>>

ReadsCheckpoint(w, resumes) ==
  LET j == workers[w].job
  IN  /\ IsAt(w, "starting")
      /\ workers' = [workers EXCEPT ![w] =
                       [@ EXCEPT !.done = IF resumes THEN ckpt[j] ELSE 0,
                                 !.print = inputs[j], !.at = "pausing"]]
      /\ UNCHANGED <<tableVars, callVars, updateVars, historyVars, fileVars, used>>

\* Mutants of ReadCheckpoint: the saved sections are never taken up, or whatever
\* they were aligned with.
StartOver(w) == ReadsCheckpoint(w, FALSE)
ResumeAnyway(w) == ReadsCheckpoint(w, TRUE)

\* Sections aligned with other inputs, by another build's code or beyond the
\* chapters wanted are not mixed with new ones: the run begins again, and its
\* first section replaces them.
ReadCheckpoint(w) ==
  ReadsCheckpoint(w, /\ prints[workers[w].job] = inputs[workers[w].job]
                     /\ ckpt[workers[w].job] <= row.sections)

PauseRequested(j) == jobs[j] # None /\ jobs[j].pause

\* pause_at_checkpoint with nothing to stop for.
ContinueRun(w) ==
  /\ IsAt(w, "pausing")
  /\ ~PauseRequested(workers[w].job)
  /\ Goes(w, "aligning")
  /\ UNCHANGED <<tableVars, callVars, updateVars, historyVars, fileVars, used>>

\* pause_at_checkpoint, reached between sections or by interrupting one.  If
\* the pause cannot be saved the run fails.
StopForPause(w) ==
  LET j       == workers[w].job
      stopped == Update(jobs, j, StoppedForPause(jobs[j]))
  IN  /\ \/ IsAt(w, "pausing")
         \/ IsAt(w, "aligning") /\ workers[w].done < row.sections
      /\ PauseRequested(j)
      /\ \/ /\ Saves(stopped)
            /\ jobs' = stopped
            /\ Leaves(w)
            /\ UNCHANGED ckpt
         \/ /\ SaveFails(stopped)
            /\ ckpt' = [ckpt EXCEPT ![j] = 0]
            /\ Goes(w, "failing")
            /\ UNCHANGED jobs
      /\ UNCHANGED <<nextId, callVars, updateVars, historyVars, fileVars>>

\* A section is aligned and the checkpoint file replaced.
AlignSection(w) ==
  LET done == workers[w].done + 1
  IN  /\ IsAt(w, "aligning")
      /\ done <= row.sections
      /\ ckpt' = [ckpt EXCEPT ![workers[w].job] = done]
      /\ prints' = [prints EXCEPT ![workers[w].job] = workers[w].print]
      /\ workers' = [workers EXCEPT ![w] = [@ EXCEPT !.done = done, !.at = "pausing"]]
      /\ UNCHANGED <<jobs, disk, nextId, callVars, updateVars, historyVars, readable,
                     inputs, used>>

\* The map is written, then the checkpoint removed.
PublishMap(w) ==
  /\ IsAt(w, "aligning")
  /\ workers[w].done = row.sections
  /\ ckpt' = [ckpt EXCEPT ![workers[w].job] = 0]
  /\ Goes(w, "publishing")
  /\ UNCHANGED <<jobs, disk, nextId, callVars, updateVars, historyVars, fileVars,
                 used>>

\* Any step of the run may fail; a failed run's checkpoint is removed.
FailRun(w) ==
  /\ \E at \in {"starting", "pausing", "aligning"} : IsAt(w, at)
  /\ ckpt' = [ckpt EXCEPT ![workers[w].job] = 0]
  /\ Goes(w, "failing")
  /\ UNCHANGED <<jobs, disk, nextId, callVars, updateVars, historyVars, fileVars,
                 used>>

\* The rescan after publishing may fail too.
Report(w) ==
  /\ \/ IsAt(w, "failing") /\ FinishJob(workers[w].job, "failed")
     \/ /\ IsAt(w, "publishing")
        /\ \E status \in {"completed", "failed"} : FinishJob(workers[w].job, status)
  /\ Leaves(w)
  /\ UNCHANGED <<ckpt, nextId, callVars, updateVars, accepted, dismissed, fileVars>>

\* The task panics: JobGuard's drop hands the table's update to a new task.
Panic(w) ==
  /\ AtWork(w)
  /\ Spend("panics")
  /\ workers' = Woken([workers EXCEPT ![w].at = "fallen"])
  /\ UNCHANGED <<tableVars, callVars, updateVars, historyVars, fileVars>>

\* fail_if_still_active
RequeueFallen(w) ==
  /\ IsAt(w, "fallen")
  /\ workers' = [workers EXCEPT ![w] = None]
  /\ \E table \in {Requeued(jobs, workers[w].job)} :
       /\ jobs' = PruneFinishedJobs(table)
       /\ IF jobs[workers[w].job] = None THEN UNCHANGED <<disk, used>>
          ELSE TriesToSave(table)
  /\ UNCHANGED <<ckpt, nextId, callVars, updateVars, historyVars, fileVars>>

\* A server update wins every select of the task.
StopForUpdate(w) ==
  /\ signal # 0
  /\ \E at \in {"checking", "parked", "acquiring", "starting", "pausing",
                "aligning"} : IsAt(w, at)
  /\ IF AtWork(w) THEN Leaves(w) ELSE workers' = [workers EXCEPT ![w] = None]
  /\ UNCHANGED <<tableVars, callVars, updateVars, historyVars, fileVars, used>>

-----------------------------------------------------------------------------
(* pause_for_update and SyncUpdatePause.                                   *)

\* One installation at a time (InstallGuard); an abandoned one may still be
\* undoing its pause.
BeginUpdate(t) ==
  /\ updates[t] = "unused" /\ t <= row.updates
  /\ \A other \in Token :
       /\ updates[other] \notin {"stopping", "held", "kept"}
       /\ other < t => updates[other] # "unused"
  /\ updates' = [updates EXCEPT ![t] = "stopping"]
  /\ signal' = t
  /\ UNCHANGED <<tableVars, callVars, workers, writer, historyVars, fileVars, used>>

\* The last reader is gone: the queue is saved while no worker can start.
HoldForUpdate(t) ==
  /\ updates[t] = "stopping"
  /\ writer = 0 /\ NoReaders
  /\ writer' = t
  /\ \E table \in {SavedForUpdate(jobs)} :
       /\ jobs' = table
       /\ \/ Saves(table) /\ updates' = [updates EXCEPT ![t] = "held"]
          \/ SaveFails(table) /\ updates' = [updates EXCEPT ![t] = "undoing"]
  /\ UNCHANGED <<ckpt, nextId, callVars, workers, signal, historyVars, fileVars>>

\* The updater runs; the process will be replaced.
KeepUpdate(t) ==
  /\ updates[t] = "held"
  /\ updates' = [updates EXCEPT ![t] = "kept"]
  /\ writer' = 0
  /\ UNCHANGED <<tableVars, callVars, workers, signal, historyVars, fileVars, used>>

\* The updater cannot be started, or the request is dropped.
AbandonUpdate(t) ==
  /\ updates[t] \in {"stopping", "held"}
  /\ updates' = [updates EXCEPT ![t] = "undoing"]
  /\ UNCHANGED <<tableVars, callVars, workers, signal, writer, historyVars,
                 fileVars, used>>

\* Mutant of UndoUpdate: the pause is released whoever asked for it.
UndoAnyUpdate(t) ==
  /\ updates[t] = "undoing"
  /\ (writer = t) \/ (writer = 0 /\ NoReaders)
  /\ \E table \in {SavedForUpdate(jobs)} : jobs' = table /\ TriesToSave(table)
  /\ writer' = 0
  /\ signal' = 0
  /\ updates' = [updates EXCEPT ![t] = "undone"]
  /\ due' = due \cup {"update"}
  /\ UNCHANGED <<ckpt, nextId, calls, batch, resuming, workers, historyVars, fileVars>>

UndoUpdate(t) ==
  /\ updates[t] = "undoing"
  /\ (writer = t) \/ (writer = 0 /\ NoReaders)
  /\ \E table \in {SavedForUpdate(jobs)} : jobs' = table /\ TriesToSave(table)
  /\ writer' = 0
  /\ signal' = IF signal = t THEN 0 ELSE signal
  /\ updates' = [updates EXCEPT ![t] = "undone"]
  /\ due' = due \cup {"update"}
  /\ UNCHANGED <<ckpt, nextId, calls, batch, resuming, workers, historyVars, fileVars>>

-----------------------------------------------------------------------------
\* A library scan finds that a book lost its EPUB, or has it again.
Rescan(book) ==
  /\ Spend("rescans")
  /\ readable' = IF book \in readable THEN readable \ {book} ELSE readable \cup {book}
  /\ UNCHANGED <<tableVars, callVars, workers, updateVars, historyVars, inputs, prints>>

\* A track or the text is replaced, the add-on changed or another model chosen,
\* also while the job runs; what was before may come back.
Input == 0 .. row.limit.inputs
InputsChange(j) ==
  /\ Spend("inputs")
  /\ \E new \in Input \ {inputs[j]} : inputs' = [inputs EXCEPT ![j] = new]
  /\ UNCHANGED <<tableVars, callVars, workers, updateVars, historyVars, readable, prints>>

\* The process ends at any point and restore_queue reads the file back.
Restart ==
  /\ \E table \in {Restored(disk)} :
       jobs' \in {table, Pruned(table)}  \* kept if the schedules cannot be saved
  /\ calls' = [c \in Caller |-> None]
  /\ batch' = <<>> /\ due' = {}
  /\ resuming' = [o \in Origin |-> <<>>]
  /\ workers' = [w \in Worker |-> None]
  /\ signal' = 0 /\ writer' = 0
  /\ updates' = [t \in Token |-> IF updates[t] = "unused" THEN "unused" ELSE "undone"]
  /\ UNCHANGED <<disk, ckpt, nextId, historyVars, readable, prints>>

Crash == Spend("crashes") /\ Restart /\ UNCHANGED inputs

\* The updater stops the server and starts it again, perhaps with other alignment
\* code, which is an input of every job.
Handoff ==
  /\ \E t \in Token : updates[t] = "kept"
  /\ Restart
  /\ inputs' \in {inputs} \cup {new \in [Id -> Input] : \A j \in Id : new[j] # inputs[j]}
  /\ UNCHANGED used

-----------------------------------------------------------------------------
WorkerStep(w) ==
  \/ Check(w) \/ Claim(w) \/ ReadCheckpoint(w) \/ ContinueRun(w) \/ StopForPause(w)
  \/ AlignSection(w) \/ PublishMap(w) \/ Report(w) \/ RequeueFallen(w)
  \/ StopForUpdate(w)

QueueStep ==
  \/ \E c \in Caller :
       \/ \E ask \in row.wanted : EnqueueBegin(c, ask[1], ask[2])
       \/ EnqueueCommit(c)
       \/ CallerGone(c)
  \/ \E books \in row.batches : \E new \in Orders(WithoutWork(books)) : EnqueueBatch(new)
  \/ DispatchNext
  \/ \E origin \in Origin : StartResume(origin) \/ ResumeNext(origin)
  \/ \E j \in Id :
       \/ \E up \in BOOLEAN : Move(j, up)
       \/ Pause(j) \/ Resume(j) \/ RemoveJob(j) \/ InputsChange(j)
  \/ \E w \in Worker : WorkerStep(w) \/ FailRun(w) \/ Panic(w)
  \/ \E t \in Token :
       \/ BeginUpdate(t) \/ HoldForUpdate(t) \/ KeepUpdate(t)
       \/ AbandonUpdate(t) \/ UndoUpdate(t)
  \/ \E book \in Book : Rescan(book)
  \/ Crash \/ Handoff

Next == QueueStep /\ UNCHANGED row

Spec == Init /\ [][Next]_queueRunVars

\* The runtime runs every task that can go on, an installation ends one way or
\* the other, and the tick recurs.  Only requests and the recovery can go on for
\* ever, so one condition for all other tasks together starves none of them.
Installation(t) ==
  HoldForUpdate(t) \/ KeepUpdate(t) \/ UndoUpdate(t)
    \/ (updates[t] = "held" /\ AbandonUpdate(t))

Task ==
  \/ DispatchNext
  \/ \E w \in Worker : WorkerStep(w)
  \/ \E t \in Token : Installation(t)
  \/ Handoff

Recovery == \E origin \in Origin : StartResume(origin) \/ ResumeNext(origin)

FairSpec ==
  /\ Spec
  /\ WF_queueVars(Task)
  /\ WF_queueVars(Recovery)
  /\ \A c \in Caller : WF_queueVars(EnqueueCommit(c))

-----------------------------------------------------------------------------
(* Properties.                                                             *)

(* Requests, batches and recovery never leave two unfinished jobs for one  *)
(* book, in memory or in the file a restart would read (create_queued_job, *)
(* enqueue_sync_batch).                                                    *)
OneJobPerBook ==
  \A table \in {jobs, disk} : \A i, j \in Unfinished(table) :
    table[i].book = table[j].book => i = j

(* A job whose request was answered is in the queue file until it finishes *)
(* or its removal is asked for; while no save has failed, so are its pause *)
(* and its place (docs/api.md: accepted jobs survive restarts).            *)
AcceptedAreDurable ==
  \A a \in accepted :
    a.job \in Unfinished(jobs) /\ a.job \notin dismissed =>
      /\ a.job \in Unfinished(disk)
      /\ used.errors = 0 => /\ disk[a.job].pause = jobs[a.job].pause
                            /\ disk[a.job].rank = jobs[a.job].rank

Gone == [book |-> None, status |-> "gone"]

\* No entry of the ledger stands for none.
ASSUME EntryAssumption == None \notin [book : Book, status : {"unfinished", "completed", "failed"}]

\* A failed save lets go of a job that others joined, and a book that lost its
\* EPUB may have its finished job failed: no promise reaches beyond either.
Lapsed == used.errors + used.rescans > 0

\* What the requests answered so far see of a table.
AcceptedEntries(table) ==
  [j \in Id |->
     IF Lapsed THEN Gone
     ELSE IF \A a \in accepted : a.job # j THEN None
     ELSE IF table[j] = None THEN Gone
     ELSE [book |-> table[j].book,
           status |-> IF j \in Unfinished(table) THEN "unfinished" ELSE table[j].status]]

Ledger == INSTANCE SyncLedger
  WITH ledger <- AcceptedEntries(jobs),
       closed <- IF Lapsed THEN Id ELSE dismissed \cup reported

(* The queue keeps what SyncLedger promises for the jobs its requests were *)
(* answered with: neither pruning nor a restart, nor the failure of        *)
(* another request for the book, takes an accepted job from the table      *)
(* before its outcome was recorded for the schedules or an administrator   *)
(* removed it; an outcome does not change; and no book has two accepted    *)
(* jobs under way (update_job_finished, prune_finished_jobs, restore_queue,*)
(* remove_sync_job).                                                       *)
KeepsLedger == Ledger!LedgerSpec

(* What a request was told it joined does what it asked for (the "covered" *)
(* check of enqueue_sync_map_inner).                                       *)
AcceptedAreCovered ==
  \A a \in accepted :
    jobs[a.job] # None => Covers(jobs[a.job], a.wanted)

(* A queued job is never lost by everybody: something will still start it  *)
(* (resume_pending and its hand-over to a worker).                         *)
QueuedJobsAreAttended ==
  used.gone = 0 => \A j \in Queued(jobs) :
    \/ jobs[j].pending
    \/ signal # 0
    \/ \E c \in Caller : calls[c] # None /\ calls[c].created /\ calls[c].job = j
    \/ \E k \in DOMAIN batch : batch[k].job = j
    \/ \E w \in Worker : IsReader(w) /\ workers[w].job = j

(* The job a worker is aligning stays running in the table, so that nobody *)
(* may remove it with its checkpoint or start its book again               *)
(* (remove_sync_job: a running worker cannot be using this checkpoint).    *)
RunningJobsAreProtected ==
  used.errors + used.panics + used.rescans = 0 => \A w \in Worker : AtWork(w) => workers[w].job \in InStatus(jobs, "running")

(* Completed sections are only given up with the job, when it is removed,  *)
(* its run fails or its map is published, or to the first section of a run *)
(* whose inputs are others; and a section is only added to sections of the *)
(* same inputs (checkpoint_fingerprint and the guard in                    *)
(* run_sync_generation).                                                   *)
SectionsOnlyAdvance ==
  [][\A j \in Id :
       /\ ckpt'[j] < ckpt[j] =>
            \/ jobs'[j] = None
            \/ \E w \in Worker : /\ workers'[w] # None /\ workers'[w].job = j
                                 /\ workers'[w].at \in {"failing", "publishing"}
            \/ prints'[j] # prints[j] /\ ckpt'[j] = 1
       /\ ckpt'[j] > ckpt[j] => prints'[j] = prints[j] \/ ckpt'[j] = 1]_queueVars

(* While an update holds the queue, and for good once its updater was      *)
(* started, no worker runs and the file holds every unfinished job as one  *)
(* to recover (pause_for_update).                                          *)
UpdatesAreExclusive ==
  (\E t \in Token : updates[t] \in {"held", "kept"}) =>
    /\ NoReaders
    /\ InStatus(jobs, "running") = {}
    /\ InStatus(disk, "running") = {}
    /\ Unfinished(jobs) \ dismissed \subseteq Tracked(disk)

(* Everyone who holds the lifecycle lock lets go of it for an update.      *)
UpdatesProceed ==
  \A t \in Token : []<>(updates[t] # "stopping")

(* Every queued job's turn comes: no worker sleeps through it.             *)
QueueDrains == \A j \in Id : []<>(j \notin Queued(jobs))

(* Stops for updates and waiting workers do not block each other.          *)
QueueMoves == UpdatesProceed /\ QueueDrains

=============================================================================
