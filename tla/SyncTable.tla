------------------------------ MODULE SyncTable ------------------------------
(***************************************************************************)
(* The job table of jobs.rs as the read-along queue of sync.rs keeps it:   *)
(* what a request joins, who is first, what a move renumbers, which        *)
(* results are pruned, and what is left of the table after a restart.      *)
(*                                                                         *)
(* A job's identifier is also its place in creation order (started_at is   *)
(* strictly increasing, next_job_timestamp).                               *)
(***************************************************************************)
EXTENDS Integers, FiniteSets, FiniteSetsExt, Sequences, SequencesExt

CONSTANTS
  None,
  Book,
  Chapter,     \* chapters a request may re-run on their own
  MaxJobs,     \* model bound: jobs ever created
  MaxTracked,  \* MAX_TRACKED_JOBS
  Spacing      \* between two creation times, in the unit of queue ranks

ASSUME TableAssumption ==
  /\ MaxJobs \in Nat
  /\ MaxTracked \in Nat
  /\ Spacing \in Nat \ {0}

Id == 1 .. MaxJobs

\* The whole book is asked for by no chapters.
Job ==
  [book : Book, chapters : SUBSET Chapter,
   status : {"queued", "running", "paused", "completed", "failed"},
   pending : BOOLEAN,  \* resume_pending: no worker was started for it yet
   pause : BOOLEAN,    \* pause_requested
   rank : Nat \cup {None}]  \* queue_position

\* No job stands for no job.
ASSUME NoneAssumption == None \notin Job

Table == [Id -> Job \cup {None}]

EmptyTable == [j \in Id |-> None]

Tracked(table) == {j \in Id : table[j] # None}
InStatus(table, status) == {j \in Tracked(table) : table[j].status = status}
Queued(table) == InStatus(table, "queued")
Active(table) == Queued(table) \cup InStatus(table, "running")
Unfinished(table) == Active(table) \cup InStatus(table, "paused")
Finished(table) == Tracked(table) \ Unfinished(table)

Update(table, j, job) == [table EXCEPT ![j] = job]

-----------------------------------------------------------------------------
(* Joining a job.                                                          *)

NewJob(book, pending) ==
  [book |-> book, chapters |-> {}, status |-> "queued", pending |-> pending,
   pause |-> FALSE, rank |-> None]

\* Mutant of SameWork: a paused job is not joined.
SameActiveWork(table, book) == {j \in Active(table) : table[j].book = book}

\* create_queued_job deduplicates a request against these.
SameWork(table, book) == {j \in Unfinished(table) : table[j].book = book}

\* A whole-book sync covers any chapters, a re-run only its own.
Covers(job, wanted) ==
  \/ job.chapters = {}
  \/ wanted # {} /\ wanted \subseteq job.chapters

-----------------------------------------------------------------------------
(* Queue order.                                                            *)

QueueOrder(table, j) ==
  IF table[j].rank = None THEN Spacing * j ELSE table[j].rank

\* Equal ranks are ordered by random identifiers: either may come first.
IsFirst(table, j) ==
  /\ j \in Queued(table)
  /\ \A i \in Queued(table) : QueueOrder(table, j) <= QueueOrder(table, i)

NextRank(table) == Max({QueueOrder(table, j) : j \in Tracked(table)} \cup {0}) + 1

Before(table, i, j) ==
  \/ QueueOrder(table, i) < QueueOrder(table, j)
  \/ QueueOrder(table, i) = QueueOrder(table, j) /\ i < j

Orders(set) == {s \in [1 .. Cardinality(set) -> set] : IsInjective(s)}

\* The one order of these jobs that is theirs in the queue.
InOrder(table, ids) ==
  {s \in Orders(ids) : \A k, l \in DOMAIN s : k < l => Before(table, s[k], s[l])}

\* How many queued jobs are before it.
Place(table, j) == Cardinality({i \in Queued(table) : Before(table, i, j)})

\* One place up or down; every queued job is renumbered.
Moved(table, j, up) ==
  LET from == Place(table, j)
      to   == IF up THEN from - 1 ELSE from + 1
      Rank(i) == IF \A other \in Queued(table) : Place(table, other) # to
                 THEN Place(table, i)
                 ELSE IF i = j THEN to
                 ELSE IF Place(table, i) = to THEN from ELSE Place(table, i)
  IN  [i \in Id |-> IF i \in Queued(table) THEN [table[i] EXCEPT !.rank = Rank(i)]
                    ELSE table[i]]

-----------------------------------------------------------------------------
(* Status changes made under the table's lock.                             *)

Paused(job) ==
  [job EXCEPT !.pause = TRUE,
              !.status  = IF @ = "queued" THEN "paused" ELSE @,
              !.pending = @ /\ job.status # "queued"]

\* Mutant of Resumed: recovery is not asked to start a worker.
ResumedIdle(table, j) ==
  [table[j] EXCEPT !.pause = FALSE, !.status = "queued", !.rank = NextRank(table)]

Resumed(table, j) ==
  [table[j] EXCEPT !.pause = FALSE, !.status = "queued", !.pending = TRUE,
                   !.rank = NextRank(table)]

StoppedForPause(job) == [job EXCEPT !.status = "paused", !.pending = FALSE]

Ended(table, j, status) ==
  IF table[j] = None THEN table
  ELSE Update(table, j, [table[j] EXCEPT !.status = status, !.pending = FALSE])

\* A worker that went away without a result leaves its job to be run again.
Requeued(table, j) ==
  IF j \in Active(table)
  THEN Update(table, j, [table[j] EXCEPT !.status = "queued", !.pending = TRUE])
  ELSE table

\* save_update_queue: workers have stopped; what they ran is queued again.
SavedForUpdate(table) ==
  [j \in Id |->
     IF j \in Active(table)
     THEN [table[j] EXCEPT
             !.status  = IF table[j].pause THEN "paused" ELSE "queued",
             !.pending = ~table[j].pause]
     ELSE table[j]]

-----------------------------------------------------------------------------
(* Results.                                                                *)

Without(table, ids) == [j \in Id |-> IF j \in ids THEN None ELSE table[j]]

\* A book keeps its latest result.
PruneSyncResults(table) ==
  Without(table, {j \in Finished(table) :
                    \E i \in Finished(table) :
                      i > j /\ table[i].book = table[j].book})

\* Mutant of PruneFinishedJobs: the oldest jobs go, finished or not.
PruneOldestJobs(table) ==
  LET excess == Cardinality(Tracked(table)) - MaxTracked
  IN  Without(table, {j \in Tracked(table) :
                        Cardinality({i \in Tracked(table) : i < j}) < excess})

\* The oldest results beyond the cap.
PruneFinishedJobs(table) ==
  LET excess == Cardinality(Tracked(table)) - MaxTracked
  IN  Without(table, {j \in Finished(table) :
                        Cardinality({i \in Finished(table) : i < j}) < excess})

Pruned(table) == PruneFinishedJobs(PruneSyncResults(table))

-----------------------------------------------------------------------------
(* The queue file.                                                         *)

\* Mutant of Snapshot: a running job is left to its worker.
SnapshotOfWaiting(table) ==
  [j \in Id |-> IF table[j] = None \/ table[j].status = "running" THEN None
                ELSE [table[j] EXCEPT !.pending = FALSE]]

\* resume_pending is not saved.
Snapshot(table) ==
  [j \in Id |-> IF table[j] = None THEN None
                ELSE [table[j] EXCEPT !.pending = FALSE]]

\* restore_queue, before results are pruned.
Restored(file) == SavedForUpdate(file)
=============================================================================
