--------------------------- MODULE SyncQueueProofs ---------------------------
(***************************************************************************)
(* Proofs about SyncQueue, for any books, requests, workers and updates,   *)
(* and any bounds on what goes wrong.                                      *)
(***************************************************************************)
EXTENDS SyncQueue, SyncTableProofs

-----------------------------------------------------------------------------
(* The inductive invariant.                                                *)

Entry == [book : Book, job : Id]

TablesTyped ==
  /\ jobs \in Table /\ disk \in Table
  /\ ckpt \in [Id -> Nat] /\ nextId \in Int /\ nextId >= 1

TasksTyped ==
  /\ calls \in [Caller -> Call \cup {None}]
  /\ batch \in Seq(Entry) /\ resuming \in [Origin -> Seq(Entry)]
  /\ workers \in [Worker -> WorkerState \cup {None}]

UpdatesTyped ==
  /\ signal \in Token \cup {0} /\ writer \in Token \cup {0}
  /\ updates \in [Token -> {"unused", "stopping", "held", "kept", "undoing", "undone"}]

WorldTyped ==
  /\ readable \subseteq Book /\ used \in [Kind -> Nat] /\ row \in Rows
  /\ accepted \subseteq [job : Id, wanted : SUBSET Chapter]

\* A checkpoint holds no more sections than a run aligns.
FilesTyped ==
  /\ inputs \in [Id -> Nat] /\ prints \in [Id -> Nat]
  /\ \A j \in Id : ckpt[j] <= row.sections

Typed == TablesTyped /\ TasksTyped /\ UpdatesTyped /\ WorldTyped /\ FilesTyped

\* What was not created yet is nowhere.
FreshInv ==
  /\ \A j \in Id : j >= nextId => jobs[j] = None /\ disk[j] = None
  /\ \A c \in Caller : calls[c] # None => calls[c].job < nextId
  /\ \A a \in accepted : a.job < nextId

-----------------------------------------------------------------------------
(* What a step does to the table and the file.                             *)

\* The file is given this table, of which results may be pruned in memory.
Writes(table) == disk' = Snapshot(table) /\ Trims(table, jobs') /\ SamePlan(table, jobs')

Fails(table) ==
  used'.errors > 0 /\ disk' \in {disk, Snapshot(table)} /\ Narrows(table, jobs')

Quiet == disk' = disk /\ Trims(jobs, jobs') /\ SamePlan(jobs, jobs')
Rewrites == \E table \in Table : Same(jobs, table) /\ (Writes(table) \/ Fails(table))

Ends(t, u, j) ==
  /\ t[j] # None
  /\ \/ Stage(u, j) \in Over /\ u[j].book = t[j].book
     \/ Stage(u, j) = "none"
  /\ \A i \in Id \ {j} :
       \/ Stage(u, i) = Stage(t, i) /\ (t[i] # None => u[i].book = t[i].book)
       \/ Stage(u, i) = "none" /\ Stage(t, i) \in Over

Finishes(j) ==
  \E table \in Table :
    /\ Ends(jobs, table, j)
    /\ \/ Writes(table) /\ reported' = reported \cup {j}
       \/ Fails(table) /\ reported' \in {reported, reported \cup {j}}

(* A save that failed is counted.                                          *)
LEMMA FailedSaveIsCounted ==
  ASSUME used \in [Kind -> Nat], NEW table, SaveFails(table)
  PROVE  /\ used'.errors > 0 /\ used' \in [Kind -> Nat]
         /\ disk' \in {disk, Snapshot(table)}
         /\ \A what \in Kind \ {"errors"} : used'[what] = used[what]
BY DEF SaveFails, Spend, Kind

(* What the end of a job leaves of the table.                              *)
LEMMA FinishedTables ==
  ASSUME TablesTyped, used \in [Kind -> Nat], NEW j \in Id, NEW status \in Over, FinishJob(j, status)
  PROVE  /\ jobs' \in Table /\ disk' \in Table
         /\ (Quiet /\ reported' = reported) \/ Finishes(j)
         /\ reported \subseteq reported'
         /\ Idle(jobs') \subseteq Idle(jobs)
         /\ \A i \in Unfinished(jobs) \ {j} : jobs'[i] = jobs[i]
         /\ Active(jobs') \subseteq Active(jobs) \ {j}
         /\ InStatus(jobs', "running") \subseteq InStatus(jobs, "running")
         /\ InStatus(disk', "running") \subseteq InStatus(jobs, "running") \cup InStatus(disk, "running")
         /\ \A what \in Kind \ {"errors"} : used'[what] = used[what]
         /\ used' \in [Kind -> Nat] /\ used'.errors >= used.errors
<1> USE DEF TablesTyped
<1>1. CASE jobs[j] = None /\ jobs' = PruneFinishedJobs(jobs) /\ UNCHANGED <<disk, used, reported>>
  <2>1. jobs' \in Table /\ Drops(jobs, jobs')
    BY <1>1, PrunedDrops
  <2>2. /\ Trims(jobs, jobs') /\ SamePlan(jobs, jobs') /\ Idle(jobs') \subseteq Idle(jobs)
        /\ \A s : InStatus(jobs', s) \subseteq InStatus(jobs, s)
        /\ \A i \in Unfinished(jobs) : jobs'[i] = jobs[i]
    BY <2>1, DropsTrims
  <2>3. Active(jobs') \subseteq Active(jobs) \ {j}
    BY <1>1, <2>1, <2>2 DEF Active, Queued, InStatus, Tracked, Drops
  <2>4. used'.errors >= used.errors /\ used' \in [Kind -> Nat]
    BY <1>1 DEF Kind
  <2>5. disk' \in Table
    BY <1>1
  <2> QED BY <1>1, <2>1, <2>2, <2>3, <2>4, <2>5 DEF Quiet
<1>2. CASE jobs[j] # None /\ \E ended \in {Ended(jobs, j, status)} : \E pruned \in {Pruned(ended)} :
          \/ /\ jobs' = pruned /\ TriesToSave(pruned)
             /\ reported' = reported \cup {j}
          \/ /\ jobs' = ended /\ Spend("errors") /\ disk' = Snapshot(ended)
             /\ UNCHANGED reported
  <2> DEFINE ended == Ended(jobs, j, status)
  <2>1. j \in Tracked(jobs)
    BY <1>2 DEF Tracked
  <2>2. /\ ended \in Table /\ Stage(ended, j) = status /\ ended[j] # None
        /\ ended[j].book = jobs[j].book
        /\ \A i \in Id \ {j} : ended[i] = jobs[i]
        /\ SamePlan(jobs, ended) /\ Idle(ended) \subseteq Idle(jobs)
        /\ j \notin Active(ended)
    BY <2>1, EndedIsOver
  <2> HIDE DEF ended
  <2>3. /\ Pruned(ended) \in Table /\ Drops(ended, Pruned(ended))
    BY <2>2, PrunedDrops
  <2>4. Drops(ended, ended)
    BY SameIsReflexive
  <2>5. jobs' \in Table /\ Drops(ended, jobs')
    BY <1>2, <2>2, <2>3, <2>4 DEF ended
  <2>6. /\ Trims(ended, jobs') /\ Idle(jobs') \subseteq Idle(ended)
        /\ \A s : InStatus(jobs', s) \subseteq InStatus(ended, s)
        /\ \A i \in Unfinished(ended) : jobs'[i] = ended[i]
    BY <2>2, <2>5, DropsTrims
  <2>7. \A s : InStatus(ended, s) \ {j} = InStatus(jobs, s) \ {j}
    BY <2>2 DEF InStatus, Tracked
  <2>8. \A i \in Unfinished(jobs) \ {j} : jobs'[i] = jobs[i]
    <3>1. \A i \in Unfinished(jobs) \ {j} : i \in Unfinished(ended) /\ i \in Id
      BY <2>7 DEF Unfinished, Active, Queued, InStatus, Tracked
    <3> QED BY <2>2, <2>6, <3>1
  <2>9. Active(jobs') \subseteq Active(jobs) \ {j}
    BY <2>2, <2>6, <2>7 DEF Active, Queued
  <2>10. InStatus(jobs', "running") \subseteq InStatus(jobs, "running")
    BY <2>6, <2>7, <2>9 DEF Active
  <2>11. Ends(jobs, jobs', j) /\ Ends(jobs, ended, j)
    <3>1. \A i \in Id \ {j} : Stage(ended, i) = Stage(jobs, i)
      BY <2>2 DEF Stage
    <3>2. (Stage(jobs', j) \in Over /\ jobs'[j].book = jobs[j].book) \/ Stage(jobs', j) = "none"
      BY <2>1, <2>2, <2>6 DEF Trims, Tracked
    <3> QED BY <2>1, <2>2, <2>6, <3>1, <3>2 DEF Ends, Trims, Tracked
  <2>12. Finishes(j) /\ reported \subseteq reported'
         /\ (\A what \in Kind \ {"errors"} : used'[what] = used[what])
         /\ used' \in [Kind -> Nat] /\ used'.errors >= used.errors
    <3>1. CASE Saves(jobs') /\ reported' = reported \cup {j}
      <4>1. Writes(jobs')
        BY <3>1, SameIsReflexive DEF Writes, Saves
      <4> QED BY <2>5, <2>11, <3>1, <4>1 DEF Finishes, Saves, Kind
    <3>2. CASE SaveFails(jobs') /\ reported' = reported \cup {j}
      <4>1. used'.errors > 0 /\ disk' \in {disk, Snapshot(jobs')}
            /\ (\A what \in Kind \ {"errors"} : used'[what] = used[what])
            /\ used' \in [Kind -> Nat] /\ used'.errors >= used.errors
        BY <3>2, FailedSaveIsCounted DEF SaveFails, Spend, Kind
      <4>2. Fails(jobs')
        BY <2>5, <4>1, SameIsReflexive, TrimsNarrows DEF Fails
      <4> QED BY <2>5, <2>11, <3>2, <4>1, <4>2 DEF Finishes
    <3>3. CASE jobs' = ended /\ Spend("errors") /\ disk' = Snapshot(ended) /\ UNCHANGED reported
      <4>1. used'.errors > 0
            /\ (\A what \in Kind \ {"errors"} : used'[what] = used[what])
            /\ used' \in [Kind -> Nat] /\ used'.errors >= used.errors
        BY <3>3 DEF Spend, Kind
      <4>2. Fails(jobs')
        BY <2>5, <3>3, <4>1, SameIsReflexive, TrimsNarrows DEF Fails
      <4> QED BY <2>5, <2>11, <3>3, <4>1, <4>2 DEF Finishes
    <3> QED BY <1>2, <3>1, <3>2, <3>3 DEF TriesToSave, ended
  <2>13. /\ disk' \in Table
         /\ InStatus(disk', "running") \subseteq InStatus(jobs, "running") \cup InStatus(disk, "running")
    <3>1. disk' \in {disk, Snapshot(jobs')}
      BY <1>2, FailedSaveIsCounted DEF TriesToSave, Saves
    <3> QED BY <2>5, <2>10, <3>1, SnapshotKeeps
  <2> QED BY <2>2, <2>5, <2>6, <2>8, <2>9, <2>10, <2>12, <2>13
<1> QED BY <1>1, <1>2 DEF FinishJob

\* Jobs are begun, nothing else changes.
Begins(t, u, ids) ==
  \A i \in Id : IF i \in ids THEN Stage(u, i) = "unfinished" ELSE u[i] = t[i]

(* A request joins a job of the table or creates one.                      *)
LEMMA BegunTables ==
  ASSUME Typed, FreshInv, NEW c \in Caller, NEW book \in Book, NEW wanted \in SUBSET Chapter,
         EnqueueBegin(c, book, wanted)
  PROVE  \/ /\ jobs' = jobs /\ nextId' = nextId
            /\ \E j \in SameWork(jobs, book) :
                 calls' = [calls EXCEPT ![c] = [job |-> j, wanted |-> wanted, created |-> FALSE]]
         \/ /\ SameWork(jobs, book) = {}
            /\ nextId \in Id /\ nextId' = nextId + 1
            /\ calls' = [calls EXCEPT ![c] = [job |-> nextId, wanted |-> wanted, created |-> TRUE]]
            /\ jobs' \in Table
            /\ Idle(jobs') \subseteq Idle(jobs) \cup {nextId}
            /\ InStatus(jobs', "running") = InStatus(jobs, "running")
            /\ \E table \in Table :
                 /\ Begins(jobs, table, {nextId}) /\ table[nextId].book = book
                 /\ Drops(table, jobs')
<1> DEFINE same == SameWork(jobs, book)
<1>1. CASE same # {} /\ UNCHANGED <<jobs, nextId>>
           /\ calls' = [calls EXCEPT ![c] = [job |-> Max(same), wanted |-> wanted, created |-> FALSE]]
  <2>1. same \in SUBSET Id
    BY DEF SameWork, Unfinished, Active, Queued, InStatus, Tracked
  <2>2. same \in SUBSET Int /\ IsFiniteSet(same)
    BY <2>1, IdsAreFinite DEF Id
  <2>3. Max(same) \in same
    BY <1>1, <2>2, MaxIsGreatest
  <2> QED BY <1>1, <2>3
<1>2. CASE /\ same = {} /\ nextId \in Id
           /\ jobs' = PruneFinishedJobs(Update(jobs, nextId, NewJob(book, FALSE)))
           /\ nextId' = nextId + 1
           /\ calls' = [calls EXCEPT ![c] = [job |-> nextId, wanted |-> wanted, created |-> TRUE]]
  <2> DEFINE job == NewJob(book, FALSE)
  <2>1. job \in Job /\ job.book = book /\ job.status = "queued"
    BY DEF NewJob, Job
  <2> DEFINE table == Update(jobs, nextId, job)
  <2>0. jobs' = PruneFinishedJobs(table)
    BY <1>2
  <2> HIDE DEF job
  <2>2. /\ table \in Table /\ table[nextId] = job
        /\ \A i \in Id \ {nextId} : table[i] = jobs[i]
    BY <1>2, <2>1, UpdateIsTyped DEF Typed, TablesTyped
  <2> HIDE DEF table
  <2>4. jobs' \in Table /\ Drops(table, jobs')
    BY <2>0, <2>2, PrunedDrops
  <2>5. Idle(jobs') \subseteq Idle(table) /\ InStatus(jobs', "running") \subseteq InStatus(table, "running")
        /\ \A i \in Unfinished(table) : jobs'[i] = table[i]
    BY <2>2, <2>4, DropsTrims
  <2>a. jobs[nextId] = None
    BY <1>2 DEF FreshInv, Typed, TablesTyped
  <2>6. Idle(table) \subseteq Idle(jobs) \cup {nextId}
        /\ InStatus(table, "running") = InStatus(jobs, "running")
    BY <2>1, <2>2, <2>a DEF Idle, Queued, InStatus, Tracked
  <2>b. InStatus(jobs', "running") = InStatus(jobs, "running")
    BY <2>5, <2>6 DEF InStatus, Tracked, Unfinished, Active
  <2>7. Stage(table, nextId) = "unfinished"
    BY <2>1, <2>2, NoneAssumption DEF Stage
  <2>8. Begins(jobs, table, {nextId}) /\ table[nextId].book = book
    BY <2>1, <2>2, <2>7 DEF Begins
  <2> QED BY <1>2, <2>2, <2>4, <2>5, <2>6, <2>8, <2>b
<1> QED BY <1>1, <1>2 DEF EnqueueBegin

(* A request names the job it created; nothing else changes.               *)
LEMMA NamedKeeps ==
  ASSUME Typed, NEW call \in Call
  PROVE  /\ Named(call) \in Table /\ Same(jobs, Named(call))
         /\ \A status : InStatus(Named(call), status) = InStatus(jobs, status)
         /\ Idle(Named(call)) \subseteq Idle(jobs)
         /\ ~call.created => Named(call) = jobs
         /\ call.job \notin Idle(Named(call)) \/ ~call.created
         /\ \A i \in Id \ {call.job} : Named(call)[i] = jobs[i]
<1> DEFINE j == call.job
<1> DEFINE job == [jobs[j] EXCEPT !.rank = NextRank(jobs), !.chapters = call.wanted,
                                  !.pending = jobs[j].status = "queued"]
<1>1. jobs \in Table /\ j \in Id /\ call.wanted \in SUBSET Chapter
  BY DEF Typed, TablesTyped, Call
<1>2. CASE call.created /\ jobs[j] # None
  <2>1. jobs[j] \in Job /\ NextRank(jobs) \in Nat
    BY <1>1, <1>2, NextRankIsTyped DEF Table
  <2>2. /\ job \in Job /\ job.book = jobs[j].book /\ job.status = jobs[j].status
        /\ job.status = "queued" => job.pending
    BY <1>1, <2>1 DEF Job
  <2>3. Named(call) = Update(jobs, j, job)
    BY <1>2 DEF Named
  <2> HIDE DEF job
  <2>4. /\ Update(jobs, j, job) \in Table /\ Update(jobs, j, job)[j] = job
        /\ \A i \in Id \ {j} : Update(jobs, j, job)[i] = jobs[i]
    BY <1>1, <2>2, UpdateIsTyped
  <2>5. Same(jobs, Update(jobs, j, job))
    BY <1>1, <1>2, <2>2, UpdateKeepsStages
  <2>6. job # None
    BY <2>2, NoneAssumption
  <2> HIDE DEF j
  <2>7. \A status : InStatus(Update(jobs, j, job), status) = InStatus(jobs, status)
    BY <1>1, <1>2, <2>2, <2>4, <2>6 DEF InStatus, Tracked
  <2>8. Idle(Update(jobs, j, job)) \subseteq Idle(jobs) \ {j}
    <3>1. j \notin Idle(Update(jobs, j, job))
      BY <2>2, <2>4 DEF Idle, Queued, InStatus
    <3>2. \A i \in Idle(Update(jobs, j, job)) : i \in Id /\ i \in Queued(jobs)
      BY <2>7 DEF Idle, Queued, InStatus, Tracked
    <3> QED BY <2>4, <3>1, <3>2 DEF Idle
  <2> QED BY <1>2, <2>3, <2>4, <2>5, <2>7, <2>8 DEF j
<1>3. CASE ~(call.created /\ jobs[j] # None)
  <2>1. Named(call) = jobs
    BY <1>3 DEF Named
  <2>2. j \notin Idle(jobs) \/ ~call.created
    BY <1>3 DEF Idle, Queued, InStatus, Tracked
  <2> QED BY <1>1, <2>1, <2>2, SameIsReflexive
<1> QED BY <1>2, <1>3

(* A job handed to a worker.                                               *)
LEMMA DispatchedKeeps ==
  ASSUME NEW t \in Table, NEW j \in Id
  PROVE  /\ Dispatched(t, j) \in Table /\ Same(t, Dispatched(t, j)) /\ SamePlan(t, Dispatched(t, j))
         /\ \A status : InStatus(Dispatched(t, j), status) = InStatus(t, status)
         /\ Idle(Dispatched(t, j)) \subseteq Idle(t) \cup {j}
<1>1. CASE t[j] = None
  <2>1. Dispatched(t, j) = t
    BY <1>1 DEF Dispatched
  <2> QED BY <2>1, SameIsReflexive
<1>2. CASE t[j] # None
  <2> DEFINE asked == FALSE
  <2>1. j \in Tracked(t) /\ Dispatched(t, j) = Update(t, j, [t[j] EXCEPT !.pending = asked])
    BY <1>2 DEF Tracked, Dispatched
  <2>2. asked \in BOOLEAN
    OBVIOUS
  <2> HIDE DEF asked
  <2> QED BY <2>1, <2>2, PendingKeeps
<1> QED BY <1>1, <1>2

(* A job left for recovery, if it waits.                                   *)
LeftFor(t, j) ==
  IF t[j] = None THEN t ELSE Update(t, j, [t[j] EXCEPT !.pending = t[j].status = "queued"])

(* A job left to recovery is not idle.                                    *)
LEMMA LeftKeeps ==
  ASSUME NEW t \in Table, NEW j \in Id
  PROVE  /\ LeftFor(t, j) \in Table /\ Same(t, LeftFor(t, j)) /\ SamePlan(t, LeftFor(t, j))
         /\ \A status : InStatus(LeftFor(t, j), status) = InStatus(t, status)
         /\ Idle(LeftFor(t, j)) \subseteq Idle(t) /\ j \notin Idle(LeftFor(t, j))
<1>1. CASE t[j] = None
  <2>1. LeftFor(t, j) = t /\ j \notin Idle(t)
    BY <1>1 DEF LeftFor, Idle, Queued, InStatus, Tracked
  <2> QED BY <2>1, SameIsReflexive
<1>2. CASE t[j] # None
  <2> DEFINE asked == (t[j].status = "queued")
  <2>1. j \in Tracked(t) /\ LeftFor(t, j) = Update(t, j, [t[j] EXCEPT !.pending = asked])
    BY <1>2 DEF Tracked, LeftFor
  <2>2. asked \in BOOLEAN /\ (asked \/ t[j].status # "queued")
    OBVIOUS
  <2>3. LeftFor(t, j)[j].pending = asked /\ LeftFor(t, j)[j].status = t[j].status
    <3>1. t[j] \in Job
      BY <1>2 DEF Table
    <3> DEFINE job == [t[j] EXCEPT !.pending = asked]
    <3> HIDE DEF asked
    <3>2. job \in Job /\ job.pending = asked /\ job.status = t[j].status
      BY <2>2, <3>1 DEF Job
    <3>3. LeftFor(t, j) = Update(t, j, job)
      BY <2>1
    <3> HIDE DEF job
    <3>4. Update(t, j, job)[j] = job
      BY <3>2, UpdateIsTyped
    <3> QED BY <3>2, <3>3, <3>4
  <2>4. j \notin Idle(LeftFor(t, j))
    BY <2>3 DEF Idle, Queued, InStatus
  <2> HIDE DEF asked
  <2> QED BY <2>1, <2>2, <2>4, PendingKeeps
<1> QED BY <1>1, <1>2

Running(table) == InStatus(table, "running")

(* A request is answered with the job it names, refused, or its job is     *)
(* taken back.                                                             *)
LEMMA CommittedTables ==
  ASSUME Typed, NEW c \in Caller, EnqueueCommit(c)
  PROVE  /\ calls[c] \in Call /\ calls' = [calls EXCEPT ![c] = None]
         /\ jobs' \in Table /\ disk' \in Table
         /\ Running(jobs') \subseteq Running(jobs)
         /\ Running(jobs') = Running(jobs) \/ used'.errors > 0
         /\ Running(disk') \subseteq Running(jobs) \cup Running(disk)
         /\ \/ /\ UNCHANGED <<jobs, disk, used, workers, accepted>>
               /\ ~calls[c].created
            \/ /\ \E table \in Table : Same(jobs, table) /\ Writes(table)
               /\ Same(jobs, jobs') /\ UNCHANGED used
               /\ accepted' = accepted \cup {[job |-> calls[c].job, wanted |-> calls[c].wanted]}
               /\ IF calls[c].created
                  THEN Idle(jobs') \subseteq Idle(jobs) \cup {calls[c].job} /\ StartWorker(calls[c].job)
                  ELSE jobs' = jobs /\ UNCHANGED workers
            \/ /\ \E table \in Table : Same(jobs, table) /\ Fails(table)
               /\ Idle(jobs') \subseteq Idle(jobs) /\ UNCHANGED <<workers, accepted>>
               /\ IF calls[c].created THEN jobs'[calls[c].job] = None ELSE jobs' = jobs
<1> DEFINE call == calls[c]
<1> DEFINE j == call.job
<1> DEFINE named == Named(call)
<1>1. call \in Call /\ j \in Id /\ jobs \in Table /\ disk \in Table /\ used \in [Kind -> Nat]
      /\ calls' = [calls EXCEPT ![c] = None]
  BY DEF EnqueueCommit, Typed, TasksTyped, TablesTyped, WorldTyped, Call
<1>2. /\ named \in Table /\ Same(jobs, named) /\ Running(named) = Running(jobs)
      /\ Idle(named) \subseteq Idle(jobs) /\ (~call.created => named = jobs)
  BY <1>1, NamedKeeps DEF Running
<1>3. Snapshot(named) \in Table /\ Running(Snapshot(named)) = Running(jobs)
  BY <1>2, SnapshotKeeps DEF Running
<1>4. \/ /\ UNCHANGED <<jobs, disk, used, workers, accepted>> /\ ~call.created
      \/ /\ Saves(named)
         /\ accepted' = accepted \cup {[job |-> j, wanted |-> call.wanted]}
         /\ IF call.created
            THEN jobs' = Dispatched(named, j) /\ StartWorker(j)
            ELSE jobs' = named /\ UNCHANGED workers
      \/ /\ SaveFails(named)
         /\ jobs' = IF call.created THEN Without(named, {j}) ELSE named
         /\ UNCHANGED <<workers, accepted>>
  BY DEF EnqueueCommit
<1> HIDE DEF named
<1>5. CASE /\ Saves(named)
           /\ accepted' = accepted \cup {[job |-> j, wanted |-> call.wanted]}
           /\ IF call.created
              THEN jobs' = Dispatched(named, j) /\ StartWorker(j)
              ELSE jobs' = named /\ UNCHANGED workers
  <2>1. /\ jobs' \in Table /\ Same(named, jobs') /\ SamePlan(named, jobs')
        /\ Running(jobs') = Running(named) /\ Idle(jobs') \subseteq Idle(named) \cup {j}
    BY <1>1, <1>2, <1>5, DispatchedKeeps, SameIsReflexive DEF Running
  <2>2. Writes(named) /\ disk' = Snapshot(named) /\ UNCHANGED used
    BY <1>5, <2>1, SameTrims DEF Writes, Saves
  <2>3. Same(jobs, jobs')
    BY <1>1, <1>2, <2>1, SameIsTransitive
  <2> QED BY <1>1, <1>2, <1>3, <1>5, <2>1, <2>2, <2>3
<1>6. CASE /\ SaveFails(named)
           /\ jobs' = IF call.created THEN Without(named, {j}) ELSE named
           /\ UNCHANGED <<workers, accepted>>
  <2>1. used'.errors > 0 /\ disk' \in {disk, Snapshot(named)}
    BY <1>1, <1>6, FailedSaveIsCounted
  <2>2. /\ jobs' \in Table
        /\ \A i \in Id : jobs'[i] = named[i] \/ jobs'[i] = None
        /\ IF call.created THEN jobs'[j] = None ELSE jobs' = jobs
    <3>1. CASE call.created
      <4>1. jobs' = Without(named, {j})
        BY <1>6, <3>1
      <4> QED BY <1>1, <1>2, <3>1, <4>1 DEF Without, Table
    <3>2. CASE ~call.created
      BY <1>2, <1>6, <3>2
    <3> QED BY <3>1, <3>2
  <2>3. Narrows(named, jobs')
    BY <2>2 DEF Narrows, Stage
  <2>4. Running(jobs') \subseteq Running(named) /\ Idle(jobs') \subseteq Idle(named)
    BY <2>2 DEF Running, Idle, Queued, InStatus, Tracked
  <2>5. Fails(named)
    BY <2>1, <2>3 DEF Fails
  <2> QED BY <1>1, <1>2, <1>3, <1>6, <2>1, <2>2, <2>4, <2>5
<1>7. CASE UNCHANGED <<jobs, disk, used, workers, accepted>> /\ ~call.created
  BY <1>1, <1>7
<1> QED BY <1>4, <1>5, <1>6, <1>7

(* A batch that is saved begins its jobs, one that is not takes them back. *)
LEMMA BatchedTables ==
  ASSUME Typed, FreshInv, NEW new, Len(new) \in Nat, new \in [1 .. Len(new) -> Book],
         \A k, l \in 1 .. Len(new) : new[k] = new[l] => k = l,
         \A k \in 1 .. Len(new) : SameWork(jobs, new[k]) = {},
         EnqueueBatch(new)
  PROVE  \E ids \in SUBSET Id : \E table \in Table :
           /\ Begins(jobs, table, ids)
           /\ ids = nextId .. nextId + Len(new) - 1 /\ nextId' = nextId + Len(new)
           /\ \A i \in ids : SameWork(jobs, table[i].book) = {}
           /\ \A i, k \in ids : table[i].book = table[k].book => i = k
           /\ jobs' \in Table /\ disk' \in Table
           /\ Running(jobs') = Running(jobs)
           /\ Running(disk') \subseteq Running(jobs) \cup Running(disk)
           /\ \E saved \in Table : /\ Drops(table, saved) /\ Trims(table, saved)
                \* accepted, or taken back
                /\ \/ /\ Writes(saved) /\ Trims(table, jobs')
                      /\ Idle(jobs') \subseteq Idle(jobs) \cup ids
                      /\ Len(batch') = Len(new) /\ batch' \in Seq(Entry)
                      /\ \A i \in ids : \E k \in DOMAIN batch' : batch'[k].job = i
                      /\ accepted' = accepted \cup {[job |-> i, wanted |-> {}] : i \in ids}
                   \/ /\ Fails(saved) /\ Drops(jobs, jobs')
                      /\ \A i \in ids : jobs'[i] = None
                      /\ Idle(jobs') \subseteq Idle(jobs)
                      /\ UNCHANGED <<batch, accepted>>
<1> DEFINE ids == nextId .. nextId + Len(new) - 1
<1> DEFINE With(pending) ==
      [i \in Id |-> IF i \in ids THEN NewJob(new[i - nextId + 1], pending) ELSE jobs[i]]
<1>1. /\ jobs \in Table /\ disk \in Table /\ nextId \in Int /\ used \in [Kind -> Nat]
      /\ batch = <<>> /\ new # <<>> /\ ids \subseteq Id /\ nextId' = nextId + Len(new)
  BY DEF EnqueueBatch, Typed, TablesTyped, WorldTyped
<1>2. \/ /\ Saves(PruneFinishedJobs(With(TRUE)))
         /\ jobs' = PruneFinishedJobs(With(FALSE))
         /\ batch' = [k \in DOMAIN new |-> [book |-> new[k], job |-> nextId + k - 1]]
         /\ accepted' = accepted \cup {[job |-> i, wanted |-> {}] : i \in ids}
      \/ /\ SaveFails(PruneFinishedJobs(With(TRUE)))
         /\ jobs' = Without(PruneFinishedJobs(With(TRUE)), ids)
         /\ UNCHANGED <<batch, accepted>>
  BY DEF EnqueueBatch
<1> DEFINE BookOf(i) == new[i - nextId + 1]
<1>3. \A i \in ids : i - nextId + 1 \in 1 .. Len(new) /\ BookOf(i) \in Book
  BY <1>1
<1>4. ASSUME NEW pending \in BOOLEAN
      PROVE  /\ With(pending) \in Table
             /\ \A i \in ids : /\ With(pending)[i] \in Job
                               /\ With(pending)[i].book = BookOf(i)
                               /\ With(pending)[i].status = "queued"
             /\ \A i \in Id \ ids : With(pending)[i] = jobs[i]
  <2>1. \A i \in ids : /\ NewJob(BookOf(i), pending) \in Job
                       /\ NewJob(BookOf(i), pending).book = BookOf(i)
                       /\ NewJob(BookOf(i), pending).status = "queued"
    BY <1>3 DEF NewJob, Job
  <2> QED BY <1>1, <2>1 DEF Table
<1>5. ASSUME NEW pending \in BOOLEAN
      PROVE  /\ Begins(jobs, With(pending), ids)
             /\ Running(With(pending)) \subseteq Running(jobs)
             /\ Idle(With(pending)) \subseteq Idle(jobs) \cup ids
             /\ Tracked(With(pending)) = Tracked(jobs) \cup ids
             /\ Finished(With(pending)) = Finished(jobs) \ ids
  <2> HIDE DEF With, BookOf, ids
  <2>1. \A i \in ids : With(pending)[i] # None /\ With(pending)[i].status = "queued" /\ i \in Id
    BY <1>1, <1>4, NoneAssumption
  <2>2. Begins(jobs, With(pending), ids)
    BY <1>4, <2>1 DEF Begins, Stage
  <2>3. Running(With(pending)) \subseteq Running(jobs)
    BY <1>4, <2>1 DEF Running, InStatus, Tracked
  <2>4. Idle(With(pending)) \subseteq Idle(jobs) \cup ids
    BY <1>4, <2>1 DEF Idle, Queued, InStatus, Tracked
  <2>5. Tracked(With(pending)) = Tracked(jobs) \cup ids
    BY <1>4, <2>1 DEF Tracked
  <2>6. Finished(With(pending)) = Finished(jobs) \ ids
    BY <1>4, <2>1 DEF Finished, Unfinished, Active, Queued, InStatus, Tracked
  <2> QED BY <2>2, <2>3, <2>4, <2>5, <2>6
<1> DEFINE table == With(TRUE)
<1> DEFINE saved == PruneFinishedJobs(table)
<1>6. /\ table \in Table /\ Begins(jobs, table, ids) /\ (\A i \in ids : table[i].book = BookOf(i))
      /\ With(FALSE) \in Table /\ Begins(jobs, With(FALSE), ids)
      /\ \A i \in ids : With(FALSE)[i].book = BookOf(i)
  BY <1>4, <1>5
<1>7. PICK gone \in SUBSET Finished(table) :
        saved = Without(table, gone) /\ PruneFinishedJobs(With(FALSE)) = Without(With(FALSE), gone)
  <2>1. Tracked(With(FALSE)) = Tracked(table) /\ Finished(With(FALSE)) = Finished(table)
    BY <1>5
  <2> HIDE DEF With
  <2> QED BY <1>6, <2>1, PrunedAlike
<1>8. /\ \A i \in ids : SameWork(jobs, table[i].book) = {}
      /\ \A i, k \in ids : table[i].book = table[k].book => i = k
  <2>1. \A i, k \in ids : BookOf(i) = BookOf(k) => i = k
    BY <1>1, <1>3
  <2>2. \A i \in ids : SameWork(jobs, BookOf(i)) = {}
    BY <1>1, <1>3
  <2> HIDE DEF With, BookOf, ids
  <2> QED BY <1>6, <2>1, <2>2
<1>9. Running(table) \subseteq Running(jobs) /\ Idle(table) \subseteq Idle(jobs) \cup ids
      /\ Running(With(FALSE)) \subseteq Running(jobs) /\ Idle(With(FALSE)) \subseteq Idle(jobs) \cup ids
  BY <1>5
<1>10. saved \in Table /\ Drops(table, saved) /\ Trims(table, saved)
       /\ Running(saved) \subseteq Running(jobs) /\ Idle(saved) \subseteq Idle(jobs) \cup ids
  <2> HIDE DEF With
  <2>1. saved \in Table /\ Drops(table, saved)
    BY <1>6, PrunedDrops
  <2> HIDE DEF saved
  <2>2. Trims(table, saved) /\ Running(saved) \subseteq Running(table) /\ Idle(saved) \subseteq Idle(table)
    BY <1>6, <2>1, DropsTrims DEF Running
  <2> QED BY <1>9, <2>1, <2>2
<1>11. \A i \in ids : i \notin gone
  <2> HIDE DEF With
  <2> QED BY <1>1, <1>6, StagesTell DEF Begins, Over
<1>12. \A i \in ids : jobs[i] = None
  BY <1>1 DEF FreshInv
<1>13. CASE /\ Saves(saved)
            /\ jobs' = PruneFinishedJobs(With(FALSE))
            /\ batch' = [k \in DOMAIN new |-> [book |-> new[k], job |-> nextId + k - 1]]
            /\ accepted' = accepted \cup {[job |-> i, wanted |-> {}] : i \in ids}
  <2> DEFINE begun == With(FALSE)
  <2>1. jobs' = Without(begun, gone) /\ saved = Without(table, gone)
    BY <1>7, <1>13
  <2>2. disk' = Snapshot(saved)
    BY <1>13 DEF Saves
  <2>3. \A i \in ids : begun[i] \in Job /\ table[i] \in Job /\ begun[i].book = table[i].book
    BY <1>4, <1>6
  <2>4. \A i \in ids : begun[i].pause = table[i].pause /\ begun[i].rank = table[i].rank
    BY <1>1, <1>3 DEF NewJob
  <2>5. \A i \in Id \ ids : begun[i] = jobs[i] /\ table[i] = jobs[i]
    BY <1>4
  <2>6. /\ batch' \in Seq(Entry) /\ Len(batch') = Len(new)
        /\ \A i \in ids : \E k \in DOMAIN batch' : batch'[k].job = i
    <3>1. DOMAIN new = 1 .. Len(new)
      OBVIOUS
    <3>2. batch' = [k \in 1 .. Len(new) |-> [book |-> new[k], job |-> nextId + k - 1]]
      BY <1>13, <3>1
    <3>3. \A k \in 1 .. Len(new) : nextId + k - 1 \in ids /\ new[k] \in Book
      BY <1>1
    <3>4. \A k \in 1 .. Len(new) : [book |-> new[k], job |-> nextId + k - 1] \in Entry
      BY <1>1, <3>3 DEF Entry
    <3>5. batch' \in [1 .. Len(new) -> Entry]
      BY <3>2, <3>4
    <3>6. batch' \in Seq(Entry) /\ Len(batch') = Len(new)
      BY <3>5
    <3>7. ASSUME NEW i \in ids PROVE \E k \in DOMAIN batch' : batch'[k].job = i
      <4>1. i - nextId + 1 \in 1 .. Len(new) /\ nextId + (i - nextId + 1) - 1 = i
        BY <1>1
      <4>2. batch'[i - nextId + 1].job = i /\ i - nextId + 1 \in DOMAIN batch'
        BY <3>2, <4>1
      <4> QED BY <4>2
    <3> QED BY <3>6, <3>7
  <2>7. Running(begun) \subseteq Running(jobs) /\ Idle(begun) \subseteq Idle(jobs) \cup ids
        /\ begun \in Table /\ Begins(jobs, begun, ids)
    BY <1>6, <1>9
  <2> HIDE DEF With, table, saved, begun, BookOf
  <2>8. /\ jobs' \in Table
        /\ \A i \in Id : jobs'[i] = IF i \in gone THEN None ELSE begun[i]
        /\ \A i \in Id : saved[i] = IF i \in gone THEN None ELSE table[i]
    BY <1>6, <2>1, <2>7, WithoutIsTyped
  <2>9. Running(jobs') \subseteq Running(begun) /\ Idle(jobs') \subseteq Idle(begun)
    BY <2>8 DEF Running, Idle, Queued, InStatus, Tracked
  <2>a. Running(jobs) \subseteq Running(jobs')
    <3>1. ASSUME NEW i \in Running(jobs) PROVE i \in Running(jobs')
      <4>1. i \in Id /\ jobs[i] # None /\ jobs[i].status = "running" /\ i \notin ids
        BY <1>12 DEF Running, InStatus, Tracked
      <4>2. table[i] = jobs[i] /\ begun[i] = jobs[i]
        BY <2>5, <4>1
      <4>3. i \notin Finished(table)
        BY <4>1, <4>2 DEF Finished, Unfinished, Active, InStatus, Tracked
      <4> QED BY <1>7, <2>8, <4>1, <4>2, <4>3 DEF Running, InStatus, Tracked
    <3> QED BY <3>1
  <2>10. \A i \in Id : Stage(begun, i) = Stage(table, i)
    BY <1>6, <2>5, <2>7 DEF Begins, Stage
  <2>11. Same(saved, jobs')
    BY <2>3, <2>5, <2>8, <2>10 DEF Same, Stage
  <2>12. Trims(table, jobs')
    <3>1. \A i \in Id : i \in gone => Stage(table, i) \in Over
      BY <1>6, <1>7, StagesTell
    <3>2. \A i \in Id : i \notin gone => Stage(jobs', i) = Stage(table, i) /\ jobs'[i].book = table[i].book
      BY <2>3, <2>5, <2>8, <2>10 DEF Stage
    <3> QED BY <2>8, <3>1, <3>2 DEF Trims, Stage
  <2>13. SamePlan(saved, jobs')
    BY <2>4, <2>5, <2>8 DEF SamePlan
  <2>14. Writes(saved)
    BY <2>2, <2>11, <2>13, SameTrims DEF Writes
  <2>15. disk' \in Table /\ Running(disk') \subseteq Running(jobs)
    BY <1>10, <2>2, SnapshotKeeps DEF Running
  <2>16. Idle(jobs') \subseteq Idle(jobs) \cup ids /\ Running(jobs') = Running(jobs)
    BY <2>7, <2>9, <2>a
  <2> HIDE DEF ids
  <2> QED BY <1>1, <1>6, <1>8, <1>10, <1>13, <2>6, <2>8, <2>12, <2>14, <2>15, <2>16 DEF ids
<1>14. CASE /\ SaveFails(saved)
            /\ jobs' = Without(saved, ids)
            /\ UNCHANGED <<batch, accepted>>
  <2>1. used'.errors > 0 /\ disk' \in {disk, Snapshot(saved)}
    BY <1>1, <1>14, FailedSaveIsCounted
  <2>2. /\ jobs' \in Table
        /\ \A i \in Id : jobs'[i] = IF i \in ids THEN None ELSE saved[i]
    <3> HIDE DEF saved, ids
    <3> QED BY <1>10, <1>14 DEF Without, Table
  <2>3. \A i \in Id \ ids : table[i] = jobs[i]
    BY <1>4
  <2> HIDE DEF With, table, saved, BookOf, ids
  <2>4. Narrows(saved, jobs')
    BY <2>2 DEF Narrows, Stage
  <2>5. Fails(saved)
    BY <2>1, <2>4 DEF Fails
  <2>6. Drops(jobs, jobs')
    <3>1. \A i \in ids : jobs[i] = None
      BY <1>12
    <3>2. \A i \in Id \ ids : i \in Finished(table) => i \in Finished(jobs)
      BY <1>1, <1>6, <2>3 DEF Finished, Unfinished, Active, Queued, InStatus, Tracked
    <3> QED BY <1>10, <2>2, <2>3, <3>1, <3>2 DEF Drops
  <2>7. Running(jobs') \subseteq Running(saved) /\ Idle(jobs') \subseteq Idle(saved) \ ids
    BY <2>2 DEF Running, Idle, Queued, InStatus, Tracked
  <2>8. Running(jobs') = Running(jobs) /\ Idle(jobs') \subseteq Idle(jobs)
    <3>1. \A i \in Unfinished(jobs) : jobs'[i] = jobs[i]
      BY <1>1, <2>2, <2>6, DropsTrims
    <3>2. Running(jobs) \subseteq Running(jobs')
      BY <3>1 DEF Running, InStatus, Tracked, Unfinished, Active
    <3> QED BY <1>10, <2>7, <3>2
  <2>9. disk' \in Table /\ Running(disk') \subseteq Running(jobs) \cup Running(disk)
    BY <1>1, <1>10, <2>1, SnapshotKeeps DEF Running
  <2>10. \A i \in ids : jobs'[i] = None
    BY <1>1, <2>2
  <2> QED BY <1>1, <1>6, <1>8, <1>10, <1>14, <2>2, <2>5, <2>6, <2>8, <2>9, <2>10 DEF ids
<1> QED BY <1>2, <1>13, <1>14

(* The next job of a batch is handed to a worker, failed, or left for      *)
(* recovery.                                                               *)
LEMMA DispatchedTables ==
  ASSUME Typed, DispatchNext
  PROVE  /\ batch # <<>> /\ Head(batch) \in Entry /\ batch' = Tail(batch)
         /\ jobs' \in Table /\ disk' \in Table
         /\ \/ /\ Quiet /\ Same(jobs, jobs') /\ Running(jobs') = Running(jobs)
               /\ Idle(jobs') \subseteq Idle(jobs) \ {Head(batch).job}
               /\ UNCHANGED <<used, workers, reported>>
            \/ /\ Head(batch).book \notin readable /\ UNCHANGED workers
               /\ \E status \in Over : FinishJob(Head(batch).job, status)
            \/ /\ Quiet /\ Same(jobs, jobs') /\ Running(jobs') = Running(jobs)
               /\ Idle(jobs') \subseteq Idle(jobs) \cup {Head(batch).job}
               /\ CanRead /\ StartWorker(Head(batch).job) /\ UNCHANGED <<used, reported>>
<1> DEFINE j == Head(batch).job
<1>1. /\ batch # <<>> /\ batch' = Tail(batch) /\ Head(batch) \in Entry
      /\ jobs \in Table /\ disk \in Table /\ used \in [Kind -> Nat]
  <2>1. batch # <<>> /\ batch' = Tail(batch)
    BY DEF DispatchNext
  <2>2. batch \in Seq(Entry) /\ jobs \in Table /\ disk \in Table /\ used \in [Kind -> Nat]
    BY DEF Typed, TasksTyped, TablesTyped, WorldTyped
  <2> HIDE DEF Entry
  <2> QED BY <2>1, <2>2
<1>2. j \in Id
  BY <1>1 DEF Entry
<1>3. \/ /\ jobs' = LeftFor(jobs, j)
         /\ UNCHANGED <<disk, used, workers, reported>>
      \/ /\ CanRead /\ Head(batch).book \notin readable
         /\ FinishJob(j, "failed")
         /\ UNCHANGED workers
      \/ /\ CanRead /\ jobs' = Dispatched(jobs, j)
         /\ StartWorker(j)
         /\ UNCHANGED <<disk, used, reported>>
  BY DEF DispatchNext, LeftFor
<1> HIDE DEF j
<1>4. CASE jobs' = LeftFor(jobs, j) /\ UNCHANGED <<disk, used, workers, reported>>
  BY <1>1, <1>2, <1>4, LeftKeeps, SameTrims DEF Quiet, Running, j
<1>5. CASE CanRead /\ Head(batch).book \notin readable /\ FinishJob(j, "failed") /\ UNCHANGED workers
  <2>1. "failed" \in Over /\ TablesTyped
    BY DEF Over, Typed
  <2>2. jobs' \in Table /\ disk' \in Table
    BY <1>1, <1>2, <1>5, <2>1, FinishedTables
  <2> QED BY <1>1, <1>5, <2>1, <2>2 DEF j
<1>6. CASE /\ CanRead /\ jobs' = Dispatched(jobs, j) /\ StartWorker(j)
           /\ UNCHANGED <<disk, used, reported>>
  BY <1>1, <1>2, <1>6, DispatchedKeeps, SameTrims DEF Quiet, Running, j
<1> QED BY <1>3, <1>4, <1>5, <1>6

(* So is the next job that recovery asks for.                              *)
LEMMA RecoveredTables ==
  ASSUME Typed, NEW origin \in Origin, ResumeNext(origin)
  PROVE  /\ resuming[origin] # <<>> /\ Head(resuming[origin]) \in Entry
         /\ resuming' = [resuming EXCEPT ![origin] = Tail(@)]
         /\ jobs' \in Table /\ disk' \in Table
         /\ \/ UNCHANGED <<jobs, disk, used, workers, reported>>
            \/ /\ Head(resuming[origin]).book \notin readable /\ UNCHANGED workers
               /\ \E status \in Over : FinishJob(Head(resuming[origin]).job, status)
            \/ /\ Rewrites /\ Same(jobs, jobs') /\ Running(jobs') = Running(jobs)
               /\ Running(disk') \subseteq Running(jobs) \cup Running(disk)
               /\ UNCHANGED reported
               /\ \/ /\ Idle(jobs') \subseteq Idle(jobs) \cup {Head(resuming[origin]).job}
                     /\ StartWorker(Head(resuming[origin]).job) /\ UNCHANGED used
                  \/ /\ Idle(jobs') \subseteq Idle(jobs) /\ UNCHANGED workers
                     /\ used'.errors > 0
               /\ CanRead
<1> DEFINE left == resuming[origin]
<1> DEFINE j == Head(left).job
<1>1. /\ left # <<>> /\ resuming' = [resuming EXCEPT ![origin] = Tail(@)] /\ Head(left) \in Entry
      /\ jobs \in Table /\ disk \in Table /\ used \in [Kind -> Nat]
  <2>1. left # <<>> /\ resuming' = [resuming EXCEPT ![origin] = Tail(@)]
    BY DEF ResumeNext
  <2>2. left \in Seq(Entry) /\ jobs \in Table /\ disk \in Table /\ used \in [Kind -> Nat]
    BY DEF Typed, TasksTyped, TablesTyped, WorldTyped
  <2> HIDE DEF Entry, left
  <2> QED BY <2>1, <2>2
<1>2. j \in Id
  BY <1>1 DEF Entry
<1> DEFINE marked == LeftFor(jobs, j)
<1>3. \/ UNCHANGED <<jobs, disk, used, workers, reported>>
      \/ /\ CanRead /\ Head(left).book \notin readable
         /\ FinishJob(j, "failed")
         /\ UNCHANGED workers
      \/ /\ CanRead /\ Saves(marked) /\ jobs' = Dispatched(marked, j)
         /\ StartWorker(j) /\ UNCHANGED reported
      \/ /\ CanRead /\ SaveFails(marked) /\ jobs' = marked
         /\ UNCHANGED <<workers, reported>>
  BY DEF ResumeNext, LeftFor
<1>4. /\ marked \in Table /\ Same(jobs, marked) /\ Running(marked) = Running(jobs)
      /\ Idle(marked) \subseteq Idle(jobs)
  BY <1>1, <1>2, LeftKeeps DEF Running
<1> HIDE DEF j, marked
<1>5. Snapshot(marked) \in Table /\ Running(Snapshot(marked)) = Running(jobs)
  BY <1>4, SnapshotKeeps DEF Running
<1>6. CASE UNCHANGED <<jobs, disk, used, workers, reported>>
  BY <1>1, <1>6
<1>7. CASE CanRead /\ Head(left).book \notin readable /\ FinishJob(j, "failed") /\ UNCHANGED workers
  <2>1. "failed" \in Over /\ TablesTyped
    BY DEF Over, Typed
  <2>2. jobs' \in Table /\ disk' \in Table
    BY <1>1, <1>2, <1>7, <2>1, FinishedTables
  <2> QED BY <1>1, <1>7, <2>1, <2>2 DEF j
<1>8. CASE CanRead /\ Saves(marked) /\ jobs' = Dispatched(marked, j) /\ StartWorker(j)
           /\ UNCHANGED reported
  <2>1. /\ jobs' \in Table /\ Same(marked, jobs') /\ SamePlan(marked, jobs')
        /\ Running(jobs') = Running(marked) /\ Idle(jobs') \subseteq Idle(marked) \cup {j}
    BY <1>2, <1>4, <1>8, DispatchedKeeps DEF Running
  <2>2. Writes(marked) /\ disk' = Snapshot(marked) /\ UNCHANGED used
    BY <1>8, <2>1, SameTrims DEF Writes, Saves
  <2>3. Same(jobs, jobs')
    BY <1>1, <1>4, <2>1, SameIsTransitive
  <2>4. Rewrites
    BY <1>4, <2>2 DEF Rewrites
  <2> QED BY <1>1, <1>4, <1>5, <1>8, <2>1, <2>2, <2>3, <2>4 DEF j
<1>9. CASE CanRead /\ SaveFails(marked) /\ jobs' = marked /\ UNCHANGED <<workers, reported>>
  <2>1. used'.errors > 0 /\ disk' \in {disk, Snapshot(marked)}
    BY <1>1, <1>9, FailedSaveIsCounted
  <2>2. Fails(marked)
    BY <1>4, <1>9, <2>1, SameIsReflexive, TrimsNarrows DEF Fails
  <2>3. Rewrites
    BY <1>4, <2>2 DEF Rewrites
  <2> QED BY <1>1, <1>4, <1>5, <1>9, <2>1, <2>3
<1> QED BY <1>3, <1>6, <1>7, <1>8, <1>9

(* A control that only changes how the queue is worked off.                *)
LEMMA ControlledTables ==
  ASSUME Typed, NEW table \in Table, Same(jobs, table), Control(table)
  PROVE  /\ jobs' \in {jobs, table} /\ disk' \in Table
         /\ Rewrites /\ Same(jobs, jobs')
         /\ Running(disk') \subseteq Running(table) \cup Running(disk)
<1>1. jobs \in Table /\ disk \in Table /\ used \in [Kind -> Nat]
  BY DEF Typed, TablesTyped, WorldTyped
<1>2. Snapshot(table) \in Table /\ Running(Snapshot(table)) = Running(table)
  BY SnapshotKeeps DEF Running
<1>3. CASE disk' = Snapshot(table) /\ jobs' = table
  <2>1. Writes(table)
    BY <1>3, SameIsReflexive DEF Writes
  <2> QED BY <1>1, <1>2, <1>3, <2>1 DEF Rewrites
<1>4. CASE /\ used' = [used EXCEPT !.controls = @ + 1, !.errors = @ + 1]
           /\ disk' \in {disk, Snapshot(table)} /\ jobs' = jobs
  <2>1. used'.errors > 0
    BY <1>1, <1>4 DEF Kind
  <2>2. Narrows(table, jobs')
    BY <1>1, <1>4, SameIsSymmetric, SameTrims, TrimsNarrows
  <2>3. Rewrites
    BY <1>4, <2>1, <2>2 DEF Fails, Rewrites
  <2> QED BY <1>1, <1>2, <1>4, <2>3, SameIsReflexive
<1> QED BY <1>3, <1>4 DEF Control

(* Moving, pausing and resuming a job.                                     *)
LEMMA MovedTables ==
  ASSUME Typed, NEW j \in Id, NEW up \in BOOLEAN, Move(j, up)
  PROVE  /\ jobs' \in Table /\ disk' \in Table /\ Rewrites /\ Same(jobs, jobs')
         /\ Idle(jobs') \subseteq Idle(jobs) /\ Running(jobs') = Running(jobs)
         /\ Running(disk') \subseteq Running(jobs) \cup Running(disk)
<1> DEFINE table == Moved(jobs, j, up)
<1>1. jobs \in Table /\ j \in Queued(jobs) /\ Control(table)
  BY DEF Typed, TablesTyped, Move
<1>2. /\ table \in Table /\ Same(jobs, table)
      /\ \A i \in Id : jobs[i] # None =>
           table[i].status = jobs[i].status /\ table[i].pending = jobs[i].pending
  BY <1>1, MovedKeeps
<1> HIDE DEF table
<1>3. Tracked(table) = Tracked(jobs)
  BY <1>1, <1>2, StagesTell DEF Same, Tracked
<1>4. Running(table) = Running(jobs) /\ Idle(table) = Idle(jobs)
  BY <1>2, <1>3 DEF Running, Idle, Queued, InStatus, Tracked
<1> QED BY <1>1, <1>2, <1>4, ControlledTables

(* A pause takes the job from the queue or asks its run to stop.          *)
LEMMA PausedTables ==
  ASSUME Typed, NEW j \in Id, Pause(j)
  PROVE  /\ jobs' \in Table /\ disk' \in Table /\ Rewrites /\ Same(jobs, jobs')
         /\ Idle(jobs') \subseteq Idle(jobs) /\ Running(jobs') = Running(jobs)
         /\ Running(disk') \subseteq Running(jobs) \cup Running(disk)
<1> DEFINE job == Paused(jobs[j])
<1> DEFINE table == Update(jobs, j, job)
<1>1. jobs \in Table /\ j \in Active(jobs) /\ Control(table)
  BY DEF Typed, TablesTyped, Pause
<1>2. j \in Tracked(jobs) /\ jobs[j] # None /\ jobs[j].status \in {"queued", "running"}
  BY <1>1 DEF Active, Queued, InStatus, Tracked
<1>3. /\ job \in Job /\ job.book = jobs[j].book /\ job # None
      /\ job.status = IF jobs[j].status = "queued" THEN "paused" ELSE jobs[j].status
  <2>1. jobs[j] \in Job
    BY <1>1, <1>2 DEF Table
  <2>2. job \in Job /\ job.book = jobs[j].book
        /\ job.status = IF jobs[j].status = "queued" THEN "paused" ELSE jobs[j].status
    BY <2>1 DEF Job, Paused
  <2> QED BY <2>2, NoneAssumption
<1> HIDE DEF job
<1>4. /\ table \in Table /\ table[j] = job /\ \A i \in Id \ {j} : table[i] = jobs[i]
  BY <1>1, <1>3, UpdateIsTyped
<1>5. Same(jobs, table)
  BY <1>1, <1>2, <1>3, UpdateKeepsStages DEF Over
<1> HIDE DEF table
<1>6. Running(table) = Running(jobs) /\ Idle(table) \subseteq Idle(jobs)
  BY <1>2, <1>3, <1>4 DEF Running, Idle, Queued, InStatus, Tracked
<1> QED BY <1>1, <1>4, <1>5, <1>6, ControlledTables

(* A resumed job waits for recovery.                                      *)
LEMMA ResumedTables ==
  ASSUME Typed, NEW j \in Id, Resume(j)
  PROVE  /\ jobs' \in Table /\ disk' \in Table /\ Rewrites /\ Same(jobs, jobs')
         /\ Idle(jobs') \subseteq Idle(jobs) /\ Running(jobs') = Running(jobs)
         /\ Running(disk') \subseteq Running(jobs) \cup Running(disk)
<1> DEFINE job == Resumed(jobs, j)
<1> DEFINE table == Update(jobs, j, job)
<1>1. jobs \in Table /\ j \in InStatus(jobs, "paused") /\ Control(table)
  BY DEF Typed, TablesTyped, Resume
<1>2. j \in Tracked(jobs) /\ jobs[j] # None /\ jobs[j].status = "paused"
  BY <1>1 DEF InStatus, Tracked
<1>3. /\ job \in Job /\ job.book = jobs[j].book /\ job # None
      /\ job.status = "queued" /\ job.pending
  <2>1. jobs[j] \in Job
    BY <1>1, <1>2 DEF Table
  <2>2. NextRank(jobs) \in Nat
    BY <1>1, NextRankIsTyped
  <2>3. job \in Job /\ job.book = jobs[j].book /\ job.status = "queued" /\ job.pending
    BY <2>1, <2>2 DEF Job, Resumed
  <2> QED BY <2>3, NoneAssumption
<1> HIDE DEF job
<1>4. /\ table \in Table /\ table[j] = job /\ \A i \in Id \ {j} : table[i] = jobs[i]
  BY <1>1, <1>3, UpdateIsTyped
<1>5. Same(jobs, table)
  BY <1>1, <1>2, <1>3, UpdateKeepsStages DEF Over
<1> HIDE DEF table
<1>6. Running(table) = Running(jobs)
  BY <1>2, <1>3, <1>4 DEF Running, InStatus, Tracked
<1>7. j \notin Idle(table)
  BY <1>3, <1>4 DEF Idle
<1>8. Idle(table) \subseteq Idle(jobs)
  BY <1>4, <1>7 DEF Idle, Queued, InStatus, Tracked
<1> QED BY <1>1, <1>4, <1>5, <1>6, <1>8, ControlledTables

\* A job is taken out, or stays although the file may be without it.
Removes(j) ==
  \E table \in Table :
    /\ table[j] = None /\ \A i \in Id \ {j} : table[i] = jobs[i]
    /\ \/ disk' = Snapshot(table) /\ jobs' = table
       \/ used'.errors > 0 /\ disk' \in {disk, Snapshot(table)} /\ jobs' = jobs

(* A removed job is gone from memory and file, or from neither.           *)
LEMMA RemovedTables ==
  ASSUME Typed, NEW j \in Id, RemoveJob(j)
  PROVE  /\ jobs' \in Table /\ disk' \in Table /\ Removes(j) /\ dismissed' = dismissed \cup {j}
         /\ jobs' = jobs \/ jobs'[j] = None
         /\ Idle(jobs') \subseteq Idle(jobs) /\ Running(jobs') = Running(jobs)
         /\ Running(disk') \subseteq Running(jobs) \cup Running(disk)
<1> DEFINE table == Without(jobs, {j})
<1>1. /\ jobs \in Table /\ disk \in Table /\ used \in [Kind -> Nat] /\ Control(table)
      /\ j \in Tracked(jobs) \ Running(jobs) /\ dismissed' = dismissed \cup {j}
  BY DEF Typed, TablesTyped, WorldTyped, RemoveJob, Running
<1>2. table \in Table /\ table[j] = None /\ \A i \in Id \ {j} : table[i] = jobs[i]
  BY <1>1 DEF Without, Table
<1> HIDE DEF table
<1>3. Running(table) = Running(jobs) /\ Idle(table) \subseteq Idle(jobs)
  BY <1>1, <1>2 DEF Running, Idle, Queued, InStatus, Tracked
<1>4. Snapshot(table) \in Table /\ Running(Snapshot(table)) = Running(table)
  BY <1>2, SnapshotKeeps DEF Running
<1>5. CASE disk' = Snapshot(table) /\ jobs' = table
  BY <1>1, <1>2, <1>3, <1>4, <1>5 DEF Removes
<1>6. CASE /\ used' = [used EXCEPT !.controls = @ + 1, !.errors = @ + 1]
           /\ disk' \in {disk, Snapshot(table)} /\ jobs' = jobs
  <2>1. used'.errors > 0
    BY <1>1, <1>6 DEF Kind
  <2> QED BY <1>1, <1>2, <1>3, <1>4, <1>6, <2>1 DEF Removes
<1> QED BY <1>1, <1>5, <1>6 DEF Control

(* A worker whose turn it is has its job running.                          *)
LEMMA ClaimedTables ==
  ASSUME Typed, NEW w \in Worker, Claim(w)
  PROVE  /\ workers[w] \in WorkerState /\ workers[w].at = "acquiring"
         /\ jobs' \in Table /\ Quiet /\ Same(jobs, jobs')
         /\ \/ jobs' = jobs /\ Goes(w, "checking")
            \/ /\ Goes(w, "starting") /\ SlotIsFree
               /\ workers[w].job \in Queued(jobs)
               /\ Idle(jobs') \subseteq Idle(jobs) \ {workers[w].job}
               /\ Running(jobs') = Running(jobs) \cup {workers[w].job}
<1> DEFINE j == workers[w].job
<1>1. /\ workers[w] \in WorkerState /\ workers[w].at = "acquiring" /\ SlotIsFree
      /\ jobs \in Table /\ disk' = disk
  BY DEF Claim, IsAt, Typed, TasksTyped, TablesTyped
<1>2. j \in Id
  BY <1>1 DEF WorkerState
<1>3. CASE Goes(w, "checking") /\ UNCHANGED jobs
  BY <1>1, <1>3, SameIsReflexive DEF Quiet
<1>4. CASE /\ j \in Queued(jobs) /\ Goes(w, "starting")
           /\ jobs' = Update(jobs, j, [jobs[j] EXCEPT !.status = "running"])
  <2> DEFINE job == [jobs[j] EXCEPT !.status = "running"]
  <2>1. jobs[j] \in Job /\ jobs[j] # None /\ jobs[j].status = "queued"
    BY <1>1, <1>4 DEF Queued, InStatus, Tracked, Table
  <2>2. /\ job \in Job /\ job.book = jobs[j].book /\ job.status = "running"
        /\ job.pause = jobs[j].pause /\ job.rank = jobs[j].rank
    BY <2>1 DEF Job
  <2>3. jobs' = Update(jobs, j, job)
    BY <1>4
  <2> HIDE DEF job, j
  <2>4. /\ jobs' \in Table /\ jobs'[j] = job /\ job # None
        /\ \A i \in Id \ {j} : jobs'[i] = jobs[i]
    <3>1. job # None
      BY <2>2, NoneAssumption
    <3>2. /\ Update(jobs, j, job) \in Table /\ Update(jobs, j, job)[j] = job
          /\ \A i \in Id \ {j} : Update(jobs, j, job)[i] = jobs[i]
      BY <1>1, <1>2, <2>2, UpdateIsTyped
    <3> QED BY <2>3, <3>1, <3>2
  <2>5. Same(jobs, jobs')
    <3>1. Same(jobs, Update(jobs, j, job))
      BY <1>1, <1>2, <2>1, <2>2, UpdateKeepsStages DEF Over
    <3> QED BY <2>3, <3>1
  <2>6. SamePlan(jobs, jobs')
    BY <2>2, <2>4 DEF SamePlan
  <2>7. Running(jobs') = Running(jobs) \cup {j}
    BY <1>2, <2>2, <2>4 DEF Running, InStatus, Tracked
  <2>8. Idle(jobs') \subseteq Idle(jobs) \ {j}
    BY <2>2, <2>4 DEF Idle, Queued, InStatus, Tracked
  <2> QED BY <1>1, <1>4, <2>4, <2>5, <2>6, <2>7, <2>8, SameTrims DEF Quiet, j
<1> QED BY <1>3, <1>4 DEF Claim, IsFirst

(* A worker that stops for a pause leaves its job unfinished.              *)
LEMMA StoppedTables ==
  ASSUME Typed, NEW w \in Worker, StopForPause(w)
  PROVE  /\ AtWork(w) /\ workers[w] \in WorkerState
         /\ workers[w].job \in Tracked(jobs)
         /\ jobs' \in Table /\ disk' \in Table
         /\ Idle(jobs') \subseteq Idle(jobs) /\ Running(jobs') \subseteq Running(jobs)
         /\ Running(jobs) \ {workers[w].job} \subseteq Running(jobs')
         /\ Running(disk') \subseteq Running(jobs) \cup Running(disk)
         /\ \E table \in Table :
              /\ Stage(table, workers[w].job) = "unfinished"
              /\ table[workers[w].job].book = jobs[workers[w].job].book
              /\ \A i \in Id \ {workers[w].job} : table[i] = jobs[i]
              /\ \/ Writes(table) /\ jobs' = table /\ Leaves(w) /\ UNCHANGED <<ckpt, used>>
                 \/ /\ used'.errors > 0 /\ disk' \in {disk, Snapshot(table)} /\ jobs' = jobs
                    /\ ckpt' = [ckpt EXCEPT ![workers[w].job] = 0] /\ Goes(w, "failing")
<1> DEFINE j == workers[w].job
<1> DEFINE job == StoppedForPause(jobs[j])
<1> DEFINE table == Update(jobs, j, job)
<1>1. /\ workers[w] \in WorkerState /\ AtWork(w) /\ PauseRequested(j)
      /\ jobs \in Table /\ disk \in Table /\ used \in [Kind -> Nat]
  BY DEF StopForPause, IsAt, AtWork, Typed, TasksTyped, TablesTyped, WorldTyped
<1>2. j \in Id /\ jobs[j] # None
  BY <1>1 DEF WorkerState, PauseRequested
<1>3. \/ Saves(table) /\ jobs' = table /\ Leaves(w) /\ UNCHANGED ckpt
      \/ SaveFails(table) /\ ckpt' = [ckpt EXCEPT ![j] = 0] /\ Goes(w, "failing") /\ UNCHANGED jobs
  BY DEF StopForPause
<1>4. job \in Job /\ job.book = jobs[j].book /\ job.status = "paused" /\ job # None
  <2>1. jobs[j] \in Job
    BY <1>1, <1>2 DEF Table
  <2>2. job \in Job /\ job.book = jobs[j].book /\ job.status = "paused"
    BY <2>1 DEF Job, StoppedForPause
  <2> QED BY <2>2, NoneAssumption
<1> HIDE DEF job, j
<1>5. /\ table \in Table /\ table[j] = job /\ \A i \in Id \ {j} : table[i] = jobs[i]
  BY <1>1, <1>2, <1>4, UpdateIsTyped
<1> HIDE DEF table
<1>6. Stage(table, j) = "unfinished" /\ table[j].book = jobs[j].book
  BY <1>4, <1>5 DEF Stage
<1>7. Running(table) = Running(jobs) \ {j} /\ Idle(table) \subseteq Idle(jobs)
  BY <1>4, <1>5 DEF Running, Idle, Queued, InStatus, Tracked
<1>8. Snapshot(table) \in Table /\ Running(Snapshot(table)) = Running(table)
  BY <1>5, SnapshotKeeps DEF Running
<1>9. j \in Tracked(jobs)
  BY <1>2 DEF Tracked
<1>10. CASE Saves(table) /\ jobs' = table /\ Leaves(w) /\ UNCHANGED ckpt
  <2>1. Writes(table) /\ disk' = Snapshot(table) /\ UNCHANGED used
    BY <1>10, SameIsReflexive DEF Writes, Saves
  <2> QED BY <1>1, <1>5, <1>6, <1>7, <1>8, <1>9, <1>10, <2>1 DEF j
<1>11. CASE SaveFails(table) /\ ckpt' = [ckpt EXCEPT ![j] = 0] /\ Goes(w, "failing") /\ UNCHANGED jobs
  <2>1. used'.errors > 0 /\ disk' \in {disk, Snapshot(table)}
    BY <1>1, <1>11, FailedSaveIsCounted
  <2> QED BY <1>1, <1>5, <1>6, <1>7, <1>8, <1>9, <1>11, <2>1 DEF j
<1> QED BY <1>3, <1>10, <1>11

(* The job of a worker that fell is queued again.                          *)
LEMMA RequeuedTables ==
  ASSUME Typed, NEW w \in Worker, RequeueFallen(w)
  PROVE  /\ IsAt(w, "fallen") /\ workers' = [workers EXCEPT ![w] = None]
         /\ jobs' \in Table /\ disk' \in Table
         /\ Quiet \/ Rewrites
         /\ \A i \in Id : Stage(jobs, i) = "unfinished" => jobs'[i] # None
         /\ Idle(jobs') \subseteq Idle(jobs) /\ Running(jobs') \subseteq Running(jobs)
         /\ Running(disk') \subseteq Running(jobs) \cup Running(disk)
<1> DEFINE j == workers[w].job
<1> DEFINE table == Requeued(jobs, j)
<1>1. /\ IsAt(w, "fallen") /\ workers' = [workers EXCEPT ![w] = None] /\ workers[w] \in WorkerState
      /\ jobs' = PruneFinishedJobs(table)
      /\ IF jobs[j] = None THEN UNCHANGED <<disk, used>> ELSE TriesToSave(table)
      /\ jobs \in Table /\ disk \in Table /\ used \in [Kind -> Nat]
  BY DEF RequeueFallen, IsAt, Typed, TasksTyped, TablesTyped, WorldTyped
<1>2. j \in Id
  BY <1>1 DEF WorkerState
<1>3. jobs[j] = None => table = jobs
  BY DEF Requeued, Active, Queued, InStatus, Tracked
<1> HIDE DEF j
<1>4. /\ table \in Table /\ Same(jobs, table) /\ Idle(table) \subseteq Idle(jobs)
      /\ Running(table) \subseteq Running(jobs)
  BY <1>1, <1>2, RequeuedKeeps DEF Running
<1> HIDE DEF table
<1>5. jobs' \in Table /\ Drops(table, jobs')
  BY <1>1, <1>4, PrunedDrops
<1>6. /\ Trims(table, jobs') /\ SamePlan(table, jobs') /\ Idle(jobs') \subseteq Idle(table)
      /\ Running(jobs') \subseteq Running(table)
  BY <1>4, <1>5, DropsTrims DEF Running
<1>7. \A i \in Id : Stage(jobs, i) = "unfinished" => jobs'[i] # None
  BY <1>4, <1>5, <1>6, StagesTell DEF Same, Trims, Over
<1>8. Snapshot(table) \in Table /\ Running(Snapshot(table)) = Running(table)
  BY <1>4, SnapshotKeeps DEF Running
<1>9. CASE jobs[j] = None
  BY <1>1, <1>3, <1>4, <1>5, <1>6, <1>7, <1>9 DEF Quiet
<1>10. CASE Saves(table)
  <2>1. Rewrites
    BY <1>4, <1>6, <1>10 DEF Rewrites, Writes, Saves
  <2> QED BY <1>1, <1>4, <1>5, <1>6, <1>7, <1>8, <1>10, <2>1 DEF Saves
<1>11. CASE SaveFails(table)
  <2>1. used'.errors > 0 /\ disk' \in {disk, Snapshot(table)}
    BY <1>1, <1>11, FailedSaveIsCounted
  <2>2. Narrows(table, jobs')
    BY <1>4, <1>5, <1>6, TrimsNarrows
  <2>3. Rewrites
    BY <1>4, <2>1, <2>2 DEF Rewrites, Fails
  <2> QED BY <1>1, <1>4, <1>5, <1>6, <1>7, <1>8, <2>1, <2>3
<1> QED BY <1>1, <1>9, <1>10, <1>11 DEF TriesToSave

(* The table an update leaves.                                             *)
LEMMA SavedTables ==
  ASSUME Typed, NEW table, table = SavedForUpdate(jobs), jobs' = table, TriesToSave(table)
  PROVE  /\ jobs' \in Table /\ disk' \in Table /\ Rewrites /\ Same(jobs, jobs')
         /\ Idle(jobs') = {} /\ Running(jobs') = {}
         /\ Running(disk') \subseteq Running(disk)
         /\ \/ disk' = Snapshot(jobs') /\ UNCHANGED used
            \/ used'.errors > 0 /\ SaveFails(jobs')
<1>1. jobs \in Table /\ disk \in Table /\ used \in [Kind -> Nat]
  BY DEF Typed, TablesTyped, WorldTyped
<1>2. /\ jobs' \in Table /\ Same(jobs, jobs') /\ Idle(jobs') = {} /\ Running(jobs') = {}
  BY <1>1, SavedForUpdateKeeps DEF Running
<1>3. Snapshot(jobs') \in Table /\ Running(Snapshot(jobs')) = Running(jobs')
  BY <1>2, SnapshotKeeps DEF Running
<1>4. CASE Saves(jobs')
  BY <1>1, <1>2, <1>3, <1>4, SameIsReflexive DEF Rewrites, Writes, Saves
<1>5. CASE SaveFails(jobs')
  <2>1. used'.errors > 0 /\ disk' \in {disk, Snapshot(jobs')}
    BY <1>1, <1>5, FailedSaveIsCounted
  <2>2. Narrows(jobs', jobs')
    BY <1>2, SameIsReflexive, TrimsNarrows
  <2>3. Rewrites
    BY <1>2, <2>1, <2>2 DEF Rewrites, Fails
  <2> QED BY <1>1, <1>2, <1>3, <1>5, <2>1, <2>3
<1> QED BY <1>4, <1>5 DEF TriesToSave

(* A restart finds what the file holds, all of it to be recovered.         *)
LEMMA RestartedTables ==
  ASSUME Typed, Restart
  PROVE  /\ jobs' \in Table /\ disk' = disk
         /\ Trims(disk, jobs') /\ SamePlan(disk, jobs')
         /\ Idle(jobs') = {} /\ Running(jobs') = {}
<1> DEFINE table == Restored(disk)
<1>1. disk \in Table /\ disk' = disk /\ jobs' \in {table, Pruned(table)}
  BY DEF Typed, TablesTyped, Restart
<1>2. /\ table \in Table /\ Same(disk, table) /\ SamePlan(disk, table)
      /\ Idle(table) = {} /\ Running(table) = {}
  BY <1>1, SavedForUpdateKeeps DEF Restored, Running
<1> HIDE DEF table
<1>3. jobs' \in Table /\ Drops(table, jobs')
  BY <1>1, <1>2, PrunedDrops, SameIsReflexive
<1>4. /\ Trims(table, jobs') /\ SamePlan(table, jobs')
      /\ Idle(jobs') \subseteq Idle(table) /\ Running(jobs') \subseteq Running(table)
  BY <1>2, <1>3, DropsTrims DEF Running
<1>5. Trims(disk, jobs')
  BY <1>1, <1>2, <1>3, <1>4, SameThenTrims
<1>6. SamePlan(disk, jobs')
  BY <1>1, <1>2, <1>3, <1>4, SamePlanIsTransitive
<1> QED BY <1>1, <1>2, <1>3, <1>4, <1>5, <1>6

-----------------------------------------------------------------------------
(* Every step, seen from the workers.                                      *)

Workers == [Worker -> WorkerState \cup {None}]

\* A run is never behind a checkpoint of the same inputs, and has sections of no
\* others.
GoesOn(w) ==
  LET j == workers[w].job
  IN  /\ prints[j] = workers[w].print => ckpt[j] <= workers[w].done
      /\ workers[w].done > 0 => prints[j] = workers[w].print

\* A sleeping worker may be woken.
Wakes(t, u, v) ==
  \/ u[v] = t[v]
  \/ /\ t[v] # None /\ t[v].at = "parked"
     /\ u[v] # None /\ u[v].at = "checking" /\ u[v].job = t[v].job

\* A worker that will still start this job.
IsWaitingFor(w, j) ==
  /\ workers[w] # None /\ workers[w].job = j
  /\ workers[w].at \in {"checking", "parked", "acquiring"}

\* What the one worker that a step is about may do.
Changes(w) ==
  \/ /\ workers'[w] = None
     /\ \A j \in Id : IsWaitingFor(w, j) => signal # 0 \/ j \notin Idle(jobs')
  \/ /\ workers[w] = None /\ workers'[w].at = "checking"
     /\ CanRead \/ \E c \in Caller : calls[c] # None
  \/ /\ workers[w] # None /\ workers'[w] # None /\ workers'[w].job = workers[w].job
     /\ \/ /\ workers[w].at \in {"checking", "acquiring"}
           /\ workers'[w].at \in {"checking", "parked", "acquiring"}
        \/ /\ workers[w].at = "acquiring" /\ workers'[w].at = "starting"
           /\ SlotIsFree /\ workers[w].job \in Running(jobs')
        \/ AtWork(w) /\ workers'[w].at \in {"failing", "publishing"}
        \/ AtWork(w) /\ workers'[w].at = "fallen" /\ used'.panics > 0
        \/ AtWork(w) /\ workers'[w].at = "pausing" /\ GoesOn(w)'
        \/ /\ IsAt(w, "pausing") /\ workers'[w].at = "aligning"
           /\ workers'[w].done = workers[w].done /\ workers'[w].print = workers[w].print
           /\ ckpt' = ckpt /\ prints' = prints

WorkersStep ==
  /\ workers' \in Workers
  /\ \/ \A v \in Worker : Wakes(workers, workers', v)
     \/ \E w \in Worker :
          Changes(w) /\ \A v \in Worker \ {w} : Wakes(workers, workers', v)
     \/ Idle(jobs') = {} /\ \A v \in Worker : workers'[v] = None

(* The wake-up leaves every task what it was.                              *)
LEMMA WokenKeeps ==
  ASSUME NEW tasks \in Workers
  PROVE  /\ Woken(tasks) \in Workers
         /\ \A v \in Worker : Wakes(tasks, Woken(tasks), v)
         /\ \A v \in Worker : tasks[v] = None => Woken(tasks)[v] = None
         /\ \A v \in Worker : tasks[v] # None /\ tasks[v].at # "parked" => Woken(tasks)[v] = tasks[v]
<1> DEFINE Awake(v) == [tasks[v] EXCEPT !.at = "checking"]
<1>1. \A v \in Worker : tasks[v] # None =>
        /\ Awake(v) \in WorkerState /\ Awake(v).at = "checking" /\ Awake(v).job = tasks[v].job
        /\ Awake(v) # None
  BY QueueAssumption DEF Workers, WorkerState
<1>2. \A v \in Worker : Woken(tasks)[v] =
        IF tasks[v] # None /\ tasks[v].at = "parked" THEN Awake(v) ELSE tasks[v]
  BY DEF Woken
<1>3. Woken(tasks) = [v \in Worker |-> Woken(tasks)[v]]
  BY DEF Woken
<1> HIDE DEF Awake
<1>4. Woken(tasks) \in Workers
  <2>1. \A v \in Worker : Woken(tasks)[v] \in WorkerState \cup {None}
    BY <1>1, <1>2 DEF Workers
  <2> HIDE DEF Woken
  <2> QED BY <1>3, <2>1 DEF Workers
<1> QED BY <1>1, <1>2, <1>4 DEF Wakes

(* A task that is spawned first looks whether its job is due.              *)
LEMMA StartedWorkers ==
  ASSUME workers \in Workers, NEW j \in Id, StartWorker(j)
  PROVE  /\ workers' \in Workers
         /\ \E w \in Worker :
              /\ workers[w] = None
              /\ workers'[w] # None /\ workers'[w].at = "checking" /\ workers'[w].job = j
              /\ \A v \in Worker \ {w} : Wakes(workers, workers', v)
<1> DEFINE task == [job |-> j, at |-> "checking", done |-> 0, print |-> 0]
<1> DEFINE w == CHOOSE v \in FreeWorkers : TRUE
<1>1. w \in Worker /\ workers[w] = None
  BY DEF StartWorker, FreeWorkers
<1>2. task \in WorkerState /\ task.at = "checking" /\ task.job = j /\ task # None
  BY QueueAssumption DEF WorkerState
<1>3. workers' = Woken([workers EXCEPT ![w] = task])
  BY DEF StartWorker
<1> HIDE DEF task, w
<1> DEFINE tasks == [workers EXCEPT ![w] = task]
<1>4. /\ tasks \in Workers /\ tasks[w] = task
      /\ \A v \in Worker \ {w} : tasks[v] = workers[v]
  BY <1>1, <1>2 DEF Workers
<1> HIDE DEF tasks
<1>5. workers' = Woken(tasks)
  BY <1>3 DEF tasks
<1>6. /\ workers' \in Workers /\ \A v \in Worker : Wakes(tasks, workers', v)
      /\ workers'[w] = task
  BY <1>1, <1>2, <1>4, <1>5, WokenKeeps
<1>7. \A v \in Worker \ {w} : Wakes(workers, workers', v)
  BY <1>4, <1>6 DEF Wakes
<1> QED BY <1>1, <1>2, <1>6, <1>7

(* A task that ends frees its place and wakes the others.                  *)
LEMMA LeftWorkers ==
  ASSUME workers \in Workers, NEW w \in Worker,
         Leaves(w) \/ workers' = [workers EXCEPT ![w] = None]
  PROVE  /\ workers' \in Workers /\ workers'[w] = None
         /\ \A v \in Worker \ {w} : Wakes(workers, workers', v)
<1> DEFINE tasks == [workers EXCEPT ![w] = None]
<1>1. /\ tasks \in Workers /\ tasks[w] = None
      /\ \A v \in Worker \ {w} : tasks[v] = workers[v]
  BY DEF Workers
<1>2. workers' = Woken(tasks) \/ workers' = tasks
  BY DEF Leaves
<1> HIDE DEF tasks
<1>3. CASE workers' = tasks
  BY <1>1, <1>3 DEF Wakes
<1>4. CASE workers' = Woken(tasks)
  <2>1. /\ workers' \in Workers /\ \A v \in Worker : Wakes(tasks, workers', v)
        /\ workers'[w] = None
    BY <1>1, <1>4, WokenKeeps
  <2> QED BY <1>1, <2>1 DEF Wakes
<1> QED BY <1>2, <1>3, <1>4

(* A task that goes on keeps its job.                                      *)
LEMMA GoneOnWorkers ==
  ASSUME workers \in Workers, NEW w \in Worker, workers[w] # None, NEW task \in WorkerState,
         workers' = [workers EXCEPT ![w] = task]
  PROVE  /\ workers' \in Workers /\ workers'[w] = task /\ workers'[w] # None
         /\ \A v \in Worker \ {w} : workers'[v] = workers[v]
BY QueueAssumption DEF Workers

(* The same for a task of which only the place changes.                    *)
LEMMA GoesWorkers ==
  ASSUME workers \in Workers, NEW w \in Worker, workers[w] # None,
         NEW at \in {"checking", "parked", "acquiring", "starting", "pausing", "aligning",
                     "failing", "publishing", "fallen"},
         Goes(w, at)
  PROVE  /\ workers' \in Workers /\ workers'[w] # None
         /\ workers'[w].job = workers[w].job /\ workers'[w].at = at
         /\ workers'[w].done = workers[w].done /\ workers'[w].print = workers[w].print
         /\ \A v \in Worker \ {w} : workers'[v] = workers[v]
<1> DEFINE task == [workers[w] EXCEPT !.at = at]
<1>1. workers[w] \in WorkerState
  BY DEF Workers
<1>2. /\ task \in WorkerState /\ task.job = workers[w].job /\ task.at = at
      /\ task.done = workers[w].done /\ task.print = workers[w].print
  BY <1>1 DEF WorkerState
<1>3. workers' = [workers EXCEPT ![w] = task]
  BY DEF Goes
<1> HIDE DEF task
<1>4. /\ workers' \in Workers /\ workers'[w] = task /\ workers'[w] # None
      /\ \A v \in Worker \ {w} : workers'[v] = workers[v]
  BY <1>2, <1>3, GoneOnWorkers
<1> QED BY <1>2, <1>4

-----------------------------------------------------------------------------
(* Every step, seen from the table and the file.                           *)

FinishesOne ==
  /\ \E j \in Id : /\ Finishes(j)
                   /\ \/ readable # Book
                      \/ \E w \in Worker : AtWork(w) /\ workers[w].job = j /\ workers'[w] = None
  /\ UNCHANGED <<nextId, accepted, dismissed>>

RemovesOne ==
  /\ \E j \in Id : Removes(j) /\ dismissed' = dismissed \cup {j}
  /\ UNCHANGED <<nextId, accepted, reported>>

BeginsOne ==
  /\ nextId \in Id /\ nextId' = nextId + 1
  /\ disk' = disk /\ CanRead
  /\ \E table \in Table :
       /\ Begins(jobs, table, {nextId})
       /\ SameWork(jobs, table[nextId].book) = {}
       /\ Drops(table, jobs')
  /\ UNCHANGED historyVars

BeginsMany ==
  \E ids \in SUBSET Id : \E table \in Table :
    /\ Begins(jobs, table, ids)
    /\ \A i \in ids : i >= nextId /\ i < nextId'
    /\ nextId' \in Int /\ nextId' >= nextId
    /\ \A i \in ids : SameWork(jobs, table[i].book) = {}
    /\ \A i, k \in ids : table[i].book = table[k].book => i = k
    /\ \E saved \in Table : /\ Drops(table, saved) /\ Trims(table, saved)
         /\ \/ /\ Writes(saved) /\ Trims(table, jobs')
               /\ accepted' = accepted \cup {[job |-> i, wanted |-> {}] : i \in ids}
            \/ /\ Fails(saved) /\ Drops(jobs, jobs')
               /\ UNCHANGED accepted
    /\ UNCHANGED <<dismissed, reported>>

\* A worker stops for a pause, whatever became of its job meanwhile.
Revives ==
  /\ \E w \in Worker :
       /\ AtWork(w) /\ workers[w].job \in Tracked(jobs)
       /\ \E table \in Table :
            /\ Stage(table, workers[w].job) = "unfinished"
            /\ table[workers[w].job].book = jobs[workers[w].job].book
            /\ \A i \in Id \ {workers[w].job} : table[i] = jobs[i]
            /\ \/ Writes(table) /\ jobs' = table
               \/ used'.errors > 0 /\ disk' \in {disk, Snapshot(table)} /\ jobs' = jobs
  /\ UNCHANGED <<nextId, historyVars>>

Restarts ==
  /\ disk' = disk /\ Trims(disk, jobs') /\ SamePlan(disk, jobs')
  /\ \A w \in Worker : workers'[w] = None
  /\ UNCHANGED <<nextId, historyVars>>

\* A request is answered.
Answers ==
  /\ \E table \in Table : Same(jobs, table) /\ Writes(table)
  /\ \E c \in Caller : calls[c] # None /\
       accepted' = accepted \cup {[job |-> calls[c].job, wanted |-> calls[c].wanted]}
  /\ UNCHANGED <<nextId, dismissed, reported, used>>

TableStep ==
  /\ jobs' \in Table /\ disk' \in Table
  /\ \/ (Quiet \/ Rewrites) /\ UNCHANGED <<nextId, historyVars>>
     \/ Answers \/ FinishesOne \/ RemovesOne \/ BeginsOne \/ BeginsMany \/ Revives \/ Restarts

(* An order of some books lists them without repetition.                   *)
LEMMA OrdersList ==
  ASSUME NEW S \in SUBSET Book, NEW s \in Orders(S)
  PROVE  /\ Len(s) \in Nat /\ s \in [1 .. Len(s) -> S]
         /\ \A k, l \in 1 .. Len(s) : s[k] = s[l] => k = l
<1>1. IsFiniteSet(S)
  BY QueueAssumption, FS_Subset
<1>2. Cardinality(S) \in Nat
  BY <1>1, FS_CardinalityType
<1>3. s \in [1 .. Cardinality(S) -> S] /\ IsInjective(s)
  BY DEF Orders
<1> DEFINE n == Cardinality(S)
<1>4. n \in Nat /\ s \in [1 .. n -> S]
  BY <1>2, <1>3
<1> HIDE DEF n
<1>5. s \in Seq(S) /\ Len(s) = n
  BY <1>4
<1> QED BY <1>3, <1>4, <1>5 DEF IsInjective

(* Every step does one of these things to the tables.                     *)
LEMMA TableSteps ==
  ASSUME Typed, FreshInv, Next
  PROVE  TableStep
<1>0. jobs \in Table /\ disk \in Table /\ row \in Rows /\ TablesTyped /\ used \in [Kind -> Nat]
  BY DEF Typed, TablesTyped, WorldTyped
<1>1. CASE \E c \in Caller : \E ask \in row.wanted : EnqueueBegin(c, ask[1], ask[2])
  <2>1. PICK c \in Caller, ask \in row.wanted : EnqueueBegin(c, ask[1], ask[2])
    BY <1>1
  <2>2. ask[1] \in Book /\ ask[2] \in SUBSET Chapter
    BY <1>0, <2>1, QueueAssumption
  <2>3. disk' = disk /\ CanRead /\ UNCHANGED historyVars
    BY <2>1 DEF EnqueueBegin
  <2>4. CASE jobs' = jobs /\ nextId' = nextId
    BY <1>0, <2>3, <2>4, SameIsReflexive DEF TableStep, Quiet
  <2>5. CASE jobs' \in Table /\ BeginsOne
    BY <1>0, <2>3, <2>5 DEF TableStep
  <2> QED BY <2>1, <2>2, <2>3, <2>4, <2>5, BegunTables DEF BeginsOne
<1>2. CASE \E c \in Caller : EnqueueCommit(c)
  <2>1. PICK c \in Caller : EnqueueCommit(c)
    BY <1>2
  <2>2. UNCHANGED <<nextId, dismissed, reported>>
    BY <2>1 DEF EnqueueCommit
  <2>3. jobs' \in Table /\ disk' \in Table /\ calls[c] # None
    BY <2>1, CommittedTables DEF EnqueueCommit
  <2>4. CASE UNCHANGED <<jobs, disk, accepted>>
    BY <1>0, <2>2, <2>3, <2>4, SameIsReflexive DEF TableStep, Quiet, historyVars
  <2>5. CASE /\ \E table \in Table : Same(jobs, table) /\ Writes(table)
             /\ accepted' = accepted \cup {[job |-> calls[c].job, wanted |-> calls[c].wanted]}
             /\ UNCHANGED used
    <3>1. Answers
      BY <2>2, <2>3, <2>5 DEF Answers
    <3> QED BY <2>3, <3>1 DEF TableStep
  <2>6. CASE (\E table \in Table : Same(jobs, table) /\ Fails(table)) /\ UNCHANGED accepted
    <3>1. Rewrites
      BY <2>6 DEF Rewrites
    <3> QED BY <2>2, <2>3, <2>6, <3>1 DEF TableStep, historyVars
  <2> QED BY <2>1, <2>4, <2>5, <2>6, CommittedTables
<1>3. CASE \E c \in Caller : CallerGone(c)
  <2>1. UNCHANGED <<jobs, disk, nextId, historyVars>>
    BY <1>3 DEF CallerGone, tableVars, callVars,
      updateVars, historyVars
  <2> QED BY <1>0, <2>1, SameIsReflexive DEF TableStep, Quiet
<1>4. CASE \E books \in row.batches : \E new \in Orders(WithoutWork(books)) : EnqueueBatch(new)
  <2>0. PICK books \in row.batches : \E new \in Orders(WithoutWork(books)) : EnqueueBatch(new)
    BY <1>4
  <2>1. PICK new \in Orders(WithoutWork(books)) : EnqueueBatch(new)
    BY <2>0
  <2>2. WithoutWork(books) \in SUBSET Book
    BY <1>0, <2>0, QueueAssumption DEF WithoutWork
  <2>3. /\ Len(new) \in Nat /\ new \in [1 .. Len(new) -> WithoutWork(books)]
        /\ \A k, l \in 1 .. Len(new) : new[k] = new[l] => k = l
    BY <2>1, <2>2, OrdersList
  <2>4. new \in [1 .. Len(new) -> Book] /\ \A k \in 1 .. Len(new) : SameWork(jobs, new[k]) = {}
    BY <2>2, <2>3 DEF WithoutWork
  <2>5. UNCHANGED <<dismissed, reported>> /\ nextId \in Int
    BY <2>1 DEF EnqueueBatch, Typed, TablesTyped
  <2>6. PICK ids \in SUBSET Id, table \in Table :
           /\ Begins(jobs, table, ids)
           /\ ids = nextId .. nextId + Len(new) - 1 /\ nextId' = nextId + Len(new)
           /\ \A i \in ids : SameWork(jobs, table[i].book) = {}
           /\ \A i, k \in ids : table[i].book = table[k].book => i = k
           /\ jobs' \in Table /\ disk' \in Table
           /\ \E saved \in Table : /\ Drops(table, saved) /\ Trims(table, saved)
                /\ \/ /\ Writes(saved) /\ Trims(table, jobs')
                      /\ accepted' = accepted \cup {[job |-> i, wanted |-> {}] : i \in ids}
                   \/ Fails(saved) /\ Drops(jobs, jobs') /\ UNCHANGED accepted
    BY <2>1, <2>3, <2>4, BatchedTables
  <2>7. /\ \A i \in ids : i >= nextId /\ i < nextId'
        /\ nextId' \in Int /\ nextId' >= nextId
    BY <2>3, <2>5, <2>6
  <2>8. BeginsMany
    BY <2>5, <2>6, <2>7 DEF BeginsMany
  <2> QED BY <2>6, <2>8 DEF TableStep
<1>5. CASE DispatchNext
  <2> DEFINE entry == Head(batch)
  <2>1. UNCHANGED <<nextId, accepted, dismissed>>
    BY <1>5 DEF DispatchNext
  <2>2. jobs' \in Table /\ disk' \in Table /\ entry.job \in Id /\ entry.book \in Book
    BY <1>5, DispatchedTables DEF Entry
  <2>3. CASE (Quiet) /\ UNCHANGED reported
    <3>1. Quiet \/ Rewrites
      BY <2>3, SameIsReflexive DEF Quiet
    <3> QED BY <2>1, <2>2, <2>3, <3>1 DEF TableStep, historyVars
  <2>4. CASE entry.book \notin readable /\ \E status \in Over : FinishJob(entry.job, status)
    <3>1. PICK status \in Over : FinishJob(entry.job, status)
      BY <2>4
    <3>2. (Quiet /\ reported' = reported) \/ Finishes(entry.job)
      BY <1>0, <2>2, <3>1, FinishedTables
    <3>3. readable # Book
      BY <2>2, <2>4
    <3>4. (Quiet /\ UNCHANGED historyVars) \/ FinishesOne
      BY <2>1, <2>2, <3>2, <3>3 DEF FinishesOne, historyVars
    <3> QED BY <2>1, <2>2, <3>4 DEF TableStep
  <2> QED BY <1>5, <2>3, <2>4, DispatchedTables
<1>6. CASE \E origin \in Origin : StartResume(origin)
  <2>1. UNCHANGED <<jobs, disk, nextId, historyVars>>
    BY <1>6 DEF StartResume, tableVars, callVars,
      updateVars, historyVars
  <2> QED BY <1>0, <2>1, SameIsReflexive DEF TableStep, Quiet
<1>7. CASE \E origin \in Origin : ResumeNext(origin)
  <2>0. PICK origin \in Origin : ResumeNext(origin)
    BY <1>7
  <2> DEFINE entry == Head(resuming[origin])
  <2>1. UNCHANGED <<nextId, accepted, dismissed>>
    BY <2>0 DEF ResumeNext
  <2>2. jobs' \in Table /\ disk' \in Table /\ entry.job \in Id /\ entry.book \in Book
    BY <2>0, RecoveredTables DEF Entry
  <2>3. CASE (UNCHANGED <<jobs, disk>> \/ Rewrites) /\ UNCHANGED reported
    <3>1. Quiet \/ Rewrites
      BY <2>3, SameIsReflexive DEF Quiet
    <3> QED BY <2>1, <2>2, <2>3, <3>1 DEF TableStep, historyVars
  <2>4. CASE entry.book \notin readable /\ \E status \in Over : FinishJob(entry.job, status)
    <3>1. PICK status \in Over : FinishJob(entry.job, status)
      BY <2>4
    <3>2. (Quiet /\ reported' = reported) \/ Finishes(entry.job)
      BY <1>0, <2>2, <3>1, FinishedTables
    <3>3. readable # Book
      BY <2>2, <2>4
    <3>4. (Quiet /\ UNCHANGED historyVars) \/ FinishesOne
      BY <2>1, <2>2, <3>2, <3>3 DEF FinishesOne, historyVars
    <3> QED BY <2>1, <2>2, <3>4 DEF TableStep
  <2> QED BY <2>0, <2>3, <2>4, RecoveredTables
<1>8. CASE \E j \in Id : \E up \in BOOLEAN : Move(j, up)
  <2>1. PICK j \in Id, up \in BOOLEAN : Move(j, up)
    BY <1>8
  <2>2. UNCHANGED <<nextId, historyVars>>
    BY <2>1 DEF Move
  <2>3. jobs' \in Table /\ disk' \in Table /\ (Quiet \/ Rewrites)
    BY <2>1, MovedTables
  <2> QED BY <2>2, <2>3 DEF TableStep
<1>9. CASE \E j \in Id : Pause(j)
  <2>1. PICK j \in Id : Pause(j)
    BY <1>9
  <2>2. UNCHANGED <<nextId, historyVars>>
    BY <2>1 DEF Pause
  <2>3. jobs' \in Table /\ disk' \in Table /\ (Quiet \/ Rewrites)
    BY <2>1, PausedTables
  <2> QED BY <2>2, <2>3 DEF TableStep
<1>10. CASE \E j \in Id : Resume(j)
  <2>1. PICK j \in Id : Resume(j)
    BY <1>10
  <2>2. UNCHANGED <<nextId, historyVars>>
    BY <2>1 DEF Resume
  <2>3. jobs' \in Table /\ disk' \in Table /\ (Quiet \/ Rewrites)
    BY <2>1, ResumedTables
  <2> QED BY <2>2, <2>3 DEF TableStep
<1>11. CASE \E j \in Id : RemoveJob(j)
  <2>1. PICK j \in Id : RemoveJob(j)
    BY <1>11
  <2>2. UNCHANGED <<nextId, accepted, reported>>
    BY <2>1 DEF RemoveJob
  <2>3. jobs' \in Table /\ disk' \in Table /\ Removes(j) /\ dismissed' = dismissed \cup {j}
    BY <2>1, RemovedTables
  <2>4. RemovesOne
    BY <2>2, <2>3 DEF RemovesOne
  <2> QED BY <2>3, <2>4 DEF TableStep
<1>12. CASE \E w \in Worker : Claim(w)
  <2>1. PICK w \in Worker : Claim(w)
    BY <1>12
  <2>2. UNCHANGED <<nextId, historyVars, disk>>
    BY <2>1 DEF Claim
  <2>3. jobs' \in Table /\ Quiet
    BY <2>1, ClaimedTables
  <2> QED BY <1>0, <2>2, <2>3 DEF TableStep
<1>13. CASE \E w \in Worker : StopForPause(w)
  <2>1. PICK w \in Worker : StopForPause(w)
    BY <1>13
  <2>2. UNCHANGED <<nextId, historyVars>>
    BY <2>1 DEF StopForPause
  <2>3. Revives
    BY <2>1, <2>2, StoppedTables DEF Revives
  <2>4. jobs' \in Table /\ disk' \in Table
    BY <2>1, StoppedTables
  <2> QED BY <2>3, <2>4 DEF TableStep
<1>14. CASE \E w \in Worker : Report(w)
  <2>1. PICK w \in Worker : Report(w)
    BY <1>14
  <2>2. UNCHANGED <<nextId, accepted, dismissed>>
    BY <2>1 DEF Report
  <2>3. AtWork(w) /\ \E status \in Over : FinishJob(workers[w].job, status)
    BY <2>1 DEF Report, IsAt, AtWork, Over
  <2>4. workers[w].job \in Id
    BY <2>3 DEF AtWork, Typed, TasksTyped, WorkerState
  <2>5. /\ jobs' \in Table /\ disk' \in Table
        /\ (Quiet /\ reported' = reported) \/ Finishes(workers[w].job)
    BY <1>0, <2>3, <2>4, FinishedTables
  <2>6. workers'[w] = None
    <3>1. Leaves(w)
      BY <2>1 DEF Report
    <3> QED BY <3>1, LeftWorkers DEF Typed, TasksTyped, Workers
  <2>7. (Quiet /\ UNCHANGED historyVars) \/ FinishesOne
    BY <2>2, <2>3, <2>4, <2>5, <2>6 DEF FinishesOne, historyVars
  <2> QED BY <2>2, <2>5, <2>7 DEF TableStep
<1>15. CASE \E w \in Worker : RequeueFallen(w)
  <2>1. PICK w \in Worker : RequeueFallen(w)
    BY <1>15
  <2>2. UNCHANGED <<nextId, historyVars>>
    BY <2>1 DEF RequeueFallen
  <2>3. jobs' \in Table /\ disk' \in Table /\ (Quiet \/ Rewrites)
    BY <2>1, RequeuedTables
  <2> QED BY <2>2, <2>3 DEF TableStep
<1>16. CASE \E w \in Worker : Check(w) \/ ReadCheckpoint(w) \/ ContinueRun(w) \/ AlignSection(w)
               \/ PublishMap(w) \/ StopForUpdate(w) \/ FailRun(w) \/ Panic(w)
  <2>1. UNCHANGED <<jobs, disk, nextId, historyVars>>
    BY <1>16 DEF Check, ReadCheckpoint, ReadsCheckpoint, ContinueRun, AlignSection, PublishMap,
      StopForUpdate, FailRun, Panic, tableVars, callVars,
      updateVars, historyVars
  <2> QED BY <1>0, <2>1, SameIsReflexive DEF TableStep, Quiet
<1>17. CASE \E t \in Token : HoldForUpdate(t)
  <2>1. PICK t \in Token : HoldForUpdate(t)
    BY <1>17
  <2>2. UNCHANGED <<nextId, historyVars>>
    BY <2>1 DEF HoldForUpdate
  <2>3. jobs' = SavedForUpdate(jobs) /\ TriesToSave(SavedForUpdate(jobs))
    BY <2>1 DEF HoldForUpdate, TriesToSave
  <2>4. jobs' \in Table /\ disk' \in Table /\ Rewrites
    BY <2>3, SavedTables
  <2> QED BY <2>2, <2>4 DEF TableStep
<1>18. CASE \E t \in Token : UndoUpdate(t)
  <2>1. PICK t \in Token : UndoUpdate(t)
    BY <1>18
  <2>2. UNCHANGED <<nextId, historyVars>>
    BY <2>1 DEF UndoUpdate
  <2>3. jobs' = SavedForUpdate(jobs) /\ TriesToSave(SavedForUpdate(jobs))
    BY <2>1 DEF UndoUpdate, TriesToSave
  <2>4. jobs' \in Table /\ disk' \in Table /\ Rewrites
    BY <2>3, SavedTables
  <2> QED BY <2>2, <2>4 DEF TableStep
<1>19. CASE \E t \in Token : BeginUpdate(t) \/ KeepUpdate(t) \/ AbandonUpdate(t)
  <2>1. UNCHANGED <<jobs, disk, nextId, historyVars>>
    BY <1>19 DEF BeginUpdate, KeepUpdate, AbandonUpdate, tableVars, callVars,
      updateVars, historyVars
  <2> QED BY <1>0, <2>1, SameIsReflexive DEF TableStep, Quiet
<1>20. CASE (\E book \in Book : Rescan(book)) \/ \E j \in Id : InputsChange(j)
  <2>1. UNCHANGED <<jobs, disk, nextId, historyVars>>
    BY <1>20 DEF Rescan, InputsChange, tableVars, callVars,
      updateVars, historyVars
  <2> QED BY <1>0, <2>1, SameIsReflexive DEF TableStep, Quiet
<1>21. CASE Crash \/ Handoff
  <2>1. Restart
    BY <1>21 DEF Crash, Handoff
  <2>2. UNCHANGED <<nextId, historyVars>>
    BY <2>1 DEF Restart
  <2>3. \A w \in Worker : workers'[w] = None
    BY <2>1 DEF Restart
  <2>4. Restarts /\ jobs' \in Table
    BY <2>1, <2>2, <2>3, RestartedTables DEF Restarts
  <2> QED BY <1>0, <2>4 DEF TableStep, Restarts
<1> QED
  BY <1>1, <1>2, <1>3, <1>4, <1>5, <1>6, <1>7, <1>8, <1>9, <1>10, <1>11, <1>12, <1>13, <1>14,
     <1>15, <1>16, <1>17, <1>18, <1>19, <1>20, <1>21 DEF Next, QueueStep, WorkerStep

(* Every step moves at most one worker of its own, and wakes others.       *)
LEMMA WorkersSteps ==
  ASSUME Typed, Next
  PROVE  WorkersStep
<1>0. /\ workers \in Workers /\ jobs \in Table /\ row \in Rows /\ ckpt \in [Id -> Nat]
      /\ inputs \in [Id -> Nat] /\ prints \in [Id -> Nat] /\ \A j \in Id : ckpt[j] <= row.sections
  BY DEF Typed, TasksTyped, TablesTyped, WorldTyped, FilesTyped, Workers
<1>a. ASSUME workers' = workers PROVE WorkersStep
  BY <1>0, <1>a DEF WorkersStep, Wakes
<1>b. ASSUME workers' = Woken(workers) PROVE WorkersStep
  BY <1>0, <1>b, WokenKeeps DEF WorkersStep
<1>c. ASSUME NEW w \in Worker, workers' \in Workers, Changes(w),
             \A v \in Worker \ {w} : Wakes(workers, workers', v)
      PROVE  WorkersStep
  BY <1>c DEF WorkersStep
<1>d. ASSUME NEW j \in Id, StartWorker(j), CanRead \/ \E c \in Caller : calls[c] # None
      PROVE  WorkersStep
  <2>1. PICK w \in Worker :
              /\ workers[w] = None
              /\ workers'[w] # None /\ workers'[w].at = "checking" /\ workers'[w].job = j
              /\ \A v \in Worker \ {w} : Wakes(workers, workers', v)
    BY <1>0, <1>d, StartedWorkers
  <2>2. Changes(w)
    BY <1>d, <2>1 DEF Changes
  <2>3. workers' \in Workers
    BY <1>0, <1>d, StartedWorkers
  <2> QED BY <1>c, <2>1, <2>2, <2>3
<1>e. ASSUME NEW w \in Worker, Leaves(w) \/ workers' = [workers EXCEPT ![w] = None],
             \A j \in Id : IsWaitingFor(w, j) => signal # 0 \/ j \notin Idle(jobs')
      PROVE  WorkersStep
  <2>1. /\ workers' \in Workers /\ workers'[w] = None
        /\ \A v \in Worker \ {w} : Wakes(workers, workers', v)
    BY <1>0, <1>e, LeftWorkers
  <2> QED BY <1>c, <1>e, <2>1 DEF Changes
<1>f. ASSUME NEW w \in Worker, workers[w] # None, NEW task \in WorkerState,
             workers' = [workers EXCEPT ![w] = task],
             workers'[w] = task => Changes(w)
      PROVE  WorkersStep
  <2>1. /\ workers' \in Workers /\ workers'[w] = task
        /\ \A v \in Worker \ {w} : workers'[v] = workers[v]
    BY <1>0, <1>f, GoneOnWorkers
  <2>2. \A v \in Worker \ {w} : Wakes(workers, workers', v)
    BY <2>1 DEF Wakes
  <2> QED BY <1>c, <1>f, <2>1, <2>2
<1>g. ASSUME NEW w \in Worker, workers[w] # None,
             NEW at \in {"checking", "parked", "acquiring", "starting", "pausing", "aligning",
                     "failing", "publishing", "fallen"},
             Goes(w, at),
             workers'[w] # None /\ workers'[w].job = workers[w].job /\ workers'[w].at = at
               /\ workers'[w].done = workers[w].done /\ workers'[w].print = workers[w].print
             => Changes(w)
      PROVE  WorkersStep
  <2>1. /\ workers' \in Workers /\ workers'[w].job = workers[w].job /\ workers'[w].at = at
        /\ workers'[w] # None
        /\ workers'[w].done = workers[w].done /\ workers'[w].print = workers[w].print
        /\ \A v \in Worker \ {w} : workers'[v] = workers[v]
    BY <1>0, <1>g, GoesWorkers
  <2>2. \A v \in Worker \ {w} : Wakes(workers, workers', v)
    BY <2>1 DEF Wakes
  <2> QED BY <1>c, <1>g, <2>1, <2>2
<1>1. CASE \E c \in Caller : EnqueueCommit(c)
  <2>1. PICK c \in Caller : EnqueueCommit(c)
    BY <1>1
  <2>2. calls[c] # None /\ calls[c] \in Call
    BY <2>1, CommittedTables DEF EnqueueCommit
  <2>3. calls[c].job \in Id
    BY <2>2 DEF Call
  <2>4. workers' = workers \/ StartWorker(calls[c].job)
    BY <2>1, CommittedTables
  <2> QED BY <1>a, <1>d, <2>2, <2>3, <2>4
<1>2. CASE DispatchNext
  <2>1. workers' = workers \/ (CanRead /\ StartWorker(Head(batch).job))
    BY <1>2, DispatchedTables
  <2>2. Head(batch).job \in Id
    BY <1>2, DispatchedTables DEF Entry
  <2> QED BY <1>a, <1>d, <2>1, <2>2
<1>3. CASE \E origin \in Origin : ResumeNext(origin)
  <2>1. PICK origin \in Origin : ResumeNext(origin)
    BY <1>3
  <2>2. workers' = workers \/ (CanRead /\ StartWorker(Head(resuming[origin]).job))
    BY <2>1, RecoveredTables
  <2>3. Head(resuming[origin]).job \in Id
    BY <2>1, RecoveredTables DEF Entry
  <2> QED BY <1>a, <1>d, <2>2, <2>3
<1>4. CASE \E j \in Id : \E up \in BOOLEAN : Move(j, up)
  <2>1. workers' = workers \/ workers' = Woken(workers)
    BY <1>4 DEF Move, Control
  <2> QED BY <1>a, <1>b, <2>1
<1>5. CASE \E j \in Id : Pause(j)
  <2>1. workers' = workers \/ workers' = Woken(workers)
    BY <1>5 DEF Pause, Control
  <2> QED BY <1>a, <1>b, <2>1
<1>6. CASE \E j \in Id : Resume(j)
  <2>1. workers' = workers \/ workers' = Woken(workers)
    BY <1>6 DEF Resume, Control
  <2> QED BY <1>a, <1>b, <2>1
<1>7. CASE \E j \in Id : RemoveJob(j)
  <2>1. workers' = workers \/ workers' = Woken(workers)
    BY <1>7 DEF RemoveJob, Control
  <2> QED BY <1>a, <1>b, <2>1
<1>8. CASE \E w \in Worker : Check(w)
  <2>1. PICK w \in Worker : Check(w)
    BY <1>8
  <2>2. workers[w] # None /\ workers[w].at = "checking"
    BY <2>1 DEF Check, IsAt
  <2>4. ASSUME NEW at \in {"acquiring", "parked"}, Goes(w, at)
        PROVE  WorkersStep
    <3>1. workers'[w] # None /\ workers'[w].job = workers[w].job /\ workers'[w].at = at => Changes(w)
      BY <2>2 DEF Changes
    <3> QED BY <1>g, <2>2, <2>4, <3>1
  <2>5. CASE workers' = [workers EXCEPT ![w] = None] /\ workers[w].job \notin Queued(jobs)
    <3>1. \A j \in Id : IsWaitingFor(w, j) => j \notin Idle(jobs')
      BY <2>1, <2>5 DEF Check, tableVars, IsWaitingFor, Idle
    <3> QED BY <1>e, <2>5, <3>1
  <2>6. \/ workers' = [workers EXCEPT ![w] = None] /\ workers[w].job \notin Queued(jobs)
        \/ Goes(w, "acquiring") \/ Goes(w, "parked")
    BY <2>1 DEF Check
  <2> QED BY <2>4, <2>5, <2>6
<1>9. CASE \E w \in Worker : Claim(w)
  <2>1. PICK w \in Worker : Claim(w)
    BY <1>9
  <2>2. workers[w] # None /\ workers[w].at = "acquiring" /\ SlotIsFree
    BY <2>1 DEF Claim, IsAt
  <2>3. \/ Goes(w, "starting") /\ workers[w].job \in Running(jobs')
        \/ Goes(w, "checking")
    BY <2>1, ClaimedTables
  <2>4. ASSUME NEW at \in {"starting", "checking"}, Goes(w, at),
               at = "starting" => workers[w].job \in Running(jobs')
        PROVE  WorkersStep
    <3>1. workers'[w] # None /\ workers'[w].job = workers[w].job /\ workers'[w].at = at => Changes(w)
      BY <2>2, <2>4 DEF Changes
    <3> QED BY <1>g, <2>2, <2>4, <3>1
  <2> QED BY <2>3, <2>4
<1>10. CASE \E w \in Worker : ReadCheckpoint(w)
  <2>1. PICK w \in Worker : ReadCheckpoint(w)
    BY <1>10
  <2>2. /\ workers[w] \in WorkerState /\ workers[w] # None /\ AtWork(w)
        /\ ckpt' = ckpt /\ prints' = prints
    BY <1>0, <2>1 DEF ReadCheckpoint, ReadsCheckpoint, IsAt, AtWork, Workers, tableVars, fileVars
  <2>3. PICK j \in Id : j = workers[w].job
    BY <2>2 DEF WorkerState
  <2>4. PICK done \in Nat : done = IF prints[j] = inputs[j] /\ ckpt[j] <= row.sections
                                 THEN ckpt[j] ELSE 0
    BY <1>0
  <2> DEFINE task == [workers[w] EXCEPT !.done = done, !.print = inputs[j], !.at = "pausing"]
  <2>5. workers' = [workers EXCEPT ![w] = task]
    BY <2>1, <2>3, <2>4 DEF ReadCheckpoint, ReadsCheckpoint
  <2>6. /\ task \in WorkerState /\ task # None /\ task.job = j /\ task.at = "pausing"
        /\ task.done = done /\ task.print = inputs[j]
    BY <1>0, <2>2, <2>3, <2>4, QueueAssumption DEF WorkerState
  <2> HIDE DEF task
  <2>7. ASSUME workers'[w] = task PROVE Changes(w)
    <3>1. prints[j] = inputs[j] => done = ckpt[j]
      BY <1>0, <2>4
    <3>2. prints[j] = task.print => ckpt[j] <= task.done
      BY <1>0, <2>6, <3>1
    <3>3. task.done > 0 => prints[j] = task.print
      BY <2>4, <2>6
    <3>4. GoesOn(w)'
      BY <2>2, <2>6, <2>7, <3>2, <3>3 DEF GoesOn
    <3> QED BY <2>2, <2>3, <2>6, <2>7, <3>4 DEF Changes
  <2> QED BY <1>f, <2>2, <2>5, <2>6, <2>7
<1>11. CASE \E w \in Worker : ContinueRun(w)
  <2>1. PICK w \in Worker : ContinueRun(w)
    BY <1>11
  <2>2. /\ workers[w] # None /\ IsAt(w, "pausing") /\ ckpt' = ckpt /\ prints' = prints
        /\ Goes(w, "aligning")
    BY <2>1 DEF ContinueRun, IsAt, tableVars, fileVars
  <2>3. workers'[w] # None /\ workers'[w].job = workers[w].job /\ workers'[w].at = "aligning"
          /\ workers'[w].done = workers[w].done /\ workers'[w].print = workers[w].print
        => Changes(w)
    BY <2>2 DEF Changes
  <2> QED BY <1>g, <2>2, <2>3
<1>12. CASE \E w \in Worker : StopForPause(w)
  <2>1. PICK w \in Worker : StopForPause(w)
    BY <1>12
  <2>2. AtWork(w) /\ workers[w] # None
    BY <2>1, StoppedTables DEF AtWork
  <2>3. Leaves(w) \/ Goes(w, "failing")
    BY <2>1, StoppedTables
  <2>4. workers'[w] # None /\ workers'[w].job = workers[w].job /\ workers'[w].at = "failing" => Changes(w)
    BY <2>2 DEF Changes
  <2>5. \A j \in Id : ~IsWaitingFor(w, j)
    BY <2>2 DEF IsWaitingFor, AtWork
  <2> QED BY <1>e, <1>g, <2>2, <2>3, <2>4, <2>5
<1>13. CASE \E w \in Worker : AlignSection(w)
  <2>1. PICK w \in Worker : AlignSection(w)
    BY <1>13
  <2> DEFINE done == workers[w].done + 1
  <2> DEFINE task == [workers[w] EXCEPT !.done = done, !.at = "pausing"]
  <2>2. /\ workers[w] \in WorkerState /\ workers[w] # None /\ AtWork(w)
        /\ ckpt' = [ckpt EXCEPT ![workers[w].job] = done]
        /\ prints' = [prints EXCEPT ![workers[w].job] = workers[w].print]
        /\ workers' = [workers EXCEPT ![w] = task]
    BY <1>0, <2>1 DEF AlignSection, IsAt, AtWork, Workers
  <2>a. done \in Nat
    BY <2>2 DEF WorkerState
  <2> HIDE DEF done
  <2>3. /\ task \in WorkerState /\ task # None /\ task.job = workers[w].job /\ task.at = "pausing"
        /\ task.done = done /\ task.print = workers[w].print /\ workers[w].job \in Id
    BY <2>2, <2>a, QueueAssumption DEF WorkerState
  <2> HIDE DEF task
  <2>4. ckpt'[workers[w].job] = done /\ prints'[workers[w].job] = workers[w].print
    BY <1>0, <2>2, <2>3
  <2>5. ASSUME workers'[w] = task PROVE Changes(w)
    <3>1. GoesOn(w)'
      BY <2>a, <2>3, <2>4, <2>5 DEF GoesOn
    <3> QED BY <2>2, <2>3, <2>5, <3>1 DEF Changes
  <2> QED BY <1>f, <2>2, <2>3, <2>5
<1>14. CASE \E w \in Worker : PublishMap(w)
  <2>1. PICK w \in Worker : PublishMap(w)
    BY <1>14
  <2>2. workers[w] # None /\ AtWork(w) /\ Goes(w, "publishing")
    BY <2>1 DEF PublishMap, IsAt, AtWork
  <2>3. workers'[w] # None /\ workers'[w].job = workers[w].job /\ workers'[w].at = "publishing" => Changes(w)
    BY <2>2 DEF Changes
  <2> QED BY <1>g, <2>2, <2>3
<1>15. CASE \E w \in Worker : FailRun(w)
  <2>1. PICK w \in Worker : FailRun(w)
    BY <1>15
  <2>2. workers[w] # None /\ AtWork(w) /\ Goes(w, "failing")
    BY <2>1 DEF FailRun, IsAt, AtWork
  <2>3. workers'[w] # None /\ workers'[w].job = workers[w].job /\ workers'[w].at = "failing" => Changes(w)
    BY <2>2 DEF Changes
  <2> QED BY <1>g, <2>2, <2>3
<1>16. CASE \E w \in Worker : Report(w) \/ RequeueFallen(w) \/ StopForUpdate(w)
  <2>1. PICK w \in Worker : Report(w) \/ RequeueFallen(w) \/ StopForUpdate(w)
    BY <1>16
  <2>2. Leaves(w) \/ workers' = [workers EXCEPT ![w] = None]
    BY <2>1 DEF Report, RequeueFallen, StopForUpdate
  <2>3. signal # 0 \/ IsAt(w, "failing") \/ IsAt(w, "publishing") \/ IsAt(w, "fallen")
    BY <2>1 DEF Report, RequeueFallen, StopForUpdate
  <2>4. \A j \in Id : IsWaitingFor(w, j) => signal # 0
    BY <2>3 DEF IsWaitingFor, IsAt
  <2> QED BY <1>e, <2>2, <2>4
<1>17. CASE \E w \in Worker : Panic(w)
  <2>1. PICK w \in Worker : Panic(w)
    BY <1>17
  <2> DEFINE task == [workers[w] EXCEPT !.at = "fallen"]
  <2> DEFINE tasks == [workers EXCEPT ![w] = task]
  <2>2. workers[w] \in WorkerState /\ AtWork(w) /\ workers' = Woken(tasks) /\ workers[w] # None
    BY <1>0, <2>1 DEF Panic, AtWork, Workers
  <2>3. task \in WorkerState /\ task # None /\ task.job = workers[w].job /\ task.at = "fallen" /\ task # None
    BY <2>2, QueueAssumption DEF WorkerState
  <2> HIDE DEF task
  <2>4. /\ tasks \in Workers /\ tasks[w] = task
        /\ \A v \in Worker \ {w} : tasks[v] = workers[v]
    BY <1>0, <2>3 DEF Workers
  <2> HIDE DEF tasks
  <2>5. /\ workers' \in Workers /\ workers'[w] = task
        /\ \A v \in Worker : Wakes(tasks, workers', v)
    BY <2>2, <2>3, <2>4, WokenKeeps
  <2>a. used'.panics > 0
    BY <2>1 DEF Panic, Spend, Kind, Typed, WorldTyped
  <2>6. Changes(w)
    BY <2>2, <2>3, <2>5, <2>a DEF Changes
  <2>7. \A v \in Worker \ {w} : Wakes(workers, workers', v)
    BY <2>4, <2>5 DEF Wakes
  <2> QED BY <1>c, <2>5, <2>6, <2>7
<1>18. CASE Crash \/ Handoff
  <2>1. workers' = [w \in Worker |-> None] /\ Idle(jobs') = {}
    BY <1>18, RestartedTables DEF Crash, Handoff, Restart
  <2> QED BY <2>1 DEF WorkersStep, Workers
<1>19. CASE \E c \in Caller : (\E ask \in row.wanted : EnqueueBegin(c, ask[1], ask[2])) \/ CallerGone(c)
  <2>1. workers' = workers
    BY <1>19 DEF EnqueueBegin, CallerGone
  <2> QED BY <1>a, <2>1
<1>20. CASE \E t \in Token : \/ BeginUpdate(t) \/ HoldForUpdate(t) \/ KeepUpdate(t)
                             \/ AbandonUpdate(t) \/ UndoUpdate(t)
  <2>1. workers' = workers
    BY <1>20 DEF BeginUpdate, HoldForUpdate, KeepUpdate, AbandonUpdate, UndoUpdate
  <2> QED BY <1>a, <2>1
<1>21. CASE \E w \in Worker : WorkerStep(w) \/ FailRun(w) \/ Panic(w)
  BY <1>8, <1>9, <1>10, <1>11, <1>12, <1>13, <1>14, <1>15, <1>16, <1>17, <1>21 DEF WorkerStep
<1>22. CASE \E j \in Id : (\E up \in BOOLEAN : Move(j, up)) \/ Pause(j) \/ Resume(j) \/ RemoveJob(j)
  BY <1>4, <1>5, <1>6, <1>7, <1>22
<1>23. CASE \E c \in Caller : \/ \E ask \in row.wanted : EnqueueBegin(c, ask[1], ask[2])
                              \/ EnqueueCommit(c) \/ CallerGone(c)
  BY <1>1, <1>19, <1>23
<1>24. CASE \E books \in row.batches : \E new \in Orders(WithoutWork(books)) : EnqueueBatch(new)
  <2>1. workers' = workers
    BY <1>24 DEF EnqueueBatch
  <2> QED BY <1>a, <2>1
<1>25. CASE \E origin \in Origin : StartResume(origin) \/ ResumeNext(origin)
  <2>1. CASE \E origin \in Origin : StartResume(origin)
    <3>1. workers' = workers
      BY <2>1 DEF StartResume
    <3> QED BY <1>a, <3>1
  <2> QED BY <1>3, <1>25, <2>1
<1>26. CASE (\E book \in Book : Rescan(book)) \/ \E j \in Id : InputsChange(j)
  <2>1. workers' = workers
    BY <1>26 DEF Rescan, InputsChange
  <2> QED BY <1>a, <2>1
<1> QED
  BY <1>2, <1>18, <1>20, <1>21, <1>22, <1>23, <1>24, <1>25, <1>26 DEF Next, QueueStep

-----------------------------------------------------------------------------
(* What each other variable may become.                                    *)

CkptStep ==
  \/ ckpt' = ckpt /\ prints' = prints
  \/ \E j \in Id :
       /\ ckpt' = [ckpt EXCEPT ![j] = 0] /\ prints' = prints
       /\ \/ jobs'[j] = None
          \/ \E w \in Worker : /\ AtWork(w) /\ workers[w].job = j
                               /\ workers'[w] # None /\ workers'[w].job = j
                               /\ workers'[w].at \in {"failing", "publishing"}
  \/ \E w \in Worker :
       /\ IsAt(w, "aligning") /\ workers[w].done + 1 <= row.sections
       /\ ckpt' = [ckpt EXCEPT ![workers[w].job] = workers[w].done + 1]
       /\ prints' = [prints EXCEPT ![workers[w].job] = workers[w].print]
       /\ workers'[w].at = "pausing"

(* Checkpoints are written by a run that aligns, and go with the job or    *)
(* with the run.                                                           *)
LEMMA CkptSteps ==
  ASSUME Typed, Next
  PROVE  CkptStep
<1>0. workers \in Workers /\ ckpt \in [Id -> Nat]
  BY DEF Typed, TasksTyped, TablesTyped, Workers
<1>1. CASE \E j \in Id : RemoveJob(j)
  <2>1. PICK j \in Id : RemoveJob(j)
    BY <1>1
  <2>2. /\ prints' = prints
        /\ ckpt' = ckpt \/ (ckpt' = [ckpt EXCEPT ![j] = 0] /\ jobs'[j] = None)
    BY <2>1, RemovedTables DEF RemoveJob, fileVars
  <2> QED BY <2>2 DEF CkptStep
<1>2. CASE \E w \in Worker : StopForPause(w) \/ FailRun(w) \/ PublishMap(w)
  <2>1. PICK w \in Worker : StopForPause(w) \/ FailRun(w) \/ PublishMap(w)
    BY <1>2
  <2>2. AtWork(w) /\ workers[w] # None /\ workers[w] \in WorkerState
    BY <1>0, <2>1, StoppedTables DEF FailRun, PublishMap, AtWork, IsAt, Workers
  <2>a. prints' = prints
    BY <2>1 DEF StopForPause, FailRun, PublishMap, fileVars
  <2>3. \/ ckpt' = ckpt
        \/ /\ ckpt' = [ckpt EXCEPT ![workers[w].job] = 0]
           /\ Goes(w, "failing") \/ Goes(w, "publishing")
    BY <2>1, StoppedTables DEF FailRun, PublishMap
  <2>4. ASSUME NEW at \in {"failing", "publishing"}, Goes(w, at)
        PROVE  workers'[w] # None /\ workers'[w].job = workers[w].job /\ workers'[w].at = at
    BY <1>0, <2>2, <2>4, GoesWorkers
  <2>5. workers[w].job \in Id
    BY <2>2 DEF WorkerState
  <2> QED BY <2>2, <2>3, <2>4, <2>5, <2>a DEF CkptStep
<1>3. CASE \E w \in Worker : AlignSection(w)
  <2>1. PICK w \in Worker : AlignSection(w)
    BY <1>3
  <2> DEFINE task == [workers[w] EXCEPT !.done = workers[w].done + 1, !.at = "pausing"]
  <2>2. /\ IsAt(w, "aligning") /\ workers[w].done + 1 <= row.sections
        /\ ckpt' = [ckpt EXCEPT ![workers[w].job] = workers[w].done + 1]
        /\ prints' = [prints EXCEPT ![workers[w].job] = workers[w].print]
        /\ workers' = [workers EXCEPT ![w] = task]
    BY <2>1 DEF AlignSection
  <2>3. task.at = "pausing"
    BY <1>0, <2>2 DEF IsAt, Workers, WorkerState
  <2> HIDE DEF task
  <2>4. workers'[w].at = "pausing"
    BY <1>0, <2>2, <2>3 DEF Workers
  <2> QED BY <2>2, <2>4 DEF CkptStep
<1>4. CASE \E w \in Worker : \/ Check(w) \/ Claim(w) \/ ReadCheckpoint(w) \/ ContinueRun(w)
                             \/ Report(w) \/ RequeueFallen(w) \/ StopForUpdate(w) \/ Panic(w)
  BY <1>4 DEF CkptStep, Check, Claim, ReadCheckpoint, ReadsCheckpoint, ContinueRun, Report, RequeueFallen,
     StopForUpdate, Panic, tableVars, fileVars
<1>5. CASE \E j \in Id : (\E up \in BOOLEAN : Move(j, up)) \/ Pause(j) \/ Resume(j)
  BY <1>5 DEF CkptStep, Move, Pause, Resume, fileVars
<1>6. CASE \/ \E c \in Caller : \/ \E ask \in row.wanted : EnqueueBegin(c, ask[1], ask[2])
                                \/ EnqueueCommit(c) \/ CallerGone(c)
           \/ \E books \in row.batches : \E new \in Orders(WithoutWork(books)) : EnqueueBatch(new)
           \/ DispatchNext
           \/ \E origin \in Origin : StartResume(origin) \/ ResumeNext(origin)
  BY <1>6 DEF CkptStep, EnqueueBegin, EnqueueCommit, CallerGone, EnqueueBatch, DispatchNext,
     StartResume, ResumeNext, tableVars, fileVars
<1>7. CASE \/ \E t \in Token : \/ BeginUpdate(t) \/ HoldForUpdate(t) \/ KeepUpdate(t)
                               \/ AbandonUpdate(t) \/ UndoUpdate(t)
           \/ \E book \in Book : Rescan(book)
           \/ \E j \in Id : InputsChange(j)
           \/ Crash \/ Handoff
  BY <1>7 DEF CkptStep, BeginUpdate, HoldForUpdate, KeepUpdate, AbandonUpdate, UndoUpdate,
     Rescan, InputsChange, Crash, Handoff, Restart, tableVars, fileVars
<1>8. CASE \E w \in Worker : WorkerStep(w) \/ FailRun(w) \/ Panic(w)
  BY <1>2, <1>3, <1>4, <1>8 DEF WorkerStep
<1>9. CASE \E j \in Id : (\E up \in BOOLEAN : Move(j, up)) \/ Pause(j) \/ Resume(j) \/ RemoveJob(j)
  BY <1>1, <1>5, <1>9
<1> QED
  BY <1>6, <1>7, <1>8, <1>9 DEF Next, QueueStep

(* A request in flight has one job from its first section to its second.   *)
LEMMA CallsSteps ==
  ASSUME Typed, FreshInv, Next
  PROVE  \/ calls' = calls
         \/ \E c \in Caller : /\ calls' = [calls EXCEPT ![c] = None]
                              /\ EnqueueCommit(c) \/ used'.gone > 0
         \/ \E c \in Caller, call \in Call :
              /\ calls' = [calls EXCEPT ![c] = call] /\ calls[c] = None /\ CanRead
              /\ call.job \in Unfinished(jobs) \/ (call.job = nextId /\ nextId' = nextId + 1)
         \/ calls' = [c \in Caller |-> None] /\ Restart
<1>1. CASE \E c \in Caller : \E ask \in row.wanted : EnqueueBegin(c, ask[1], ask[2])
  <2>1. PICK c \in Caller, ask \in row.wanted : EnqueueBegin(c, ask[1], ask[2])
    BY <1>1
  <2>2. ask[1] \in Book /\ ask[2] \in SUBSET Chapter
    BY <2>1, QueueAssumption DEF Typed, WorldTyped
  <2>3. CanRead /\ calls[c] = None
    BY <2>1 DEF EnqueueBegin
  <2>4. ASSUME NEW j \in Id, NEW created \in BOOLEAN,
               calls' = [calls EXCEPT ![c] = [job |-> j, wanted |-> ask[2], created |-> created]]
        PROVE  \E call \in Call : calls' = [calls EXCEPT ![c] = call] /\ call.job = j
    <3> DEFINE call == [job |-> j, wanted |-> ask[2], created |-> created]
    <3>1. call \in Call /\ call.job = j
      BY <2>2 DEF Call
    <3> HIDE DEF call
    <3>2. calls' = [calls EXCEPT ![c] = call]
      BY <2>4 DEF call
    <3> QED BY <3>1, <3>2
  <2>5. SameWork(jobs, ask[1]) \subseteq Unfinished(jobs) /\ Unfinished(jobs) \subseteq Id
    BY DEF SameWork, Unfinished, Active, Queued, InStatus, Tracked
  <2>6. CASE \E j \in SameWork(jobs, ask[1]) :
               calls' = [calls EXCEPT ![c] = [job |-> j, wanted |-> ask[2], created |-> FALSE]]
    <3>1. PICK j \in SameWork(jobs, ask[1]) :
               calls' = [calls EXCEPT ![c] = [job |-> j, wanted |-> ask[2], created |-> FALSE]]
      BY <2>6
    <3>2. PICK call \in Call : calls' = [calls EXCEPT ![c] = call] /\ call.job = j
      BY <2>4, <2>5, <3>1
    <3> QED BY <2>3, <2>5, <3>2
  <2>7. CASE /\ nextId \in Id /\ nextId' = nextId + 1
             /\ calls' = [calls EXCEPT ![c] = [job |-> nextId, wanted |-> ask[2], created |-> TRUE]]
    <3>1. PICK call \in Call : calls' = [calls EXCEPT ![c] = call] /\ call.job = nextId
      BY <2>4, <2>7
    <3> QED BY <2>3, <2>7, <3>1
  <2> QED BY <2>1, <2>2, <2>6, <2>7, BegunTables
<1>2. CASE \E c \in Caller : EnqueueCommit(c) \/ CallerGone(c)
  <2>1. PICK c \in Caller : EnqueueCommit(c) \/ CallerGone(c)
    BY <1>2
  <2>2. calls' = [calls EXCEPT ![c] = None]
    BY <2>1 DEF EnqueueCommit, CallerGone
  <2>3. CallerGone(c) => used'.gone > 0
    BY DEF CallerGone, Spend, Kind, Typed, WorldTyped
  <2> QED BY <2>1, <2>2, <2>3
<1>3. CASE Crash \/ Handoff
  BY <1>3 DEF Crash, Handoff, Restart
<1>4. CASE \/ \E books \in row.batches : \E new \in Orders(WithoutWork(books)) : EnqueueBatch(new)
           \/ DispatchNext
           \/ \E origin \in Origin : StartResume(origin) \/ ResumeNext(origin)
  BY <1>4 DEF EnqueueBatch, DispatchNext, StartResume, ResumeNext
<1>5. CASE \E j \in Id : (\E up \in BOOLEAN : Move(j, up)) \/ Pause(j) \/ Resume(j) \/ RemoveJob(j)
  BY <1>5 DEF Move, Pause, Resume, RemoveJob, callVars
<1>6. CASE \E w \in Worker : WorkerStep(w) \/ FailRun(w) \/ Panic(w)
  BY <1>6 DEF WorkerStep, Check, Claim, ReadCheckpoint, ReadsCheckpoint, ContinueRun, StopForPause, AlignSection,
     PublishMap, FailRun, Report, RequeueFallen, StopForUpdate, Panic, callVars
<1>7. CASE \/ \E t \in Token : \/ BeginUpdate(t) \/ HoldForUpdate(t) \/ KeepUpdate(t)
                               \/ AbandonUpdate(t) \/ UndoUpdate(t)
           \/ \E book \in Book : Rescan(book)
           \/ \E j \in Id : InputsChange(j)
  BY <1>7 DEF BeginUpdate, HoldForUpdate, KeepUpdate, AbandonUpdate, UndoUpdate, Rescan, InputsChange, callVars
<1>8. CASE \E c \in Caller : \/ \E ask \in row.wanted : EnqueueBegin(c, ask[1], ask[2])
                             \/ EnqueueCommit(c) \/ CallerGone(c)
  BY <1>1, <1>2, <1>8
<1> QED
  BY <1>3, <1>4, <1>5, <1>6, <1>7, <1>8 DEF Next, QueueStep

(* A batch under way is worked off job by job.                             *)
LEMMA BatchSteps ==
  ASSUME Typed, FreshInv, Next
  PROVE  /\ batch' \in Seq(Entry)
         /\ \/ batch' = batch \/ (batch' = <<>> /\ Restart)
            \/ batch # <<>> /\ batch' = Tail(batch) /\ DispatchNext
            \/ batch = <<>> /\ CanRead
<1>0. batch \in Seq(Entry)
  BY DEF Typed, TasksTyped
<1>1. CASE \E books \in row.batches : \E new \in Orders(WithoutWork(books)) : EnqueueBatch(new)
  <2>0. PICK books \in row.batches : \E new \in Orders(WithoutWork(books)) : EnqueueBatch(new)
    BY <1>1
  <2>1. PICK new \in Orders(WithoutWork(books)) : EnqueueBatch(new)
    BY <2>0
  <2>2. WithoutWork(books) \in SUBSET Book
    BY <2>0, QueueAssumption DEF WithoutWork, Typed, WorldTyped
  <2>3. /\ Len(new) \in Nat /\ new \in [1 .. Len(new) -> WithoutWork(books)]
        /\ \A k, l \in 1 .. Len(new) : new[k] = new[l] => k = l
    BY <2>1, <2>2, OrdersList
  <2>4. new \in [1 .. Len(new) -> Book] /\ \A k \in 1 .. Len(new) : SameWork(jobs, new[k]) = {}
    BY <2>2, <2>3 DEF WithoutWork
  <2>5. batch' \in Seq(Entry) \/ batch' = batch
    BY <2>1, <2>3, <2>4, BatchedTables
  <2>6. batch = <<>> /\ CanRead
    BY <2>1 DEF EnqueueBatch
  <2> QED BY <1>0, <2>5, <2>6
<1>2. CASE DispatchNext
  <2>1. batch # <<>> /\ batch' = Tail(batch)
    BY <1>2 DEF DispatchNext
  <2> QED BY <1>0, <1>2, <2>1
<1>3. CASE Crash \/ Handoff
  <2>1. batch' = <<>> /\ Restart
    BY <1>3 DEF Crash, Handoff, Restart
  <2>2. <<>> \in Seq(Entry)
    OBVIOUS
  <2> QED BY <2>1, <2>2
<1>4. CASE \/ \E c \in Caller : \/ \E ask \in row.wanted : EnqueueBegin(c, ask[1], ask[2])
                                \/ EnqueueCommit(c) \/ CallerGone(c)
           \/ \E origin \in Origin : StartResume(origin) \/ ResumeNext(origin)
  <2>1. batch' = batch
    BY <1>4 DEF EnqueueBegin, EnqueueCommit, CallerGone, StartResume, ResumeNext
  <2> QED BY <1>0, <2>1
<1>5. CASE \E j \in Id : (\E up \in BOOLEAN : Move(j, up)) \/ Pause(j) \/ Resume(j) \/ RemoveJob(j)
  <2>1. batch' = batch
    BY <1>5 DEF Move, Pause, Resume, RemoveJob, callVars
  <2> QED BY <1>0, <2>1
<1>6. CASE \E w \in Worker : WorkerStep(w) \/ FailRun(w) \/ Panic(w)
  <2>1. batch' = batch
    BY <1>6 DEF WorkerStep, Check, Claim, ReadCheckpoint, ReadsCheckpoint, ContinueRun, StopForPause, AlignSection,
       PublishMap, FailRun, Report, RequeueFallen, StopForUpdate, Panic, callVars
  <2> QED BY <1>0, <2>1
<1>7. CASE \/ \E t \in Token : \/ BeginUpdate(t) \/ HoldForUpdate(t) \/ KeepUpdate(t)
                               \/ AbandonUpdate(t) \/ UndoUpdate(t)
           \/ \E book \in Book : Rescan(book)
           \/ \E j \in Id : InputsChange(j)
  <2>1. batch' = batch
    BY <1>7 DEF BeginUpdate, HoldForUpdate, KeepUpdate, AbandonUpdate, UndoUpdate, Rescan, InputsChange, callVars
  <2> QED BY <1>0, <2>1
<1> QED
  BY <1>1, <1>2, <1>3, <1>4, <1>5, <1>6, <1>7 DEF Next, QueueStep

(* What resume_queue read is worked off request by request.                *)
LEMMA ResumingIsTyped ==
  ASSUME Typed, Next
  PROVE  resuming' \in [Origin -> Seq(Entry)]
<1>0. resuming \in [Origin -> Seq(Entry)] /\ jobs \in Table
  BY DEF Typed, TasksTyped, TablesTyped
<1>1. CASE \E origin \in Origin : StartResume(origin)
  <2>1. PICK origin \in Origin : StartResume(origin)
    BY <1>1
  <2>2. ASSUME NEW order \in InOrder(jobs, Pending),
               resuming' = [resuming EXCEPT ![origin] =
                 [k \in DOMAIN order |-> [book |-> jobs[order[k]].book, job |-> order[k]]]]
        PROVE  resuming' \in [Origin -> Seq(Entry)]
    <3> DEFINE n == Cardinality(Pending)
    <3>1. Pending \subseteq Id /\ \A j \in Pending : jobs[j] # None
      BY DEF Pending, Tracked
    <3>2. n \in Nat
      BY <3>1, IdsAreFinite, FS_CardinalityType
    <3>3. order \in [1 .. n -> Pending]
      BY <2>2 DEF InOrder, Orders
    <3> HIDE DEF n
    <3> DEFINE left == [k \in DOMAIN order |-> [book |-> jobs[order[k]].book, job |-> order[k]]]
    <3>4. \A j \in Pending : jobs[j].book \in Book /\ j \in Id
      BY <1>0, <3>1 DEF Table, Job
    <3>5. \A k \in 1 .. n : [book |-> jobs[order[k]].book, job |-> order[k]] \in Entry
      BY <3>3, <3>4 DEF Entry
    <3>6. left \in [1 .. n -> Entry]
      BY <3>3, <3>5
    <3> HIDE DEF left
    <3>7. left \in Seq(Entry)
      BY <3>2, <3>6
    <3>8. resuming' = [resuming EXCEPT ![origin] = left]
      BY <2>2 DEF left
    <3> QED BY <1>0, <3>7, <3>8
  <2> QED BY <1>0, <2>1, <2>2 DEF StartResume
<1>2. CASE \E origin \in Origin : ResumeNext(origin)
  <2>1. PICK origin \in Origin : ResumeNext(origin)
    BY <1>2
  <2>2. resuming[origin] # <<>> /\ resuming' = [resuming EXCEPT ![origin] = Tail(resuming[origin])]
    BY <2>1 DEF ResumeNext
  <2>3. Tail(resuming[origin]) \in Seq(Entry)
    BY <1>0, <2>2
  <2> QED BY <1>0, <2>2, <2>3
<1>3. CASE Crash \/ Handoff
  <2>1. resuming' = [o \in Origin |-> <<>>]
    BY <1>3 DEF Crash, Handoff, Restart
  <2>2. <<>> \in Seq(Entry)
    OBVIOUS
  <2> QED BY <2>1, <2>2
<1>4. CASE \/ \E c \in Caller : \/ \E ask \in row.wanted : EnqueueBegin(c, ask[1], ask[2])
                                \/ EnqueueCommit(c) \/ CallerGone(c)
           \/ \E books \in row.batches : \E new \in Orders(WithoutWork(books)) : EnqueueBatch(new)
           \/ DispatchNext
  <2>1. resuming' = resuming
    BY <1>4 DEF EnqueueBegin, EnqueueCommit, CallerGone, EnqueueBatch, DispatchNext
  <2> QED BY <1>0, <2>1
<1>5. CASE \E j \in Id : (\E up \in BOOLEAN : Move(j, up)) \/ Pause(j) \/ Resume(j) \/ RemoveJob(j)
  <2>1. resuming' = resuming
    BY <1>5 DEF Move, Pause, Resume, RemoveJob, callVars
  <2> QED BY <1>0, <2>1
<1>6. CASE \E w \in Worker : WorkerStep(w) \/ FailRun(w) \/ Panic(w)
  <2>1. resuming' = resuming
    BY <1>6 DEF WorkerStep, Check, Claim, ReadCheckpoint, ReadsCheckpoint, ContinueRun, StopForPause, AlignSection,
       PublishMap, FailRun, Report, RequeueFallen, StopForUpdate, Panic, callVars
  <2> QED BY <1>0, <2>1
<1>7. CASE \/ \E t \in Token : \/ BeginUpdate(t) \/ HoldForUpdate(t) \/ KeepUpdate(t)
                               \/ AbandonUpdate(t) \/ UndoUpdate(t)
           \/ \E book \in Book : Rescan(book)
           \/ \E j \in Id : InputsChange(j)
  <2>1. resuming' = resuming
    BY <1>7 DEF BeginUpdate, HoldForUpdate, KeepUpdate, AbandonUpdate, UndoUpdate, Rescan, InputsChange, callVars
  <2> QED BY <1>0, <2>1
<1> QED
  BY <1>1, <1>2, <1>3, <1>4, <1>5, <1>6, <1>7 DEF Next, QueueStep

(* Who moves an update, and what the signal and the lock become.           *)
LEMMA UpdatesSteps ==
  ASSUME Typed, Next
  PROVE  \/ UNCHANGED updateVars
         \/ \E t \in Token : \/ BeginUpdate(t) \/ HoldForUpdate(t) \/ KeepUpdate(t)
                             \/ AbandonUpdate(t) \/ UndoUpdate(t)
         \/ Restart
<1>1. CASE \/ \E c \in Caller : \/ \E ask \in row.wanted : EnqueueBegin(c, ask[1], ask[2])
                                \/ EnqueueCommit(c) \/ CallerGone(c)
           \/ \E books \in row.batches : \E new \in Orders(WithoutWork(books)) : EnqueueBatch(new)
           \/ DispatchNext
           \/ \E origin \in Origin : StartResume(origin) \/ ResumeNext(origin)
  BY <1>1 DEF EnqueueBegin, EnqueueCommit, CallerGone, EnqueueBatch, DispatchNext, StartResume, ResumeNext
<1>2. CASE \E j \in Id : (\E up \in BOOLEAN : Move(j, up)) \/ Pause(j) \/ Resume(j) \/ RemoveJob(j)
  BY <1>2 DEF Move, Pause, Resume, RemoveJob
<1>3. CASE \E w \in Worker : WorkerStep(w) \/ FailRun(w) \/ Panic(w)
  BY <1>3 DEF WorkerStep, Check, Claim, ReadCheckpoint, ReadsCheckpoint, ContinueRun, StopForPause, AlignSection,
       PublishMap, FailRun, Report, RequeueFallen, StopForUpdate, Panic
<1>4. CASE (\E book \in Book : Rescan(book)) \/ (\E j \in Id : InputsChange(j)) \/ Crash \/ Handoff
  BY <1>4 DEF Rescan, InputsChange, Crash, Handoff
<1> QED
  BY <1>1, <1>2, <1>3, <1>4 DEF Next, QueueStep

(* Updates only take the places an update can be in.                      *)
LEMMA UpdatesAreTyped ==
  ASSUME Typed, Next
  PROVE  UpdatesTyped'
<1>0. UpdatesTyped
  BY DEF Typed
<1>1. CASE UNCHANGED updateVars
  BY <1>0, <1>1 DEF UpdatesTyped, updateVars
<1>2. CASE Restart
  BY <1>0, <1>2 DEF UpdatesTyped, Restart
<1>3. CASE \E t \in Token : \/ BeginUpdate(t) \/ HoldForUpdate(t) \/ KeepUpdate(t)
                            \/ AbandonUpdate(t) \/ UndoUpdate(t)
  <2>1. PICK t \in Token : \/ BeginUpdate(t) \/ HoldForUpdate(t) \/ KeepUpdate(t)
                           \/ AbandonUpdate(t) \/ UndoUpdate(t)
    BY <1>3
  <2>2. /\ signal' \in {signal, t, 0} /\ writer' \in {writer, t, 0}
        /\ \E at \in {"stopping", "held", "kept", "undoing", "undone"} :
             updates' = [updates EXCEPT ![t] = at]
    BY <2>1 DEF BeginUpdate, HoldForUpdate, KeepUpdate, AbandonUpdate, UndoUpdate
  <2> QED BY <1>0, <2>2 DEF UpdatesTyped
<1> QED BY <1>1, <1>2, <1>3, UpdatesSteps

(* What went wrong is counted and never forgotten.                         *)
LEMMA UsedGrows ==
  ASSUME Typed, Next
  PROVE  used' \in [Kind -> Nat] /\ \A what \in Kind : used'[what] >= used[what]
<1>0. used \in [Kind -> Nat] /\ TablesTyped
  BY DEF Typed, WorldTyped
<1>a. ASSUME used' = used
      PROVE  used' \in [Kind -> Nat] /\ \A what \in Kind : used'[what] >= used[what]
  BY <1>0, <1>a
<1>b. ASSUME NEW what \in Kind, used' = [used EXCEPT ![what] = @ + 1]
      PROVE  used' \in [Kind -> Nat] /\ \A other \in Kind : used'[other] >= used[other]
  BY <1>0, <1>b
<1>c. ASSUME NEW table, TriesToSave(table)
      PROVE  used' \in [Kind -> Nat] /\ \A what \in Kind : used'[what] >= used[what]
  <2>1. used' = used \/ used' = [used EXCEPT !["errors"] = @ + 1]
    BY <1>c DEF TriesToSave, Saves, SaveFails, Spend
  <2> QED BY <1>a, <1>b, <2>1 DEF Kind
<1>d. ASSUME NEW table, Control(table)
      PROVE  used' \in [Kind -> Nat] /\ \A what \in Kind : used'[what] >= used[what]
  <2>1. \/ used' = [used EXCEPT !["controls"] = @ + 1]
        \/ used' = [used EXCEPT !["controls"] = @ + 1, !["errors"] = @ + 1]
    BY <1>d DEF Control
  <2>2. CASE used' = [used EXCEPT !["controls"] = @ + 1, !["errors"] = @ + 1]
    BY <1>0, <2>2 DEF Kind
  <2> QED BY <1>b, <2>1, <2>2 DEF Kind
<1>e. ASSUME NEW j \in Id, NEW status, FinishJob(j, status)
      PROVE  used' \in [Kind -> Nat] /\ \A what \in Kind : used'[what] >= used[what]
  <2>1. \/ used' = used \/ used' = [used EXCEPT !["errors"] = @ + 1]
    BY <1>e DEF FinishJob, TriesToSave, Saves, SaveFails, Spend
  <2> QED BY <1>a, <1>b, <2>1 DEF Kind
<1>1. CASE \E c \in Caller : \/ \E ask \in row.wanted : EnqueueBegin(c, ask[1], ask[2])
                             \/ EnqueueCommit(c) \/ CallerGone(c)
  <2>1. \/ used' = used \/ used' = [used EXCEPT !["gone"] = @ + 1]
        \/ \E c \in Caller : TriesToSave(Named(calls[c]))
    BY <1>1 DEF EnqueueBegin, EnqueueCommit, CallerGone, Spend, TriesToSave
  <2> QED BY <1>a, <1>b, <1>c, <2>1 DEF Kind
<1>2. CASE \/ \E books \in row.batches : \E new \in Orders(WithoutWork(books)) : EnqueueBatch(new)
  <2>1. used' = used \/ used' = [used EXCEPT !["errors"] = @ + 1]
    BY <1>2 DEF EnqueueBatch, Saves, SaveFails, Spend
  <2> QED BY <1>a, <1>b, <2>1 DEF Kind
<1>3. CASE DispatchNext
  <2>1. used' = used \/ \E status \in Over : FinishJob(Head(batch).job, status)
    BY <1>3, DispatchedTables
  <2>2. Head(batch).job \in Id
    BY <1>3, DispatchedTables DEF Entry
  <2> QED BY <1>a, <1>e, <2>1, <2>2
<1>4. CASE \E origin \in Origin : StartResume(origin) \/ ResumeNext(origin)
  <2>1. PICK origin \in Origin : StartResume(origin) \/ ResumeNext(origin)
    BY <1>4
  <2>2. CASE StartResume(origin)
    <3>1. used' = used
      BY <2>2 DEF StartResume
    <3> QED BY <1>a, <3>1
  <2>3. CASE ResumeNext(origin)
    <3> DEFINE j == Head(resuming[origin]).job
    <3>1. j \in Id
      BY <2>3, RecoveredTables DEF Entry
    <3>2. \/ used' = used \/ FinishJob(j, "failed")
          \/ \E table : SaveFails(table)
      BY <2>3 DEF ResumeNext, Saves
    <3> QED BY <1>a, <1>c, <1>e, <3>1, <3>2 DEF TriesToSave
  <2> QED BY <2>1, <2>2, <2>3
<1>5. CASE \E j \in Id : (\E up \in BOOLEAN : Move(j, up)) \/ Pause(j) \/ Resume(j) \/ RemoveJob(j)
  <2>1. \E table : Control(table)
    BY <1>5 DEF Move, Pause, Resume, RemoveJob
  <2> QED BY <1>d, <2>1
<1>6. CASE \E w \in Worker : WorkerStep(w) \/ FailRun(w) \/ Panic(w)
  <2>1. PICK w \in Worker : WorkerStep(w) \/ FailRun(w) \/ Panic(w)
    BY <1>6
  <2>2. CASE StopForPause(w)
    <3>1. \E table : TriesToSave(table)
      BY <2>2 DEF StopForPause, TriesToSave
    <3> QED BY <1>c, <3>1
  <2>3. CASE RequeueFallen(w)
    <3>1. used' = used \/ \E table : TriesToSave(table)
      BY <2>3 DEF RequeueFallen
    <3> QED BY <1>a, <1>c, <3>1
  <2>4. CASE Report(w)
    <3>1. workers[w].job \in Id
      BY <2>4 DEF Report, IsAt, Typed, TasksTyped, WorkerState
    <3>2. \E status : FinishJob(workers[w].job, status)
      BY <2>4 DEF Report
    <3> QED BY <1>e, <3>1, <3>2
  <2>5. CASE Panic(w)
    <3>1. used' = [used EXCEPT !["panics"] = @ + 1]
      BY <2>5 DEF Panic, Spend
    <3> QED BY <1>b, <3>1 DEF Kind
  <2>6. CASE \/ Check(w) \/ Claim(w) \/ ReadCheckpoint(w) \/ ContinueRun(w) \/ AlignSection(w)
             \/ PublishMap(w) \/ StopForUpdate(w) \/ FailRun(w)
    <3>1. used' = used
      BY <2>6 DEF Check, Claim, ReadCheckpoint, ReadsCheckpoint, ContinueRun, AlignSection, PublishMap,
         StopForUpdate, FailRun
    <3> QED BY <1>a, <3>1
  <2> QED BY <2>1, <2>2, <2>3, <2>4, <2>5, <2>6 DEF WorkerStep
<1>7. CASE \E t \in Token : \/ BeginUpdate(t) \/ HoldForUpdate(t) \/ KeepUpdate(t)
                            \/ AbandonUpdate(t) \/ UndoUpdate(t)
  <2>1. used' = used \/ \E table : TriesToSave(table)
    BY <1>7 DEF BeginUpdate, HoldForUpdate, KeepUpdate, AbandonUpdate, UndoUpdate, TriesToSave
  <2> QED BY <1>a, <1>c, <2>1
<1>8. CASE (\E book \in Book : Rescan(book)) \/ (\E j \in Id : InputsChange(j)) \/ Crash \/ Handoff
  <2>1. \/ used' = used \/ used' = [used EXCEPT !["rescans"] = @ + 1]
        \/ used' = [used EXCEPT !["crashes"] = @ + 1] \/ used' = [used EXCEPT !["inputs"] = @ + 1]
    BY <1>8 DEF Rescan, InputsChange, Crash, Handoff, Spend
  <2> QED BY <1>a, <1>b, <2>1 DEF Kind
<1> QED
  BY <1>1, <1>2, <1>3, <1>4, <1>5, <1>6, <1>7, <1>8 DEF Next, QueueStep

(* Books come and go only when the library is scanned, and the bounds stay. *)
LEMMA ReadableSteps ==
  ASSUME Typed, Next
  PROVE  /\ row' = row /\ readable' \subseteq Book
         /\ readable' = readable \/ used'.rescans > 0
<1>0. readable \subseteq Book /\ used \in [Kind -> Nat]
  BY DEF Typed, WorldTyped
<1>1. CASE \/ \E c \in Caller : \/ \E ask \in row.wanted : EnqueueBegin(c, ask[1], ask[2])
                                \/ EnqueueCommit(c) \/ CallerGone(c)
           \/ \E books \in row.batches : \E new \in Orders(WithoutWork(books)) : EnqueueBatch(new)
           \/ DispatchNext
           \/ \E origin \in Origin : StartResume(origin) \/ ResumeNext(origin)
  <2>1. readable' = readable
    BY <1>1 DEF EnqueueBegin, EnqueueCommit, CallerGone, EnqueueBatch, DispatchNext,
       StartResume, ResumeNext, fileVars
  <2> QED BY <1>0, <2>1 DEF Next
<1>2. CASE \E j \in Id : (\E up \in BOOLEAN : Move(j, up)) \/ Pause(j) \/ Resume(j) \/ RemoveJob(j)
                          \/ InputsChange(j)
  <2>1. readable' = readable
    BY <1>2 DEF Move, Pause, Resume, RemoveJob, InputsChange, fileVars
  <2> QED BY <1>0, <2>1 DEF Next
<1>3. CASE \E w \in Worker : WorkerStep(w) \/ FailRun(w) \/ Panic(w)
  <2>1. readable' = readable
    BY <1>3 DEF WorkerStep, Check, Claim, ReadCheckpoint, ReadsCheckpoint, ContinueRun, StopForPause, AlignSection,
       PublishMap, FailRun, Report, RequeueFallen, StopForUpdate, Panic, fileVars
  <2> QED BY <1>0, <2>1 DEF Next
<1>4. CASE \/ \E t \in Token : \/ BeginUpdate(t) \/ HoldForUpdate(t) \/ KeepUpdate(t)
                               \/ AbandonUpdate(t) \/ UndoUpdate(t)
           \/ Crash \/ Handoff
  <2>1. readable' = readable
    BY <1>4 DEF BeginUpdate, HoldForUpdate, KeepUpdate, AbandonUpdate, UndoUpdate, Crash, Handoff,
       Restart, fileVars
  <2> QED BY <1>0, <2>1 DEF Next
<1>5. CASE \E book \in Book : Rescan(book)
  <2>1. readable' \subseteq Book
    BY <1>0, <1>5 DEF Rescan
  <2>2. used' = [used EXCEPT !["rescans"] = @ + 1]
    BY <1>5 DEF Rescan, Spend
  <2>3. used'.rescans > 0
    BY <1>0, <2>2 DEF Kind
  <2> QED BY <2>1, <2>3 DEF Next
<1> QED
  BY <1>1, <1>2, <1>3, <1>4, <1>5 DEF Next, QueueStep

(* Inputs change on their own or come with a new build.                    *)
LEMMA InputsAreTyped ==
  ASSUME Typed, Next
  PROVE  inputs' \in [Id -> Nat]
<1>0. inputs \in [Id -> Nat] /\ row \in Rows
  BY DEF Typed, FilesTyped, WorldTyped
<1>a. Input \subseteq Nat
  BY <1>0, QueueAssumption DEF Input, Kind
<1>1. CASE \/ \E c \in Caller : \/ \E ask \in row.wanted : EnqueueBegin(c, ask[1], ask[2])
                                \/ EnqueueCommit(c) \/ CallerGone(c)
           \/ \E books \in row.batches : \E new \in Orders(WithoutWork(books)) : EnqueueBatch(new)
           \/ DispatchNext
           \/ \E origin \in Origin : StartResume(origin) \/ ResumeNext(origin)
  <2>1. inputs' = inputs
    BY <1>1 DEF EnqueueBegin, EnqueueCommit, CallerGone, EnqueueBatch, DispatchNext,
       StartResume, ResumeNext, fileVars
  <2> QED BY <1>0, <2>1
<1>2. CASE \E j \in Id : (\E up \in BOOLEAN : Move(j, up)) \/ Pause(j) \/ Resume(j) \/ RemoveJob(j)
  <2>1. inputs' = inputs
    BY <1>2 DEF Move, Pause, Resume, RemoveJob, fileVars
  <2> QED BY <1>0, <2>1
<1>3. CASE \E w \in Worker : WorkerStep(w) \/ FailRun(w) \/ Panic(w)
  <2>1. inputs' = inputs
    BY <1>3 DEF WorkerStep, Check, Claim, ReadCheckpoint, ReadsCheckpoint, ContinueRun, StopForPause, AlignSection,
       PublishMap, FailRun, Report, RequeueFallen, StopForUpdate, Panic, fileVars
  <2> QED BY <1>0, <2>1
<1>4. CASE \/ \E t \in Token : \/ BeginUpdate(t) \/ HoldForUpdate(t) \/ KeepUpdate(t)
                               \/ AbandonUpdate(t) \/ UndoUpdate(t)
           \/ \E book \in Book : Rescan(book)
           \/ Crash
  <2>1. inputs' = inputs
    BY <1>4 DEF BeginUpdate, HoldForUpdate, KeepUpdate, AbandonUpdate, UndoUpdate, Rescan, Crash,
       fileVars
  <2> QED BY <1>0, <2>1
<1>5. CASE Handoff
  <2>1. inputs' \in {inputs} \cup [Id -> Input]
    BY <1>5 DEF Handoff
  <2> QED BY <1>0, <1>a, <2>1
<1>6. CASE \E j \in Id : InputsChange(j)
  <2>1. PICK j \in Id, new \in Input : inputs' = [inputs EXCEPT ![j] = new]
    BY <1>6 DEF InputsChange
  <2>2. new \in Nat
    BY <1>a
  <2> QED BY <1>0, <2>1, <2>2
<1> QED
  BY <1>1, <1>2, <1>3, <1>4, <1>5, <1>6 DEF Next, QueueStep

-----------------------------------------------------------------------------
(* Types, and what was not created yet.                                    *)

(* Identifiers are given out in order, and what is recorded stays.         *)
LEMMA HistoryGrows ==
  ASSUME Typed, TableStep
  PROVE  /\ nextId' \in Int /\ nextId' >= nextId
         /\ accepted \subseteq accepted' /\ dismissed \subseteq dismissed' /\ reported \subseteq reported'
         /\ accepted' \subseteq [job : Id, wanted : SUBSET Chapter]
<1>0. nextId \in Int /\ accepted \subseteq [job : Id, wanted : SUBSET Chapter]
      /\ calls \in [Caller -> Call \cup {None}]
  BY DEF Typed, TablesTyped, TasksTyped, WorldTyped
<1>1. CASE UNCHANGED <<nextId, historyVars>>
  BY <1>0, <1>1 DEF historyVars
<1>2. CASE Answers
  <2>1. PICK c \in Caller : calls[c] # None /\
          accepted' = accepted \cup {[job |-> calls[c].job, wanted |-> calls[c].wanted]}
    BY <1>2 DEF Answers
  <2>2. [job |-> calls[c].job, wanted |-> calls[c].wanted] \in [job : Id, wanted : SUBSET Chapter]
    BY <1>0, <2>1 DEF Call
  <2> QED BY <1>0, <1>2, <2>1, <2>2 DEF Answers
<1>3. CASE FinishesOne
  <2>1. /\ UNCHANGED <<nextId, accepted, dismissed>>
        /\ \E j \in Id : reported' = reported \/ reported' = reported \cup {j}
    BY <1>3 DEF FinishesOne, Finishes
  <2> QED BY <1>0, <2>1
<1>4. CASE RemovesOne
  BY <1>0, <1>4 DEF RemovesOne
<1>5. CASE BeginsOne
  BY <1>0, <1>5 DEF BeginsOne, historyVars
<1>6. CASE BeginsMany
  <2>1. PICK ids \in SUBSET Id :
          /\ nextId' \in Int /\ nextId' >= nextId
          /\ \/ accepted' = accepted \cup {[job |-> i, wanted |-> {}] : i \in ids}
             \/ UNCHANGED accepted
          /\ UNCHANGED <<dismissed, reported>>
    BY <1>6 DEF BeginsMany
  <2>2. \A i \in ids : [job |-> i, wanted |-> {}] \in [job : Id, wanted : SUBSET Chapter]
    OBVIOUS
  <2> QED BY <1>0, <2>1, <2>2
<1>7. CASE Revives \/ Restarts
  BY <1>0, <1>7 DEF Revives, Restarts, historyVars
<1> QED BY <1>1, <1>2, <1>3, <1>4, <1>5, <1>6, <1>7 DEF TableStep

(* What is in neither table, and is not begun, stays out of both.          *)
LEMMA AbsentStays ==
  ASSUME Typed, TableStep, NEW i \in Id, jobs[i] = None, disk[i] = None,
         i >= nextId', i >= nextId
  PROVE  jobs'[i] = None /\ disk'[i] = None
<1>0. jobs \in Table /\ disk \in Table /\ jobs' \in Table /\ disk' \in Table /\ nextId \in Int /\ i \in Int
  BY DEF Typed, TablesTyped, TableStep, Id
<1>a. \A t \in Table : Stage(t, i) = "none" <=> t[i] = None
  BY StagesTell
<1>b. ASSUME NEW table \in Table, table[i] = None, Writes(table) \/ Fails(table)
      PROVE  jobs'[i] = None /\ disk'[i] = None
  <2>1. Snapshot(table)[i] = None
    BY <1>b DEF Snapshot
  <2>2. disk'[i] = None
    BY <1>b, <2>1 DEF Writes, Fails
  <2>3. Stage(table, i) = "none"
    BY <1>a, <1>b
  <2>4. Stage(jobs', i) = "none"
    <3>1. CASE Writes(table)
      BY <2>3, <3>1 DEF Writes, Trims
    <3>2. CASE Fails(table)
      BY <1>b, <1>0, <1>a, <3>2 DEF Fails, Narrows
    <3> QED BY <1>b, <3>1, <3>2
  <2> QED BY <1>0, <1>a, <2>2, <2>4
<1>1. CASE Quiet
  BY <1>0, <1>1, <1>a DEF Quiet, Trims
<1>2. CASE Rewrites \/ Answers
  <2>1. PICK table \in Table : Same(jobs, table) /\ (Writes(table) \/ Fails(table))
    BY <1>2 DEF Rewrites, Answers
  <2>2. table[i] = None
    BY <1>0, <1>a, <2>1 DEF Same
  <2> QED BY <1>b, <2>1, <2>2
<1>3. CASE FinishesOne
  <2>1. PICK j \in Id, table \in Table : Ends(jobs, table, j) /\ (Writes(table) \/ Fails(table))
    BY <1>3 DEF FinishesOne, Finishes
  <2>2. table[i] = None
    BY <1>0, <1>a, <2>1 DEF Ends, Over
  <2> QED BY <1>b, <2>1, <2>2
<1>4. CASE RemovesOne
  <2>1. PICK j \in Id, table \in Table :
          /\ table[j] = None /\ \A k \in Id \ {j} : table[k] = jobs[k]
          /\ disk' \in {disk, Snapshot(table)} /\ jobs' \in {jobs, table}
    BY <1>4 DEF RemovesOne, Removes
  <2>2. table[i] = None /\ Snapshot(table)[i] = None
    BY <2>1 DEF Snapshot
  <2> QED BY <2>1, <2>2
<1>5. CASE BeginsOne
  <2>1. PICK table \in Table : Begins(jobs, table, {nextId}) /\ Drops(table, jobs')
    BY <1>5 DEF BeginsOne
  <2>2. i # nextId /\ disk' = disk
    BY <1>0, <1>5 DEF BeginsOne
  <2> QED BY <2>1, <2>2 DEF Begins, Drops
<1>6. CASE BeginsMany
  <2>1. PICK ids \in SUBSET Id, table \in Table :
          /\ Begins(jobs, table, ids) /\ \A k \in ids : k >= nextId /\ k < nextId'
          /\ nextId' \in Int
          /\ \E saved \in Table : Drops(table, saved) /\ (Writes(saved) \/ Fails(saved))
    BY <1>6 DEF BeginsMany
  <2>2. i \notin ids
    BY <1>0, <2>1
  <2>3. table[i] = None
    BY <2>1, <2>2 DEF Begins
  <2>4. PICK saved \in Table : Drops(table, saved) /\ (Writes(saved) \/ Fails(saved))
    BY <2>1
  <2>5. saved[i] = None
    BY <2>3, <2>4 DEF Drops
  <2> QED BY <1>b, <2>4, <2>5
<1>7. CASE Revives
  <2>1. PICK w \in Worker, table \in Table :
          /\ workers[w].job \in Tracked(jobs)
          /\ \A k \in Id \ {workers[w].job} : table[k] = jobs[k]
          /\ disk' \in {disk, Snapshot(table)} /\ jobs' \in {jobs, table}
    BY <1>7 DEF Revives, Writes
  <2>2. i # workers[w].job
    BY <2>1 DEF Tracked
  <2>3. table[i] = None /\ Snapshot(table)[i] = None
    BY <2>1, <2>2 DEF Snapshot
  <2> QED BY <2>1, <2>3
<1>8. CASE Restarts
  BY <1>0, <1>8, <1>a DEF Restarts, Trims
<1> QED BY <1>1, <1>2, <1>3, <1>4, <1>5, <1>6, <1>7, <1>8 DEF TableStep

(* Types are kept.                                                         *)
LEMMA TypedKeeps ==
  ASSUME Typed, FreshInv, Next
  PROVE  Typed'
<1>1. TableStep /\ WorkersStep /\ CkptStep
  BY TableSteps, WorkersSteps, CkptSteps
<1>a. row' = row /\ row.sections \in Nat
  BY QueueAssumption DEF Next, Typed, WorldTyped
<1>2. /\ ckpt' \in [Id -> Nat] /\ prints' \in [Id -> Nat]
      /\ \A j \in Id : ckpt'[j] <= row.sections
  <2>1. /\ ckpt \in [Id -> Nat] /\ prints \in [Id -> Nat] /\ workers \in Workers
        /\ \A j \in Id : ckpt[j] <= row.sections
    BY DEF Typed, TablesTyped, TasksTyped, FilesTyped, Workers
  <2>2. CASE \E w \in Worker :
               /\ IsAt(w, "aligning") /\ workers[w].done + 1 <= row.sections
               /\ ckpt' = [ckpt EXCEPT ![workers[w].job] = workers[w].done + 1]
               /\ prints' = [prints EXCEPT ![workers[w].job] = workers[w].print]
    <3>1. PICK w \in Worker :
               /\ IsAt(w, "aligning") /\ workers[w].done + 1 <= row.sections
               /\ ckpt' = [ckpt EXCEPT ![workers[w].job] = workers[w].done + 1]
               /\ prints' = [prints EXCEPT ![workers[w].job] = workers[w].print]
      BY <2>2
    <3> DEFINE done == workers[w].done + 1
    <3>2. done \in Nat /\ workers[w].print \in Nat /\ done <= row.sections
      BY <2>1, <3>1 DEF IsAt, Workers, WorkerState
    <3> HIDE DEF done
    <3>3. ckpt' = [ckpt EXCEPT ![workers[w].job] = done]
      BY <3>1 DEF done
    <3> QED BY <2>1, <3>1, <3>2, <3>3
  <2>3. CASE \E j \in Id : ckpt' = [ckpt EXCEPT ![j] = 0] /\ prints' = prints
    BY <1>a, <2>1, <2>3
  <2>4. CASE ckpt' = ckpt /\ prints' = prints
    BY <2>1, <2>4
  <2> QED BY <1>1, <2>2, <2>3, <2>4 DEF CkptStep
<1>3. TablesTyped'
  <2>1. nextId' \in Int /\ nextId' >= nextId
    BY <1>1, HistoryGrows
  <2> QED BY <1>1, <1>2, <2>1 DEF TablesTyped, TableStep, Typed
<1>4. calls' \in [Caller -> Call \cup {None}]
  <2>1. calls \in [Caller -> Call \cup {None}]
    BY DEF Typed, TasksTyped
  <2>2. \/ calls' = calls
        \/ \E c \in Caller : calls' = [calls EXCEPT ![c] = None]
        \/ \E c \in Caller, call \in Call : calls' = [calls EXCEPT ![c] = call]
        \/ calls' = [c \in Caller |-> None]
    BY CallsSteps
  <2> QED BY <2>1, <2>2
<1>5. TasksTyped'
  BY <1>1, <1>4, BatchSteps, ResumingIsTyped DEF TasksTyped, WorkersStep, Workers
<1>6. UpdatesTyped'
  BY UpdatesAreTyped
<1>7. WorldTyped'
  <2>1. row \in Rows
    BY DEF Typed, WorldTyped
  <2> QED BY <1>1, <2>1, UsedGrows, ReadableSteps, HistoryGrows DEF WorldTyped
<1>8. FilesTyped'
  BY <1>a, <1>2, InputsAreTyped DEF FilesTyped
<1> QED BY <1>3, <1>5, <1>6, <1>7, <1>8 DEF Typed

(* A job is known to the requests and the tables only once created.        *)
LEMMA FreshKeeps ==
  ASSUME Typed, FreshInv, Next
  PROVE  FreshInv'
<1>1. TableStep
  BY TableSteps
<1>2. /\ nextId \in Int /\ nextId' \in Int /\ nextId' >= nextId
      /\ calls \in [Caller -> Call \cup {None}] /\ jobs \in Table
      /\ \A j \in Id : j \in Int
  BY <1>1, HistoryGrows DEF Typed, TablesTyped, TasksTyped, Id
<1>3. ASSUME NEW j \in Id, j >= nextId'
      PROVE  jobs'[j] = None /\ disk'[j] = None
  BY <1>1, <1>2, <1>3, AbsentStays DEF FreshInv
<1>a. ASSUME NEW call \in Call PROVE call.job \in Int
  BY <1>a, <1>2 DEF Call
<1>4. ASSUME NEW c \in Caller, calls'[c] # None
      PROVE  calls'[c].job < nextId'
  <2>1. CASE calls' = calls \/ \E d \in Caller : calls' = [calls EXCEPT ![d] = None]
    <3>1. calls'[c] = calls[c]
      BY <1>2, <1>4, <2>1
    <3>2. calls[c].job < nextId /\ calls[c].job \in Int
      BY <1>2, <1>4, <1>a, <3>1 DEF FreshInv
    <3> QED BY <1>2, <3>1, <3>2
  <2>2. CASE \E d \in Caller, call \in Call :
               /\ calls' = [calls EXCEPT ![d] = call]
               /\ call.job \in Unfinished(jobs) \/ (call.job = nextId /\ nextId' = nextId + 1)
    <3>1. PICK d \in Caller, call \in Call :
               /\ calls' = [calls EXCEPT ![d] = call]
               /\ call.job \in Unfinished(jobs) \/ (call.job = nextId /\ nextId' = nextId + 1)
      BY <2>2
    <3>2. call.job \in Int /\ call.job \in Id
      BY <1>a DEF Call
    <3>3. CASE call.job \in Unfinished(jobs)
      <4>1. jobs[call.job] # None
        BY <3>3 DEF Unfinished, Active, Queued, InStatus, Tracked
      <4>2. call.job < nextId
        BY <1>2, <3>2, <4>1 DEF FreshInv
      <4>3. CASE c = d
        BY <1>2, <3>1, <3>2, <4>2, <4>3
      <4>4. CASE c # d
        <5>1. calls'[c] = calls[c]
          BY <1>2, <3>1, <4>4
        <5>2. calls[c].job < nextId /\ calls[c].job \in Int
          BY <1>2, <1>4, <1>a, <5>1 DEF FreshInv
        <5> QED BY <1>2, <5>1, <5>2
      <4> QED BY <4>3, <4>4
    <3>4. CASE call.job = nextId /\ nextId' = nextId + 1
      <4>3. CASE c = d
        BY <1>2, <3>1, <3>2, <3>4, <4>3
      <4>4. CASE c # d
        <5>1. calls'[c] = calls[c]
          BY <1>2, <3>1, <4>4
        <5>2. calls[c].job < nextId /\ calls[c].job \in Int
          BY <1>2, <1>4, <1>a, <5>1 DEF FreshInv
        <5> QED BY <1>2, <5>1, <5>2
      <4> QED BY <4>3, <4>4
    <3> QED BY <3>1, <3>3, <3>4
  <2>3. CASE calls' = [d \in Caller |-> None]
    BY <1>4, <2>3
  <2> QED BY <2>1, <2>2, <2>3, CallsSteps
<1>5. ASSUME NEW a \in accepted'
      PROVE  a.job < nextId'
  <2>1. a \in [job : Id, wanted : SUBSET Chapter] /\ a.job \in Int
    BY <1>1, <1>2, HistoryGrows
  <2>2. CASE a \in accepted
    BY <1>2, <2>1, <2>2 DEF FreshInv
  <2>3. CASE \E c \in Caller : calls[c] # None /\ a = [job |-> calls[c].job, wanted |-> calls[c].wanted]
    <3>1. PICK c \in Caller : calls[c] # None /\ a.job = calls[c].job
      BY <2>3
    <3>2. calls[c].job < nextId
      BY <3>1 DEF FreshInv
    <3> QED BY <1>2, <2>1, <3>1, <3>2
  <2>4. CASE \E i \in Id : i < nextId' /\ a = [job |-> i, wanted |-> {}]
    BY <2>4
  <2>5. \/ accepted' = accepted
        \/ \E c \in Caller : calls[c] # None /\
             accepted' = accepted \cup {[job |-> calls[c].job, wanted |-> calls[c].wanted]}
        \/ \E ids \in SUBSET Id : /\ \A i \in ids : i < nextId'
                                  /\ accepted' = accepted \cup {[job |-> i, wanted |-> {}] : i \in ids}
    <3>1. CASE BeginsMany
      BY <3>1 DEF BeginsMany
    <3>2. CASE Answers
      BY <3>2 DEF Answers
    <3>3. CASE UNCHANGED accepted
      BY <3>3
    <3> QED BY <1>1, <3>1, <3>2, <3>3
            DEF TableStep, FinishesOne, RemovesOne, BeginsOne, Revives, Restarts, historyVars
  <2> QED BY <2>2, <2>3, <2>4, <2>5
<1> QED BY <1>3, <1>4, <1>5 DEF FreshInv

-----------------------------------------------------------------------------
(* The slot.                                                               *)

\* The one slot is taken once.
SlotInv == \A v, w \in Worker : AtWork(v) /\ AtWork(w) => v = w

\* A run goes on from its job's checkpoint, if it may.
DoneInv == \A w \in Worker : IsAt(w, "pausing") \/ IsAt(w, "aligning") => GoesOn(w)

(* Only a worker that claims the free slot comes to be at work.            *)
LEMMA AtWorkSteps ==
  ASSUME Typed, WorkersStep, NEW v \in Worker, AtWork(v)'
  PROVE  \/ AtWork(v) /\ workers'[v].job = workers[v].job
         \/ /\ SlotIsFree /\ workers'[v].job \in Running(jobs')
            /\ workers'[v].at = "starting"
            /\ \A w \in Worker \ {v} : Wakes(workers, workers', w)
<1>1. workers'[v] # None /\ workers'[v].at \in {"starting", "pausing", "aligning", "failing", "publishing"}
  BY DEF AtWork
<1>2. CASE Wakes(workers, workers', v)
  BY <1>1, <1>2 DEF Wakes, AtWork
<1>3. CASE Changes(v) /\ \A w \in Worker \ {v} : Wakes(workers, workers', w)
  BY <1>1, <1>3 DEF Changes, AtWork, IsAt
<1> QED BY <1>1, <1>2, <1>3 DEF WorkersStep

(* The slot is taken only when it is free.                                 *)
LEMMA SlotKeeps ==
  ASSUME Typed, SlotInv, WorkersStep
  PROVE  SlotInv'
<1> SUFFICES ASSUME NEW v \in Worker, NEW w \in Worker, AtWork(v)', AtWork(w)', v # w
             PROVE  FALSE
  BY DEF SlotInv
<1>1. ASSUME NEW u \in Worker, SlotIsFree, Wakes(workers, workers', u)
      PROVE  ~AtWork(u)'
  BY <1>1 DEF Wakes, SlotIsFree, AtWork
<1>2. AtWork(v) \/ (SlotIsFree /\ \A u \in Worker \ {v} : Wakes(workers, workers', u))
  BY AtWorkSteps
<1>3. AtWork(w) \/ (SlotIsFree /\ \A u \in Worker \ {w} : Wakes(workers, workers', u))
  BY AtWorkSteps
<1>4. CASE AtWork(v) /\ AtWork(w)
  BY <1>4 DEF SlotInv
<1>5. CASE SlotIsFree /\ \A u \in Worker \ {v} : Wakes(workers, workers', u)
  BY <1>1, <1>5
<1>6. CASE SlotIsFree /\ \A u \in Worker \ {w} : Wakes(workers, workers', u)
  BY <1>1, <1>6
<1> QED BY <1>2, <1>3, <1>4, <1>5, <1>6

(* A run that is not told to start again goes on from its checkpoint.      *)
LEMMA DoneKeeps ==
  ASSUME Typed, SlotInv, DoneInv, WorkersStep, CkptStep
  PROVE  DoneInv'
<1>0. workers \in Workers /\ ckpt \in [Id -> Nat] /\ prints \in [Id -> Nat]
  BY DEF Typed, TablesTyped, TasksTyped, FilesTyped, Workers
<1> SUFFICES ASSUME NEW w \in Worker, IsAt(w, "pausing")' \/ IsAt(w, "aligning")'
             PROVE  GoesOn(w)'
  BY DEF DoneInv
<1>1. workers'[w] # None /\ workers'[w].at \in {"pausing", "aligning"} /\ workers'[w] \in WorkerState
  BY DEF IsAt, WorkersStep, Workers
<1>3. CASE workers'[w] = workers[w]
  <2> DEFINE j == workers[w].job
  <2>1. GoesOn(w) /\ AtWork(w) /\ j \in Id /\ workers[w].done \in Nat
    BY <1>1, <1>3 DEF DoneInv, IsAt, AtWork, WorkerState
  <2>2. CASE ckpt' = ckpt /\ prints' = prints
    BY <1>3, <2>1, <2>2 DEF GoesOn
  <2>3. CASE \E i \in Id : ckpt' = [ckpt EXCEPT ![i] = 0] /\ prints' = prints
    <3>1. (ckpt'[j] = ckpt[j] \/ ckpt'[j] = 0) /\ prints' = prints
      BY <1>0, <2>1, <2>3
    <3>2. 0 <= workers[w].done
      BY <2>1
    <3> QED BY <1>3, <2>1, <3>1, <3>2 DEF GoesOn
  <2>4. CASE \E v \in Worker : IsAt(v, "aligning") /\ workers'[v].at = "pausing"
    <3>1. PICK v \in Worker : IsAt(v, "aligning") /\ workers'[v].at = "pausing"
      BY <2>4
    <3>2. v = w
      BY <2>1, <3>1 DEF SlotInv, AtWork, IsAt
    <3>3. workers[w].at = "aligning" /\ workers'[w].at = "pausing"
      BY <3>1, <3>2 DEF IsAt
    <3> QED BY <1>3, <3>3
  <2> QED BY <2>2, <2>3, <2>4 DEF CkptStep
<1>4. CASE Changes(w)
  <2>1. \/ GoesOn(w)'
        \/ /\ workers'[w].job = workers[w].job /\ workers'[w].print = workers[w].print
           /\ IsAt(w, "pausing") /\ workers'[w].done = workers[w].done
           /\ ckpt' = ckpt /\ prints' = prints
    BY <1>1, <1>4 DEF Changes, IsAt
  <2>2. CASE /\ workers'[w].job = workers[w].job /\ workers'[w].print = workers[w].print
             /\ IsAt(w, "pausing") /\ workers'[w].done = workers[w].done
             /\ ckpt' = ckpt /\ prints' = prints
    BY <2>2 DEF DoneInv, GoesOn
  <2> QED BY <2>1, <2>2
<1> QED BY <1>1, <1>3, <1>4 DEF WorkersStep, Wakes

\* What a step may do to the sections of one job.
Advances(j) ==
  /\ ckpt'[j] < ckpt[j] =>
       \/ jobs'[j] = None
       \/ \E w \in Worker : /\ workers'[w] # None /\ workers'[w].job = j
                            /\ workers'[w].at \in {"failing", "publishing"}
       \/ prints'[j] # prints[j] /\ ckpt'[j] = 1
  /\ ckpt'[j] > ckpt[j] => prints'[j] = prints[j] \/ ckpt'[j] = 1

(* Sections are given up with the job, or for those of other inputs, and   *)
(* never mixed with them.                                                  *)
LEMMA SectionsAdvance ==
  ASSUME Typed, SlotInv, DoneInv, CkptStep, NEW j \in Id
  PROVE  Advances(j)
<1>0. workers \in Workers /\ ckpt \in [Id -> Nat] /\ prints \in [Id -> Nat]
  BY DEF Typed, TablesTyped, TasksTyped, FilesTyped, Workers
<1>1. ckpt[j] \in Nat
  BY <1>0
<1>2. CASE ckpt' = ckpt
  BY <1>1, <1>2 DEF Advances
<1>3. CASE \E i \in Id :
             /\ ckpt' = [ckpt EXCEPT ![i] = 0]
             /\ \/ jobs'[i] = None
                \/ \E w \in Worker : /\ workers'[w] # None /\ workers'[w].job = i
                                     /\ workers'[w].at \in {"failing", "publishing"}
  <2>1. PICK i \in Id :
             /\ ckpt' = [ckpt EXCEPT ![i] = 0]
             /\ \/ jobs'[i] = None
                \/ \E w \in Worker : /\ workers'[w] # None /\ workers'[w].job = i
                                     /\ workers'[w].at \in {"failing", "publishing"}
    BY <1>3
  <2>2. CASE i = j
    <3>1. ckpt'[j] = 0
      BY <1>0, <2>1, <2>2
    <3> QED BY <1>1, <2>1, <2>2, <3>1 DEF Advances
  <2>3. CASE i # j
    <3>1. ckpt'[j] = ckpt[j]
      BY <1>0, <2>1, <2>3
    <3> QED BY <1>1, <3>1 DEF Advances
  <2> QED BY <2>2, <2>3
<1>4. CASE \E w \in Worker :
             /\ IsAt(w, "aligning")
             /\ ckpt' = [ckpt EXCEPT ![workers[w].job] = workers[w].done + 1]
             /\ prints' = [prints EXCEPT ![workers[w].job] = workers[w].print]
  <2>1. PICK w \in Worker :
             /\ IsAt(w, "aligning")
             /\ ckpt' = [ckpt EXCEPT ![workers[w].job] = workers[w].done + 1]
             /\ prints' = [prints EXCEPT ![workers[w].job] = workers[w].print]
    BY <1>4
  <2>2. workers[w].job \in Id /\ workers[w].done \in Nat
    BY <1>0, <2>1 DEF IsAt, Workers, WorkerState
  <2>3. GoesOn(w)
    BY <2>1 DEF DoneInv
  <2>4. CASE workers[w].job = j
    <3>1. ckpt'[j] = workers[w].done + 1 /\ prints'[j] = workers[w].print
      BY <1>0, <2>1, <2>2, <2>4
    <3>2. prints[j] = workers[w].print => ckpt[j] <= workers[w].done
      BY <2>3, <2>4 DEF GoesOn
    <3>3. prints[j] # workers[w].print => ckpt'[j] = 1
      BY <2>2, <2>3, <2>4, <3>1 DEF GoesOn
    <3>4. CASE prints[j] = workers[w].print
      BY <1>1, <2>2, <3>1, <3>2, <3>4 DEF Advances
    <3>5. CASE prints[j] # workers[w].print
      BY <3>1, <3>3, <3>5 DEF Advances
    <3> QED BY <3>4, <3>5
  <2>5. CASE workers[w].job # j
    <3>1. ckpt'[j] = ckpt[j]
      BY <1>0, <2>1, <2>2, <2>5
    <3> QED BY <1>1, <3>1 DEF Advances
  <2> QED BY <2>4, <2>5
<1> QED BY <1>2, <1>3, <1>4 DEF CkptStep

-----------------------------------------------------------------------------
(* Runs.                                                                   *)

\* How a job stops to be, or comes to be, running.
RunningStep ==
  /\ Running(disk') \subseteq Running(jobs) \cup Running(disk)
  /\ \/ Running(jobs') \subseteq Running(jobs)
     \/ ~NoReaders
  /\ \/ Running(jobs) \subseteq Running(jobs')
     \/ \E w \in Worker : /\ AtWork(w) /\ workers'[w] = None
                          /\ Running(jobs) \ {workers[w].job} \subseteq Running(jobs')
     \/ \E w \in Worker : IsAt(w, "fallen")
     \/ used'.errors > 0 \/ readable # Book
     \/ NoReaders \/ writer # 0
     \/ \A w \in Worker : workers'[w] = None

(* No update has the token that stands for none.                           *)
LEMMA TokensArePositive == \A t \in Token : t \in Int /\ t > 0
<1> DEFINE n == Cardinality(Token)
<1>1. n \in Nat /\ Token = 1 .. n
  BY QueueAssumption, FS_CardinalityType
<1> HIDE DEF n
<1> QED BY <1>1

(* A job is running from its claim until its worker, an update or a        *)
(* restart ends the run.                                                   *)
LEMMA RunningSteps ==
  ASSUME Typed, FreshInv, Next
  PROVE  RunningStep
<1>0. /\ jobs \in Table /\ disk \in Table /\ TablesTyped /\ used \in [Kind -> Nat]
      /\ row \in Rows /\ workers \in Workers
  BY DEF Typed, TablesTyped, WorldTyped, TasksTyped, Workers
<1>a. ASSUME Running(jobs') = Running(jobs), Running(disk') \subseteq Running(jobs) \cup Running(disk)
      PROVE  RunningStep
  BY <1>a DEF RunningStep
<1>b. ASSUME UNCHANGED <<jobs, disk>>
      PROVE  RunningStep
  BY <1>b DEF RunningStep
<1>c. ASSUME NEW entry \in Entry, NEW status \in Over, FinishJob(entry.job, status),
             entry.book \notin readable
      PROVE  RunningStep
  <2>1. entry.job \in Id /\ entry.book \in Book
    BY DEF Entry
  <2>2. /\ Running(jobs') \subseteq Running(jobs)
        /\ Running(disk') \subseteq Running(jobs) \cup Running(disk)
    BY <1>0, <1>c, <2>1, FinishedTables DEF Running
  <2> QED BY <1>c, <2>1, <2>2 DEF RunningStep
<1>1. CASE \E c \in Caller : \E ask \in row.wanted : EnqueueBegin(c, ask[1], ask[2])
  <2>1. PICK c \in Caller, ask \in row.wanted : EnqueueBegin(c, ask[1], ask[2])
    BY <1>1
  <2>2. ask[1] \in Book /\ ask[2] \in SUBSET Chapter
    BY <1>0, <2>1, QueueAssumption
  <2>3. disk' = disk
    BY <2>1 DEF EnqueueBegin
  <2>4. Running(jobs') = Running(jobs)
    BY <2>1, <2>2, BegunTables DEF Running
  <2> QED BY <1>a, <2>3, <2>4
<1>2. CASE \E c \in Caller : EnqueueCommit(c)
  <2>1. PICK c \in Caller : EnqueueCommit(c)
    BY <1>2
  <2>2. /\ Running(jobs') \subseteq Running(jobs)
        /\ Running(jobs') = Running(jobs) \/ used'.errors > 0
        /\ Running(disk') \subseteq Running(jobs) \cup Running(disk)
    BY <2>1, CommittedTables
  <2> QED BY <2>2 DEF RunningStep
<1>3. CASE \E books \in row.batches : \E new \in Orders(WithoutWork(books)) : EnqueueBatch(new)
  <2>0. PICK books \in row.batches : \E new \in Orders(WithoutWork(books)) : EnqueueBatch(new)
    BY <1>3
  <2>1. PICK new \in Orders(WithoutWork(books)) : EnqueueBatch(new)
    BY <2>0
  <2>2. WithoutWork(books) \in SUBSET Book
    BY <1>0, <2>0, QueueAssumption DEF WithoutWork
  <2>3. /\ Len(new) \in Nat /\ new \in [1 .. Len(new) -> WithoutWork(books)]
        /\ \A k, l \in 1 .. Len(new) : new[k] = new[l] => k = l
    BY <2>1, <2>2, OrdersList
  <2>4. new \in [1 .. Len(new) -> Book] /\ \A k \in 1 .. Len(new) : SameWork(jobs, new[k]) = {}
    BY <2>2, <2>3 DEF WithoutWork
  <2>5. Running(jobs') = Running(jobs) /\ Running(disk') \subseteq Running(jobs) \cup Running(disk)
    BY <2>1, <2>3, <2>4, BatchedTables
  <2> QED BY <1>a, <2>5
<1>4. CASE DispatchNext
  <2>1. Head(batch) \in Entry
    BY <1>4, DispatchedTables
  <2>2. CASE Quiet /\ Running(jobs') = Running(jobs)
    BY <1>a, <2>2 DEF Quiet
  <2> QED BY <1>4, <1>c, <2>1, <2>2, DispatchedTables
<1>5. CASE \E origin \in Origin : ResumeNext(origin)
  <2>0. PICK origin \in Origin : ResumeNext(origin)
    BY <1>5
  <2>1. Head(resuming[origin]) \in Entry
    BY <2>0, RecoveredTables
  <2> QED BY <2>0, <1>a, <1>b, <1>c, <2>1, RecoveredTables
<1>6. CASE \E j \in Id : (\E up \in BOOLEAN : Move(j, up)) \/ Pause(j) \/ Resume(j) \/ RemoveJob(j)
  <2>1. PICK j \in Id : (\E up \in BOOLEAN : Move(j, up)) \/ Pause(j) \/ Resume(j) \/ RemoveJob(j)
    BY <1>6
  <2>2. Running(jobs') = Running(jobs) /\ Running(disk') \subseteq Running(jobs) \cup Running(disk)
    BY <2>1, MovedTables, PausedTables, ResumedTables, RemovedTables
  <2> QED BY <1>a, <2>2
<1>7. CASE \E w \in Worker : Claim(w)
  <2>1. PICK w \in Worker : Claim(w)
    BY <1>7
  <2>2. Running(jobs) \subseteq Running(jobs') /\ disk' = disk
    BY <2>1, ClaimedTables DEF Claim
  <2>3. ~NoReaders
    BY <2>1 DEF Claim, IsAt, NoReaders, IsReader
  <2> QED BY <2>2, <2>3 DEF RunningStep
<1>8. CASE \E w \in Worker : StopForPause(w)
  <2>1. PICK w \in Worker : StopForPause(w)
    BY <1>8
  <2>2. AtWork(w) /\ Running(jobs') \subseteq Running(jobs)
        /\ Running(jobs) \ {workers[w].job} \subseteq Running(jobs')
        /\ Running(disk') \subseteq Running(jobs) \cup Running(disk)
    BY <2>1, StoppedTables
  <2>3. workers'[w] = None \/ used'.errors > 0
    <3>1. Leaves(w) \/ used'.errors > 0
      BY <2>1, StoppedTables
    <3> QED BY <1>0, <3>1, LeftWorkers
  <2> QED BY <2>2, <2>3 DEF RunningStep
<1>9. CASE \E w \in Worker : Report(w)
  <2>1. PICK w \in Worker : Report(w)
    BY <1>9
  <2>2. AtWork(w) /\ Leaves(w) /\ \E status \in Over : FinishJob(workers[w].job, status)
    BY <2>1 DEF Report, IsAt, AtWork, Over
  <2>3. workers[w].job \in Id
    BY <1>0, <2>2 DEF AtWork, Workers, WorkerState
  <2>4. /\ Running(jobs') \subseteq Running(jobs)
        /\ \A i \in Unfinished(jobs) \ {workers[w].job} : jobs'[i] = jobs[i]
        /\ Running(disk') \subseteq Running(jobs) \cup Running(disk)
    BY <1>0, <2>2, <2>3, FinishedTables DEF Running
  <2>5. Running(jobs) \ {workers[w].job} \subseteq Running(jobs')
    BY <2>4 DEF Running, Unfinished, Active, InStatus, Tracked
  <2>6. workers'[w] = None
    BY <1>0, <2>2, LeftWorkers
  <2> QED BY <2>2, <2>4, <2>5, <2>6 DEF RunningStep
<1>10. CASE \E w \in Worker : RequeueFallen(w)
  <2>1. PICK w \in Worker : RequeueFallen(w)
    BY <1>10
  <2>2. IsAt(w, "fallen") /\ Running(jobs') \subseteq Running(jobs)
        /\ Running(disk') \subseteq Running(jobs) \cup Running(disk)
    BY <2>1, RequeuedTables
  <2> QED BY <2>2 DEF RunningStep
<1>11. CASE \E t \in Token : HoldForUpdate(t) \/ UndoUpdate(t)
  <2>1. PICK t \in Token : HoldForUpdate(t) \/ UndoUpdate(t)
    BY <1>11
  <2>2. jobs' = SavedForUpdate(jobs) /\ TriesToSave(SavedForUpdate(jobs))
    BY <2>1 DEF HoldForUpdate, UndoUpdate, TriesToSave
  <2>3. Running(jobs') = {} /\ Running(disk') \subseteq Running(disk)
    BY <2>2, SavedTables
  <2>4. NoReaders \/ writer # 0
    <3>1. t # 0
      BY TokensArePositive
    <3> QED BY <2>1, <3>1 DEF HoldForUpdate, UndoUpdate
  <2> QED BY <2>3, <2>4 DEF RunningStep
<1>12. CASE Crash \/ Handoff
  <2>1. Restart
    BY <1>12 DEF Crash, Handoff
  <2>2. Running(jobs') = {} /\ disk' = disk
    BY <2>1, RestartedTables
  <2>3. \A w \in Worker : workers'[w] = None
    BY <2>1 DEF Restart
  <2> QED BY <2>2, <2>3 DEF RunningStep
<1>13. CASE \E w \in Worker : \/ Check(w) \/ ReadCheckpoint(w) \/ ContinueRun(w) \/ AlignSection(w)
                              \/ PublishMap(w) \/ StopForUpdate(w) \/ FailRun(w) \/ Panic(w)
  <2>1. UNCHANGED <<jobs, disk>>
    BY <1>13 DEF Check, ReadCheckpoint, ReadsCheckpoint, ContinueRun, AlignSection, PublishMap, StopForUpdate,
       FailRun, Panic, tableVars
  <2> QED BY <1>b, <2>1
<1>14. CASE \/ \E t \in Token : BeginUpdate(t) \/ KeepUpdate(t) \/ AbandonUpdate(t)
            \/ \E book \in Book : Rescan(book)
            \/ \E j \in Id : InputsChange(j)
            \/ \E c \in Caller : CallerGone(c)
            \/ \E origin \in Origin : StartResume(origin)
  <2>1. UNCHANGED <<jobs, disk>>
    BY <1>14 DEF BeginUpdate, KeepUpdate, AbandonUpdate, Rescan, InputsChange, CallerGone, StartResume, tableVars
  <2> QED BY <1>b, <2>1
<1>15. CASE \E w \in Worker : WorkerStep(w) \/ FailRun(w) \/ Panic(w)
  BY <1>7, <1>8, <1>9, <1>10, <1>13, <1>15 DEF WorkerStep
<1>16. CASE \E c \in Caller : \/ \E ask \in row.wanted : EnqueueBegin(c, ask[1], ask[2])
                              \/ EnqueueCommit(c) \/ CallerGone(c)
  BY <1>1, <1>2, <1>14, <1>16
<1>17. CASE \E origin \in Origin : StartResume(origin) \/ ResumeNext(origin)
  BY <1>5, <1>14, <1>17
<1>18. CASE \E t \in Token : \/ BeginUpdate(t) \/ HoldForUpdate(t) \/ KeepUpdate(t)
                             \/ AbandonUpdate(t) \/ UndoUpdate(t)
  BY <1>11, <1>14, <1>18
<1> QED
  BY <1>3, <1>4, <1>6, <1>12, <1>14, <1>15, <1>16, <1>17, <1>18 DEF Next, QueueStep

\* What is known of runs while some things have not gone wrong.
RunInv ==
  /\ used.rescans = 0 => readable = Book
  /\ used.panics = 0 => \A w \in Worker : ~IsAt(w, "fallen")
  /\ used.errors + used.panics + used.rescans = 0 =>
       \A w \in Worker : AtWork(w) => workers[w].job \in Running(jobs)
  /\ used.rescans = 0 => \A w \in Worker : AtWork(w) => workers[w].job \notin Finished(jobs)

(* Who is at work excludes everyone who has none of the locks.             *)
LEMMA IdleQueueHasNoRuns ==
  ASSUME Typed, NoReaders
  PROVE  \A w \in Worker : ~AtWork(w)
BY DEF NoReaders, IsReader, AtWork

(* What a worker is aligning runs on in the table.                         *)
LEMMA RunKeeps ==
  ASSUME Typed, SlotInv, RunInv, writer # 0 => NoReaders,
         TableStep, WorkersStep, RunningStep, Next
  PROVE  RunInv'
<1>0. /\ used \in [Kind -> Nat] /\ used' \in [Kind -> Nat]
      /\ \A what \in Kind : used'[what] >= used[what]
      /\ readable' = readable \/ used'.rescans > 0
      /\ jobs \in Table /\ jobs' \in Table /\ workers \in Workers
  BY UsedGrows, ReadableSteps DEF Typed, TablesTyped, WorldTyped, TasksTyped, Workers, TableStep
<1>1. /\ used.errors \in Nat /\ used.panics \in Nat /\ used.rescans \in Nat
      /\ used'.errors \in Nat /\ used'.panics \in Nat /\ used'.rescans \in Nat
      /\ used'.errors >= used.errors /\ used'.panics >= used.panics /\ used'.rescans >= used.rescans
  BY <1>0 DEF Kind
<1>2. used'.rescans = 0 => used.rescans = 0 /\ readable = Book /\ readable' = Book
  BY <1>0, <1>1 DEF RunInv
<1>3. ASSUME used'.panics = 0, NEW v \in Worker
      PROVE  ~IsAt(v, "fallen")'
  <2>1. ~IsAt(v, "fallen")
    BY <1>1, <1>3 DEF RunInv
  <2>2. CASE Wakes(workers, workers', v)
    BY <2>1, <2>2 DEF Wakes, IsAt
  <2>3. CASE Changes(v)
    BY <1>3, <2>1, <2>3 DEF Changes, IsAt
  <2> QED BY <2>2, <2>3 DEF WorkersStep, IsAt
<1>4. ASSUME used'.errors + used'.panics + used'.rescans = 0, NEW v \in Worker, AtWork(v)'
      PROVE  workers'[v].job \in Running(jobs')
  <2>1. /\ used.errors + used.panics + used.rescans = 0
        /\ used'.errors = 0 /\ used.panics = 0 /\ readable = Book
    BY <1>1, <1>2, <1>4
  <2>2. CASE AtWork(v) /\ workers'[v].job = workers[v].job
    <3>1. workers[v].job \in Running(jobs)
      BY <2>1, <2>2 DEF RunInv
    <3>2. ~NoReaders /\ writer = 0
      BY <2>2, IdleQueueHasNoRuns
    <3>3. \A w \in Worker : ~IsAt(w, "fallen")
      BY <2>1 DEF RunInv
    <3>4. workers'[v] # None
      BY <1>4 DEF AtWork
    <3>5. CASE \E w \in Worker : /\ AtWork(w) /\ workers'[w] = None
                                 /\ Running(jobs) \ {workers[w].job} \subseteq Running(jobs')
      BY <2>2, <3>4, <3>5 DEF SlotInv
    <3>6. CASE Running(jobs) \subseteq Running(jobs')
      BY <2>2, <3>1, <3>6
    <3>7. used'.errors \in Nat
      BY <1>1
    <3> QED BY <2>1, <3>2, <3>3, <3>4, <3>5, <3>6 DEF RunningStep
  <2> QED BY <1>4, <2>2, AtWorkSteps
<1>5. ASSUME used'.rescans = 0, NEW v \in Worker, AtWork(v)'
      PROVE  workers'[v].job \notin Finished(jobs')
  <2> DEFINE j == workers'[v].job
  <2>1. CASE j \in Running(jobs')
    BY <2>1 DEF Running, Finished, Unfinished, Active
  <2>2. CASE AtWork(v) /\ j = workers[v].job
    <3>1. j \notin Finished(jobs) /\ j \in Id
      BY <1>0, <1>2, <1>5, <2>2 DEF RunInv, AtWork, Workers, WorkerState
    <3>2. Stage(jobs, j) \notin Over
      BY <1>0, <3>1, StagesTell
    <3> HIDE DEF j
    <3>3. SUFFICES Stage(jobs', j) \notin Over
      BY <1>0, <3>1, StagesTell DEF j
    <3>a. "none" \notin Over /\ "unfinished" \notin Over
      BY DEF Over
    <3>b. ASSUME NEW table \in Table, Stage(table, j) \notin Over, Writes(table) \/ Fails(table)
          PROVE  Stage(jobs', j) \notin Over
      <4>1. Stage(jobs', j) # "none" => jobs'[j] # None
        BY DEF Stage
      <4> QED BY <3>1, <3>b, <3>a, <4>1 DEF Writes, Fails, Trims, Narrows
    <3>4. CASE Quiet
      BY <3>1, <3>2, <3>a, <3>4 DEF Quiet, Trims
    <3>5. CASE Rewrites \/ Answers
      <4>1. PICK table \in Table : Same(jobs, table) /\ (Writes(table) \/ Fails(table))
        BY <3>5 DEF Rewrites, Answers
      <4>2. Stage(table, j) \notin Over
        BY <3>1, <3>2, <4>1 DEF Same
      <4> QED BY <3>b, <4>1, <4>2
    <3>6. CASE FinishesOne
      <4>1. PICK i \in Id : /\ Finishes(i)
                            /\ \/ readable # Book
                               \/ \E w \in Worker : AtWork(w) /\ workers[w].job = i /\ workers'[w] = None
        BY <3>6 DEF FinishesOne
      <4>2. workers'[v] # None /\ readable = Book
        BY <1>2, <1>5 DEF AtWork
      <4>3. FALSE
        BY <2>2, <4>1, <4>2 DEF SlotInv
      <4> QED BY <4>3
    <3>7. CASE RemovesOne
      <4>1. PICK i \in Id, table \in Table :
              /\ table[i] = None /\ \A k \in Id \ {i} : table[k] = jobs[k]
              /\ jobs' \in {jobs, table}
        BY <3>7 DEF RemovesOne, Removes
      <4>2. Stage(table, j) \notin Over
        BY <3>1, <3>2, <3>a, <4>1 DEF Stage
      <4> QED BY <3>2, <4>1, <4>2
    <3>8. CASE BeginsOne \/ BeginsMany
      <4>1. PICK ids \in SUBSET Id, table \in Table :
              /\ Begins(jobs, table, ids)
              /\ Drops(table, jobs') \/ Drops(jobs, jobs') \/ Trims(table, jobs')
        <5>1. CASE BeginsOne
          BY <5>1 DEF BeginsOne
        <5>2. CASE BeginsMany
          BY <5>2 DEF BeginsMany
        <5> QED BY <3>8, <5>1, <5>2
      <4>2. Stage(table, j) \notin Over
        BY <3>1, <3>2, <3>a, <4>1 DEF Begins, Stage
      <4>3. Trims(table, jobs') \/ Trims(jobs, jobs')
        BY <1>0, <4>1, DropsTrims
      <4> QED BY <3>1, <3>2, <3>a, <4>2, <4>3 DEF Trims
    <3>9. CASE Revives
      <4>1. PICK w \in Worker, table \in Table :
              /\ Stage(table, workers[w].job) = "unfinished"
              /\ \A k \in Id \ {workers[w].job} : table[k] = jobs[k]
              /\ jobs' \in {jobs, table}
        BY <3>9 DEF Revives
      <4>2. Stage(table, j) \notin Over
        BY <3>1, <3>2, <3>a, <4>1 DEF Stage
      <4> QED BY <3>2, <4>1, <4>2
    <3>10. CASE Restarts
      BY <1>5, <3>10 DEF Restarts, AtWork
    <3> QED BY <3>4, <3>5, <3>6, <3>7, <3>8, <3>9, <3>10 DEF TableStep
  <2> QED BY <1>5, <2>1, <2>2, AtWorkSteps
<1> QED BY <1>2, <1>3, <1>4, <1>5 DEF RunInv

-----------------------------------------------------------------------------
(* The queue file.                                                         *)

\* The file would give this job back.
IsKept(j) == j \in Unfinished(jobs) /\ j \notin dismissed => j \in Unfinished(disk)

(* A table that is written gives every job back.                           *)
LEMMA WritesKeeps ==
  ASSUME jobs' \in Table, NEW table \in Table, Writes(table), NEW j \in Id
  PROVE  j \in Unfinished(jobs') => /\ j \in Unfinished(disk')
                                    /\ disk'[j].pause = jobs'[j].pause
                                    /\ disk'[j].rank = jobs'[j].rank
<1> SUFFICES ASSUME j \in Unfinished(jobs')
             PROVE  /\ j \in Unfinished(disk')
                    /\ disk'[j].pause = jobs'[j].pause
                    /\ disk'[j].rank = jobs'[j].rank
  OBVIOUS
<1>1. /\ Snapshot(table) \in Table /\ Same(table, Snapshot(table)) /\ SamePlan(table, Snapshot(table))
      /\ disk' = Snapshot(table)
  BY SnapshotKeeps DEF Writes
<1>2. Stage(jobs', j) = "unfinished" /\ jobs'[j] # None
  BY StagesTell DEF Unfinished, Active, Queued, InStatus, Tracked
<1>3. Stage(table, j) = "unfinished"
  BY <1>2 DEF Writes, Trims
<1>4. Stage(disk', j) = "unfinished" /\ table[j] # None
  BY <1>1, <1>3, StagesTell DEF Same
<1>5. j \in Unfinished(disk') /\ disk'[j] # None
  BY <1>1, <1>4, StagesTell
<1> QED BY <1>1, <1>2, <1>4, <1>5 DEF Writes, SamePlan

(* A job that the file would give back stays in it.                        *)
LEMMA KeptStays ==
  ASSUME Typed, TableStep, NEW j \in Id, IsKept(j) \/ \E table \in Table : Writes(table),
         BeginsOne => j # nextId
  PROVE  IsKept(j)'
<1>0. jobs \in Table /\ disk \in Table /\ jobs' \in Table /\ disk' \in Table
  BY DEF Typed, TablesTyped, TableStep
<1> SUFFICES ASSUME j \in Unfinished(jobs'), j \notin dismissed'
             PROVE  j \in Unfinished(disk')
  BY DEF IsKept
<1>a. Stage(jobs', j) = "unfinished" /\ "unfinished" \notin Over /\ jobs'[j] # None
      /\ "none" # "unfinished"
  BY <1>0, StagesTell DEF Over, Unfinished, Active, Queued, InStatus, Tracked
<1>b. \A t \in Table : j \in Unfinished(t) <=> Stage(t, j) = "unfinished"
  BY StagesTell
<1>1. CASE \E table \in Table : Writes(table)
  BY <1>0, <1>1, WritesKeeps
<1>2. ASSUME ~\E table \in Table : Writes(table)
      PROVE  j \in Unfinished(disk')
  <2>1. j \notin dismissed
    BY HistoryGrows
  <2>2. Stage(jobs, j) = "unfinished" => Stage(disk, j) = "unfinished"
    BY <1>0, <1>2, <1>b, <2>1 DEF IsKept
  <2>3. \A t \in Table : Stage(Snapshot(t), j) = Stage(t, j) /\ Snapshot(t) \in Table
    BY SnapshotKeeps DEF Same
  <2>4. ASSUME NEW table \in Table, Stage(jobs, j) = Stage(table, j), disk' \in {disk, Snapshot(table)},
               Stage(table, j) = "unfinished"
        PROVE  j \in Unfinished(disk')
    BY <1>0, <1>b, <2>2, <2>3, <2>4
  <2>5. ASSUME NEW table, Fails(table)
        PROVE  Stage(table, j) = "unfinished" /\ disk' \in {disk, Snapshot(table)}
    BY <1>a, <2>5 DEF Fails, Narrows
  <2>6. CASE Quiet
    <3>1. Stage(jobs, j) = "unfinished" /\ disk' = disk
      BY <1>a, <2>6 DEF Quiet, Trims
    <3> QED BY <1>0, <1>b, <2>2, <3>1
  <2>7. CASE Rewrites
    <3>1. PICK table \in Table : Same(jobs, table) /\ Fails(table)
      BY <1>2, <2>7 DEF Rewrites
    <3>2. Stage(jobs, j) = Stage(table, j)
      BY <3>1 DEF Same
    <3> QED BY <2>4, <2>5, <3>1, <3>2
  <2>8. CASE FinishesOne
    <3>1. PICK i \in Id, table \in Table : Ends(jobs, table, i) /\ Fails(table)
      BY <1>2, <2>8 DEF FinishesOne, Finishes
    <3>2. Stage(table, j) = "unfinished" /\ disk' \in {disk, Snapshot(table)}
      BY <2>5, <3>1
    <3>3. Stage(jobs, j) = Stage(table, j)
      BY <1>a, <3>1, <3>2 DEF Ends
    <3> QED BY <2>4, <3>2, <3>3
  <2>9. CASE RemovesOne
    <3>1. PICK i \in Id, table \in Table :
            /\ table[i] = None /\ \A k \in Id \ {i} : table[k] = jobs[k]
            /\ \/ disk' = Snapshot(table) /\ jobs' = table
               \/ disk' \in {disk, Snapshot(table)} /\ jobs' = jobs
            /\ dismissed' = dismissed \cup {i}
      BY <2>9 DEF RemovesOne, Removes
    <3>2. j # i
      BY <3>1
    <3>3. Stage(jobs, j) = Stage(table, j)
      BY <3>1, <3>2 DEF Stage
    <3> QED BY <1>a, <2>4, <3>1, <3>3
  <2>10. CASE BeginsOne
    <3>1. PICK table \in Table : Begins(jobs, table, {nextId}) /\ Drops(table, jobs')
      BY <2>10 DEF BeginsOne
    <3>2. disk' = disk /\ j # nextId
      BY <2>10 DEF BeginsOne
    <3>3. jobs'[j] = table[j] /\ table[j] = jobs[j]
      BY <1>a, <3>1, <3>2 DEF Begins, Drops
    <3>4. Stage(jobs, j) = "unfinished"
      BY <1>a, <3>3 DEF Stage
    <3> QED BY <1>0, <1>b, <2>2, <3>2, <3>4
  <2>11. CASE BeginsMany
    <3>1. PICK saved \in Table : Fails(saved) /\ Drops(jobs, jobs')
      BY <1>2, <2>11 DEF BeginsMany
    <3>2. Stage(saved, j) = "unfinished" /\ disk' \in {disk, Snapshot(saved)}
      BY <2>5, <3>1
    <3>3. jobs'[j] = jobs[j]
      BY <1>a, <3>1 DEF Drops
    <3>4. Stage(jobs, j) = "unfinished"
      BY <1>a, <3>3 DEF Stage
    <3> QED BY <2>4, <3>2, <3>4
  <2>12. CASE Revives
    <3>1. PICK w \in Worker, table \in Table :
            /\ Stage(table, workers[w].job) = "unfinished"
            /\ \A i \in Id \ {workers[w].job} : table[i] = jobs[i]
            /\ disk' \in {disk, Snapshot(table)} /\ jobs' = jobs
      BY <1>2, <2>12 DEF Revives
    <3>2. Stage(table, j) = "unfinished"
      BY <1>a, <3>1 DEF Stage
    <3> QED BY <1>a, <2>4, <3>1, <3>2
  <2>13. CASE Restarts
    <3>1. Stage(disk, j) = "unfinished" /\ disk' = disk
      BY <1>a, <2>13 DEF Restarts, Trims
    <3> QED BY <1>0, <1>b, <3>1
  <2>14. ~Answers
    BY <1>2 DEF Answers
  <2> QED BY <2>6, <2>7, <2>8, <2>9, <2>10, <2>11, <2>12, <2>13, <2>14 DEF TableStep
<1> QED BY <1>1, <1>2

(* A job whose request was answered outlives the process.                  *)
LEMMA DurableKeeps ==
  ASSUME Typed, FreshInv, AcceptedAreDurable, TableStep, Next
  PROVE  AcceptedAreDurable'
<1>0. /\ jobs \in Table /\ disk \in Table /\ jobs' \in Table /\ disk' \in Table
      /\ accepted' \subseteq [job : Id, wanted : SUBSET Chapter] /\ dismissed \subseteq dismissed'
      /\ nextId \in Int
  BY HistoryGrows DEF Typed, TablesTyped, TableStep
<1>1. used.errors \in Nat /\ used'.errors \in Nat /\ used'.errors >= used.errors
  BY UsedGrows DEF Typed, WorldTyped, Kind
<1> SUFFICES ASSUME NEW a \in accepted', a.job \in Unfinished(jobs'), a.job \notin dismissed'
             PROVE  /\ a.job \in Unfinished(disk')
                    /\ used'.errors = 0 => /\ disk'[a.job].pause = jobs'[a.job].pause
                                           /\ disk'[a.job].rank = jobs'[a.job].rank
  BY DEF AcceptedAreDurable
<1> DEFINE j == a.job
<1>2. j \in Id /\ j \in Int
  BY <1>0 DEF Id
<1> HIDE DEF j
<1>3. CASE \E table \in Table : Writes(table)
  BY <1>0, <1>2, <1>3, WritesKeeps DEF j
<1>4. CASE ~\E table \in Table : Writes(table)
  <2>1. a \in accepted
    BY <1>4 DEF TableStep, Answers, FinishesOne, RemovesOne, BeginsOne, BeginsMany, Revives,
       Restarts, historyVars
  <2>2. IsKept(j)
    BY <2>1 DEF AcceptedAreDurable, IsKept, j
  <2>3. j < nextId
    BY <2>1 DEF FreshInv, j
  <2>4. j \in Unfinished(disk')
    <3>1. IsKept(j)'
      BY <1>0, <1>2, <2>2, <2>3, KeptStays
    <3> QED BY <3>1 DEF IsKept, j
  <2>5. ASSUME used'.errors = 0
        PROVE  disk'[j].pause = jobs'[j].pause /\ disk'[j].rank = jobs'[j].rank
    <3>a. Stage(jobs', j) = "unfinished" /\ jobs'[j] # None /\ "unfinished" \notin Over
      BY <1>0, <1>2, StagesTell DEF j, Over, Unfinished, Active, Queued, InStatus, Tracked
    <3>1. used.errors = 0 /\ ~(used'.errors > 0)
      BY <1>1, <2>5
    <3>b. ASSUME jobs[j] = jobs'[j]
          PROVE  disk[j].pause = jobs[j].pause /\ disk[j].rank = jobs[j].rank
      <4>1. Stage(jobs, j) = "unfinished"
        BY <3>a, <3>b DEF Stage
      <4>2. j \in Unfinished(jobs)
        BY <1>0, <1>2, <4>1, StagesTell
      <4> QED BY <1>0, <2>1, <3>1, <4>2 DEF AcceptedAreDurable, j
    <3>2. CASE Quiet
      <4>1. Stage(jobs, j) = "unfinished" /\ disk' = disk
        BY <1>2, <3>a, <3>2 DEF Quiet, Trims
      <4>2. j \in Unfinished(jobs) /\ jobs[j] # None
        BY <1>0, <1>2, <4>1, StagesTell
      <4>3. disk[j].pause = jobs[j].pause /\ disk[j].rank = jobs[j].rank
        BY <1>0, <2>1, <3>1, <4>2 DEF AcceptedAreDurable, j
      <4>4. jobs'[j].pause = jobs[j].pause /\ jobs'[j].rank = jobs[j].rank
        BY <1>2, <3>a, <3>2, <4>2 DEF Quiet, SamePlan
      <4> QED BY <4>1, <4>3, <4>4
    <3>3. CASE RemovesOne
      <4>1. PICK i \in Id, table \in Table :
              /\ table[i] = None /\ \A k \in Id \ {i} : table[k] = jobs[k]
              /\ disk' = Snapshot(table) /\ jobs' = table
        BY <3>1, <3>3 DEF RemovesOne, Removes
      <4>2. SamePlan(table, Snapshot(table)) /\ Same(table, Snapshot(table)) /\ Snapshot(table) \in Table
        BY SnapshotKeeps
      <4>3. disk'[j] # None
        BY <2>4 DEF Unfinished, Active, Queued, InStatus, Tracked
      <4> QED BY <1>2, <3>a, <4>1, <4>2, <4>3 DEF SamePlan
    <3>4. CASE BeginsOne
      <4>1. PICK table \in Table : Begins(jobs, table, {nextId}) /\ Drops(table, jobs')
        BY <3>4 DEF BeginsOne
      <4>2. disk' = disk /\ j # nextId
        BY <1>0, <1>2, <2>3, <3>4 DEF BeginsOne
      <4>3. jobs'[j] = jobs[j]
        BY <1>2, <3>a, <4>1, <4>2 DEF Begins, Drops
      <4> QED BY <3>b, <4>2, <4>3
    <3>5. CASE Restarts
      <4>1. disk' = disk /\ SamePlan(disk, jobs') /\ disk'[j] # None
        BY <2>4, <3>5 DEF Restarts, Unfinished, Active, Queued, InStatus, Tracked
      <4> QED BY <1>2, <3>a, <4>1 DEF SamePlan
    <3> QED BY <1>4, <3>1, <3>2, <3>3, <3>4, <3>5
            DEF TableStep, Rewrites, Answers, FinishesOne, Finishes, BeginsMany, Revives, Fails
  <2> QED BY <2>4, <2>5 DEF j
<1> QED BY <1>3, <1>4

-----------------------------------------------------------------------------
(* One job per book.                                                       *)

One(t) == \A i, j \in Unfinished(t) : t[i].book = t[j].book => i = j

OneJobInv == used.rescans = 0 => OneJobPerBook

(* Taking jobs away, or ending them, keeps one per book.                   *)
LEMMA NarrowsKeepsOne ==
  ASSUME NEW t \in Table, NEW u \in Table, One(t),
         \A i \in Id : Stage(u, i) = "unfinished" =>
           Stage(t, i) = "unfinished" /\ u[i].book = t[i].book
  PROVE  One(u)
<1> SUFFICES ASSUME NEW i \in Unfinished(u), NEW j \in Unfinished(u), u[i].book = u[j].book
             PROVE  i = j
  BY DEF One
<1>1. i \in Id /\ j \in Id
  BY DEF Unfinished, Active, Queued, InStatus, Tracked
<1>2. Stage(u, i) = "unfinished" /\ Stage(u, j) = "unfinished"
  BY <1>1, StagesTell
<1>3. i \in Unfinished(t) /\ j \in Unfinished(t) /\ t[i].book = t[j].book
  BY <1>1, <1>2, StagesTell
<1> QED BY <1>3 DEF One

(* So does every step of a relation between tables.                        *)
LEMMA StepsKeepOne ==
  ASSUME NEW t \in Table, NEW u \in Table, One(t),
         Trims(t, u) \/ Narrows(t, u) \/ Same(t, u) \/ Drops(t, u) \/ \E j \in Id : Ends(t, u, j)
  PROVE  One(u)
<1>1. \A i \in Id : Stage(u, i) = "unfinished" =>
           Stage(t, i) = "unfinished" /\ u[i].book = t[i].book
  <2> SUFFICES ASSUME NEW i \in Id, Stage(u, i) = "unfinished"
               PROVE  Stage(t, i) = "unfinished" /\ u[i].book = t[i].book
    OBVIOUS
  <2>1. u[i] # None /\ "unfinished" \notin Over
    BY DEF Stage, Over
  <2>2. Stage(t, i) = "unfinished" => t[i] # None
    BY DEF Stage
  <2>3. Drops(t, u) => Trims(t, u)
    BY DropsTrims
  <2>4. Trims(t, u) => Stage(t, i) = "unfinished" /\ u[i].book = t[i].book
    BY <2>1, <2>2 DEF Trims
  <2>5. Narrows(t, u) => Stage(t, i) = "unfinished" /\ u[i].book = t[i].book
    BY <2>1 DEF Narrows
  <2>6. Same(t, u) => Stage(t, i) = "unfinished" /\ u[i].book = t[i].book
    BY <2>2 DEF Same
  <2>7. (\E j \in Id : Ends(t, u, j)) => Stage(t, i) = "unfinished" /\ u[i].book = t[i].book
    BY <2>1, <2>2 DEF Ends
  <2> QED BY <2>3, <2>4, <2>5, <2>6, <2>7
<1> QED BY <1>1, NarrowsKeepsOne

(* A job is only begun for a book that has none.                           *)
LEMMA BeginsKeepsOne ==
  ASSUME NEW t \in Table, NEW u \in Table, One(t), NEW ids \in SUBSET Id, Begins(t, u, ids),
         \A i \in ids : SameWork(t, u[i].book) = {},
         \A i, k \in ids : u[i].book = u[k].book => i = k
  PROVE  One(u)
<1> SUFFICES ASSUME NEW i \in Unfinished(u), NEW j \in Unfinished(u), u[i].book = u[j].book
             PROVE  i = j
  BY DEF One
<1>1. i \in Id /\ j \in Id
  BY DEF Unfinished, Active, Queued, InStatus, Tracked
<1>2. \A k \in Id \ ids : k \in Unfinished(u) => k \in Unfinished(t) /\ u[k] = t[k]
  BY DEF Begins, Unfinished, Active, Queued, InStatus, Tracked
<1>3. CASE i \in ids /\ j \in ids
  BY <1>3
<1>4. CASE i \notin ids /\ j \notin ids
  BY <1>1, <1>2, <1>4 DEF One
<1>5. CASE i \in ids /\ j \notin ids
  BY <1>1, <1>2, <1>5 DEF SameWork
<1>6. CASE i \notin ids /\ j \in ids
  BY <1>1, <1>2, <1>6 DEF SameWork
<1> QED BY <1>3, <1>4, <1>5, <1>6

(* While no book was lost to a scan, no book gets a second job under way.  *)
LEMMA OneJobKeeps ==
  ASSUME Typed, RunInv, OneJobInv, TableStep, Next
  PROVE  OneJobInv'
<1>0. /\ jobs \in Table /\ disk \in Table /\ jobs' \in Table /\ disk' \in Table
      /\ workers \in Workers
  BY DEF Typed, TablesTyped, TableStep, TasksTyped, Workers
<1>1. used.rescans \in Nat /\ used'.rescans \in Nat /\ used'.rescans >= used.rescans
  BY UsedGrows DEF Typed, WorldTyped, Kind
<1> SUFFICES ASSUME used'.rescans = 0 PROVE One(jobs') /\ One(disk')
  BY DEF OneJobInv, OneJobPerBook, One
<1>2. used.rescans = 0 /\ One(jobs) /\ One(disk)
  BY <1>1 DEF OneJobInv, OneJobPerBook, One
<1>3. ASSUME NEW t \in Table, One(t) PROVE Snapshot(t) \in Table /\ One(Snapshot(t))
  BY <1>3, SnapshotKeeps, StepsKeepOne
<1>4. ASSUME NEW table \in Table, One(table), Writes(table) \/ Fails(table)
      PROVE  One(jobs') /\ One(disk')
  <2>1. disk' \in {disk, Snapshot(table)}
    BY <1>4 DEF Writes, Fails
  <2>2. Trims(table, jobs') \/ Narrows(table, jobs')
    BY <1>4 DEF Writes, Fails
  <2> QED BY <1>0, <1>2, <1>3, <1>4, <2>1, <2>2, StepsKeepOne
<1>5. CASE Quiet
  BY <1>0, <1>2, <1>5, StepsKeepOne DEF Quiet
<1>6. CASE Rewrites \/ Answers
  <2>1. PICK table \in Table : Same(jobs, table) /\ (Writes(table) \/ Fails(table))
    BY <1>6 DEF Rewrites, Answers
  <2>2. One(table)
    BY <1>0, <1>2, <2>1, StepsKeepOne
  <2> QED BY <1>4, <2>1, <2>2
<1>7. CASE FinishesOne
  <2>1. PICK i \in Id, table \in Table : Ends(jobs, table, i) /\ (Writes(table) \/ Fails(table))
    BY <1>7 DEF FinishesOne, Finishes
  <2>2. One(table)
    BY <1>0, <1>2, <2>1, StepsKeepOne
  <2> QED BY <1>4, <2>1, <2>2
<1>8. CASE RemovesOne
  <2>1. PICK i \in Id, table \in Table :
          /\ table[i] = None /\ \A k \in Id \ {i} : table[k] = jobs[k]
          /\ disk' \in {disk, Snapshot(table)} /\ jobs' \in {jobs, table}
    BY <1>8 DEF RemovesOne, Removes
  <2>2. Narrows(jobs, table)
    BY <2>1 DEF Narrows, Stage
  <2>3. One(table)
    BY <1>0, <1>2, <2>2, StepsKeepOne
  <2> QED BY <1>2, <1>3, <2>1, <2>3
<1>9. CASE BeginsOne
  <2>1. PICK table \in Table :
          /\ Begins(jobs, table, {nextId}) /\ SameWork(jobs, table[nextId].book) = {}
          /\ Drops(table, jobs')
    BY <1>9 DEF BeginsOne
  <2>2. nextId \in Id /\ disk' = disk
    BY <1>9 DEF BeginsOne
  <2>3. One(table)
    BY <1>0, <1>2, <2>1, <2>2, BeginsKeepsOne
  <2> QED BY <1>0, <1>2, <2>1, <2>2, <2>3, StepsKeepOne
<1>10. CASE BeginsMany
  <2>1. PICK ids \in SUBSET Id, table \in Table :
          /\ Begins(jobs, table, ids)
          /\ \A i \in ids : SameWork(jobs, table[i].book) = {}
          /\ \A i, k \in ids : table[i].book = table[k].book => i = k
          /\ \E saved \in Table : Drops(table, saved) /\ (Writes(saved) \/ Fails(saved))
    BY <1>10 DEF BeginsMany
  <2>2. One(table)
    BY <1>0, <1>2, <2>1, BeginsKeepsOne
  <2>3. PICK saved \in Table : Drops(table, saved) /\ (Writes(saved) \/ Fails(saved))
    BY <2>1
  <2>4. One(saved)
    BY <2>2, <2>3, StepsKeepOne
  <2> QED BY <1>4, <2>3, <2>4
<1>11. CASE Revives
  <2>1. PICK w \in Worker, table \in Table :
          /\ AtWork(w) /\ workers[w].job \in Tracked(jobs)
          /\ Stage(table, workers[w].job) = "unfinished"
          /\ table[workers[w].job].book = jobs[workers[w].job].book
          /\ \A i \in Id \ {workers[w].job} : table[i] = jobs[i]
          /\ disk' \in {disk, Snapshot(table)} /\ jobs' \in {jobs, table}
    BY <1>11 DEF Revives, Writes
  <2> DEFINE j == workers[w].job
  <2>2. j \in Id /\ j \notin Finished(jobs) /\ j \in Tracked(jobs)
    BY <1>0, <1>2, <2>1 DEF RunInv, AtWork, Workers, WorkerState
  <2>3. Stage(jobs, j) = "unfinished"
    BY <1>0, <2>2, StagesTell DEF Finished
  <2>4. Same(jobs, table)
    <3> HIDE DEF j
    <3>1. Stage(table, j) = Stage(jobs, j) /\ table[j].book = jobs[j].book
          /\ \A i \in Id \ {j} : table[i] = jobs[i]
      BY <2>1, <2>3 DEF j
    <3> QED BY <3>1 DEF Same, Stage
  <2>5. One(table)
    BY <1>0, <1>2, <2>4, StepsKeepOne
  <2> QED BY <1>2, <1>3, <2>1, <2>5
<1>12. CASE Restarts
  BY <1>0, <1>2, <1>12, StepsKeepOne DEF Restarts
<1> QED BY <1>5, <1>6, <1>7, <1>8, <1>9, <1>10, <1>11, <1>12 DEF TableStep

-----------------------------------------------------------------------------
(* The lifecycle lock.                                                     *)

UpdateInv ==
  /\ \A t \in Token : updates[t] \in {"stopping", "held", "kept"} => signal = t
  /\ \A t \in Token : updates[t] = "held" => writer = t
  /\ writer # 0 => NoReaders
  /\ (\E t \in Token : updates[t] \in {"held", "kept"}) =>
       /\ NoReaders /\ Running(jobs) = {} /\ Running(disk) = {}
       /\ \A j \in Id : IsKept(j)

(* Nobody takes the lock for reading while an update has it or waits for it. *)
LEMMA ReadersNeedTheLock ==
  ASSUME Typed, FreshInv, NoReaders, ~CanRead, Next, WorkersStep
  PROVE  NoReaders'
<1>1. /\ calls \in [Caller -> Call \cup {None}]
      /\ \A c \in Caller : calls[c] = None
  BY DEF NoReaders, Typed, TasksTyped
<1>2. \A c \in Caller : calls'[c] = None
  <2>1. \/ calls' = calls
        \/ \E c \in Caller : calls' = [calls EXCEPT ![c] = None]
        \/ calls' = [c \in Caller |-> None]
    BY CallsSteps
  <2> QED BY <1>1, <2>1
<1>3. batch' = <<>>
  BY BatchSteps DEF NoReaders
<1>4. ASSUME NEW w \in Worker, IsReader(w)'
      PROVE  FALSE
  <2>1. workers'[w] # None /\ workers'[w].at # "fallen"
    BY <1>4 DEF IsReader
  <2>2. workers[w] = None \/ workers[w].at = "fallen"
    BY DEF NoReaders, IsReader
  <2>3. CASE Wakes(workers, workers', w)
    BY <2>1, <2>2, <2>3 DEF Wakes
  <2>4. CASE Changes(w)
    BY <1>1, <2>1, <2>2, <2>4 DEF Changes, AtWork, IsAt
  <2> QED BY <2>1, <2>3, <2>4 DEF WorkersStep
<1> QED BY <1>2, <1>3, <1>4 DEF NoReaders

(* An update that has the queue keeps it.                                  *)
LEMMA UpdateKeeps ==
  ASSUME Typed, FreshInv, UpdateInv, TableStep, WorkersStep, RunningStep, Next
  PROVE  UpdateInv'
<1>0. /\ jobs \in Table /\ disk \in Table /\ jobs' \in Table /\ disk' \in Table
      /\ updates \in [Token -> {"unused", "stopping", "held", "kept", "undoing", "undone"}]
      /\ \A t \in Token : t # 0
  BY TokensArePositive DEF Typed, TablesTyped, TableStep, UpdatesTyped
<1>1. ASSUME \E t \in Token : updates[t] \in {"held", "kept"}
      PROVE  /\ NoReaders' /\ Running(jobs') = {} /\ Running(disk') = {}
             /\ \A j \in Id : IsKept(j)'
  <2>1. ~CanRead
    BY <1>0, <1>1 DEF UpdateInv, CanRead
  <2>2. NoReaders /\ Running(jobs) = {} /\ Running(disk) = {} /\ \A j \in Id : IsKept(j)
    BY <1>1 DEF UpdateInv
  <2>3. Running(jobs') = {} /\ Running(disk') = {}
    BY <2>2 DEF RunningStep
  <2>4. ~BeginsOne
    BY <2>1 DEF BeginsOne
  <2>5. ASSUME NEW j \in Id PROVE IsKept(j)'
    BY <2>2, <2>4, KeptStays
  <2> QED BY <2>1, <2>2, <2>3, <2>5, ReadersNeedTheLock
<1>2. CASE UNCHANGED updateVars
  <2>1. writer' # 0 => NoReaders'
    BY <1>2, ReadersNeedTheLock DEF UpdateInv, updateVars, CanRead
  <2> QED BY <1>1, <1>2, <2>1 DEF UpdateInv, updateVars
<1>3. CASE Restart
  <2>1. signal' = 0 /\ writer' = 0 /\ \A t \in Token : updates'[t] \in {"unused", "undone"}
    BY <1>3 DEF Restart
  <2> QED BY <2>1 DEF UpdateInv
<1>a. ASSUME NEW t \in Token, NEW at, updates' = [updates EXCEPT ![t] = at]
      PROVE  updates'[t] = at /\ \A u \in Token \ {t} : updates'[u] = updates[u]
  BY <1>0, <1>a
<1>4. CASE \E t \in Token : BeginUpdate(t)
  <2>1. PICK t \in Token : BeginUpdate(t)
    BY <1>4
  <2>2. /\ updates'[t] = "stopping" /\ \A u \in Token \ {t} : updates'[u] = updates[u]
        /\ \A u \in Token : updates[u] \notin {"stopping", "held", "kept"}
        /\ signal' = t /\ writer' = writer
    BY <1>a, <2>1 DEF BeginUpdate
  <2>3. NoReaders' <=> NoReaders
    BY <2>1 DEF BeginUpdate, callVars, NoReaders, IsReader
  <2> QED BY <2>2, <2>3 DEF UpdateInv
<1>5. CASE \E t \in Token : HoldForUpdate(t)
  <2>1. PICK t \in Token : HoldForUpdate(t)
    BY <1>5
  <2>2. /\ updates[t] = "stopping" /\ writer = 0 /\ NoReaders /\ writer' = t /\ signal' = signal
        /\ jobs' = SavedForUpdate(jobs)
        /\ \/ Saves(jobs') /\ updates' = [updates EXCEPT ![t] = "held"]
           \/ SaveFails(jobs') /\ updates' = [updates EXCEPT ![t] = "undoing"]
    BY <2>1 DEF HoldForUpdate
  <2>3. updates'[t] \in {"held", "undoing"} /\ \A u \in Token \ {t} : updates'[u] = updates[u]
    BY <1>a, <2>2
  <2>4. \A u \in Token \ {t} : updates[u] \notin {"stopping", "held", "kept"}
    BY <2>2 DEF UpdateInv
  <2>5. NoReaders'
    BY <2>1, <2>2 DEF HoldForUpdate, callVars, NoReaders, IsReader
  <2>6. updates'[t] = "held" => disk' = Snapshot(jobs')
    BY <1>0, <2>2 DEF Saves
  <2>7. Running(jobs') = {}
    BY <1>0, <2>2, SavedForUpdateKeeps DEF Running
  <2>8. ASSUME disk' = Snapshot(jobs')
        PROVE  Running(disk') = {} /\ \A j \in Id : IsKept(j)'
    <3>1. Same(jobs', disk') /\ Running(disk') = {}
      BY <1>0, <2>7, <2>8, SnapshotKeeps DEF Running
    <3>2. \A j \in Id : j \in Unfinished(jobs') => j \in Unfinished(disk')
      BY <1>0, <3>1, StagesTell DEF Same
    <3> QED BY <3>1, <3>2 DEF IsKept
  <2>9. signal = t
    BY <2>2 DEF UpdateInv
  <2>10. /\ \A u \in Token : updates'[u] \in {"stopping", "held", "kept"} => signal' = u
         /\ \A u \in Token : updates'[u] = "held" => writer' = u
    BY <2>2, <2>3, <2>4, <2>9
  <2>11. (\E u \in Token : updates'[u] \in {"held", "kept"}) => updates'[t] = "held"
    BY <2>3, <2>4
  <2> QED BY <2>5, <2>6, <2>7, <2>8, <2>10, <2>11 DEF UpdateInv
<1>6. CASE \E t \in Token : KeepUpdate(t)
  <2>1. PICK t \in Token : KeepUpdate(t)
    BY <1>6
  <2>2. /\ updates[t] = "held" /\ updates'[t] = "kept" /\ writer' = 0 /\ signal' = signal
        /\ \A u \in Token \ {t} : updates'[u] = updates[u]
    BY <1>a, <2>1 DEF KeepUpdate
  <2>3. signal = t
    BY <2>2 DEF UpdateInv
  <2>4. \A u \in Token \ {t} : updates[u] \notin {"stopping", "held", "kept"}
    BY <2>3 DEF UpdateInv
  <2>5. /\ NoReaders' /\ Running(jobs') = {} /\ Running(disk') = {}
        /\ \A j \in Id : IsKept(j)'
    BY <1>1, <2>2
  <2>6. /\ \A u \in Token : updates'[u] \in {"stopping", "held", "kept"} => signal' = u
        /\ \A u \in Token : updates'[u] # "held"
    BY <2>2, <2>3, <2>4
  <2> QED BY <2>2, <2>5, <2>6 DEF UpdateInv
<1>7. CASE \E t \in Token : AbandonUpdate(t)
  <2>1. PICK t \in Token : AbandonUpdate(t)
    BY <1>7
  <2>2. /\ updates[t] \in {"stopping", "held"} /\ updates'[t] = "undoing"
        /\ writer' = writer /\ signal' = signal
        /\ \A u \in Token \ {t} : updates'[u] = updates[u]
    BY <1>a, <2>1 DEF AbandonUpdate
  <2>3. signal = t
    BY <2>2 DEF UpdateInv
  <2>4. \A u \in Token : updates'[u] \notin {"stopping", "held", "kept"}
    BY <2>2, <2>3 DEF UpdateInv
  <2>5. NoReaders' <=> NoReaders
    BY <2>1 DEF AbandonUpdate, callVars, NoReaders, IsReader
  <2> QED BY <2>2, <2>4, <2>5 DEF UpdateInv
<1>8. CASE \E t \in Token : UndoUpdate(t)
  <2>1. PICK t \in Token : UndoUpdate(t)
    BY <1>8
  <2>2. /\ updates[t] = "undoing" /\ updates'[t] = "undone"
        /\ writer = t \/ (writer = 0 /\ NoReaders)
        /\ writer' = 0 /\ signal' = IF signal = t THEN 0 ELSE signal
        /\ \A u \in Token \ {t} : updates'[u] = updates[u]
    BY <1>a, <2>1 DEF UndoUpdate
  <2>3. \A u \in Token : updates'[u] \in {"stopping", "held", "kept"} => u # t /\ updates[u] = updates'[u]
    BY <2>2
  <2>4. \A u \in Token : updates'[u] \in {"stopping", "held", "kept"} => signal' = u
    BY <2>2, <2>3 DEF UpdateInv
  <2>5. \A u \in Token : updates'[u] # "held"
    BY <1>0, <2>2, <2>3 DEF UpdateInv
  <2>6. (\E u \in Token : updates'[u] \in {"held", "kept"}) =>
          /\ NoReaders' /\ Running(jobs') = {} /\ Running(disk') = {}
          /\ \A j \in Id : IsKept(j)'
    BY <1>1, <2>3
  <2> QED BY <2>2, <2>4, <2>5, <2>6 DEF UpdateInv
<1> QED BY <1>2, <1>3, <1>4, <1>5, <1>6, <1>7, <1>8, UpdatesSteps

-----------------------------------------------------------------------------
(* Queued jobs.                                                            *)

IsAttended(j) ==
  \/ signal # 0
  \/ \E c \in Caller : calls[c] # None /\ calls[c].created /\ calls[c].job = j
  \/ \E k \in DOMAIN batch : batch[k].job = j
  \/ \E w \in Worker : IsWaitingFor(w, j)

\* Who is queued without recovery being asked for it has someone else.
AttendedInv == used.gone = 0 => \A j \in Idle(jobs) : IsAttended(j)

(* Whoever puts a job in the queue, or calls off its recovery, starts it.  *)
LEMMA IdleSteps ==
  ASSUME Typed, FreshInv, Next
  PROVE  \A j \in Idle(jobs') : j \in Idle(jobs) \/ IsAttended(j)'
<1>0. workers \in Workers /\ TablesTyped /\ used \in [Kind -> Nat] /\ row \in Rows
      /\ calls \in [Caller -> Call \cup {None}]
  BY DEF Typed, TasksTyped, WorldTyped, Workers
<1> DEFINE Goal == \A j \in Idle(jobs') : j \in Idle(jobs) \/ IsAttended(j)'
<1>a. ASSUME Idle(jobs') \subseteq Idle(jobs) PROVE Goal
  BY <1>a
<1>b. ASSUME NEW j \in Id, StartWorker(j), \A i \in Idle(jobs') : i \in Idle(jobs) \/ i = j
      PROVE  Goal
  <2>1. PICK w \in Worker : /\ workers'[w] # None /\ workers'[w].at = "checking"
                            /\ workers'[w].job = j
    BY <1>0, <1>b, StartedWorkers
  <2>2. IsAttended(j)'
    BY <2>1 DEF IsAttended, IsWaitingFor
  <2> QED BY <1>b, <2>2
<1> SUFFICES Goal
  OBVIOUS
<1> HIDE DEF Goal
<1>1. CASE \E c \in Caller : \E ask \in row.wanted : EnqueueBegin(c, ask[1], ask[2])
  <2>1. PICK c \in Caller, ask \in row.wanted : EnqueueBegin(c, ask[1], ask[2])
    BY <1>1
  <2>2. ask[1] \in Book /\ ask[2] \in SUBSET Chapter
    BY <1>0, <2>1, QueueAssumption
  <2>3. CASE jobs' = jobs
    BY <1>a, <2>3
  <2>a. ASSUME NEW j \in Id, NEW created \in BOOLEAN
        PROVE  [job |-> j, wanted |-> ask[2], created |-> created] \in Call
    BY <2>2 DEF Call
  <2>4. CASE /\ nextId \in Id /\ Idle(jobs') \subseteq Idle(jobs) \cup {nextId}
             /\ calls' = [calls EXCEPT ![c] = [job |-> nextId, wanted |-> ask[2], created |-> TRUE]]
    <3> DEFINE call == [job |-> nextId, wanted |-> ask[2], created |-> TRUE]
    <3>1. call \in Call
      BY <2>a, <2>4
    <3>a. call.created /\ call.job = nextId
      OBVIOUS
    <3>2. calls' = [calls EXCEPT ![c] = call]
      BY <2>4
    <3> HIDE DEF call
    <3>3. calls'[c] = call
      BY <1>0, <3>2
    <3>0. PICK j \in Id : j = nextId
      BY <2>4
    <3>4. IsAttended(j)'
      <4>1. calls'[c] # None
        BY <3>1, <3>3, QueueAssumption
      <4>2. calls'[c].created /\ calls'[c].job = j
        BY <3>0, <3>a, <3>3
      <4> QED BY <4>1, <4>2 DEF IsAttended
    <3> QED BY <2>4, <3>0, <3>4 DEF Goal
  <2> QED BY <2>1, <2>2, <2>3, <2>4, BegunTables
<1>2. CASE \E c \in Caller : EnqueueCommit(c)
  <2>1. PICK c \in Caller : EnqueueCommit(c)
    BY <1>2
  <2>2. calls[c].job \in Id
    BY <2>1, CommittedTables DEF Call
  <2>3. \/ Idle(jobs') \subseteq Idle(jobs)
        \/ /\ StartWorker(calls[c].job)
           /\ \A i \in Idle(jobs') : i \in Idle(jobs) \/ i = calls[c].job
    BY <2>1, CommittedTables
  <2> QED BY <1>a, <1>b, <2>2, <2>3
<1>3. CASE \E books \in row.batches : \E new \in Orders(WithoutWork(books)) : EnqueueBatch(new)
  <2>0. PICK books \in row.batches : \E new \in Orders(WithoutWork(books)) : EnqueueBatch(new)
    BY <1>3
  <2>1. PICK new \in Orders(WithoutWork(books)) : EnqueueBatch(new)
    BY <2>0
  <2>2. WithoutWork(books) \in SUBSET Book
    BY <1>0, <2>0, QueueAssumption DEF WithoutWork
  <2>3. /\ Len(new) \in Nat /\ new \in [1 .. Len(new) -> WithoutWork(books)]
        /\ \A k, l \in 1 .. Len(new) : new[k] = new[l] => k = l
    BY <2>1, <2>2, OrdersList
  <2>4. new \in [1 .. Len(new) -> Book] /\ \A k \in 1 .. Len(new) : SameWork(jobs, new[k]) = {}
    BY <2>2, <2>3 DEF WithoutWork
  <2>5. PICK ids \in SUBSET Id :
          \/ /\ Idle(jobs') \subseteq Idle(jobs) \cup ids
             /\ \A i \in ids : \E k \in DOMAIN batch' : batch'[k].job = i
          \/ Idle(jobs') \subseteq Idle(jobs)
    BY <2>1, <2>3, <2>4, BatchedTables
  <2> QED BY <1>a, <2>5 DEF IsAttended, Goal
<1>4. CASE DispatchNext
  <2>1. Head(batch).job \in Id
    BY <1>4, DispatchedTables DEF Entry
  <2>2. CASE \E status \in Over : FinishJob(Head(batch).job, status)
    BY <1>0, <1>a, <2>1, <2>2, FinishedTables
  <2>3. CASE Idle(jobs') \subseteq Idle(jobs) \ {Head(batch).job}
    BY <1>a, <2>3
  <2>4. CASE /\ StartWorker(Head(batch).job)
             /\ \A i \in Idle(jobs') : i \in Idle(jobs) \/ i = Head(batch).job
    BY <1>b, <2>1, <2>4
  <2> QED BY <1>4, <2>2, <2>3, <2>4, DispatchedTables
<1>5. CASE \E origin \in Origin : ResumeNext(origin)
  <2>0. PICK origin \in Origin : ResumeNext(origin)
    BY <1>5
  <2> DEFINE entry == Head(resuming[origin])
  <2>1. entry.job \in Id
    BY <2>0, RecoveredTables DEF Entry
  <2>2. CASE \E status \in Over : FinishJob(entry.job, status)
    BY <1>0, <1>a, <2>1, <2>2, FinishedTables
  <2>3. CASE jobs' = jobs \/ Idle(jobs') \subseteq Idle(jobs)
    BY <1>a, <2>3
  <2>4. CASE /\ StartWorker(entry.job)
             /\ \A i \in Idle(jobs') : i \in Idle(jobs) \/ i = entry.job
    BY <1>b, <2>1, <2>4
  <2> QED BY <2>0, <2>2, <2>3, <2>4, RecoveredTables
<1>6. CASE \E j \in Id : (\E up \in BOOLEAN : Move(j, up)) \/ Pause(j) \/ Resume(j) \/ RemoveJob(j)
  BY <1>6, <1>a, MovedTables, PausedTables, ResumedTables, RemovedTables
<1>7. CASE \E w \in Worker : Claim(w)
  BY <1>7, <1>a, ClaimedTables
<1>8. CASE \E w \in Worker : StopForPause(w) \/ RequeueFallen(w)
  BY <1>8, <1>a, StoppedTables, RequeuedTables
<1>9. CASE \E w \in Worker : Report(w)
  <2>1. PICK w \in Worker : Report(w)
    BY <1>9
  <2>2. workers[w] # None /\ \E status \in Over : FinishJob(workers[w].job, status)
    BY <2>1 DEF Report, IsAt, Over
  <2>3. workers[w].job \in Id
    BY <1>0, <2>2 DEF Workers, WorkerState
  <2> QED BY <1>0, <1>a, <2>2, <2>3, FinishedTables
<1>10. CASE \E w \in Worker : Check(w) \/ ReadCheckpoint(w) \/ ContinueRun(w) \/ AlignSection(w)
               \/ PublishMap(w) \/ StopForUpdate(w) \/ FailRun(w) \/ Panic(w)
  <2>1. jobs' = jobs
    BY <1>10 DEF Check, ReadCheckpoint, ReadsCheckpoint, ContinueRun, AlignSection, PublishMap,
      StopForUpdate, FailRun, Panic, tableVars
  <2> QED BY <1>a, <2>1
<1>11. CASE \E t \in Token : HoldForUpdate(t) \/ UndoUpdate(t)
  <2>1. jobs' = SavedForUpdate(jobs) /\ TriesToSave(SavedForUpdate(jobs))
    BY <1>11 DEF HoldForUpdate, UndoUpdate, TriesToSave
  <2>2. Idle(jobs') = {}
    BY <2>1, SavedTables
  <2> QED BY <1>a, <2>2
<1>12. CASE \/ \E t \in Token : BeginUpdate(t) \/ KeepUpdate(t) \/ AbandonUpdate(t)
            \/ \E book \in Book : Rescan(book)
            \/ \E j \in Id : InputsChange(j)
            \/ \E c \in Caller : CallerGone(c)
            \/ \E origin \in Origin : StartResume(origin)
  <2>1. jobs' = jobs
    BY <1>12 DEF BeginUpdate, KeepUpdate, AbandonUpdate, Rescan, InputsChange, CallerGone, StartResume, tableVars
  <2> QED BY <1>a, <2>1
<1>13. CASE Crash \/ Handoff
  <2>1. Idle(jobs') = {}
    BY <1>13, RestartedTables DEF Crash, Handoff
  <2> QED BY <1>a, <2>1
<1> QED
  <2>1. CASE \E c \in Caller : \/ \E ask \in row.wanted : EnqueueBegin(c, ask[1], ask[2])
                               \/ EnqueueCommit(c) \/ CallerGone(c)
    BY <1>1, <1>2, <1>12, <2>1
  <2>2. CASE \E origin \in Origin : StartResume(origin) \/ ResumeNext(origin)
    BY <1>5, <1>12, <2>2
  <2>3. CASE \E w \in Worker : WorkerStep(w) \/ FailRun(w) \/ Panic(w)
    BY <1>7, <1>8, <1>9, <1>10, <2>3 DEF WorkerStep
  <2>4. CASE \E t \in Token : \/ BeginUpdate(t) \/ HoldForUpdate(t) \/ KeepUpdate(t)
                              \/ AbandonUpdate(t) \/ UndoUpdate(t)
    BY <1>11, <1>12, <2>4
  <2>6. CASE (\E book \in Book : Rescan(book)) \/ \E j \in Id : InputsChange(j)
    BY <1>12, <2>6
  <2>5. Goal
    BY <1>3, <1>4, <1>6, <1>12, <1>13, <2>1, <2>2, <2>3, <2>4, <2>6 DEF Next, QueueStep
  <2> QED BY <2>5 DEF Goal

(* Who has a job to start passes it on, or does.                           *)
LEMMA AttendedStays ==
  ASSUME Typed, FreshInv, WorkersStep, Next, used'.gone = 0,
         NEW j \in Idle(jobs), j \in Idle(jobs'), IsAttended(j)
  PROVE  IsAttended(j)'
<1>0. /\ workers \in Workers /\ TablesTyped /\ used \in [Kind -> Nat]
      /\ calls \in [Caller -> Call \cup {None}] /\ batch \in Seq(Entry) /\ j \in Id
      /\ \A t \in Token : t # 0
  BY TokensArePositive DEF Typed, TasksTyped, WorldTyped, Workers, Idle, Queued, InStatus, Tracked
<1>1. ~Restart
  BY RestartedTables
<1>2. ASSUME StartWorker(j) PROVE IsAttended(j)'
  <2>1. PICK w \in Worker : /\ workers'[w] # None /\ workers'[w].at = "checking"
                            /\ workers'[w].job = j
    BY <1>0, <1>2, StartedWorkers
  <2> QED BY <2>1 DEF IsAttended, IsWaitingFor
<1>3. CASE signal # 0
  <2>1. \A t \in Token : ~UndoUpdate(t)
    <3> SUFFICES ASSUME NEW t \in Token, UndoUpdate(t) PROVE FALSE
      OBVIOUS
    <3>1. jobs' = SavedForUpdate(jobs) /\ TriesToSave(SavedForUpdate(jobs))
      BY DEF UndoUpdate, TriesToSave
    <3> QED BY <3>1, SavedTables
  <2>2. signal' # 0
    BY <1>0, <1>1, <1>3, <2>1, UpdatesSteps
       DEF updateVars, BeginUpdate, HoldForUpdate, KeepUpdate, AbandonUpdate
  <2> QED BY <2>2 DEF IsAttended
<1>4. CASE \E c \in Caller : calls[c] # None /\ calls[c].created /\ calls[c].job = j
  <2>1. PICK c \in Caller : calls[c] # None /\ calls[c].created /\ calls[c].job = j
    BY <1>4
  <2>2. CASE calls'[c] = calls[c]
    <3>1. calls'[c] # None /\ calls'[c].created /\ calls'[c].job = j
      BY <2>1, <2>2
    <3> QED BY <3>1 DEF IsAttended
  <2>3. CASE EnqueueCommit(c)
    <3>1. \/ StartWorker(j)
          \/ jobs'[j] = None
      BY <2>1, <2>3, CommittedTables
    <3> QED BY <1>2, <3>1 DEF Idle, Queued, InStatus, Tracked
  <2>4. \/ calls' = calls
        \/ \E d \in Caller : calls' = [calls EXCEPT ![d] = None] /\ EnqueueCommit(d)
        \/ \E d \in Caller, call \in Call : calls' = [calls EXCEPT ![d] = call] /\ calls[d] = None
    BY <1>1, CallsSteps
  <2>5. calls'[c] = calls[c] \/ EnqueueCommit(c)
    BY <1>0, <2>1, <2>4
  <2> QED BY <2>2, <2>3, <2>5
<1>5. CASE \E k \in DOMAIN batch : batch[k].job = j
  <2>1. PICK k \in DOMAIN batch : batch[k].job = j
    BY <1>5
  <2>2. CASE batch' = batch
    <3>1. k \in DOMAIN batch' /\ batch'[k].job = j
      BY <2>1, <2>2
    <3> QED BY <3>1 DEF IsAttended
  <2>3. CASE batch # <<>> /\ batch' = Tail(batch) /\ DispatchNext
    <3>1. CASE k = 1
      <4>1. Head(batch).job = j
        BY <1>0, <2>1, <3>1
      <4>2. CASE \E status \in Over : FinishJob(j, status)
        <5>1. j \notin Active(jobs')
          BY <1>0, <4>2, FinishedTables
        <5> QED BY <5>1 DEF Active, Idle
      <4>3. CASE Idle(jobs') \subseteq Idle(jobs) \ {j}
        BY <4>3
      <4>4. CASE StartWorker(j)
        BY <1>2, <4>4
      <4> QED BY <2>3, <4>1, <4>2, <4>3, <4>4, DispatchedTables
    <3>2. CASE k # 1
      <4> DEFINE l == k - 1
      <4>1. l \in DOMAIN Tail(batch) /\ Tail(batch)[l] = batch[k]
        BY <1>0, <2>1, <2>3, <3>2
      <4> HIDE DEF l
      <4>2. l \in DOMAIN batch' /\ batch'[l].job = j
        BY <2>1, <2>3, <4>1
      <4> QED BY <4>2 DEF IsAttended
    <3> QED BY <3>1, <3>2
  <2>4. batch # <<>>
    BY <2>1
  <2> QED BY <1>1, <2>2, <2>3, <2>4, BatchSteps
<1>6. CASE signal = 0 /\ \E w \in Worker : IsWaitingFor(w, j)
  <2>1. PICK w \in Worker : IsWaitingFor(w, j)
    BY <1>6
  <2>2. j \notin Running(jobs')
    BY DEF Running, Idle, Queued, InStatus
  <2>3. CASE Wakes(workers, workers', w)
    <3>1. IsWaitingFor(w, j)'
      BY <2>1, <2>3 DEF Wakes, IsWaitingFor
    <3> QED BY <3>1 DEF IsAttended
  <2>4. CASE Changes(w)
    <3>1. IsWaitingFor(w, j)'
      BY <1>0, <1>6, <2>1, <2>2, <2>4 DEF Changes, IsWaitingFor, AtWork, IsAt
    <3> QED BY <3>1 DEF IsAttended
  <2> QED BY <2>3, <2>4 DEF WorkersStep
<1> QED BY <1>3, <1>4, <1>5, <1>6 DEF IsAttended

(* No queued job loses everyone who would start it.                        *)
LEMMA AttendedKeeps ==
  ASSUME Typed, FreshInv, AttendedInv, WorkersStep, Next
  PROVE  AttendedInv'
<1>1. used.gone \in Nat /\ used'.gone \in Nat /\ used'.gone >= used.gone
  BY UsedGrows DEF Typed, WorldTyped, Kind
<1> SUFFICES ASSUME used'.gone = 0, NEW j \in Idle(jobs') PROVE IsAttended(j)'
  BY DEF AttendedInv
<1>2. CASE j \in Idle(jobs)
  <2>1. IsAttended(j)
    BY <1>1, <1>2 DEF AttendedInv
  <2> QED BY <1>2, <2>1, AttendedStays
<1> QED BY <1>2, IdleSteps

-----------------------------------------------------------------------------
(* The ledger.                                                             *)

Closed == dismissed \cup reported

\* The file has the job as far as memory has, or would not start it again.
Agrees(j) ==
  IF jobs[j] # None
  THEN Stage(disk, j) = Stage(jobs, j) /\ disk[j].book = jobs[j].book
  ELSE Stage(disk, j) # "unfinished"

LedgerInv ==
  /\ Closed \subseteq Id
  /\ ~Lapsed => /\ Finished(jobs) \cup Finished(disk) \subseteq reported
                /\ \A a \in accepted : Agrees(a.job)

\* What a step does to a job whose request was answered.
Moves(j) ==
  \/ Stage(jobs', j) = Stage(jobs, j) /\ (jobs[j] # None => jobs'[j].book = jobs[j].book)
  \/ /\ Stage(jobs, j) = "unfinished" /\ Stage(jobs', j) \in Over
     /\ jobs'[j].book = jobs[j].book
  \/ jobs[j] # None /\ jobs'[j] = None /\ j \in Closed'
  \/ jobs[j] = None /\ Stage(jobs', j) \in Over

LedgerMoves ==
  /\ Finished(jobs') \cup Finished(disk') \subseteq reported'
  /\ \A a \in accepted' : Agrees(a.job)'
  /\ \A a \in accepted : Moves(a.job)

\* What is written of such a job.
Records(table, j) ==
  \/ Stage(table, j) = Stage(jobs, j) /\ (jobs[j] # None => table[j].book = jobs[j].book)
  \/ /\ jobs[j] # None /\ j \in Closed'
     /\ \/ table[j] = None
        \/ /\ Stage(jobs, j) = "unfinished" /\ Stage(table, j) \in Over
           /\ table[j].book = jobs[j].book

(* A table that was written is the one a restart finds.                    *)
LEMMA WritesAgree ==
  ASSUME Typed, jobs' \in Table, disk' \in Table, reported \subseteq reported',
         accepted' \subseteq [job : Id, wanted : SUBSET Chapter],
         Finished(jobs) \subseteq reported,
         NEW table \in Table, Writes(table), Finished(table) \subseteq reported',
         \A a \in accepted : Records(table, a.job)
  PROVE  LedgerMoves
<1>0. jobs \in Table /\ accepted \subseteq [job : Id, wanted : SUBSET Chapter]
  BY DEF Typed, TablesTyped, WorldTyped
<1>1. disk' = Snapshot(table) /\ Same(table, disk') /\ Trims(table, jobs')
  BY SnapshotKeeps DEF Writes
<1>2. "none" \notin Over /\ "unfinished" \notin Over /\ "none" # "unfinished"
  BY DEF Over
<1>3. \A i \in Id : /\ Stage(table, i) \in {"none", "unfinished"} \cup Over
                    /\ table[i] = None <=> Stage(table, i) = "none"
                    /\ i \in Finished(table) <=> Stage(table, i) \in Over
  BY StagesTell
<1>4. \A i \in Id : /\ jobs'[i] = None <=> Stage(jobs', i) = "none"
                    /\ i \in Finished(jobs') <=> Stage(jobs', i) \in Over
  BY StagesTell
<1>5. \A i \in Id : i \in Finished(disk') <=> Stage(disk', i) \in Over
  BY StagesTell
<1>6. \A i \in Id : /\ jobs[i] = None <=> Stage(jobs, i) = "none"
                    /\ i \in Finished(jobs) <=> Stage(jobs, i) \in Over
  BY <1>0, StagesTell
<1>7. Finished(jobs') \cup Finished(disk') \subseteq reported'
  <2>1. \A i \in Id : i \in Finished(jobs') \/ i \in Finished(disk') => i \in Finished(table)
    BY <1>1, <1>2, <1>3, <1>4, <1>5 DEF Same, Trims
  <2>2. Finished(jobs') \subseteq Id /\ Finished(disk') \subseteq Id
    BY DEF Finished, Tracked
  <2> QED BY <2>1, <2>2
<1>8. ASSUME NEW i \in Id PROVE Agrees(i)'
  BY <1>1, <1>2, <1>3, <1>4 DEF Agrees, Same, Trims
<1>9. ASSUME NEW i \in Id, Records(table, i) PROVE Moves(i)
  <2>1. Stage(jobs, i) \in Over => i \in Closed'
    BY <1>6 DEF Closed
  <2>2. \/ Stage(jobs', i) = Stage(table, i) /\ (table[i] # None => jobs'[i].book = table[i].book)
        \/ Stage(jobs', i) = "none" /\ Stage(table, i) \in Over
    BY <1>1 DEF Trims
  <2> QED BY <1>2, <1>3, <1>4, <1>6, <1>9, <2>1, <2>2 DEF Records, Moves
<1>10. \A a \in accepted' : Agrees(a.job)'
  <2> SUFFICES ASSUME NEW a \in accepted' PROVE Agrees(a.job)'
    OBVIOUS
  <2>1. PICK i \in Id : i = a.job
    OBVIOUS
  <2>2. Agrees(i)'
    BY <1>8
  <2> QED BY <2>1, <2>2
<1>11. \A a \in accepted : Moves(a.job)
  BY <1>0, <1>9
<1> QED BY <1>7, <1>10, <1>11 DEF LedgerMoves

(* What is not written is not ahead of the file.                           *)
LEMMA UnwrittenAgrees ==
  ASSUME Typed, LedgerInv, ~Lapsed, jobs' \in Table, disk' = disk,
         UNCHANGED <<accepted, reported>>,
         Finished(jobs') \subseteq Finished(jobs),
         \A a \in accepted :
           \/ /\ Stage(jobs', a.job) = Stage(jobs, a.job)
              /\ jobs[a.job] # None => jobs'[a.job].book = jobs[a.job].book
           \/ Stage(jobs', a.job) = "none" /\ Stage(jobs, a.job) \in Over
  PROVE  LedgerMoves
<1>0. /\ jobs \in Table /\ accepted \subseteq [job : Id, wanted : SUBSET Chapter]
      /\ Finished(jobs) \cup Finished(disk) \subseteq reported
      /\ \A a \in accepted : Agrees(a.job)
  BY DEF Typed, TablesTyped, WorldTyped, LedgerInv
<1>1. "none" \notin Over /\ "unfinished" \notin Over /\ "none" # "unfinished"
  BY DEF Over
<1>2. \A i \in Id : jobs'[i] = None <=> Stage(jobs', i) = "none"
  BY StagesTell
<1>3. \A i \in Id : /\ jobs[i] = None <=> Stage(jobs, i) = "none"
                    /\ i \in Finished(jobs) <=> Stage(jobs, i) \in Over
  BY <1>0, StagesTell
<1>4. ASSUME NEW i \in Id, Agrees(i),
             \/ /\ Stage(jobs', i) = Stage(jobs, i)
                /\ jobs[i] # None => jobs'[i].book = jobs[i].book
             \/ Stage(jobs', i) = "none" /\ Stage(jobs, i) \in Over
      PROVE  Agrees(i)' /\ Moves(i)
  <2>1. Stage(jobs, i) \in Over => i \in Closed'
    BY <1>0, <1>3 DEF Closed
  <2>2. Agrees(i)'
    BY <1>1, <1>2, <1>3, <1>4 DEF Agrees
  <2>3. Moves(i)
    BY <1>1, <1>2, <1>3, <1>4, <2>1 DEF Moves
  <2> QED BY <2>2, <2>3
<1>5. ASSUME NEW a \in accepted PROVE Agrees(a.job)' /\ Moves(a.job)
  <2>1. PICK i \in Id : i = a.job
    BY <1>0
  <2>2. Agrees(i)' /\ Moves(i)
    BY <1>0, <1>4, <2>1
  <2> QED BY <2>1, <2>2
<1>6. \A a \in accepted' : Agrees(a.job)'
  BY <1>5
<1> QED BY <1>0, <1>5, <1>6 DEF LedgerMoves

(* Nor is what a restart reads back.                                       *)
LEMMA RestartAgrees ==
  ASSUME Typed, LedgerInv, ~Lapsed, jobs' \in Table, Restarts
  PROVE  LedgerMoves
<1>0. /\ jobs \in Table /\ accepted \subseteq [job : Id, wanted : SUBSET Chapter]
      /\ disk \in Table /\ disk' = disk /\ Trims(disk, jobs')
      /\ accepted' = accepted /\ reported' = reported
      /\ Finished(jobs) \cup Finished(disk) \subseteq reported
      /\ \A a \in accepted : Agrees(a.job)
  BY DEF Typed, TablesTyped, WorldTyped, LedgerInv, Restarts, historyVars
<1>1. "none" \notin Over /\ "unfinished" \notin Over /\ "none" # "unfinished"
  BY DEF Over
<1>2. \A i \in Id : /\ jobs'[i] = None <=> Stage(jobs', i) = "none"
                    /\ i \in Finished(jobs') <=> Stage(jobs', i) \in Over
  BY StagesTell
<1>3. \A i \in Id : jobs[i] = None <=> Stage(jobs, i) = "none"
  BY <1>0, StagesTell
<1>4. \A i \in Id : /\ disk[i] = None <=> Stage(disk, i) = "none"
                    /\ i \in Finished(disk) <=> Stage(disk, i) \in Over
                    /\ Stage(disk, i) \in {"none", "unfinished"} \cup Over
  BY <1>0, StagesTell
<1>5. ASSUME NEW i \in Id, Agrees(i) PROVE Agrees(i)' /\ Moves(i)
  <2>1. Stage(disk, i) \in Over => i \in Closed'
    BY <1>0, <1>4 DEF Closed
  <2>2. \/ Stage(jobs', i) = Stage(disk, i) /\ (disk[i] # None => jobs'[i].book = disk[i].book)
        \/ Stage(jobs', i) = "none" /\ Stage(disk, i) \in Over
    BY <1>0 DEF Trims
  <2>3. Agrees(i)'
    BY <1>0, <1>1, <1>2, <1>4, <2>2 DEF Agrees
  <2>4. Moves(i)
    BY <1>1, <1>2, <1>3, <1>4, <1>5, <2>1, <2>2 DEF Agrees, Moves
  <2> QED BY <2>3, <2>4
<1>6. ASSUME NEW a \in accepted PROVE Agrees(a.job)' /\ Moves(a.job)
  <2>1. PICK i \in Id : i = a.job
    BY <1>0
  <2>2. Agrees(i)' /\ Moves(i)
    BY <1>0, <1>5, <2>1
  <2> QED BY <2>1, <2>2
<1>7. \A a \in accepted' : Agrees(a.job)'
  BY <1>0, <1>6
<1>8. Finished(jobs') \cup Finished(disk') \subseteq reported'
  <2>1. \A i \in Id : i \in Finished(jobs') => i \in Finished(disk)
    BY <1>0, <1>1, <1>2, <1>4 DEF Trims
  <2>2. Finished(jobs') \subseteq Id
    BY DEF Finished, Tracked
  <2> QED BY <1>0, <2>1, <2>2
<1> QED BY <1>6, <1>7, <1>8 DEF LedgerMoves

(* While no promise has lapsed, every step keeps the file in agreement.    *)
LEMMA LedgerMovesOn ==
  ASSUME Typed, FreshInv, RunInv, LedgerInv, TableStep, Next, ~Lapsed'
  PROVE  LedgerMoves
<1>0. /\ jobs \in Table /\ disk \in Table /\ jobs' \in Table /\ disk' \in Table
      /\ workers \in Workers /\ nextId \in Int
      /\ accepted \subseteq [job : Id, wanted : SUBSET Chapter]
  BY DEF Typed, TablesTyped, TasksTyped, WorldTyped, Workers, TableStep
<1>1. /\ used.errors = 0 /\ used.rescans = 0 /\ used'.errors = 0 /\ used'.rescans = 0
  <2>1. /\ used.errors \in Nat /\ used.rescans \in Nat
        /\ used'.errors \in Nat /\ used'.rescans \in Nat
        /\ used'.errors >= used.errors /\ used'.rescans >= used.rescans
    BY UsedGrows DEF Typed, WorldTyped, Kind
  <2> QED BY <2>1 DEF Lapsed
<1>2. ~Lapsed
  BY <1>1 DEF Lapsed
<1>3. Finished(jobs) \subseteq reported
  BY <1>2 DEF LedgerInv
<1>4. readable = Book
  BY <1>1 DEF RunInv
<1>5. accepted' \subseteq [job : Id, wanted : SUBSET Chapter] /\ reported \subseteq reported'
  BY HistoryGrows
<1>6. ~(used'.errors > 0)
  BY <1>1
<1>7. \A i \in Id : /\ jobs[i] = None <=> Stage(jobs, i) = "none"
                    /\ i \in Finished(jobs) <=> Stage(jobs, i) \in Over
                    /\ Stage(jobs, i) \in {"none", "unfinished"} \cup Over
  BY <1>0, StagesTell
<1>8. "none" \notin Over /\ "unfinished" \notin Over
  BY DEF Over
<1>a. ASSUME NEW table \in Table, Writes(table),
             \A i \in Id : Stage(table, i) \in Over => i \in reported',
             \A i \in Id : (\E a \in accepted : a.job = i) => Records(table, i)
      PROVE  LedgerMoves
  <2>1. \A i \in Id : i \in Finished(table) <=> Stage(table, i) \in Over
    BY StagesTell
  <2>2. Finished(table) \subseteq reported'
    <3>1. Finished(table) \subseteq Id
      BY DEF Finished, Tracked
    <3> QED BY <1>a, <2>1, <3>1
  <2>3. \A a \in accepted : Records(table, a.job)
    <3> SUFFICES ASSUME NEW a \in accepted PROVE Records(table, a.job)
      OBVIOUS
    <3>1. PICK i \in Id : i = a.job
      BY <1>0
    <3>2. Records(table, i)
      BY <1>a, <3>1
    <3> QED BY <3>1, <3>2
  <2> QED BY <1>0, <1>3, <1>5, <1>a, <2>2, <2>3, WritesAgree
<1>b. ASSUME NEW table \in Table, Writes(table), Same(jobs, table)
      PROVE  LedgerMoves
  <2>1. \A i \in Id : Records(table, i)
    BY <1>b DEF Same, Records
  <2>2. \A i \in Id : Stage(table, i) \in Over => i \in reported'
    BY <1>3, <1>5, <1>7, <1>b DEF Same
  <2> QED BY <1>a, <1>b, <2>1, <2>2
<1>c. ASSUME disk' = disk, UNCHANGED <<accepted, reported>>,
             Finished(jobs') \subseteq Finished(jobs),
             \A i \in Id : (\E a \in accepted : a.job = i) =>
               \/ /\ Stage(jobs', i) = Stage(jobs, i)
                  /\ jobs[i] # None => jobs'[i].book = jobs[i].book
               \/ Stage(jobs', i) = "none" /\ Stage(jobs, i) \in Over
      PROVE  LedgerMoves
  BY <1>0, <1>2, <1>c, UnwrittenAgrees
<1>9. CASE (Quiet \/ Rewrites) /\ UNCHANGED <<nextId, historyVars>>
  <2>1. CASE Quiet
    <3>1. Finished(jobs') \subseteq Finished(jobs)
      <4>1. \A i \in Id : i \in Finished(jobs') <=> Stage(jobs', i) \in Over
        BY <1>0, StagesTell
      <4>2. Finished(jobs') \subseteq Id
        BY DEF Finished, Tracked
      <4> QED BY <1>7, <1>8, <2>1, <4>1, <4>2 DEF Quiet, Trims
    <3> QED BY <1>9, <1>c, <2>1, <3>1 DEF Quiet, Trims, historyVars
  <2>2. CASE Rewrites
    BY <1>6, <1>b, <2>2 DEF Rewrites, Fails
  <2> QED BY <1>9, <2>1, <2>2
<1>10. CASE Answers
  BY <1>b, <1>10 DEF Answers
<1>11. CASE FinishesOne
  <2>1. PICK j \in Id : /\ Finishes(j)
                        /\ \E w \in Worker : AtWork(w) /\ workers[w].job = j
    BY <1>4, <1>11 DEF FinishesOne
  <2>2. PICK table \in Table : Ends(jobs, table, j) /\ Writes(table) /\ reported' = reported \cup {j}
    BY <1>6, <2>1 DEF Finishes, Fails
  <2>3. Stage(jobs, j) = "unfinished" /\ jobs[j] # None
    <3>1. j \notin Finished(jobs)
      BY <1>1, <2>1 DEF RunInv
    <3> QED BY <1>7, <2>2, <3>1 DEF Ends
  <2>4. \A i \in Id : table[i] = None <=> Stage(table, i) = "none"
    BY StagesTell
  <2>5. j \in Closed' /\ Closed \subseteq Closed'
    BY <1>11, <2>2 DEF Closed, FinishesOne
  <2>6. \A i \in Id : Stage(table, i) \in Over => i \in reported'
    BY <1>3, <1>5, <1>7, <1>8, <2>2 DEF Ends
  <2>7. ASSUME NEW i \in Id PROVE Records(table, i)
    <3>1. Stage(jobs, i) \in Over => i \in Closed'
      BY <1>3, <1>7, <2>5 DEF Closed
    <3>2. CASE i = j
      BY <2>2, <2>3, <2>4, <2>5, <3>2 DEF Ends, Records
    <3>3. CASE i # j
      BY <1>7, <1>8, <2>2, <2>4, <3>1, <3>3 DEF Ends, Records
    <3> QED BY <3>2, <3>3
  <2> QED BY <1>a, <2>2, <2>6, <2>7
<1>12. CASE RemovesOne
  <2>1. PICK j \in Id : Removes(j) /\ dismissed' = dismissed \cup {j}
    BY <1>12 DEF RemovesOne
  <2>2. PICK table \in Table :
          /\ table[j] = None /\ \A i \in Id \ {j} : table[i] = jobs[i]
          /\ disk' = Snapshot(table) /\ jobs' = table
    BY <1>6, <2>1 DEF Removes
  <2>3. Writes(table)
    BY <2>2, SameIsReflexive DEF Writes
  <2>4. j \in Closed'
    BY <2>1 DEF Closed
  <2>5. \A i \in Id : Stage(table, i) \in Over => i \in reported'
    BY <1>3, <1>5, <1>7, <1>8, <2>2 DEF Stage
  <2>6. ASSUME NEW i \in Id PROVE Records(table, i)
    BY <2>2, <2>4 DEF Records, Stage
  <2> QED BY <1>a, <2>3, <2>5, <2>6
<1>d. ASSUME NEW i \in Id, \E a \in accepted : a.job = i PROVE i < nextId
  BY <1>d DEF FreshInv
<1>13. CASE BeginsOne
  <2>1. PICK table \in Table : Begins(jobs, table, {nextId}) /\ Drops(table, jobs')
    BY <1>13 DEF BeginsOne
  <2>2. nextId \in Id /\ disk' = disk /\ UNCHANGED <<accepted, reported>>
    BY <1>13 DEF BeginsOne, historyVars
  <2>3. Trims(table, jobs')
    BY <1>0, <2>1, DropsTrims
  <2>4. \A i \in Id \ {nextId} : Stage(table, i) = Stage(jobs, i) /\ table[i] = jobs[i]
    BY <2>1 DEF Begins, Stage
  <2>5. Stage(table, nextId) = "unfinished"
    BY <2>1, <2>2 DEF Begins
  <2>6. Finished(jobs') \subseteq Finished(jobs)
    <3>1. \A i \in Id : i \in Finished(jobs') <=> Stage(jobs', i) \in Over
      BY <1>0, StagesTell
    <3>2. Finished(jobs') \subseteq Id
      BY DEF Finished, Tracked
    <3>3. ASSUME NEW i \in Id, Stage(jobs', i) \in Over PROVE Stage(jobs, i) \in Over
      <4>1. Stage(table, i) \in Over
        BY <1>8, <2>3, <3>3 DEF Trims
      <4> QED BY <1>8, <2>4, <2>5, <4>1
    <3> QED BY <1>7, <3>1, <3>2, <3>3
  <2>7. ASSUME NEW i \in Id, \E a \in accepted : a.job = i
        PROVE  \/ /\ Stage(jobs', i) = Stage(jobs, i)
                  /\ jobs[i] # None => jobs'[i].book = jobs[i].book
               \/ Stage(jobs', i) = "none" /\ Stage(jobs, i) \in Over
    <3>1. i # nextId
      BY <1>0, <1>d, <2>7
    <3> QED BY <2>3, <2>4, <3>1 DEF Trims
  <2> QED BY <1>c, <2>2, <2>6, <2>7
<1>14. CASE BeginsMany
  <2>1. PICK ids \in SUBSET Id, table \in Table, saved \in Table :
          /\ Begins(jobs, table, ids) /\ \A i \in ids : i >= nextId
          /\ Trims(table, saved) /\ Writes(saved)
    <3>1. PICK ids \in SUBSET Id, table \in Table :
            /\ Begins(jobs, table, ids) /\ \A i \in ids : i >= nextId
            /\ \E saved \in Table : Trims(table, saved) /\ (Writes(saved) \/ Fails(saved))
      BY <1>14 DEF BeginsMany
    <3> QED BY <1>6, <3>1 DEF Fails
  <2>2. \A i \in Id \ ids : Stage(table, i) = Stage(jobs, i) /\ table[i] = jobs[i]
    BY <2>1 DEF Begins, Stage
  <2>3. \A i \in ids : Stage(table, i) = "unfinished"
    BY <2>1 DEF Begins
  <2>4. \A i \in Id : saved[i] = None <=> Stage(saved, i) = "none"
    BY StagesTell
  <2>5. ASSUME NEW i \in Id, Stage(saved, i) \in Over PROVE i \in reported'
    <3>1. Stage(table, i) \in Over
      BY <1>8, <2>1, <2>5 DEF Trims
    <3>2. Stage(jobs, i) \in Over
      BY <1>8, <2>2, <2>3, <3>1
    <3> QED BY <1>3, <1>5, <1>7, <3>2
  <2>6. ASSUME NEW i \in Id, \E a \in accepted : a.job = i PROVE Records(saved, i)
    <3>1. i \notin ids
      <4>1. i \in Int
        BY DEF Id
      <4> QED BY <1>0, <1>d, <2>1, <2>6, <4>1
    <3>2. Stage(jobs, i) \in Over => i \in Closed'
      BY <1>3, <1>5, <1>7 DEF Closed
    <3>3. \/ Stage(saved, i) = Stage(jobs, i) /\ (jobs[i] # None => saved[i].book = jobs[i].book)
          \/ Stage(saved, i) = "none" /\ Stage(jobs, i) \in Over
      BY <2>1, <2>2, <3>1 DEF Trims
    <3> QED BY <1>7, <1>8, <2>4, <3>2, <3>3 DEF Records
  <2> QED BY <1>a, <2>1, <2>5, <2>6
<1>15. CASE Revives
  <2>1. PICK w \in Worker, table \in Table :
          /\ AtWork(w) /\ workers[w].job \in Tracked(jobs)
          /\ Stage(table, workers[w].job) = "unfinished"
          /\ table[workers[w].job].book = jobs[workers[w].job].book
          /\ \A i \in Id \ {workers[w].job} : table[i] = jobs[i]
          /\ Writes(table)
    BY <1>6, <1>15 DEF Revives
  <2> DEFINE j == workers[w].job
  <2>2. j \in Id /\ j \notin Finished(jobs) /\ j \in Tracked(jobs)
    BY <1>0, <1>1, <2>1 DEF RunInv, AtWork, Workers, WorkerState
  <2>3. Stage(jobs, j) = "unfinished"
    BY <1>0, <2>2, StagesTell DEF Finished
  <2>4. Same(jobs, table)
    <3> HIDE DEF j
    <3>1. Stage(table, j) = Stage(jobs, j) /\ table[j].book = jobs[j].book
          /\ \A i \in Id \ {j} : table[i] = jobs[i]
      BY <2>1, <2>3 DEF j
    <3> QED BY <3>1 DEF Same, Stage
  <2> QED BY <1>b, <2>1, <2>4
<1>16. CASE Restarts
  BY <1>0, <1>2, <1>16, RestartAgrees
<1> QED BY <1>9, <1>10, <1>11, <1>12, <1>13, <1>14, <1>15, <1>16 DEF TableStep

(* Nothing is closed but jobs, and nothing is opened again.                *)
LEMMA ClosedGrows ==
  ASSUME Typed, LedgerInv, TableStep
  PROVE  Closed' \subseteq Id /\ Closed \subseteq Closed'
<1>1. dismissed \subseteq Id /\ reported \subseteq Id
  BY DEF LedgerInv, Closed
<1>2. dismissed \subseteq dismissed' /\ reported \subseteq reported'
  BY HistoryGrows
<1>3. dismissed' = dismissed \/ \E j \in Id : dismissed' = dismissed \cup {j}
  BY DEF TableStep, historyVars, Answers, FinishesOne, RemovesOne, BeginsOne, BeginsMany, Revives, Restarts
<1>4. reported' = reported \/ \E j \in Id : reported' = reported \cup {j}
  BY DEF TableStep, historyVars, Answers, FinishesOne, Finishes, RemovesOne, BeginsOne, BeginsMany,
     Revives, Restarts
<1> QED BY <1>1, <1>2, <1>3, <1>4 DEF Closed

(* The file stays in agreement.                                            *)
LEMMA LedgerKeeps ==
  ASSUME Typed, FreshInv, RunInv, LedgerInv, TableStep, Next
  PROVE  LedgerInv'
BY LedgerMovesOn, ClosedGrows DEF LedgerInv, LedgerMoves

-----------------------------------------------------------------------------
(* The refinement of SyncLedger.                                           *)

\* What the ledger says of a job that is in the table.
Told(t, j) == [book |-> t[j].book, status |-> Stage(t, j)]

EntryOf(t, answers, j) ==
  IF \A a \in answers : a.job # j THEN None ELSE IF t[j] = None THEN Gone ELSE Told(t, j)

(* An entry names the book of the job and how far it is.                   *)
LEMMA ToldIsAnEntry ==
  ASSUME NEW t \in Table, NEW j \in Id, t[j] # None
  PROVE  /\ Told(t, j) \in [book : Book, status : {"unfinished", "completed", "failed"}]
         /\ Told(t, j) \in Ledger!Entry /\ Told(t, j) # None
         /\ Told(t, j).status = Stage(t, j) /\ Told(t, j).book = t[j].book
<1>1. t[j] \in Job /\ t[j].book \in Book
  BY DEF Table, Job
<1>2. Stage(t, j) \in {"unfinished", "completed", "failed"}
  BY StagesTell DEF Over, Stage
<1>3. Told(t, j) \in [book : Book, status : {"unfinished", "completed", "failed"}]
  BY <1>1, <1>2 DEF Told
<1>4. Told(t, j).status = Stage(t, j) /\ Told(t, j).book = t[j].book
  BY DEF Told
<1>5. Told(t, j) \in Ledger!Entry
  BY <1>3 DEF Ledger!Entry, Ledger!Outcome
<1> QED BY <1>3, <1>4, <1>5, EntryAssumption

(* The mapped ledger, job by job.                                          *)
LEMMA MappedEntries ==
  ASSUME NEW t \in Table, NEW j \in Id, NEW answers
  PROVE  /\ \/ EntryOf(t, answers, j) = None /\ \A a \in answers : a.job # j
            \/ /\ \E a \in answers : a.job = j
               /\ t[j] = None /\ EntryOf(t, answers, j) = Gone
            \/ /\ \E a \in answers : a.job = j
               /\ t[j] # None /\ EntryOf(t, answers, j) = Told(t, j)
         /\ (IF j \in Unfinished(t) THEN "unfinished" ELSE t[j].status)
              = IF t[j] = None THEN t[j].status ELSE Stage(t, j)
<1>1. t[j] # None => t[j].status \in {"queued", "running", "paused", "completed", "failed"}
  BY DEF Table, Job
<1> QED BY <1>1, StagesTell DEF EntryOf, Stage, Unfinished, Active, Queued, InStatus, Tracked

(* Every step of the queue is one of the ledger.                           *)
LEMMA LedgerSteps ==
  ASSUME Typed, FreshInv, RunInv, LedgerInv, OneJobInv', TableStep, Next
  PROVE  Ledger!LedgerStep
<1> DEFINE old == AcceptedEntries(jobs)
<1> DEFINE new == AcceptedEntries(jobs)'
<1>0. jobs \in Table /\ jobs' \in Table
  BY DEF Typed, TablesTyped, TableStep
<1>1. /\ used.errors \in Nat /\ used.rescans \in Nat
      /\ used'.errors \in Nat /\ used'.rescans \in Nat
      /\ used'.errors >= used.errors /\ used'.rescans >= used.rescans
  BY UsedGrows DEF Typed, WorldTyped, Kind
<1>2. Lapsed => Lapsed'
  BY <1>1 DEF Lapsed
<1>3. \A j \in Id : old[j] = IF Lapsed THEN Gone ELSE EntryOf(jobs, accepted, j)
  BY <1>0, MappedEntries DEF AcceptedEntries, EntryOf, Told
<1>4. \A j \in Id : new[j] = IF Lapsed' THEN Gone ELSE EntryOf(jobs', accepted', j)
  BY <1>0, MappedEntries DEF AcceptedEntries, EntryOf, Told, Gone
<1>5. DOMAIN new = Id
  BY DEF AcceptedEntries
<1> HIDE DEF old, new
<1>6. (IF Lapsed THEN Id ELSE Closed) \subseteq (IF Lapsed' THEN Id ELSE Closed')
  BY <1>2, ClosedGrows DEF LedgerInv
<1>7. Gone = Ledger!Gone /\ Ledger!Gone \in Ledger!Entry /\ ~Ledger!IsUnderway(Gone)
  BY DEF Gone, Ledger!Gone, Ledger!Entry, Ledger!IsUnderway
<1>8. ASSUME NEW j \in Id
      PROVE  \/ new[j] = old[j]
             \/ /\ old[j] = None /\ new[j] \in Ledger!Entry
                /\ Ledger!IsUnderway(new[j]) =>
                     \A i \in Id \ {j} : Ledger!IsUnderway(new[i]) => new[i].book # new[j].book
             \/ /\ Ledger!IsUnderway(old[j])
                /\ \E outcome \in Ledger!Outcome : new[j] = [old[j] EXCEPT !.status = outcome]
             \/ /\ Ledger!IsUnderway(old[j]) \/ Ledger!IsEnded(old[j])
                /\ j \in IF Lapsed' THEN Id ELSE Closed'
                /\ new[j] = Ledger!Gone
             \/ /\ old[j] = Ledger!Gone
                /\ \E book \in Book, outcome \in Ledger!Outcome :
                     new[j] = [book |-> book, status |-> outcome]
  <2>1. ASSUME NEW t \in Table, NEW i \in Id, t[i] # None
        PROVE  \/ Stage(t, i) = "unfinished" /\ Ledger!IsUnderway(Told(t, i))
               \/ Stage(t, i) \in Over /\ Ledger!IsEnded(Told(t, i))
    BY <2>1, ToldIsAnEntry, StagesTell DEF Ledger!IsUnderway, Ledger!IsEnded, Ledger!Outcome, Over
  <2>2. CASE Lapsed'
    <3>1. new[j] = Gone
      BY <1>4, <2>2
    <3>2. \/ old[j] = None \/ old[j] = Gone
          \/ jobs[j] # None /\ old[j] = Told(jobs, j)
      BY <1>0, <1>3, MappedEntries
    <3> QED BY <1>0, <1>7, <2>1, <2>2, <3>1, <3>2
  <2>3. CASE ~Lapsed'
    <3>1. /\ \A i \in Id : new[i] = EntryOf(jobs', accepted', i)
          /\ \A i \in Id : old[i] = EntryOf(jobs, accepted, i)
      BY <1>2, <1>3, <1>4, <2>3
    <3>2. accepted \subseteq accepted'
      BY HistoryGrows
    <3>3. One(jobs')
      BY <1>1, <2>3 DEF Lapsed, OneJobInv, OneJobPerBook, One
    <3>4. CASE \A a \in accepted' : a.job # j
      <4>1. new[j] = None /\ old[j] = None
        BY <3>1, <3>2, <3>4 DEF EntryOf
      <4> QED BY <4>1
    <3>5. CASE (\E a \in accepted' : a.job = j) /\ \A a \in accepted : a.job # j
      <4>1. old[j] = None
        BY <3>1, <3>5 DEF EntryOf
      <4>2. new[j] = Gone \/ (jobs'[j] # None /\ new[j] = Told(jobs', j))
        BY <1>0, <3>1, <3>5, MappedEntries
      <4>3. new[j] \in Ledger!Entry
        BY <1>0, <1>7, <4>2, ToldIsAnEntry
      <4>4. ASSUME NEW i \in Id, Ledger!IsUnderway(new[i])
            PROVE  i \in Unfinished(jobs') /\ new[i].book = jobs'[i].book
        <5>1. new[i] # None
          BY <4>4 DEF Ledger!IsUnderway
        <5>2. jobs'[i] # None /\ new[i] = Told(jobs', i)
          BY <1>0, <1>7, <3>1, <4>4, <5>1, MappedEntries
        <5>3. Stage(jobs', i) = "unfinished"
          BY <1>0, <4>4, <5>2, ToldIsAnEntry DEF Ledger!IsUnderway
        <5> QED BY <1>0, <5>2, <5>3, ToldIsAnEntry, StagesTell
      <4>5. ASSUME Ledger!IsUnderway(new[j]), NEW i \in Id \ {j}, Ledger!IsUnderway(new[i])
            PROVE  new[i].book # new[j].book
        BY <3>3, <4>4, <4>5 DEF One
      <4> QED BY <4>1, <4>3, <4>5
    <3>6. CASE \E a \in accepted : a.job = j
      <4>1. LedgerMoves
        BY <2>3, LedgerMovesOn
      <4>2. Moves(j)
        BY <3>6, <4>1 DEF LedgerMoves
      <4>3. \E a \in accepted' : a.job = j
        BY <3>2, <3>6
      <4>4. /\ old[j] = IF jobs[j] = None THEN Gone ELSE Told(jobs, j)
            /\ new[j] = IF jobs'[j] = None THEN Gone ELSE Told(jobs', j)
        BY <3>1, <3>6, <4>3 DEF EntryOf
      <4>5. /\ jobs[j] = None <=> Stage(jobs, j) = "none"
            /\ jobs'[j] = None <=> Stage(jobs', j) = "none"
            /\ "none" \notin Over /\ "unfinished" # "none" /\ Over = Ledger!Outcome
        BY <1>0, StagesTell DEF Over, Ledger!Outcome
      <4>6. CASE /\ Stage(jobs', j) = Stage(jobs, j)
                 /\ jobs[j] # None => jobs'[j].book = jobs[j].book
        <5>1. new[j] = old[j]
          BY <4>4, <4>5, <4>6 DEF Told
        <5> QED BY <5>1
      <4>7. CASE /\ Stage(jobs, j) = "unfinished" /\ Stage(jobs', j) \in Over
                 /\ jobs'[j].book = jobs[j].book
        <5>1. old[j] = Told(jobs, j) /\ new[j] = Told(jobs', j) /\ jobs[j] # None
          BY <4>4, <4>5, <4>7
        <5>2. Ledger!IsUnderway(old[j])
          BY <1>0, <2>1, <4>5, <4>7, <5>1 DEF Over
        <5>3. new[j] = [old[j] EXCEPT !.status = Stage(jobs', j)]
          BY <4>7, <5>1 DEF Told
        <5> QED BY <4>5, <4>7, <5>2, <5>3
      <4>8. CASE jobs[j] # None /\ jobs'[j] = None /\ j \in Closed'
        <5>1. old[j] = Told(jobs, j) /\ new[j] = Gone
          BY <4>4, <4>8
        <5> QED BY <1>0, <1>7, <2>1, <2>3, <4>8, <5>1
      <4>9. CASE jobs[j] = None /\ Stage(jobs', j) \in Over
        <5>1. old[j] = Gone /\ new[j] = Told(jobs', j) /\ jobs'[j] # None
          BY <4>4, <4>5, <4>9
        <5>2. jobs'[j].book \in Book
          BY <1>0, <5>1 DEF Table, Job
        <5> QED BY <1>7, <4>5, <4>9, <5>1, <5>2 DEF Told
      <4> QED BY <4>2, <4>6, <4>7, <4>8, <4>9 DEF Moves
    <3> QED BY <3>4, <3>5, <3>6
  <2> QED BY <2>2, <2>3
<1>9. ASSUME NEW j \in Id
      PROVE  \/ new[j] = old[j] \/ Ledger!Accept(j) \/ Ledger!End(j) \/ Ledger!Forget(j)
             \/ Ledger!Reread(j)
  BY <1>8 DEF old, new, Closed, Ledger!Accept, Ledger!End, Ledger!Forget, Ledger!Reread
<1> QED BY <1>5, <1>6, <1>9 DEF old, new, Closed, Ledger!LedgerStep

-----------------------------------------------------------------------------
(* The theorems.                                                           *)

QueueInv ==
  /\ Typed /\ FreshInv
  /\ SlotInv /\ DoneInv /\ RunInv /\ UpdateInv
  /\ OneJobInv /\ AcceptedAreDurable /\ AttendedInv /\ LedgerInv

(* An empty queue.                                                         *)
LEMMA QueueInit ==
  ASSUME Init
  PROVE  QueueInv
<1>1. /\ jobs = EmptyTable /\ disk = EmptyTable /\ EmptyTable \in Table
      /\ \A status : InStatus(EmptyTable, status) = {}
      /\ \A j \in Id : EmptyTable[j] = None
  BY DEF Init, EmptyTable, Table, InStatus, Tracked
<1>2. /\ Unfinished(EmptyTable) = {} /\ Finished(EmptyTable) = {} /\ Idle(EmptyTable) = {}
      /\ Running(EmptyTable) = {}
  BY <1>1 DEF Unfinished, Active, Queued, Finished, Idle, Running, Tracked
<1>3. Typed
  <2>1. TablesTyped
    BY <1>1 DEF Init, TablesTyped
  <2>2. TasksTyped
    <3>1. <<>> \in Seq(Entry)
      OBVIOUS
    <3> QED BY <3>1 DEF Init, TasksTyped
  <2>3. UpdatesTyped
    BY DEF Init, UpdatesTyped
  <2>4. WorldTyped
    BY DEF Init, WorldTyped
  <2>5. FilesTyped
    BY QueueAssumption DEF Init, FilesTyped
  <2> QED BY <2>1, <2>2, <2>3, <2>4, <2>5 DEF Typed
<1>4. FreshInv
  BY <1>1 DEF Init, FreshInv
<1>5. \A w \in Worker : workers[w] = None
  BY DEF Init
<1>6. SlotInv /\ DoneInv
  BY <1>5 DEF SlotInv, DoneInv, AtWork, IsAt
<1>7. RunInv
  <2>1. readable = Book
    BY DEF Init
  <2> QED BY <1>5, <2>1 DEF RunInv, AtWork, IsAt
<1>8. UpdateInv
  <2>1. writer = 0 /\ \A t \in Token : updates[t] = "unused"
    BY DEF Init
  <2> QED BY <2>1 DEF UpdateInv
<1>9. OneJobInv /\ AttendedInv
  BY <1>1, <1>2 DEF OneJobInv, OneJobPerBook, AttendedInv
<1>10. accepted = {} /\ Closed = {}
  BY DEF Init, Closed
<1>11. AcceptedAreDurable /\ LedgerInv
  BY <1>1, <1>2, <1>10 DEF AcceptedAreDurable, LedgerInv
<1> QED BY <1>3, <1>4, <1>6, <1>7, <1>8, <1>9, <1>11 DEF QueueInv

(* Whatever happens next, the queue stays sound.                           *)
LEMMA QueueNext ==
  ASSUME QueueInv, Next
  PROVE  QueueInv'
<1>1. TableStep /\ WorkersStep /\ CkptStep /\ RunningStep
  BY TableSteps, WorkersSteps, CkptSteps, RunningSteps DEF QueueInv
<1>2. Typed' /\ FreshInv'
  BY TypedKeeps, FreshKeeps DEF QueueInv
<1>3. SlotInv' /\ DoneInv'
  BY <1>1, SlotKeeps, DoneKeeps DEF QueueInv
<1>4. RunInv'
  BY <1>1, RunKeeps DEF QueueInv, UpdateInv
<1>5. UpdateInv'
  BY <1>1, UpdateKeeps DEF QueueInv
<1>6. OneJobInv'
  BY <1>1, OneJobKeeps DEF QueueInv
<1>7. AcceptedAreDurable'
  BY <1>1, DurableKeeps DEF QueueInv
<1>8. AttendedInv'
  BY <1>1, AttendedKeeps DEF QueueInv
<1>9. LedgerInv'
  BY <1>1, LedgerKeeps DEF QueueInv
<1> QED BY <1>2, <1>3, <1>4, <1>5, <1>6, <1>7, <1>8, <1>9 DEF QueueInv

(* Nothing happens to the queue while its variables stay.                  *)
LEMMA QueueStutters ==
  ASSUME QueueInv, UNCHANGED queueRunVars
  PROVE  QueueInv'
<1>1. UNCHANGED <<jobs, disk, ckpt, nextId, calls, batch, resuming, workers, signal, writer,
                  updates, readable, inputs, prints, used, row, accepted, dismissed, reported>>
  BY DEF queueRunVars, queueVars, tableVars, callVars, updateVars, fileVars, historyVars
<1>2. Typed' /\ FreshInv'
  BY <1>1 DEF QueueInv, Typed, TablesTyped, TasksTyped, UpdatesTyped, WorldTyped, FilesTyped, FreshInv
<1>3. SlotInv' /\ DoneInv' /\ RunInv'
  BY <1>1 DEF QueueInv, SlotInv, DoneInv, GoesOn, RunInv, AtWork, IsAt
<1>4. UpdateInv'
  BY <1>1 DEF QueueInv, UpdateInv, NoReaders, IsReader, IsKept
<1>5. OneJobInv' /\ AcceptedAreDurable'
  BY <1>1 DEF QueueInv, OneJobInv, OneJobPerBook, AcceptedAreDurable
<1>6. AttendedInv'
  BY <1>1 DEF QueueInv, AttendedInv, IsAttended, IsWaitingFor
<1>7. LedgerInv'
  BY <1>1 DEF QueueInv, LedgerInv, Closed, Lapsed, Agrees
<1> QED BY <1>2, <1>3, <1>4, <1>5, <1>6, <1>7 DEF QueueInv

(* The inductive invariant: types, what was created, the slot, runs and    *)
(* their checkpoints, the lock, the file and who attends to queued jobs.   *)
THEOREM QueueIsSound == Spec => []QueueInv
<1>1. Init => QueueInv
  BY QueueInit
<1>2. QueueInv /\ [Next]_queueRunVars => QueueInv'
  BY QueueNext, QueueStutters
<1> QED BY <1>1, <1>2, PTL DEF Spec

(* However requests, batches, recovery, controls, failed saves, panics,    *)
(* updates and restarts interleave, a book has one unfinished job in       *)
(* memory and one in the queue file, as long as no scan finds that a book  *)
(* under way lost its EPUB (create_queued_job, enqueue_sync_batch).        *)
THEOREM QueueRunsABookOnce == Spec => [](used.rescans = 0 => OneJobPerBook)
<1>1. QueueInv => (used.rescans = 0 => OneJobPerBook)
  BY DEF QueueInv, OneJobInv
<1> QED BY <1>1, QueueIsSound, PTL

(* What a request was answered with is in the file a restart reads, with   *)
(* its pause and its place while no save failed.                           *)
THEOREM QueueKeepsAccepted == Spec => []AcceptedAreDurable
<1>1. QueueInv => AcceptedAreDurable
  BY DEF QueueInv
<1> QED BY <1>1, QueueIsSound, PTL

(* Every queued job has a request, a batch, a worker or recovery that will *)
(* start it, or an update that will have it recovered.                     *)
THEOREM QueueAttendsToAll == Spec => []QueuedJobsAreAttended
<1>1. QueueInv => QueuedJobsAreAttended
  <2> SUFFICES ASSUME QueueInv, used.gone = 0, NEW j \in Queued(jobs), ~jobs[j].pending
               PROVE  \/ signal # 0
                      \/ \E c \in Caller : calls[c] # None /\ calls[c].created /\ calls[c].job = j
                      \/ \E k \in DOMAIN batch : batch[k].job = j
                      \/ \E w \in Worker : IsReader(w) /\ workers[w].job = j
    BY DEF QueuedJobsAreAttended
  <2>1. IsAttended(j)
    BY DEF QueueInv, AttendedInv, Idle
  <2>2. \A w \in Worker : IsWaitingFor(w, j) => IsReader(w) /\ workers[w].job = j
    BY DEF IsWaitingFor, IsReader
  <2> QED BY <2>1, <2>2 DEF IsAttended
<1> QED BY <1>1, QueueIsSound, PTL

(* The job of the run at work is running in the table, so that nobody may  *)
(* remove it with its checkpoint or start its book again.                  *)
THEOREM QueueProtectsRuns == Spec => []RunningJobsAreProtected
<1>1. QueueInv => RunningJobsAreProtected
  BY DEF QueueInv, RunInv, RunningJobsAreProtected, Running
<1> QED BY <1>1, QueueIsSound, PTL

(* An update that holds the queue, or has started its updater, has it      *)
(* alone and finds every unfinished job in the file as one to recover.     *)
THEOREM QueueStopsForUpdates == Spec => []UpdatesAreExclusive
<1>1. QueueInv => UpdatesAreExclusive
  <2> SUFFICES ASSUME QueueInv, \E t \in Token : updates[t] \in {"held", "kept"}
               PROVE  /\ NoReaders
                      /\ InStatus(jobs, "running") = {} /\ InStatus(disk, "running") = {}
                      /\ Unfinished(jobs) \ dismissed \subseteq Tracked(disk)
    BY DEF UpdatesAreExclusive
  <2>1. NoReaders /\ Running(jobs) = {} /\ Running(disk) = {} /\ \A j \in Id : IsKept(j)
    BY DEF QueueInv, UpdateInv
  <2>2. Unfinished(jobs) \subseteq Id /\ Unfinished(disk) \subseteq Tracked(disk)
    BY DEF Unfinished, Active, Queued, InStatus, Tracked
  <2> QED BY <2>1, <2>2 DEF IsKept, Running
<1> QED BY <1>1, QueueIsSound, PTL

(* Completed sections are only given up with the job, with its failed run, *)
(* once its map is published, or to the first section of a run with other  *)
(* inputs, and no checkpoint mixes sections of two inputs.                 *)
THEOREM QueueKeepsSections == Spec => SectionsOnlyAdvance
<1> DEFINE Kept == \A j \in Id : Advances(j)
<1>1. QueueInv /\ Next => Kept
  BY CkptSteps, SectionsAdvance DEF QueueInv
<1>2. UNCHANGED queueRunVars => UNCHANGED queueVars
  BY DEF queueRunVars
<1>3. QueueInv /\ [Next]_queueRunVars => [Kept]_queueVars
  BY <1>1, <1>2
<1> HIDE DEF Kept
<1>4. Spec => [][Kept]_queueVars
  BY <1>3, QueueIsSound, PTL DEF Spec
<1> QED BY <1>4 DEF Kept, Advances, SectionsOnlyAdvance

(* The queue implements SyncLedger: an accepted job is kept until its      *)
(* outcome was recorded or it was removed, an outcome does not change, and *)
(* no book has two accepted jobs under way.                                *)
THEOREM QueueImplementsLedger == Spec => KeepsLedger
<1>1. Init => Ledger!LedgerInit
  <2> SUFFICES ASSUME Init PROVE Ledger!LedgerInit
    OBVIOUS
  <2>1. used.errors = 0 /\ used.rescans = 0
    BY DEF Init, Kind
  <2>2. ~Lapsed /\ accepted = {} /\ dismissed = {} /\ reported = {}
    BY <2>1 DEF Lapsed, Init
  <2> QED BY <2>2 DEF Ledger!LedgerInit, AcceptedEntries
<1>2. QueueInv /\ QueueInv' /\ Next => Ledger!LedgerStep
  BY TableSteps, LedgerSteps DEF QueueInv
<1>3. UNCHANGED queueRunVars =>
        UNCHANGED <<AcceptedEntries(jobs), IF Lapsed THEN Id ELSE dismissed \cup reported>>
  BY DEF queueRunVars, queueVars, tableVars, historyVars, AcceptedEntries, Lapsed
<1>4. QueueInv /\ QueueInv' /\ [Next]_queueRunVars =>
        [Ledger!LedgerStep]_<<AcceptedEntries(jobs), IF Lapsed THEN Id ELSE dismissed \cup reported>>
  BY <1>2, <1>3
<1> QED BY <1>1, <1>4, QueueIsSound, PTL DEF Spec, KeepsLedger, Ledger!LedgerSpec
==============================================================================
