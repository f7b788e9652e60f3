--------------------------- MODULE SyncTableProofs ---------------------------
(***************************************************************************)
(* What the operators of SyncTable do to a table of jobs, for any books    *)
(* and any number of jobs.                                                 *)
(***************************************************************************)
EXTENDS SyncTable, FiniteSetTheorems, WellFoundedInduction, TLAPS

(* A finite set of integers has a greatest element, and Max is it.         *)
LEMMA MaxIsGreatest ==
  ASSUME NEW S \in SUBSET Int, IsFiniteSet(S), S # {}
  PROVE  Max(S) \in S /\ \A x \in S : x <= Max(S)
<1> DEFINE HasMax(T) == \E m \in T : \A x \in T : x <= m
<1> DEFINE Bad == {T \in SUBSET S : T # {} /\ ~HasMax(T)}
<1>1. HasMax(S)
  <2> SUFFICES ASSUME ~HasMax(S) PROVE FALSE
    OBVIOUS
  <2>1. S \in Bad
    OBVIOUS
  <2>2. Bad \subseteq FiniteSubsetsOf(S)
    BY FS_Subset DEF FiniteSubsetsOf
  <2>3. PICK T \in Bad : \A U \in Bad : <<U, T>> \notin StrictSubsetOrdering(S)
    BY <2>1, <2>2, FS_StrictSubsetOrderingWellFounded, WFMin
  <2>4. PICK t \in T : TRUE
    OBVIOUS
  <2>5. CASE T = {t}
    BY <2>3, <2>5
  <2>6. CASE T # {t}
    <3>1. (T \ {t}) # {} /\ <<T \ {t}, T>> \in StrictSubsetOrdering(S)
      BY <2>3, <2>4, <2>6 DEF StrictSubsetOrdering
    <3>2. PICK m \in T \ {t} : \A x \in T \ {t} : x <= m
      BY <2>3, <3>1
    <3>3. HasMax(T)
      BY <2>3, <2>4, <3>2
    <3> QED BY <2>3, <3>3
  <2> QED BY <2>5, <2>6
<1>2. \E m \in S : \A x \in S : m >= x
  BY <1>1
<1> QED BY <1>2 DEF Max

-----------------------------------------------------------------------------
(* What became of a job, whichever way it is on.                           *)
Stage(table, j) ==
  IF table[j] = None THEN "none"
  ELSE IF table[j].status \in {"completed", "failed"} THEN table[j].status
  ELSE "unfinished"

Over == {"completed", "failed"}

(* A job is where its stage says.                                          *)
LEMMA StagesTell ==
  ASSUME NEW table \in Table, NEW j \in Id
  PROVE  /\ Stage(table, j) \in {"none", "unfinished"} \cup Over
         /\ j \in Tracked(table) <=> Stage(table, j) # "none"
         /\ table[j] = None <=> Stage(table, j) = "none"
         /\ j \in Unfinished(table) <=> Stage(table, j) = "unfinished"
         /\ j \in Finished(table) <=> Stage(table, j) \in Over
<1>1. table[j] \in Job \cup {None}
  BY DEF Table
<1>2. table[j] # None => table[j].status \in {"queued", "running", "paused", "completed", "failed"}
  BY <1>1 DEF Job
<1> QED
  BY <1>1, <1>2 DEF Stage, Over, Tracked, Finished, Unfinished, Active, Queued, InStatus

\* The same jobs, each as far.
Same(t, u) ==
  \A i \in Id : Stage(u, i) = Stage(t, i) /\ (t[i] # None => u[i].book = t[i].book)

\* The same but for results that are gone.
Trims(t, u) ==
  \A i \in Id :
    \/ Stage(u, i) = Stage(t, i) /\ (t[i] # None => u[i].book = t[i].book)
    \/ Stage(u, i) = "none" /\ Stage(t, i) \in Over

\* The same but for jobs that are gone.
Narrows(t, u) ==
  \A i \in Id : u[i] # None =>
    t[i] # None /\ u[i].book = t[i].book /\ Stage(u, i) = Stage(t, i)

SamePlan(t, u) ==
  \A i \in Id : t[i] # None /\ u[i] # None => u[i].pause = t[i].pause /\ u[i].rank = t[i].rank

\* Queued, and nothing asks recovery to start it.
Idle(table) == {i \in Queued(table) : ~table[i].pending}

(* A job may be replaced by one of the same book that is as far.           *)
LEMMA UpdateIsTyped ==
  ASSUME NEW table \in Table, NEW j \in Id, NEW job \in Job \cup {None}
  PROVE  /\ Update(table, j, job) \in Table
         /\ Update(table, j, job)[j] = job
         /\ \A i \in Id \ {j} : Update(table, j, job)[i] = table[i]
BY DEF Update, Table

(* Replacing a job by one that is as far changes no stage.                *)
LEMMA UpdateKeepsStages ==
  ASSUME NEW table \in Table, NEW j \in Id, NEW job \in Job,
         table[j] # None, job.book = table[j].book,
         \/ job.status = table[j].status
         \/ job.status \notin Over /\ table[j].status \notin Over
  PROVE  Same(table, Update(table, j, job))
BY UpdateIsTyped, NoneAssumption DEF Same, Stage, Over

(* Pausing, resuming and stopping a job.                                   *)
LEMMA ControlsAreTyped ==
  ASSUME NEW table \in Table, NEW j \in Tracked(table), NextRank(table) \in Nat
  PROVE  /\ Paused(table[j]) \in Job
         /\ Resumed(table, j) \in Job
         /\ StoppedForPause(table[j]) \in Job
BY DEF Table, Tracked, Job, Paused, Resumed, StoppedForPause

(* There are finitely many jobs.                                           *)
LEMMA IdsAreFinite == \A S \in SUBSET Id : IsFiniteSet(S)
<1>1. 1 \in Int /\ MaxJobs \in Int
  BY TableAssumption
<1>2. IsFiniteSet(1 .. MaxJobs)
  BY <1>1, FS_Interval
<1> QED BY <1>2, FS_Subset DEF Id

(* The rank after all others is a number.                                  *)
LEMMA NextRankIsTyped ==
  ASSUME NEW table \in Table
  PROVE  NextRank(table) \in Nat
<1> DEFINE Order(j) == QueueOrder(table, j)
<1> DEFINE ranks == {Order(j) : j \in Tracked(table)}
<1>1. \A j \in Tracked(table) : QueueOrder(table, j) \in Nat
  <2> SUFFICES ASSUME NEW j \in Tracked(table) PROVE QueueOrder(table, j) \in Nat
    OBVIOUS
  <2>1. table[j] \in Job /\ j \in Nat
    BY TableAssumption DEF Tracked, Table, Id
  <2>2. table[j].rank \in Nat \cup {None}
    BY <2>1 DEF Job
  <2>3. Spacing * j \in Nat
    BY <2>1, TableAssumption
  <2> QED BY <2>2, <2>3 DEF QueueOrder
<1>2. IsFiniteSet(Tracked(table))
  BY IdsAreFinite DEF Tracked
<1>3. IsFiniteSet(ranks)
  <2> DEFINE f == [j \in Tracked(table) |-> Order(j)]
  <2>1. f \in Surjection(Tracked(table), ranks)
    BY DEF Surjection
  <2> QED BY <1>2, <2>1, FS_Surjection
<1>4. IsFiniteSet(ranks \cup {0})
  BY <1>3, FS_AddElement
<1>5. ranks \cup {0} \in SUBSET Int
  BY <1>1
<1>6. Max(ranks \cup {0}) \in ranks \cup {0}
  BY <1>4, <1>5, MaxIsGreatest
<1>7. Max(ranks \cup {0}) \in Nat
  BY <1>1, <1>6
<1> QED BY <1>7 DEF NextRank

(* A move changes nothing but ranks.                                       *)
LEMMA MovedKeeps ==
  ASSUME NEW table \in Table, NEW j \in Queued(table), NEW up \in BOOLEAN
  PROVE  /\ Moved(table, j, up) \in Table
         /\ Same(table, Moved(table, j, up))
         /\ \A i \in Id : table[i] # None =>
              /\ Moved(table, j, up)[i].status = table[i].status
              /\ Moved(table, j, up)[i].pending = table[i].pending
<1> DEFINE from == Place(table, j)
<1> DEFINE to == IF up THEN from - 1 ELSE from + 1
<1> DEFINE Rank(i) == IF \A other \in Queued(table) : Place(table, other) # to
                      THEN Place(table, i)
                      ELSE IF i = j THEN to
                      ELSE IF Place(table, i) = to THEN from ELSE Place(table, i)
<1> DEFINE moved == [i \in Id |-> IF i \in Queued(table) THEN [table[i] EXCEPT !.rank = Rank(i)]
                                  ELSE table[i]]
<1>1. \A i \in Id : Place(table, i) \in Nat
  <2> SUFFICES ASSUME NEW i \in Id PROVE Place(table, i) \in Nat
    OBVIOUS
  <2>1. IsFiniteSet({k \in Queued(table) : Before(table, k, i)})
    BY IdsAreFinite DEF Queued, InStatus, Tracked
  <2> QED BY <2>1, FS_CardinalityType DEF Place
<1>2. j \in Id /\ Queued(table) \subseteq Id
  BY DEF Queued, InStatus, Tracked
<1>3. \A i \in Queued(table) : Rank(i) \in Nat
  BY <1>1, <1>2
<1> HIDE DEF Rank
<1>4. \A i \in Queued(table) : table[i] \in Job
  BY DEF Queued, InStatus, Tracked, Table
<1>5. \A i \in Queued(table) :
        /\ [table[i] EXCEPT !.rank = Rank(i)] \in Job
        /\ [table[i] EXCEPT !.rank = Rank(i)].book = table[i].book
        /\ [table[i] EXCEPT !.rank = Rank(i)].status = table[i].status
        /\ [table[i] EXCEPT !.rank = Rank(i)].pending = table[i].pending
  BY <1>3, <1>4 DEF Job
<1>6. moved \in Table
  BY <1>5 DEF Table
<1>7. \A i \in Id : table[i] # None =>
        /\ moved[i] # None
        /\ moved[i].book = table[i].book /\ moved[i].status = table[i].status
        /\ moved[i].pending = table[i].pending
  BY <1>5, NoneAssumption
<1>8. \A i \in Id : table[i] = None => moved[i] = None
  BY DEF Queued, InStatus, Tracked
<1>9. Same(table, moved)
  BY <1>7, <1>8 DEF Same, Stage
<1> HIDE DEF moved
<1>10. moved = Moved(table, j, up)
  BY DEF moved, Moved, Rank
<1> QED BY <1>6, <1>7, <1>9, <1>10

(* A worker that is gone leaves its job as far as it was.                  *)
LEMMA RequeuedKeeps ==
  ASSUME NEW table \in Table, NEW j \in Id
  PROVE  /\ Requeued(table, j) \in Table
         /\ Same(table, Requeued(table, j))
         /\ SamePlan(table, Requeued(table, j))
         /\ Idle(Requeued(table, j)) \subseteq Idle(table)
         /\ j \notin InStatus(Requeued(table, j), "running")
         /\ InStatus(Requeued(table, j), "running") \subseteq InStatus(table, "running")
<1> DEFINE job == [table[j] EXCEPT !.status = "queued", !.pending = TRUE]
<1>1. CASE j \in Active(table)
  <2>1. table[j] \in Job /\ table[j] # None /\ table[j].status \in {"queued", "running"}
    BY <1>1 DEF Active, Queued, InStatus, Tracked, Table
  <2>2. /\ job \in Job /\ job.book = table[j].book /\ job.status = "queued" /\ job.pending = TRUE
        /\ job.pause = table[j].pause /\ job.rank = table[j].rank
    BY <2>1 DEF Job
  <2> HIDE DEF job
  <2>3. Same(table, Update(table, j, job))
    BY <2>1, <2>2, UpdateKeepsStages DEF Over
  <2>4. Requeued(table, j) = Update(table, j, job)
    BY <1>1 DEF Requeued, job
  <2>5. Update(table, j, job) \in Table /\ Update(table, j, job)[j] = job
        /\ \A i \in Id \ {j} : Update(table, j, job)[i] = table[i]
    BY <2>2, UpdateIsTyped
  <2> QED
    BY <2>1, <2>2, <2>3, <2>4, <2>5 DEF SamePlan, Idle, Queued, InStatus, Tracked
<1>2. CASE j \notin Active(table)
  <2>1. Requeued(table, j) = table
    BY <1>2 DEF Requeued
  <2> QED BY <1>2, <2>1 DEF Same, SamePlan, Idle, Active, InStatus
<1> QED BY <1>1, <1>2

(* A pause for an update leaves every job as far as it was, and none       *)
(* running; what is queued is left to recovery.                            *)
LEMMA SavedForUpdateKeeps ==
  ASSUME NEW table \in Table
  PROVE  /\ SavedForUpdate(table) \in Table
         /\ Same(table, SavedForUpdate(table))
         /\ SamePlan(table, SavedForUpdate(table))
         /\ Idle(SavedForUpdate(table)) = {}
         /\ InStatus(SavedForUpdate(table), "running") = {}
<1> DEFINE Job2(i) == [table[i] EXCEPT
             !.status  = IF table[i].pause THEN "paused" ELSE "queued",
             !.pending = ~table[i].pause]
<1>1. \A i \in Active(table) :
        /\ table[i] \in Job /\ table[i] # None /\ table[i].status \in {"queued", "running"}
        /\ Job2(i) \in Job /\ Job2(i).book = table[i].book
        /\ Job2(i).status \in {"queued", "paused"}
        /\ Job2(i).status = "queued" => Job2(i).pending
        /\ Job2(i).pause = table[i].pause /\ Job2(i).rank = table[i].rank
  BY DEF Active, Queued, InStatus, Tracked, Table, Job
<1>2. SavedForUpdate(table) =
        [i \in Id |-> IF i \in Active(table) THEN Job2(i) ELSE table[i]]
  BY DEF SavedForUpdate
<1> HIDE DEF Job2
<1>3. SavedForUpdate(table) \in Table
  BY <1>1, <1>2 DEF Table
<1>4. Same(table, SavedForUpdate(table)) /\ SamePlan(table, SavedForUpdate(table))
  BY <1>1, <1>2, NoneAssumption DEF Same, SamePlan, Stage
<1>5. \A i \in Id \ Active(table) : table[i] # None => table[i].status \notin {"queued", "running"}
  BY DEF Active, Queued, InStatus, Tracked
<1>6. Idle(SavedForUpdate(table)) = {}
  BY <1>1, <1>2, <1>5 DEF Idle, Queued, InStatus, Tracked
<1>7. InStatus(SavedForUpdate(table), "running") = {}
  BY <1>1, <1>2, <1>5 DEF InStatus, Tracked
<1> QED BY <1>3, <1>4, <1>6, <1>7

(* The queue file holds every job as far as it is.                         *)
LEMMA SnapshotKeeps ==
  ASSUME NEW table \in Table
  PROVE  /\ Snapshot(table) \in Table
         /\ Same(table, Snapshot(table))
         /\ SamePlan(table, Snapshot(table))
         /\ InStatus(Snapshot(table), "running") = InStatus(table, "running")
<1> DEFINE Saved(i) == [table[i] EXCEPT !.pending = FALSE]
<1>1. \A i \in Id : table[i] # None =>
        /\ table[i] \in Job
        /\ Saved(i) \in Job /\ Saved(i).book = table[i].book /\ Saved(i).status = table[i].status
        /\ Saved(i).pause = table[i].pause /\ Saved(i).rank = table[i].rank
  BY DEF Table, Job
<1>2. Snapshot(table) = [i \in Id |-> IF table[i] = None THEN None ELSE Saved(i)]
  BY DEF Snapshot
<1> HIDE DEF Saved
<1>3. Snapshot(table) \in Table
  BY <1>1, <1>2 DEF Table
<1>4. Same(table, Snapshot(table)) /\ SamePlan(table, Snapshot(table))
  BY <1>1, <1>2, NoneAssumption DEF Same, SamePlan, Stage
<1>5. InStatus(Snapshot(table), "running") = InStatus(table, "running")
  BY <1>1, <1>2, NoneAssumption DEF InStatus, Tracked
<1> QED BY <1>3, <1>4, <1>5

(* Jobs taken out are gone, the others untouched.                          *)
LEMMA WithoutIsTyped ==
  ASSUME NEW table \in Table, NEW ids
  PROVE  /\ Without(table, ids) \in Table
         /\ \A i \in Id : Without(table, ids)[i] = IF i \in ids THEN None ELSE table[i]
BY DEF Without, Table

\* Some results are gone.
Drops(t, u) == \A i \in Id : u[i] = t[i] \/ (u[i] = None /\ i \in Finished(t))

(* Pruning takes results only.                                             *)
LEMMA PrunedDrops ==
  ASSUME NEW table \in Table
  PROVE  /\ PruneFinishedJobs(table) \in Table /\ Drops(table, PruneFinishedJobs(table))
         /\ Pruned(table) \in Table /\ Drops(table, Pruned(table))
<1>1. \A t \in Table : PruneFinishedJobs(t) \in Table /\ Drops(t, PruneFinishedJobs(t))
  <2> SUFFICES ASSUME NEW t \in Table
               PROVE  PruneFinishedJobs(t) \in Table /\ Drops(t, PruneFinishedJobs(t))
    OBVIOUS
  <2> DEFINE ids == {j \in Finished(t) :
                Cardinality({i \in Finished(t) : i < j}) < Cardinality(Tracked(t)) - MaxTracked}
  <2>1. PruneFinishedJobs(t) = Without(t, ids)
    BY DEF PruneFinishedJobs
  <2>2. ids \subseteq Finished(t)
    OBVIOUS
  <2> HIDE DEF ids
  <2> QED BY <2>1, <2>2, WithoutIsTyped DEF Drops
<1>2. PruneSyncResults(table) \in Table /\ Drops(table, PruneSyncResults(table))
  <2> DEFINE ids == {j \in Finished(table) : \E i \in Finished(table) :
                       i > j /\ table[i].book = table[j].book}
  <2>1. PruneSyncResults(table) = Without(table, ids)
    BY DEF PruneSyncResults
  <2>2. ids \subseteq Finished(table)
    OBVIOUS
  <2> HIDE DEF ids
  <2> QED BY <2>1, <2>2, WithoutIsTyped DEF Drops
<1> DEFINE once == PruneSyncResults(table)
<1>3. PruneFinishedJobs(once) \in Table /\ Drops(once, PruneFinishedJobs(once))
  BY <1>1, <1>2
<1>4. Finished(once) \subseteq Finished(table)
  BY <1>2 DEF Drops, Finished, Tracked, Unfinished, Active, Queued, InStatus
<1>5. Drops(table, PruneFinishedJobs(once))
  BY <1>2, <1>3, <1>4 DEF Drops
<1> HIDE DEF once
<1>6. Pruned(table) = PruneFinishedJobs(once)
  BY DEF Pruned, once
<1> QED BY <1>1, <1>3, <1>5, <1>6

(* What is left is as far as it was.                                       *)
LEMMA DropsTrims ==
  ASSUME NEW t \in Table, NEW u \in Table, Drops(t, u)
  PROVE  /\ Trims(t, u) /\ SamePlan(t, u) /\ Idle(u) \subseteq Idle(t)
         /\ \A status : InStatus(u, status) \subseteq InStatus(t, status)
         /\ \A i \in Unfinished(t) : u[i] = t[i]
<1>1. \A i \in Id : i \in Finished(t) => Stage(t, i) \in Over
  BY StagesTell
<1>2. Trims(t, u)
  BY <1>1 DEF Drops, Trims, Stage
<1>3. \A i \in Unfinished(t) : u[i] = t[i] /\ i \in Id
  BY DEF Drops, Finished, Unfinished, Active, Queued, InStatus, Tracked
<1>4. \A status : InStatus(u, status) \subseteq InStatus(t, status)
  BY DEF Drops, InStatus, Tracked
<1>5. SamePlan(t, u) /\ Idle(u) \subseteq Idle(t)
  BY DEF Drops, SamePlan, Idle, Queued, InStatus, Tracked
<1> QED BY <1>2, <1>3, <1>4, <1>5

(* A job that ended is over, and nothing else changes.                     *)
LEMMA EndedIsOver ==
  ASSUME NEW table \in Table, NEW j \in Tracked(table), NEW status \in Over
  PROVE  /\ Ended(table, j, status) \in Table
         /\ Stage(Ended(table, j, status), j) = status
         /\ Ended(table, j, status)[j].book = table[j].book
         /\ Ended(table, j, status)[j] # None
         /\ \A i \in Id \ {j} : Ended(table, j, status)[i] = table[i]
         /\ SamePlan(table, Ended(table, j, status))
         /\ Idle(Ended(table, j, status)) \subseteq Idle(table)
         /\ j \notin Active(Ended(table, j, status))
<1> DEFINE job == [table[j] EXCEPT !.status = status, !.pending = FALSE]
<1>1. table[j] \in Job /\ table[j] # None /\ j \in Id
  BY DEF Tracked, Table
<1>2. /\ job \in Job /\ job.book = table[j].book /\ job.status = status
      /\ job.pause = table[j].pause /\ job.rank = table[j].rank
  BY <1>1 DEF Job, Over
<1> HIDE DEF job
<1>3. Ended(table, j, status) = Update(table, j, job)
  BY <1>1 DEF Ended, job
<1>4. /\ Update(table, j, job) \in Table /\ Update(table, j, job)[j] = job
      /\ \A i \in Id \ {j} : Update(table, j, job)[i] = table[i]
  BY <1>1, <1>2, UpdateIsTyped
<1> HIDE DEF Over
<1>5. job # None /\ status \in {"completed", "failed"}
  BY <1>2, NoneAssumption DEF Over
<1>6. Stage(Update(table, j, job), j) = status
  BY <1>2, <1>4, <1>5 DEF Stage
<1>7. SamePlan(table, Update(table, j, job))
  BY <1>2, <1>4 DEF SamePlan
<1>8. j \notin Active(Update(table, j, job))
  BY <1>2, <1>4, <1>5 DEF Active, Queued, InStatus
<1>9. Idle(Update(table, j, job)) \subseteq Idle(table)
  BY <1>4, <1>8 DEF Idle, Active, Queued, InStatus, Tracked
<1> QED BY <1>2, <1>3, <1>4, <1>5, <1>6, <1>7, <1>8, <1>9

(* Whether recovery is asked to start a job is not how far it is.          *)
LEMMA PendingKeeps ==
  ASSUME NEW t \in Table, NEW j \in Tracked(t), NEW asked \in BOOLEAN, NEW u,
         u = Update(t, j, [t[j] EXCEPT !.pending = asked])
  PROVE  /\ u \in Table /\ Same(t, u) /\ SamePlan(t, u)
         /\ \A status : InStatus(u, status) = InStatus(t, status)
         /\ Idle(u) \subseteq Idle(t) \cup {j}
         /\ (asked \/ t[j].status # "queued") => Idle(u) \subseteq Idle(t)
<1> DEFINE job == [t[j] EXCEPT !.pending = asked]
<1>1. t[j] \in Job /\ t[j] # None /\ j \in Id
  BY DEF Tracked, Table
<1>2. /\ job \in Job /\ job.book = t[j].book /\ job.status = t[j].status
      /\ job.pause = t[j].pause /\ job.rank = t[j].rank /\ job.pending = asked
  BY <1>1 DEF Job
<1>3. u = Update(t, j, job)
  OBVIOUS
<1> HIDE DEF job
<1>4. /\ u \in Table /\ u[j] = job /\ job # None
      /\ \A i \in Id \ {j} : u[i] = t[i]
  <2>1. job # None
    BY <1>2, NoneAssumption
  <2>2. /\ Update(t, j, job) \in Table /\ Update(t, j, job)[j] = job
        /\ \A i \in Id \ {j} : Update(t, j, job)[i] = t[i]
    BY <1>1, <1>2, UpdateIsTyped
  <2> QED BY <1>3, <2>1, <2>2
<1>5. Same(t, u)
  BY <1>1, <1>2, <1>3, UpdateKeepsStages
<1>6. SamePlan(t, u)
  BY <1>2, <1>4 DEF SamePlan
<1>7. \A status : InStatus(u, status) = InStatus(t, status)
  BY <1>1, <1>2, <1>4 DEF InStatus, Tracked
<1>8. Idle(u) \subseteq Idle(t) \cup {j}
  BY <1>4, <1>7 DEF Idle, Queued, InStatus, Tracked
<1>9. (asked \/ t[j].status # "queued") => Idle(u) \subseteq Idle(t)
  BY <1>2, <1>4, <1>8 DEF Idle, Queued, InStatus
<1> QED BY <1>4, <1>5, <1>6, <1>7, <1>8, <1>9

(* The relations between tables follow from each other.                    *)
LEMMA SameTrims ==
  ASSUME NEW t, NEW u, Same(t, u)
  PROVE  Trims(t, u)
BY DEF Same, Trims

(* Taking results is taking jobs.                                         *)
LEMMA TrimsNarrows ==
  ASSUME NEW t \in Table, NEW u \in Table, Trims(t, u)
  PROVE  Narrows(t, u)
BY StagesTell DEF Trims, Narrows, Over

(* Being the same jobs, each as far, is transitive ...                    *)
LEMMA SameIsTransitive ==
  ASSUME NEW t \in Table, NEW u \in Table, NEW v \in Table, Same(t, u), Same(u, v)
  PROVE  Same(t, v)
BY StagesTell DEF Same

(* ... so is having the same pauses and ranks ...                         *)
LEMMA SamePlanIsTransitive ==
  ASSUME NEW t \in Table, NEW u \in Table, NEW v \in Table,
         Same(t, u), SamePlan(t, u), SamePlan(u, v)
  PROVE  SamePlan(t, v)
BY StagesTell DEF Same, SamePlan

(* ... and what trims the one trims the other.                            *)
LEMMA SameThenTrims ==
  ASSUME NEW t \in Table, NEW u \in Table, NEW v \in Table, Same(t, u), Trims(u, v)
  PROVE  Trims(t, v)
BY StagesTell DEF Same, Trims

(* Being the same jobs works both ways.                                   *)
LEMMA SameIsSymmetric ==
  ASSUME NEW t \in Table, NEW u \in Table, Same(t, u)
  PROVE  Same(u, t)
BY StagesTell DEF Same

(* A table is the same as itself.                                         *)
LEMMA SameIsReflexive == \A t : Same(t, t) /\ SamePlan(t, t) /\ Trims(t, t) /\ Drops(t, t)
BY DEF Same, SamePlan, Trims, Drops

(* Which results are pruned depends on what is tracked and finished only.  *)
LEMMA PrunedAlike ==
  ASSUME NEW t \in Table, NEW u \in Table, Tracked(t) = Tracked(u), Finished(t) = Finished(u)
  PROVE  \E ids \in SUBSET Finished(t) :
           PruneFinishedJobs(t) = Without(t, ids) /\ PruneFinishedJobs(u) = Without(u, ids)
<1> DEFINE ids == {j \in Finished(t) :
                Cardinality({i \in Finished(t) : i < j}) < Cardinality(Tracked(t)) - MaxTracked}
<1>1. PruneFinishedJobs(t) = Without(t, ids)
  BY DEF PruneFinishedJobs
<1>2. PruneFinishedJobs(u) = Without(u, ids)
  BY DEF PruneFinishedJobs
<1>3. ids \in SUBSET Finished(t)
  OBVIOUS
<1> QED BY <1>1, <1>2, <1>3

==============================================================================
