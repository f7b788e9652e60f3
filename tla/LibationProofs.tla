---------------------------- MODULE LibationProofs ----------------------------
(* Proofs about LibationDownloads, for any number of accounts and readers, any *)
(* quotas and any bounds.                                                      *)
EXTENDS LibationDownloads, SequenceTheorems, TLAPS

--------------------------------------------------------------------------------
(* The title is put into the library once. The property alone is not kept by   *)
(* every step: it needs that Libation runs only while the files are not there, *)
(* and this needs that the lock admits one job at a time.                      *)

Values(f) == {f[x] : x \in DOMAIN f}

\* A record with the fields of a worker.
Shaped(w) == w = [phase |-> w.phase, left |-> w.left, from |-> w.from, heard |-> w.heard]

ServerShaped ==
    server = [enabled |-> server.enabled, ready |-> server.ready, has |-> server.has,
              closing |-> server.closing, lock |-> server.lock]

\* Tables are tables, and records have their fields.
Tabled ==
    /\ jobs \in Seq(Values(jobs))
    /\ ServerShaped
    /\ workers \in [DOMAIN workers -> Values(workers)]
    /\ DOMAIN workers \subseteq Nat
    /\ \A j \in DOMAIN workers : Shaped(workers[j])

\* Beyond the queue for the Libation lock.
Inside(j) == workers[j].phase \notin {"waiting", "locking"}

LockIsHeld == \A j \in DOMAIN workers : Inside(j) => server.lock = j

FetchedWhileMissing ==
    /\ audio \in BOOLEAN
    /\ imports = IF audio THEN 1 ELSE 0
    /\ \A j \in DOMAIN workers : workers[j].phase = "fetching" => ~audio

ImportInv == Tabled /\ LockIsHeld /\ FetchedWhileMissing

(* A sequence is one over what is in it.                                       *)
LEMMA SequenceOfItsRange ==
  ASSUME NEW S, NEW s \in Seq(S)
  PROVE  s \in Seq(Values(s))
<1> DEFINE R == Values(s)
<1>1. Len(s) \in Nat /\ DOMAIN s = 1..Len(s) /\ s \in [1..Len(s) -> S]
  OBVIOUS
<1>2. \A i \in 1..Len(s) : s[i] \in R
  BY <1>1 DEF Values
<1> HIDE DEF R
<1>3. s \in [1..Len(s) -> R]
  BY <1>1, <1>2
<1>4. s \in Seq(R)
  BY <1>1, <1>3, SeqDef
<1> QED BY <1>4 DEF R

(* The table of jobs stays one when jobs are added or one changes.             *)
LEMMA JobsAdded ==
  ASSUME jobs \in Seq(Values(jobs)), NEW S, NEW more \in Seq(S), jobs' = jobs \o more
  PROVE  jobs' \in Seq(Values(jobs'))
<1>1. jobs \in Seq(Values(jobs) \cup S) /\ more \in Seq(Values(jobs) \cup S)
  OBVIOUS
<1>2. jobs' \in Seq(Values(jobs) \cup S)
  BY <1>1
<1>3. jobs' \in Seq(Values(jobs'))
  BY <1>2, SequenceOfItsRange
<1> QED BY <1>3

\* The table of jobs stays a sequence when an entry of it is replaced.
LEMMA JobsChanged ==
  ASSUME jobs \in Seq(Values(jobs)), NEW j, NEW e, jobs' = [jobs EXCEPT ![j] = e]
  PROVE  jobs' \in Seq(Values(jobs'))
<1>1. Len(jobs) \in Nat /\ jobs \in [1..Len(jobs) -> Values(jobs)]
  OBVIOUS
<1>2. jobs' \in [1..Len(jobs) -> Values(jobs) \cup {e}]
  BY <1>1
<1>3. jobs' \in Seq(Values(jobs) \cup {e})
  BY <1>1, <1>2, SeqDef
<1>4. jobs' \in Seq(Values(jobs'))
  BY <1>3, SequenceOfItsRange
<1> QED BY <1>4

\* So it does when a job gets its outcome.
LEMMA JobsFinished ==
  ASSUME jobs \in Seq(Values(jobs)), NEW j, NEW status, NEW own, Finish(j, status, own)
  PROVE  jobs' \in Seq(Values(jobs'))
<1>1. jobs' = [jobs EXCEPT ![j] = [jobs[j] EXCEPT !.status = status, !.own = own]]
  BY DEF Finish
<1> QED BY <1>1, JobsChanged

\* A started server has no worker and no import.
LEMMA ImportInit == LibationInit => ImportInv
<1> SUFFICES ASSUME LibationInit PROVE ImportInv
  OBVIOUS
<1>1. jobs = <<>> /\ workers = <<>> /\ audio = FALSE /\ imports = 0
  BY DEF LibationInit
<1>2. server = [enabled |-> TRUE, ready |-> TRUE, has |-> FALSE, closing |-> FALSE,
                lock |-> None]
  BY DEF LibationInit
<1>3. jobs \in Seq(Values(jobs))
  BY <1>1, SequenceOfItsRange
<1>4. workers \in [DOMAIN workers -> Values(workers)] /\ DOMAIN workers = {}
  BY <1>1 DEF Values
<1>5. Tabled
  BY <1>2, <1>3, <1>4 DEF Tabled, ServerShaped
<1> QED BY <1>1, <1>4, <1>5 DEF ImportInv, LockIsHeld, FetchedWhileMissing

--------------------------------------------------------------------------------
(* What a step may do to the workers, to the lock and to the files.            *)

(* A step that leaves workers, lock and files alone.                           *)
LEMMA Elsewhere ==
  ASSUME ImportInv, jobs' \in Seq(Values(jobs')), ServerShaped', server'.lock = server.lock,
         UNCHANGED <<workers, audio, imports>>
  PROVE  ImportInv'
<1>1. Tabled'
  BY DEF ImportInv, Tabled, ServerShaped, Values
<1>2. LockIsHeld'
  BY DEF ImportInv, LockIsHeld, Inside
<1>3. FetchedWhileMissing'
  BY DEF ImportInv, FetchedWhileMissing
<1> QED BY <1>1, <1>2, <1>3 DEF ImportInv

(* A new worker starts outside.                                                *)
LEMMA WorkerComes ==
  ASSUME ImportInv, jobs' \in Seq(Values(jobs')), NEW j \in Nat, NEW heard,
         workers' = With(workers, j, Worker(heard)),
         UNCHANGED <<server, audio, imports>>
  PROVE  ImportInv'
<1>1. /\ DOMAIN workers' = DOMAIN workers \cup {j}
      /\ workers'[j] = Worker(heard)
      /\ \A k \in DOMAIN workers \ {j} : workers'[k] = workers[k]
      /\ workers' \in [DOMAIN workers' -> Values(workers')]
  BY DEF With, Values
<1>2. Tabled'
  BY <1>1 DEF ImportInv, Tabled, Worker, ServerShaped, Shaped
<1>3. Worker(heard).phase = "waiting"
  BY DEF Worker
<1>4. \A k \in DOMAIN workers' :
         \/ workers'[k].phase = "waiting"
         \/ k \in DOMAIN workers /\ workers'[k] = workers[k]
  BY <1>1, <1>3
<1>5. LockIsHeld'
  BY <1>4 DEF ImportInv, LockIsHeld, Inside
<1>6. FetchedWhileMissing'
  BY <1>4 DEF ImportInv, FetchedWhileMissing
<1> QED BY <1>2, <1>5, <1>6 DEF ImportInv

(* A worker that ends gives up the lock only if it has it.                     *)
LEMMA WorkerGoes ==
  ASSUME ImportInv, jobs' \in Seq(Values(jobs')), NEW j \in DOMAIN workers,
         workers' = Without(workers, j), ServerShaped',
         server'.lock = server.lock \/ Inside(j), UNCHANGED <<audio, imports>>
  PROVE  ImportInv'
<1>1. /\ DOMAIN workers' = DOMAIN workers \ {j}
      /\ \A k \in DOMAIN workers \ {j} : workers'[k] = workers[k]
      /\ workers' \in [DOMAIN workers' -> Values(workers')]
  BY DEF Without, Values
<1>2. Tabled'
  BY <1>1 DEF ImportInv, Tabled, ServerShaped
<1>3. LockIsHeld'
  BY <1>1 DEF ImportInv, LockIsHeld, Inside
<1>4. FetchedWhileMissing'
  BY <1>1 DEF ImportInv, FetchedWhileMissing
<1> QED BY <1>2, <1>3, <1>4 DEF ImportInv

(* A worker goes on: it is outside as before, or has the lock; and Libation is *)
(* run only for a title that is not here.                                      *)
LEMMA WorkerGoesOn ==
  ASSUME ImportInv, jobs' \in Seq(Values(jobs')), NEW j \in DOMAIN workers, NEW w,
         Shaped(w), workers' = [workers EXCEPT ![j] = w],
         ServerShaped', w.phase \in {"waiting", "locking"} \/ server'.lock = j,
         server'.lock = server.lock \/ server.lock = None,
         w.phase = "fetching" => ~audio,
         UNCHANGED <<audio, imports>>
  PROVE  ImportInv'
<1>1. /\ DOMAIN workers' = DOMAIN workers
      /\ workers'[j] = w
      /\ \A k \in DOMAIN workers \ {j} : workers'[k] = workers[k]
      /\ workers' \in [DOMAIN workers' -> Values(workers')]
  BY DEF Values, ImportInv, Tabled
<1>2. Tabled'
  BY <1>1 DEF ImportInv, Tabled, ServerShaped, Shaped
<1>3. None \notin DOMAIN workers
  BY LibationConstants DEF ImportInv, Tabled
<1>4. LockIsHeld'
  BY <1>1, <1>3 DEF ImportInv, LockIsHeld, Inside
<1>5. FetchedWhileMissing'
  BY <1>1 DEF ImportInv, FetchedWhileMissing
<1> QED BY <1>2, <1>4, <1>5 DEF ImportInv

--------------------------------------------------------------------------------
(* Every step of the server.                                                   *)

LEMMA PeopleKeepImports == ImportInv /\ People => ImportInv'
<1> SUFFICES ASSUME ImportInv, People PROVE ImportInv'
  OBVIOUS
<1>1. UNCHANGED <<server, jobs, workers, audio, imports>>
  BY DEF People, StartDownload, FileRequest, RepeatRequest, Approve, Reject, QueuePurchase,
      OwnershipChanges, AskForAll, memory, ghosts
<1> QED BY <1>1, Elsewhere DEF ImportInv, Tabled, ServerShaped

\* A call may append a job and a worker that holds nothing yet; it fetches nothing
\* (create_job, spawn).
LEMMA CallsKeepImports ==
  ASSUME ImportInv, NEW c \in calls, CallStep(c) \/ DropCall(c)
  PROVE  ImportInv'
<1>1. jobs \in Seq(Values(jobs)) /\ NextJob \in Nat /\ ServerShaped
      /\ DOMAIN jobs \subseteq Nat
  BY DEF ImportInv, Tabled, NextJob
<1>2. ASSUME NEW e, jobs' = Append(jobs, e)
      PROVE  jobs' \in Seq(Values(jobs'))
  <2>1. <<e>> \in Seq({e}) /\ jobs' = jobs \o <<e>>
    BY <1>1, <1>2
  <2> QED BY <2>1, <1>1, JobsAdded
<1>3. ASSUME jobs' \in Seq(Values(jobs')), UNCHANGED <<server, workers, audio, imports>>
      PROVE  ImportInv'
  BY <1>3, <1>1, Elsewhere DEF ServerShaped
<1>4. CASE GrantOnly(c)
  BY <1>4, <1>2, <1>3 DEF GrantOnly
<1>5. CASE StartLiberate(c)
  <2> DEFINE known == Existing("liberate", c.profile)
             fresh == IF known = {} THEN <<NewJob("liberate", c.profile, "queued")>> ELSE <<>>
             own == IF c.user = None THEN <<>> ELSE <<NewJob("grant", c.profile, "queued")>>
             both == {NewJob("liberate", c.profile, "queued"), NewJob("grant", c.profile, "queued")}
  <2>0. fresh \in Seq(both) /\ own \in Seq(both)
    <3>1. ASSUME NEW a, NEW b
          PROVE  <<>> \in Seq({a, b}) /\ <<a>> \in Seq({a, b}) /\ <<b>> \in Seq({a, b})
      OBVIOUS
    <3> QED BY <3>1
  <2>1. jobs' = jobs \o fresh \o own
    BY <1>5 DEF StartLiberate
  <2>2. UNCHANGED <<server, audio, imports>>
        /\ \E download \in IF known = {} THEN {NextJob} ELSE known, heard \in Hearing(c) :
             workers' = IF known # {} THEN workers ELSE With(workers, download, Worker(heard))
    BY <1>5 DEF StartLiberate, ghosts
  <2>3. known \subseteq DOMAIN jobs
    BY DEF Existing
  <2> HIDE DEF known, fresh, own, both
  <2>4. fresh \o own \in Seq(both) /\ jobs' = jobs \o (fresh \o own)
    BY <2>0, <2>1, <1>1
  <2>5. jobs' \in Seq(Values(jobs'))
    BY <2>4, <1>1, JobsAdded
  <2>6. CASE UNCHANGED workers
    BY <2>6, <2>2, <2>5, <1>3
  <2>7. CASE \E download \in Nat : \E heard : workers' = With(workers, download, Worker(heard))
    BY <2>7, <2>2, <2>5, WorkerComes
  <2> QED BY <2>2, <2>3, <2>6, <2>7, <1>1
<1>6. CASE StartAll(c)
  <2>1. PICK status : jobs' = Append(jobs, NewJob("all", None, status))
    BY <1>6 DEF StartAll
  <2>2. jobs' \in Seq(Values(jobs')) /\ UNCHANGED <<server, audio, imports>>
    BY <2>1, <1>2, <1>6 DEF StartAll
  <2>3. CASE UNCHANGED workers
    BY <2>2, <2>3, <1>3
  <2>4. ASSUME NEW heard, workers' = With(workers, NextJob, Worker(heard))
        PROVE  ImportInv'
    BY <2>2, <2>4, <1>1, WorkerComes
  <2> QED BY <1>6, <2>3, <2>4 DEF StartAll
<1>7. CASE DropCall(c)
  BY <1>7, <1>1, <1>2, <1>3 DEF DropCall
<1>8. CASE LinkIntent(c) \/ RefuseIntent(c) \/ LinkRequest(c) \/ RefuseRequest(c)
           \/ NothingToStart(c)
  BY <1>8, <1>1, <1>3 DEF LinkIntent, RefuseIntent, LinkRequest, RefuseRequest,
      NothingToStart, ghosts
<1> QED BY <1>4, <1>5, <1>6, <1>7, <1>8 DEF CallStep

\* A worker fetches only under the Libation lock, and after it looked for the title
\* under it.
LEMMA WorkersKeepImports ==
  ASSUME ImportInv, NEW j \in DOMAIN workers, WorkerStep(j)
  PROVE  ImportInv'
<1> DEFINE w == workers[j]
<1>1. jobs \in Seq(Values(jobs)) /\ Shaped(w) /\ ServerShaped /\ j # None
      /\ (Inside(j) => server.lock = j)
  BY LibationConstants DEF ImportInv, Tabled, LockIsHeld
<1>2. \A phase : /\ Shaped([w EXCEPT !.phase = phase])
                 /\ [w EXCEPT !.phase = phase].phase = phase
  BY <1>1 DEF Shaped
<1>3. CASE SeeLibrary(j)
  <2>1. workers' = [workers EXCEPT ![j] = [w EXCEPT !.phase = "locking"]]
        /\ UNCHANGED <<server, jobs, audio, imports>>
    BY <1>3 DEF SeeLibrary, SetWorker, ghosts
  <2> QED BY <2>1, <1>1, <1>2, WorkerGoesOn DEF ServerShaped
<1>4. CASE LeaveForShutdown(j)
  BY <1>1, <1>4, JobsFinished, WorkerGoes DEF LeaveForShutdown, ServerShaped
<1>5. CASE TakeLock(j)
  <2>1. server' = [server EXCEPT !.lock = j] /\ server.lock = None
    BY <1>5 DEF TakeLock
  <2>2. ServerShaped' /\ server'.lock = j
    BY <2>1, <1>1 DEF ServerShaped
  <2>3. jobs' = [jobs EXCEPT ![j] = [jobs[j] EXCEPT !.status = "running"]]
    BY <1>5 DEF TakeLock
  <2>4. jobs' \in Seq(Values(jobs'))
    BY <2>3, <1>1, JobsChanged
  <2>5. PICK left : workers' = [workers EXCEPT ![j] =
                      [phase |-> "trying", from |-> None, heard |-> w.heard, left |-> left]]
    BY <1>5 DEF TakeLock, SetWorker
  <2>6. Shaped([phase |-> "trying", from |-> None, heard |-> w.heard, left |-> left])
    BY DEF Shaped
  <2>7. UNCHANGED <<audio, imports>>
    BY <1>5 DEF TakeLock, ghosts
  <2> QED BY <2>1, <2>2, <2>4, <2>5, <2>6, <2>7, WorkerGoesOn
<1>6. CASE Look(j)
  <2> DEFINE next == IF AlreadyHere THEN After(j) ELSE "fetching"
             v(p) == [phase |-> next, from |-> p, left |-> w.left \ {p}, heard |-> w.heard]
  <2>1. PICK p : workers' = [workers EXCEPT ![j] = v(p)]
    BY <1>6 DEF Look, SetWorker
  <2>2. Shaped(v(p)) /\ v(p).phase = next
    BY DEF Shaped
  <2>3. next = "fetching" => ~audio
    BY DEF After, AlreadyHere
  <2>4. Inside(j) /\ UNCHANGED <<server, jobs, audio, imports>>
    BY <1>6 DEF Look, Inside, ghosts
  <2> HIDE DEF v, next
  <2> QED BY <1>1, <2>1, <2>2, <2>3, <2>4, WorkerGoesOn DEF ServerShaped
<1>7. CASE Fetch(j)
  <2>1. w.phase = "fetching" /\ Inside(j) /\ UNCHANGED <<server, jobs>>
    BY <1>7 DEF Fetch, Inside
  <2>2. PICK phase \in {"trying", "rescanning"} :
           workers' = [workers EXCEPT ![j] = [w EXCEPT !.phase = phase]]
    BY <1>7 DEF Fetch, SetWorker, After
  <2>3. CASE UNCHANGED <<audio, imports>>
    BY <2>1, <2>2, <2>3, <1>1, <1>2, WorkerGoesOn DEF ServerShaped
  <2>4. CASE audio' = TRUE /\ imports' = imports + 1
    <3>1. /\ DOMAIN workers' = DOMAIN workers
          /\ workers'[j] = [w EXCEPT !.phase = phase]
          /\ \A k \in DOMAIN workers \ {j} : workers'[k] = workers[k]
          /\ workers' \in [DOMAIN workers' -> Values(workers')]
      BY <2>2 DEF Values, ImportInv, Tabled
    <3>2. Tabled'
      BY <3>1, <2>1, <1>1, <1>2 DEF ImportInv, Tabled, ServerShaped, Shaped
    <3>3. LockIsHeld'
      BY <3>1, <2>1, <1>1, <1>2 DEF ImportInv, LockIsHeld, Inside
    <3>4. \A k \in DOMAIN workers \ {j} : workers[k].phase # "fetching"
      BY <2>1, <1>1 DEF ImportInv, LockIsHeld, Inside
    <3>5. ~audio /\ imports = 0
      BY <2>1 DEF ImportInv, FetchedWhileMissing
    <3>6. FetchedWhileMissing'
      BY <3>1, <3>4, <3>5, <2>2, <2>4, <1>2 DEF FetchedWhileMissing
    <3> QED BY <3>2, <3>3, <3>6 DEF ImportInv
  <2> QED BY <1>7, <2>3, <2>4 DEF Fetch
<1>8. CASE RescanFinds(j)
  <2>1. Inside(j) /\ ServerShaped' /\ workers' = Without(workers, j)
        /\ UNCHANGED <<audio, imports>>
    BY <1>8, <1>1 DEF RescanFinds, EndWorker, Inside, Scanned, ServerShaped
  <2> QED BY <1>1, <1>8, <2>1, JobsFinished, WorkerGoes DEF RescanFinds
<1>9. CASE RescanMisses(j)
  <2>1. Inside(j) /\ workers' = [workers EXCEPT ![j] = [w EXCEPT !.phase = "trying"]]
        /\ UNCHANGED <<jobs, audio, imports>>
    BY <1>9 DEF RescanMisses, Inside, SetWorker, ghosts
  <2>2. ServerShaped' /\ server'.lock = server.lock
    BY <1>9, <1>1 DEF RescanMisses, Scanned, ServerShaped
  <2> QED BY <1>1, <1>2, <2>1, <2>2, WorkerGoesOn
<1>10. CASE GiveUp(j)
  <2>1. Inside(j) /\ ServerShaped' /\ workers' = Without(workers, j)
        /\ UNCHANGED <<audio, imports>>
    BY <1>10, <1>1 DEF GiveUp, EndWorker, Inside, ServerShaped
  <2> QED BY <1>1, <1>10, <2>1, JobsFinished, WorkerGoes DEF GiveUp
<1>11. CASE FinishAll(j)
  <2>1. Inside(j) /\ ServerShaped' /\ workers' = Without(workers, j)
        /\ UNCHANGED <<audio, imports>>
    BY <1>11, <1>1 DEF FinishAll, EndWorker, Inside, Scanned, ServerShaped
  <2> QED BY <1>1, <1>11, <2>1, JobsFinished, WorkerGoes DEF FinishAll
<1> QED BY <1>3, <1>4, <1>5, <1>6, <1>7, <1>8, <1>9, <1>10, <1>11 DEF WorkerStep

\* Grants, watchers, the recovery, scans and the shutdown do not touch the workers
\* that hold the lock.
LEMMA OthersKeepImports ==
  ASSUME ImportInv,
         \/ \E j \in DOMAIN grants : GrantStep(j)
         \/ \E w \in watchers : WatcherStep(w)
         \/ \E s \in settlers : Settle(s)
         \/ \E j \in DOMAIN jobs : Forget(j)
         \/ RecoveryStep
         \/ CatalogueIsScanned
         \/ AnnounceShutdown
  PROVE  ImportInv'
<1>1. jobs \in Seq(Values(jobs)) /\ ServerShaped
  BY DEF ImportInv, Tabled
<1>2. ASSUME jobs' \in Seq(Values(jobs')), UNCHANGED <<server, workers, audio, imports>>
      PROVE  ImportInv'
  BY <1>1, <1>2, Elsewhere DEF ServerShaped
<1>3. ASSUME NEW j \in DOMAIN grants, GrantStep(j)
      PROVE  ImportInv'
  <2>1. UNCHANGED <<server, workers, audio, imports>>
    BY <1>3 DEF GrantStep, DownloadEnds, CheckOwnership, GrantAccess
  <2>2. CASE \E status, own : Finish(j, status, own)
    BY <2>1, <2>2, <1>1, <1>2, JobsFinished
  <2>3. CASE UNCHANGED jobs
    BY <2>1, <2>3, <1>1, <1>2
  <2>4. CASE jobs' = [jobs EXCEPT ![j].status = "running"]
    BY <2>1, <2>4, <1>1, <1>2, JobsChanged
  <2> QED BY <1>3, <2>2, <2>3, <2>4 DEF GrantStep, DownloadEnds, CheckOwnership, GrantAccess,
             EndGrant
<1>4. ASSUME NEW w \in watchers, WatcherStep(w)
      PROVE  ImportInv'
  BY <1>4, <1>1, <1>2 DEF WatcherStep, RemoveIntent, ClearAll
<1>5. ASSUME NEW s \in settlers, Settle(s)
      PROVE  ImportInv'
  BY <1>5, <1>1, <1>2 DEF Settle
<1>6. ASSUME NEW j \in DOMAIN jobs, Forget(j)
      PROVE  ImportInv'
  <2>1. UNCHANGED <<server, workers, audio, imports>>
    BY <1>6 DEF Forget, tasks, ghosts
  <2>2. jobs' = [jobs EXCEPT ![j] = [jobs[j] EXCEPT !.status = "forgotten"]]
    BY <1>6 DEF Forget
  <2> QED BY <2>1, <2>2, <1>1, <1>2, JobsChanged
<1>7. CASE RecoveryStep
  BY <1>7, <1>1, <1>2 DEF RecoveryStep, RecoverBegin, RecoverIntent, RecoverRequests,
      RecoverRequest, RecoverAll, ghosts
<1>8. CASE CatalogueIsScanned
  <2>1. UNCHANGED <<jobs, workers, audio, imports>> /\ ServerShaped'
        /\ server'.lock = server.lock
    BY <1>8, <1>1 DEF CatalogueIsScanned, tasks, ghosts, ServerShaped
  <2> QED BY <2>1, <1>1, Elsewhere
<1>9. CASE AnnounceShutdown
  <2>1. UNCHANGED <<jobs, workers, audio, imports>> /\ ServerShaped'
        /\ server'.lock = server.lock
    BY <1>9, <1>1 DEF AnnounceShutdown, tasks, ghosts, ServerShaped
  <2> QED BY <2>1, <1>1, Elsewhere
<1> QED BY <1>3, <1>4, <1>5, <1>6, <1>7, <1>8, <1>9

(* With the process go its jobs and the lock; the files stay.                  *)
LEMMA RestartKeepsImports == ImportInv /\ Restart => ImportInv'
<1> SUFFICES ASSUME ImportInv, Restart PROVE ImportInv'
  OBVIOUS
<1>1. jobs' = <<>> /\ workers' = <<>> /\ UNCHANGED <<audio, imports>>
  BY DEF Restart
<1>2. PICK enabled \in BOOLEAN :
        server' = [enabled |-> enabled, ready |-> FALSE, has |-> FALSE,
                   closing |-> FALSE, lock |-> None]
  BY DEF Restart
<1>3. jobs' \in Seq(Values(jobs'))
  BY <1>1, SequenceOfItsRange
<1>4. workers' \in [DOMAIN workers' -> Values(workers')] /\ DOMAIN workers' = {}
  BY <1>1 DEF Values
<1>5. Tabled'
  BY <1>2, <1>3, <1>4 DEF Tabled, ServerShaped
<1> QED BY <1>1, <1>4, <1>5 DEF ImportInv, LockIsHeld, FetchedWhileMissing

(* Every step keeps the invariant of the imports.                              *)
LEMMA StepsKeepImports == ImportInv /\ [LibationNext]_vars => ImportInv'
<1> SUFFICES ASSUME ImportInv, [LibationNext]_vars PROVE ImportInv'
  OBVIOUS
<1>1. CASE UNCHANGED vars
  <2>1. UNCHANGED <<server, jobs, workers, audio, imports>>
    BY <1>1 DEF vars, memory, ghosts
  <2> QED BY <2>1, Elsewhere DEF ImportInv, Tabled, ServerShaped
<1>2. CASE LibationNext
  BY <1>2, PeopleKeepImports, CallsKeepImports, WorkersKeepImports, OthersKeepImports,
      RestartKeepsImports DEF LibationNext
<1> QED BY <1>1, <1>2

(* Jobs started twice, tried from another account, recovered after a restart or *)
(* for "download everything": the files of the title are put into the library  *)
(* once, since every job looks for them under the Libation lock.               *)
THEOREM TitlesAreImportedOnce == LibationSpec => []TitleIsImportedOnce
<1>1. ImportInv => TitleIsImportedOnce
  BY DEF ImportInv, FetchedWhileMissing, TitleIsImportedOnce
<1> QED BY ImportInit, StepsKeepImports, <1>1, PTL DEF LibationSpec

--------------------------------------------------------------------------------
(* Nobody has the book who did not start, or was not allowed, a download from  *)
(* an account that owned it. A reader's right to it travels with the work: from *)
(* the stored intent or the approved request to the call that takes it up, now *)
(* or after a restart, and from there to the grant. The invariant says that it *)
(* is never lost or made up on the way.                                        *)

Spending == [used : [1..8 -> Nat], most : [1..8 -> Nat]]

Request(r) == store.requests[r]

StoreShaped ==
    store = [pending |-> store.pending, requests |-> store.requests, bulk |-> store.bulk,
             seen |-> store.seen, access |-> store.access]

RequestShaped(q) == q = [user |-> q.user, profile |-> q.profile, status |-> q.status,
                         decided |-> q.decided, job |-> q.job]

GrantShaped(g) == g = [phase |-> g.phase, download |-> g.download, profile |-> g.profile,
                       user |-> g.user]

RecoveryShaped ==
    recovery = [phase |-> recovery.phase, left |-> recovery.left,
                waits |-> recovery.waits, heard |-> recovery.heard]

Shapes ==
    /\ StoreShaped /\ RecoveryShaped /\ spent \in Spending
    /\ store.requests \in [DOMAIN store.requests -> Values(store.requests)]
    /\ grants \in [DOMAIN grants -> Values(grants)]
    /\ \A r \in DOMAIN store.requests : RequestShaped(Request(r))
    /\ \A j \in DOMAIN grants : GrantShaped(grants[j])

Entitled(x) == <<x.user, x.profile>> \in entitled

IntentEarned(intent) == intent.user # None => Entitled(intent)

\* A failed request that was decided upon may be taken up again.
RequestEarned(r) ==
    /\ r \in Nat /\ r <= spent.used[File]
    /\ \/ Request(r).status = "approved"
       \/ Request(r).status = "failed" /\ Request(r).decided
       => Entitled(Request(r))

\* Work for request r is under way: whatever is filed later is another request.
Allowed(r) ==
    /\ r \in Nat /\ r <= spent.used[File]
    /\ r \in DOMAIN store.requests => Entitled(Request(r))

CallEarned(c) ==
    /\ c.for # "all" /\ c.user # None => Entitled(c)
    /\ c.for = "request" => Allowed(c.id)

GrantEarned(g) == Entitled(g) /\ (g.phase = "granting" => g.profile \in owned)

RecoveryEarned ==
    \A next \in recovery.left :
        /\ recovery.phase = "intents" => IntentEarned(next.entry)
        /\ recovery.phase = "requests" => Entitled(next.entry) /\ Allowed(next.id)

EarnInv ==
    /\ Shapes
    /\ owns \subseteq owned
    /\ \A i \in DOMAIN store.pending : IntentEarned(store.pending[i])
    /\ \A r \in DOMAIN store.requests : RequestEarned(r)
    /\ \A c \in calls : CallEarned(c)
    /\ \A j \in DOMAIN grants : GrantEarned(grants[j])
    /\ RecoveryEarned
    /\ AccessIsEarned

\* What a server finds at its start gives nobody access without evidence.
LEMMA EarnInit == LibationInit => EarnInv
<1> SUFFICES ASSUME LibationInit PROVE EarnInv
  OBVIOUS
<1>1. /\ StoreShaped /\ RecoveryShaped /\ recovery.left = {}
      /\ store.pending = <<>> /\ store.requests = <<>> /\ store.access = {}
      /\ calls = {} /\ grants = <<>> /\ owns = owned
  BY DEF LibationInit, StoreShaped, RecoveryShaped, AtStart
<1>2. spent \in Spending
  BY LibationConstants DEF LibationInit, Spending
<1>3. DOMAIN store.requests = {} /\ DOMAIN grants = {} /\ DOMAIN store.pending = {}
  BY <1>1
<1>4. /\ store.requests \in [DOMAIN store.requests -> Values(store.requests)]
      /\ grants \in [DOMAIN grants -> Values(grants)]
  BY <1>1 DEF Values
<1>5. Shapes
  BY <1>1, <1>2, <1>3, <1>4 DEF Shapes
<1> QED BY <1>1, <1>3, <1>5 DEF EarnInv, RecoveryEarned, AccessIsEarned

(* What a step leaves alone stays earned, whatever else becomes of it, if the  *)
(* numbers of requests are not given out twice.                                *)
LEMMA EarnedStep ==
  ASSUME EarnInv, Shapes', entitled \subseteq entitled', owned \subseteq owned',
         owns' \subseteq owned', spent.used[File] <= spent'.used[File],
         \A r \in DOMAIN store'.requests :
            /\ \/ r > spent.used[File]
               \/ /\ r \in DOMAIN store.requests
                  /\ store'.requests[r].user = store.requests[r].user
                  /\ store'.requests[r].profile = store.requests[r].profile
            /\ \/ r \in DOMAIN store.requests /\ store'.requests[r] = store.requests[r]
               \/ RequestEarned(r)',
         \A i \in DOMAIN store'.pending :
            \/ i \in DOMAIN store.pending /\ store'.pending[i] = store.pending[i]
            \/ IntentEarned(store.pending[i])',
         \A c \in calls' : c \in calls \/ CallEarned(c)',
         \A j \in DOMAIN grants' :
            \/ j \in DOMAIN grants /\ grants'[j] = grants[j]
            \/ GrantEarned(grants[j])',
         UNCHANGED recovery \/ RecoveryEarned',
         \A u \in store'.access :
            u \in store.access \/ \E p \in owned' : <<u, p>> \in entitled'
  PROVE  EarnInv'
<1>1. spent.used[File] \in Nat /\ spent'.used[File] \in Nat
  BY DEF EarnInv, Shapes, Spending, File
<1>2. ASSUME NEW r, Allowed(r)
      PROVE  Allowed(r)'
  BY <1>1, <1>2 DEF Allowed, Entitled, Request
<1>3. ASSUME NEW r \in DOMAIN store'.requests
      PROVE  RequestEarned(r)'
  <2>1. CASE r \in DOMAIN store.requests /\ store'.requests[r] = store.requests[r]
    <3>1. RequestEarned(r)
      BY <2>1 DEF EarnInv
    <3> QED BY <3>1, <2>1, <1>1 DEF RequestEarned, Entitled, Request
  <2> QED BY <2>1
<1>4. \A i \in DOMAIN store'.pending : IntentEarned(store.pending[i])'
  BY DEF EarnInv, IntentEarned, Entitled
<1>5. \A c \in calls' : CallEarned(c)'
  BY <1>2 DEF EarnInv, CallEarned, Entitled
<1>6. \A j \in DOMAIN grants' : GrantEarned(grants[j])'
  BY DEF EarnInv, GrantEarned, Entitled
<1>7. RecoveryEarned'
  BY <1>2 DEF EarnInv, RecoveryEarned, IntentEarned, Entitled
<1>8. AccessIsEarned'
  BY DEF EarnInv, AccessIsEarned
<1> QED BY <1>3, <1>4, <1>5, <1>6, <1>7, <1>8 DEF EarnInv

(* A request that changes is of the same reader, and no other changes with it.  *)
LEMMA RequestChanges ==
  ASSUME Shapes, NEW r \in DOMAIN store.requests, NEW status, NEW decided, NEW job,
         store' = Becomes(r, status, decided, job)
  PROVE  /\ StoreShaped' /\ DOMAIN store'.requests = DOMAIN store.requests
         /\ store'.requests \in [DOMAIN store'.requests -> Values(store'.requests)]
         /\ store'.pending = store.pending /\ store'.access = store.access
         /\ store'.requests[r] =
              [user |-> Request(r).user, profile |-> Request(r).profile,
               status |-> status, decided |-> decided, job |-> job]
         /\ \A other \in DOMAIN store.requests \ {r} :
               store'.requests[other] = store.requests[other]
<1> DEFINE q == [user |-> Request(r).user, profile |-> Request(r).profile,
                 status |-> status, decided |-> decided, job |-> job]
<1>1. StoreShaped /\ store.requests \in [DOMAIN store.requests -> Values(store.requests)]
  BY DEF Shapes
<1>2. store' = [store EXCEPT !.requests = [store.requests EXCEPT ![r] = q]]
  BY DEF Becomes, Request
<1> HIDE DEF q
<1>3. StoreShaped' /\ store'.requests = [store.requests EXCEPT ![r] = q]
      /\ store'.pending = store.pending /\ store'.access = store.access
  BY <1>1, <1>2 DEF StoreShaped
<1>4. store'.requests \in [DOMAIN store.requests -> Values(store'.requests)]
  BY <1>3, <1>1 DEF Values
<1> QED BY <1>1, <1>3, <1>4 DEF q

(* A step that spends counts up.                                               *)
LEMMA Spent ==
  ASSUME spent \in Spending, NEW k \in 1..8, Spend(k)
  PROVE  /\ spent' \in Spending
         /\ spent'.used[k] = spent.used[k] + 1
         /\ \A i \in 1..8 \ {k} : spent'.used[i] = spent.used[i]
<1>1. spent' = [spent EXCEPT !.used = [spent.used EXCEPT ![k] = @ + 1]]
  BY DEF Spend, Spending
<1>2. spent.used \in [1..8 -> Nat]
  BY DEF Spending
<1>3. [spent.used EXCEPT ![k] = @ + 1] \in [1..8 -> Nat]
  BY <1>2
<1> QED BY <1>1, <1>2, <1>3 DEF Spending

(* A step that changes one request.                                            *)
LEMMA EarnedRequest ==
  ASSUME EarnInv, NEW r \in DOMAIN store.requests, NEW status, NEW decided, NEW job,
         store' = Becomes(r, status, decided, job),
         spent' \in Spending, spent.used[File] <= spent'.used[File],
         entitled \subseteq entitled',
         status = "approved" \/ (status = "failed" /\ decided)
            => <<Request(r).user, Request(r).profile>> \in entitled',
         \A c \in calls' : c \in calls \/ CallEarned(c)',
         UNCHANGED <<owns, owned, grants, recovery>>
  PROVE  EarnInv'
<1>1. Shapes /\ spent.used[File] \in Nat /\ spent'.used[File] \in Nat
  BY DEF EarnInv, Shapes, Spending, File
<1>2. /\ StoreShaped' /\ DOMAIN store'.requests = DOMAIN store.requests
      /\ store'.requests \in [DOMAIN store'.requests -> Values(store'.requests)]
      /\ store'.pending = store.pending /\ store'.access = store.access
      /\ store'.requests[r] =
           [user |-> Request(r).user, profile |-> Request(r).profile,
            status |-> status, decided |-> decided, job |-> job]
      /\ \A other \in DOMAIN store.requests \ {r} :
            store'.requests[other] = store.requests[other]
  BY <1>1, RequestChanges
<1>3. \A k \in DOMAIN store'.requests : RequestShaped(Request(k))'
  BY <1>1, <1>2 DEF Shapes, Request, RequestShaped
<1>4. Shapes'
  BY <1>1, <1>2, <1>3 DEF Shapes, RecoveryShaped
<1>5. RequestEarned(r)'
  BY <1>1, <1>2 DEF EarnInv, RequestEarned, Entitled, Request
<1>6. \A k \in DOMAIN store'.requests :
        /\ k \in DOMAIN store.requests
        /\ store'.requests[k].user = store.requests[k].user
        /\ store'.requests[k].profile = store.requests[k].profile
        /\ store'.requests[k] = store.requests[k] \/ RequestEarned(k)'
  BY <1>2, <1>5 DEF Request
<1> QED BY <1>2, <1>4, <1>6, EarnedStep DEF EarnInv

(* A request that was allowed is taken up.                                     *)
LEMMA EarnedApproval ==
  ASSUME EarnInv, NEW r \in DOMAIN store.requests, NEW q, q = Request(r),
         NEW decided, NEW job, NEW origin, RequestEarned(r),
         store' = Becomes(r, "approved", decided, job),
         calls' = calls \cup {Attach(r, q, origin)},
         spent' \in Spending, spent.used[File] <= spent'.used[File],
         entitled \subseteq entitled', <<q.user, q.profile>> \in entitled',
         UNCHANGED <<owns, owned, grants, recovery>>
  PROVE  EarnInv'
<1>1. Shapes /\ spent.used[File] \in Nat /\ spent'.used[File] \in Nat
  BY DEF EarnInv, Shapes, Spending, File
<1>2. store'.requests[r].user = q.user /\ store'.requests[r].profile = q.profile
  <2>1. store'.requests[r] = [user |-> Request(r).user, profile |-> Request(r).profile,
                              status |-> "approved", decided |-> decided, job |-> job]
    BY <1>1, RequestChanges
  <2> QED BY <2>1
<1>3. ASSUME NEW c, c = Attach(r, q, origin)
      PROVE  CallEarned(c)'
  <2>1. c.id = r /\ c.user = q.user /\ c.profile = q.profile
    BY <1>3 DEF Attach
  <2>2. Allowed(r)'
    BY <1>1, <1>2 DEF Allowed, Entitled, Request, RequestEarned
  <2> QED BY <2>1, <2>2 DEF CallEarned, Entitled
<1>4. \A c \in calls' : c \in calls \/ CallEarned(c)'
  BY <1>3
<1> QED BY <1>4, EarnedRequest

(* A step that leaves what is stored, granted and recovered alone.             *)
LEMMA EarnedQuietly ==
  ASSUME EarnInv, UNCHANGED <<store, grants, recovery>>, entitled \subseteq entitled',
         owned \subseteq owned', owns' \subseteq owned',
         spent' \in Spending, spent.used[File] <= spent'.used[File],
         \A c \in calls' : c \in calls \/ CallEarned(c)'
  PROVE  EarnInv'
<1>1. Shapes'
  BY DEF EarnInv, Shapes, StoreShaped, RecoveryShaped, Request
<1> QED BY <1>1, EarnedStep DEF EarnInv

\* Requests, rulings and downloads that people ask for carry the evidence with them:
\* the right to download directly, a ruling, or ownership.
LEMMA PeopleKeepEarned ==
  ASSUME EarnInv, People
  PROVE  EarnInv'
<1>1. Shapes /\ owns \subseteq owned /\ spent \in Spending /\ spent.used[File] \in Nat
  BY DEF EarnInv, Shapes, Spending, File
<1>2. ASSUME NEW k \in 1..8, Spend(k)
      PROVE  /\ spent' \in Spending /\ spent.used[File] <= spent'.used[File]
             /\ (k = File => spent'.used[File] = spent.used[File] + 1)
  BY <1>1, <1>2, Spent DEF File, Spending
<1>3. ASSUME NEW by \in Direct \cup {Admin}, NEW p \in Profiles, StartDownload(by, p)
      PROVE  EarnInv'
  <2> DEFINE intent == Intent(p, Grantee(by), by)
  <2>1. /\ store' = [store EXCEPT !.pending = With(@, NextIntent, intent)]
        /\ calls' = calls \cup {Dispatch(NextIntent, intent, "client")}
        /\ entitled' = IF by = Admin THEN entitled ELSE entitled \cup {<<by, p>>}
        /\ UNCHANGED <<owns, owned, grants, recovery>>
    BY <1>3 DEF StartDownload
  <2>2. spent' \in Spending /\ spent.used[File] <= spent'.used[File]
    BY <1>3, <1>2 DEF StartDownload, Start
  <2>3. /\ store'.pending = With(store.pending, NextIntent, intent) /\ StoreShaped'
        /\ store'.requests = store.requests /\ store'.access = store.access
    BY <2>1, <1>1 DEF Shapes, StoreShaped
  <2>4. Shapes'
    BY <2>1, <2>2, <2>3, <1>1 DEF Shapes, RecoveryShaped, Request
  <2>5. intent.user # None => <<intent.user, intent.profile>> \in entitled'
    BY <2>1 DEF Intent, Grantee
  <2>6. \A i \in DOMAIN store'.pending :
            \/ i \in DOMAIN store.pending /\ store'.pending[i] = store.pending[i]
            \/ IntentEarned(store.pending[i])'
    BY <2>3, <2>5 DEF With, IntentEarned, Entitled
  <2>7. \A c \in calls' : c \in calls \/ CallEarned(c)'
    BY <2>1, <2>5 DEF Dispatch, CallEarned, Entitled
  <2> QED BY <2>1, <2>2, <2>3, <2>4, <2>6, <2>7, EarnedStep DEF EarnInv
<1>4. ASSUME NEW p \in Profiles, QueuePurchase(p)
      PROVE  EarnInv'
  <2> DEFINE intent == Intent(p, None, Admin)
  <2>1. /\ store' = [store EXCEPT !.seen = @ \cup {p},
                                  !.pending = With(@, NextIntent, intent)]
        /\ calls' = calls \cup {Dispatch(NextIntent, intent, "refresh")}
        /\ UNCHANGED <<owns, owned, grants, recovery, entitled>>
    BY <1>4 DEF QueuePurchase, ghosts
  <2>2. spent' \in Spending /\ spent.used[File] <= spent'.used[File]
    BY <1>4, <1>2 DEF QueuePurchase, Buy
  <2>3. /\ store'.pending = With(store.pending, NextIntent, intent) /\ StoreShaped'
        /\ store'.requests = store.requests /\ store'.access = store.access
    BY <2>1, <1>1 DEF Shapes, StoreShaped
  <2>4. Shapes'
    BY <2>1, <2>2, <2>3, <1>1 DEF Shapes, RecoveryShaped, Request
  <2>5. intent.user = None
    BY DEF Intent
  <2>6. \A i \in DOMAIN store'.pending :
            \/ i \in DOMAIN store.pending /\ store'.pending[i] = store.pending[i]
            \/ IntentEarned(store.pending[i])'
    BY <2>3, <2>5 DEF With, IntentEarned
  <2>7. \A c \in calls' : c \in calls \/ CallEarned(c)'
    BY <2>1, <2>5 DEF Dispatch, CallEarned
  <2> QED BY <2>1, <2>2, <2>3, <2>4, <2>6, <2>7, EarnedStep DEF EarnInv
<1>5. ASSUME NEW u \in Asking, NEW p \in Profiles, FileRequest(u, p)
      PROVE  EarnInv'
  <2>0. PICK n : n = spent.used[File] + 1
    OBVIOUS
  <2> DEFINE request == [user |-> u, profile |-> p, status |-> "pending",
                    decided |-> FALSE, job |-> None]
  <2>1. spent' \in Spending /\ spent'.used[File] = n
    BY <2>0, <1>5, <1>2 DEF FileRequest, File
  <2>2. PICK kept : /\ store' = [store EXCEPT !.requests = With(kept, n, request)]
                    /\ \/ kept = store.requests
                       \/ \E oldest : kept = Without(store.requests, oldest)
    BY <2>0, <1>5 DEF FileRequest
  <2>3. DOMAIN kept \subseteq DOMAIN store.requests
        /\ \A k \in DOMAIN kept : kept[k] = store.requests[k]
    BY <2>2 DEF Without
  <2>4. /\ store'.requests = With(kept, n, request) /\ StoreShaped'
        /\ store'.pending = store.pending /\ store'.access = store.access
    BY <2>2, <1>1 DEF Shapes, StoreShaped
  <2>5. UNCHANGED <<owns, owned, grants, recovery, entitled, calls>>
    BY <1>5 DEF FileRequest, memory, ghosts
  <2>6. /\ store'.requests \in [DOMAIN store'.requests -> Values(store'.requests)]
        /\ n \in DOMAIN store'.requests /\ store'.requests[n] = request
        /\ \A k \in DOMAIN store'.requests \ {n} :
              k \in DOMAIN store.requests /\ store'.requests[k] = store.requests[k]
    BY <2>3, <2>4 DEF With, Values
  <2> HIDE DEF request
  <2>7. \A k \in DOMAIN store'.requests : RequestShaped(Request(k))'
    BY <2>6, <1>1 DEF Shapes, Request, RequestShaped, request
  <2>8. Shapes'
    BY <2>1, <2>4, <2>5, <2>6, <2>7, <1>1 DEF Shapes, RecoveryShaped
  <2>9. /\ n \in Nat /\ n <= spent'.used[File] /\ n > spent.used[File]
        /\ spent.used[File] <= spent'.used[File]
    BY <2>0, <2>1, <1>1
  <2>10. RequestEarned(n)'
    BY <2>9, <2>6 DEF RequestEarned, Request, request
  <2> QED BY <1>1, <2>4, <2>5, <2>6, <2>8, <2>9, <2>10, EarnedStep DEF EarnInv
<1>6. ASSUME NEW r \in DOMAIN store.requests, RepeatRequest(r)
      PROVE  EarnInv'
  <2>1. PICK q : q = Request(r)
    OBVIOUS
  <2>2. RequestEarned(r)
    BY DEF EarnInv
  <2>3. Entitled(q)
    BY <2>1, <2>2, <1>6 DEF RepeatRequest, RequestEarned, Request
  <2>4. /\ store' = Becomes(r, "approved", q.decided, None)
        /\ calls' = calls \cup {Attach(r, q, "client")}
        /\ UNCHANGED <<owns, owned, grants, recovery, entitled>>
    BY <2>1, <1>6 DEF RepeatRequest, Request, ghosts
  <2>5. spent' \in Spending /\ spent.used[File] <= spent'.used[File]
        /\ spent'.used[File] \in Nat
    BY <1>6, <1>2 DEF RepeatRequest, Rule, Spending, File
  <2> QED BY <2>1, <2>2, <2>3, <2>4, <2>5, EarnedApproval DEF Entitled
<1>7. ASSUME NEW r \in DOMAIN store.requests, Approve(r)
      PROVE  EarnInv'
  <2>1. PICK q : q = Request(r)
    OBVIOUS
  <2>2. RequestEarned(r)
    BY DEF EarnInv
  <2>3. /\ store' = Becomes(r, "approved", TRUE, q.job)
        /\ calls' = calls \cup {Attach(r, q, "client")}
        /\ entitled' = entitled \cup {<<q.user, q.profile>>}
        /\ UNCHANGED <<owns, owned, grants, recovery>>
    BY <2>1, <1>7 DEF Approve, Request
  <2>4. spent' \in Spending /\ spent.used[File] <= spent'.used[File]
        /\ spent'.used[File] \in Nat
    BY <1>7, <1>2 DEF Approve, Rule, Spending, File
  <2> QED BY <2>1, <2>2, <2>3, <2>4, EarnedApproval
<1>8. ASSUME NEW r \in DOMAIN store.requests, Reject(r)
      PROVE  EarnInv'
  <2>1. PICK job : job = Request(r).job
    OBVIOUS
  <2>2. /\ store' = Becomes(r, "rejected", TRUE, job)
        /\ UNCHANGED <<owns, owned, grants, recovery, entitled, calls>>
    BY <2>1, <1>8 DEF Reject, Request, memory, ghosts
  <2>3. spent' \in Spending /\ spent.used[File] <= spent'.used[File]
    BY <1>8, <1>2 DEF Reject, Rule
  <2> QED BY <2>2, <2>3, EarnedRequest
<1>9. CASE AskForAll
  <2>1. /\ UNCHANGED <<store, owns, owned, grants, recovery, entitled>>
        /\ \A c \in calls' : c \in calls \/ c.for = "all"
    BY <1>9 DEF AskForAll, ghosts
  <2>2. spent' \in Spending /\ spent.used[File] <= spent'.used[File]
    BY <1>9, <1>2 DEF AskForAll, All
  <2>3. \A c \in calls' : c \in calls \/ CallEarned(c)'
    BY <2>1 DEF CallEarned
  <2> QED BY <2>1, <2>2, <2>3, <1>1, EarnedQuietly
<1>10. ASSUME NEW p \in Profiles, OwnershipChanges(p)
       PROVE  EarnInv'
  <2>1. /\ UNCHANGED <<store, grants, recovery, entitled, calls>>
        /\ owned \subseteq owned' /\ owns' \subseteq owned'
    BY <1>10, <1>1 DEF OwnershipChanges, memory
  <2>2. spent' \in Spending /\ spent.used[File] <= spent'.used[File]
    BY <1>10, <1>2 DEF OwnershipChanges, Own
  <2> QED BY <2>1, <2>2, EarnedQuietly
<1> QED BY <1>3, <1>4, <1>5, <1>6, <1>7, <1>8, <1>9, <1>10 DEF People

(* A step that leaves what is stored alone; a new grant is for an earned call. *)
LEMMA EarnedMemory ==
  ASSUME EarnInv, UNCHANGED <<owns, owned, entitled>>, StoreShaped', RecoveryShaped',
         store'.requests = store.requests, store'.access = store.access,
         \A i \in DOMAIN store'.pending :
            i \in DOMAIN store.pending /\ store'.pending[i] = store.pending[i],
         spent' \in Spending, spent.used[File] <= spent'.used[File],
         recovery'.phase = recovery.phase, recovery'.left = recovery.left,
         \A c \in calls' : c \in calls \/ CallEarned(c),
         \/ UNCHANGED grants
         \/ \E c \in calls : \E j, phase, download :
              /\ grants' = With(grants, j, Waiting(c, phase, download))
              /\ c.for # "all" /\ c.user # None /\ phase # "granting"
  PROVE  EarnInv'
<1>1. Shapes /\ spent.used[File] \in Nat /\ spent'.used[File] \in Nat
  BY DEF EarnInv, Shapes, Spending, File
<1> DEFINE Kept == /\ grants' \in [DOMAIN grants' -> Values(grants')]
                   /\ \A j \in DOMAIN grants' :
                        /\ GrantShaped(grants'[j])
                        /\ \/ j \in DOMAIN grants /\ grants'[j] = grants[j]
                           \/ GrantEarned(grants[j])'
<1>2. Kept
  <2>1. CASE UNCHANGED grants
    BY <2>1, <1>1 DEF Shapes
  <2>2. ASSUME NEW c \in calls, NEW k, NEW phase, NEW download,
               grants' = With(grants, k, Waiting(c, phase, download)),
               c.for # "all", c.user # None, phase # "granting"
        PROVE  Kept
    <3>1. /\ grants' \in [DOMAIN grants' -> Values(grants')]
          /\ grants'[k] = Waiting(c, phase, download)
          /\ \A j \in DOMAIN grants' \ {k} : j \in DOMAIN grants /\ grants'[j] = grants[j]
      BY <2>2 DEF With, Values
    <3>2. GrantShaped(grants'[k]) /\ grants'[k].phase = phase
          /\ grants'[k].user = c.user /\ grants'[k].profile = c.profile
      BY <3>1 DEF Waiting, GrantShaped
    <3>3. ASSUME NEW j \in DOMAIN grants', j = k
          PROVE  GrantShaped(grants'[j]) /\ GrantEarned(grants[j])'
      BY <2>2, <3>2, <3>3 DEF EarnInv, CallEarned, GrantEarned, Entitled
    <3>4. ASSUME NEW j \in DOMAIN grants', j # k
          PROVE  /\ GrantShaped(grants'[j])
                 /\ j \in DOMAIN grants /\ grants'[j] = grants[j]
      BY <3>1, <3>4, <1>1 DEF Shapes
    <3> QED BY <3>1, <3>3, <3>4
  <2> HIDE DEF Kept
  <2> QED BY <2>1, <2>2
<1>3. Shapes'
  BY <1>1, <1>2 DEF Shapes, Request
<1>4. ASSUME NEW r, Allowed(r)
      PROVE  Allowed(r)'
  BY <1>1, <1>4 DEF Allowed, Entitled, Request
<1>5. \A c \in calls' : c \in calls \/ CallEarned(c)'
  BY <1>4 DEF CallEarned, Entitled
<1>6. RecoveryEarned'
  BY <1>4 DEF EarnInv, RecoveryEarned, IntentEarned, Entitled
<1> QED BY <1>2, <1>3, <1>5, <1>6, EarnedStep DEF EarnInv

\* The handlers pass on to intents, requests and grants what their callers were
\* entitled to.
LEMMA CallsKeepEarned ==
  ASSUME EarnInv, NEW c \in calls, CallStep(c) \/ DropCall(c)
  PROVE  EarnInv'
<1>1. Shapes /\ spent.used[File] \in Nat /\ CallEarned(c)
      /\ StoreShaped /\ RecoveryShaped /\ spent \in Spending
  BY DEF EarnInv, Shapes, Spending, File
<1>2. ASSUME Spend(Fault) \/ UNCHANGED spent
      PROVE  spent' \in Spending /\ spent.used[File] <= spent'.used[File]
  BY <1>1, <1>2, Spent DEF File, Fault, Spending
<1>3. \A job, download, heard : CallEarned(Answered(c, job, download, heard))
  BY <1>1 DEF CallEarned, Answered, Entitled
<1>4. ASSUME UNCHANGED store
      PROVE  /\ StoreShaped' /\ store'.requests = store.requests
             /\ store'.access = store.access
             /\ \A i \in DOMAIN store'.pending :
                   i \in DOMAIN store.pending /\ store'.pending[i] = store.pending[i]
  BY <1>1, <1>4 DEF StoreShaped
<1>5. ASSUME UNCHANGED recovery
      PROVE  RecoveryShaped' /\ recovery'.phase = recovery.phase
             /\ recovery'.left = recovery.left
  BY <1>1, <1>5 DEF RecoveryShaped
<1>6. CASE GrantOnly(c)
  <2>1. UNCHANGED <<owns, owned, entitled, store, recovery, spent>>
        /\ c.for # "all" /\ c.user # None
    BY <1>6 DEF GrantOnly
  <2>2. \A d \in calls' : d \in calls \/ CallEarned(d)
    BY <1>6, <1>3 DEF GrantOnly, Replace
  <2>3. \E j, phase, download :
           grants' = With(grants, j, Waiting(c, phase, download)) /\ phase # "granting"
    <3>1. grants' = With(grants, NextJob, Waiting(c, "checking", None))
      BY <1>6 DEF GrantOnly
    <3> QED BY <3>1
  <2> QED BY <2>1, <2>2, <2>3, <1>2, <1>4, <1>5, EarnedMemory
<1>7. CASE StartLiberate(c)
  <2>1. UNCHANGED <<owns, owned, entitled, store, recovery, spent>> /\ c.for # "all"
    BY <1>7 DEF StartLiberate
  <2>2. \A d \in calls' : d \in calls \/ CallEarned(d)
    BY <1>7, <1>3 DEF StartLiberate, Replace
  <2>3. \/ UNCHANGED grants
        \/ /\ c.user # None
           /\ \E j, phase, download :
                grants' = With(grants, j, Waiting(c, phase, download)) /\ phase # "granting"
    <3>1. PICK j, download :
             grants' = IF c.user = None THEN grants
                       ELSE With(grants, j, Waiting(c, "waiting", download))
      BY <1>7 DEF StartLiberate
    <3> QED BY <3>1
  <2> QED BY <2>1, <2>2, <2>3, <1>2, <1>4, <1>5, EarnedMemory
<1>8. CASE LinkIntent(c)
  <2>1. UNCHANGED <<owns, owned, entitled, store, grants, spent>> /\ calls' \subseteq calls
    BY <1>8 DEF LinkIntent, ghosts
  <2>2. RecoveryShaped' /\ recovery'.phase = recovery.phase /\ recovery'.left = recovery.left
    <3>1. CASE UNCHANGED recovery
      BY <3>1, <1>5
    <3>2. CASE recovery' = [recovery EXCEPT !.waits = {c.job, c.download}]
      BY <3>2, <1>1 DEF RecoveryShaped
    <3> QED BY <3>1, <3>2, <1>8 DEF LinkIntent
  <2> QED BY <2>1, <2>2, <1>2, <1>4, EarnedMemory
<1>9. CASE RefuseIntent(c)
  <2>1. UNCHANGED <<owns, owned, entitled, recovery, grants>> /\ calls' \subseteq calls
    BY <1>9 DEF RefuseIntent
  <2>2. Spend(Fault) \/ UNCHANGED spent
    BY <1>9 DEF RefuseIntent
  <2>3. CASE store' = Pending(c.id)
    <3>1. StoreShaped' /\ store'.requests = store.requests /\ store'.access = store.access
          /\ store'.pending = Without(store.pending, c.id)
      BY <2>3, <1>1 DEF Pending, StoreShaped
    <3>2. \A i \in DOMAIN store'.pending :
            i \in DOMAIN store.pending /\ store'.pending[i] = store.pending[i]
      BY <3>1 DEF Without
    <3> QED BY <2>1, <2>2, <3>1, <3>2, <1>2, <1>5, EarnedMemory
  <2>4. CASE UNCHANGED store
    BY <2>1, <2>2, <2>4, <1>2, <1>4, <1>5, EarnedMemory
  <2> QED BY <2>3, <2>4, <1>9 DEF RefuseIntent
<1>10. CASE LinkRequest(c)
  <2>1. UNCHANGED <<owns, owned, entitled, recovery, grants>> /\ calls' \subseteq calls
        /\ (Spend(Fault) \/ UNCHANGED spent)
    BY <1>10 DEF LinkRequest
  <2>2. CASE UNCHANGED store
    BY <2>1, <2>2, <1>2, <1>4, <1>5, EarnedMemory
  <2>3. CASE c.id \in DOMAIN store.requests
             /\ store' = Becomes(c.id, Request(c.id).status, Request(c.id).decided, c.job)
    <3>1. PICK q : q = Request(c.id)
      OBVIOUS
    <3>2. RequestEarned(c.id)
      BY <2>3 DEF EarnInv
    <3>3. q.status = "approved" \/ (q.status = "failed" /\ q.decided)
            => <<Request(c.id).user, Request(c.id).profile>> \in entitled'
      BY <2>1, <3>1, <3>2 DEF RequestEarned, Entitled
    <3> QED BY <2>1, <2>3, <3>1, <3>3, <1>2, EarnedRequest
  <2> QED BY <2>2, <2>3, <1>10 DEF LinkRequest, Request
<1>11. CASE RefuseRequest(c)
  <2>1. UNCHANGED <<owns, owned, entitled, recovery, grants>> /\ calls' \subseteq calls
        /\ Spend(Fault) /\ c.for = "request"
    BY <1>11 DEF RefuseRequest
  <2>2. CASE UNCHANGED store
    BY <2>1, <2>2, <1>2, <1>4, <1>5, EarnedMemory
  <2>3. CASE c.id \in DOMAIN store.requests
             /\ store' = Becomes(c.id, "failed", Request(c.id).decided, None)
    <3>1. PICK q : q = Request(c.id)
      OBVIOUS
    <3>2. Allowed(c.id)
      BY <2>1, <1>1 DEF CallEarned
    <3>3. <<Request(c.id).user, Request(c.id).profile>> \in entitled'
      BY <2>1, <2>3, <3>2 DEF Allowed, Entitled
    <3> QED BY <2>1, <2>3, <3>1, <3>3, <1>2, EarnedRequest
  <2> QED BY <2>2, <2>3, <1>11 DEF RefuseRequest, Request
<1>12. CASE NothingToStart(c)
  <2>1. UNCHANGED <<owns, owned, entitled, store, recovery, grants, spent>>
        /\ calls' \subseteq calls
    BY <1>12 DEF NothingToStart, ghosts
  <2> QED BY <2>1, <1>2, <1>4, <1>5, EarnedMemory
<1>13. CASE StartAll(c)
  <2>1. UNCHANGED <<owns, owned, entitled, recovery, grants>> /\ calls' \subseteq calls
        /\ (Spend(Fault) \/ UNCHANGED spent)
    BY <1>13 DEF StartAll
  <2>2. CASE UNCHANGED store
    BY <2>1, <2>2, <1>2, <1>4, <1>5, EarnedMemory
  <2>3. CASE store' = [store EXCEPT !.bulk = [on |-> TRUE, job |-> NextJob]]
    <3>1. StoreShaped' /\ store'.requests = store.requests /\ store'.access = store.access
          /\ store'.pending = store.pending
      BY <2>3, <1>1 DEF StoreShaped
    <3> QED BY <2>1, <3>1, <1>2, <1>5, EarnedMemory
  <2> QED BY <2>2, <2>3, <1>13 DEF StartAll
<1>14. CASE DropCall(c)
  <2>1. UNCHANGED <<owns, owned, entitled, store, recovery, grants>> /\ calls' \subseteq calls
        /\ Spend(Fault)
    BY <1>14 DEF DropCall
  <2> QED BY <2>1, <1>2, <1>4, <1>5, EarnedMemory
<1> QED BY <1>6, <1>7, <1>8, <1>9, <1>10, <1>11, <1>12, <1>13, <1>14 DEF CallStep

\* A worker gives access to nobody.
LEMMA WorkersKeepEarned ==
  ASSUME EarnInv, NEW j \in DOMAIN workers, WorkerStep(j)
  PROVE  EarnInv'
<1>1. UNCHANGED <<store, grants, recovery, entitled, owned, owns, calls>>
      /\ (Spend(Fault) \/ UNCHANGED spent)
  BY DEF WorkerStep, SeeLibrary, LeaveForShutdown, TakeLock, Look, Fetch, RescanFinds,
      RescanMisses, GiveUp, FinishAll, EndWorker, ghosts
<1>2. spent' \in Spending /\ spent.used[File] <= spent'.used[File]
  BY <1>1, Spent DEF EarnInv, Shapes, File, Fault, Spending
<1> QED BY <1>1, <1>2, EarnedQuietly DEF EarnInv

(* A grant ends or goes on, and only reaches its last phase for a profile that *)
(* owns the title.                                                             *)
LEMMA GrantsKeepEarned ==
  ASSUME EarnInv, NEW j \in DOMAIN grants, GrantStep(j)
  PROVE  EarnInv'
<1> DEFINE g == grants[j]
<1>1. Shapes /\ GrantShaped(g) /\ GrantEarned(g) /\ StoreShaped /\ spent \in Spending
      /\ owns \subseteq owned
  BY DEF EarnInv, Shapes
<1>2. UNCHANGED <<owns, owned, entitled, recovery, calls>>
      /\ (Spend(Fault) \/ UNCHANGED spent)
  BY DEF GrantStep, DownloadEnds, CheckOwnership, GrantAccess
<1>3. spent' \in Spending /\ spent.used[File] <= spent'.used[File]
  BY <1>1, <1>2, Spent DEF File, Fault, Spending
<1>4. \/ grants' = Without(grants, j)
      \/ grants' = [grants EXCEPT ![j] = [g EXCEPT !.phase = "checking"]]
      \/ /\ grants' = [grants EXCEPT ![j] = [g EXCEPT !.phase = "granting"]]
         /\ g.profile \in owns
  BY DEF GrantStep, DownloadEnds, CheckOwnership, GrantAccess, Grant, EndGrant, MayGrant
<1>5. \/ UNCHANGED store
      \/ /\ store' = [store EXCEPT !.access = @ \cup {g.user}]
         /\ g.phase = "granting"
  BY DEF GrantStep, DownloadEnds, CheckOwnership, GrantAccess
<1>6. /\ StoreShaped' /\ store'.requests = store.requests /\ store'.pending = store.pending
      /\ \A u \in store'.access : u \in store.access \/ (u = g.user /\ g.phase = "granting")
  BY <1>1, <1>5 DEF StoreShaped
<1>7. \A u \in store'.access :
         u \in store.access \/ \E p \in owned' : <<u, p>> \in entitled'
  BY <1>1, <1>2, <1>6 DEF GrantEarned, Entitled
<1>8. ASSUME NEW phase, grants' = [grants EXCEPT ![j] = [g EXCEPT !.phase = phase]],
             phase = "granting" => g.profile \in owns
      PROVE  /\ grants' \in [DOMAIN grants' -> Values(grants')]
             /\ \A k \in DOMAIN grants' :
                   /\ GrantShaped(grants'[k])
                   /\ \/ k \in DOMAIN grants /\ grants'[k] = grants[k]
                      \/ GrantEarned(grants[k])'
  <2>1. /\ grants' \in [DOMAIN grants' -> Values(grants')]
        /\ grants'[j] = [g EXCEPT !.phase = phase]
        /\ \A k \in DOMAIN grants' \ {j} : k \in DOMAIN grants /\ grants'[k] = grants[k]
    BY <1>1, <1>8 DEF Shapes, Values
  <2>2. GrantShaped(grants'[j]) /\ grants'[j].phase = phase
        /\ grants'[j].user = g.user /\ grants'[j].profile = g.profile
    BY <2>1, <1>1 DEF GrantShaped
  <2>3. GrantEarned(grants[j])'
    BY <2>2, <1>1, <1>2, <1>8 DEF GrantEarned, Entitled
  <2>4. ASSUME NEW k \in DOMAIN grants', k # j
        PROVE  /\ GrantShaped(grants'[k])
               /\ k \in DOMAIN grants /\ grants'[k] = grants[k]
    BY <2>1, <2>4, <1>1 DEF Shapes
  <2>5. ASSUME NEW k \in DOMAIN grants', k = j
        PROVE  GrantShaped(grants'[k]) /\ GrantEarned(grants[k])'
    BY <2>2, <2>3, <2>5
  <2> QED BY <2>1, <2>4, <2>5
<1>9. ASSUME grants' = Without(grants, j)
      PROVE  /\ grants' \in [DOMAIN grants' -> Values(grants')]
             /\ \A k \in DOMAIN grants' :
                   GrantShaped(grants'[k]) /\ k \in DOMAIN grants /\ grants'[k] = grants[k]
  BY <1>1, <1>9 DEF Without, Values, Shapes
<1>10. /\ grants' \in [DOMAIN grants' -> Values(grants')]
       /\ \A k \in DOMAIN grants' :
             /\ GrantShaped(grants'[k])
             /\ \/ k \in DOMAIN grants /\ grants'[k] = grants[k]
                \/ GrantEarned(grants[k])'
  BY <1>4, <1>8, <1>9
<1>11. Shapes'
  BY <1>1, <1>2, <1>3, <1>6, <1>10 DEF Shapes, RecoveryShaped, Request
<1> QED BY <1>2, <1>3, <1>6, <1>7, <1>10, <1>11, EarnedStep DEF EarnInv

\* Watchers and settlers hand on the evidence of those they follow a job for.
LEMMA OutcomesKeepEarned ==
  ASSUME EarnInv,
         \/ \E w \in watchers : WatcherStep(w)
         \/ \E s \in settlers : Settle(s)
         \/ \E j \in DOMAIN jobs : Forget(j)
         \/ CatalogueIsScanned
         \/ AnnounceShutdown
  PROVE  EarnInv'
<1>1. Shapes /\ StoreShaped /\ RecoveryShaped /\ spent \in Spending
      /\ spent.used[File] \in Nat
  BY DEF EarnInv, Shapes, Spending, File
<1>2. ASSUME Spend(Fault) \/ Spend(Stop) \/ UNCHANGED spent
      PROVE  spent' \in Spending /\ spent.used[File] <= spent'.used[File]
  BY <1>1, <1>2, Spent DEF File, Fault, Stop, Spending
<1>3. ASSUME UNCHANGED <<store, grants, recovery, entitled, owned, owns, calls>>,
             Spend(Fault) \/ Spend(Stop) \/ UNCHANGED spent
      PROVE  EarnInv'
  BY <1>2, <1>3, EarnedQuietly DEF EarnInv
<1>4. ASSUME NEW w \in watchers, WatcherStep(w)
      PROVE  EarnInv'
  <2>1. UNCHANGED <<grants, recovery, entitled, owned, owns, calls>>
        /\ (Spend(Fault) \/ UNCHANGED spent)
    BY <1>4 DEF WatcherStep, RemoveIntent, ClearAll
  <2>2. CASE UNCHANGED store
    BY <2>1, <2>2, <1>3
  <2>3. CASE store' = Pending(w.id)
    <3>1. StoreShaped' /\ store'.requests = store.requests /\ store'.access = store.access
          /\ store'.pending = Without(store.pending, w.id)
      BY <2>3, <1>1 DEF Pending, StoreShaped
    <3>2. \A i \in DOMAIN store'.pending :
            i \in DOMAIN store.pending /\ store'.pending[i] = store.pending[i]
      BY <3>1 DEF Without
    <3> QED BY <2>1, <3>1, <3>2, <1>1, <1>2, EarnedMemory DEF RecoveryShaped
  <2>4. CASE store' = [store EXCEPT !.bulk = [on |-> FALSE, job |-> None]]
    <3>1. StoreShaped' /\ store'.requests = store.requests /\ store'.access = store.access
          /\ store'.pending = store.pending
      BY <2>4, <1>1 DEF StoreShaped
    <3> QED BY <2>1, <3>1, <1>1, <1>2, EarnedMemory DEF RecoveryShaped
  <2> QED BY <2>2, <2>3, <2>4, <1>4 DEF WatcherStep, RemoveIntent, ClearAll
<1>5. ASSUME NEW s \in settlers, Settle(s)
      PROVE  EarnInv'
  <2>1. UNCHANGED <<grants, recovery, entitled, owned, owns, calls>>
        /\ (Spend(Fault) \/ UNCHANGED spent)
    BY <1>5 DEF Settle
  <2>2. CASE UNCHANGED store
    BY <2>1, <2>2, <1>3
  <2>3. ASSUME NEW outcome, s.id \in DOMAIN store.requests,
               Request(s.id).status = "approved",
               store' = Becomes(s.id, outcome, Request(s.id).decided, s.job)
        PROVE  EarnInv'
    <3>1. PICK decided : decided = Request(s.id).decided
      OBVIOUS
    <3>2. RequestEarned(s.id)
      BY <2>3 DEF EarnInv
    <3>3. <<Request(s.id).user, Request(s.id).profile>> \in entitled'
      BY <2>1, <2>3, <3>2 DEF RequestEarned, Entitled
    <3> QED BY <2>1, <2>3, <3>1, <3>3, <1>2, EarnedRequest
  <2> QED BY <2>2, <2>3, <1>5 DEF Settle, Request
<1>6. ASSUME NEW j \in DOMAIN jobs, Forget(j)
      PROVE  EarnInv'
  BY <1>3, <1>6 DEF Forget, tasks, ghosts
<1>7. CASE CatalogueIsScanned
  BY <1>3, <1>7 DEF CatalogueIsScanned, tasks, ghosts
<1>8. CASE AnnounceShutdown
  BY <1>3, <1>8 DEF AnnounceShutdown, tasks, ghosts
<1> QED BY <1>4, <1>5, <1>6, <1>7, <1>8

(* After a restart the same right is found in what was stored.                 *)
LEMMA RecoveryKeepsEarned ==
  ASSUME EarnInv, RecoveryStep
  PROVE  EarnInv'
<1>1. Shapes /\ RecoveryShaped /\ RecoveryEarned
  BY DEF EarnInv, Shapes
<1>2. UNCHANGED <<store, owns, owned, entitled, grants, spent>>
  BY DEF RecoveryStep, RecoverBegin, RecoverIntent, RecoverRequests, RecoverRequest,
      RecoverAll, ghosts
<1>3. ASSUME RecoveryShaped', RecoveryEarned', \A c \in calls' : c \in calls \/ CallEarned(c)'
      PROVE  EarnInv'
  <2>1. Shapes'
    BY <1>1, <1>2, <1>3 DEF Shapes, StoreShaped, Request
  <2> QED BY <1>2, <1>3, <2>1, EarnedStep DEF EarnInv, Shapes, Spending, File
<1>4. ASSUME NEW r, Allowed(r)
      PROVE  Allowed(r)'
  BY <1>2, <1>4 DEF Allowed, Entitled, Request
<1>5. ASSUME recovery' = [recovery EXCEPT !.phase = "done"],
             \A c \in calls' : c \in calls \/ c.for = "all"
      PROVE  EarnInv'
  <2>1. RecoveryShaped' /\ recovery'.phase = "done"
    BY <1>1, <1>5 DEF RecoveryShaped
  <2>2. RecoveryEarned'
    BY <2>1 DEF RecoveryEarned
  <2> QED BY <2>1, <2>2, <1>3, <1>5 DEF CallEarned
<1>6. CASE RecoverBegin
  <2>1. calls' = calls
    BY <1>6 DEF RecoverBegin
  <2>2. CASE recovery' = [recovery EXCEPT !.phase = "done"]
    BY <2>1, <2>2, <1>5
  <2>3. CASE recovery' = [phase |-> "intents", waits |-> {}, heard |-> TRUE,
                          left |-> Snapshot(DOMAIN store.pending, store.pending)]
    <3>1. RecoveryShaped' /\ recovery'.phase = "intents"
          /\ recovery'.left = Snapshot(DOMAIN store.pending, store.pending)
      BY <2>3 DEF RecoveryShaped
    <3>2. \A next \in recovery'.left : IntentEarned(next.entry)'
      BY <3>1, <1>2 DEF Snapshot, EarnInv, IntentEarned, Entitled
    <3> QED BY <3>1, <3>2, <2>1, <1>3 DEF RecoveryEarned
  <2> QED BY <2>2, <2>3, <1>6 DEF RecoverBegin
<1>7. CASE RecoverIntent
  <2>1. CASE recovery' = [recovery EXCEPT !.phase = "done"] /\ calls' = calls
    BY <2>1, <1>5
  <2>2. ASSUME NEW next \in recovery.left, recovery.phase = "intents",
               recovery' = [recovery EXCEPT !.left = @ \ {next}, !.waits = {},
                                            !.heard = ~server.closing],
               calls' = calls \cup {Dispatch(next.id, next.entry, "recovery")}
        PROVE  EarnInv'
    <3>1. RecoveryShaped' /\ recovery'.phase = "intents"
          /\ recovery'.left = recovery.left \ {next}
      BY <2>2, <1>1 DEF RecoveryShaped
    <3>2. RecoveryEarned'
      BY <3>1, <2>2, <1>1, <1>2 DEF RecoveryEarned, IntentEarned, Entitled
    <3>3. \A c \in calls' : c \in calls \/ CallEarned(c)'
      BY <2>2, <1>1, <1>2 DEF Dispatch, CallEarned, RecoveryEarned, IntentEarned, Entitled
    <3> QED BY <3>1, <3>2, <3>3, <1>3
  <2> QED BY <2>1, <2>2, <1>7 DEF RecoverIntent, Recovering
<1>8. CASE RecoverRequests
  <2>1. calls' = calls
    BY <1>8 DEF RecoverRequests
  <2>2. CASE recovery' = [recovery EXCEPT !.phase = "done"]
    BY <2>1, <2>2, <1>5
  <2>3. CASE recovery' = [recovery EXCEPT !.phase = "requests", !.waits = {},
                                          !.left = Snapshot(Interrupted, store.requests)]
    <3>1. RecoveryShaped' /\ recovery'.phase = "requests"
          /\ recovery'.left = Snapshot(Interrupted, store.requests)
      BY <2>3, <1>1 DEF RecoveryShaped
    <3>2. ASSUME NEW r \in Interrupted
          PROVE  Entitled(Request(r)) /\ Allowed(r)
      <4>1. r \in DOMAIN store.requests /\ Request(r).status = "approved" /\ RequestEarned(r)
        BY <3>2 DEF Interrupted, ApprovedRequests, EarnInv, Request
      <4> QED BY <4>1 DEF RequestEarned, Allowed
    <3>3. ASSUME NEW next \in recovery'.left
          PROVE  Entitled(next.entry)' /\ Allowed(next.id)'
      <4>1. PICK r \in Interrupted : next = [id |-> r, entry |-> Request(r)]
        BY <3>1, <3>3 DEF Snapshot, Request
      <4>2. Entitled(next.entry) /\ Allowed(next.id)
        BY <4>1, <3>2
      <4> QED BY <4>2, <1>2, <1>4 DEF Entitled
    <3> QED BY <3>1, <3>3, <2>1, <1>3 DEF RecoveryEarned
  <2> QED BY <2>2, <2>3, <1>8 DEF RecoverRequests
<1>9. CASE RecoverRequest
  <2>1. PICK next \in recovery.left :
           /\ recovery' = [recovery EXCEPT !.left = @ \ {next}]
           /\ calls' = calls \cup {Attach(next.id, next.entry, "recovery")}
    BY <1>9 DEF RecoverRequest
  <2>2. recovery.phase = "requests"
    BY <1>9 DEF RecoverRequest
  <2>3. RecoveryShaped' /\ recovery'.phase = "requests"
        /\ recovery'.left = recovery.left \ {next}
    BY <2>1, <2>2, <1>1 DEF RecoveryShaped
  <2>4. \A other \in recovery.left : Entitled(other.entry)' /\ Allowed(other.id)'
    BY <2>2, <1>1, <1>2, <1>4 DEF RecoveryEarned, Entitled
  <2>5. RecoveryEarned'
    BY <2>3, <2>4 DEF RecoveryEarned
  <2>6. \A c \in calls' : c \in calls \/ CallEarned(c)'
    BY <2>1, <2>4 DEF Attach, CallEarned, Entitled
  <2> QED BY <2>3, <2>5, <2>6, <1>3
<1>10. CASE RecoverAll
  <2>1. \A c \in calls' : c \in calls \/ c.for = "all"
    BY <1>10 DEF RecoverAll
  <2> QED BY <2>1, <1>5, <1>10 DEF RecoverAll, Recovering
<1> QED BY <1>6, <1>7, <1>8, <1>9, <1>10 DEF RecoveryStep

(* What was stored is found again, with the same readers and accounts.         *)
LEMMA RestartKeepsEarned == EarnInv /\ Restart => EarnInv'
<1> SUFFICES ASSUME EarnInv, Restart PROVE EarnInv'
  OBVIOUS
<1>1. Shapes /\ StoreShaped /\ spent \in Spending /\ spent.used[File] \in Nat
  BY DEF EarnInv, Shapes, Spending, File
<1>2. UNCHANGED <<owns, owned, entitled>> /\ calls' = {} /\ grants' = <<>>
      /\ recovery' = AtStart /\ store' = [store EXCEPT !.requests = WithoutJobs(@)]
  BY DEF Restart
<1>3. PICK costs : /\ costs \subseteq {Stop, Fault}
                   /\ spent' = [spent EXCEPT !.used =
                        [k \in 1..8 |-> IF k \in costs THEN spent.used[k] + 1
                                         ELSE spent.used[k]]]
  <2>1. PICK enabled \in BOOLEAN :
          LET costs == (IF server.closing THEN {} ELSE {Stop})
                       \cup (IF enabled THEN {} ELSE {Fault})
          IN  spent' = [spent EXCEPT !.used =
                 [k \in 1..8 |-> IF k \in costs THEN spent.used[k] + 1 ELSE spent.used[k]]]
    BY DEF Restart
  <2> DEFINE costs == (IF server.closing THEN {} ELSE {Stop})
                      \cup (IF enabled THEN {} ELSE {Fault})
  <2>2. costs \subseteq {Stop, Fault}
    OBVIOUS
  <2>3. spent' = [spent EXCEPT !.used =
           [k \in 1..8 |-> IF k \in costs THEN spent.used[k] + 1 ELSE spent.used[k]]]
    BY <2>1
  <2> HIDE DEF costs
  <2> QED BY <2>2, <2>3
<1>4. spent' \in Spending /\ spent'.used[File] = spent.used[File]
  <2>1. [k \in 1..8 |-> IF k \in costs THEN spent.used[k] + 1 ELSE spent.used[k]]
           \in [1..8 -> Nat]
    BY <1>1 DEF Spending
  <2>2. File \in 1..8 \ costs
    BY <1>3 DEF Stop, Fault, File
  <2> QED BY <2>1, <2>2, <1>1, <1>3 DEF Spending
<1>5. /\ StoreShaped' /\ store'.requests = WithoutJobs(store.requests)
      /\ store'.pending = store.pending /\ store'.access = store.access
  BY <1>1, <1>2 DEF StoreShaped
<1>6. ASSUME NEW r \in DOMAIN store.requests
      PROVE  /\ RequestShaped(store'.requests[r])
             /\ store'.requests[r].user = Request(r).user
             /\ store'.requests[r].profile = Request(r).profile
             /\ store'.requests[r].status = Request(r).status
             /\ store'.requests[r].decided = Request(r).decided
  <2>1. RequestShaped(Request(r))
    BY <1>1 DEF Shapes
  <2>2. store'.requests[r] = IF Request(r).status = "approved"
                             THEN [Request(r) EXCEPT !.job = None] ELSE Request(r)
    BY <1>5 DEF WithoutJobs, Request
  <2> QED BY <2>1, <2>2 DEF RequestShaped
<1>7. /\ DOMAIN store'.requests = DOMAIN store.requests
      /\ store'.requests \in [DOMAIN store'.requests -> Values(store'.requests)]
  BY <1>5 DEF WithoutJobs, Values
<1>8. grants' \in [DOMAIN grants' -> Values(grants')] /\ DOMAIN grants' = {}
  BY <1>2 DEF Values
<1>9. RecoveryShaped' /\ RecoveryEarned'
  BY <1>2 DEF RecoveryShaped, RecoveryEarned, AtStart
<1>10. Shapes'
  BY <1>4, <1>5, <1>6, <1>7, <1>8, <1>9 DEF Shapes, Request
<1>11. ASSUME NEW r \in DOMAIN store'.requests
       PROVE  /\ r \in DOMAIN store.requests /\ RequestEarned(r)'
              /\ store'.requests[r].user = store.requests[r].user
              /\ store'.requests[r].profile = store.requests[r].profile
  <2>1. RequestEarned(r)
    BY <1>7 DEF EarnInv
  <2> QED BY <2>1, <1>2, <1>4, <1>6, <1>7 DEF RequestEarned, Entitled, Request
<1> QED BY <1>1, <1>2, <1>4, <1>5, <1>8, <1>9, <1>10, <1>11, EarnedStep DEF EarnInv

(* Every step keeps the invariant of the earned access.                        *)
LEMMA StepsKeepEarned == EarnInv /\ [LibationNext]_vars => EarnInv'
<1> SUFFICES ASSUME EarnInv, [LibationNext]_vars PROVE EarnInv'
  OBVIOUS
<1>1. CASE UNCHANGED vars
  <2>1. UNCHANGED <<store, grants, recovery, entitled, owned, owns, calls, spent>>
    BY <1>1 DEF vars, memory, ghosts
  <2> QED BY <2>1, EarnedQuietly DEF EarnInv, Shapes, Spending, File
<1>2. CASE LibationNext
  BY <1>2, PeopleKeepEarned, CallsKeepEarned, WorkersKeepEarned, GrantsKeepEarned,
      OutcomesKeepEarned, RecoveryKeepsEarned, RestartKeepsEarned DEF LibationNext
<1> QED BY <1>1, <1>2

(* Nobody can open the book who did not start a download of it, or was not     *)
(* allowed one, from an account that owned it (api.md: requests are decided by *)
(* those who may download; profile_owns_asin), whatever is repeated, shared    *)
(* with other readers or recovered after a restart.                            *)
THEOREM AccessIsEarnedAlways == LibationSpec => []AccessIsEarned
<1>1. EarnInv => AccessIsEarned
  BY DEF EarnInv
<1> QED BY EarnInit, StepsKeepEarned, <1>1, PTL DEF LibationSpec

--------------------------------------------------------------------------------
(* An intent is kept until the job its reader was told of has an outcome of    *)
(* its own, and a request is completed only when its reader has the book. Both *)
(* rest on who follows which job: a job that was only stopped was stopped by a *)
(* shutdown, which those who follow it hear of, or are known not to.           *)

JobShaped(job) == job = [kind |-> job.kind, profile |-> job.profile, status |-> job.status,
                         own |-> job.own]

\* Jobs, and the tasks that run them.
JobsRun ==
    /\ \A j \in DOMAIN jobs : JobShaped(jobs[j]) /\ jobs[j].own \in BOOLEAN
    /\ \A j \in DOMAIN workers : j \in DOMAIN jobs /\ jobs[j].kind \in {"liberate", "all"}
    /\ \A j \in DOMAIN grants :
         /\ j \in DOMAIN jobs /\ jobs[j].kind = "grant"
         /\ grants[j].phase = "waiting" =>
              grants[j].download \in DOMAIN jobs /\ jobs[grants[j].download].kind = "liberate"

\* A download or a grant ends without an outcome only for a shutdown.
Stopped ==
    \A j \in DOMAIN jobs :
        jobs[j].kind # "all" /\ Terminal(j) /\ ~jobs[j].own => server.closing

\* An intent that follows a job is done when the job is, unless it was stopped.
Followed(x) ==
    /\ x.job \in DOMAIN jobs /\ jobs[x.job].kind # "all"
    /\ Terminal(x.job) => x.id \in ended \/ ~jobs[x.job].own
    /\ x.heard \/ x.id \in late

\* The job that downloads everything, its worker and its intent.
FollowedAll(w) ==
    /\ w.job \in DOMAIN jobs /\ jobs[w.job].kind = "all"
    /\ w.job \in DOMAIN workers => workers[w.job].heard = w.heard
    /\ Terminal(w.job) =>
         IF jobs[w.job].own THEN store.bulk.job = w.job => 0 \in ended
         ELSE server.closing /\ w.heard

KeepInv ==
    /\ JobsRun /\ Stopped
    /\ \A c \in calls : c.for = "intent" => c.id # 0 /\ (c.job # None => Followed(c))
    /\ \A w \in watchers :
         \/ w.for = "all" /\ FollowedAll(w)
         \/ w.for = "intent" /\ w.id # 0 /\ Followed(w)
    /\ 0 \notin DOMAIN store.pending
    /\ recovery.phase = "intents" => \A next \in recovery.left : next.id # 0
    /\ IntentsAreKept

\* The task is for a request of its reader, and whatever is filed later is another.
OfReader(r, user) ==
    /\ user # None
    /\ r \in Nat /\ r <= spent.used[File]
    /\ r \in DOMAIN store.requests => store.requests[r].user = user

\* A job that stands for a request is a grant to its reader.
GrantsReader(x) ==
    /\ x.job \in DOMAIN jobs /\ x.job \notin DOMAIN workers
    /\ x.job \in DOMAIN grants => grants[x.job].user = x.user
    /\ jobs[x.job].status = "completed" => x.user \in store.access

CompletionInv ==
    /\ CompletedIsGranted
    /\ \A r \in DOMAIN store.requests :
         store.requests[r].user # None /\ r \in Nat /\ r <= spent.used[File]
    /\ \A c \in calls : c.for = "request" => OfReader(c.id, c.user) /\ (c.job # None => GrantsReader(c))
    /\ \A s \in settlers : OfReader(s.id, s.user) /\ GrantsReader(s)
    /\ recovery.phase = "requests" =>
         \A next \in recovery.left : OfReader(next.id, next.entry.user)

--------------------------------------------------------------------------------
(* What a step does to the jobs.                                               *)

\* A job goes on, is forgotten, ends with an outcome or is stopped.
JobMoves(j) ==
    /\ JobShaped(jobs'[j]) /\ jobs'[j].own \in BOOLEAN
    /\ jobs'[j].kind = jobs[j].kind
    /\ \/ jobs'[j].status \notin Over
       \/ jobs[j].status \in Over /\ jobs'[j].own = jobs[j].own
       \/ jobs'[j].own /\ (IF jobs[j].kind = "all" THEN 0 \in ended' ELSE AnsweredWith(j) \subseteq ended')
       \/ /\ ~jobs'[j].own /\ server'.closing
          /\ jobs[j].kind = "all" => j \in DOMAIN workers /\ workers[j].heard

\* A job as it begins. The one that downloads everything may fail at once.
Opens(job) ==
    /\ JobShaped(job) /\ job.own \in BOOLEAN
    /\ job.kind = "all" \/ job.status \notin Over

JobsMove ==
    /\ DOMAIN jobs \subseteq DOMAIN jobs'
    /\ \A j \in DOMAIN jobs : JobMoves(j)
    /\ \A j \in DOMAIN jobs' \ DOMAIN jobs : Opens(jobs'[j])

(* A step that leaves the jobs alone.                                          *)
LEMMA JobsRest ==
  ASSUME JobsRun, UNCHANGED jobs
  PROVE  JobsMove
BY DEF JobsRun, JobsMove, JobMoves

(* A new job has no outcome.                                                   *)
LEMMA NewJobIsOpen ==
  ASSUME NEW kind, NEW profile, NEW status
  PROVE  /\ JobShaped(NewJob(kind, profile, status))
         /\ NewJob(kind, profile, status).own \in BOOLEAN
         /\ NewJob(kind, profile, status).kind = kind
         /\ NewJob(kind, profile, status).status = status
<1>1. ASSUME NEW own \in BOOLEAN, NEW job,
             job = [kind |-> kind, profile |-> profile, status |-> status, own |-> own]
      PROVE  JobShaped(job) /\ job.own \in BOOLEAN /\ job.kind = kind /\ job.status = status
  BY <1>1 DEF JobShaped
<1> QED BY <1>1 DEF NewJob

(* One job is added at the end.                                                *)
LEMMA OneJobAppended ==
  ASSUME JobsRun, jobs \in Seq(Values(jobs)), NEW e, Opens(e), jobs' = Append(jobs, e)
  PROVE  /\ JobsMove /\ NextJob \in Nat /\ NextJob \notin DOMAIN jobs
         /\ DOMAIN jobs' = DOMAIN jobs \cup {NextJob}
         /\ jobs'[NextJob] = e
         /\ \A j \in DOMAIN jobs : jobs'[j] = jobs[j]
<1>1. Len(jobs) \in Nat /\ DOMAIN jobs = 1..Len(jobs)
  OBVIOUS
<1>2. /\ DOMAIN jobs' = 1..(Len(jobs) + 1)
      /\ \A j \in 1..Len(jobs) : jobs'[j] = jobs[j]
      /\ jobs'[Len(jobs) + 1] = e
  BY <1>1
<1>3. DOMAIN jobs' = DOMAIN jobs \cup {Len(jobs) + 1} /\ Len(jobs) + 1 \notin DOMAIN jobs
  BY <1>1, <1>2
<1>4. JobsMove
  BY <1>2, <1>3 DEF JobsMove, JobMoves, JobsRun, Opens
<1> QED BY <1>1, <1>2, <1>3, <1>4 DEF NextJob

(* Two jobs are added at the end.                                              *)
LEMMA TwoJobsAppended ==
  ASSUME JobsRun, jobs \in Seq(Values(jobs)), NEW e, Opens(e), NEW f, Opens(f),
         jobs' = Append(Append(jobs, e), f)
  PROVE  /\ JobsMove /\ NextJob \in Nat
         /\ NextJob \notin DOMAIN jobs /\ NextJob + 1 \notin DOMAIN jobs
         /\ DOMAIN jobs' = DOMAIN jobs \cup {NextJob, NextJob + 1}
         /\ jobs'[NextJob] = e /\ jobs'[NextJob + 1] = f
         /\ \A j \in DOMAIN jobs : jobs'[j] = jobs[j]
<1>1. Len(jobs) \in Nat /\ DOMAIN jobs = 1..Len(jobs)
  OBVIOUS
<1>2. /\ DOMAIN jobs' = 1..(Len(jobs) + 2)
      /\ \A j \in 1..Len(jobs) : jobs'[j] = jobs[j]
      /\ jobs'[Len(jobs) + 1] = e /\ jobs'[Len(jobs) + 2] = f
  BY <1>1
<1>3. DOMAIN jobs' = DOMAIN jobs \cup {Len(jobs) + 1, Len(jobs) + 2}
      /\ Len(jobs) + 1 \notin DOMAIN jobs /\ Len(jobs) + 2 \notin DOMAIN jobs
  BY <1>1, <1>2
<1>4. JobsMove
  BY <1>2, <1>3 DEF JobsMove, JobMoves, JobsRun, Opens
<1>5. NextJob = Len(jobs) + 1 /\ NextJob + 1 = Len(jobs) + 2
  BY <1>1 DEF NextJob
<1> QED BY <1>1, <1>2, <1>3, <1>4, <1>5

(* The status of one job changes, and nothing else.                            *)
LEMMA JobGoesOn ==
  ASSUME JobsRun, NEW j \in DOMAIN jobs, NEW status,
         jobs' = [jobs EXCEPT ![j].status = status],
         status \notin Over \/ jobs[j].status \in Over
  PROVE  /\ JobsMove /\ DOMAIN jobs' = DOMAIN jobs /\ jobs'[j].status = status
         /\ \A k \in DOMAIN jobs \ {j} : jobs'[k] = jobs[k]
<1> DEFINE new == [jobs[j] EXCEPT !.status = status]
<1>1. JobShaped(jobs[j]) /\ jobs[j].own \in BOOLEAN
  BY DEF JobsRun
<1>2. JobShaped(new) /\ new.own = jobs[j].own /\ new.status = status /\ new.kind = jobs[j].kind
  BY <1>1 DEF JobShaped
<1>3. jobs' = [jobs EXCEPT ![j] = new]
  OBVIOUS
<1> HIDE DEF new
<1>4. DOMAIN jobs' = DOMAIN jobs /\ jobs'[j] = new /\ \A k \in DOMAIN jobs \ {j} : jobs'[k] = jobs[k]
  BY <1>3
<1>5. JobMoves(j)
  BY <1>1, <1>2, <1>4 DEF JobMoves
<1>6. \A k \in DOMAIN jobs \ {j} : JobMoves(k)
  BY <1>4 DEF JobMoves, JobsRun
<1> QED BY <1>2, <1>4, <1>5, <1>6 DEF JobsMove

(* A job ends with an outcome, or is stopped by a shutdown.                    *)
LEMMA JobEnds ==
  ASSUME JobsRun, NEW j \in DOMAIN jobs, NEW status, NEW own \in BOOLEAN,
         Finish(j, status, own),
         own \/ (server'.closing /\ (jobs[j].kind = "all" => j \in DOMAIN workers /\ workers[j].heard))
  PROVE  /\ JobsMove /\ DOMAIN jobs' = DOMAIN jobs /\ jobs'[j].status = status
         /\ \A k \in DOMAIN jobs \ {j} : jobs'[k] = jobs[k]
         /\ ended \subseteq ended'
<1> DEFINE new == [jobs[j] EXCEPT !.status = status, !.own = own]
<1>1. JobShaped(jobs[j])
  BY DEF JobsRun
<1>2. JobShaped(new) /\ new.own = own /\ new.status = status /\ new.kind = jobs[j].kind
  <2>1. ASSUME NEW job, JobShaped(job), NEW to
        PROVE  /\ JobShaped([job EXCEPT !.own = to]) /\ [job EXCEPT !.own = to].own = to
               /\ [job EXCEPT !.own = to].status = job.status /\ [job EXCEPT !.own = to].kind = job.kind
    BY <2>1 DEF JobShaped
  <2>2. ASSUME NEW job, JobShaped(job)
        PROVE  /\ JobShaped([job EXCEPT !.status = status]) /\ [job EXCEPT !.status = status].status = status
               /\ [job EXCEPT !.status = status].kind = job.kind
    BY <2>2 DEF JobShaped
  <2>3. PICK mid : mid = [jobs[j] EXCEPT !.status = status]
    OBVIOUS
  <2>4. JobShaped(mid) /\ mid.status = status /\ mid.kind = jobs[j].kind
    BY <1>1, <2>2, <2>3
  <2>5. new = [mid EXCEPT !.own = own]
    BY <2>3
  <2>6. PICK last : last = [mid EXCEPT !.own = own]
    OBVIOUS
  <2>7. JobShaped(last) /\ last.own = own /\ last.status = mid.status /\ last.kind = mid.kind
    BY <2>1, <2>4, <2>6
  <2>8. new = last
    BY <2>5, <2>6
  <2> HIDE DEF new
  <2> QED BY <2>4, <2>7, <2>8
<1>3. jobs' = [jobs EXCEPT ![j] = new]
  BY DEF Finish
<1> HIDE DEF new
<1>4. DOMAIN jobs' = DOMAIN jobs /\ jobs'[j] = new /\ \A k \in DOMAIN jobs \ {j} : jobs'[k] = jobs[k]
  BY <1>3
<1>5. /\ ended \subseteq ended'
      /\ own => IF jobs[j].kind = "all" THEN 0 \in ended' ELSE AnsweredWith(j) \subseteq ended'
  BY DEF Finish
<1>6. JobMoves(j)
  BY <1>2, <1>4, <1>5 DEF JobMoves
<1>7. \A k \in DOMAIN jobs \ {j} : JobMoves(k)
  BY <1>4 DEF JobMoves, JobsRun
<1> QED BY <1>2, <1>4, <1>5, <1>6, <1>7 DEF JobsMove

--------------------------------------------------------------------------------
(* What a step must do for the two to go on.                                   *)

\* Tasks come and go with their jobs.
TasksMove ==
    /\ \A j \in DOMAIN workers' :
         \/ j \in DOMAIN workers /\ workers'[j].heard = workers[j].heard
         \/ j \in DOMAIN jobs' \ DOMAIN jobs /\ jobs'[j].kind \in {"liberate", "all"}
    /\ \A j \in DOMAIN grants' :
         \/ /\ j \in DOMAIN grants /\ grants'[j].user = grants[j].user
            /\ grants'[j] = grants[j] \/ grants'[j].phase # "waiting"
         \/ /\ j \in DOMAIN jobs' \ DOMAIN jobs /\ jobs'[j].kind = "grant"
            /\ grants'[j].phase = "waiting" =>
                 /\ grants'[j].download \in DOMAIN jobs'
                 /\ jobs'[grants'[j].download].kind = "liberate"

\* Calls and watchers of intents follow jobs as they should.
IntentsMove ==
    /\ \A c \in calls' :
         c \in calls \/ (c.for = "intent" => c.id # 0 /\ (c.job # None => Followed(c)'))
    /\ \A w \in watchers' :
         \/ w \in watchers
         \/ w \in calls /\ w.for = "intent" /\ w.job # None
         \/ w.for = "all" /\ FollowedAll(w)'
    /\ \/ recovery'.phase = recovery.phase /\ recovery'.left = recovery.left
       \/ recovery'.phase = "intents" => \A next \in recovery'.left : next.id # 0

\* What is stored of intents goes only when they are done.
PendingMoves ==
    /\ late \subseteq late' /\ ended \ {0} \subseteq ended'
    /\ 0 \notin DOMAIN store'.pending
    /\ \A i \in DOMAIN store.pending \ DOMAIN store'.pending : i \in ended' \cup late'
    /\ Intents' \subseteq Intents \cup DOMAIN store'.pending
    /\ 0 \notin ended' => store'.bulk.on
    /\ \/ store'.bulk.job = store.bulk.job /\ (0 \in ended => 0 \in ended')
       \/ store'.bulk.job \notin DOMAIN jobs

(* A step that does this keeps the invariant of the intents.                   *)
LEMMA KeepStep ==
  ASSUME KeepInv, JobsMove, TasksMove, IntentsMove, PendingMoves,
         server.closing => server'.closing
  PROVE  KeepInv'
<1> USE DEF KeepInv
<1>1. ASSUME NEW j \in DOMAIN jobs
      PROVE  /\ j \in DOMAIN jobs' /\ JobMoves(j) /\ jobs'[j].kind = jobs[j].kind
             /\ JobShaped(jobs'[j]) /\ jobs'[j].own \in BOOLEAN
  BY DEF JobsMove, JobMoves
<1>2. ASSUME NEW j \in DOMAIN jobs', j \notin DOMAIN jobs
      PROVE  /\ JobShaped(jobs'[j]) /\ jobs'[j].own \in BOOLEAN
             /\ jobs'[j].kind = "all" \/ jobs'[j].status \notin Over
  BY <1>2 DEF JobsMove, Opens
<1>3. JobsRun'
  <2>1. \A j \in DOMAIN jobs' : JobShaped(jobs'[j]) /\ jobs'[j].own \in BOOLEAN
    BY <1>1, <1>2
  <2>2. \A j \in DOMAIN workers' : j \in DOMAIN jobs' /\ jobs'[j].kind \in {"liberate", "all"}
    BY <1>1 DEF JobsRun, TasksMove
  <2>3. ASSUME NEW j \in DOMAIN grants'
        PROVE  /\ j \in DOMAIN jobs' /\ jobs'[j].kind = "grant"
               /\ grants'[j].phase = "waiting" =>
                    /\ grants'[j].download \in DOMAIN jobs'
                    /\ jobs'[grants'[j].download].kind = "liberate"
    BY <1>1 DEF JobsRun, TasksMove
  <2> QED BY <2>1, <2>2, <2>3 DEF JobsRun, JobShaped
<1>4. Stopped'
  <2> SUFFICES ASSUME NEW j \in DOMAIN jobs', jobs'[j].kind # "all", jobs'[j].status \in Over,
                      ~jobs'[j].own
               PROVE  server'.closing
    BY DEF Stopped, Terminal
  <2>1. CASE j \in DOMAIN jobs
    BY <1>1, <2>1 DEF JobMoves, Stopped, Terminal
  <2>2. CASE j \notin DOMAIN jobs
    BY <1>2, <2>2
  <2> QED BY <2>1, <2>2
<1>5. ASSUME NEW x, x.for = "intent", x.id # 0, Followed(x), x \in calls \cup watchers
      PROVE  Followed(x)'
  <2>1. x.job \in DOMAIN jobs /\ jobs[x.job].kind # "all" /\ (x.heard \/ x.id \in late)
        /\ (jobs[x.job].status \in Over => x.id \in ended \/ ~jobs[x.job].own)
    BY <1>5 DEF Followed, Terminal
  <2>2. x.id \in AnsweredWith(x.job)
    BY <1>5 DEF AnsweredWith
  <2>3. jobs'[x.job].status \in Over => x.id \in ended' \/ ~jobs'[x.job].own
    BY <1>1, <1>5, <2>1, <2>2 DEF JobMoves, PendingMoves
  <2> QED BY <1>1, <2>1, <2>3 DEF Followed, Terminal, PendingMoves
<1>6. ASSUME NEW w \in watchers, w.for = "all"
      PROVE  FollowedAll(w)'
  <2>1. FollowedAll(w)
    BY <1>6
  <2>2. w.job \in DOMAIN jobs /\ jobs[w.job].kind = "all"
        /\ (w.job \in DOMAIN workers => workers[w.job].heard = w.heard)
    BY <2>1 DEF FollowedAll
  <2>3. w.job \in DOMAIN workers' => workers'[w.job].heard = w.heard
    BY <2>2 DEF TasksMove
  <2>4. jobs'[w.job].status \in Over =>
          IF jobs'[w.job].own THEN store'.bulk.job = w.job => 0 \in ended'
          ELSE server'.closing /\ w.heard
    BY <1>1, <2>1, <2>2 DEF JobMoves, PendingMoves, FollowedAll, Terminal
  <2> QED BY <1>1, <2>2, <2>3, <2>4 DEF FollowedAll, Terminal
<1>7. \A c \in calls' : c.for = "intent" => c.id # 0 /\ (c.job # None => Followed(c)')
  BY <1>5 DEF IntentsMove
<1>8. \A w \in watchers' : \/ w.for = "all" /\ FollowedAll(w)'
                           \/ w.for = "intent" /\ w.id # 0 /\ Followed(w)'
  BY <1>5, <1>6 DEF IntentsMove
<1>9. recovery'.phase = "intents" => \A next \in recovery'.left : next.id # 0
  BY DEF IntentsMove
<1>10. IntentsAreKept'
  BY DEF PendingMoves, IntentsAreKept, Intents, NextIntent
<1> QED BY <1>3, <1>4, <1>7, <1>8, <1>9, <1>10 DEF PendingMoves

\* Requests keep their readers, and their numbers are not given out twice.
RequestsMove ==
    /\ spent'.used[File] \in Nat /\ spent.used[File] \in Nat /\ spent.used[File] <= spent'.used[File]
    /\ store.access \subseteq store'.access
    /\ \A r \in DOMAIN store'.requests :
         LET q == store'.requests[r] IN
         /\ r \in Nat /\ r <= spent'.used[File] /\ q.user # None
         /\ r > spent.used[File] \/ (r \in DOMAIN store.requests /\ q.user = store.requests[r].user)
         /\ \/ q.status # "completed" \/ q.user \in store'.access
            \/ r \in DOMAIN store.requests /\ q.status = store.requests[r].status

\* A job that a request may follow is completed by granting its reader access.
GrantsMove ==
    /\ DOMAIN jobs \subseteq DOMAIN jobs'
    /\ \A j \in DOMAIN jobs :
         jobs'[j].status = "completed" =>
           \/ jobs[j].status = "completed" \/ j \in DOMAIN workers
           \/ j \in DOMAIN grants /\ grants[j].user \in store'.access

\* Calls and settlers of requests follow grants to their readers.
ReadersMove ==
    /\ \A c \in calls' :
         c \in calls \/ (c.for = "request" => OfReader(c.id, c.user)' /\ (c.job # None => GrantsReader(c)'))
    /\ \A s \in settlers' : s \in settlers \/ (s \in calls /\ s.for = "request" /\ s.job # None)
    /\ \/ recovery'.phase = recovery.phase /\ recovery'.left = recovery.left
       \/ recovery'.phase = "requests" =>
            \A next \in recovery'.left : OfReader(next.id, next.entry.user)'

(* A step that does this keeps the invariant of the requests.                  *)
LEMMA CompletionStep ==
  ASSUME CompletionInv, JobsRun, TasksMove, RequestsMove, GrantsMove, ReadersMove
  PROVE  CompletionInv'
<1> USE DEF CompletionInv
<1>1. ASSUME NEW id, NEW user, OfReader(id, user)
      PROVE  OfReader(id, user)'
  BY <1>1 DEF OfReader, RequestsMove
<1>2. ASSUME NEW x, GrantsReader(x)
      PROVE  GrantsReader(x)'
  <2>1. x.job \in DOMAIN jobs /\ x.job \notin DOMAIN workers
        /\ (x.job \in DOMAIN grants => grants[x.job].user = x.user)
        /\ (jobs[x.job].status = "completed" => x.user \in store.access)
    BY <1>2 DEF GrantsReader
  <2>2. x.job \in DOMAIN jobs' /\ x.job \notin DOMAIN workers'
    BY <2>1 DEF GrantsMove, TasksMove
  <2>3. x.job \in DOMAIN grants' => grants'[x.job].user = x.user
    BY <2>1 DEF TasksMove
  <2>4. jobs'[x.job].status = "completed" => x.user \in store'.access
    BY <2>1 DEF GrantsMove, RequestsMove
  <2> QED BY <2>2, <2>3, <2>4 DEF GrantsReader
<1>3. CompletedIsGranted'
  BY DEF CompletedIsGranted, RequestsMove
<1>4. \A r \in DOMAIN store'.requests :
         store'.requests[r].user # None /\ r \in Nat /\ r <= spent'.used[File]
  BY DEF RequestsMove
<1>5. \A c \in calls' : c.for = "request" => OfReader(c.id, c.user)' /\ (c.job # None => GrantsReader(c)')
  BY <1>1, <1>2 DEF ReadersMove
<1>6. \A s \in settlers' : OfReader(s.id, s.user)' /\ GrantsReader(s)'
  BY <1>1, <1>2 DEF ReadersMove
<1>7. recovery'.phase = "requests" =>
        \A next \in recovery'.left : OfReader(next.id, next.entry.user)'
  BY <1>1 DEF ReadersMove
<1> QED BY <1>3, <1>4, <1>5, <1>6, <1>7

\* What the proofs of the other properties provide, before and after a step.
Founded == ImportInv /\ EarnInv

(* What Founded says, as it is used here.                                      *)
LEMMA Foundations ==
  ASSUME Founded
  PROVE  /\ jobs \in Seq(Values(jobs)) /\ ServerShaped /\ StoreShaped /\ RecoveryShaped
         /\ spent \in Spending /\ Shapes /\ NextJob \in Nat
         /\ NextIntent \in Nat /\ NextIntent > 0 /\ NextIntent \notin Intents
         /\ spent.used[File] \in Nat
<1>1. spent \in Spending
  BY DEF Founded, EarnInv, Shapes
<1>2. spent.used[Start] \in Nat /\ spent.used[Buy] \in Nat /\ spent.used[File] \in Nat
  BY <1>1 DEF Spending, Start, Buy, File
<1>3. NextIntent \in Nat /\ NextIntent > 0 /\ NextIntent \notin 1..(NextIntent - 1)
  BY <1>2 DEF NextIntent
<1>4. jobs \in Seq(Values(jobs)) /\ NextJob \in Nat
  BY DEF Founded, ImportInv, Tabled, NextJob
<1> QED BY <1>1, <1>2, <1>3, <1>4 DEF Founded, ImportInv, Tabled, EarnInv, Shapes, Intents

\* Nothing is spent, or something that is not counted here.
SpendsOther == UNCHANGED spent \/ \E k \in {Rule, All, Fault, Stop, Own} : Spend(k)

(* Spending is counted, and only starts and purchases number intents.          *)
LEMMA SpendingCounts ==
  ASSUME Founded
  PROVE  /\ SpendsOther => NextIntent' = NextIntent /\ spent'.used[File] = spent.used[File]
         /\ Spend(File) => NextIntent' = NextIntent /\ spent'.used[File] = spent.used[File] + 1
         /\ Spend(Start) \/ Spend(Buy) =>
              NextIntent' = NextIntent + 1 /\ spent'.used[File] = spent.used[File]
<1> USE DEF Start, File, Rule, Buy, All, Fault, Stop, Own
<1>1. spent \in Spending
  BY Foundations
<1>2. spent.used[Start] \in Nat /\ spent.used[Buy] \in Nat /\ spent.used[File] \in Nat
  BY <1>1 DEF Spending
<1>3. ASSUME NEW k \in 1..8, Spend(k)
      PROVE  /\ spent'.used[k] = spent.used[k] + 1
             /\ \A i \in 1..8 \ {k} : spent'.used[i] = spent.used[i]
  BY <1>1, <1>3, Spent
<1>4. ASSUME SpendsOther PROVE NextIntent' = NextIntent /\ spent'.used[File] = spent.used[File]
  <2>1. ASSUME NEW k \in {Rule, All, Fault, Stop, Own}, Spend(k)
        PROVE  NextIntent' = NextIntent /\ spent'.used[File] = spent.used[File]
    BY <2>1, <1>3 DEF NextIntent
  <2> QED BY <1>4, <2>1 DEF SpendsOther, NextIntent
<1>5. ASSUME Spend(File) PROVE NextIntent' = NextIntent /\ spent'.used[File] = spent.used[File] + 1
  BY <1>3, <1>5 DEF NextIntent
<1>6. ASSUME Spend(Start) PROVE NextIntent' = NextIntent + 1 /\ spent'.used[File] = spent.used[File]
  BY <1>2, <1>3, <1>6 DEF NextIntent
<1>7. ASSUME Spend(Buy) PROVE NextIntent' = NextIntent + 1 /\ spent'.used[File] = spent.used[File]
  BY <1>2, <1>3, <1>7 DEF NextIntent
<1> QED BY <1>4, <1>5, <1>6, <1>7

(* Nothing is done to jobs and their tasks.                                    *)
LEMMA TasksRest ==
  ASSUME JobsRun, UNCHANGED <<jobs, workers, grants>>
  PROVE  JobsMove /\ TasksMove /\ GrantsMove
BY JobsRest DEF TasksMove, GrantsMove

(* What is stored of intents only changes for those that are done.             *)
LEMMA PendingKeeps ==
  ASSUME Founded, KeepInv, late \subseteq late', ended \subseteq ended',
         store'.bulk = store.bulk, NextIntent' = NextIntent,
         DOMAIN store'.pending \subseteq DOMAIN store.pending,
         \A i \in DOMAIN store.pending \ DOMAIN store'.pending : i \in ended' \cup late'
  PROVE  PendingMoves
BY DEF PendingMoves, KeepInv, IntentsAreKept, Intents

(* Requests stay as they are.                                                  *)
LEMMA RequestsRest ==
  ASSUME Founded, CompletionInv, store'.requests = store.requests,
         store.access \subseteq store'.access, spent'.used[File] = spent.used[File]
  PROVE  RequestsMove
<1>1. spent.used[File] \in Nat
  BY Foundations
<1> QED BY <1>1 DEF RequestsMove, CompletionInv, CompletedIsGranted

(* One request changes, and is not completed by it.                            *)
LEMMA RequestTurns ==
  ASSUME Founded, CompletionInv, NEW r \in DOMAIN store.requests, NEW status, NEW decided, NEW job,
         store' = Becomes(r, status, decided, job),
         status # "completed" \/ status = Request(r).status \/ Request(r).user \in store.access,
         spent'.used[File] = spent.used[File]
  PROVE  /\ RequestsMove /\ store'.bulk = store.bulk
         /\ DOMAIN store'.pending = DOMAIN store.pending
<1>1. spent.used[File] \in Nat /\ Shapes /\ StoreShaped
  BY Foundations
<1>2. /\ DOMAIN store'.requests = DOMAIN store.requests
      /\ store'.access = store.access /\ store'.pending = store.pending
      /\ store'.requests[r] = [user |-> Request(r).user, profile |-> Request(r).profile,
                               status |-> status, decided |-> decided, job |-> job]
      /\ \A other \in DOMAIN store.requests \ {r} : store'.requests[other] = store.requests[other]
  BY <1>1, RequestChanges
<1>3. store'.requests[r].user = store.requests[r].user /\ store'.requests[r].status = status
  BY <1>2 DEF Request
<1>4. \A k \in DOMAIN store.requests : /\ store.requests[k].user # None /\ k \in Nat
                                       /\ k <= spent.used[File]
                                       /\ store.requests[k].status = "completed" =>
                                            store.requests[k].user \in store.access
  BY DEF CompletionInv, CompletedIsGranted
<1>5. RequestsMove
  <2> SUFFICES ASSUME NEW k \in DOMAIN store.requests
               PROVE  /\ store'.requests[k].user = store.requests[k].user
                      /\ \/ store'.requests[k].status # "completed"
                         \/ store'.requests[k].user \in store.access
                         \/ store'.requests[k].status = store.requests[k].status
    BY <1>1, <1>2, <1>4 DEF RequestsMove
  <2>1. CASE k = r
    BY <1>3, <2>1 DEF Request
  <2>2. CASE k # r
    BY <1>2, <2>2
  <2> QED BY <2>1, <2>2
<1>6. store'.bulk = store.bulk
  <2>1. PICK new : store' = [store EXCEPT !.requests = new]
    BY DEF Becomes
  <2> QED BY <1>1, <2>1 DEF StoreShaped
<1> QED BY <1>2, <1>5, <1>6

(* Both invariants go on.                                                      *)
LEMMA BothGoOn ==
  ASSUME KeepInv, CompletionInv, JobsMove, TasksMove, GrantsMove, IntentsMove, ReadersMove,
         PendingMoves, RequestsMove, server.closing => server'.closing
  PROVE  KeepInv' /\ CompletionInv'
<1>1. JobsRun
  BY DEF KeepInv
<1> QED BY <1>1, KeepStep, CompletionStep

(* Calls end.                                                                  *)
LEMMA CallsGo ==
  ASSUME calls' \subseteq calls, watchers' \subseteq watchers, settlers' \subseteq settlers,
         recovery'.phase = recovery.phase, recovery'.left = recovery.left
  PROVE  IntentsMove /\ ReadersMove
BY DEF IntentsMove, ReadersMove

(* A call comes, or goes on.                                                   *)
LEMMA CallComes ==
  ASSUME NEW d, calls' \subseteq calls \cup {d}, UNCHANGED <<watchers, settlers, recovery>>,
         d.for = "intent" => d.id # 0 /\ (d.job # None => Followed(d)'),
         d.for = "request" => OfReader(d.id, d.user)' /\ (d.job # None => GrantsReader(d)')
  PROVE  IntentsMove /\ ReadersMove
BY DEF IntentsMove, ReadersMove

(* What a call is when it comes.                                               *)
LEMMA CallIsNew ==
  ASSUME NEW id, NEW entry, NEW origin
  PROVE  /\ Dispatch(id, entry, origin).for = "intent" /\ Dispatch(id, entry, origin).id = id
         /\ Dispatch(id, entry, origin).job = None
         /\ Attach(id, entry, origin).for = "request" /\ Attach(id, entry, origin).id = id
         /\ Attach(id, entry, origin).user = entry.user /\ Attach(id, entry, origin).job = None
BY DEF Dispatch, Attach

(* What people and profiles do keeps both.                                    *)
LEMMA PeopleKeepBoth ==
  ASSUME Founded, KeepInv, CompletionInv, People
  PROVE  KeepInv' /\ CompletionInv'
<1>1. UNCHANGED <<server, jobs, workers, grants, watchers, settlers, recovery, ended, late>>
  BY DEF People, StartDownload, FileRequest, RepeatRequest, Approve, Reject, QueuePurchase,
      OwnershipChanges, AskForAll, memory, ghosts
<1>2. JobsMove /\ TasksMove /\ GrantsMove
  BY <1>1, TasksRest DEF KeepInv
<1>3. ASSUME PendingMoves, RequestsMove, IntentsMove, ReadersMove
      PROVE  KeepInv' /\ CompletionInv'
  BY <1>1, <1>2, <1>3, BothGoOn
<1>4. ASSUME NEW intent, Spend(Start) \/ Spend(Buy), NEW seen,
             store' = [store EXCEPT !.seen = seen, !.pending = With(store.pending, NextIntent, intent)],
             calls' = calls \cup {Dispatch(NextIntent, intent, "client")}
               \/ calls' = calls \cup {Dispatch(NextIntent, intent, "refresh")}
      PROVE  KeepInv' /\ CompletionInv'
  <2>1. /\ store'.pending = With(store.pending, NextIntent, intent) /\ store'.bulk = store.bulk
        /\ store'.requests = store.requests /\ store'.access = store.access
    BY <1>4, Foundations DEF StoreShaped
  <2>2. NextIntent' = NextIntent + 1 /\ spent'.used[File] = spent.used[File]
    BY <1>4, SpendingCounts
  <2>3. NextIntent \in Nat /\ NextIntent > 0
    BY Foundations
  <2>4. DOMAIN store'.pending = DOMAIN store.pending \cup {NextIntent}
    BY <2>1 DEF With
  <2>5. Intents' \subseteq Intents \cup {NextIntent}
    BY <2>2, <2>3 DEF Intents
  <2>6. PendingMoves
    BY <1>1, <2>1, <2>3, <2>4, <2>5 DEF PendingMoves, KeepInv, IntentsAreKept
  <2>7. RequestsMove
    BY <2>1, <2>2, RequestsRest
  <2>8. PICK d : d.for = "intent" /\ d.id = NextIntent /\ d.job = None /\ calls' = calls \cup {d}
    BY <1>4, CallIsNew
  <2>9. IntentsMove /\ ReadersMove
    BY <1>1, <2>3, <2>8, CallComes
  <2> QED BY <1>3, <2>6, <2>7, <2>9
<1>5. ASSUME NEW by \in Direct \cup {Admin}, NEW p \in Profiles, StartDownload(by, p)
      PROVE  KeepInv' /\ CompletionInv'
  <2>1. PICK intent : intent = Intent(p, Grantee(by), by)
    OBVIOUS
  <2>2. store' = [store EXCEPT !.seen = store.seen, !.pending = With(store.pending, NextIntent, intent)]
    <3>1. store' = [store EXCEPT !.pending = With(store.pending, NextIntent, intent)]
      BY <1>5, <2>1 DEF StartDownload
    <3> QED BY <3>1, Foundations DEF StoreShaped
  <2>3. Spend(Start) /\ calls' = calls \cup {Dispatch(NextIntent, intent, "client")}
    BY <1>5, <2>1 DEF StartDownload
  <2> QED BY <1>4, <2>2, <2>3
<1>6. ASSUME NEW p \in Profiles, QueuePurchase(p)
      PROVE  KeepInv' /\ CompletionInv'
  <2>1. PICK intent : intent = Intent(p, None, Admin)
    OBVIOUS
  <2>2. store' = [store EXCEPT !.seen = store.seen \cup {p}, !.pending = With(store.pending, NextIntent, intent)]
    BY <1>6, <2>1 DEF QueuePurchase
  <2>3. Spend(Buy) /\ calls' = calls \cup {Dispatch(NextIntent, intent, "refresh")}
    BY <1>6, <2>1 DEF QueuePurchase
  <2> QED BY <1>4, <2>2, <2>3
<1>7. ASSUME NEW u \in Asking, NEW p \in Profiles, FileRequest(u, p)
      PROVE  KeepInv' /\ CompletionInv'
  <2> DEFINE request == [user |-> u, profile |-> p, status |-> "pending", decided |-> FALSE, job |-> None]
  <2>0. PICK n : n = spent.used[File] + 1
    OBVIOUS
  <2>1. Spend(File) /\ UNCHANGED calls
    BY <1>7 DEF FileRequest, memory
  <2>2. PICK kept : /\ store' = [store EXCEPT !.requests = With(kept, n, request)]
                    /\ \/ kept = store.requests
                       \/ \E oldest : kept = Without(store.requests, oldest)
    BY <2>0, <1>7 DEF FileRequest
  <2>3. DOMAIN kept \subseteq DOMAIN store.requests
        /\ \A k \in DOMAIN kept : kept[k] = store.requests[k]
    BY <2>2 DEF Without
  <2>4. request.user = u /\ request.status = "pending" /\ u # None
    BY LibationConstants
  <2> HIDE DEF request
  <2>5. /\ store'.requests = With(kept, n, request) /\ store'.bulk = store.bulk
        /\ store'.pending = store.pending /\ store'.access = store.access
    BY <2>2, Foundations DEF StoreShaped
  <2>6. /\ store'.requests[n] = request
        /\ \A k \in DOMAIN store'.requests \ {n} :
              k \in DOMAIN store.requests /\ store'.requests[k] = store.requests[k]
    BY <2>3, <2>5 DEF With
  <2>7. NextIntent' = NextIntent /\ spent'.used[File] = n /\ n \in Nat /\ spent.used[File] \in Nat
        /\ n > spent.used[File]
    BY <2>0, <2>1, SpendingCounts, Foundations
  <2>8. RequestsMove
    <3>1. /\ n \in Nat /\ n <= spent'.used[File] /\ n > spent.used[File]
          /\ store'.requests[n].user # None /\ store'.requests[n].status # "completed"
      BY <2>4, <2>6, <2>7
    <3>2. ASSUME NEW k \in DOMAIN store'.requests \ {n}
          PROVE  /\ k \in DOMAIN store.requests /\ store'.requests[k] = store.requests[k]
                 /\ k \in Nat /\ k <= spent'.used[File] /\ store.requests[k].user # None
      BY <2>6, <2>7 DEF CompletionInv
    <3> QED BY <2>5, <2>7, <3>1, <3>2 DEF RequestsMove
  <2>9. PendingMoves
    BY <1>1, <2>5, <2>7, PendingKeeps
  <2>10. IntentsMove /\ ReadersMove
    BY <1>1, <2>1, CallsGo
  <2> QED BY <1>3, <2>8, <2>9, <2>10
<1>8. ASSUME NEW r \in DOMAIN store.requests, NEW status, NEW decided, NEW job,
             store' = Becomes(r, status, decided, job), status # "completed", Spend(Rule),
             \/ UNCHANGED calls
             \/ calls' = calls \cup {Attach(r, Request(r), "client")}
      PROVE  KeepInv' /\ CompletionInv'
  <2>1. NextIntent' = NextIntent /\ spent'.used[File] = spent.used[File]
    BY <1>8, SpendingCounts DEF SpendsOther
  <2>2. RequestsMove /\ store'.bulk = store.bulk /\ DOMAIN store'.pending = DOMAIN store.pending
    BY <1>8, <2>1, RequestTurns
  <2>3. PendingMoves
    BY <1>1, <2>1, <2>2, PendingKeeps
  <2>4. IntentsMove /\ ReadersMove
    <3>1. CASE UNCHANGED calls
      BY <1>1, <3>1, CallsGo
    <3>2. CASE calls' = calls \cup {Attach(r, Request(r), "client")}
      <4>1. PICK d : /\ d.for = "request" /\ d.id = r /\ d.user = Request(r).user /\ d.job = None
                     /\ calls' = calls \cup {d}
        BY <3>2, CallIsNew
      <4>2. OfReader(r, d.user)
        BY <4>1 DEF OfReader, CompletionInv, Request
      <4>3. OfReader(d.id, d.user)'
        BY <2>2, <4>1, <4>2 DEF OfReader, RequestsMove
      <4> QED BY <1>1, <4>1, <4>3, CallComes
    <3> QED BY <1>8, <3>1, <3>2
  <2> QED BY <1>3, <2>2, <2>3, <2>4
<1>9. ASSUME NEW r \in DOMAIN store.requests, RepeatRequest(r) \/ Approve(r) \/ Reject(r)
      PROVE  KeepInv' /\ CompletionInv'
  <2>1. PICK q : q = Request(r)
    OBVIOUS
  <2>2. \/ store' = Becomes(r, "approved", q.decided, None)
        \/ store' = Becomes(r, "approved", TRUE, q.job)
        \/ store' = Becomes(r, "rejected", TRUE, q.job)
    BY <1>9, <2>1 DEF RepeatRequest, Approve, Reject, Request
  <2>3. Spend(Rule) /\ (UNCHANGED calls \/ calls' = calls \cup {Attach(r, Request(r), "client")})
    BY <1>9 DEF RepeatRequest, Approve, Reject, memory, Request
  <2>4. PICK yes : yes = TRUE
    OBVIOUS
  <2>5. PICK made, decided, job :
          /\ store' = Becomes(r, made, decided, job)
          /\ made = "approved" \/ made = "rejected"
    <3>1. CASE store' = Becomes(r, "approved", q.decided, None)
      BY <3>1
    <3>2. CASE store' = Becomes(r, "approved", TRUE, q.job)
      <4>1. store' = Becomes(r, "approved", yes, q.job)
        BY <3>2, <2>4
      <4> QED BY <4>1
    <3>3. CASE store' = Becomes(r, "rejected", TRUE, q.job)
      <4>1. store' = Becomes(r, "rejected", yes, q.job)
        BY <3>3, <2>4
      <4> QED BY <4>1
    <3> QED BY <2>2, <3>1, <3>2, <3>3
  <2>6. made # "completed"
    BY <2>5
  <2> QED BY <1>8, <2>3, <2>5, <2>6
<1>10. CASE AskForAll
  <2>1. PICK d : d.for = "all" /\ calls' = calls \cup {d}
    <3> DEFINE new == [for |-> "all", id |-> 0, profile |-> None, user |-> None,
                       origin |-> "client", job |-> None, download |-> None,
                       heard |-> ~server.closing]
    <3>1. calls' = calls \cup {new}
      BY <1>10 DEF AskForAll
    <3>2. new.for = "all"
      OBVIOUS
    <3> HIDE DEF new
    <3>3. \E d : d.for = "all" /\ calls' = calls \cup {d}
      BY <3>1, <3>2
    <3> QED BY <3>3
  <2>2. UNCHANGED store /\ SpendsOther
    BY <1>10 DEF AskForAll, SpendsOther
  <2>3. NextIntent' = NextIntent /\ spent'.used[File] = spent.used[File]
    BY <2>2, SpendingCounts
  <2>4. PendingMoves /\ RequestsMove
    BY <1>1, <2>2, <2>3, PendingKeeps, RequestsRest
  <2>5. IntentsMove /\ ReadersMove
    BY <1>1, <2>1, CallComes
  <2> QED BY <1>3, <2>4, <2>5
<1>11. ASSUME NEW p \in Profiles, OwnershipChanges(p)
       PROVE  KeepInv' /\ CompletionInv'
  <2>1. UNCHANGED <<store, calls>> /\ SpendsOther
    BY <1>11 DEF OwnershipChanges, SpendsOther, memory
  <2>2. NextIntent' = NextIntent /\ spent'.used[File] = spent.used[File]
    BY <2>1, SpendingCounts
  <2>3. PendingMoves /\ RequestsMove
    BY <1>1, <2>1, <2>2, PendingKeeps, RequestsRest
  <2>4. IntentsMove /\ ReadersMove
    BY <1>1, <2>1, CallsGo
  <2> QED BY <1>3, <2>3, <2>4
<1> QED BY <1>5, <1>6, <1>7, <1>9, <1>10, <1>11 DEF People

(* A call is answered with an unfinished job, and with a grant if it is for a  *)
(* reader.                                                                     *)
LEMMA AnswersFollow ==
  ASSUME KeepInv, CompletionInv, JobsMove, RequestsMove,
         NEW c \in calls, c.job = None, c.for # "all", NEW job, NEW download, NEW heard \in Hearing(c),
         job \in DOMAIN jobs', jobs'[job].kind # "all", jobs'[job].status \notin Over,
         c.user # None => job \in DOMAIN grants' /\ grants'[job].user = c.user /\ job \notin DOMAIN workers',
         late' = Unheard(c, heard), Replace(c, Answered(c, job, download, heard)),
         UNCHANGED <<watchers, settlers, recovery>>
  PROVE  IntentsMove /\ ReadersMove
<1> DEFINE d == Answered(c, job, download, heard)
<1>1. PICK e : e = d
  OBVIOUS
<1>2. e.for = c.for /\ e.id = c.id /\ e.user = c.user /\ e.job = job /\ e.heard = heard
  BY <1>1 DEF Answered
<1>3. calls' \subseteq calls \cup {e}
  BY <1>1 DEF Replace
<1> HIDE DEF d
<1>4. ASSUME e.for = "intent"
      PROVE  e.id # 0 /\ Followed(e)'
  <2>1. e.id # 0
    BY <1>2, <1>4 DEF KeepInv
  <2>2. heard \/ c.id \in late'
    BY <1>2, <1>4 DEF Unheard
  <2> QED BY <1>2, <2>1, <2>2 DEF Followed, Terminal
<1>5. ASSUME e.for = "request"
      PROVE  OfReader(e.id, e.user)' /\ GrantsReader(e)'
  <2>1. OfReader(c.id, c.user)
    BY <1>2, <1>5 DEF CompletionInv
  <2>2. OfReader(c.id, c.user)'
    BY <2>1 DEF OfReader, RequestsMove
  <2>3. c.user # None
    BY <2>1 DEF OfReader
  <2>4. jobs'[job].status # "completed"
    BY DEF Over
  <2> QED BY <1>2, <2>2, <2>3, <2>4 DEF GrantsReader, OfReader
<1> QED BY <1>3, <1>4, <1>5, CallComes

(* The title is here: only access is granted.                                  *)
LEMMA GrantOnlyKeepsBoth ==
  ASSUME Founded, KeepInv, CompletionInv, NEW c \in calls, GrantOnly(c)
  PROVE  KeepInv' /\ CompletionInv'
<1>1. /\ c.for # "all" /\ c.job = None /\ c.user # None
      /\ UNCHANGED <<store, server, workers, watchers, settlers, recovery, spent, ended>>
      /\ grants' = With(grants, NextJob, Waiting(c, "checking", None))
      /\ jobs' = Append(jobs, NewJob("grant", c.profile, "running"))
  BY DEF GrantOnly
<1>2. PICK heard \in Hearing(c) : Replace(c, Answered(c, NextJob, NextJob, heard)) /\ late' = Unheard(c, heard)
  BY DEF GrantOnly
<1> DEFINE new == NewJob("grant", c.profile, "running")
<1>3. JobShaped(new) /\ new.own \in BOOLEAN /\ new.kind = "grant" /\ new.status \notin Over
  BY NewJobIsOpen DEF Over
<1>4. Opens(new)
  BY <1>3 DEF Opens
<1> HIDE DEF new
<1>5. /\ JobsMove /\ NextJob \in Nat /\ NextJob \notin DOMAIN jobs /\ NextJob \in DOMAIN jobs'
      /\ DOMAIN jobs \subseteq DOMAIN jobs'
      /\ \A j \in DOMAIN jobs : jobs'[j] = jobs[j]
      /\ jobs'[NextJob] = new
  <2>1. jobs' = Append(jobs, new)
    BY <1>1 DEF new
  <2> QED BY <1>4, <2>1, OneJobAppended, Foundations DEF KeepInv
<1>6. /\ DOMAIN grants' = DOMAIN grants \cup {NextJob}
      /\ grants'[NextJob].phase = "checking" /\ grants'[NextJob].user = c.user
      /\ \A j \in DOMAIN grants \ {NextJob} : grants'[j] = grants[j]
  BY <1>1 DEF With, Waiting
<1>7. NextJob \notin DOMAIN workers /\ NextJob \notin DOMAIN grants
  BY <1>5 DEF KeepInv, JobsRun
<1>8. TasksMove
  BY <1>1, <1>3, <1>5, <1>6, <1>7 DEF TasksMove
<1>9. GrantsMove
  BY <1>5 DEF GrantsMove
<1>10. NextIntent' = NextIntent /\ spent'.used[File] = spent.used[File]
  BY <1>1, SpendingCounts DEF SpendsOther
<1>11. RequestsMove
  BY <1>1, <1>10, RequestsRest
<1>12. PendingMoves
  BY <1>1, <1>2, <1>10, PendingKeeps DEF Unheard
<1>13. IntentsMove /\ ReadersMove
  BY <1>1, <1>2, <1>3, <1>5, <1>6, <1>7, <1>11, AnswersFollow
<1> QED BY <1>1, <1>5, <1>8, <1>9, <1>11, <1>12, <1>13, BothGoOn

(* Jobs added one after the other.                                             *)
LEMMA JoinedOnce ==
  ASSUME jobs \in Seq(Values(jobs)), NEW a, NEW b
  PROVE  /\ jobs \o <<a>> \o <<b>> = Append(Append(jobs, a), b)
         /\ jobs \o <<>> \o <<b>> = Append(jobs, b)
<1> DEFINE S == Values(jobs) \cup {a, b}
<1>1. jobs \in Seq(S) /\ <<a>> \in Seq(S) /\ <<b>> \in Seq(S)
  OBVIOUS
<1>2. \A t \in Seq(S) : t \o <<a>> = Append(t, a) /\ t \o <<b>> = Append(t, b)
  OBVIOUS
<1> HIDE DEF S
<1>3. jobs \o <<a>> \in Seq(S) /\ jobs \o <<>> = jobs
  BY <1>1
<1> QED BY <1>1, <1>2, <1>3

(* A download is started, or shared, for a call.                               *)
LEMMA StartLiberateKeepsBoth ==
  ASSUME Founded, KeepInv, CompletionInv, NEW c \in calls, StartLiberate(c)
  PROVE  KeepInv' /\ CompletionInv'
<1>1. /\ c.for # "all" /\ c.job = None
      /\ UNCHANGED <<store, server, watchers, settlers, recovery, spent, ended>>
  BY DEF StartLiberate
<1>2. PICK known : known = Existing("liberate", c.profile)
  OBVIOUS
<1>3. PICK load, give : /\ load = NewJob("liberate", c.profile, "queued")
                        /\ give = NewJob("grant", c.profile, "queued")
  OBVIOUS
<1>4. PICK grant : grant = IF known = {} THEN NextJob + 1 ELSE NextJob
  OBVIOUS
<1>5. jobs \in Seq(Values(jobs)) /\ NextJob \in Nat /\ JobsRun
  BY Foundations DEF KeepInv
<1>6. grant = NextJob + Len(IF known = {} THEN <<load>> ELSE <<>>)
  <2>1. CASE known = {}
    BY <1>4, <2>1
  <2>2. CASE known # {}
    BY <1>4, <1>5, <2>2
  <2> QED BY <2>1, <2>2
<1>7. PICK download \in (IF known = {} THEN {NextJob} ELSE known), heard \in Hearing(c) :
         /\ workers' = IF known # {} THEN workers ELSE With(workers, download, Worker(heard))
         /\ grants' = IF c.user = None THEN grants
                      ELSE With(grants, grant, Waiting(c, "waiting", download))
         /\ Replace(c, Answered(c, IF c.user = None THEN download ELSE grant, download, heard))
         /\ late' = Unheard(c, heard)
  BY <1>2, <1>3, <1>6 DEF StartLiberate, Reported
<1>8. /\ Opens(load) /\ load.kind = "liberate" /\ load.status = "queued"
      /\ Opens(give) /\ give.kind = "grant" /\ give.status = "queued"
      /\ "queued" \notin Over
  BY <1>3, NewJobIsOpen DEF Over, Opens
<1>9. \A j \in known : j \in DOMAIN jobs /\ jobs[j].kind = "liberate" /\ jobs[j].status \notin Over
  BY <1>2 DEF Existing, Terminal
<1>10. /\ JobsMove
       /\ DOMAIN jobs \subseteq DOMAIN jobs'
       /\ \A j \in DOMAIN jobs : jobs'[j] = jobs[j]
       /\ known = {} => NextJob \in DOMAIN jobs' /\ NextJob \notin DOMAIN jobs /\ jobs'[NextJob] = load
       /\ c.user # None => grant \in DOMAIN jobs' /\ grant \notin DOMAIN jobs /\ jobs'[grant] = give
  <2>1. jobs' = jobs \o (IF known = {} THEN <<load>> ELSE <<>>)
                     \o (IF c.user = None THEN <<>> ELSE <<give>>)
    BY <1>2, <1>3 DEF StartLiberate
  <2>2. CASE known = {} /\ c.user = None
    <3>1. jobs' = Append(jobs, load)
      BY <1>5, <2>1, <2>2
    <3> QED BY <1>5, <1>8, <2>2, <3>1, OneJobAppended
  <2>3. CASE known = {} /\ c.user # None
    <3>1. jobs' = Append(Append(jobs, load), give)
      <4>1. jobs' = jobs \o <<load>> \o <<give>>
        BY <2>1, <2>3
      <4>2. jobs \o <<load>> \o <<give>> = Append(Append(jobs, load), give)
        BY <1>5, JoinedOnce, Zenon
      <4> QED BY <4>1, <4>2
    <3> QED BY <1>4, <1>5, <1>8, <2>3, <3>1, TwoJobsAppended
  <2>4. CASE known # {} /\ c.user = None
    <3>1. jobs' = jobs
      BY <1>5, <2>1, <2>4
    <3> QED BY <1>5, <2>4, <3>1, JobsRest
  <2>5. CASE known # {} /\ c.user # None
    <3>1. jobs' = Append(jobs, give)
      BY <1>5, <2>1, <2>5, JoinedOnce
    <3> QED BY <1>4, <1>5, <1>8, <2>5, <3>1, OneJobAppended
  <2> QED BY <2>2, <2>3, <2>4, <2>5
<1>11. known = {} => download = NextJob
  BY <1>7
<1>12. known # {} => download \in DOMAIN jobs /\ jobs[download].kind = "liberate"
                       /\ jobs[download].status \notin Over
  BY <1>7, <1>9
<1>13. /\ download \in DOMAIN jobs' /\ jobs'[download].kind = "liberate"
        /\ jobs'[download].status \notin Over
  BY <1>8, <1>10, <1>11, <1>12
<1>14. c.user # None => grant # download
  BY <1>4, <1>5, <1>10, <1>11, <1>12
<1>15. \A j \in DOMAIN workers' : \/ j \in DOMAIN workers /\ workers'[j] = workers[j]
                                  \/ j = NextJob /\ j = download /\ known = {}
  <2>1. CASE known = {}
    BY <1>7, <2>1 DEF With
  <2>2. CASE known # {}
    BY <1>7, <2>2
  <2> QED BY <2>1, <2>2
<1>16. \A j \in DOMAIN grants' :
         \/ j \in DOMAIN grants /\ grants'[j] = grants[j]
         \/ c.user # None /\ j = grant /\ grants'[j].download = download
  BY <1>7 DEF With, Waiting
<1>17. c.user # None => grant \in DOMAIN grants' /\ grants'[grant].user = c.user
                        /\ grant \notin DOMAIN workers'
  <2>1. CASE c.user # None
    <3>1. grant \notin DOMAIN workers
      BY <1>10, <2>1 DEF KeepInv, JobsRun
    <3>2. grant \notin DOMAIN workers'
      BY <1>14, <1>15, <2>1, <3>1
    <3> QED BY <1>7, <2>1, <3>2 DEF With, Waiting
  <2> QED BY <2>1
<1>18. TasksMove
  BY <1>8, <1>10, <1>13, <1>15, <1>16 DEF TasksMove
<1>19. GrantsMove
  BY <1>10 DEF GrantsMove
<1>20. NextIntent' = NextIntent /\ spent'.used[File] = spent.used[File]
  BY <1>1, SpendingCounts DEF SpendsOther
<1>21. RequestsMove
  BY <1>1, <1>20, RequestsRest
<1>22. PendingMoves
  BY <1>1, <1>7, <1>20, PendingKeeps DEF Unheard
<1>23. IntentsMove /\ ReadersMove
  <2> DEFINE job == IF c.user = None THEN download ELSE grant
  <2>1. job \in DOMAIN jobs' /\ jobs'[job].kind # "all" /\ jobs'[job].status \notin Over
    BY <1>8, <1>10, <1>13
  <2>2. c.user # None => job \in DOMAIN grants' /\ grants'[job].user = c.user /\ job \notin DOMAIN workers'
    BY <1>17
  <2>3. Replace(c, Answered(c, job, download, heard)) /\ late' = Unheard(c, heard)
    BY <1>7
  <2> HIDE DEF job
  <2> QED BY <1>1, <1>10, <1>21, <2>1, <2>2, <2>3, AnswersFollow
<1> QED BY <1>1, <1>10, <1>18, <1>19, <1>21, <1>22, <1>23, BothGoOn

(* An intent that is done is taken out of the store.                           *)
LEMMA IntentDone ==
  ASSUME Founded, KeepInv, CompletionInv, NEW id, store' = Pending(id),
         late \subseteq late', ended \subseteq ended', id \in ended' \cup late', SpendsOther
  PROVE  PendingMoves /\ RequestsMove
<1>1. /\ store'.pending = Without(store.pending, id) /\ store'.bulk = store.bulk
      /\ store'.requests = store.requests /\ store'.access = store.access
  BY Foundations DEF Pending, StoreShaped
<1>2. DOMAIN store'.pending = DOMAIN store.pending \ {id}
  BY <1>1 DEF Without
<1>3. NextIntent' = NextIntent /\ spent'.used[File] = spent.used[File]
  BY SpendingCounts
<1> QED BY <1>1, <1>2, <1>3, PendingKeeps, RequestsRest

(* Nothing is stored.                                                          *)
LEMMA StoreRests ==
  ASSUME Founded, KeepInv, CompletionInv, UNCHANGED store,
         late \subseteq late', ended \subseteq ended', SpendsOther
  PROVE  PendingMoves /\ RequestsMove
<1>1. NextIntent' = NextIntent /\ spent'.used[File] = spent.used[File]
  BY SpendingCounts
<1> QED BY <1>1, PendingKeeps, RequestsRest

(* One request turns, for a task that stands for it.                           *)
LEMMA RequestStored ==
  ASSUME Founded, KeepInv, CompletionInv, NEW r \in DOMAIN store.requests,
         NEW status, NEW decided, NEW job,
         store' = Becomes(r, status, decided, job),
         status # "completed" \/ status = Request(r).status \/ Request(r).user \in store.access,
         late \subseteq late', ended \subseteq ended', SpendsOther
  PROVE  PendingMoves /\ RequestsMove
<1>1. NextIntent' = NextIntent /\ spent'.used[File] = spent.used[File]
  BY SpendingCounts
<1>2. RequestsMove /\ store'.bulk = store.bulk /\ DOMAIN store'.pending = DOMAIN store.pending
  BY <1>1, RequestTurns
<1> QED BY <1>1, <1>2, PendingKeeps

(* What a call comes to keeps both.                                            *)
LEMMA OutcomesKeepBoth ==
  ASSUME Founded, KeepInv, CompletionInv, NEW c \in calls,
         LinkIntent(c) \/ RefuseIntent(c) \/ LinkRequest(c) \/ RefuseRequest(c) \/ NothingToStart(c)
  PROVE  KeepInv' /\ CompletionInv'
<1>1. UNCHANGED <<server, jobs, workers, grants, late>>
  BY DEF LinkIntent, RefuseIntent, LinkRequest, RefuseRequest, NothingToStart, ghosts
<1>2. JobsMove /\ TasksMove /\ GrantsMove
  BY <1>1, TasksRest DEF KeepInv
<1>3. ASSUME PendingMoves, RequestsMove, IntentsMove, ReadersMove
      PROVE  KeepInv' /\ CompletionInv'
  BY <1>1, <1>2, <1>3, BothGoOn
<1>4. CASE LinkIntent(c)
  <2>1. /\ c.for = "intent" /\ c.job # None /\ calls' \subseteq calls
        /\ watchers' = watchers \cup {c}
        /\ UNCHANGED <<settlers, store, spent, ended>>
    BY <1>4 DEF LinkIntent, ghosts
  <2>2. recovery'.phase = recovery.phase /\ recovery'.left = recovery.left
    BY <1>4, Foundations DEF LinkIntent, RecoveryShaped
  <2>3. IntentsMove /\ ReadersMove
    BY <2>1, <2>2 DEF IntentsMove, ReadersMove
  <2>4. PendingMoves /\ RequestsMove
    BY <1>1, <2>1, StoreRests DEF SpendsOther
  <2> QED BY <1>3, <2>3, <2>4
<1>5. CASE RefuseIntent(c)
  <2>1. /\ calls' \subseteq calls /\ UNCHANGED <<watchers, settlers, recovery>>
        /\ ended' = ended \cup {c.id}
        /\ store' = Pending(c.id) \/ UNCHANGED store
        /\ SpendsOther
    BY <1>5 DEF RefuseIntent, SpendsOther
  <2>2. IntentsMove /\ ReadersMove
    BY <2>1, CallsGo
  <2>3. PendingMoves /\ RequestsMove
    BY <1>1, <2>1, IntentDone, StoreRests
  <2> QED BY <1>3, <2>2, <2>3
<1>6. CASE LinkRequest(c)
  <2>1. /\ calls' \subseteq calls /\ UNCHANGED <<watchers, recovery, ended>>
        /\ settlers' \subseteq settlers \cup {c} /\ c.for = "request" /\ c.job # None
        /\ SpendsOther
    BY <1>6 DEF LinkRequest, SpendsOther
  <2>2. IntentsMove /\ ReadersMove
    BY <2>1 DEF IntentsMove, ReadersMove
  <2>3. PendingMoves /\ RequestsMove
    <3>1. CASE UNCHANGED store
      BY <1>1, <2>1, <3>1, StoreRests
    <3>2. CASE store' # store
      <4>1. PICK r, status, decided, job :
              /\ r \in DOMAIN store.requests /\ status = Request(r).status
              /\ store' = Becomes(r, status, decided, job)
        BY <1>6, <3>2 DEF LinkRequest, Request
      <4> QED BY <1>1, <2>1, <4>1, RequestStored
    <3> QED BY <3>1, <3>2
  <2> QED BY <1>3, <2>2, <2>3
<1>7. CASE RefuseRequest(c)
  <2>1. /\ calls' \subseteq calls /\ UNCHANGED <<watchers, settlers, recovery, ended>>
        /\ SpendsOther
    BY <1>7 DEF RefuseRequest, SpendsOther
  <2>2. IntentsMove /\ ReadersMove
    BY <2>1, CallsGo
  <2>3. PendingMoves /\ RequestsMove
    <3>1. CASE UNCHANGED store
      BY <1>1, <2>1, <3>1, StoreRests
    <3>2. CASE store' # store
      <4>1. PICK r, status, decided, job :
              /\ r \in DOMAIN store.requests /\ status = "failed"
              /\ store' = Becomes(r, status, decided, job)
        BY <1>7, <3>2 DEF RefuseRequest
      <4>2. status # "completed"
        BY <4>1
      <4> QED BY <1>1, <2>1, <4>1, <4>2, RequestStored
    <3> QED BY <3>1, <3>2
  <2> QED BY <1>3, <2>2, <2>3
<1>8. CASE NothingToStart(c)
  <2>1. /\ calls' \subseteq calls /\ UNCHANGED <<store, watchers, settlers, recovery, ended>>
        /\ SpendsOther
    BY <1>8 DEF NothingToStart, SpendsOther, ghosts
  <2> QED BY <1>1, <1>3, <2>1, CallsGo, StoreRests
<1> QED BY <1>4, <1>5, <1>6, <1>7, <1>8

(* A call is dropped, and may leave a download that nobody runs.               *)
LEMMA DropCallKeepsBoth ==
  ASSUME Founded, KeepInv, CompletionInv, NEW c \in calls, DropCall(c)
  PROVE  KeepInv' /\ CompletionInv'
<1>1. /\ calls' \subseteq calls
      /\ UNCHANGED <<store, server, workers, grants, watchers, settlers, recovery, ended, late>>
      /\ SpendsOther
  BY DEF DropCall, SpendsOther
<1>2. IntentsMove /\ ReadersMove
  BY <1>1, CallsGo
<1>3. PendingMoves /\ RequestsMove
  BY <1>1, StoreRests
<1>4. JobsRun /\ jobs \in Seq(Values(jobs))
  BY Foundations DEF KeepInv
<1>5. JobsMove /\ TasksMove /\ GrantsMove
  <2>1. CASE UNCHANGED jobs
    BY <1>1, <1>4, <2>1, TasksRest
  <2>2. CASE jobs' = Append(jobs, NewJob("liberate", c.profile, "queued"))
    <3>1. PICK new : new = NewJob("liberate", c.profile, "queued")
      OBVIOUS
    <3>2. Opens(new)
      BY <3>1, NewJobIsOpen DEF Opens, Over
    <3>3. JobsMove /\ DOMAIN jobs \subseteq DOMAIN jobs' /\ \A j \in DOMAIN jobs : jobs'[j] = jobs[j]
      BY <1>4, <2>2, <3>1, <3>2, OneJobAppended
    <3> QED BY <1>1, <3>3 DEF TasksMove, GrantsMove
  <2> QED BY <2>1, <2>2 DEF DropCall
<1> QED BY <1>1, <1>2, <1>3, <1>5, BothGoOn

(* "Download everything" is stored with the job that will clear it, or that    *)
(* job has failed at once.                                                     *)
LEMMA StartAllKeepsBoth ==
  ASSUME Founded, KeepInv, CompletionInv, NEW c \in calls, StartAll(c)
  PROVE  KeepInv' /\ CompletionInv'
<1>1. /\ calls' \subseteq calls /\ UNCHANGED <<server, grants, settlers, recovery, late>>
      /\ SpendsOther /\ c.for = "all"
  BY DEF StartAll, SpendsOther
<1>2. JobsRun /\ jobs \in Seq(Values(jobs))
  BY Foundations DEF KeepInv
<1>3. NextIntent' = NextIntent /\ spent'.used[File] = spent.used[File]
  BY <1>1, SpendingCounts
<1>4. PICK new : /\ Opens(new) /\ new.kind = "all" /\ new.status \in {"queued", "failed"}
                 /\ jobs' = Append(jobs, new)
                 /\ \/ new.status = "queued"
                    \/ UNCHANGED <<store, workers, watchers, ended>>
  <2>1. PICK first, second : /\ first = NewJob("all", None, "queued")
                             /\ second = NewJob("all", None, "failed")
    OBVIOUS
  <2>2. /\ Opens(first) /\ first.kind = "all" /\ first.status = "queued"
        /\ Opens(second) /\ second.kind = "all" /\ second.status = "failed"
    BY <2>1, NewJobIsOpen DEF Opens
  <2>3. jobs' = Append(jobs, first) \/ (jobs' = Append(jobs, second) /\ UNCHANGED <<store, workers, watchers, ended>>)
    BY <2>1 DEF StartAll
  <2> QED BY <2>2, <2>3
<1>5. /\ JobsMove /\ NextJob \in Nat /\ NextJob \notin DOMAIN jobs
      /\ DOMAIN jobs' = DOMAIN jobs \cup {NextJob}
      /\ jobs'[NextJob] = new
      /\ \A j \in DOMAIN jobs : jobs'[j] = jobs[j]
  BY <1>2, <1>4, OneJobAppended
<1>6. GrantsMove
  BY <1>5 DEF GrantsMove
<1>7. CASE UNCHANGED <<store, workers, watchers, ended>>
  <2>1. IntentsMove /\ ReadersMove
    BY <1>1, <1>7, CallsGo
  <2>2. PendingMoves /\ RequestsMove
    BY <1>1, <1>7, StoreRests
  <2>3. TasksMove
    BY <1>1, <1>7 DEF TasksMove
  <2> QED BY <1>1, <1>5, <1>6, <2>1, <2>2, <2>3, BothGoOn
<1>8. CASE ~UNCHANGED <<store, workers, watchers, ended>>
  <2>1. /\ ended' = ended \ {0}
        /\ store' = [store EXCEPT !.bulk = [on |-> TRUE, job |-> NextJob]]
    BY <1>8 DEF StartAll
  <2>2. PICK heard \in Hearing(c) :
          /\ workers' = With(workers, NextJob, Worker(heard))
          /\ watchers' = watchers \cup {Answered(c, NextJob, NextJob, heard)}
    BY <1>8 DEF StartAll
  <2>3. /\ store'.pending = store.pending /\ store'.requests = store.requests
        /\ store'.access = store.access /\ store'.bulk.on /\ store'.bulk.job = NextJob
    <3>1. PICK bulk : bulk = [on |-> TRUE, job |-> NextJob]
      OBVIOUS
    <3>2. bulk.on /\ bulk.job = NextJob
      BY <3>1
    <3> QED BY <2>1, <3>1, <3>2, Foundations DEF StoreShaped
  <2>4. RequestsMove
    BY <1>3, <2>3, RequestsRest
  <2>5. PendingMoves
    BY <1>1, <1>3, <1>5, <2>1, <2>3 DEF PendingMoves, KeepInv, IntentsAreKept, Intents
  <2>6. PICK w : w = Answered(c, NextJob, NextJob, heard)
    OBVIOUS
  <2>7. w.for = "all" /\ w.job = NextJob /\ w.heard = heard
    BY <1>1, <2>6 DEF Answered
  <2>8. /\ DOMAIN workers' = DOMAIN workers \cup {NextJob}
        /\ workers'[NextJob].heard = heard
        /\ \A j \in DOMAIN workers \ {NextJob} : workers'[j] = workers[j]
    BY <2>2 DEF With, Worker
  <2>9. new.status = "queued" /\ new.status \notin Over
    BY <1>4, <1>8 DEF Over
  <2>10. FollowedAll(w)'
    BY <1>4, <1>5, <2>7, <2>8, <2>9 DEF FollowedAll, Terminal
  <2>11. IntentsMove /\ ReadersMove
    BY <1>1, <2>2, <2>6, <2>7, <2>10 DEF IntentsMove, ReadersMove
  <2>12. TasksMove
    BY <1>1, <1>4, <1>5, <2>8 DEF TasksMove
  <2> QED BY <1>1, <1>5, <1>6, <2>4, <2>5, <2>11, <2>12, BothGoOn
<1> QED BY <1>7, <1>8

(* Every step of a call keeps both.                                            *)
LEMMA CallsKeepBoth ==
  ASSUME Founded, KeepInv, CompletionInv, NEW c \in calls, CallStep(c) \/ DropCall(c)
  PROVE  KeepInv' /\ CompletionInv'
BY GrantOnlyKeepsBoth, StartLiberateKeepsBoth, OutcomesKeepBoth, StartAllKeepsBoth,
   DropCallKeepsBoth DEF CallStep

(* A worker goes on, without the shutdown being noticed.                       *)
LEMMA WorkerOnly ==
  ASSUME JobsRun, NEW j \in DOMAIN workers, NEW w, w.heard = workers[j].heard,
         workers' = [workers EXCEPT ![j] = w], UNCHANGED grants
  PROVE  TasksMove
BY DEF TasksMove

(* One job changes with its worker.                                            *)
LEMMA WorkerWithJob ==
  ASSUME KeepInv, NEW j \in DOMAIN workers, UNCHANGED grants,
         DOMAIN workers' \subseteq DOMAIN workers,
         \A k \in DOMAIN workers' : workers'[k].heard = workers[k].heard,
         DOMAIN jobs' = DOMAIN jobs,
         \A k \in DOMAIN jobs \ {j} : jobs'[k] = jobs[k]
  PROVE  TasksMove /\ GrantsMove
BY DEF TasksMove, GrantsMove

(* The liberate jobs keep both.                                                *)
LEMMA WorkersKeepBoth ==
  ASSUME Founded, KeepInv, CompletionInv, NEW j \in DOMAIN workers, WorkerStep(j)
  PROVE  KeepInv' /\ CompletionInv'
<1>1. UNCHANGED <<store, calls, grants, watchers, settlers, recovery, late>>
  BY DEF WorkerStep, SeeLibrary, LeaveForShutdown, TakeLock, Look, Fetch, RescanFinds,
      RescanMisses, GiveUp, FinishAll, EndWorker, ghosts
<1>2. SpendsOther
  BY DEF WorkerStep, SeeLibrary, LeaveForShutdown, TakeLock, Look, Fetch, RescanFinds,
      RescanMisses, GiveUp, FinishAll, EndWorker, SpendsOther
<1>3. IntentsMove /\ ReadersMove
  BY <1>1, CallsGo
<1>4. JobsRun /\ j \in DOMAIN jobs /\ ServerShaped
  BY Foundations DEF KeepInv, JobsRun
<1>5. server'.closing = server.closing
  BY <1>4 DEF WorkerStep, SeeLibrary, LeaveForShutdown, TakeLock, Look, Fetch, RescanFinds,
      RescanMisses, GiveUp, FinishAll, Scanned, ServerShaped
<1>6. ASSUME JobsMove, TasksMove, GrantsMove, ended \subseteq ended'
      PROVE  KeepInv' /\ CompletionInv'
  <2>1. PendingMoves /\ RequestsMove
    BY <1>1, <1>2, <1>6, StoreRests
  <2> QED BY <1>3, <1>5, <1>6, <2>1, BothGoOn
<1>7. CASE SeeLibrary(j) \/ Look(j) \/ Fetch(j) \/ RescanMisses(j)
  <2>1. UNCHANGED <<jobs, ended>>
    BY <1>7 DEF SeeLibrary, Look, Fetch, RescanMisses, ghosts
  <2>2. PICK w : w.heard = workers[j].heard /\ workers' = [workers EXCEPT ![j] = w]
    <3>1. Shaped(workers[j])
      BY Foundations DEF Founded, ImportInv, Tabled
    <3>2. ASSUME NEW phase PROVE [workers[j] EXCEPT !.phase = phase].heard = workers[j].heard
      BY <3>1 DEF Shaped
    <3>3. ASSUME SeeLibrary(j) \/ Fetch(j) \/ RescanMisses(j)
          PROVE  \E phase : workers' = [workers EXCEPT ![j] = [workers[j] EXCEPT !.phase = phase]]
      BY <3>3 DEF SeeLibrary, Fetch, RescanMisses, SetWorker
    <3>4. ASSUME Look(j)
          PROVE  \E w : w.heard = workers[j].heard /\ workers' = [workers EXCEPT ![j] = w]
      <4>1. PICK phase, from, left :
              workers' = [workers EXCEPT ![j] = [phase |-> phase, from |-> from, left |-> left,
                                                 heard |-> workers[j].heard]]
        <5>1. PICK phase, from, left :
                SetWorker(j, [phase |-> phase, from |-> from, left |-> left,
                              heard |-> workers[j].heard])
          BY <3>4 DEF Look
        <5> QED BY <5>1 DEF SetWorker
      <4>2. PICK w : w = [phase |-> phase, from |-> from, left |-> left, heard |-> workers[j].heard]
        OBVIOUS
      <4>3. w.heard = workers[j].heard
        BY <4>2
      <4> QED BY <4>1, <4>2, <4>3
    <3> QED BY <1>7, <3>2, <3>3, <3>4
  <2>3. TasksMove
    BY <1>1, <1>4, <2>2, WorkerOnly
  <2> QED BY <1>1, <1>4, <1>6, <2>1, <2>3, JobsRest DEF GrantsMove
<1>8. CASE TakeLock(j)
  <2>1. jobs' = [jobs EXCEPT ![j].status = "running"] /\ UNCHANGED ended
    BY <1>8 DEF TakeLock, ghosts
  <2>2. "running" \notin Over
    BY DEF Over
  <2>3. PICK status : status = "running"
    OBVIOUS
  <2>4. /\ JobsMove /\ DOMAIN jobs' = DOMAIN jobs
        /\ \A k \in DOMAIN jobs \ {j} : jobs'[k] = jobs[k]
    BY <1>4, <2>1, <2>2, <2>3, JobGoesOn
  <2>5. /\ DOMAIN workers' = DOMAIN workers
        /\ \A k \in DOMAIN workers' : workers'[k].heard = workers[k].heard
    <3>1. PICK w : w.heard = workers[j].heard /\ workers' = [workers EXCEPT ![j] = w]
      <4>1. PICK left : workers' = [workers EXCEPT ![j] = [phase |-> "trying", from |-> None,
                                        heard |-> workers[j].heard, left |-> left]]
        BY <1>8 DEF TakeLock, SetWorker
      <4>2. PICK w : w = [phase |-> "trying", from |-> None, heard |-> workers[j].heard, left |-> left]
        OBVIOUS
      <4>3. w.heard = workers[j].heard
        BY <4>2
      <4> QED BY <4>1, <4>2, <4>3
    <3> QED BY <3>1
  <2>6. TasksMove /\ GrantsMove
    BY <1>1, <2>4, <2>5, WorkerWithJob
  <2> QED BY <1>6, <2>1, <2>4, <2>6
<1>9. CASE LeaveForShutdown(j) \/ RescanFinds(j) \/ GiveUp(j) \/ FinishAll(j)
  <2>1. PICK own \in BOOLEAN :
          (\E status : Finish(j, status, own)) /\ (own \/ (server.closing /\ workers[j].heard))
    <3>1. CASE LeaveForShutdown(j)
      <4>1. Finish(j, "failed", FALSE) /\ server.closing /\ workers[j].heard
        BY <3>1 DEF LeaveForShutdown, Leaves
      <4>2. PICK no \in BOOLEAN : no = FALSE
        OBVIOUS
      <4>3. PICK status : status = "failed"
        OBVIOUS
      <4>4. Finish(j, status, no) /\ (no \/ (server.closing /\ workers[j].heard))
        BY <4>1, <4>2, <4>3, Zenon
      <4> QED BY <4>4, Zenon
    <3>2. CASE RescanFinds(j) \/ GiveUp(j) \/ FinishAll(j)
      <4>1. PICK status : Finish(j, status, TRUE)
        BY <3>2, Zenon DEF RescanFinds, GiveUp, FinishAll
      <4>2. PICK yes \in BOOLEAN : yes = TRUE
        OBVIOUS
      <4>3. Finish(j, status, yes)
        BY <4>1, <4>2, Zenon
      <4>4. yes \/ (server.closing /\ workers[j].heard)
        BY <4>2
      <4> QED BY <4>3, <4>4, Zenon
    <3> QED BY <1>9, <3>1, <3>2, Zenon
  <2>2. /\ JobsMove /\ DOMAIN jobs' = DOMAIN jobs /\ ended \subseteq ended'
        /\ \A k \in DOMAIN jobs \ {j} : jobs'[k] = jobs[k]
    BY <1>4, <1>5, <2>1, JobEnds
  <2>3. workers' = Without(workers, j)
    BY <1>9 DEF LeaveForShutdown, RescanFinds, GiveUp, FinishAll, EndWorker
  <2>4. /\ DOMAIN workers' \subseteq DOMAIN workers
        /\ \A k \in DOMAIN workers' : workers'[k].heard = workers[k].heard
    BY <2>3 DEF Without
  <2>5. TasksMove /\ GrantsMove
    BY <1>1, <2>2, <2>4, WorkerWithJob
  <2> QED BY <1>6, <2>2, <2>5
<1> QED BY <1>7, <1>8, <1>9 DEF WorkerStep

(* One grant ends, or goes on, with its job.                                   *)
LEMMA GrantWithJob ==
  ASSUME KeepInv, CompletionInv, NEW j \in DOMAIN grants, UNCHANGED workers,
         DOMAIN grants' \subseteq DOMAIN grants,
         \A k \in DOMAIN grants' : /\ grants'[k].user = grants[k].user
                                   /\ grants'[k] = grants[k] \/ grants'[k].phase # "waiting",
         DOMAIN jobs' = DOMAIN jobs,
         jobs'[j].status = "completed" => grants[j].user \in store'.access,
         \A k \in DOMAIN jobs \ {j} : jobs'[k] = jobs[k]
  PROVE  TasksMove /\ GrantsMove
BY DEF TasksMove, GrantsMove

(* A grant goes on in another phase.                                           *)
LEMMA GrantGoesOn ==
  ASSUME Founded, NEW j \in DOMAIN grants, NEW phase, phase # "waiting",
         Grant(j, [grants[j] EXCEPT !.phase = phase])
  PROVE  /\ DOMAIN grants' = DOMAIN grants
         /\ \A k \in DOMAIN grants' : /\ grants'[k].user = grants[k].user
                                      /\ grants'[k] = grants[k] \/ grants'[k].phase # "waiting"
<1>1. GrantShaped(grants[j])
  BY Foundations DEF Shapes
<1>2. PICK g : g = [grants[j] EXCEPT !.phase = phase]
  OBVIOUS
<1>3. g.user = grants[j].user /\ g.phase = phase
  BY <1>1, <1>2 DEF GrantShaped
<1>4. grants' = [grants EXCEPT ![j] = g]
  BY <1>2 DEF Grant
<1> QED BY <1>3, <1>4

(* The grant jobs keep both.                                                   *)
LEMMA GrantsKeepBoth ==
  ASSUME Founded, KeepInv, CompletionInv, NEW j \in DOMAIN grants, GrantStep(j)
  PROVE  KeepInv' /\ CompletionInv'
<1>1. UNCHANGED <<server, calls, workers, watchers, settlers, recovery, late>>
  BY DEF GrantStep, DownloadEnds, CheckOwnership, GrantAccess
<1>2. SpendsOther
  BY DEF GrantStep, DownloadEnds, CheckOwnership, GrantAccess, SpendsOther
<1>3. IntentsMove /\ ReadersMove
  BY <1>1, CallsGo
<1>4. JobsRun /\ j \in DOMAIN jobs /\ jobs[j].kind = "grant"
  BY DEF KeepInv, JobsRun
<1>5. ASSUME JobsMove, TasksMove, GrantsMove, ended \subseteq ended', UNCHANGED store
      PROVE  KeepInv' /\ CompletionInv'
  <2>1. PendingMoves /\ RequestsMove
    BY <1>1, <1>2, <1>5, StoreRests
  <2> QED BY <1>1, <1>3, <1>5, <2>1, BothGoOn
<1>6. ASSUME NEW own \in BOOLEAN, EndGrant(j, "failed", own), own \/ server.closing
      PROVE  JobsMove /\ TasksMove /\ GrantsMove /\ ended \subseteq ended'
  <2>0. PICK status : status = "failed"
    OBVIOUS
  <2>1. Finish(j, status, own) /\ grants' = Without(grants, j)
    BY <1>6, <2>0 DEF EndGrant
  <2>2. /\ JobsMove /\ DOMAIN jobs' = DOMAIN jobs /\ jobs'[j].status = status
        /\ \A k \in DOMAIN jobs \ {j} : jobs'[k] = jobs[k]
        /\ ended \subseteq ended'
    BY <1>1, <1>4, <1>6, <2>1, JobEnds
  <2>3. /\ DOMAIN grants' \subseteq DOMAIN grants
        /\ \A k \in DOMAIN grants' : grants'[k] = grants[k]
    BY <2>1 DEF Without
  <2>4. jobs'[j].status # "completed"
    BY <2>0, <2>2
  <2>5. TasksMove /\ GrantsMove
    BY <1>1, <2>2, <2>3, <2>4, GrantWithJob
  <2> QED BY <2>2, <2>5
<1>7. ASSUME EndGrant(j, "failed", TRUE) PROVE JobsMove /\ TasksMove /\ GrantsMove /\ ended \subseteq ended'
  <2>1. PICK yes \in BOOLEAN : yes = TRUE
    OBVIOUS
  <2>2. EndGrant(j, "failed", yes)
    BY <1>7, <2>1, Zenon
  <2>3. yes \/ server.closing
    BY <2>1
  <2> QED BY <1>6, <2>2, <2>3
<1>8. CASE DownloadEnds(j)
  <2>1. grants[j].phase = "waiting" /\ UNCHANGED store
    BY <1>8 DEF DownloadEnds
  <2>2. /\ grants[j].download \in DOMAIN jobs /\ jobs[grants[j].download].kind = "liberate"
        /\ jobs[grants[j].download].own \in BOOLEAN
    BY <1>4, <2>1 DEF JobsRun
  <2>3. CASE /\ jobs' = [jobs EXCEPT ![j].status = "running"] /\ UNCHANGED ended
             /\ Grant(j, [grants[j] EXCEPT !.phase = "checking"])
    <3>1. PICK status : status = "running"
      OBVIOUS
    <3>2. status \notin Over /\ status # "completed"
      BY <3>1 DEF Over
    <3>3. /\ JobsMove /\ DOMAIN jobs' = DOMAIN jobs /\ jobs'[j].status = status
          /\ \A k \in DOMAIN jobs \ {j} : jobs'[k] = jobs[k]
      BY <1>4, <2>3, <3>1, <3>2, JobGoesOn
    <3>4. PICK phase : phase = "checking"
      OBVIOUS
    <3>5. /\ DOMAIN grants' = DOMAIN grants
          /\ \A k \in DOMAIN grants' : /\ grants'[k].user = grants[k].user
                                       /\ grants'[k] = grants[k] \/ grants'[k].phase # "waiting"
      BY <2>3, <3>4, GrantGoesOn
    <3>6. TasksMove /\ GrantsMove
      BY <1>1, <3>2, <3>3, <3>5, GrantWithJob
    <3> QED BY <1>5, <2>1, <2>3, <3>3, <3>6
  <2>4. CASE /\ jobs[grants[j].download].status \in {"failed", "forgotten"}
             /\ EndGrant(j, "failed", jobs[grants[j].download].own)
    <3>1. jobs[grants[j].download].own \/ server.closing
      BY <2>2, <2>4 DEF KeepInv, Stopped, Terminal, Over
    <3>2. PICK own \in BOOLEAN : own = jobs[grants[j].download].own
      BY <2>2
    <3>3. EndGrant(j, "failed", own) /\ (own \/ server.closing)
      BY <2>4, <3>1, <3>2, Zenon
    <3> QED BY <1>5, <1>6, <2>1, <3>3
  <2>5. CASE EndGrant(j, "failed", TRUE)
    BY <1>5, <1>7, <2>1, <2>5
  <2> QED BY <1>8, <2>3, <2>4, <2>5 DEF DownloadEnds
<1>9. CASE CheckOwnership(j)
  <2>1. UNCHANGED store
    BY <1>9 DEF CheckOwnership
  <2>2. CASE EndGrant(j, "failed", TRUE)
    BY <1>5, <1>7, <2>1, <2>2
  <2>3. CASE Grant(j, [grants[j] EXCEPT !.phase = "granting"]) /\ UNCHANGED <<jobs, ended>>
    <3>1. PICK phase : phase = "granting"
      OBVIOUS
    <3>2. /\ DOMAIN grants' = DOMAIN grants
          /\ \A k \in DOMAIN grants' : /\ grants'[k].user = grants[k].user
                                       /\ grants'[k] = grants[k] \/ grants'[k].phase # "waiting"
      BY <2>3, <3>1, GrantGoesOn
    <3>3. JobsMove
      BY <1>4, <2>3, JobsRest
    <3>4. TasksMove
      BY <1>1, <3>2 DEF TasksMove
    <3>5. GrantsMove
      BY <2>3 DEF GrantsMove
    <3> QED BY <1>5, <2>1, <2>3, <3>3, <3>4, <3>5
  <2> QED BY <1>9, <2>2, <2>3 DEF CheckOwnership
<1>10. CASE GrantAccess(j)
  <2>1. CASE UNCHANGED store /\ EndGrant(j, "failed", TRUE)
    BY <1>5, <1>7, <2>1
  <2>2. CASE /\ store' = [store EXCEPT !.access = @ \cup {grants[j].user}]
             /\ EndGrant(j, "completed", TRUE)
             /\ UNCHANGED spent
    <3>1. PICK yes \in BOOLEAN : yes = TRUE
      OBVIOUS
    <3>2. Finish(j, "completed", yes) /\ grants' = Without(grants, j)
      BY <2>2, <3>1, Zenon DEF EndGrant
    <3>3. /\ JobsMove /\ DOMAIN jobs' = DOMAIN jobs
          /\ \A k \in DOMAIN jobs \ {j} : jobs'[k] = jobs[k]
          /\ ended \subseteq ended'
      BY <1>1, <1>4, <3>1, <3>2, JobEnds
    <3>4. /\ DOMAIN grants' \subseteq DOMAIN grants
          /\ \A k \in DOMAIN grants' : grants'[k] = grants[k]
      BY <3>2 DEF Without
    <3>5. /\ store'.access = store.access \cup {grants[j].user} /\ store'.bulk = store.bulk
          /\ store'.pending = store.pending /\ store'.requests = store.requests
      BY <2>2, Foundations DEF StoreShaped
    <3>6. TasksMove /\ GrantsMove
      BY <1>1, <3>3, <3>4, <3>5, GrantWithJob
    <3>7. NextIntent' = NextIntent /\ spent'.used[File] = spent.used[File]
      BY <1>2, SpendingCounts
    <3>8. PendingMoves /\ RequestsMove
      BY <1>1, <3>3, <3>5, <3>7, PendingKeeps, RequestsRest
    <3> QED BY <1>1, <1>3, <3>3, <3>6, <3>8, BothGoOn
  <2> QED BY <1>10, <2>1, <2>2 DEF GrantAccess
<1> QED BY <1>8, <1>9, <1>10 DEF GrantStep

(* Those that wait for an outcome keep both.                                   *)
LEMMA WatchersKeepBoth ==
  ASSUME Founded, KeepInv, CompletionInv, NEW w \in watchers, WatcherStep(w)
  PROVE  KeepInv' /\ CompletionInv'
<1>1. /\ UNCHANGED <<server, jobs, workers, grants, calls, settlers, recovery, late, ended>>
      /\ watchers' \subseteq watchers /\ SpendsOther
  BY DEF WatcherStep, RemoveIntent, ClearAll, SpendsOther
<1>2. IntentsMove /\ ReadersMove
  BY <1>1, CallsGo
<1>3. JobsMove /\ TasksMove /\ GrantsMove
  BY <1>1, TasksRest DEF KeepInv
<1>4. CASE UNCHANGED store
  <2>1. PendingMoves /\ RequestsMove
    BY <1>1, <1>4, StoreRests
  <2> QED BY <1>1, <1>2, <1>3, <2>1, BothGoOn
<1>5. CASE RemoveIntent(w) /\ store' = Pending(w.id)
  <2>1. w.for = "intent" /\ Terminal(w.job) /\ ~(server.closing /\ w.heard)
    BY <1>5 DEF RemoveIntent, IsOver, Leaves
  <2>2. Followed(w)
    BY <2>1 DEF KeepInv
  <2>3. w.id \in ended \cup late
    BY <2>1, <2>2 DEF Followed, KeepInv, Stopped
  <2>4. PendingMoves /\ RequestsMove
    BY <1>1, <1>5, <2>3, IntentDone
  <2> QED BY <1>1, <1>2, <1>3, <2>4, BothGoOn
<1>6. CASE /\ ClearAll(w) /\ store.bulk.job = w.job
           /\ store' = [store EXCEPT !.bulk = [on |-> FALSE, job |-> None]]
  <2>1. w.for = "all" /\ Terminal(w.job) /\ ~(server.closing /\ w.heard)
    BY <1>6 DEF ClearAll, Leaves
  <2>2. FollowedAll(w)
    BY <2>1 DEF KeepInv
  <2>3. 0 \in ended
    BY <1>6, <2>1, <2>2 DEF FollowedAll
  <2>4. /\ store'.pending = store.pending /\ store'.requests = store.requests
        /\ store'.access = store.access /\ store'.bulk.job = None
    <3>1. PICK bulk : bulk = [on |-> FALSE, job |-> None]
      OBVIOUS
    <3>2. bulk.job = None
      BY <3>1
    <3> QED BY <1>6, <3>1, <3>2, Foundations DEF StoreShaped
  <2>5. None \notin DOMAIN jobs
    BY Foundations, LibationConstants
  <2>6. NextIntent' = NextIntent /\ spent'.used[File] = spent.used[File]
    BY <1>1, SpendingCounts
  <2>7. RequestsMove
    BY <2>4, <2>6, RequestsRest
  <2>8. PendingMoves
    BY <1>1, <2>3, <2>4, <2>5, <2>6 DEF PendingMoves, KeepInv, IntentsAreKept, Intents
  <2> QED BY <1>1, <1>2, <1>3, <2>7, <2>8, BothGoOn
<1> QED BY <1>4, <1>5, <1>6 DEF WatcherStep, RemoveIntent, ClearAll

(* A request is completed when the grant that stands for it is.                *)
LEMMA SettlersKeepBoth ==
  ASSUME Founded, KeepInv, CompletionInv, NEW s \in settlers, Settle(s)
  PROVE  KeepInv' /\ CompletionInv'
<1>1. /\ UNCHANGED <<server, jobs, workers, grants, calls, watchers, recovery, late, ended>>
      /\ settlers' \subseteq settlers /\ SpendsOther
  BY DEF Settle, SpendsOther
<1>2. IntentsMove /\ ReadersMove
  BY <1>1, CallsGo
<1>3. JobsMove /\ TasksMove /\ GrantsMove
  BY <1>1, TasksRest DEF KeepInv
<1>4. CASE UNCHANGED store
  <2>1. PendingMoves /\ RequestsMove
    BY <1>1, <1>4, StoreRests
  <2> QED BY <1>1, <1>2, <1>3, <2>1, BothGoOn
<1>5. CASE ~UNCHANGED store
  <2>1. PICK r, outcome, decided, job :
          /\ r = s.id /\ r \in DOMAIN store.requests
          /\ outcome = IF jobs[s.job].status = "completed" THEN "completed" ELSE "failed"
          /\ store' = Becomes(r, outcome, decided, job)
    BY <1>5 DEF Settle
  <2>2. outcome = "completed" => Request(r).user \in store.access
    <3>1. OfReader(s.id, s.user) /\ GrantsReader(s)
      BY DEF CompletionInv
    <3> QED BY <2>1, <3>1 DEF OfReader, GrantsReader, Request
  <2>3. PendingMoves /\ RequestsMove
    BY <1>1, <2>1, <2>2, RequestStored
  <2> QED BY <1>1, <1>2, <1>3, <2>3, BothGoOn
<1> QED BY <1>4, <1>5

(* A job is forgotten.                                                         *)
LEMMA ForgetKeepsBoth ==
  ASSUME Founded, KeepInv, CompletionInv, NEW j \in DOMAIN jobs, Forget(j)
  PROVE  KeepInv' /\ CompletionInv'
<1>1. /\ UNCHANGED <<store, server, workers, grants, calls, watchers, settlers, recovery,
                     late, ended>>
      /\ SpendsOther
  BY DEF Forget, SpendsOther, tasks, ghosts
<1>2. PICK status : status = "forgotten"
  OBVIOUS
<1>3. jobs' = [jobs EXCEPT ![j].status = status] /\ jobs[j].status \in Over
  BY <1>2 DEF Forget, Over
<1>4. /\ JobsMove /\ DOMAIN jobs' = DOMAIN jobs /\ jobs'[j].status = status
      /\ \A k \in DOMAIN jobs \ {j} : jobs'[k] = jobs[k]
  BY <1>3, JobGoesOn DEF KeepInv
<1>5. TasksMove
  BY <1>1 DEF TasksMove
<1>6. GrantsMove
  BY <1>2, <1>4 DEF GrantsMove
<1>7. IntentsMove /\ ReadersMove
  BY <1>1, CallsGo
<1>8. PendingMoves /\ RequestsMove
  BY <1>1, StoreRests
<1> QED BY <1>1, <1>4, <1>5, <1>6, <1>7, <1>8, BothGoOn

(* What recovery takes up again keeps both.                                    *)
LEMMA RecoveryKeepsBoth ==
  ASSUME Founded, KeepInv, CompletionInv, RecoveryStep
  PROVE  KeepInv' /\ CompletionInv'
<1>1. UNCHANGED <<store, server, jobs, workers, grants, watchers, settlers, spent, ended, late>>
  BY DEF RecoveryStep, RecoverBegin, RecoverIntent, RecoverRequests, RecoverRequest, RecoverAll,
      ghosts
<1>2. JobsMove /\ TasksMove /\ GrantsMove
  BY <1>1, TasksRest DEF KeepInv
<1>3. PendingMoves /\ RequestsMove
  BY <1>1, StoreRests DEF SpendsOther
<1>4. ASSUME IntentsMove, ReadersMove PROVE KeepInv' /\ CompletionInv'
  BY <1>1, <1>2, <1>3, <1>4, BothGoOn
<1>5. RecoveryShaped
  BY Foundations
<1>6. ASSUME NEW phase, recovery' = [recovery EXCEPT !.phase = phase]
      PROVE  recovery'.phase = phase /\ recovery'.left = recovery.left
  BY <1>5, <1>6 DEF RecoveryShaped
<1>7. ASSUME recovery'.phase = "done", UNCHANGED calls PROVE IntentsMove /\ ReadersMove
  BY <1>1, <1>7 DEF IntentsMove, ReadersMove
<1>8. CASE RecoverBegin
  <2>1. CASE recovery' = [recovery EXCEPT !.phase = "done"]
    <3>1. PICK phase : phase = "done"
      OBVIOUS
    <3>2. recovery'.phase = "done"
      BY <1>6, <2>1, <3>1
    <3> QED BY <1>4, <1>7, <1>8, <3>2 DEF RecoverBegin
  <2>2. CASE recovery' = [phase |-> "intents", waits |-> {}, heard |-> TRUE,
                          left |-> Snapshot(DOMAIN store.pending, store.pending)]
    <3>1. PICK yes : yes = TRUE
      OBVIOUS
    <3>2. recovery' = [phase |-> "intents", waits |-> {}, heard |-> yes,
                       left |-> Snapshot(DOMAIN store.pending, store.pending)]
      BY <2>2, <3>1
    <3>3. recovery'.phase = "intents" /\ recovery'.left = Snapshot(DOMAIN store.pending, store.pending)
      BY <3>2
    <3>4. \A next \in recovery'.left : next.id # 0
      BY <3>3 DEF Snapshot, KeepInv
    <3>5. UNCHANGED calls
      BY <1>8 DEF RecoverBegin
    <3>6. IntentsMove /\ ReadersMove
      BY <1>1, <3>3, <3>4, <3>5 DEF IntentsMove, ReadersMove
    <3> QED BY <1>4, <3>6
  <2> QED BY <1>8, <2>1, <2>2 DEF RecoverBegin
<1>9. CASE RecoverIntent
  <2>1. CASE Recovering("done") /\ UNCHANGED calls
    <3>1. PICK phase : phase = "done"
      OBVIOUS
    <3>2. recovery'.phase = "done"
      BY <1>6, <2>1, <3>1 DEF Recovering
    <3> QED BY <1>4, <1>7, <2>1, <3>2
  <2>2. CASE \E next \in recovery.left :
               /\ recovery' = [recovery EXCEPT !.left = @ \ {next}, !.waits = {},
                                               !.heard = ~server.closing]
               /\ calls' = calls \cup {Dispatch(next.id, next.entry, "recovery")}
    <3>1. PICK next \in recovery.left :
               /\ recovery' = [recovery EXCEPT !.left = @ \ {next}, !.waits = {},
                                               !.heard = ~server.closing]
               /\ calls' = calls \cup {Dispatch(next.id, next.entry, "recovery")}
      BY <2>2
    <3>2. recovery.phase = "intents"
      BY <1>9 DEF RecoverIntent
    <3>3. recovery'.phase = recovery.phase /\ recovery'.left \subseteq recovery.left
      <4>1. PICK heard : heard = ~server.closing
        OBVIOUS
      <4>2. recovery' = [recovery EXCEPT !.left = recovery.left \ {next}, !.waits = {}, !.heard = heard]
        BY <3>1, <4>1
      <4> QED BY <1>5, <4>2 DEF RecoveryShaped
    <3>4. \A other \in recovery.left : other.id # 0
      BY <3>2 DEF KeepInv
    <3>5. PICK d : d.for = "intent" /\ d.id = next.id /\ d.job = None /\ calls' = calls \cup {d}
      BY <3>1, CallIsNew
    <3>6. IntentsMove /\ ReadersMove
      BY <1>1, <3>2, <3>3, <3>4, <3>5 DEF IntentsMove, ReadersMove
    <3> QED BY <1>4, <3>6
  <2> QED BY <1>9, <2>1, <2>2 DEF RecoverIntent
<1>10. CASE RecoverRequests
  <2>1. UNCHANGED calls
    BY <1>10 DEF RecoverRequests
  <2>2. CASE recovery' = [recovery EXCEPT !.phase = "done"]
    <3>1. PICK phase : phase = "done"
      OBVIOUS
    <3>2. recovery'.phase = "done"
      BY <1>6, <2>2, <3>1
    <3> QED BY <1>4, <1>7, <2>1, <3>2
  <2>3. CASE recovery' = [recovery EXCEPT !.phase = "requests", !.waits = {},
                                          !.left = Snapshot(Interrupted, store.requests)]
    <3>1. recovery'.phase = "requests" /\ recovery'.left = Snapshot(Interrupted, store.requests)
      BY <1>5, <2>3 DEF RecoveryShaped
    <3>2. \A next \in recovery'.left : OfReader(next.id, next.entry.user)
      BY <3>1 DEF Snapshot, Interrupted, ApprovedRequests, OfReader, CompletionInv
    <3>3. \A next \in recovery'.left : OfReader(next.id, next.entry.user)'
      BY <1>1, <3>2 DEF OfReader
    <3>4. IntentsMove /\ ReadersMove
      BY <1>1, <2>1, <3>1, <3>3 DEF IntentsMove, ReadersMove
    <3> QED BY <1>4, <3>4
  <2> QED BY <1>10, <2>2, <2>3 DEF RecoverRequests
<1>11. CASE RecoverRequest
  <2>1. PICK next \in recovery.left :
               /\ recovery' = [recovery EXCEPT !.left = @ \ {next}]
               /\ calls' = calls \cup {Attach(next.id, next.entry, "recovery")}
    BY <1>11 DEF RecoverRequest
  <2>2. recovery.phase = "requests"
    BY <1>11 DEF RecoverRequest
  <2>3. recovery'.phase = recovery.phase /\ recovery'.left \subseteq recovery.left
    BY <1>5, <2>1 DEF RecoveryShaped
  <2>4. \A other \in recovery.left : OfReader(other.id, other.entry.user)'
    BY <1>1, <2>2 DEF OfReader, CompletionInv
  <2>5. PICK d : /\ d.for = "request" /\ d.id = next.id /\ d.user = next.entry.user /\ d.job = None
                 /\ calls' = calls \cup {d}
    BY <2>1, CallIsNew
  <2>6. OfReader(d.id, d.user)'
    BY <2>1, <2>4, <2>5
  <2>7. IntentsMove /\ ReadersMove
    BY <1>1, <2>2, <2>3, <2>4, <2>5, <2>6 DEF IntentsMove, ReadersMove
  <2> QED BY <1>4, <2>7
<1>12. CASE RecoverAll
  <2>1. recovery'.phase = "done"
    <3>1. PICK phase : phase = "done"
      OBVIOUS
    <3> QED BY <1>6, <1>12, <3>1 DEF RecoverAll, Recovering
  <2>2. CASE UNCHANGED calls
    BY <1>4, <1>7, <2>1, <2>2
  <2>3. CASE ~UNCHANGED calls
    <3>1. PICK heard : heard = ~server.closing
      OBVIOUS
    <3>2. PICK d : d = [for |-> "all", id |-> 0, profile |-> None, user |-> None,
                        origin |-> "recovery", job |-> None, download |-> None, heard |-> heard]
      OBVIOUS
    <3>3. d.for = "all" /\ calls' = calls \cup {d}
      BY <1>12, <2>3, <3>1, <3>2 DEF RecoverAll
    <3>4. IntentsMove /\ ReadersMove
      BY <1>1, <2>1, <3>3 DEF IntentsMove, ReadersMove
    <3> QED BY <1>4, <3>4
  <2> QED BY <2>2, <2>3
<1> QED BY <1>8, <1>9, <1>10, <1>11, <1>12 DEF RecoveryStep

(* A scan, and the announcement of a shutdown, keep both.                      *)
LEMMA ServerKeepsBoth ==
  ASSUME Founded, KeepInv, CompletionInv, CatalogueIsScanned \/ AnnounceShutdown
  PROVE  KeepInv' /\ CompletionInv'
<1>1. /\ UNCHANGED <<store, jobs, workers, grants, calls, watchers, settlers, recovery, late, ended>>
      /\ SpendsOther
  BY DEF CatalogueIsScanned, AnnounceShutdown, SpendsOther, tasks, ghosts
<1>2. server.closing => server'.closing
  <2>1. CASE CatalogueIsScanned
    <3>1. PICK yes : yes = TRUE
      OBVIOUS
    <3>2. server' = [server EXCEPT !.ready = yes, !.has = audio]
      BY <2>1, <3>1 DEF CatalogueIsScanned
    <3> QED BY <3>2, Foundations DEF ServerShaped
  <2>2. CASE AnnounceShutdown
    BY <2>2 DEF AnnounceShutdown
  <2> QED BY <2>1, <2>2
<1> QED BY <1>1, <1>2, TasksRest, CallsGo, StoreRests, BothGoOn DEF KeepInv

(* A restart ends all tasks, and keeps what is stored.                         *)
LEMMA RestartKeepsBoth ==
  ASSUME Founded, KeepInv, CompletionInv, Restart
  PROVE  KeepInv' /\ CompletionInv'
<1>1. /\ jobs' = <<>> /\ calls' = {} /\ workers' = <<>> /\ grants' = <<>>
      /\ watchers' = {} /\ settlers' = {} /\ recovery' = AtStart
      /\ UNCHANGED <<ended, late>>
      /\ store' = [store EXCEPT !.requests = WithoutJobs(@)]
  BY DEF Restart
<1>2. DOMAIN jobs' = {} /\ DOMAIN workers' = {} /\ DOMAIN grants' = {}
  BY <1>1
<1>3. recovery'.phase = "waiting"
  BY <1>1 DEF AtStart
<1>4. /\ store'.pending = store.pending /\ store'.bulk = store.bulk
      /\ store'.access = store.access /\ store'.requests = WithoutJobs(store.requests)
  BY <1>1, Foundations DEF StoreShaped
<1>5. \A k \in {Start, Buy, File} : spent'.used[k] = spent.used[k]
  <2> DEFINE Costs(enabled) == (IF server.closing THEN {} ELSE {Stop})
                               \cup (IF enabled THEN {} ELSE {Fault})
  <2>1. PICK enabled \in BOOLEAN :
          spent' = [spent EXCEPT
                      !.used = [k \in 1..8 |-> IF k \in Costs(enabled) THEN @[k] + 1 ELSE @[k]]]
    BY DEF Restart
  <2>2. Start \notin Costs(enabled) /\ Buy \notin Costs(enabled) /\ File \notin Costs(enabled)
    BY DEF Start, Buy, File, Stop, Fault
  <2>3. PICK costs : costs = Costs(enabled)
    OBVIOUS
  <2> HIDE DEF Costs
  <2>4. spent'.used = [k \in 1..8 |-> IF k \in costs THEN spent.used[k] + 1 ELSE spent.used[k]]
    BY <2>1, <2>3, Foundations DEF Spending
  <2>5. Start \in 1..8 /\ Buy \in 1..8 /\ File \in 1..8
    BY DEF Start, Buy, File
  <2> QED BY <2>2, <2>3, <2>4, <2>5
<1>6. NextIntent' = NextIntent
  BY <1>5 DEF NextIntent
<1>7. \A r \in DOMAIN store.requests :
         /\ store'.requests[r].user = store.requests[r].user
         /\ store'.requests[r].status = store.requests[r].status
  <2> SUFFICES ASSUME NEW r \in DOMAIN store.requests
               PROVE  /\ store'.requests[r].user = store.requests[r].user
                      /\ store'.requests[r].status = store.requests[r].status
    OBVIOUS
  <2>1. RequestShaped(Request(r))
    BY Foundations DEF Shapes
  <2>2. store'.requests[r] = IF store.requests[r].status = "approved"
                             THEN [store.requests[r] EXCEPT !.job = None]
                             ELSE store.requests[r]
    BY <1>4 DEF WithoutJobs
  <2> QED BY <2>1, <2>2 DEF Request, RequestShaped
<1>8. DOMAIN store'.requests = DOMAIN store.requests
  BY <1>4 DEF WithoutJobs
<1>9. KeepInv'
  <2>1. JobsRun' /\ Stopped'
    BY <1>2 DEF JobsRun, Stopped
  <2>2. IntentsAreKept'
    BY <1>1, <1>4, <1>6 DEF KeepInv, IntentsAreKept, Intents
  <2> QED BY <1>1, <1>3, <1>4, <2>1, <2>2 DEF KeepInv
<1>10. CompletionInv'
  <2>1. CompletedIsGranted'
    BY <1>4, <1>7, <1>8 DEF CompletionInv, CompletedIsGranted
  <2>2. spent'.used[File] = spent.used[File]
    BY <1>5
  <2>3. \A r \in DOMAIN store'.requests :
           store'.requests[r].user # None /\ r \in Nat /\ r <= spent'.used[File]
    BY <1>7, <1>8, <2>2 DEF CompletionInv
  <2> QED BY <1>1, <1>3, <2>1, <2>3 DEF CompletionInv
<1> QED BY <1>9, <1>10

(* Both hold in the beginning.                                                 *)
LEMMA BothInit == LibationInit => KeepInv /\ CompletionInv
<1> SUFFICES ASSUME LibationInit PROVE KeepInv /\ CompletionInv
  OBVIOUS
<1>1. /\ jobs = <<>> /\ workers = <<>> /\ grants = <<>> /\ calls = {}
      /\ watchers = {} /\ settlers = {} /\ ended = {0}
  BY DEF LibationInit
<1>2. /\ store.pending = <<>> /\ store.requests = <<>>
  BY DEF LibationInit
<1>3. recovery.phase = "done"
  BY DEF LibationInit, AtStart
<1>4. spent.used[Start] = 0 /\ spent.used[Buy] = 0
  BY DEF LibationInit, Start, Buy
<1>5. Intents = {}
  BY <1>4 DEF Intents, NextIntent
<1>6. KeepInv
  BY <1>1, <1>2, <1>3, <1>5 DEF KeepInv, JobsRun, Stopped, IntentsAreKept
<1>7. CompletionInv
  BY <1>1, <1>2, <1>3 DEF CompletionInv, CompletedIsGranted
<1> QED BY <1>6, <1>7

(* Every step keeps both.                                                      *)
LEMMA StepsKeepBoth ==
  ASSUME Founded, KeepInv, CompletionInv, [LibationNext]_vars
  PROVE  KeepInv' /\ CompletionInv'
<1>1. CASE UNCHANGED vars
  <2>1. /\ UNCHANGED <<store, server, jobs, workers, grants, calls, watchers, settlers,
                       recovery, late, ended>>
        /\ SpendsOther
    BY <1>1 DEF vars, memory, ghosts, SpendsOther
  <2> QED BY <2>1, TasksRest, CallsGo, StoreRests, BothGoOn DEF KeepInv
<1>2. CASE LibationNext
  BY <1>2, PeopleKeepBoth, CallsKeepBoth, WorkersKeepBoth, GrantsKeepBoth, WatchersKeepBoth,
     SettlersKeepBoth, ForgetKeepsBoth, RecoveryKeepsBoth, ServerKeepsBoth, RestartKeepsBoth
     DEF LibationNext
<1> QED BY <1>1, <1>2

(* The four invariants together, over all steps.                               *)
LEMMA AllStepsKeepAll ==
  Founded /\ KeepInv /\ CompletionInv /\ [LibationNext]_vars =>
  (Founded /\ KeepInv /\ CompletionInv)'
<1> SUFFICES ASSUME Founded, KeepInv, CompletionInv, [LibationNext]_vars
             PROVE  (Founded /\ KeepInv /\ CompletionInv)'
  OBVIOUS
<1>1. ImportInv'
  BY StepsKeepImports DEF Founded
<1>2. EarnInv'
  BY StepsKeepEarned DEF Founded
<1>3. KeepInv' /\ CompletionInv'
  BY StepsKeepBoth
<1> QED BY <1>1, <1>2, <1>3 DEF Founded

(* An intent that was accepted is kept, over restarts, dropped calls and saves *)
(* that fail, until the job its reader was told of has an outcome of its own,  *)
(* or it was handed to a job after the shutdown was announced; and "download   *)
(* everything" until the last job for it is done (dispatch, wait_for_terminal, *)
(* remove_intent, start_all_libation_downloads, recover).                      *)
THEOREM IntentsAreKeptAlways == LibationSpec => []IntentsAreKept
<1>1. LibationInit => Founded /\ KeepInv /\ CompletionInv
  BY ImportInit, EarnInit, BothInit DEF Founded
<1>2. Founded /\ KeepInv /\ CompletionInv => IntentsAreKept
  BY DEF KeepInv
<1> QED BY <1>1, <1>2, AllStepsKeepAll, PTL DEF LibationSpec

(* A request is completed only when its reader has the book, and nobody has it *)
(* who did not start, or was not allowed, a download from an account that owned *)
(* it (schedule_libation_request_completion, profile_owns_asin).               *)
THEOREM RequestsAreTrueAlways == LibationSpec => []RequestsAreTrue
<1>1. LibationInit => Founded /\ KeepInv /\ CompletionInv
  BY ImportInit, EarnInit, BothInit DEF Founded
<1>2. Founded /\ KeepInv /\ CompletionInv => RequestsAreTrue
  BY DEF Founded, EarnInv, CompletionInv, RequestsAreTrue
<1> QED BY <1>1, <1>2, AllStepsKeepAll, PTL DEF LibationSpec

================================================================================
