--------------------------- MODULE LibationDownloads ---------------------------
(* Getting one title from Audible onto the server: downloads started directly, *)
(* requests that need approval, automatic imports and "download everything"    *)
(* (apps/server/src/libation.rs, libation_download.rs), and the intent that is  *)
(* kept until they are done, over restarts (libation_recovery.rs).             *)
(*                                                                             *)
(* What the database keeps is `store`; jobs and the tasks that run them are    *)
(* gone when the process ends. The several Audible accounts ("profiles") may   *)
(* all own the title. Libation itself, the scan of the library and the choice  *)
(* whether a call to either works out are the environment's.                   *)
EXTENDS Naturals, Sequences, FiniteSets

CONSTANTS
    Profiles,    \* Audible accounts
    Asking,      \* readers who need approval for a download
    Direct,      \* readers who download directly
    Admin,       \* an administrator: downloads directly and sees every book
    Imported,    \* profiles whose new purchases are imported
    MaxPending,  \* MAX_PENDING_LIBATION_REQUESTS_PER_USER (100)
    MaxTracked,  \* MAX_TRACKED_LIBATION_REQUESTS (1000)
    None,
    Bounds       \* [owners: the profiles that own the title to begin with,
                 \*  most: <<direct starts, requests, decisions and retries,
                 \*   purchases, download-alls, faults, ends of the process,
                 \*   changes of ownership>>]

ASSUME LibationConstants ==
    /\ Asking \cap Direct = {} /\ Admin \notin Asking \cup Direct
    /\ Imported \subseteq Profiles
    /\ None \notin Nat \cup Profiles \cup Asking \cup Direct \cup {Admin}
    /\ MaxPending \in Nat \ {0} /\ MaxTracked \in Nat \ {0}
    /\ \A bound \in Bounds :
         bound.owners \subseteq Profiles /\ bound.most \in [1..8 -> Nat]

VARIABLES
    store,      \* [pending, requests, bulk, seen, access]
    audio,      \* the title's files are in the library folder
    owns,       \* profiles that own the title, as Libation lists them
    server,     \* [enabled, ready, has, closing, lock]
    jobs,       \* the job table of this process
    calls,      \* dispatches that are under way
    workers,    \* liberate jobs: [phase, left, from, heard]
    grants,     \* grant jobs: [phase, download, profile, user]
    watchers,   \* tasks that wait for the end of a dispatched intent
    settlers,   \* tasks that wait for the end of a request's job
    recovery,   \* the task of `recover`
    spent,      \* how much of the bounds is used up
    \* history
    ended,      \* intents whose job came to an end of its own, or was refused;
                \*   0 stands for "download everything"
    late,       \* intents dispatched after the shutdown was announced
    stuck,      \* intents and requests that only a restart takes up again
    imports,    \* how often files were put into the library
    entitled,   \* <<reader, profile>>: started directly, or approved
    owned       \* profiles that ever owned the title

memory == <<server, jobs, calls, workers, grants, watchers, settlers, recovery>>
tasks == <<calls, workers, grants, watchers, settlers, recovery>>
ghosts == <<ended, late, stuck, imports, entitled, owned>>
vars == <<store, audio, owns, memory, spent, ghosts>>

Start == 1
File == 2
Rule == 3
Buy == 4
All == 5
Fault == 6
Stop == 7
Own == 8

Spend(k) == /\ spent.used[k] < spent.most[k]
            /\ spent' = [spent EXCEPT !.used[k] = @ + 1]

With(f, x, e) == [y \in DOMAIN f \cup {x} |-> IF y = x THEN e ELSE f[y]]

Without(f, x) == [y \in DOMAIN f \ {x} |-> f[y]]

--------------------------------------------------------------------------------
(* Jobs.                                                                       *)

Over == {"completed", "failed", "forgotten"}

Terminal(j) == jobs[j].status \in Over

NewJob(kind, profile, status) ==
    [kind |-> kind, profile |-> profile, status |-> status, own |-> FALSE]

NextJob == Len(jobs) + 1

\* create_queued_job: the unfinished job of the same kind and title, if any.
Existing(kind, profile) ==
    {j \in DOMAIN jobs : jobs[j].kind = kind /\ jobs[j].profile = profile /\ ~Terminal(j)}

\* The intents whose reply named job j.
AnsweredWith(j) == {x.id : x \in {y \in calls \cup watchers :
                                    y.for = "intent" /\ y.job = j}}

\* update_job_finished. `own` is FALSE where the job was only stopped.
Finish(j, status, own) ==
    /\ jobs' = [jobs EXCEPT ![j].status = status, ![j].own = own]
    /\ ended' = IF ~own THEN ended
                ELSE ended \cup (IF jobs[j].kind = "all" THEN {0} ELSE AnsweredWith(j))

\* The table is full of newer jobs (prune_finished_jobs).
Forget(j) ==
    /\ jobs[j].status \in {"completed", "failed"}
    /\ Spend(Fault)
    /\ jobs' = [jobs EXCEPT ![j].status = "forgotten"]
    /\ UNCHANGED <<store, audio, owns, server, tasks, ghosts>>

--------------------------------------------------------------------------------
(* Intents.                                                                    *)

Initiated(by) == {i \in DOMAIN store.pending : store.pending[i].by = by}

\* admit_download: the quotas, of everybody and of one user.
Admitted(by) ==
    /\ Cardinality(DOMAIN store.pending) < MaxTracked
    /\ Cardinality(Initiated(by)) < MaxPending

NextIntent == spent.used[Start] + spent.used[Buy] + 1

Intent(profile, user, by) == [profile |-> profile, user |-> user, by |-> by]

Dispatch(id, intent, origin) ==
    [for |-> "intent", id |-> id, profile |-> intent.profile, user |-> intent.user,
     origin |-> origin, job |-> None, download |-> None, heard |-> ~server.closing]

\* An administrator needs no access to a single book.
Grantee(by) == IF by = Admin THEN None ELSE by

\* start: the intent is saved before anything else is done. A repeated call is
\* answered with the job of the first, or refused, and changes nothing.
StartDownload(by, p) ==
    LET intent == Intent(p, Grantee(by), by) IN
    /\ ~server.closing
    /\ \A i \in DOMAIN store.pending : store.pending[i] # intent
    /\ Admitted(by)
    /\ Spend(Start)
    /\ store' = [store EXCEPT !.pending = With(@, NextIntent, intent)]
    /\ calls' = calls \cup {Dispatch(NextIntent, intent, "client")}
    /\ entitled' = IF by = Admin THEN entitled ELSE entitled \cup {<<by, p>>}
    /\ UNCHANGED <<audio, owns, server, jobs, workers, grants, watchers, settlers,
                   recovery, ended, late, stuck, imports, owned>>

\* queue_new_purchases: the baseline and the work are saved together.
QueuePurchase(p) ==
    LET intent == Intent(p, None, Admin) IN
    /\ ~server.closing
    /\ p \in owns \ store.seen
    /\ Spend(Buy)
    /\ store' = [store EXCEPT !.seen = @ \cup {p},
                              !.pending = With(@, NextIntent, intent)]
    /\ calls' = calls \cup {Dispatch(NextIntent, intent, "refresh")}
    /\ UNCHANGED <<audio, owns, server, jobs, workers, grants, watchers, settlers,
                   recovery, ghosts>>

--------------------------------------------------------------------------------
(* Requests.                                                                   *)

Attach(r, request, origin) ==
    [for |-> "request", id |-> r, profile |-> request.profile, user |-> request.user,
     origin |-> origin, job |-> None, download |-> None, heard |-> ~server.closing]

\* Request r, of the same reader and for the same account.
Becomes(r, status, decided, job) ==
    LET request == [user |-> store.requests[r].user, profile |-> store.requests[r].profile,
                    status |-> status, decided |-> decided, job |-> job]
    IN  [store EXCEPT !.requests = [@ EXCEPT ![r] = request]]

Decided == {r \in DOMAIN store.requests :
                store.requests[r].status \notin {"pending", "approved"}}

\* create_libation_download_request without an earlier request to answer with:
\* the oldest decided one makes room.
FileRequest(u, p) ==
    LET asked == {r \in DOMAIN store.requests :
                    /\ store.requests[r].user = u /\ store.requests[r].profile = p
                    /\ \/ store.requests[r].status \in {"pending", "approved"}
                       \/ store.requests[r].status = "failed" /\ store.requests[r].decided}
        waiting == {r \in DOMAIN store.requests :
                    store.requests[r].user = u /\ store.requests[r].status = "pending"}
        full == Cardinality(DOMAIN store.requests) >= MaxTracked
        r == spent.used[File] + 1
        request == [user |-> u, profile |-> p, status |-> "pending",
                    decided |-> FALSE, job |-> None]
    IN
    /\ ~server.closing /\ server.enabled
    /\ asked = {}
    /\ Cardinality(waiting) < MaxPending
    /\ Spend(File)
    /\ IF full
       THEN \E oldest \in Decided :
              /\ \A other \in Decided : oldest <= other
              /\ store' = [store EXCEPT !.requests = With(Without(@, oldest), r, request)]
       ELSE store' = [store EXCEPT !.requests = With(@, r, request)]
    /\ UNCHANGED <<audio, owns, memory, ghosts>>

\* The same request again: a failed one keeps its approval, and one that is
\* approved but without a job is taken up.
RepeatRequest(r) ==
    LET request == store.requests[r] IN
    /\ ~server.closing /\ server.enabled
    /\ \/ request.status = "failed" /\ request.decided
       \/ request.status = "approved" /\ request.job = None
    /\ Spend(Rule)
    /\ store' = Becomes(r, "approved", request.decided, None)
    /\ calls' = calls \cup {Attach(r, request, "client")}
    /\ UNCHANGED <<audio, owns, server, jobs, workers, grants, watchers, settlers,
                   recovery, ghosts>>

\* decide_libation_download_request, by somebody else than the reader.
Approve(r) ==
    LET request == store.requests[r] IN
    /\ ~server.closing /\ server.enabled
    /\ request.status = "pending"
    /\ Spend(Rule)
    /\ store' = Becomes(r, "approved", TRUE, request.job)
    /\ calls' = calls \cup {Attach(r, request, "client")}
    /\ entitled' = entitled \cup {<<request.user, request.profile>>}
    /\ UNCHANGED <<audio, owns, server, jobs, workers, grants, watchers, settlers,
                   recovery, ended, late, stuck, imports, owned>>

Reject(r) ==
    /\ ~server.closing
    /\ store.requests[r].status = "pending"
    /\ Spend(Rule)
    /\ store' = Becomes(r, "rejected", TRUE, store.requests[r].job)
    /\ UNCHANGED <<audio, owns, memory, ghosts>>

--------------------------------------------------------------------------------
(* start_libation_download_inner, under the registration lock, for an intent   *)
(* or a request: first an access grant, if the title is here already; else a   *)
(* download shared by everybody who wants this title from this profile, and a  *)
(* grant of its own for every reader.                                          *)

\* The call c, with the job its caller is told and the download behind it.
Answered(c, job, download, heard) ==
    [for |-> c.for, id |-> c.id, profile |-> c.profile, user |-> c.user,
     origin |-> c.origin, job |-> job, download |-> download, heard |-> heard]

Replace(c, d) == calls' = (calls \ {c}) \cup {d}

\* What if a reader's call was answered with the job of the download?
ReportsDownload(grant, download) == download

Reported(grant, download) == grant

Waiting(c, phase, download) ==
    [phase |-> phase, download |-> download, profile |-> c.profile, user |-> c.user]

\* Tasks hear only of a shutdown that is announced after they subscribed to it,
\* which a call does a moment after it was accepted.
Hearing(c) == {c.heard, ~server.closing}

Unheard(c, heard) == IF ~heard /\ c.for = "intent" THEN late \cup {c.id} ELSE late

GrantOnly(c) ==
    /\ c.for # "all" /\ c.job = None /\ server.enabled
    /\ c.user # None /\ server.ready /\ server.has
    /\ \E heard \in Hearing(c) :
         /\ Replace(c, Answered(c, NextJob, NextJob, heard))
         /\ late' = Unheard(c, heard)
    /\ jobs' = Append(jobs, NewJob("grant", c.profile, "running"))
    /\ grants' = With(grants, NextJob, Waiting(c, "checking", None))
    /\ UNCHANGED <<store, audio, owns, server, workers, watchers, settlers, recovery,
                   spent, ended, stuck, imports, entitled, owned>>

Worker(heard) == [phase |-> "waiting", left |-> {}, from |-> None, heard |-> heard]

StartLiberate(c) ==
    LET known == Existing("liberate", c.profile)
        fresh == IF known = {} THEN <<NewJob("liberate", c.profile, "queued")>> ELSE <<>>
        grant == NextJob + Len(fresh)
    IN
    /\ c.for # "all" /\ c.job = None /\ server.enabled
    /\ ~(c.user # None /\ server.ready /\ server.has)
    /\ jobs' = jobs \o fresh \o
               (IF c.user = None THEN <<>> ELSE <<NewJob("grant", c.profile, "queued")>>)
    /\ \E download \in IF known = {} THEN {NextJob} ELSE known, heard \in Hearing(c) :
         /\ workers' = IF known # {} THEN workers ELSE With(workers, download, Worker(heard))
         /\ grants' = IF c.user = None THEN grants
                      ELSE With(grants, grant, Waiting(c, "waiting", download))
         /\ LET job == IF c.user = None THEN download ELSE Reported(grant, download)
            IN  Replace(c, Answered(c, job, download, heard))
         /\ late' = Unheard(c, heard)
    /\ UNCHANGED <<store, audio, owns, server, watchers, settlers, recovery, spent,
                   ended, stuck, imports, entitled, owned>>

\* The client goes away. Its call is dropped where it stands: before it started
\* anything, between the download's job and the spawn of its worker, or before
\* anybody waits for the outcome.
DropCall(c) ==
    LET orphans == c.for # "all" /\ c.job = None /\ server.enabled /\ c.user # None
                   /\ ~(server.ready /\ server.has) /\ Existing("liberate", c.profile) = {}
    IN
    /\ c.origin = "client"
    /\ Spend(Fault)
    /\ calls' = calls \ {c}
    /\ stuck' = stuck \cup {<<c.for, c.id>>}
    /\ \/ UNCHANGED jobs
       \/ orphans /\ jobs' = Append(jobs, NewJob("liberate", c.profile, "queued"))
    /\ UNCHANGED <<store, audio, owns, server, workers, grants, watchers, settlers,
                   recovery, ended, late, imports, entitled, owned>>

--------------------------------------------------------------------------------
(* What follows for an intent (dispatch).                                      *)

Pending(without) == [store EXCEPT !.pending = Without(@, without)]

\* The job is named in the stored intent, and a task waits for its end.
LinkIntent(c) ==
    /\ c.for = "intent" /\ c.job # None
    /\ calls' = calls \ {c}
    /\ watchers' = watchers \cup {c}
    /\ recovery' = IF c.origin # "recovery" THEN recovery
                   ELSE [recovery EXCEPT !.waits = {c.job, c.download}]
    /\ UNCHANGED <<store, audio, owns, server, jobs, workers, grants, settlers, spent,
                   ghosts>>

\* Libation is not there, or the profile is not: the intent is given up, and
\* whoever asked is told. The intent stays if that cannot be saved.
RefuseIntent(c) ==
    /\ c.for = "intent" /\ c.job = None
    /\ \/ /\ IF server.enabled THEN Spend(Fault) ELSE UNCHANGED spent
          /\ store' = Pending(c.id) /\ UNCHANGED stuck
       \/ /\ ~server.enabled /\ Spend(Fault) /\ UNCHANGED store
          /\ stuck' = stuck \cup {<<"intent", c.id>>}
    /\ calls' = calls \ {c}
    /\ ended' = ended \cup {c.id}
    /\ UNCHANGED <<audio, owns, server, jobs, workers, grants, watchers, settlers,
                   recovery, late, imports, entitled, owned>>

\* What if the intent was dropped as soon as the download was over?
DownloadIsOver(w) == Terminal(w.download)

IsOver(w) == Terminal(w.download) /\ Terminal(w.job)

\* wait_for_terminal gives up when it hears of the shutdown.
Leaves(w) == server.closing /\ w.heard

RemoveIntent(w) ==
    /\ w.for = "intent" /\ IsOver(w) /\ ~Leaves(w)
    /\ watchers' = watchers \ {w}
    /\ \/ store' = Pending(w.id) /\ UNCHANGED <<spent, stuck>>
       \/ /\ Spend(Fault) /\ UNCHANGED store
          /\ stuck' = stuck \cup {<<"intent", w.id>>}
    /\ UNCHANGED <<audio, owns, server, jobs, calls, workers, grants, settlers,
                   recovery, ended, late, imports, entitled, owned>>

--------------------------------------------------------------------------------
(* What follows for a request (attach_approved_libation_download).             *)

LinkRequest(c) ==
    /\ c.for = "request" /\ c.job # None
    /\ calls' = calls \ {c}
    /\ \/ /\ c.id \in DOMAIN store.requests
          /\ store' = LET request == store.requests[c.id]
                     IN  Becomes(c.id, request.status, request.decided, c.job)
          /\ settlers' = settlers \cup {c}
          /\ UNCHANGED <<spent, stuck>>
       \/ /\ c.id \notin DOMAIN store.requests
          /\ UNCHANGED <<store, settlers, spent, stuck>>
       \/ /\ Spend(Fault) /\ UNCHANGED <<store, settlers>>
          /\ stuck' = stuck \cup {<<"request", c.id>>}
    /\ UNCHANGED <<audio, owns, server, jobs, workers, grants, watchers, recovery,
                   ended, late, imports, entitled, owned>>

\* The profile is gone; the failure is saved, or is not either.
RefuseRequest(c) ==
    /\ c.for = "request" /\ c.job = None
    /\ Spend(Fault)
    /\ calls' = calls \ {c}
    /\ \/ /\ store' = IF c.id \notin DOMAIN store.requests THEN store
                      ELSE Becomes(c.id, "failed", store.requests[c.id].decided, None)
          /\ UNCHANGED stuck
       \/ /\ UNCHANGED store
          /\ stuck' = stuck \cup {<<"request", c.id>>}
    /\ UNCHANGED <<audio, owns, server, jobs, workers, grants, watchers, settlers,
                   recovery, ended, late, imports, entitled, owned>>

\* schedule_libation_request_completion: the outcome of the job the request has.
Settle(s) ==
    LET mine == /\ s.id \in DOMAIN store.requests
                /\ store.requests[s.id].status = "approved"
                /\ store.requests[s.id].job = s.job
        outcome == IF jobs[s.job].status = "completed" THEN "completed" ELSE "failed"
    IN
    /\ Terminal(s.job) /\ ~Leaves(s)
    /\ settlers' = settlers \ {s}
    /\ \/ /\ store' = IF mine
                      THEN Becomes(s.id, outcome, store.requests[s.id].decided, s.job)
                      ELSE store
          /\ UNCHANGED <<spent, stuck>>
       \/ /\ mine /\ Spend(Fault) /\ UNCHANGED store
          /\ stuck' = stuck \cup {<<"request", s.id>>}
    /\ UNCHANGED <<audio, owns, server, jobs, calls, workers, grants, watchers,
                   recovery, ended, late, imports, entitled, owned>>

--------------------------------------------------------------------------------
(* The liberate jobs.                                                          *)

SetWorker(j, change) == workers' = [workers EXCEPT ![j] = change]

\* wait_for_library, and once it is there the queue for the Libation lock.
SeeLibrary(j) ==
    /\ workers[j].phase = "waiting"
    /\ server.ready /\ ~Leaves(workers[j])
    /\ SetWorker(j, [workers[j] EXCEPT !.phase = "locking"])
    /\ UNCHANGED <<store, audio, owns, server, jobs, calls, grants, watchers, settlers,
                   recovery, spent, ghosts>>

\* A worker that hears of the shutdown ends without a result, and its guard
\* marks the job failed.
LeaveForShutdown(j) ==
    /\ workers[j].phase = "waiting" /\ Leaves(workers[j])
    /\ workers' = Without(workers, j)
    /\ Finish(j, "failed", FALSE)
    /\ UNCHANGED <<store, audio, owns, server, calls, grants, watchers, settlers,
                   recovery, spent, late, stuck, imports, entitled, owned>>

\* Only a profile that owns the title may be replaced by the others that do.
Candidates(p) == {p} \cup (IF p \in owns THEN owns ELSE {})

\* "Download everything" scans every profile and tries all it owns.
EveryOwner == owns

TakeLock(j) ==
    /\ workers[j].phase = "locking" /\ server.lock = None
    /\ server' = [server EXCEPT !.lock = j]
    /\ jobs' = [jobs EXCEPT ![j].status = "running"]
    /\ SetWorker(j, [phase |-> "trying", from |-> None, heard |-> workers[j].heard,
                     left |-> IF jobs[j].kind = "liberate"
                              THEN Candidates(jobs[j].profile) ELSE EveryOwner])
    /\ UNCHANGED <<store, audio, owns, calls, grants, watchers, settlers, recovery,
                   spent, ghosts>>

\* What if only the catalogue told what is already here?
KnownInCatalogue == server.has

AlreadyHere == server.has \/ audio

After(j) == IF jobs[j].kind = "liberate" THEN "rescanning" ELSE "trying"

\* The job's own profile comes first.
Nexts(j) ==
    LET left == workers[j].left
    IN  IF jobs[j].profile \in left THEN {jobs[j].profile} ELSE left

\* download_title: nothing to do for a title that is here; else Libation runs.
Look(j) ==
    LET w == workers[j] IN
    /\ w.phase = "trying"
    /\ \E p \in Nexts(j) :
         SetWorker(j, [phase |-> IF AlreadyHere THEN After(j) ELSE "fetching",
                       from |-> p, left |-> w.left \ {p}, heard |-> w.heard])
    /\ UNCHANGED <<store, audio, owns, server, jobs, calls, grants, watchers, settlers,
                   recovery, spent, ghosts>>

\* Libation fails, or is stopped for its budget, and nothing is kept; or it ends
\* well and the whole title is put into place, or nothing if it brought none.
Fetch(j) ==
    LET w == workers[j] IN
    /\ w.phase = "fetching"
    /\ \/ /\ w.from \in owns
          /\ audio' = TRUE /\ imports' = imports + 1
          /\ SetWorker(j, [w EXCEPT !.phase = After(j)])
       \/ /\ UNCHANGED <<audio, imports>>
          /\ \E phase \in {"trying", After(j)} : SetWorker(j, [w EXCEPT !.phase = phase])
    /\ UNCHANGED <<store, owns, server, jobs, calls, grants, watchers, settlers,
                   recovery, spent, ended, late, stuck, entitled, owned>>

EndWorker(j) ==
    /\ workers' = Without(workers, j)
    /\ UNCHANGED <<store, audio, owns, calls, grants, watchers, settlers, recovery,
                   spent, late, stuck, imports, entitled, owned>>

Scanned(published) ==
    [server EXCEPT !.ready = TRUE, !.has = audio,
                   !.lock = IF published THEN None ELSE @]

\* try_libation_liberate after a download: success only if the catalogue has the
\* title after a rescan.
RescanFinds(j) ==
    /\ workers[j].phase = "rescanning" /\ audio
    /\ server' = Scanned(TRUE)
    /\ Finish(j, "completed", TRUE)
    /\ EndWorker(j)

\* The title is not there, or the scan failed or was withheld: the next profile.
RescanMisses(j) ==
    /\ workers[j].phase = "rescanning"
    /\ \/ ~audio /\ server' = Scanned(FALSE) /\ UNCHANGED spent
       \/ Spend(Fault) /\ UNCHANGED server
    /\ SetWorker(j, [workers[j] EXCEPT !.phase = "trying"])
    /\ UNCHANGED <<store, audio, owns, jobs, calls, grants, watchers, settlers,
                   recovery, ghosts>>

\* No profile is left.
GiveUp(j) ==
    /\ workers[j].phase = "trying" /\ workers[j].left = {}
    /\ jobs[j].kind = "liberate"
    /\ server' = [server EXCEPT !.lock = None]
    /\ Finish(j, "failed", TRUE)
    /\ EndWorker(j)

\* The job that downloads everything ends with a rescan, which may fail.
FinishAll(j) ==
    /\ workers[j].phase = "trying" /\ workers[j].left = {}
    /\ jobs[j].kind = "all"
    /\ \/ /\ server' = Scanned(TRUE)
          /\ \E status \in {"completed", "failed"} : Finish(j, status, TRUE)
       \/ /\ server' = [server EXCEPT !.lock = None]
          /\ Finish(j, "failed", TRUE)
    /\ EndWorker(j)

--------------------------------------------------------------------------------
(* The grant jobs (schedule_libation_access_grant).                            *)

Grant(j, change) == grants' = [grants EXCEPT ![j] = change]

EndGrant(j, status, own) ==
    /\ Finish(j, status, own)
    /\ grants' = Without(grants, j)

\* The download has an outcome, was stopped, or is forgotten. The wait of a
\* grant ends after JOB_OUTCOME_WAIT_CEILING even if the download has not.
DownloadEnds(j) ==
    LET g == grants[j] IN
    /\ g.phase = "waiting"
    /\ \/ /\ jobs[g.download].status = "completed"
          /\ jobs' = [jobs EXCEPT ![j].status = "running"]
          /\ Grant(j, [g EXCEPT !.phase = "checking"])
          /\ UNCHANGED <<spent, ended>>
       \/ /\ jobs[g.download].status \in {"failed", "forgotten"}
          /\ EndGrant(j, "failed", jobs[g.download].own)
          /\ UNCHANGED spent
       \/ /\ ~Terminal(g.download) /\ Spend(Fault)
          /\ EndGrant(j, "failed", TRUE)
    /\ UNCHANGED <<store, audio, owns, server, calls, workers, watchers, settlers,
                   recovery, late, stuck, imports, entitled, owned>>

\* profile_owns_asin: an existing catalogue match cannot establish ownership.
MayGrant(g) == server.has /\ g.profile \in owns

CheckOwnership(j) ==
    /\ grants[j].phase = "checking"
    /\ IF MayGrant(grants[j])
       THEN /\ Grant(j, [grants[j] EXCEPT !.phase = "granting"])
            /\ UNCHANGED <<jobs, ended>>
       ELSE EndGrant(j, "failed", TRUE)
    /\ UNCHANGED <<store, audio, owns, server, calls, workers, watchers, settlers,
                   recovery, spent, late, stuck, imports, entitled, owned>>

\* grant_user_book_access; or the listing or the save fails.
GrantAccess(j) ==
    /\ grants[j].phase = "granting"
    /\ \/ /\ store' = [store EXCEPT !.access = @ \cup {grants[j].user}]
          /\ EndGrant(j, "completed", TRUE)
          /\ UNCHANGED spent
       \/ /\ Spend(Fault) /\ UNCHANGED store
          /\ EndGrant(j, "failed", TRUE)
    /\ UNCHANGED <<audio, owns, server, calls, workers, watchers, settlers,
                   recovery, late, stuck, imports, entitled, owned>>

--------------------------------------------------------------------------------
(* "Download everything" (start_all_libation_downloads). Its intent is one flag *)
(* and the job that will clear it.                                             *)

AskForAll ==
    /\ ~server.closing /\ Spend(All)
    /\ calls' = calls \cup {[for |-> "all", id |-> 0, profile |-> None, user |-> None,
                             origin |-> "client", job |-> None, download |-> None,
                             heard |-> ~server.closing]}
    /\ UNCHANGED <<store, audio, owns, server, jobs, workers, grants, watchers, settlers,
                   recovery, ghosts>>

\* A job is under way, or Libation is not there: nothing is started.
NothingToStart(c) ==
    /\ c.for = "all"
    /\ ~server.enabled \/ Existing("all", None) # {}
    /\ calls' = calls \ {c}
    /\ UNCHANGED <<store, audio, owns, server, jobs, workers, grants, watchers, settlers,
                   recovery, spent, ghosts>>

StartAll(c) ==
    /\ c.for = "all" /\ server.enabled /\ Existing("all", None) = {}
    /\ calls' = calls \ {c}
    /\ \/ /\ jobs' = Append(jobs, NewJob("all", None, "queued"))
          /\ ended' = ended \ {0}
          /\ store' = [store EXCEPT !.bulk = [on |-> TRUE, job |-> NextJob]]
          /\ \E heard \in Hearing(c) :
               /\ workers' = With(workers, NextJob, Worker(heard))
               /\ watchers' = watchers \cup {Answered(c, NextJob, NextJob, heard)}
          /\ UNCHANGED <<spent, stuck>>
       \/ /\ Spend(Fault)
          /\ stuck' = stuck \cup {<<"all", 0>>}
          /\ jobs' = Append(jobs, NewJob("all", None, "failed"))
          /\ UNCHANGED <<store, workers, watchers, ended>>
    /\ UNCHANGED <<audio, owns, server, grants, settlers, recovery, late, imports, entitled,
                   owned>>

ClearAll(w) ==
    /\ w.for = "all" /\ Terminal(w.job) /\ ~Leaves(w)
    /\ watchers' = watchers \ {w}
    /\ \/ /\ store' = IF store.bulk.job = w.job
                      THEN [store EXCEPT !.bulk = [on |-> FALSE, job |-> None]]
                      ELSE store
          /\ UNCHANGED <<spent, stuck>>
       \/ /\ Spend(Fault) /\ UNCHANGED store
          /\ stuck' = stuck \cup {<<"all", 0>>}
    /\ UNCHANGED <<audio, owns, server, jobs, calls, workers, grants, settlers, recovery,
                   ended, late, imports, entitled, owned>>

--------------------------------------------------------------------------------
(* After a restart (recover).                                                  *)

Recovering(change) == recovery' = [recovery EXCEPT !.phase = change]

Attaching == \E c \in calls : c.origin = "recovery"

\* Copies of the entries; the one accepted first is the next.
Snapshot(ids, f) == {[id |-> i, entry |-> f[i]] : i \in ids}

IsNext(next) == next \in recovery.left /\ \A other \in recovery.left : next.id <= other.id

\* Once the catalogue is there, in the order the intents were accepted in.
RecoverBegin ==
    /\ recovery.phase = "waiting"
    /\ server.ready \/ server.closing
    /\ recovery' =
         IF server.closing \/ ~server.enabled
         THEN [recovery EXCEPT !.phase = "done"]
         ELSE [phase |-> "intents", waits |-> {}, heard |-> TRUE,
               left |-> Snapshot(DOMAIN store.pending, store.pending)]
    /\ UNCHANGED <<store, audio, owns, server, jobs, calls, workers, grants, watchers,
                   settlers, spent, ghosts>>

\* One intent at a time, as it was when recovery began.
RecoverIntent ==
    /\ recovery.phase = "intents" /\ recovery.left # {}
    /\ ~Attaching
    /\ \A j \in recovery.waits : Terminal(j)
    /\ IF recovery.waits # {} /\ server.closing /\ recovery.heard
       THEN Recovering("done") /\ UNCHANGED calls
       ELSE \E next \in recovery.left :
            /\ IsNext(next)
            /\ recovery' = [recovery EXCEPT !.left = @ \ {next}, !.waits = {},
                                            !.heard = ~server.closing]
            /\ calls' = calls \cup {Dispatch(next.id, next.entry, "recovery")}
    /\ UNCHANGED <<store, audio, owns, server, jobs, workers, grants, watchers,
                   settlers, spent, ghosts>>

ApprovedRequests ==
    {r \in DOMAIN store.requests : store.requests[r].status = "approved"}

\* What if only requests without a job were taken up, as they are when repeated?
ForgottenRequests == {}

Interrupted == ApprovedRequests

RecoverRequests ==
    /\ recovery.phase = "intents" /\ recovery.left = {}
    /\ ~Attaching
    /\ \A j \in recovery.waits : Terminal(j)
    /\ recovery' =
         IF recovery.waits # {} /\ server.closing /\ recovery.heard
         THEN [recovery EXCEPT !.phase = "done"]
         ELSE [recovery EXCEPT !.phase = "requests", !.waits = {},
                               !.left = Snapshot(Interrupted, store.requests)]
    /\ UNCHANGED <<store, audio, owns, server, jobs, calls, workers, grants, watchers,
                   settlers, spent, ghosts>>

RecoverRequest ==
    /\ recovery.phase = "requests"
    /\ ~Attaching
    /\ \E next \in recovery.left :
       /\ IsNext(next)
       /\ recovery' = [recovery EXCEPT !.left = @ \ {next}]
       /\ calls' = calls \cup {Attach(next.id, next.entry, "recovery")}
    /\ UNCHANGED <<store, audio, owns, server, jobs, workers, grants, watchers,
                   settlers, spent, ghosts>>

RecoverAll ==
    /\ recovery.phase = "requests" /\ recovery.left = {}
    /\ ~Attaching
    /\ Recovering("done")
    /\ calls' = IF ~store.bulk.on THEN calls
                ELSE calls \cup {[for |-> "all", id |-> 0, profile |-> None,
                                  user |-> None, origin |-> "recovery", job |-> None,
                                  download |-> None, heard |-> ~server.closing]}
    /\ UNCHANGED <<store, audio, owns, server, jobs, workers, grants, watchers,
                   settlers, spent, ghosts>>

--------------------------------------------------------------------------------
(* The environment and the process.                                            *)

\* The first scan after a start, or a later one.
CatalogueIsScanned ==
    /\ ~server.ready \/ server.has # audio
    /\ server' = [server EXCEPT !.ready = TRUE, !.has = audio]
    /\ UNCHANGED <<store, audio, owns, jobs, tasks, spent, ghosts>>

\* A purchase, or the end of a loan.
OwnershipChanges(p) ==
    /\ Spend(Own)
    /\ owns' = IF p \in owns THEN owns \ {p} ELSE owns \cup {p}
    /\ owned' = owned \cup {p}
    /\ UNCHANGED <<store, audio, memory, ended, late, stuck, imports, entitled>>

AnnounceShutdown ==
    /\ ~server.closing /\ Spend(Stop)
    /\ server' = [server EXCEPT !.closing = TRUE]
    /\ UNCHANGED <<store, audio, owns, jobs, tasks, ghosts>>

\* What a start forgets about approved requests
\* (recover_interrupted_libation_requests).
WithoutJobs(requests) ==
    [r \in DOMAIN requests |->
        IF requests[r].status = "approved" THEN [requests[r] EXCEPT !.job = None]
        ELSE requests[r]]

AtStart == [phase |-> "waiting", left |-> {}, waits |-> {}, heard |-> TRUE]

\* The process ends, with or without notice, and is started again; Libation may
\* not be found this time.
Restart ==
    /\ \E enabled \in BOOLEAN :
         LET costs == (IF server.closing THEN {} ELSE {Stop})
                      \cup (IF enabled THEN {} ELSE {Fault}) IN
         /\ \A k \in costs : spent.used[k] < spent.most[k]
         /\ spent' = [spent EXCEPT
                        !.used = [k \in 1..8 |-> IF k \in costs THEN @[k] + 1 ELSE @[k]]]
         /\ server' = [enabled |-> enabled, ready |-> FALSE, has |-> FALSE,
                       closing |-> FALSE, lock |-> None]
    /\ store' = [store EXCEPT !.requests = WithoutJobs(@)]
    /\ jobs' = <<>> /\ calls' = {} /\ workers' = <<>> /\ grants' = <<>>
    /\ watchers' = {} /\ settlers' = {} /\ recovery' = AtStart
    /\ stuck' = {}
    /\ UNCHANGED <<audio, owns, ended, late, imports, entitled, owned>>

--------------------------------------------------------------------------------

\* A server that has been up for a while, with nothing asked of it yet.
LibationInit ==
    /\ store = [pending |-> <<>>, requests |-> <<>>, bulk |-> [on |-> FALSE, job |-> None],
                seen |-> Profiles \ Imported, access |-> {}]
    /\ audio = FALSE
    /\ server = [enabled |-> TRUE, ready |-> TRUE, has |-> FALSE, closing |-> FALSE,
                 lock |-> None]
    /\ jobs = <<>> /\ calls = {} /\ workers = <<>> /\ grants = <<>>
    /\ watchers = {} /\ settlers = {} /\ recovery = [AtStart EXCEPT !.phase = "done"]
    /\ \E bound \in Bounds :
         /\ spent = [used |-> [k \in 1..8 |-> 0], most |-> bound.most]
         /\ owns = bound.owners
    /\ ended = {0} /\ late = {} /\ stuck = {}
    /\ imports = 0 /\ entitled = {} /\ owned = owns

People ==
    \/ \E by \in Direct \cup {Admin}, p \in Profiles : StartDownload(by, p)
    \/ \E u \in Asking, p \in Profiles : FileRequest(u, p)
    \/ \E r \in DOMAIN store.requests : RepeatRequest(r) \/ Approve(r) \/ Reject(r)
    \/ \E p \in Profiles : QueuePurchase(p) \/ OwnershipChanges(p)
    \/ AskForAll

CallStep(c) ==
    \/ GrantOnly(c)
    \/ StartLiberate(c)
    \/ LinkIntent(c)
    \/ RefuseIntent(c)
    \/ LinkRequest(c)
    \/ RefuseRequest(c)
    \/ NothingToStart(c)
    \/ StartAll(c)

WorkerStep(j) ==
    \/ SeeLibrary(j)
    \/ LeaveForShutdown(j)
    \/ TakeLock(j)
    \/ Look(j)
    \/ Fetch(j)
    \/ RescanFinds(j)
    \/ RescanMisses(j)
    \/ GiveUp(j)
    \/ FinishAll(j)

GrantStep(j) == DownloadEnds(j) \/ CheckOwnership(j) \/ GrantAccess(j)

WatcherStep(w) == RemoveIntent(w) \/ ClearAll(w)

RecoveryStep ==
    \/ RecoverBegin
    \/ RecoverIntent
    \/ RecoverRequests
    \/ RecoverRequest
    \/ RecoverAll

LibationNext ==
    \/ People
    \/ \E c \in calls : CallStep(c) \/ DropCall(c)
    \/ \E j \in DOMAIN workers : WorkerStep(j)
    \/ \E j \in DOMAIN grants : GrantStep(j)
    \/ \E w \in watchers : WatcherStep(w)
    \/ \E s \in settlers : Settle(s)
    \/ \E j \in DOMAIN jobs : Forget(j)
    \/ RecoveryStep
    \/ CatalogueIsScanned
    \/ AnnounceShutdown
    \/ Restart

\* Every task is run, a scan follows a start, and a process that was told to stop
\* does and is started again.
LibationProgress ==
    \/ \E c \in calls : CallStep(c)
    \/ \E j \in DOMAIN workers : WorkerStep(j)
    \/ \E j \in DOMAIN grants : GrantStep(j)
    \/ \E w \in watchers : WatcherStep(w)
    \/ \E s \in settlers : Settle(s)
    \/ RecoveryStep
    \/ CatalogueIsScanned
    \/ server.closing /\ Restart

LibationSpec == LibationInit /\ [][LibationNext]_vars /\ WF_vars(LibationProgress)

--------------------------------------------------------------------------------
(* What the server promises.                                                   *)

Users == Asking \cup Direct \cup {Admin}

Intents == 1..(NextIntent - 1)

\* An intent that was accepted is kept, over restarts and failed saves, until the
\* job whose identity the reader was given has an outcome of its own: it was not
\* merely stopped (docs/api.md:404). Excepted is an intent that was handed to a
\* job of the same title after the shutdown was announced.
IntentsAreKept ==
    /\ Intents \subseteq DOMAIN store.pending \cup ended \cup late
    /\ 0 \notin ended => store.bulk.on

AccessIsEarned == \A u \in store.access : \E p \in owned : <<u, p>> \in entitled

CompletedIsGranted ==
    \A r \in DOMAIN store.requests :
        store.requests[r].status = "completed" => store.requests[r].user \in store.access

\* A request is completed only when its reader has the book; and nobody has it
\* who did not start or was not allowed a download from an account that owned it.
RequestsAreTrue == AccessIsEarned /\ CompletedIsGranted

\* Whatever is repeated, recovered or tried from another account, the title is
\* put into the library once.
TitleIsImportedOnce == imports <= 1

Unattended == {j \in DOMAIN jobs : /\ jobs[j].kind = "liberate"
                                   /\ ~Terminal(j) /\ j \notin DOMAIN workers}

Excused(what) == ~server.enabled \/ what \in stuck \/ Unattended # {}

Settled ==
    /\ \A i \in DOMAIN store.pending : Excused(<<"intent", i>>)
    /\ \A r \in ApprovedRequests : Excused(<<"request", r>>)
    /\ store.bulk.on => Excused(<<"all", 0>>)

\* However often the server stops and whatever fails, it comes to rest with no
\* intent and no approved request left, unless Libation is not there, or the end
\* of one could not be saved, or was dropped with its call.
IntentsSettle == []<>Settled

================================================================================
