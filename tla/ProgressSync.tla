---------------------------- MODULE ProgressSync ----------------------------
(***************************************************************************)
(* Several devices of one listener and the server they share a book's      *)
(* place through: the save queue, the durable journal, the reconnect       *)
(* replay and the foreground adoption of useProgressSync.ts and            *)
(* useLibrary.ts against the handler of ProgressServer.                    *)
(*                                                                         *)
(* A request, once sent, may be handled at any later time, any number of   *)
(* times, or never; a reply may be lost; a device may be killed between    *)
(* any two steps and keeps what it had journaled.                          *)
(*                                                                         *)
(* Each JavaScript turn between two awaits is one action.                  *)
(***************************************************************************)
EXTENDS ProgressServer, ProgressClient, FiniteSets

CONSTANTS
  SeekTargets,  \* where deliberate seeks go
  Bounds,       \* model bound: how many edits, failed or timed out calls and
                \* kills there are, all devices: one of these combinations
  MaxCalls      \* model bound: library loads, replays and adoptions in flight
                \* at once, all devices

\* What a device keeps of a book: its own copy of the place, and a deliberate
\* seek not yet answered.
Copy ==
  [status : {"pending", "synced"}, pos : Position, edit : Nat, rev : Nat,
   base : Nat, acked : Nat \cup {None}, rec : Recording \cup {None},
   owned : BOOLEAN]

Intent == [at : Nat, target : Position]

ASSUME SyncAssumption ==
  /\ SeekTargets \subseteq Position
  /\ Bounds \subseteq Nat \X Nat \X Nat
  /\ MaxCalls \in Nat
  /\ None \notin Copy \cup Intent \cup Recording

VARIABLES
  disk,      \* per device, what survives a kill: the journal and the intent
  mem,       \* per device, the running app's refs and its calls in flight
  requests,  \* every save request ever sent
  clock,     \* per device, its own clock: the number of edits it made
  failures, restarts,
  \* History, read by the properties only:
  stored,    \* per device, the latest edit the server stored
  taken      \* per device, the latest revision whose place it took up

serverVars  == <<row, backups, answer, displaced>>
deviceVars  == <<disk, mem, clock>>
historyVars == <<stored, taken>>
syncVars == <<serverVars, deviceVars, historyVars, requests, failures, restarts>>

\* A freshly started app: nothing open, nothing in flight.
StartedApp ==
  [open |-> FALSE, head |-> 0,
   seekGen |-> 0, jGen |-> 0, ackGen |-> 0,  \* seek generations: made, journaled, acknowledged
   target |-> None,      \* intentionalSeekTargetRef
   ackPos |-> None,      \* acknowledgedServerPositionRef
   shelf |-> None,       \* the revision serverRevisionFromSummary reads
   overruled |-> FALSE,  \* overruledSaveRef holds an entry
   queue |-> None, sending |-> None,         \* queuedProgressSaves, the drain
   listing |-> None, replay |-> None, adopting |-> None]

SyncInit ==
  /\ Init
  /\ disk = [d \in Device |-> [journal |-> None, intent |-> None]]
  /\ mem = [d \in Device |-> StartedApp]
  /\ requests = {}
  /\ clock = [d \in Device |-> 0]
  /\ failures = 0 /\ restarts = 0
  /\ stored = [d \in Device |-> 0]
  /\ taken = [d \in Device |-> 0]

\* Edits are counted one by one: a device made as many as its clock shows.
Edits == Cardinality(UNION {{d} \X (1 .. clock[d]) : d \in Device})

Within(edits, failed, restarted) ==
  \E bound \in Bounds : edits <= bound[1] /\ failed <= bound[2] /\ restarted <= bound[3]

MayAct == Within(Edits + 1, failures, restarts)
MayFail == Within(Edits, failures + 1, restarts)
MayRestart == Within(Edits, failures, restarts + 1)

MayCall ==
  Cardinality({call \in Device \X {"listing", "replay", "adopting"} :
                 mem[call[1]][call[2]] # None}) < MaxCalls

Raise(marks, d, mark) == [marks EXCEPT ![d] = Larger(@, mark)]

-----------------------------------------------------------------------------
(* persistProgress.                                                        *)

HasNewSeek(app) == app.seekGen > Larger(app.ackGen, app.jGen)

SaveEntry(app, copy, intent) ==
  LET authorized == IntentAuthorizes(intent, copy)
  IN  [copy |-> copy, gen |-> app.seekGen,
       intent |-> IF authorized THEN intent.at ELSE None,
       regression |-> \/ app.queue # None /\ app.queue.regression
                      \/ authorized /\ FlagsRegression(intent.target, app.ackPos)
                      \/ FlagsRegression(app.target, app.ackPos)]

\* The journal and the queue both take the new copy; only a seek not yet
\* journaled may build on the newest revision known and clears the mark of an
\* earlier refusal.
Persist(d, app, intent, at) ==
  LET new  == HasNewSeek(app)
      copy == PendingCopy(app.head, at, disk[d].journal, app.shelf, new, <<d, at>>)
  IN  /\ disk' = [disk EXCEPT ![d] = [journal |-> copy, intent |-> intent]]
      /\ mem' = [mem EXCEPT ![d] =
           [app EXCEPT !.queue = SaveEntry(app, copy, intent),
                       !.shelf = copy.acked,
                       !.jGen = IF new THEN app.seekGen ELSE @,
                       !.overruled = @ /\ ~new]]
      /\ taken' = IF new /\ copy.acked # None
                  THEN Raise(taken, d, copy.acked) ELSE taken

\* A tick of playback, a pause, or the page being hidden: the place moves on
\* or is stamped again.  The first save after an opening seek belongs to it.
Listen(d, place) ==
  LET app   == [mem[d] EXCEPT !.head = place]
      opens == HasNewSeek(app)
      at    == IF opens THEN clock[d] ELSE clock[d] + 1
  IN  /\ app.open
      /\ place \in mem[d].head .. Smaller(mem[d].head + 1, BookEnd)
      /\ opens \/ MayAct
      /\ clock' = [clock EXCEPT ![d] = at]
      /\ Persist(d, app, disk[d].intent, at)
      /\ UNCHANGED <<serverVars, stored, requests, failures, restarts>>

\* A deliberate seek.  In the open book it is saved at once; from the shelf
\* it opens the book as an explicit session, saved by the first event that
\* follows.
Seek(d, place) ==
  LET at  == clock[d] + 1
      app == [mem[d] EXCEPT !.open = TRUE, !.head = place, !.target = place,
                            !.seekGen = @ + 1]
      intent == [at |-> at, target |-> place]
  IN  /\ MayAct
      /\ clock' = [clock EXCEPT ![d] = at]
      /\ IF mem[d].open THEN Persist(d, app, intent, at)
         ELSE /\ disk' = [disk EXCEPT ![d].intent = intent]
              /\ mem' = [mem EXCEPT ![d] = app]
              /\ UNCHANGED taken
      /\ UNCHANGED <<serverVars, stored, requests, failures, restarts>>

-----------------------------------------------------------------------------
(* The save queue's drain and the server's side of a save.                 *)

CheckpointOf(copy, seek, regression) ==
  [pos |-> copy.pos, base |-> copy.base, rec |-> copy.rec,
   seek |-> seek, regression |-> regression, at |-> None, sent |-> None]

Request(d, copy, seek, regression) ==
  [dev |-> d, edit |-> copy.edit, cp |-> CheckpointOf(copy, seek, regression)]

StillIntended(d, at) ==
  at # None /\ disk[d].intent # None /\ disk[d].intent.at = at

StartSave(d) ==
  LET app   == mem[d]
      entry == app.queue
      seek  == StillIntended(d, entry.intent) \/ entry.gen > app.ackGen
      r     == Request(d, entry.copy, seek, entry.regression /\ seek)
  IN  /\ entry # None
      /\ app.sending = None
      /\ mem' = [mem EXCEPT ![d].queue = None,
                            ![d].sending = [entry |-> entry, request |-> r,
                                            reply |-> None]]
      /\ requests' = requests \cup {r}
      /\ UNCHANGED <<serverVars, historyVars, disk, clock, failures, restarts>>

\* The reply to a call still waited for.
Deliver(call, r, reply) ==
  IF call # None /\ call.request = r /\ call.reply = None
  THEN [call EXCEPT !.reply = reply] ELSE call

HandleSave(r, now) ==
  /\ r \in requests
  /\ ApplyCheckpoint(r.cp, now)
  /\ mem' = [mem EXCEPT ![r.dev] =
       LET app   == mem[r.dev]
           reply == [row |-> row', accepted |-> IsAccepted(row, row', r.cp)]
       IN  [app EXCEPT !.sending = Deliver(app.sending, r, reply),
                       !.replay  = Deliver(app.replay, r, reply)]]
  /\ stored' = IF row' # row THEN Raise(stored, r.dev, r.edit) ELSE stored
  /\ UNCHANGED <<answer, disk, clock, taken, requests, failures, restarts>>

\* storeCanonicalServerProgress with an attempt, and the drain's own check: a
\* reply replaces the journal it was sent from; a later journal survives it,
\* rebased if the save was accepted.
Reconcile(app, journal, attempted, reply) ==
  LET wins    == ReplyWins(journal, attempted)
      kept    == Rebased(journal, attempted, reply)
      stores  == wins \/ kept # journal
      settled == IF wins THEN CanonicalOf(reply, attempted, journal) ELSE kept
  IN  [journal |-> settled,
       app |-> [app EXCEPT
         !.queue = IF wins \/ ~stores \/ @ = None THEN @
                   ELSE [@ EXCEPT !.copy = Rebased(app.queue.copy, attempted, reply)],
         !.shelf = IF stores THEN settled.acked ELSE @,
         !.ackPos = IF wins THEN reply.row.pos ELSE @,
         !.overruled = @ \/ (wins /\ ~reply.accepted)]]

\* acknowledgeProgressSeekIntent
Acknowledged(intent, at) ==
  IF at # None /\ intent # None /\ intent.at = at THEN None ELSE intent

Took(d, reply) ==
  IF reply.accepted THEN Raise(taken, d, reply.row.rev) ELSE taken

SaveReturns(d) ==
  LET call  == mem[d].sending
      entry == call.entry
      after == Reconcile(mem[d], disk[d].journal, entry.copy, call.reply)
  IN  /\ call # None
      /\ call.reply # None
      /\ disk' = [disk EXCEPT ![d] =
           [journal |-> after.journal,
            intent |-> Acknowledged(@.intent, entry.intent)]]
      /\ mem' = [mem EXCEPT ![d] =
           [after.app EXCEPT
              !.sending = None,
              !.ackPos = call.reply.row.pos,
              !.ackGen = Larger(@, entry.gen),
              !.overruled = @ \/ (/\ ReplyWins(disk[d].journal, entry.copy)
                                  /\ Apart(entry.copy.pos, call.reply.row.pos))]]
      /\ taken' = Took(d, call.reply)
      /\ UNCHANGED <<serverVars, stored, clock, requests, failures, restarts>>

\* The call fails or times out, whether or not the server got the request.
SaveFails(d) ==
  /\ mem[d].sending # None
  /\ MayFail
  /\ failures' = failures + 1
  /\ mem' = [mem EXCEPT ![d].sending = None]
  /\ UNCHANGED <<serverVars, historyVars, disk, clock, requests, restarts>>

-----------------------------------------------------------------------------
(* loadBooks: the library listing and the replay of a pending journal.     *)

RequestListing(d) ==
  /\ mem[d].listing = None
  /\ MayCall
  /\ mem' = [mem EXCEPT ![d].listing = [row |-> row]]
  /\ UNCHANGED <<serverVars, historyVars, disk, clock, requests, failures, restarts>>

ListingArrives(d) ==
  LET listed  == mem[d].listing.row
      journal == disk[d].journal
      intent  == disk[d].intent
      app     == [mem[d] EXCEPT !.listing = None,
                    !.shelf = IF listed = None THEN None ELSE listed.rev]
      seek    == IntentAuthorizes(intent, journal)
      r == Request(d, journal, seek,
             seek /\ FlagsRegression(intent.target,
                       IF listed = None THEN None ELSE listed.pos))
  IN  /\ mem[d].listing # None
      /\ mem[d].replay = None  \* a second replay waits for the first
      /\ IF NeedsSync(journal, listed)
         THEN /\ requests' = requests \cup {r}
              /\ mem' = [mem EXCEPT ![d] = [app EXCEPT !.replay =
                   [attempted |-> journal, request |-> r, reply |-> None,
                    intent |-> IF seek THEN intent.at ELSE None]]]
              /\ UNCHANGED disk
         ELSE /\ mem' = [mem EXCEPT ![d] = app]
              /\ disk' = [disk EXCEPT ![d].intent =
                   IF journal # None /\ listed # None /\ IntentAuthorizes(@, journal)
                   THEN None ELSE @]
              /\ UNCHANGED requests
      /\ UNCHANGED <<serverVars, historyVars, clock, failures, restarts>>

ReplayReturns(d) ==
  LET call  == mem[d].replay
      after == Reconcile(mem[d], disk[d].journal, call.attempted, call.reply)
  IN  /\ call # None
      /\ call.reply # None
      /\ disk' = [disk EXCEPT ![d] =
           [journal |-> after.journal,
            intent |-> Acknowledged(@.intent, call.intent)]]
      /\ mem' = [mem EXCEPT ![d] = [after.app EXCEPT !.replay = None]]
      /\ taken' = Took(d, call.reply)
      /\ UNCHANGED <<serverVars, stored, clock, requests, failures, restarts>>

ReplayFails(d) ==
  /\ mem[d].replay # None
  /\ MayFail
  /\ failures' = failures + 1
  /\ mem' = [mem EXCEPT ![d].replay = None]
  /\ UNCHANGED <<serverVars, historyVars, disk, clock, requests, restarts>>

-----------------------------------------------------------------------------
(* adoptNewerServerProgress: an idle, paused session returning to the      *)
(* foreground asks for the server's place.                                 *)

\* progressMutationVersion and playbackActionVersion: any save or action since.
Version(d) == <<clock[d], mem[d].jGen>>

FetchForAdoption(d) ==
  LET app == mem[d]
  IN  /\ app.open
      /\ app.queue = None /\ app.sending = None
      /\ app.adopting = None
      /\ MayCall
      /\ row # None
      /\ mem' = [mem EXCEPT ![d].adopting = [row |-> row, since |-> Version(d)]]
      /\ UNCHANGED <<serverVars, historyVars, disk, clock, requests, failures,
                     restarts>>

\* A refused save is measured by distance alone, so its mark adopts the
\* server's copy outright.
Adopts(d) ==
  /\ mem[d].adopting.since = Version(d)
  /\ mem[d].overruled \/ IsAdoptable(disk[d].journal, mem[d].adopting.row)

FinishAdoption(d) ==
  LET fetched == mem[d].adopting.row
      app     == [mem[d] EXCEPT !.adopting = None]
      journal == disk[d].journal
  IN  /\ mem[d].adopting # None
      /\ IF Adopts(d)
         THEN /\ mem' = [mem EXCEPT ![d] =
                   [app EXCEPT !.head = fetched.pos, !.ackPos = fetched.pos,
                               !.shelf = fetched.rev, !.overruled = FALSE]]
              /\ disk' = [disk EXCEPT ![d].journal =
                   SyncedCopy(fetched, IF @ = None THEN clock[d] ELSE @.edit, FALSE)]
              /\ taken' = Raise(taken, d, fetched.rev)
         ELSE /\ mem' = [mem EXCEPT ![d] = app]
              /\ UNCHANGED <<disk, taken>>
      /\ UNCHANGED <<serverVars, stored, clock, requests, failures, restarts>>

-----------------------------------------------------------------------------
\* The app is killed: what was only in memory is lost, calls included.
Kill(d) ==
  /\ mem[d] # StartedApp
  /\ MayRestart
  /\ restarts' = restarts + 1
  /\ mem' = [mem EXCEPT ![d] = StartedApp]
  /\ UNCHANGED <<serverVars, historyVars, disk, clock, requests, failures>>

SyncNext ==
  \/ \E d \in Device :
       \/ \E place \in Position : Listen(d, place)
       \/ \E place \in SeekTargets : Seek(d, place)
       \/ StartSave(d) \/ SaveReturns(d) \/ SaveFails(d)
       \/ RequestListing(d) \/ ListingArrives(d)
       \/ ReplayReturns(d) \/ ReplayFails(d)
       \/ FetchForAdoption(d) \/ FinishAdoption(d)
       \/ Kill(d)
  \/ \E r \in requests, now \in Clock : HandleSave(r, now)

SyncSpec == SyncInit /\ [][SyncNext]_syncVars

-----------------------------------------------------------------------------
(* Fairness: what the app's own scheduling and the recurring events of its *)
(* life drive.  A queued save is sent and its reply taken, and the player  *)
(* reports its place after a seek (both are bounded work); the shelf is    *)
(* loaded again and again; a paused player returns to the foreground again *)
(* and again, so these two are tried for ever, not only while MaxCalls     *)
(* leaves room (hence SF).  Nothing makes a listener act, a call fail or   *)
(* an app die.                                                             *)

ServeCall(call) ==
  /\ call # None
  /\ call.reply = None
  /\ \E now \in Clock : HandleSave(call.request, now)

Settle(d) == HasNewSeek(mem[d]) /\ Listen(d, mem[d].head)
Save(d)   == Settle(d) \/ StartSave(d) \/ ServeCall(mem[d].sending) \/ SaveReturns(d)
Reload(d) == RequestListing(d) \/ ListingArrives(d)
               \/ ServeCall(mem[d].replay) \/ ReplayReturns(d)
Resume(d) == FetchForAdoption(d) \/ FinishAdoption(d)

FairSyncSpec ==
  /\ SyncSpec
  /\ \A d \in Device : /\ WF_syncVars(Save(d))
                       /\ SF_syncVars(Reload(d))
                       /\ SF_syncVars(Resume(d))

-----------------------------------------------------------------------------
(* Properties.                                                             *)

(* No device replaces another device's place unseen: a save is stored over *)
(* a row some other device wrote only if the saver has taken up that row's *)
(* place: adopted it, or made a deliberate seek knowing of it.  A reply    *)
(* that merely reports a newer revision is not enough                      *)
(* (reliability.ts pendingProgress, docs/api.md baseUpdatedAt).            *)
Writer(stand) == stand.rec.id[1]

NoBlindOverwrite ==
  [][row' # row /\ row # None /\ Writer(row') # Writer(row)
       => row.rev <= taken[Writer(row')]]_syncVars

(* The server never returns to an older edit of the same device, however   *)
(* late, repeated or reordered its requests arrive and whatever other      *)
(* devices wrote in between (decide_progress_checkpoint).                  *)
EditsAreStoredInOrder ==
  [][row' # row => stored'[Writer(row')] > stored[Writer(row')]]_syncVars

(* An edit is not forgotten before the server has decided: a pending       *)
(* journal entry only gives way to a later edit, to the server's answer to *)
(* that very edit, or, when a player that made no seek since a save of its *)
(* was refused returns to the foreground, to the place fetched from the    *)
(* server (storeCanonicalServerProgress, adoptNewerServerProgress).        *)
AnsweredBy(call, edit) ==
  call # None /\ call.reply # None /\ call.request.edit = edit

PendingUntilDecided ==
  [][\A d \in Device :
       LET before == disk[d].journal
           after  == disk'[d].journal
       IN  before # None /\ before.status = "pending" /\ after.status = "synced"
             => \/ AnsweredBy(mem[d].sending, before.edit)
                \/ AnsweredBy(mem[d].replay, before.edit)
                \/ mem[d].adopting # None /\ mem[d].overruled]_syncVars

(* What App.tsx says of the mark of a refused save: "Any newer local       *)
(* checkpoint supersedes it."  So a return to the foreground replaces no   *)
(* checkpoint that is newer than that save and has not been sent yet.      *)
(* (It does: only a deliberate seek removes the mark, persistProgress.)    *)
NewerSupersedesRefused ==
  [][\A d \in Device :
       /\ mem[d].adopting # None /\ mem'[d].adopting = None
       /\ disk[d].journal # None /\ disk[d].journal.status = "pending"
       => disk'[d].journal = disk[d].journal]_syncVars

(* A device nobody competes with is not overruled by its own requests:     *)
(* until an app has been restarted no retry, late arrival or lost reply    *)
(* makes the server keep another place than the one the player is at.      *)
(* (After a restart it may be: an intent recorded since no longer          *)
(* authorizes the replay of a journaled rewind.)                           *)
AloneNeverOverruled ==
  restarts = 0 =>
    \A d \in Device :
      (\A other \in Device \ {d} : clock[other] = 0) => ~mem[d].overruled

(* Whatever was in flight, every edit is eventually answered: no pending   *)
(* journal is stranded by a failed call, a refusal or a reply that came    *)
(* after a later edit.                                                     *)
JournalsSettle ==
  <>[](\A d \in Device :
         disk[d].journal # None => disk[d].journal.status = "synced")

(* Every open player ends within the adoption slack of the server's place. *)
DevicesConverge ==
  <>[](\A d \in Device :
         mem[d].open /\ row # None => ~Apart(mem[d].head, row.pos))

(* Devices that stop moving come to rest: nothing to send, and one place.   *)
DevicesSettle == JournalsSettle /\ DevicesConverge

=============================================================================
