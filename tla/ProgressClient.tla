--------------------------- MODULE ProgressClient ---------------------------
(***************************************************************************)
(* How a client reconciles its own copy of a listening position with the   *)
(* server's: the pure functions of reliability.ts and progressSeekIntent.ts. *)
(*                                                                         *)
(*   copy    [status, pos, edit, rev, base, acked, rec, owned]             *)
(*   saved   [row, accepted], the server's reply to a save, or             *)
(*           accepted = None for a copy that was merely read               *)
(*   intent  [at, target], a deliberate seek not yet answered              *)
(*                                                                         *)
(* edit is localUpdatedAt and at is recordedAt, readings of the device's   *)
(* own clock; at also stands for the intent's random id.  rev is updatedAt *)
(* once the server issued it (0 before); owned says that localRecordingId  *)
(* matches the recording.                                                  *)
(***************************************************************************)
EXTENDS ProgressRules

CONSTANT AdoptSlack  \* FOREGROUND_ADOPTION_SLACK_SECONDS

ASSUME ClientAssumption == AdoptSlack \in Nat

Apart(a, b) == a - b > AdoptSlack \/ b - a > AdoptSlack

\* pendingProgress: a new local edit.  It inherits the base of the copy it
\* follows; only a new deliberate seek may build on the newest revision known.
NewestKnown(prev, shelf) ==
  LET acked == IF prev = None THEN None ELSE prev.acked
  IN  IF acked = None \/ (shelf # None /\ shelf > acked) THEN shelf ELSE acked

InheritedBase(prev, shelf) ==
  IF prev # None THEN prev.base
  ELSE IF shelf # None THEN shelf ELSE 0

NextRecording(prev, fresh) ==
  IF prev # None /\ prev.owned
  THEN [prev.rec EXCEPT !.seq = @ + 1]
  ELSE [id |-> fresh, seq |-> 1]

PendingBase(prev, shelf, newSeek) ==
  LET known == NewestKnown(prev, shelf)
  IN  IF newSeek /\ known # None THEN known ELSE InheritedBase(prev, shelf)

PendingCopy(pos, edit, prev, shelf, newSeek, fresh) ==
  [status |-> "pending", pos |-> pos, edit |-> edit, rev |-> 0,
   base |-> PendingBase(prev, shelf, newSeek),
   acked |-> NewestKnown(prev, shelf),
   rec |-> NextRecording(prev, fresh), owned |-> TRUE]

\* isSameProgressRevision and progressAfterSave: whether the reply to an
\* attempt may replace the journal it finds.
SameCopy(a, b) ==
  /\ a.edit = b.edit /\ a.rev = b.rev
  /\ a.rec = b.rec /\ a.pos = b.pos

\* Mutant of ReplyWins: the reply always replaces the journal.
ReplyAlwaysWins(journal, attempted) == TRUE

ReplyWins(journal, attempted) == journal = None \/ SameCopy(journal, attempted)

\* rebasePendingProgress: an accepted earlier save advances the base of the
\* edits queued behind it.
RebasedRecording(copy, saved) ==
  IF /\ copy.owned
     /\ saved.row.rec # None
     /\ saved.row.rec.id = copy.rec.id
     /\ copy.rec.seq <= saved.row.rec.seq
  THEN [copy.rec EXCEPT !.seq = saved.row.rec.seq + 1]
  ELSE copy.rec

Rebased(copy, attempted, saved) ==
  IF /\ saved.accepted = TRUE
     /\ copy.status = "pending"
     /\ copy.base = attempted.base
  THEN [copy EXCEPT !.base = saved.row.rev, !.acked = saved.row.rev,
                    !.rec = RebasedRecording(copy, saved)]
  ELSE copy

\* syncedProgress: the server's copy, marked with the local edit it answers.
SyncedCopy(row, edit, owned) ==
  [status |-> "synced", pos |-> row.pos, edit |-> edit, rev |-> row.rev,
   base |-> row.rev, acked |-> row.rev, rec |-> row.rec, owned |-> owned]

\* storeCanonicalServerProgress once the reply may be stored.  A refused save
\* heals the journal but keeps the refused base: the player has not moved.
CanonicalOf(saved, attempted, journal) ==
  IF saved.accepted = TRUE
  THEN SyncedCopy(saved.row, attempted.edit,
         attempted.owned /\ saved.row.rec = attempted.rec)
  ELSE [SyncedCopy(saved.row, journal.edit, FALSE)
          EXCEPT !.base = IF saved.accepted = FALSE THEN journal.base ELSE @]

\* progressNeedsSync of a marked journal: whatever the server lists.
NeedsSync(journal, listed) == journal # None /\ journal.status = "pending"

\* Mutants of IsAdoptable: only a place further on is adopted; a pending
\* journal is no obstacle.
IsAdoptableForward(journal, server) ==
  \/ journal = None
  \/ /\ journal.status # "pending"
     /\ server.rev > journal.rev
     /\ server.pos - journal.pos > AdoptSlack

IsAdoptableOverPending(journal, server) ==
  journal = None \/ (server.rev > journal.rev /\ Apart(server.pos, journal.pos))

\* adoptableServerProgress
IsAdoptable(journal, server) ==
  \/ journal = None
  \/ /\ journal.status # "pending"
     /\ server.rev > journal.rev
     /\ Apart(server.pos, journal.pos)

\* shouldFlagIntentionalRegression
FlagsRegression(target, serverPos) ==
  /\ target # None
  /\ \/ target < NearZero
     \/ serverPos # None /\ target < serverPos

\* Mutant of IntentAuthorizes: the copy that the seek itself wrote is too old.
AuthorizesLater(intent, copy) == intent # None /\ copy.edit > intent.at

\* progressSeekOptions: a seek recorded after this copy cannot authorize it. The
\* code compares the time of recording with the copy's updatedAt, which is the
\* device's own while the copy is pending, and the server's once it has synced;
\* here both are the device's, as if the server's clock agreed with it.
IntentAuthorizes(intent, copy) == intent # None /\ copy.edit >= intent.at
=============================================================================
