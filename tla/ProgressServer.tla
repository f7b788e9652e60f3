--------------------------- MODULE ProgressServer ---------------------------
(***************************************************************************)
(* One listener's place in one book, as the server stores it.  Every       *)
(* handler runs its decision inside ProgressStore::update_book, which      *)
(* reads, decides and writes in one transaction, so each handler is one    *)
(* action.  Requests are any the clients can form, in any order: late,     *)
(* repeated, from several devices and from Audiobookshelf clients.         *)
(***************************************************************************)
EXTENDS ProgressRules, Sequences

CONSTANTS
  Clock,         \* readings of the server's wall clock, in no order
  Device,        \* the devices that record playback
  Checkpoints,   \* the checkpoints clients send
  MaxBackups,    \* PROGRESS_BACKUPS_PER_BOOK
  MaxRevision    \* model bound: the server issues no revision above it

Position == 0 .. BookEnd
\* A recording is named by its device and the reading of its clock.
RecordingId == Device \X Nat
Recording == [id : RecordingId, seq : Nat]
Finished  == {"unset", "yes", "no"}

Row == [rev : Nat, pos : Position, finished : Finished,
        rec : Recording \cup {None}]

Checkpoint ==
  [pos : Nat, base : Nat \cup {None}, rec : Recording \cup {None},
   seek : BOOLEAN, regression : BOOLEAN,
   at : Nat \cup {None}, sent : Nat \cup {None}]

ASSUME ServerAssumption ==
  /\ Clock \subseteq Nat
  /\ Checkpoints \subseteq Checkpoint
  /\ MaxBackups \in Nat \ {0}
  /\ MaxRevision \in Nat
  /\ None \notin {"yes", "no"}
  /\ None \notin Row

VARIABLES
  row,       \* the progress table's row for this listener and book, or None
  backups,   \* the progress_backups rows, oldest first
  answer,    \* the reply to the checkpoint just handled, or None
  displaced  \* history: every row whose place a later write moved far back

vars == <<row, backups, answer, displaced>>

Answer == [pos : Nat, rec : Recording \cup {None}, accepted : BOOLEAN]

TypeOK ==
  /\ row \in Row \cup {None}
  /\ backups \in Seq(Row)
  /\ answer \in Answer \cup {None}
  /\ displaced \in Seq(Row)

Init ==
  /\ row = None
  /\ backups = <<>>
  /\ answer = None
  /\ displaced = <<>>

-----------------------------------------------------------------------------
(* update_book with a Store decision: the rollback copy and its retention, *)
(* then the row.                                                           *)

Newest(copies, n) ==
  IF Len(copies) > n THEN SubSeq(copies, Len(copies) - n + 1, Len(copies))
  ELSE copies

Store(saved, backupPrevious) ==
  /\ saved.rev <= MaxRevision
  /\ row' = saved
  /\ backups' = IF backupPrevious /\ row # None
                THEN Newest(Append(backups, row), MaxBackups) ELSE backups
  /\ displaced' = IF row # None /\ row.pos - saved.pos > BackupDrop
                  THEN Append(displaced, row) ELSE displaced

Keep == row # None /\ UNCHANGED <<row, backups, displaced>>

\* PUT /books/{id}/progress: the transaction, then the reply.
ApplyCheckpoint(cp, now) ==
  IF StoresCheckpoint(row, cp, now)
  THEN LET saved == SavedCheckpoint(row, cp, now)
       IN  Store(saved, DropsPlace(row, saved))
  ELSE Keep

UpdateProgress(cp, now) ==
  /\ ApplyCheckpoint(cp, now)
  /\ answer' = [pos |-> cp.pos, rec |-> cp.rec,
                accepted |-> IsAccepted(row, row', cp)]

\* The row a book nobody has played starts from.
FreshRow(now) ==
  [rev |-> NextRevision(None, now), pos |-> 0, finished |-> "unset",
   rec |-> None]

\* PUT /books/{id}/completion.  A status change alone (pos = None) keeps the
\* revision, so that the device's next checkpoint still has a current base; a
\* final position moves it.
CompletedRow(prev, finished, pos, now) ==
  LET kept == IF prev = None THEN FreshRow(now) ELSE prev
  IN  [rev |-> IF pos = None THEN kept.rev ELSE NextRevision(prev, now),
       pos |-> IF pos = None THEN kept.pos ELSE Clamped(pos),
       finished |-> finished, rec |-> None]

\* Mutant of UpdateBookCompletion: the final position takes no rollback copy.
CompletionWithoutCopy(finished, pos, now) ==
  /\ Store(CompletedRow(row, finished, pos, now), FALSE)
  /\ answer' = None

UpdateBookCompletion(finished, pos, now) ==
  /\ LET saved == CompletedRow(row, finished, pos, now)
     IN  Store(saved, DropsPlace(row, saved))
  /\ answer' = None

\* PATCH /abs/api/me/progress/{id}.  A completion-only PATCH keeps the
\* position but issues a new revision; no Audiobookshelf write belongs to a
\* recording.
AbsPlace(prev, pos, finished, at, now) ==
  LET restart == IsAbsRestart(prev, pos, finished)
      rewind  == IsAbsRewind(prev, Clamped(pos), at, now)
  IN  [stores |-> StoresWrite(prev, pos, restart \/ rewind, restart, at, now),
       saved  |-> SavedRow(prev, pos, restart \/ rewind, None, now)]

AbsRow(prev, placed, finished, now) ==
  [rev |-> IF finished = None THEN placed.rev ELSE NextRevision(prev, now),
   pos |-> placed.pos,
   finished |-> IF finished = None THEN placed.finished ELSE finished,
   rec |-> None]

AbsUpdateProgress(pos, finished, at, now) ==
  /\ IF pos = None
     THEN LET kept == IF row = None THEN FreshRow(now) ELSE row
          IN  Store(AbsRow(row, kept, finished, now), FALSE)
     ELSE LET place == AbsPlace(row, pos, finished, at, now)
          IN  IF place.stores
              THEN Store(AbsRow(row, place.saved, finished, now),
                         DropsPlace(row, place.saved))
              ELSE Keep
  /\ answer' = None

\* ProgressStore::remove_user: the listener's account is deleted.
RemoveUser ==
  /\ row # None
  /\ row' = None
  /\ backups' = <<>>
  /\ displaced' = <<>>
  /\ answer' = None

Next ==
  \/ \E cp \in Checkpoints, now \in Clock : UpdateProgress(cp, now)
  \/ \E finished \in {"yes", "no"}, pos \in Position \cup {None},
        now \in Clock : UpdateBookCompletion(finished, pos, now)
  \/ \E pos \in Position \cup {None}, finished \in {"yes", "no", None},
        at \in Clock \cup {None}, now \in Clock :
        AbsUpdateProgress(pos, finished, at, now)
  \/ RemoveUser

Spec == Init /\ [][Next]_vars

-----------------------------------------------------------------------------
(* Properties.                                                             *)

(* The revision orders the places: while the row exists its revision never *)
(* goes back, and no two different places ever carry the same revision in  *)
(* succession, whatever the server's clock does.  A client's base revision *)
(* therefore names the place it saw (progress.rs next_progress_timestamp   *)
(* and the status-only exception of decide_completion_write).              *)
RevisionsOrderPlaces ==
  [][row # None /\ row' # None =>
       /\ row'.rev >= row.rev
       /\ row'.pos # row.pos => row'.rev > row.rev]_vars

(* Every place some write moved far back is still recoverable: the rollback *)
(* copies are exactly the most recent displaced rows, whichever of the      *)
(* three routes displaced them (storage.rs update_book).                    *)
DisplacedPlacesAreKept == backups = Newest(displaced, MaxBackups)

(* An accepted reply means that the server's row is this checkpoint: its    *)
(* place and its recording.  A client advances the base of its queued edits *)
(* on this flag alone (progress.rs update_progress).                        *)
AcceptedMeansStored ==
  answer # None /\ answer.accepted =>
    /\ row # None
    /\ row.pos = Clamped(answer.pos)
    /\ row.rec = answer.rec

(* One recording never runs backwards: while the row belongs to a recording *)
(* its sequence only grows, and a different place under the same recording  *)
(* has a later sequence (reordered and repeated sends of one device).       *)
RecordingsOnlyAdvance ==
  [][/\ row # None /\ row' # None
     /\ row.rec # None /\ row'.rec # None
     /\ row.rec.id = row'.rec.id
     => \/ row'.rec.seq > row.rec.seq
        \/ row'.rec = row.rec /\ row'.pos = row.pos]_vars
=============================================================================
