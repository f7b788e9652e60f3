--------------------------- MODULE ProgressRules ---------------------------
(***************************************************************************)
(* The server's rules for one incoming playback position: what progress.rs *)
(* and abs.rs decide without touching storage.  The stored position is a   *)
(* row (or None) and an incoming one a checkpoint.  Positions are          *)
(* whole-book offsets, so a change of track is a change of position.       *)
(*                                                                         *)
(*   row        [rev, pos, finished, rec]                                  *)
(*   checkpoint [pos, base, rec, seek, regression, at, sent]               *)
(*                                                                         *)
(* rev is updated_at, the revision the server issues; base is              *)
(* base_updated_at, with 0 for the empty string (no server copy observed)  *)
(* and None for a client that sends none; rec is the recording             *)
(* [id, seq]; at and sent are updated_at_ms and sent_at_ms.                *)
(***************************************************************************)
EXTENDS Integers

CONSTANTS
  None,             \* an absent optional value
  BookEnd,          \* the book's length: positions are clamped to it
  RegressionSlack,  \* PROGRESS_AUTOMATIC_REGRESSION_SLACK_SECONDS
  NearZero,         \* PROGRESS_NEAR_ZERO_SECONDS
  BackupDrop,       \* PROGRESS_BACKUP_REGRESSION_SECONDS
  StaleSlack,       \* PROGRESS_STALE_WRITE_SLACK_SECONDS, in clock units
  AbsRewindMax,     \* ABS_INTENTIONAL_REWIND_MAX_SECONDS
  FinishedTail      \* the closing seconds that count as finished

ASSUME RulesAssumption ==
  /\ None \notin Int
  /\ {BookEnd, RegressionSlack, NearZero, BackupDrop, StaleSlack,
      AbsRewindMax, FinishedTail} \subseteq Nat

Smaller(a, b) == IF a <= b THEN a ELSE b
Larger(a, b)  == IF a >= b THEN a ELSE b

\* Mutant of Clamped: a position past the end is stored as it came.
UnclampedPosition(pos) == pos

\* clamped_track_position, taken over the whole book.
Clamped(pos) == Smaller(pos, BookEnd)

-----------------------------------------------------------------------------
(* Revisions and time.                                                     *)

\* Mutant of NextRevision: the server's clock alone issues revisions.
ClockRevision(prev, now) == now

\* A server-issued revision is strictly above the one it replaces, however
\* far back the server's clock has been set.
NextRevision(prev, now) ==
  Larger(now, 1 + IF prev = None THEN 0 ELSE prev.rev)

\* A client timestamp brought into the server's clock domain.
ServerDomainTime(at, sent, now) ==
  IF at = None \/ sent = None THEN at ELSE Larger(0, at + now - sent)

\* A timestamp meaningfully older than the stored revision.  It is capped at
\* the server's clock before it is compared.
IsStale(prev, at, now) ==
  /\ prev # None
  /\ at # None
  /\ Smaller(at, now) + StaleSlack < prev.rev

-----------------------------------------------------------------------------
(* The position guards.                                                    *)

\* Nothing but a flagged write moves the place back.
IsUnintentionalRegression(stored, incoming, flagged) ==
  ~flagged /\ incoming + RegressionSlack < stored

\* A near-zero write over substantial progress: a client that failed to
\* restore its position, unless it says that it is restarting.
IsSuspectReset(stored, incoming, regression) ==
  /\ ~regression
  /\ incoming < NearZero
  /\ stored - incoming > BackupDrop

\* Whether replacing one row by another loses a place worth a rollback copy.
DropsPlace(prev, saved) == prev # None /\ prev.pos - saved.pos > BackupDrop

\* The status Finished of summarize_book_progress: the listener's own word
\* first, then the position.
IsFinished(row) ==
  \/ row.finished = "yes"
  \/ row.finished = "unset" /\ BookEnd - row.pos <= FinishedTail

\* An explicit completion choice outlives later checkpoints, except a
\* deliberate seek to the start of a book marked finished.
CarriedFinished(prev, incoming, seek) ==
  IF \/ prev = None
     \/ seek /\ prev.finished = "yes" /\ incoming < NearZero
  THEN "unset" ELSE prev.finished

-----------------------------------------------------------------------------
(* decide_progress_write: the rules every position write meets.            *)

PlaceIsGuarded(prev, pos, seek, regression) ==
  /\ prev # None
  /\ \/ IsUnintentionalRegression(prev.pos, Clamped(pos), seek \/ regression)
     \/ IsSuspectReset(prev.pos, Clamped(pos), regression)

StoresWrite(prev, pos, seek, regression, at, now) ==
  /\ ~IsStale(prev, at, now)
  /\ ~PlaceIsGuarded(prev, pos, seek, regression)

SavedRow(prev, pos, seek, rec, now) ==
  [rev |-> NextRevision(prev, now), pos |-> Clamped(pos),
   finished |-> CarriedFinished(prev, Clamped(pos), seek), rec |-> rec]

-----------------------------------------------------------------------------
(* decide_progress_checkpoint: the causal order of one recording first,    *)
(* then the revision the checkpoint was based on, then the position rules. *)

SameRecording(prev, cp) ==
  /\ prev # None
  /\ prev.rec # None
  /\ cp.rec # None
  /\ prev.rec.id = cp.rec.id

ContinuesRecording(prev, cp) ==
  SameRecording(prev, cp) /\ cp.rec.seq > prev.rec.seq

IsReplayOfRecording(prev, cp) ==
  SameRecording(prev, cp) /\ cp.rec.seq <= prev.rec.seq

\* Mutant of HasReplacedBase: an empty base is taken for an absent one.
HasReplacedKnownBase(prev, cp) ==
  /\ prev # None
  /\ cp.base \notin {None, 0}
  /\ cp.base # prev.rev
  /\ ~ContinuesRecording(prev, cp)

HasReplacedBase(prev, cp) ==
  /\ prev # None
  /\ cp.base # None
  /\ cp.base # prev.rev
  /\ ~ContinuesRecording(prev, cp)

\* A matching revision or a continued recording orders the write by itself;
\* only a write with neither is ordered by its timestamp.
CheckpointTime(prev, cp, now) ==
  IF cp.base # None \/ ContinuesRecording(prev, cp) THEN None
  ELSE ServerDomainTime(cp.at, cp.sent, now)

\* Mutant of StoresCheckpoint: a repeated or late sequence is not recognised.
StoresReplays(prev, cp, now) ==
  /\ ~HasReplacedBase(prev, cp)
  /\ StoresWrite(prev, cp.pos, cp.seek, cp.regression,
                 CheckpointTime(prev, cp, now), now)

StoresCheckpoint(prev, cp, now) ==
  /\ ~IsReplayOfRecording(prev, cp)
  /\ ~HasReplacedBase(prev, cp)
  /\ StoresWrite(prev, cp.pos, cp.seek, cp.regression,
                 CheckpointTime(prev, cp, now), now)

SavedCheckpoint(prev, cp, now) == SavedRow(prev, cp.pos, cp.seek, cp.rec, now)

\* Mutant of IsAccepted: a retry is recognised by its recording alone.
AcceptsByRecording(prev, saved, cp) ==
  \/ prev = None
  \/ prev.rev # saved.rev
  \/ cp.rec # None /\ cp.rec = saved.rec

\* The accepted flag of the reply: a new revision, or an exact retry of the
\* checkpoint already stored.
IsAccepted(prev, saved, cp) ==
  \/ prev = None
  \/ prev.rev # saved.rev
  \/ /\ cp.rec # None
     /\ cp.rec = saved.rec
     /\ saved.pos = Clamped(cp.pos)

-----------------------------------------------------------------------------
(* decide_abs_progress_write: an Audiobookshelf client sends no flags, so  *)
(* its intentions are read off the write.                                  *)

IsAbsRestart(prev, pos, finished) ==
  /\ prev # None
  /\ finished = "no"
  /\ pos # None
  /\ pos < NearZero
  /\ IsFinished(prev)

IsAbsRewind(prev, pos, at, now) ==
  /\ prev # None
  /\ prev.pos - pos \in 1 .. AbsRewindMax - 1
  /\ ~IsSuspectReset(prev.pos, pos, FALSE)
  /\ ~IsStale(prev, at, now)

=============================================================================
