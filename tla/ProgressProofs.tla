--------------------------- MODULE ProgressProofs ---------------------------
(***************************************************************************)
(* Proofs about ProgressServer and ProgressSync, for every book length,    *)
(* slack, clock, retention and set of devices.                             *)
(*                                                                         *)
(* The server alone: whatever the request, a step either keeps the row,    *)
(* removes it, or stores a row that may follow it (StepShape), with a      *)
(* rollback copy exactly when the place drops.  The type invariant and the *)
(* ordering properties are read off that fact.                             *)
(*                                                                         *)
(* Devices and the server: SyncInv says of every device what it may know   *)
(* of the server (no revision that was not issued), how its edits are      *)
(* numbered (the sequence of a recording follows them) and what is in      *)
(* flight (requests and replies of edits that were sent).  A save is then  *)
(* stored only if it is later than all that was stored of its device       *)
(* (SaveIs), from which both properties are read.                          *)
(***************************************************************************)
EXTENDS ProgressSync, SequenceTheorems, TLAPS

-----------------------------------------------------------------------------
(* The rules.                                                              *)

(* A position of any size is stored inside the book                        *)
(* (clamped_track_position).                                               *)
LEMMA ClampedInBook ==
  ASSUME NEW pos \in Nat
  PROVE  Clamped(pos) \in Position
  BY RulesAssumption DEF Clamped, Smaller, Position

(* The next revision is above the one it replaces whatever the clock says  *)
(* (next_progress_timestamp).                                              *)
LEMMA NextRevisionAdvances ==
  ASSUME NEW prev \in Row \cup {None}, NEW now \in Nat
  PROVE  /\ NextRevision(prev, now) \in Nat
         /\ prev # None => NextRevision(prev, now) > prev.rev
  BY DEF NextRevision, Larger, Row

(* A choice that is carried over is a choice (carried_finished_override).   *)
LEMMA CarriedFinishedTyped ==
  ASSUME NEW prev \in Row \cup {None}, NEW incoming, NEW seek
  PROVE  CarriedFinished(prev, incoming, seek) \in Finished
  BY DEF CarriedFinished, Row, Finished

(* What decide_progress_write would store is a row.                        *)
LEMMA SavedRowTyped ==
  ASSUME NEW prev \in Row \cup {None}, NEW pos \in Nat, NEW seek,
         NEW rec \in Recording \cup {None}, NEW now \in Nat
  PROVE  SavedRow(prev, pos, seek, rec, now) \in Row
  BY ClampedInBook, NextRevisionAdvances, CarriedFinishedTyped
  DEF SavedRow, Row

-----------------------------------------------------------------------------
(* The retention of rollback copies.                                       *)

(* Keeping the newest n of a sequence leaves a sequence.                   *)
LEMMA NewestTyped ==
  ASSUME NEW S, NEW s \in Seq(S), NEW n \in Nat \ {0}
  PROVE  Newest(s, n) \in Seq(S)
  BY DEF Newest

(* Trimming before an append loses nothing that trimming after it keeps:   *)
(* the DELETE of update_book may run on every insert.                      *)
LEMMA NewestOfAppend ==
  ASSUME NEW S, NEW s \in Seq(S), NEW x \in S, NEW n \in Nat \ {0}
  PROVE  Newest(Append(Newest(s, n), x), n) = Newest(Append(s, x), n)
<1>1. CASE Len(s) <= n
  BY <1>1 DEF Newest
<1>2. CASE Len(s) > n
  <2> DEFINE t == SubSeq(s, Len(s) - n + 1, Len(s))
             u == Append(t, x)
             v == Append(s, x)
  <2>1. t \in Seq(S) /\ Len(t) = n /\ \A i \in 1 .. n : t[i] = s[Len(s) - n + i]
    BY <1>2
  <2>2. u \in Seq(S) /\ Len(u) = n + 1
        /\ \A i \in 1 .. n + 1 : u[i] = IF i <= n THEN t[i] ELSE x
    BY <2>1
  <2>3. v \in Seq(S) /\ Len(v) = Len(s) + 1
        /\ \A i \in 1 .. Len(s) + 1 : v[i] = IF i <= Len(s) THEN s[i] ELSE x
    OBVIOUS
  <2>4. Newest(s, n) = t
    BY <1>2 DEF Newest
  <2>5. Newest(u, n) = SubSeq(u, 2, n + 1)
    BY <2>2 DEF Newest
  <2>6. Newest(v, n) = SubSeq(v, Len(s) - n + 2, Len(s) + 1)
    BY <2>3, <1>2 DEF Newest
  <2> HIDE DEF t, u, v
  <2>7. SubSeq(u, 2, n + 1) \in Seq(S) /\ Len(SubSeq(u, 2, n + 1)) = n
        /\ \A i \in 1 .. n : SubSeq(u, 2, n + 1)[i] = u[i + 1]
    BY <2>2
  <2>8. LET w == SubSeq(v, Len(s) - n + 2, Len(s) + 1)
        IN  w \in Seq(S) /\ Len(w) = n
            /\ \A i \in 1 .. n : w[i] = v[Len(s) - n + 1 + i]
    BY <2>3, <1>2
  <2>9. \A i \in 1 .. n : u[i + 1] = v[Len(s) - n + 1 + i]
    <3> TAKE i \in 1 .. n
    <3>1. CASE i < n
      <4>1. i + 1 \in 1 .. n /\ i + 1 \in 1 .. n + 1
        BY <3>1
      <4>2. u[i + 1] = s[Len(s) - n + (i + 1)]
        BY <4>1, <2>1, <2>2
      <4>3. /\ Len(s) - n + 1 + i \in 1 .. Len(s) + 1
            /\ Len(s) - n + 1 + i <= Len(s)
            /\ Len(s) - n + 1 + i = Len(s) - n + (i + 1)
        BY <3>1, <1>2
      <4> QED BY <4>2, <4>3, <2>3
    <3>2. CASE i = n
      BY <3>2, <2>2, <2>3, <1>2
    <3> QED BY <3>1, <3>2
  <2>10. SubSeq(u, 2, n + 1) = SubSeq(v, Len(s) - n + 2, Len(s) + 1)
    BY <2>7, <2>8, <2>9, SeqEqual
  <2> QED BY <2>4, <2>5, <2>6, <2>10 DEF u, v
<1> QED BY <1>1, <1>2
-----------------------------------------------------------------------------
(* The shape of a step.                                                    *)

(* What a stored row owes the row before it.                               *)
MayFollow(prev, saved) ==
  prev # None =>
    /\ saved.rev >= prev.rev
    /\ saved.pos # prev.pos => saved.rev > prev.rev
    /\ prev.rec # None /\ saved.rec # None /\ saved.rec.id = prev.rec.id
         => saved.rec.seq > prev.rec.seq

StepShape ==
  \/ \E saved \in Row :
        /\ MayFollow(row, saved)
        /\ Store(saved, DropsPlace(row, saved))
  \/ Keep
  \/ RemoveUser

(* A checkpoint is stored only over an earlier sequence of its recording,  *)
(* and always under a new revision (decide_progress_checkpoint).           *)
LEMMA CheckpointShape ==
  ASSUME row \in Row \cup {None}, NEW cp \in Checkpoint, NEW now \in Nat,
         ApplyCheckpoint(cp, now)
  PROVE  StepShape
<1>1. CASE StoresCheckpoint(row, cp, now)
  <2> DEFINE saved == SavedCheckpoint(row, cp, now)
  <2>1. cp.pos \in Nat /\ cp.rec \in Recording \cup {None}
    BY DEF Checkpoint
  <2>2. saved \in Row
    BY <2>1, SavedRowTyped DEF SavedCheckpoint
  <2>3. saved.rev = NextRevision(row, now) /\ saved.rec = cp.rec
    BY DEF SavedCheckpoint, SavedRow
  <2>4. row # None => saved.rev > row.rev /\ saved.rev \in Nat /\ row.rev \in Nat
    BY <2>3, NextRevisionAdvances DEF Row
  <2>5. ASSUME row # None, row.rec # None, cp.rec # None, cp.rec.id = row.rec.id
        PROVE  cp.rec.seq > row.rec.seq
    <3>1. ~IsReplayOfRecording(row, cp)
      BY <1>1 DEF StoresCheckpoint
    <3>2. cp.rec.seq \in Nat /\ row.rec.seq \in Nat
      BY <2>1, <2>5 DEF Row, Recording
    <3> QED BY <2>5, <3>1, <3>2 DEF IsReplayOfRecording, SameRecording
  <2>6. MayFollow(row, saved)
    BY <2>3, <2>4, <2>5 DEF MayFollow
  <2>7. Store(saved, DropsPlace(row, saved))
    BY <1>1 DEF ApplyCheckpoint
  <2> QED BY <2>2, <2>6, <2>7 DEF StepShape
<1>2. CASE ~StoresCheckpoint(row, cp, now)
  BY <1>2 DEF ApplyCheckpoint, StepShape
<1> QED BY <1>1, <1>2

(* A completion bypasses the guards but neither the revision nor the       *)
(* rollback copy (decide_completion_write).                                *)
LEMMA CompletionShape ==
  ASSUME row \in Row \cup {None}, NEW finished \in {"yes", "no"},
         NEW pos \in Position \cup {None}, NEW now \in Nat,
         UpdateBookCompletion(finished, pos, now)
  PROVE  StepShape
<1> DEFINE saved == CompletedRow(row, finished, pos, now)
<1>1. /\ NextRevision(row, now) \in Nat
      /\ NextRevision(None, now) \in Nat
      /\ row # None => NextRevision(row, now) > row.rev
  BY NextRevisionAdvances
<1>2. pos # None => Clamped(pos) \in Position
  BY ClampedInBook DEF Position
<1>3. FreshRow(now) \in Row
  BY <1>1, RulesAssumption DEF FreshRow, Row, Position, Finished
<1>4. saved \in Row
  BY <1>1, <1>2, <1>3 DEF CompletedRow, Row, Finished
<1>5. MayFollow(row, saved)
  BY <1>1 DEF MayFollow, CompletedRow, Row
<1>6. Store(saved, DropsPlace(row, saved))
  BY DEF UpdateBookCompletion
<1> QED BY <1>4, <1>5, <1>6 DEF StepShape

(* An Audiobookshelf PATCH issues a revision for every change it makes     *)
(* (abs_update_progress).                                                  *)
LEMMA AbsShape ==
  ASSUME row \in Row \cup {None}, NEW pos \in Position \cup {None},
         NEW finished \in {"yes", "no", None}, NEW at, NEW now \in Nat,
         AbsUpdateProgress(pos, finished, at, now)
  PROVE  StepShape
<1>1. /\ NextRevision(row, now) \in Nat
      /\ NextRevision(None, now) \in Nat
      /\ row # None => NextRevision(row, now) > row.rev
  BY NextRevisionAdvances
<1>2. ASSUME NEW placed \in Row
      PROVE  AbsRow(row, placed, finished, now) \in Row
  BY <1>1, <1>2 DEF AbsRow, Row, Finished
<1>3. CASE pos = None
  <2> DEFINE kept  == IF row = None THEN FreshRow(now) ELSE row
             saved == AbsRow(row, kept, finished, now)
  <2>1. kept \in Row
    BY <1>1, RulesAssumption DEF FreshRow, Row, Position, Finished
  <2>2. saved \in Row
    BY <2>1, <1>2
  <2>3. row # None => saved.pos = row.pos /\ row.pos \in Nat
    BY RulesAssumption DEF AbsRow, Row, Position
  <2>4. MayFollow(row, saved)
    BY <2>3, <1>1 DEF MayFollow, AbsRow, Row
  <2>5. DropsPlace(row, saved) = FALSE
    BY <2>3, RulesAssumption DEF DropsPlace
  <2>6. Store(saved, FALSE)
    BY <1>3 DEF AbsUpdateProgress
  <2> QED BY <2>2, <2>4, <2>5, <2>6 DEF StepShape
<1>4. CASE pos # None
  <2> DEFINE place == AbsPlace(row, pos, finished, at, now)
             saved == AbsRow(row, place.saved, finished, now)
  <2>1. pos \in Nat
    BY <1>4 DEF Position
  <2>2. place.saved \in Row /\ place.saved.rev = NextRevision(row, now)
    BY <2>1, SavedRowTyped DEF AbsPlace, SavedRow
  <2>3. saved \in Row
    BY <2>2, <1>2
  <2>4. MayFollow(row, saved)
    <3> HIDE DEF place
    <3> QED BY <2>2, <1>1 DEF MayFollow, AbsRow, Row
  <2>5. DropsPlace(row, saved) = DropsPlace(row, place.saved)
    BY DEF DropsPlace, AbsRow
  <2>6. place.stores => Store(saved, DropsPlace(row, saved))
    BY <1>4, <2>5 DEF AbsUpdateProgress
  <2>7. ~place.stores => Keep
    BY <1>4 DEF AbsUpdateProgress
  <2> QED BY <2>3, <2>4, <2>6, <2>7 DEF StepShape
<1> QED BY <1>3, <1>4

(* Every step of every handler has that shape.                             *)
LEMMA NextShape ==
  ASSUME TypeOK, Next
  PROVE  StepShape
<1> USE ServerAssumption DEF TypeOK
<1>1. ASSUME NEW cp \in Checkpoints, NEW now \in Clock, UpdateProgress(cp, now)
      PROVE  StepShape
  BY <1>1, CheckpointShape DEF UpdateProgress
<1>2. ASSUME NEW finished \in {"yes", "no"}, NEW pos \in Position \cup {None},
             NEW now \in Clock, UpdateBookCompletion(finished, pos, now)
      PROVE  StepShape
  BY <1>2, CompletionShape
<1>3. ASSUME NEW pos \in Position \cup {None},
             NEW finished \in {"yes", "no", None},
             NEW at \in Clock \cup {None}, NEW now \in Clock,
             AbsUpdateProgress(pos, finished, at, now)
      PROVE  StepShape
  BY <1>3, AbsShape
<1>4. CASE RemoveUser
  BY <1>4 DEF StepShape
<1> QED BY <1>1, <1>2, <1>3, <1>4 DEF Next

-----------------------------------------------------------------------------
(* Type correctness.                                                       *)

(* The reply is typed: it quotes the checkpoint (update_progress).         *)
LEMMA AnswerTyped ==
  ASSUME TypeOK, Next
  PROVE  answer' \in Answer \cup {None}
<1>1. ASSUME NEW cp \in Checkpoints, NEW now \in Clock, UpdateProgress(cp, now)
      PROVE  answer' \in Answer \cup {None}
  <2>1. cp \in Checkpoint
    BY ServerAssumption
  <2>2. IsAccepted(row, row', cp) \in BOOLEAN
    BY DEF IsAccepted
  <2> QED BY <1>1, <2>1, <2>2 DEF UpdateProgress, Answer, Checkpoint
<1> QED
  BY <1>1 DEF Next, UpdateBookCompletion, AbsUpdateProgress, RemoveUser

(* Every value the server stores is a row of the book, whatever requests   *)
(* arrive in whatever order (update_book).                                 *)
THEOREM ServerTypeCorrect == Spec => []TypeOK
<1>1. Init => TypeOK
  BY DEF Init, TypeOK
<1>2. TypeOK /\ [Next]_vars => TypeOK'
  <2> SUFFICES ASSUME TypeOK, [Next]_vars PROVE TypeOK'
    OBVIOUS
  <2>1. CASE Next
    <3>1. StepShape
      BY <2>1, NextShape
    <3>2. ASSUME NEW saved \in Row, Store(saved, DropsPlace(row, saved))
          PROVE  row' \in Row /\ backups' \in Seq(Row) /\ displaced' \in Seq(Row)
      <4>1. row' = saved
        BY <3>2 DEF Store
      <4>2. row # None => /\ Append(backups, row) \in Seq(Row)
                          /\ Append(displaced, row) \in Seq(Row)
        BY DEF TypeOK
      <4>3. row # None => Newest(Append(backups, row), MaxBackups) \in Seq(Row)
        BY <4>2, NewestTyped, ServerAssumption
      <4> QED BY <3>2, <4>1, <4>2, <4>3 DEF Store, TypeOK
    <3>3. /\ row' \in Row \cup {None}
          /\ backups' \in Seq(Row)
          /\ displaced' \in Seq(Row)
      <4>1. CASE Keep
        BY <4>1 DEF Keep, TypeOK
      <4>2. CASE RemoveUser
        BY <4>2 DEF RemoveUser
      <4> QED BY <3>1, <3>2, <4>1, <4>2 DEF StepShape
    <3> QED BY <2>1, <3>3, AnswerTyped DEF TypeOK
  <2>2. CASE UNCHANGED vars
    BY <2>2 DEF vars, TypeOK
  <2> QED BY <2>1, <2>2
<1> QED BY <1>1, <1>2, PTL DEF Spec

-----------------------------------------------------------------------------
(* The order of places.                                                    *)

(* For every clock, a revision names one place: the base revision on which *)
(* refusals rest is sound (next_progress_timestamp,                        *)
(* decide_completion_write).                                               *)
THEOREM RevisionsAreOrdered == Spec => RevisionsOrderPlaces
<1> DEFINE Ordered == row # None /\ row' # None =>
                        /\ row'.rev >= row.rev
                        /\ row'.pos # row.pos => row'.rev > row.rev
<1>1. TypeOK /\ [Next]_vars => [Ordered]_vars
  <2> SUFFICES ASSUME TypeOK, Next PROVE Ordered
    OBVIOUS
  <2>1. StepShape
    BY NextShape
  <2>2. row # None => row.rev \in Nat
    BY DEF TypeOK, Row
  <2> QED BY <2>1, <2>2 DEF StepShape, MayFollow, Store, Keep, RemoveUser
<1> QED BY <1>1, ServerTypeCorrect, PTL DEF Spec, RevisionsOrderPlaces

(* For every interleaving of devices, one recording's stored sequence only *)
(* grows (decide_progress_checkpoint).                                     *)
THEOREM RecordingsAreOrdered == Spec => RecordingsOnlyAdvance
<1> DEFINE Advances == /\ row # None /\ row' # None
                       /\ row.rec # None /\ row'.rec # None
                       /\ row.rec.id = row'.rec.id
                       => \/ row'.rec.seq > row.rec.seq
                          \/ row'.rec = row.rec /\ row'.pos = row.pos
<1>1. TypeOK /\ [Next]_vars => [Advances]_vars
  <2> SUFFICES ASSUME TypeOK, Next PROVE Advances
    OBVIOUS
  <2>1. StepShape
    BY NextShape
  <2> QED BY <2>1 DEF StepShape, MayFollow, Store, Keep, RemoveUser
<1> QED BY <1>1, ServerTypeCorrect, PTL DEF Spec, RecordingsOnlyAdvance

-----------------------------------------------------------------------------
(* Rollback copies.                                                        *)

(* Every displaced place among the last MaxBackups is kept, however many   *)
(* writes follow and whichever route they take (update_book).              *)
THEOREM DisplacedPlacesKept == Spec => []DisplacedPlacesAreKept
<1>1. Init => DisplacedPlacesAreKept
  BY ServerAssumption DEF Init, DisplacedPlacesAreKept, Newest
<1>2. TypeOK /\ DisplacedPlacesAreKept /\ [Next]_vars => DisplacedPlacesAreKept'
  <2> SUFFICES ASSUME TypeOK, DisplacedPlacesAreKept, [Next]_vars
               PROVE  DisplacedPlacesAreKept'
    OBVIOUS
  <2>1. CASE Next
    <3>1. StepShape
      BY <2>1, NextShape
    <3>2. ASSUME NEW saved \in Row, Store(saved, DropsPlace(row, saved))
          PROVE  DisplacedPlacesAreKept'
      <4>1. CASE DropsPlace(row, saved)
        <5>1. row \in Row /\ row # None
          BY <4>1 DEF DropsPlace, TypeOK
        <5>2. backups' = Newest(Append(backups, row), MaxBackups)
          BY <3>2, <4>1, <5>1 DEF Store
        <5>3. displaced' = Append(displaced, row)
          BY <3>2, <4>1, <5>1 DEF Store, DropsPlace
        <5>4. Newest(Append(Newest(displaced, MaxBackups), row), MaxBackups)
                = Newest(Append(displaced, row), MaxBackups)
          BY <5>1, NewestOfAppend, ServerAssumption DEF TypeOK
        <5> QED BY <5>2, <5>3, <5>4 DEF DisplacedPlacesAreKept
      <4>2. CASE ~DropsPlace(row, saved)
        BY <3>2, <4>2 DEF Store, DropsPlace, DisplacedPlacesAreKept
      <4> QED BY <4>1, <4>2
    <3>3. CASE Keep
      BY <3>3 DEF Keep, DisplacedPlacesAreKept
    <3>4. CASE RemoveUser
      BY <3>4, ServerAssumption DEF RemoveUser, DisplacedPlacesAreKept, Newest
    <3> QED BY <3>1, <3>2, <3>3, <3>4 DEF StepShape
  <2>2. CASE UNCHANGED vars
    BY <2>2 DEF vars, DisplacedPlacesAreKept
  <2> QED BY <2>1, <2>2
<1> QED BY <1>1, <1>2, ServerTypeCorrect, PTL DEF Spec

-----------------------------------------------------------------------------
(* Replies.                                                                *)

(* A device may advance the base of its queued edits on an accepted reply: *)
(* the row is its checkpoint, first send or exact retry (update_progress). *)
THEOREM AcceptedRepliesAreStored == Spec => []AcceptedMeansStored
<1>1. Init => AcceptedMeansStored
  BY DEF Init, AcceptedMeansStored
<1>2. TypeOK /\ AcceptedMeansStored /\ [Next]_vars => AcceptedMeansStored'
  <2> SUFFICES ASSUME TypeOK, AcceptedMeansStored, [Next]_vars
               PROVE  AcceptedMeansStored'
    OBVIOUS
  <2>1. ASSUME NEW cp \in Checkpoints, NEW now \in Clock, UpdateProgress(cp, now)
        PROVE  AcceptedMeansStored'
    <3>1. /\ answer'.pos = cp.pos
          /\ answer'.rec = cp.rec
          /\ answer'.accepted = IsAccepted(row, row', cp)
      BY <2>1 DEF UpdateProgress
    <3>2. CASE StoresCheckpoint(row, cp, now)
      <4>1. row' = SavedCheckpoint(row, cp, now)
        BY <2>1, <3>2 DEF UpdateProgress, ApplyCheckpoint, Store
      <4>2. cp \in Checkpoint /\ cp.pos \in Nat /\ cp.rec \in Recording \cup {None}
        BY ServerAssumption DEF Checkpoint
      <4>3. row' \in Row
        BY <4>1, <4>2, SavedRowTyped, ServerAssumption
        DEF SavedCheckpoint, TypeOK
      <4>4. row' # None
        BY <4>3, ServerAssumption
      <4> QED BY <3>1, <4>1, <4>4 DEF AcceptedMeansStored, SavedCheckpoint, SavedRow
    <3>3. CASE ~StoresCheckpoint(row, cp, now)
      <4>1. row' = row /\ row # None
        BY <2>1, <3>3 DEF UpdateProgress, ApplyCheckpoint, Keep
      <4> QED BY <3>1, <4>1 DEF AcceptedMeansStored, IsAccepted
    <3> QED BY <3>2, <3>3
  <2>2. CASE answer' = None
    BY <2>2 DEF AcceptedMeansStored
  <2>3. CASE UNCHANGED vars
    BY <2>3 DEF vars, AcceptedMeansStored
  <2> QED
    BY <2>1, <2>2, <2>3
    DEF Next, UpdateBookCompletion, AbsUpdateProgress, RemoveUser
<1> QED BY <1>1, <1>2, ServerTypeCorrect, PTL DEF Spec

-----------------------------------------------------------------------------
(* Devices and the server: what everyone knows and what was sent.          *)

\* The newest revision there is.
Stand == IF row = None THEN 0 ELSE row.rev

Entry == [copy : Copy, gen : Nat, intent : Nat \cup {None}, regression : BOOLEAN]
SaveRequest == [dev : Device, edit : Nat, cp : Checkpoint]
Reply == [row : Row, accepted : BOOLEAN]
Sending == [entry : Entry, request : SaveRequest, reply : Reply \cup {None}]
Replay == [attempted : Copy, request : SaveRequest, reply : Reply \cup {None},
           intent : Nat \cup {None}]

App ==
  [open : BOOLEAN, head : Position, seekGen : Nat, jGen : Nat, ackGen : Nat,
   target : Position \cup {None}, ackPos : Position \cup {None},
   shelf : Nat \cup {None}, overruled : BOOLEAN,
   queue : Entry \cup {None}, sending : Sending \cup {None},
   listing : [row : Row \cup {None}] \cup {None}, replay : Replay \cup {None},
   adopting : [row : Row, since : Nat \X Nat] \cup {None}]

SyncTypeOK ==
  /\ row \in Row \cup {None}
  /\ disk \in [Device -> [journal : Copy \cup {None}, intent : Intent \cup {None}]]
  /\ mem \in [Device -> App]
  /\ requests \subseteq SaveRequest
  /\ clock \in [Device -> Nat] /\ stored \in [Device -> Nat] /\ taken \in [Device -> Nat]

\* What a copy or a request is told apart by: one edit is of one place in one
\* recording, and within a recording the sequence follows the edits.
Mark(r) == [edit |-> r.edit, rec |-> r.cp.rec, pos |-> r.cp.pos]

InOrder(a, b) ==
  /\ a.edit = b.edit => a.rec = b.rec /\ a.pos = b.pos
  /\ a.edit < b.edit /\ a.rec.id = b.rec.id => a.rec.seq < b.rec.seq

Sent(d) == {r \in requests : r.dev = d}

\* An edit is recorded by its device, at its own time or earlier.
OwnRecording(d, m) ==
  m.rec # None /\ m.rec.id[1] = d /\ m.rec.id[2] <= m.edit

\* An opening seek has taken a number of its own.
Recent(d, edit) ==
  0 < edit /\ edit <= clock[d] /\ (HasNewSeek(mem[d]) => edit < clock[d])

\* Whoever knows of the newest place made the edit after its own stored ones.
Informed(d, edit, base) ==
  /\ base <= taken[d]
  /\ row # None /\ base >= row.rev => edit > stored[d]

\* A copy that nothing was sent after.
Leads(d, c) ==
  /\ OwnRecording(d, c) /\ Recent(d, c.edit)
  /\ \A r \in Sent(d) : r.edit <= c.edit /\ InOrder(Mark(r), c)

RequestInv(d) ==
  \A r \in Sent(d) :
    /\ OwnRecording(d, Mark(r)) /\ Recent(d, r.edit)
    /\ r.cp.base # None /\ Informed(d, r.edit, r.cp.base)
    /\ \A s \in Sent(d) : InOrder(Mark(r), Mark(s))

IsPending(c) == c.status = "pending" /\ c.owned /\ c.rev = 0

JournalInv(d) ==
  LET j == disk[d].journal
  IN  /\ j = None => /\ Sent(d) = {} /\ mem[d].queue = None
                     /\ mem[d].open => HasNewSeek(mem[d])
      /\ j # None => /\ j.base <= taken[d]
                     /\ j.acked # None => j.acked <= Stand
                     /\ j.status = "synced" => j.rev > 0
                     /\ j.status = "pending" => IsPending(j) /\ Informed(d, j.edit, j.base)
                     /\ j.owned => Leads(d, j)

QueueInv(d) ==
  LET q == mem[d].queue
      j == disk[d].journal
  IN  q # None => /\ IsPending(q.copy) /\ Informed(d, q.copy.edit, q.copy.base)
                  /\ Leads(d, q.copy)
                  /\ j # None /\ j.edit = q.copy.edit
                  /\ j.owned => j.rec = q.copy.rec /\ j.pos = q.copy.pos

\* A call in flight carries a copy, and a reply to it is the row of its time.
Carries(d, r, c) ==
  /\ r \in Sent(d) /\ r.edit = c.edit
  /\ r.cp.rec = c.rec /\ r.cp.pos = c.pos /\ r.cp.base = c.base
  /\ IsPending(c)

Answers(r, reply) ==
  reply # None => /\ 0 < reply.row.rev /\ reply.row.rev <= Stand
                  /\ reply.row.rev = Stand => reply.row = row
                  /\ reply.accepted => /\ reply.row.rec = r.cp.rec
                                       /\ reply.row.pos = r.cp.pos

CallInv(d) ==
  /\ LET call == mem[d].sending
     IN  call # None => /\ Carries(d, call.request, call.entry.copy)
                        /\ Answers(call.request, call.reply)
  /\ LET call == mem[d].replay
     IN  call # None => /\ Carries(d, call.request, call.attempted)
                        /\ Answers(call.request, call.reply)

SeekInv(d) ==
  LET app == mem[d]
  IN  /\ app.jGen <= app.seekGen /\ app.ackGen <= app.seekGen
      /\ app.seekGen > 0 => clock[d] > 0
      /\ app.queue # None => app.queue.gen <= app.seekGen
      /\ app.sending # None => app.sending.entry.gen <= app.seekGen

\* Nobody knows of a revision that was not issued.
KnownInv(d) ==
  LET app == mem[d]
  IN  /\ taken[d] <= Stand
      /\ app.shelf # None => app.shelf <= Stand
      /\ app.listing # None /\ app.listing.row # None => app.listing.row.rev <= Stand
      /\ app.adopting # None => 0 < app.adopting.row.rev /\ app.adopting.row.rev <= Stand

DeviceInv(d) ==
  /\ RequestInv(d) /\ JournalInv(d) /\ QueueInv(d) /\ CallInv(d) /\ SeekInv(d) /\ KnownInv(d)

\* The row is the latest edit of a device that was stored.
StoredInv ==
  /\ row = None => \A d \in Device : stored[d] = 0
  /\ row # None => /\ row.rev > 0
                   /\ \E r \in requests : r.edit = stored[r.dev] /\ r.cp.rec = row.rec
  /\ \A d \in Device : stored[d] = 0 \/ \E r \in Sent(d) : r.edit = stored[d]

SyncInv == SyncTypeOK /\ StoredInv /\ \A d \in Device : DeviceInv(d)

NextIn(c, prev, fresh) ==
  IF prev # None /\ prev.owned
  THEN c.rec.id = prev.rec.id /\ c.rec.seq = prev.rec.seq + 1
  ELSE c.rec.id = fresh /\ c.rec.seq = 1

\* A call under way keeps what it carries and what it was answered, as long as the
\* row stands and no request is forgotten.
LEMMA CallKeeps ==
  ASSUME NEW d \in Device, CallInv(d), row' = row, Sent(d) \subseteq Sent(d)',
         mem'[d].sending = mem[d].sending, mem'[d].replay = mem[d].replay
  PROVE  CallInv(d)'
  BY DEF CallInv, Carries, Answers, Stand

\* The app after a local edit is an app.
LEMMA AppWith ==
  ASSUME NEW app \in App, NEW q \in Entry \cup {None}, NEW shelf \in Nat \cup {None},
         NEW gen \in Nat, NEW over \in BOOLEAN
  PROVE  [app EXCEPT !.queue = q, !.shelf = shelf, !.jGen = gen, !.overruled = over] \in App
<1>1. [app EXCEPT !.queue = q, !.shelf = shelf] \in App
  <2>1. PICK first : first = [app EXCEPT !.queue = q]
    OBVIOUS
  <2>2. first \in App
    BY <2>1 DEF App
  <2>3. [first EXCEPT !.shelf = shelf] \in App
    BY <2>2 DEF App
  <2> QED BY <2>1, <2>3
<1>2. PICK mid \in App : mid = [app EXCEPT !.queue = q, !.shelf = shelf]
  BY <1>1
<1>3. [mid EXCEPT !.jGen = gen, !.overruled = over] \in App
  <2>1. PICK next : next = [mid EXCEPT !.jGen = gen]
    OBVIOUS
  <2>2. next \in App
    BY <2>1 DEF App
  <2>3. [next EXCEPT !.overruled = over] \in App
    BY <2>2 DEF App
  <2> QED BY <2>1, <2>3
<1>4. [app EXCEPT !.queue = q, !.shelf = shelf, !.jGen = gen, !.overruled = over]
        = [mid EXCEPT !.jGen = gen, !.overruled = over]
  BY <1>2
<1> QED BY <1>3, <1>4

\* A new edit is a pending copy.
LEMMA PendingCopyIs ==
  ASSUME NEW app \in App, NEW d \in Device, NEW at \in Nat, NEW prev \in Copy \cup {None},
         prev # None /\ prev.owned => prev.rec # None,
         NEW c, c = PendingCopy(app.head, at, prev, app.shelf, HasNewSeek(app), <<d, at>>)
  PROVE  /\ c \in Copy /\ IsPending(c)
         /\ c.rec # None
<1>1. NewestKnown(prev, app.shelf) \in Nat \cup {None}
  BY DEF NewestKnown, Copy, App
<1>2. PendingBase(prev, app.shelf, HasNewSeek(app)) \in Nat
  BY <1>1 DEF PendingBase, InheritedBase, Copy, App
<1>3. NextRecording(prev, <<d, at>>) \in Recording
  BY DEF NextRecording, Copy, Recording, RecordingId
<1>4. c \in Copy /\ c.rec = NextRecording(prev, <<d, at>>) /\ c.acked = NewestKnown(prev, app.shelf)
      /\ c.base = PendingBase(prev, app.shelf, HasNewSeek(app))
      /\ c.status = "pending" /\ c.owned /\ c.rev = 0 /\ c.edit = at /\ c.pos = app.head
  BY <1>1, <1>2, <1>3 DEF PendingCopy, Copy, App
<1>5. c.rec # None
  BY <1>3, <1>4, SyncAssumption
<1> QED BY <1>4, <1>5 DEF IsPending

\* It inherits what the one before it knew, and starts a recording unless it
\* continues one of the device.
LEMMA PendingInherits ==
  ASSUME NEW app \in App, NEW d \in Device, NEW at \in Nat, NEW prev \in Copy \cup {None},
         prev # None /\ prev.owned => prev.rec # None,
         NEW c, c = PendingCopy(app.head, at, prev, app.shelf, HasNewSeek(app), <<d, at>>)
  PROVE  /\ NextIn(c, prev, <<d, at>>)
         /\ c.acked \in {app.shelf, IF prev = None THEN None ELSE prev.acked}
<1>1. c.rec = NextRecording(prev, <<d, at>>) /\ c.acked = NewestKnown(prev, app.shelf)
  BY DEF PendingCopy
<1>2. NextIn(c, prev, <<d, at>>)
  BY <1>1 DEF NextIn, NextRecording, Copy, Recording
<1> QED BY <1>1, <1>2 DEF NewestKnown

\* A copy of the server's row.
LEMMA SyncedCopyIs ==
  ASSUME NEW r \in Row, NEW edit \in Nat, NEW owned \in BOOLEAN,
         NEW c, c = SyncedCopy(r, edit, owned)
  PROVE  /\ c \in Copy /\ c.status = "synced" /\ c.rev = r.rev /\ c.base = r.rev
         /\ c.acked = r.rev /\ c.edit = edit /\ c.owned = owned
         /\ c.pos = r.pos /\ c.rec = r.rec
BY DEF SyncedCopy, Copy, Row

\* What becomes of a journal that a reply replaces.
LEMMA CanonicalIs ==
  ASSUME NEW reply \in Reply, NEW attempted \in Copy, NEW journal \in Copy,
         NEW c, c = CanonicalOf(reply, attempted, journal),
         SameCopy(journal, attempted)
  PROVE  /\ c \in Copy /\ c.status = "synced" /\ c.rev = reply.row.rev
         /\ c.acked = reply.row.rev /\ c.edit = journal.edit
         /\ c.pos = reply.row.pos /\ c.rec = reply.row.rec
         /\ c.base = IF reply.accepted THEN reply.row.rev ELSE journal.base
         /\ c.owned => reply.accepted /\ attempted.owned
<1>1. CASE reply.accepted
  <2>1. c = SyncedCopy(reply.row, attempted.edit,
              attempted.owned /\ reply.row.rec = attempted.rec)
    BY <1>1 DEF CanonicalOf, Reply
  <2> QED BY <1>1, <2>1 DEF SyncedCopy, Copy, Row, Reply, SameCopy
<1>2. CASE ~reply.accepted
  <2>1. c = [SyncedCopy(reply.row, journal.edit, FALSE) EXCEPT !.base = journal.base]
    BY <1>2 DEF CanonicalOf, Reply
  <2> QED BY <1>2, <2>1 DEF SyncedCopy, Copy, Row, Reply
<1> QED BY <1>1, <1>2

\* A rebased edit is the same edit on a newer base, if its sequence is
\* already past the reply's.
IsPast(copy, reply) ==
  copy.owned => /\ copy.rec # None
                /\ copy.status = "pending" /\ reply.accepted
                     => (reply.row.rec # None /\ reply.row.rec.id = copy.rec.id
                           => reply.row.rec.seq < copy.rec.seq)

IsRebasedOn(c, copy, attempted, reply) ==
  /\ reply.accepted /\ copy.status = "pending" /\ copy.base = attempted.base
  /\ c \in Copy /\ c.base = reply.row.rev /\ c.acked = reply.row.rev
  /\ c.status = "pending" /\ c.rev = copy.rev /\ c.owned = copy.owned
  /\ c.edit = copy.edit /\ c.pos = copy.pos /\ c.rec = copy.rec

\* rebasePendingProgress keeps the copy or moves its base, nothing else.
LEMMA RebasedIs ==
  ASSUME NEW reply \in Reply, NEW attempted \in Copy, NEW copy \in Copy,
         NEW c, c = Rebased(copy, attempted, reply), IsPast(copy, reply)
  PROVE  c = copy \/ IsRebasedOn(c, copy, attempted, reply)
<1>1. CASE reply.accepted /\ copy.status = "pending" /\ copy.base = attempted.base
  <2>1. RebasedRecording(copy, reply) = copy.rec
    BY <1>1 DEF IsPast, RebasedRecording, Copy, Row, Reply, Recording
  <2>2. c = [copy EXCEPT !.base = reply.row.rev, !.acked = reply.row.rev, !.rec = copy.rec]
    BY <1>1, <2>1 DEF Rebased
  <2>3. c = [copy EXCEPT !.base = reply.row.rev, !.acked = reply.row.rev]
    BY <2>2 DEF Copy
  <2> QED BY <1>1, <2>3 DEF IsRebasedOn, Copy, Row, Reply
<1>2. CASE ~(reply.accepted /\ copy.status = "pending" /\ copy.base = attempted.base)
  BY <1>2 DEF Rebased, Reply
<1> QED BY <1>1, <1>2

\* The beginning: nothing was sent, and nobody knows anything.
LEMMA SyncBegins == SyncInit => SyncInv
<1> SUFFICES ASSUME SyncInit PROVE SyncInv
  OBVIOUS
<1>1. /\ row = None /\ requests = {}
      /\ disk = [d \in Device |-> [journal |-> None, intent |-> None]]
      /\ mem = [d \in Device |-> StartedApp]
      /\ clock = [d \in Device |-> 0] /\ stored = [d \in Device |-> 0]
      /\ taken = [d \in Device |-> 0]
  BY DEF SyncInit, Init
<1>2. StartedApp \in App
  BY RulesAssumption DEF StartedApp, App, Position
<1>3. SyncTypeOK
  BY <1>1, <1>2 DEF SyncTypeOK
<1>4. StoredInv
  BY <1>1 DEF StoredInv
<1>5. ASSUME NEW d \in Device
      PROVE  DeviceInv(d)
  <2>1. mem[d] = StartedApp /\ disk[d].journal = None /\ Sent(d) = {} /\ taken[d] = 0
    BY <1>1 DEF Sent
  <2>2. RequestInv(d) /\ JournalInv(d) /\ QueueInv(d) /\ CallInv(d)
    BY <2>1 DEF RequestInv, JournalInv, QueueInv, CallInv, StartedApp
  <2>3. SeekInv(d) /\ KnownInv(d)
    BY <1>1, <2>1 DEF SeekInv, KnownInv, StartedApp, Stand
  <2> QED BY <2>2, <2>3 DEF DeviceInv
<1> QED BY <1>3, <1>4, <1>5 DEF SyncInv

\* A device that nothing happens to.
Untouched(d) ==
  /\ disk'[d] = disk[d] /\ mem'[d] = mem[d] /\ clock'[d] = clock[d]
  /\ taken'[d] = taken[d] /\ stored'[d] = stored[d] /\ Sent(d)' = Sent(d)

\* It stays sound while the row stands.
LEMMA UntouchedKeeps ==
  ASSUME NEW d \in Device, DeviceInv(d), Untouched(d), row' = row
  PROVE  DeviceInv(d)'
<1> USE DEF Untouched
<1>1. \A e : Recent(d, e) => Recent(d, e)'
  BY DEF Recent
<1>2. \A e, b : Informed(d, e, b) => Informed(d, e, b)'
  BY DEF Informed
<1>3. \A c : Leads(d, c) => Leads(d, c)'
  BY <1>1 DEF Leads
<1>4. RequestInv(d)'
  BY <1>1, <1>2 DEF DeviceInv, RequestInv
<1>5. JournalInv(d)'
  BY <1>2, <1>3 DEF DeviceInv, JournalInv, Stand
<1>6. QueueInv(d)'
  BY <1>2, <1>3 DEF DeviceInv, QueueInv
<1>7. CallInv(d)'
  BY DEF DeviceInv, CallInv, Carries, Answers, Stand
<1>8. SeekInv(d)' /\ KnownInv(d)'
  BY DEF DeviceInv, SeekInv, KnownInv, Stand
<1> QED BY <1>4, <1>5, <1>6, <1>7, <1>8 DEF DeviceInv

\* A step of one device, which leaves the row and the others alone.
Local(d) ==
  /\ row' = row /\ stored' = stored
  /\ \A e \in Device \ {d} : /\ disk'[e] = disk[e] /\ mem'[e] = mem[e]
                             /\ clock'[e] = clock[e] /\ taken'[e] = taken[e]
  /\ requests \subseteq requests' /\ \A r \in requests' \ requests : r.dev = d

\* Such a step keeps the invariant if it keeps that of the device.
LEMMA LocalKeeps ==
  ASSUME SyncInv, NEW d \in Device, Local(d), SyncTypeOK', DeviceInv(d)'
  PROVE  SyncInv'
<1>1. \A e \in Device \ {d} : Untouched(e)
  BY DEF Local, Untouched, Sent
<1>2. \A e \in Device \ {d} : DeviceInv(e)'
  BY <1>1, UntouchedKeeps DEF Local, SyncInv
<1>3. StoredInv'
  <2>1. row' = row /\ stored' = stored /\ requests \subseteq requests'
    BY DEF Local
  <2>2. \A e \in Device : Sent(e) \subseteq Sent(e)'
    BY <2>1 DEF Sent
  <2> QED BY <2>1, <2>2 DEF StoredInv, SyncInv
<1> QED BY <1>2, <1>3 DEF SyncInv

\* An edit that has a number of its own.
IsUnused(d, at) ==
  /\ at \in Nat /\ clock[d] <= at /\ stored[d] < at
  /\ \A r \in Sent(d) : r.edit < at
  /\ disk[d].journal # None /\ disk[d].journal.owned => disk[d].journal.edit < at

\* persistProgress keeps the invariant: the new edit continues the journal's
\* recording, and an explicit seek takes up the revision it builds on.
LEMMA PersistKeeps ==
  ASSUME SyncInv, NEW d \in Device, NEW app \in App, NEW intent \in Intent \cup {None},
         NEW at, IsUnused(d, at), Persist(d, app, intent, at),
         row' = row, stored' = stored, requests' = requests,
         clock' = [clock EXCEPT ![d] = at],
         app.jGen = mem[d].jGen, app.ackGen = mem[d].ackGen, app.queue = mem[d].queue,
         app.shelf = mem[d].shelf, app.sending = mem[d].sending,
         app.listing = mem[d].listing, app.replay = mem[d].replay,
         app.adopting = mem[d].adopting, app.seekGen >= mem[d].seekGen,
         disk[d].journal = None => HasNewSeek(app), app.open
  PROVE  SyncInv'
<1> DEFINE new == HasNewSeek(app)
           j == disk[d].journal
<1>1. PICK c : c = PendingCopy(app.head, at, j, app.shelf, new, <<d, at>>)
  OBVIOUS
<1>2. PICK q : q = SaveEntry(app, c, intent)
  OBVIOUS
<1>3. /\ SyncTypeOK /\ DeviceInv(d) /\ mem[d] \in App /\ at \in Nat
      /\ j \in Copy \cup {None} /\ clock[d] \in Nat
  BY DEF SyncInv, SyncTypeOK, IsUnused
<1>4. /\ disk' = [disk EXCEPT ![d] = [journal |-> c, intent |-> intent]]
      /\ mem' = [mem EXCEPT ![d] =
           [app EXCEPT !.queue = q, !.shelf = c.acked,
                       !.jGen = IF new THEN app.seekGen ELSE @,
                       !.overruled = @ /\ ~new]]
      /\ taken' = IF new /\ c.acked # None
                  THEN Raise(taken, d, c.acked) ELSE taken
  BY <1>1, <1>2 DEF Persist
<1>5. j # None /\ j.owned => Leads(d, j)
  BY <1>3 DEF DeviceInv, JournalInv
<1>6. /\ c \in Copy /\ IsPending(c)
      /\ c.edit = at /\ c.pos = app.head
      /\ c.acked \in {app.shelf, IF j = None THEN None ELSE j.acked}
      /\ NextIn(c, j, <<d, at>>)
      /\ c.rec # None
  <2>1. j # None /\ j.owned => j.rec # None
    BY <1>5 DEF Leads, OwnRecording
  <2>2. c = PendingCopy(app.head, at, j, app.shelf, HasNewSeek(app), <<d, at>>)
    BY <1>1
  <2> HIDE DEF j, new
  <2>3. c \in Copy
    BY <1>3, <2>1, <2>2, PendingCopyIs
  <2>4. IsPending(c)
    BY <1>3, <2>1, <2>2, PendingCopyIs
  <2>5. c.edit = at /\ c.pos = app.head
    BY <2>2 DEF PendingCopy
  <2>7. c.rec # None
    BY <1>3, <2>1, <2>2, PendingCopyIs
  <2>8. /\ NextIn(c, j, <<d, at>>)
        /\ c.acked \in {app.shelf, IF j = None THEN None ELSE j.acked}
    BY <1>3, <2>1, <2>2, PendingInherits
  <2> QED BY <2>3, <2>4, <2>5, <2>7, <2>8
<1>7. q \in Entry /\ q.copy = c /\ q.gen = app.seekGen
  <2>1. app.queue # None => app.queue.regression \in BOOLEAN
    BY DEF App, Entry
  <2> QED BY <1>2, <1>6, <2>1 DEF SaveEntry, Entry, App, Intent, FlagsRegression, IntentAuthorizes
<1> HIDE DEF new, j
<1>30. \/ new /\ c.acked # None /\ c.base = c.acked
       \/ j # None /\ c.base = j.base
       \/ j = None /\ new /\ c.base = 0
       \/ j = None /\ ~new
  BY <1>1 DEF PendingCopy, PendingBase, InheritedBase, NewestKnown, j, new
<1>8. /\ disk'[d].journal = c /\ mem'[d].queue = q /\ mem'[d].shelf = c.acked
      /\ mem'[d].jGen = (IF new THEN app.seekGen ELSE app.jGen)
      /\ mem'[d].seekGen = app.seekGen /\ mem'[d].ackGen = app.ackGen
      /\ mem'[d].sending = mem[d].sending /\ mem'[d].listing = mem[d].listing
      /\ mem'[d].replay = mem[d].replay /\ mem'[d].adopting = mem[d].adopting
      /\ clock'[d] = at
  BY <1>3, <1>4 DEF SyncTypeOK, App
<1>9. c.acked # None => c.acked \in Nat /\ c.acked <= Stand
  BY <1>3, <1>6 DEF DeviceInv, KnownInv, JournalInv, j, Copy
<1>10. taken'[d] \in Nat /\ taken[d] \in Nat /\ taken[d] <= taken'[d]
       /\ taken'[d] <= Stand /\ (new /\ c.acked # None => c.acked <= taken'[d])
  <2>1. taken[d] \in Nat /\ taken[d] <= Stand /\ taken \in [Device -> Nat]
    BY <1>3 DEF SyncTypeOK, DeviceInv, KnownInv
  <2>2. CASE new /\ c.acked # None
    BY <1>4, <1>9, <2>1, <2>2 DEF Raise, Larger
  <2>3. CASE ~(new /\ c.acked # None)
    BY <1>4, <2>1, <2>3
  <2> QED BY <2>2, <2>3
<1>11. c.base \in Nat /\ c.base <= taken'[d]
  <2>1. j # None => j.base <= taken[d] /\ j.base \in Nat
    BY <1>3 DEF DeviceInv, JournalInv, j, Copy
  <2>2. j = None => new
    BY DEF j, new
  <2> QED BY <1>6, <1>9, <1>10, <1>30, <2>1, <2>2 DEF Copy
<1>12. ~HasNewSeek(mem[d])' /\ app.seekGen \in Nat /\ app.jGen \in Nat /\ app.ackGen \in Nat
  BY <1>8 DEF HasNewSeek, Larger, App, new
<1>13. Sent(d)' = Sent(d)
  BY DEF Sent
<1>14. ASSUME NEW e \in Nat, Recent(d, e)
       PROVE  Recent(d, e)'
  BY <1>3, <1>8, <1>12, <1>14 DEF Recent, IsUnused
<1>15. ASSUME NEW e, NEW b \in Nat, Informed(d, e, b)
       PROVE  Informed(d, e, b)'
  BY <1>10, <1>15 DEF Informed
<1>16. RequestInv(d)'
  <2>1. \A r \in Sent(d) : r.edit \in Nat /\ r.cp.base \in Nat \cup {None}
    BY <1>3 DEF Sent, SyncTypeOK, SaveRequest, Checkpoint
  <2> QED BY <1>3, <1>13, <1>14, <1>15, <2>1 DEF DeviceInv, RequestInv
<1>17. OwnRecording(d, c)
  <2>1. CASE j # None /\ j.owned
    <3>1. j.rec.id[1] = d /\ j.rec.id[2] <= j.edit /\ j.edit < at
      BY <1>5, <2>1 DEF Leads, OwnRecording, IsUnused, j
    <3>2. j.rec \in Recording /\ j.edit \in Nat
      BY <1>3, <1>5, <2>1 DEF Copy, Leads, OwnRecording
    <3>3. j.rec.id[2] \in Nat
      BY <3>2 DEF Recording, RecordingId
    <3> QED BY <1>3, <1>6, <2>1, <3>1, <3>2, <3>3 DEF OwnRecording, NextIn
  <2>2. CASE ~(j # None /\ j.owned)
    BY <1>3, <1>6, <2>2 DEF OwnRecording, NextIn
  <2> QED BY <2>1, <2>2
<1>18. ASSUME NEW r \in Sent(d)
       PROVE  r.edit < c.edit /\ InOrder(Mark(r), c)
  <2>1. r.edit < at /\ r.edit \in Nat /\ r.cp.rec \in Recording \cup {None}
    BY <1>3, <1>18 DEF IsUnused, Sent, SyncTypeOK, SaveRequest, Checkpoint
  <2>2. OwnRecording(d, Mark(r))
    BY <1>3, <1>18 DEF DeviceInv, RequestInv
  <2>3. r.cp.rec \in Recording /\ r.cp.rec.id[2] <= r.edit /\ r.cp.rec.id[2] \in Nat
    BY <2>1, <2>2 DEF OwnRecording, Mark, Recording, RecordingId
  <2>4. CASE j # None /\ j.owned
    <3>1. r.edit <= j.edit /\ InOrder(Mark(r), j) /\ j.edit < at
      BY <1>5, <2>4 DEF Leads, IsUnused, j
    <3>2. j.rec \in Recording /\ j.edit \in Nat
      BY <1>3, <1>5, <2>4 DEF Copy, Leads, OwnRecording
    <3>3. r.cp.rec.id = j.rec.id => r.cp.rec.seq <= j.rec.seq
      BY <2>1, <2>3, <3>1, <3>2 DEF InOrder, Mark, Recording
    <3> QED BY <1>3, <1>6, <2>1, <2>3, <2>4, <3>2, <3>3 DEF InOrder, Mark, Recording, NextIn
  <2>5. CASE ~(j # None /\ j.owned)
    <3>1. c.rec.id[2] = at
      BY <1>3, <1>6, <2>5 DEF NextIn
    <3> QED BY <1>3, <1>6, <2>1, <2>3, <3>1 DEF InOrder, Mark
  <2> QED BY <2>4, <2>5
<1>19. Leads(d, c)' /\ Informed(d, c.edit, c.base)'
  <2>1. Recent(d, c.edit)'
    BY <1>3, <1>6, <1>8, <1>12 DEF Recent, IsUnused, SyncTypeOK
  <2>2. Informed(d, c.edit, c.base)'
    BY <1>6, <1>11 DEF Informed, IsUnused
  <2>3. \A r \in Sent(d) : r.edit \in Nat
    BY <1>3 DEF Sent, SyncTypeOK, SaveRequest
  <2> QED BY <1>3, <1>6, <1>13, <1>17, <1>18, <2>1, <2>2, <2>3 DEF Leads, OwnRecording
<1>20. c # None
  BY <1>6, SyncAssumption
<1>21. JournalInv(d)' /\ QueueInv(d)'
  BY <1>6, <1>7, <1>8, <1>9, <1>11, <1>19, <1>20 DEF JournalInv, QueueInv, IsPending, Stand
<1>22. CallInv(d)'
  <2>1. CallInv(d)
    BY <1>3 DEF DeviceInv
  <2> QED BY <1>8, <1>13, <2>1, CallKeeps
<1>23. SeekInv(d)' /\ KnownInv(d)'
  <2>1. SeekInv(d) /\ KnownInv(d) /\ clock[d] \in Nat /\ at >= clock[d]
    BY <1>3 DEF DeviceInv, IsUnused
  <2>2. at > 0
    BY <1>3 DEF IsUnused, SyncTypeOK
  <2>3. mem[d].seekGen \in Nat /\ (mem[d].sending # None => mem[d].sending.entry.gen \in Nat)
    BY <1>3 DEF App, Sending, Entry
  <2>4. SeekInv(d)'
    BY <1>7, <1>8, <1>12, <2>1, <2>2, <2>3 DEF SeekInv
  <2>5. KnownInv(d)'
    BY <1>8, <1>9, <1>10, <2>1 DEF KnownInv, Stand
  <2> QED BY <2>4, <2>5
<1>24. SyncTypeOK'
  <2>1. mem'[d] \in App
    <3>1. PICK over \in BOOLEAN : over = (app.overruled /\ ~new)
      BY DEF App
    <3>2. PICK gen \in Nat : gen = IF new THEN app.seekGen ELSE app.jGen
      BY <1>12
    <3>3. mem'[d] = [app EXCEPT !.queue = q, !.shelf = c.acked, !.jGen = gen, !.overruled = over]
      BY <1>3, <1>4, <3>1, <3>2 DEF SyncTypeOK, App
    <3>4. c.acked \in Nat \cup {None}
      BY <1>6 DEF Copy
    <3>5. q \in Entry \cup {None} /\ app \in App
      BY <1>3, <1>7 DEF SyncTypeOK
    <3>6. [app EXCEPT !.queue = q, !.shelf = c.acked, !.jGen = gen, !.overruled = over] \in App
      BY <3>4, <3>5, AppWith
    <3> QED BY <3>3, <3>6
  <2>2. mem' \in [Device -> App] /\ clock' \in [Device -> Nat]
    BY <1>3, <1>4, <2>1 DEF SyncTypeOK
  <2>3. disk' \in [Device -> [journal : Copy \cup {None}, intent : Intent \cup {None}]]
    BY <1>3, <1>4, <1>6 DEF SyncTypeOK
  <2>4. taken' \in [Device -> Nat]
    BY <1>3, <1>4, <1>10 DEF SyncTypeOK, Raise
  <2> QED BY <1>3, <2>2, <2>3, <2>4 DEF SyncTypeOK
<1>25. Local(d)
  BY <1>3, <1>4 DEF Local, SyncTypeOK, Raise
<1>26. DeviceInv(d)'
  BY <1>16, <1>21, <1>22, <1>23 DEF DeviceInv
<1> QED BY <1>24, <1>25, <1>26, LocalKeeps

\* A number after the last one is unused.
LEMMA NextNumber ==
  ASSUME SyncInv, NEW d \in Device
  PROVE  /\ IsUnused(d, clock[d] + 1)
         /\ HasNewSeek(mem[d]) => IsUnused(d, clock[d])
<1>1. DeviceInv(d) /\ clock[d] \in Nat /\ stored[d] \in Nat /\ mem[d] \in App
  BY DEF SyncInv, SyncTypeOK
<1>2. \A r \in Sent(d) : Recent(d, r.edit) /\ r.edit \in Nat
  BY <1>1 DEF DeviceInv, RequestInv, SyncInv, SyncTypeOK, SaveRequest, Sent
<1>3. disk[d].journal # None /\ disk[d].journal.owned
        => Recent(d, disk[d].journal.edit) /\ disk[d].journal.edit \in Nat
  BY <1>1 DEF DeviceInv, JournalInv, Leads, SyncInv, SyncTypeOK, Copy
<1>4. stored[d] = 0 \/ \E r \in Sent(d) : r.edit = stored[d]
  BY DEF SyncInv, StoredInv
<1>5. HasNewSeek(mem[d]) => clock[d] > 0
  BY <1>1 DEF DeviceInv, SeekInv, HasNewSeek, Larger, App
<1>6. IsUnused(d, clock[d] + 1)
  BY <1>1, <1>2, <1>3, <1>4 DEF IsUnused, Recent
<1>7. HasNewSeek(mem[d]) => IsUnused(d, clock[d])
  BY <1>1, <1>2, <1>3, <1>4, <1>5 DEF IsUnused, Recent
<1> QED BY <1>6, <1>7

\* A tick of playback keeps the invariant.
LEMMA ListenKeeps ==
  ASSUME SyncInv, NEW d \in Device, NEW place \in Position, Listen(d, place)
  PROVE  SyncInv'
<1>1. PICK app : app = [mem[d] EXCEPT !.head = place]
  OBVIOUS
<1>2. PICK at : at = IF HasNewSeek(app) THEN clock[d] ELSE clock[d] + 1
  OBVIOUS
<1>3. mem[d] \in App /\ DeviceInv(d) /\ disk[d].intent \in Intent \cup {None}
  BY DEF SyncInv, SyncTypeOK
<1>4. /\ app \in App /\ app.jGen = mem[d].jGen /\ app.ackGen = mem[d].ackGen
      /\ app.queue = mem[d].queue /\ app.shelf = mem[d].shelf
      /\ app.sending = mem[d].sending /\ app.listing = mem[d].listing
      /\ app.replay = mem[d].replay /\ app.adopting = mem[d].adopting
      /\ app.seekGen = mem[d].seekGen /\ app.open = mem[d].open
  BY <1>1, <1>3 DEF App
<1>5. /\ mem[d].open /\ clock' = [clock EXCEPT ![d] = at]
      /\ Persist(d, app, disk[d].intent, at)
      /\ row' = row /\ stored' = stored /\ requests' = requests
  BY <1>1, <1>2 DEF Listen, serverVars
<1>6. HasNewSeek(app) <=> HasNewSeek(mem[d])
  BY <1>4 DEF HasNewSeek
<1>7. IsUnused(d, at)
  BY <1>2, <1>6, NextNumber
<1>8. disk[d].journal = None => HasNewSeek(app)
  BY <1>3, <1>5, <1>6 DEF DeviceInv, JournalInv
<1>9. app.seekGen >= mem[d].seekGen
  BY <1>4 DEF App
<1> QED BY <1>3, <1>4, <1>5, <1>7, <1>8, <1>9, PersistKeeps

\* A deliberate seek keeps the invariant, in an open book or from the shelf.
LEMMA SeekKeeps ==
  ASSUME SyncInv, NEW d \in Device, NEW place \in SeekTargets, Seek(d, place)
  PROVE  SyncInv'
<1>1. PICK at : at = clock[d] + 1
  OBVIOUS
<1>2. PICK app : app = [mem[d] EXCEPT !.open = TRUE, !.head = place, !.target = place,
                                      !.seekGen = @ + 1]
  OBVIOUS
<1>3. PICK intent : intent = [at |-> at, target |-> place]
  OBVIOUS
<1>4. /\ mem[d] \in App /\ DeviceInv(d) /\ clock[d] \in Nat /\ place \in Position
      /\ IsUnused(d, at) /\ at \in Nat /\ SyncTypeOK
  BY <1>1, SyncAssumption, NextNumber DEF SyncInv, SyncTypeOK
<1>5. intent \in Intent
  BY <1>3, <1>4 DEF Intent
<1>6. /\ app \in App /\ app.jGen = mem[d].jGen /\ app.ackGen = mem[d].ackGen
      /\ app.queue = mem[d].queue /\ app.shelf = mem[d].shelf
      /\ app.sending = mem[d].sending /\ app.listing = mem[d].listing
      /\ app.replay = mem[d].replay /\ app.adopting = mem[d].adopting
      /\ app.seekGen = mem[d].seekGen + 1 /\ app.open
  <2>1. PICK n \in Nat : n = mem[d].seekGen + 1
    BY <1>4 DEF App
  <2>2. app = [mem[d] EXCEPT !.open = TRUE, !.head = place, !.target = place, !.seekGen = n]
    BY <1>2, <2>1
  <2>3. app \in App
    BY <1>4, <2>2 DEF App
  <2> QED BY <1>4, <2>1, <2>2, <2>3 DEF App
<1>7. HasNewSeek(app)
  BY <1>4, <1>6 DEF HasNewSeek, Larger, DeviceInv, SeekInv, App
<1>8. /\ clock' = [clock EXCEPT ![d] = at]
      /\ row' = row /\ stored' = stored /\ requests' = requests
      /\ IF mem[d].open THEN Persist(d, app, intent, at)
         ELSE /\ disk' = [disk EXCEPT ![d].intent = intent]
              /\ mem' = [mem EXCEPT ![d] = app]
              /\ UNCHANGED taken
  BY <1>1, <1>2, <1>3 DEF Seek, serverVars
<1>9. app.seekGen >= mem[d].seekGen
  BY <1>4, <1>6 DEF App
<1>10. CASE mem[d].open
  BY <1>4, <1>5, <1>6, <1>7, <1>8, <1>9, <1>10, PersistKeeps
<1>11. CASE ~mem[d].open
  <2>1. /\ disk' = [disk EXCEPT ![d].intent = intent]
        /\ mem' = [mem EXCEPT ![d] = app] /\ taken' = taken
    BY <1>8, <1>11
  <2>2. /\ disk'[d].journal = disk[d].journal /\ mem'[d] = app /\ clock'[d] = at
        /\ taken'[d] = taken[d] /\ stored'[d] = stored[d] /\ Sent(d)' = Sent(d)
    BY <1>4, <1>8, <2>1 DEF SyncTypeOK, Sent
  <2>3. SyncTypeOK'
    <3>1. mem' \in [Device -> App] /\ clock' \in [Device -> Nat]
      BY <1>4, <1>6, <1>8, <2>1 DEF SyncTypeOK
    <3>2. disk' \in [Device -> [journal : Copy \cup {None}, intent : Intent \cup {None}]]
      BY <1>4, <1>5, <2>1 DEF SyncTypeOK
    <3> QED BY <1>4, <1>8, <2>1, <3>1, <3>2 DEF SyncTypeOK
  <2>4. Local(d)
    BY <1>4, <1>8, <2>1 DEF Local, SyncTypeOK
  <2>5. \A e \in Nat : e < at => (Recent(d, e) => Recent(d, e)')
    BY <1>4, <2>2 DEF Recent
  <2>6. \A r \in Sent(d) : r.edit \in Nat /\ r.edit < at
    BY <1>4 DEF IsUnused, Sent, SyncTypeOK, SaveRequest
  <2>7. \A e, b : Informed(d, e, b) => Informed(d, e, b)'
    BY <1>8, <2>2 DEF Informed
  <2>8. \A c \in Copy : c.edit < at => (Leads(d, c) => Leads(d, c)')
    BY <2>2, <2>5 DEF Leads, Copy
  <2>9. RequestInv(d)'
    BY <1>4, <2>2, <2>5, <2>6, <2>7 DEF DeviceInv, RequestInv
  <2>10. disk[d].journal # None => disk[d].journal \in Copy
    BY <1>4 DEF SyncTypeOK
  <2>11. JournalInv(d)'
    BY <1>4, <1>6, <1>7, <1>8, <2>2, <2>7, <2>8, <2>10 DEF DeviceInv, JournalInv, IsUnused, Stand
  <2>12. mem[d].queue # None => mem[d].queue.copy.edit < at /\ mem[d].queue.copy \in Copy
    <3>1. mem[d].queue # None => Leads(d, mem[d].queue.copy) /\ mem[d].queue.copy \in Copy
      BY <1>4 DEF DeviceInv, QueueInv, App, Entry
    <3> QED BY <1>1, <1>4, <3>1 DEF Leads, Recent, Copy
  <2>13. QueueInv(d)'
    BY <1>4, <1>6, <2>2, <2>7, <2>8, <2>12 DEF DeviceInv, QueueInv
  <2>14. CallInv(d)'
    <3>1. CallInv(d) /\ app.sending = mem[d].sending /\ app.replay = mem[d].replay
      BY <1>4, <1>6 DEF DeviceInv
    <3> QED BY <1>8, <2>2, <3>1, CallKeeps
  <2>15. SeekInv(d)'
    <3>1. /\ app.jGen \in Nat /\ app.ackGen \in Nat /\ mem[d].seekGen \in Nat
          /\ (app.queue # None => app.queue.gen \in Nat)
          /\ (app.sending # None => app.sending.entry.gen \in Nat)
      BY <1>4, <1>6 DEF App, Entry, Sending
    <3> QED BY <1>1, <1>4, <1>6, <2>2, <3>1 DEF DeviceInv, SeekInv
  <2>16. KnownInv(d)'
    BY <1>4, <1>6, <1>8, <2>2 DEF DeviceInv, KnownInv, Stand
  <2> QED BY <2>3, <2>4, <2>9, <2>11, <2>13, <2>14, <2>15, <2>16, LocalKeeps DEF DeviceInv
<1> QED BY <1>10, <1>11

\* An app that knows no more than before, and waits for no other call.
Quieter(d, app) ==
  /\ HasNewSeek(app) => HasNewSeek(mem[d])
  /\ app.open => HasNewSeek(app) \/ disk[d].journal # None
  /\ app.queue \in {None, mem[d].queue}
  /\ app.seekGen > 0 => mem[d].seekGen > 0
  /\ app.jGen <= app.seekGen /\ app.ackGen <= app.seekGen
  /\ app.queue # None => app.queue.gen <= app.seekGen
  /\ app.sending # None => /\ app.sending = mem[d].sending
                           /\ app.seekGen = mem[d].seekGen
  /\ app.replay \in {None, mem[d].replay}
  /\ app.shelf \in {None, mem[d].shelf}
  /\ app.listing # None /\ app.listing.row # None => app.listing.row.rev <= Stand
  /\ app.adopting # None => 0 < app.adopting.row.rev /\ app.adopting.row.rev <= Stand

\* A step that only changes what a running app remembers.
LEMMA MemoryKeeps ==
  ASSUME SyncInv, NEW d \in Device, NEW app \in App, mem' = [mem EXCEPT ![d] = app],
         row' = row, stored' = stored, taken' = taken, disk' = disk,
         requests' = requests, clock' = clock,
         Quieter(d, app)
  PROVE  SyncInv'
<1> USE DEF Quieter
<1>1. DeviceInv(d) /\ SyncTypeOK /\ mem'[d] = app
  BY DEF SyncInv, SyncTypeOK
<1>2. SyncTypeOK'
  BY <1>1 DEF SyncTypeOK
<1>3. Local(d)
  BY <1>1 DEF Local, SyncTypeOK
<1>4. Sent(d)' = Sent(d)
  BY DEF Sent
<1>5. \A e : Recent(d, e) => Recent(d, e)'
  BY <1>1 DEF Recent
<1>6. \A e, b : Informed(d, e, b) => Informed(d, e, b)'
  BY DEF Informed
<1>7. \A c : Leads(d, c) => Leads(d, c)'
  BY <1>4, <1>5 DEF Leads
<1>8. RequestInv(d)'
  BY <1>1, <1>4, <1>5, <1>6 DEF DeviceInv, RequestInv
<1>9. JournalInv(d)'
  BY <1>1, <1>4, <1>6, <1>7 DEF DeviceInv, JournalInv, Stand
<1>10. QueueInv(d)'
  BY <1>1, <1>4, <1>6, <1>7 DEF DeviceInv, QueueInv
<1>11. CallInv(d)'
  BY <1>1, <1>4 DEF DeviceInv, CallInv, Carries, Answers, Stand
<1>12. SeekInv(d)'
  BY <1>1 DEF DeviceInv, SeekInv
<1>13. KnownInv(d)'
  BY <1>1 DEF DeviceInv, KnownInv, Stand
<1>14. DeviceInv(d)'
  BY <1>8, <1>9, <1>10, <1>11, <1>12, <1>13 DEF DeviceInv
<1> QED BY <1>2, <1>3, <1>14, LocalKeeps

\* A call fails, the app is killed, or a listing or a place is asked for.
LEMMA MemorySteps ==
  ASSUME SyncInv, NEW d \in Device,
         \/ SaveFails(d) \/ ReplayFails(d) \/ Kill(d)
         \/ RequestListing(d) \/ FetchForAdoption(d)
  PROVE  SyncInv'
<1>1. mem[d] \in App /\ DeviceInv(d) /\ SyncTypeOK /\ row \in Row \cup {None}
  BY DEF SyncInv, SyncTypeOK
<1>2. /\ mem[d].seekGen \in Nat
      /\ mem[d].jGen <= mem[d].seekGen /\ mem[d].ackGen <= mem[d].seekGen
      /\ mem[d].queue # None => mem[d].queue.gen <= mem[d].seekGen
      /\ mem[d].open => HasNewSeek(mem[d]) \/ disk[d].journal # None
  BY <1>1 DEF DeviceInv, SeekInv, JournalInv, App
<1>3. /\ mem[d].listing # None /\ mem[d].listing.row # None => mem[d].listing.row.rev <= Stand
      /\ mem[d].adopting # None => 0 < mem[d].adopting.row.rev /\ mem[d].adopting.row.rev <= Stand
  BY <1>1 DEF DeviceInv, KnownInv
<1>4. row # None => 0 < row.rev /\ row.rev <= Stand
  BY DEF SyncInv, StoredInv, Stand, SyncTypeOK, Row
<1>5. CASE SaveFails(d)
  <2>1. PICK app : app = [mem[d] EXCEPT !.sending = None]
    OBVIOUS
  <2>2. app \in App
    BY <1>1, <2>1 DEF App
  <2>3. mem' = [mem EXCEPT ![d] = app]
    BY <1>5, <2>1 DEF SaveFails
  <2>4. \A f \in {"open", "seekGen", "jGen", "ackGen", "queue", "shelf", "listing",
                  "replay", "adopting"} : app[f] = mem[d][f]
    BY <1>1, <2>1 DEF App
  <2>5. HasNewSeek(app) <=> HasNewSeek(mem[d])
    BY <2>4 DEF HasNewSeek
  <2>6. Quieter(d, app)
    BY <1>2, <1>3, <2>1, <2>4, <2>5, <1>1 DEF Quieter, App
  <2> QED BY <1>5, <2>2, <2>3, <2>6, MemoryKeeps DEF SaveFails, serverVars, historyVars
<1>6. CASE ReplayFails(d)
  <2>1. PICK app : app = [mem[d] EXCEPT !.replay = None]
    OBVIOUS
  <2>2. app \in App
    BY <1>1, <2>1 DEF App
  <2>3. mem' = [mem EXCEPT ![d] = app]
    BY <1>6, <2>1 DEF ReplayFails
  <2>4. \A f \in {"open", "seekGen", "jGen", "ackGen", "queue", "shelf", "listing",
                  "sending", "adopting"} : app[f] = mem[d][f]
    BY <1>1, <2>1 DEF App
  <2>5. HasNewSeek(app) <=> HasNewSeek(mem[d])
    BY <2>4 DEF HasNewSeek
  <2>6. Quieter(d, app)
    BY <1>2, <1>3, <2>1, <2>4, <2>5, <1>1 DEF Quieter, App
  <2> QED BY <1>6, <2>2, <2>3, <2>6, MemoryKeeps DEF ReplayFails, serverVars, historyVars
<1>7. CASE Kill(d)
  <2>1. PICK app : app = StartedApp
    OBVIOUS
  <2>2. app \in App
    BY <2>1, RulesAssumption DEF StartedApp, App, Position
  <2>3. mem' = [mem EXCEPT ![d] = app]
    BY <1>7, <2>1 DEF Kill
  <2>4. /\ ~app.open /\ app.seekGen = 0 /\ app.jGen = 0 /\ app.ackGen = 0
        /\ app.queue = None /\ app.sending = None /\ app.shelf = None
        /\ app.listing = None /\ app.replay = None /\ app.adopting = None
    BY <2>1 DEF StartedApp
  <2>5. ~HasNewSeek(app)
    BY <2>4 DEF HasNewSeek, Larger
  <2>6. Quieter(d, app)
    BY <2>4, <2>5 DEF Quieter
  <2> QED BY <1>7, <2>2, <2>3, <2>6, MemoryKeeps DEF Kill, serverVars, historyVars
<1>8. CASE RequestListing(d)
  <2>1. PICK app : app = [mem[d] EXCEPT !.listing = [row |-> row]]
    OBVIOUS
  <2>2. app \in App
    BY <1>1, <2>1 DEF App
  <2>3. mem' = [mem EXCEPT ![d] = app]
    BY <1>8, <2>1 DEF RequestListing
  <2>4. \A f \in {"open", "seekGen", "jGen", "ackGen", "queue", "shelf", "sending",
                  "replay", "adopting"} : app[f] = mem[d][f]
    BY <1>1, <2>1 DEF App
  <2>5. (HasNewSeek(app) <=> HasNewSeek(mem[d])) /\ app.listing.row = row
    BY <1>1, <2>1, <2>4 DEF HasNewSeek, App
  <2>6. Quieter(d, app)
    BY <1>2, <1>3, <1>4, <2>4, <2>5, <1>1 DEF Quieter, App
  <2> QED BY <1>8, <2>2, <2>3, <2>6, MemoryKeeps DEF RequestListing, serverVars, historyVars
<1>9. CASE FetchForAdoption(d)
  <2>1. PICK app : app = [mem[d] EXCEPT !.adopting = [row |-> row, since |-> Version(d)]]
    OBVIOUS
  <2>2. Version(d) \in Nat \X Nat
    BY <1>1 DEF Version, SyncTypeOK, App
  <2>3. app \in App /\ row # None
    BY <1>1, <1>9, <2>1, <2>2 DEF App, FetchForAdoption
  <2>4. mem' = [mem EXCEPT ![d] = app]
    BY <1>9, <2>1 DEF FetchForAdoption
  <2>5. \A f \in {"open", "seekGen", "jGen", "ackGen", "queue", "shelf", "sending",
                  "replay", "listing"} : app[f] = mem[d][f]
    BY <1>1, <2>1 DEF App
  <2>6. (HasNewSeek(app) <=> HasNewSeek(mem[d])) /\ app.adopting.row = row
    BY <1>1, <2>1, <2>5 DEF HasNewSeek, App
  <2>7. Quieter(d, app)
    BY <1>2, <1>3, <1>4, <2>3, <2>5, <2>6, <1>1 DEF Quieter, App
  <2> QED BY <1>9, <2>3, <2>4, <2>7, MemoryKeeps DEF FetchForAdoption, serverVars, historyVars
<1> QED BY <1>5, <1>6, <1>7, <1>8, <1>9

\* A request that sends a copy which nothing was sent after keeps the order.
SendsCopy(d, r, c) ==
  /\ c \in Copy /\ IsPending(c) /\ Leads(d, c) /\ Informed(d, c.edit, c.base)
  /\ r \in SaveRequest /\ r.dev = d /\ r.edit = c.edit
  /\ r.cp.rec = c.rec /\ r.cp.pos = c.pos /\ r.cp.base = c.base

\* The other requests of the device, and the copies of that edit, keep their order.
LEMMA SendingKeeps ==
  ASSUME SyncInv, NEW d \in Device, NEW r, NEW c, SendsCopy(d, r, c),
         requests' = requests \cup {r}, row' = row, stored' = stored,
         taken'[d] = taken[d], clock'[d] = clock[d],
         HasNewSeek(mem[d])' => HasNewSeek(mem[d])
  PROVE  /\ RequestInv(d)' /\ Sent(d)' = Sent(d) \cup {r}
         /\ \A e : Recent(d, e) => Recent(d, e)'
         /\ \A e, b : Informed(d, e, b) => Informed(d, e, b)'
         /\ \A k \in Copy : Leads(d, k) /\ k.edit = c.edit /\ k.rec = c.rec /\ k.pos = c.pos
              => Leads(d, k)'
<1>1. SyncTypeOK /\ RequestInv(d) /\ Sent(d)' = Sent(d) \cup {r}
  BY DEF SyncInv, DeviceInv, Sent, SendsCopy
<1>2. \A e : Recent(d, e) => Recent(d, e)'
  BY DEF Recent
<1>3. \A e, b : Informed(d, e, b) => Informed(d, e, b)'
  BY DEF Informed
<1>4. \A s \in Sent(d) : s.edit \in Nat
  BY <1>1 DEF SyncTypeOK, Sent, SaveRequest
<1>5. \A s \in Sent(d) : s.edit <= r.edit /\ InOrder(Mark(s), Mark(r)) /\ InOrder(Mark(r), Mark(s))
  <2> SUFFICES ASSUME NEW s \in Sent(d)
               PROVE  s.edit <= r.edit /\ InOrder(Mark(s), Mark(r)) /\ InOrder(Mark(r), Mark(s))
    OBVIOUS
  <2>1. s.edit <= c.edit /\ InOrder(Mark(s), c)
    BY DEF SendsCopy, Leads
  <2>2. s.edit \in Nat /\ c.edit \in Nat
    BY <1>4 DEF SendsCopy, Copy
  <2> QED BY <2>1, <2>2 DEF InOrder, Mark, SendsCopy
<1>6. OwnRecording(d, Mark(r)) /\ Recent(d, r.edit)' /\ r.cp.base # None
  <2>1. c.base # None
    BY RulesAssumption DEF SendsCopy, Copy
  <2> QED BY <1>2, <2>1 DEF SendsCopy, Leads, OwnRecording, Mark
<1>7. Informed(d, r.edit, r.cp.base)'
  BY <1>3 DEF SendsCopy
<1>8. InOrder(Mark(r), Mark(r))
  BY DEF InOrder, SendsCopy, SaveRequest, Mark
<1>9. RequestInv(d)'
  <2> SUFFICES ASSUME NEW a \in Sent(d) \cup {r}
               PROVE  /\ OwnRecording(d, Mark(a)) /\ Recent(d, a.edit)'
                      /\ a.cp.base # None /\ Informed(d, a.edit, a.cp.base)'
                      /\ \A s \in Sent(d) \cup {r} : InOrder(Mark(a), Mark(s))
    BY <1>1 DEF RequestInv
  <2>1. CASE a = r
    BY <1>5, <1>6, <1>7, <1>8, <2>1
  <2>2. CASE a \in Sent(d)
    BY <1>1, <1>2, <1>3, <1>5, <2>2 DEF RequestInv
  <2> QED BY <2>1, <2>2
<1>10. ASSUME NEW k \in Copy, Leads(d, k), k.edit = c.edit, k.rec = c.rec, k.pos = c.pos
       PROVE  Leads(d, k)'
  <2>1. r.edit <= k.edit /\ InOrder(Mark(r), k)
    BY <1>10 DEF SendsCopy, InOrder, Mark, Copy
  <2> QED BY <1>1, <1>2, <1>10, <2>1 DEF Leads
<1> QED BY <1>1, <1>2, <1>3, <1>9, <1>10

\* A queued save is sent.
LEMMA StartSaveKeeps ==
  ASSUME SyncInv, NEW d \in Device, StartSave(d)
  PROVE  SyncInv'
<1> DEFINE entry == mem[d].queue
           seek == StillIntended(d, entry.intent) \/ entry.gen > mem[d].ackGen
<1>1. PICK r : r = Request(d, entry.copy, seek, entry.regression /\ seek)
  OBVIOUS
<1>2. PICK call : call = [entry |-> entry, request |-> r, reply |-> None]
  OBVIOUS
<1>3. PICK app : app = [mem[d] EXCEPT !.queue = None, !.sending = call]
  OBVIOUS
<1>4. /\ entry # None /\ mem[d].sending = None
      /\ mem' = [mem EXCEPT ![d] = app] /\ requests' = requests \cup {r}
      /\ row' = row /\ stored' = stored /\ taken' = taken /\ disk' = disk /\ clock' = clock
  <2>1. mem' = [mem EXCEPT ![d].queue = None, ![d].sending = call]
    BY <1>1, <1>2 DEF StartSave
  <2> QED BY <1>1, <1>3, <2>1 DEF StartSave, serverVars, historyVars, SyncInv, SyncTypeOK
<1>5. /\ SyncTypeOK /\ DeviceInv(d) /\ mem[d] \in App /\ disk[d].journal \in Copy \cup {None}
      /\ entry \in Entry
  BY <1>4 DEF SyncInv, SyncTypeOK, App
<1>6. PICK c : c = entry.copy
  OBVIOUS
<1>7. c \in Copy /\ IsPending(c) /\ Informed(d, c.edit, c.base) /\ Leads(d, c)
  BY <1>4, <1>5, <1>6 DEF DeviceInv, QueueInv, Entry
<1>8. /\ r.dev = d /\ r.edit = c.edit /\ r.cp.rec = c.rec /\ r.cp.pos = c.pos
      /\ r.cp.base = c.base /\ r \in SaveRequest
  <2>1. c.pos \in Nat /\ c.base \in Nat /\ c.rec \in Recording \cup {None} /\ c.edit \in Nat
    BY <1>7 DEF Copy, Position
  <2> HIDE DEF entry
  <2>2. PICK s \in BOOLEAN, g \in BOOLEAN : r = Request(d, c, s, g)
    BY <1>1, <1>6, Zenon
  <2> QED BY <2>1, <2>2 DEF Request, CheckpointOf, SaveRequest, Checkpoint
<1> HIDE DEF entry, seek
<1>9. SendsCopy(d, r, c)
  BY <1>7, <1>8 DEF SendsCopy
<1>10. call \in Sending
  BY <1>2, <1>5, <1>8 DEF Sending
<1>11. app \in App
  BY <1>3, <1>5, <1>10 DEF App
<1>12. /\ mem'[d] = app /\ app.queue = None /\ app.sending = call
       /\ \A f \in {"open", "seekGen", "jGen", "ackGen", "shelf", "listing",
                    "replay", "adopting"} : app[f] = mem[d][f]
  BY <1>3, <1>4, <1>5 DEF App, SyncTypeOK
<1>13. HasNewSeek(mem[d])' <=> HasNewSeek(mem[d])
  BY <1>12 DEF HasNewSeek
<1>14. /\ RequestInv(d)' /\ Sent(d)' = Sent(d) \cup {r}
       /\ \A e : Recent(d, e) => Recent(d, e)'
       /\ \A e, b : Informed(d, e, b) => Informed(d, e, b)'
       /\ \A k \in Copy : Leads(d, k) /\ k.edit = c.edit /\ k.rec = c.rec /\ k.pos = c.pos
              => Leads(d, k)'
  BY <1>4, <1>9, <1>13, SendingKeeps
<1>15. SyncTypeOK'
  BY <1>4, <1>5, <1>8, <1>11 DEF SyncTypeOK
<1>16. Local(d)
  BY <1>4, <1>5, <1>8 DEF Local, SyncTypeOK
<1>17. JournalInv(d)'
  <2>1. /\ disk[d].journal # None /\ disk[d].journal.edit = c.edit
        /\ disk[d].journal.owned => disk[d].journal.rec = c.rec /\ disk[d].journal.pos = c.pos
    BY <1>4, <1>5, <1>6 DEF DeviceInv, QueueInv, entry
  <2> QED BY <1>4, <1>5, <1>14, <2>1 DEF DeviceInv, JournalInv, Stand
<1>18. QueueInv(d)'
  BY <1>12 DEF QueueInv
<1>19. CallInv(d)'
  <2>1. call.request = r /\ call.entry.copy = c /\ call.reply = None
    BY <1>2, <1>6
  <2> QED BY <1>4, <1>5, <1>7, <1>8, <1>12, <1>14, <2>1 DEF DeviceInv, CallInv, Carries, Answers, Stand
<1>20. SeekInv(d)' /\ KnownInv(d)'
  <2>1. call.entry.gen = mem[d].queue.gen /\ mem[d].queue # None
    BY <1>2, <1>4 DEF entry
  <2> QED BY <1>4, <1>5, <1>12, <2>1 DEF DeviceInv, SeekInv, KnownInv, Stand
<1> QED BY <1>14, <1>15, <1>16, <1>17, <1>18, <1>19, <1>20, LocalKeeps DEF DeviceInv

\* A listing arrives, and a pending journal is sent again.
LEMMA ListingKeeps ==
  ASSUME SyncInv, NEW d \in Device, ListingArrives(d)
  PROVE  SyncInv'
<1>1. PICK j : j = disk[d].journal
  OBVIOUS
<1>2. PICK intent : intent = disk[d].intent
  OBVIOUS
<1>3. PICK listed : listed = mem[d].listing.row
  OBVIOUS
<1>4. PICK app : app = [mem[d] EXCEPT !.listing = None,
                          !.shelf = IF listed = None THEN None ELSE listed.rev]
  OBVIOUS
<1>5. /\ SyncTypeOK /\ DeviceInv(d) /\ mem[d] \in App /\ j \in Copy \cup {None}
      /\ intent \in Intent \cup {None} /\ mem[d].listing # None
      /\ listed \in Row \cup {None}
  BY <1>1, <1>2, <1>3 DEF SyncInv, SyncTypeOK, App, ListingArrives
<1>6. /\ app \in App /\ app.listing = None
      /\ app.shelf # None => app.shelf \in Nat /\ app.shelf <= Stand
      /\ \A f \in {"open", "seekGen", "jGen", "ackGen", "queue", "sending",
                   "replay", "adopting"} : app[f] = mem[d][f]
  <2>1. PICK shelf \in Nat \cup {None} :
          /\ shelf = (IF listed = None THEN None ELSE listed.rev)
          /\ shelf # None => shelf <= Stand
    BY <1>3, <1>5 DEF Row, DeviceInv, KnownInv
  <2>2. app = [mem[d] EXCEPT !.listing = None, !.shelf = shelf]
    BY <1>4, <2>1
  <2>3. app \in App /\ app.shelf = shelf /\ app.listing = None
    BY <1>5, <2>2 DEF App
  <2>4. \A f \in {"open", "seekGen", "jGen", "ackGen", "queue", "sending",
                   "replay", "adopting"} : app[f] = mem[d][f]
    BY <1>5, <2>2 DEF App
  <2> QED BY <2>1, <2>3, <2>4
<1>7. row' = row /\ stored' = stored /\ taken' = taken /\ clock' = clock
  BY DEF ListingArrives, serverVars, historyVars
<1>8. CASE NeedsSync(j, listed)
  <2>1. PICK seek \in BOOLEAN : seek = IntentAuthorizes(intent, j)
    BY DEF IntentAuthorizes
  <2>2. PICK flag \in BOOLEAN :
          flag = (seek /\ FlagsRegression(intent.target,
                            IF listed = None THEN None ELSE listed.pos))
    BY DEF FlagsRegression
  <2>3. PICK r : r = Request(d, j, seek, flag)
    OBVIOUS
  <2>4. PICK at \in Nat \cup {None} : at = IF seek THEN intent.at ELSE None
    BY <1>5, <2>1 DEF Intent, IntentAuthorizes
  <2>5. PICK call : call = [attempted |-> j, request |-> r, reply |-> None, intent |-> at]
    OBVIOUS
  <2>6. PICK sent : sent = [app EXCEPT !.replay = call]
    OBVIOUS
  <2>7. /\ mem' = [mem EXCEPT ![d] = sent] /\ requests' = requests \cup {r}
        /\ disk' = disk
    BY <1>1, <1>2, <1>3, <1>4, <1>8, <2>1, <2>2, <2>3, <2>4, <2>5, <2>6 DEF ListingArrives
  <2>8. j # None /\ j \in Copy /\ IsPending(j) /\ Informed(d, j.edit, j.base) /\ Leads(d, j)
    BY <1>1, <1>5, <1>8 DEF NeedsSync, DeviceInv, JournalInv, IsPending
  <2>9. /\ r.dev = d /\ r.edit = j.edit /\ r.cp.rec = j.rec /\ r.cp.pos = j.pos
        /\ r.cp.base = j.base /\ r \in SaveRequest
    <3>1. j.pos \in Nat /\ j.base \in Nat /\ j.rec \in Recording \cup {None} /\ j.edit \in Nat
      BY <2>8 DEF Copy, Position
    <3> QED BY <2>3, <3>1 DEF Request, CheckpointOf, SaveRequest, Checkpoint
  <2>10. SendsCopy(d, r, j)
    BY <2>8, <2>9 DEF SendsCopy
  <2>11. call \in Replay
    BY <2>5, <2>8, <2>9 DEF Replay
  <2>12. /\ sent \in App /\ sent.replay = call /\ sent.listing = None
         /\ sent.shelf = app.shelf
         /\ \A f \in {"open", "seekGen", "jGen", "ackGen", "queue", "sending",
                      "adopting"} : sent[f] = mem[d][f]
    BY <1>6, <2>6, <2>11 DEF App
  <2>13. mem'[d] = sent /\ (HasNewSeek(mem[d])' <=> HasNewSeek(mem[d]))
    BY <1>5, <2>7, <2>12 DEF SyncTypeOK, HasNewSeek
  <2>14. /\ RequestInv(d)' /\ Sent(d)' = Sent(d) \cup {r}
         /\ \A e : Recent(d, e) => Recent(d, e)'
         /\ \A e, b : Informed(d, e, b) => Informed(d, e, b)'
         /\ \A k \in Copy : Leads(d, k) /\ k.edit = j.edit /\ k.rec = j.rec /\ k.pos = j.pos
                => Leads(d, k)'
    BY <1>7, <2>7, <2>10, <2>13, SendingKeeps
  <2>15. SyncTypeOK'
    BY <1>5, <1>7, <2>7, <2>9, <2>12 DEF SyncTypeOK
  <2>16. Local(d)
    BY <1>5, <1>7, <2>7, <2>9 DEF Local, SyncTypeOK
  <2>17. JournalInv(d)'
    BY <1>1, <1>5, <1>7, <2>7, <2>8, <2>14 DEF DeviceInv, JournalInv, Stand
  <2>18. QueueInv(d)'
    <3>1. mem[d].queue # None =>
            /\ mem[d].queue.copy \in Copy /\ mem[d].queue.copy.edit = j.edit
            /\ mem[d].queue.copy.rec = j.rec /\ mem[d].queue.copy.pos = j.pos
      BY <1>1, <1>5, <2>8 DEF DeviceInv, QueueInv, App, Entry, IsPending
    <3> QED BY <1>5, <2>7, <2>12, <2>13, <2>14, <3>1 DEF DeviceInv, QueueInv
  <2>19. CallInv(d)'
    <3>1. call.request = r /\ call.attempted = j /\ call.reply = None
      BY <2>5
    <3>2. Carries(d, r, j)'
      BY <2>8, <2>9, <2>14 DEF Carries
    <3>3. mem'[d].sending = mem[d].sending /\ mem'[d].replay = call
      BY <2>12, <2>13
    <3>4. CallInv(d) /\ row' = row /\ Sent(d) \subseteq Sent(d)'
      BY <1>5, <1>7, <2>14 DEF DeviceInv
    <3> QED BY <3>1, <3>2, <3>3, <3>4 DEF CallInv, Carries, Answers, Stand
  <2>20. SeekInv(d)' /\ KnownInv(d)'
    BY <1>5, <1>6, <1>7, <2>12, <2>13 DEF DeviceInv, SeekInv, KnownInv, Stand
  <2> QED BY <2>14, <2>15, <2>16, <2>17, <2>18, <2>19, <2>20, LocalKeeps DEF DeviceInv
<1>9. CASE ~NeedsSync(j, listed)
  <2>1. PICK after : after = IF j # None /\ listed # None /\ IntentAuthorizes(intent, j)
                             THEN None ELSE intent
    OBVIOUS
  <2>2. /\ mem' = [mem EXCEPT ![d] = app] /\ requests' = requests
        /\ disk' = [disk EXCEPT ![d].intent = after]
    BY <1>1, <1>2, <1>3, <1>4, <1>5, <1>9, <2>1 DEF ListingArrives, SyncTypeOK
  <2>3. /\ disk'[d].journal = disk[d].journal /\ mem'[d] = app
        /\ Sent(d)' = Sent(d) /\ clock'[d] = clock[d] /\ taken'[d] = taken[d]
        /\ stored'[d] = stored[d]
    BY <1>5, <1>7, <2>2 DEF SyncTypeOK, Sent
  <2>4. SyncTypeOK'
    <3>1. after \in Intent \cup {None}
      BY <1>5, <2>1
    <3>2. disk' \in [Device -> [journal : Copy \cup {None}, intent : Intent \cup {None}]]
      BY <1>5, <2>2, <3>1 DEF SyncTypeOK
    <3> QED BY <1>5, <1>6, <1>7, <2>2, <3>2 DEF SyncTypeOK
  <2>5. Local(d)
    BY <1>5, <1>7, <2>2 DEF Local, SyncTypeOK
  <2>6. \A e : Recent(d, e) => Recent(d, e)'
    BY <1>6, <2>3 DEF Recent, HasNewSeek
  <2>7. \A e, b : Informed(d, e, b) => Informed(d, e, b)'
    BY <1>7, <2>3 DEF Informed
  <2>8. \A c : Leads(d, c) => Leads(d, c)'
    BY <2>3, <2>6 DEF Leads
  <2>9. RequestInv(d)'
    BY <1>5, <2>3, <2>6, <2>7 DEF DeviceInv, RequestInv
  <2>10. JournalInv(d)' /\ QueueInv(d)'
    BY <1>5, <1>6, <1>7, <2>3, <2>7, <2>8 DEF DeviceInv, JournalInv, QueueInv, Stand, HasNewSeek
  <2>11. CallInv(d)'
    BY <1>5, <1>6, <1>7, <2>3 DEF DeviceInv, CallInv, Carries, Answers, Stand
  <2>12. SeekInv(d)' /\ KnownInv(d)'
    BY <1>5, <1>6, <1>7, <2>3 DEF DeviceInv, SeekInv, KnownInv, Stand
  <2> QED BY <2>4, <2>5, <2>9, <2>10, <2>11, <2>12, LocalKeeps DEF DeviceInv
<1> QED BY <1>8, <1>9

\* An accepted reply that still shows the newest row tells of the device's own
\* edit: any later edit comes after what was stored.
LEMMA AnswerInforms ==
  ASSUME SyncInv, NEW d \in Device, NEW r \in Sent(d), NEW reply \in Reply, reply # None, Answers(r, reply),
         reply.accepted, row # None, reply.row.rev >= row.rev, NEW e \in Nat, r.edit < e
  PROVE  stored[d] < e
<1>1. SyncTypeOK /\ row \in Row /\ r \in requests
  BY DEF SyncInv, SyncTypeOK, Sent
<1>2. reply.row = row /\ row.rec = r.cp.rec
  BY <1>1, RulesAssumption DEF Answers, Stand, Row, Reply
<1>3. PICK s \in requests : s.edit = stored[s.dev] /\ s.cp.rec = row.rec
  BY <1>1 DEF SyncInv, StoredInv
<1>4. s.dev \in Device /\ s.edit \in Nat /\ r.edit \in Nat /\ s \in Sent(s.dev)
      /\ s.cp.rec \in Recording \cup {None} /\ r.cp.rec \in Recording \cup {None}
  BY <1>1, <1>3 DEF SyncTypeOK, SaveRequest, Sent, Checkpoint
<1>5. OwnRecording(d, Mark(r)) /\ OwnRecording(s.dev, Mark(s))
  BY <1>4 DEF SyncInv, DeviceInv, RequestInv
<1>6. s.dev = d
  BY <1>2, <1>3, <1>5 DEF OwnRecording, Mark
<1>7. InOrder(Mark(r), Mark(s)) /\ InOrder(Mark(s), Mark(r))
  BY <1>4, <1>6 DEF SyncInv, DeviceInv, RequestInv
<1>8. r.cp.rec \in Recording /\ r.cp.rec.seq \in Nat /\ s.cp.rec = r.cp.rec
  BY <1>2, <1>3, <1>4, <1>5 DEF OwnRecording, Mark, Recording
<1>9. s.edit = r.edit
  BY <1>4, <1>7, <1>8 DEF InOrder, Mark
<1> QED BY <1>3, <1>4, <1>6, <1>9

\* What the journal becomes when a reply is taken.
Settled(j, a, reply) ==
  IF ReplyWins(j, a) THEN CanonicalOf(reply, a, j) ELSE Rebased(j, a, reply)

\* An edit that a reply does not answer comes after the one it does.
LEMMA LaterIsLater ==
  ASSUME SyncInv, NEW d \in Device, NEW r, NEW a \in Copy, Carries(d, r, a),
         NEW c \in Copy, IsPending(c), Leads(d, c), ~SameCopy(c, a)
  PROVE  /\ r.edit < c.edit
         /\ r.cp.rec.id = c.rec.id => r.cp.rec.seq < c.rec.seq
<1>1. r.edit <= c.edit /\ InOrder(Mark(r), c) /\ r.edit \in Nat /\ c.edit \in Nat
  BY DEF Carries, Leads, SyncInv, SyncTypeOK, SaveRequest, Sent, Copy
<1>2. r.edit # c.edit
  BY <1>1 DEF SameCopy, Carries, IsPending, InOrder, Mark
<1> QED BY <1>1, <1>2 DEF InOrder, Mark

\* The settled journal is the edit it was, or the server's answer to it.
LEMMA SettledIs ==
  ASSUME SyncInv, NEW d \in Device, NEW r, NEW a \in Copy, Carries(d, r, a),
         NEW reply \in Reply, reply # None, Answers(r, reply),
         NEW j, j = disk[d].journal, NEW s, s = Settled(j, a, reply)
  PROVE  /\ j \in Copy /\ s \in Copy /\ s.edit = j.edit
         /\ s.acked # None => s.acked <= Stand
         /\ s.owned => j.owned /\ s.rec = j.rec /\ s.pos = j.pos
         /\ s.status = "synced" => s.rev > 0
         /\ s.base \in {j.base, reply.row.rev}
         /\ s.base # j.base => reply.accepted
         /\ s.status = "pending" => IsPending(s) /\ IsPending(j) /\ ~ReplyWins(j, a)
         /\ ~ReplyWins(j, a) /\ s # j => IsPending(j)
<1>1. /\ SyncTypeOK /\ DeviceInv(d) /\ j \in Copy /\ j # None
      /\ 0 < reply.row.rev /\ reply.row.rev <= Stand
  <2>1. Sent(d) # {}
    BY DEF Carries
  <2> QED BY <2>1 DEF SyncInv, SyncTypeOK, DeviceInv, JournalInv, Carries, Answers
<1>2. j.owned => j.rec # None /\ Leads(d, j)
  BY <1>1 DEF DeviceInv, JournalInv, Leads, OwnRecording
<1>3. j.status = "pending" => IsPending(j)
  BY <1>1 DEF DeviceInv, JournalInv
<1>4. /\ j.status = "synced" => j.rev > 0
      /\ j.acked # None => j.acked <= Stand
      /\ j.status \in {"pending", "synced"} /\ reply.accepted \in BOOLEAN
  BY <1>1 DEF DeviceInv, JournalInv, Copy, Reply
<1>5. CASE ReplyWins(j, a)
  <2>1. SameCopy(j, a) /\ s = CanonicalOf(reply, a, j)
    BY <1>1, <1>5 DEF ReplyWins, Settled
  <2>2. IsPending(j)
    BY <1>3, <1>4, <2>1 DEF SameCopy, Carries, IsPending, Copy
  <2>3. /\ s \in Copy /\ s.status = "synced" /\ s.rev = reply.row.rev
        /\ s.acked = reply.row.rev /\ s.edit = j.edit
        /\ s.pos = reply.row.pos /\ s.rec = reply.row.rec
        /\ s.base = IF reply.accepted THEN reply.row.rev ELSE j.base
        /\ s.owned => reply.accepted /\ a.owned
    BY <1>1, <2>1, CanonicalIs
  <2>4. s.owned => s.rec = j.rec /\ s.pos = j.pos
    BY <1>1, <2>1, <2>3 DEF Answers, SameCopy, Carries
  <2> QED BY <1>1, <1>5, <2>2, <2>3, <2>4 DEF IsPending
<1>6. CASE ~ReplyWins(j, a)
  <2>1. ~SameCopy(j, a) /\ s = Rebased(j, a, reply)
    BY <1>1, <1>6 DEF ReplyWins, Settled
  <2>2. IsPast(j, reply)
    BY <1>1, <1>2, <1>3, <2>1, LaterIsLater DEF Answers, IsPast
  <2>3. s = j \/ IsRebasedOn(s, j, a, reply)
    BY <1>1, <2>1, <2>2, RebasedIs
  <2> QED BY <1>1, <1>3, <1>4, <1>6, <2>3 DEF IsPending, IsRebasedOn
<1> QED BY <1>5, <1>6

\* A queued copy is rebased with the journal it belongs to.
Requeued(q, j, a, s, reply) ==
  IF ReplyWins(j, a) \/ s = j \/ q = None THEN q
  ELSE [q EXCEPT !.copy = Rebased(q.copy, a, reply)]

\* What taking a reply changes in a running app.
TakesReply(d, app, j, s, a, reply) ==
  /\ app.queue = Requeued(mem[d].queue, j, a, s, reply)
  /\ app.shelf \in {mem[d].shelf, s.acked}
  /\ \A f \in {"open", "seekGen", "jGen", "listing", "adopting"} : app[f] = mem[d][f]
  /\ app.sending \in {None, mem[d].sending} /\ app.replay \in {None, mem[d].replay}
  /\ mem[d].ackGen <= app.ackGen /\ app.ackGen <= app.seekGen

\* Taking the reply to a call keeps the invariant.
LEMMA ReplyKeeps ==
  ASSUME SyncInv, NEW d \in Device, NEW r, NEW a \in Copy, Carries(d, r, a),
         NEW reply \in Reply, reply # None, Answers(r, reply),
         NEW j, j = disk[d].journal, NEW s, s = Settled(j, a, reply),
         NEW intent \in Intent \cup {None}, NEW app \in App, TakesReply(d, app, j, s, a, reply),
         disk' = [disk EXCEPT ![d] = [journal |-> s, intent |-> intent]],
         mem' = [mem EXCEPT ![d] = app], taken' = Took(d, reply),
         row' = row, stored' = stored, clock' = clock, requests' = requests
  PROVE  SyncInv'
<1>1. /\ SyncTypeOK /\ DeviceInv(d) /\ mem[d] \in App /\ taken[d] \in Nat
      /\ 0 < reply.row.rev /\ reply.row.rev <= Stand /\ reply.row.rev \in Nat
      /\ reply.accepted \in BOOLEAN /\ r \in Sent(d) /\ taken[d] <= Stand
      /\ row \in Row \cup {None} /\ s # None
  <2>1. s # None
    BY SettledIs, SyncAssumption
  <2> QED BY <2>1 DEF SyncInv, SyncTypeOK, Answers, Carries, Reply, Row, DeviceInv, KnownInv
<1>2. /\ j \in Copy /\ s \in Copy /\ s.edit = j.edit
      /\ s.acked # None => s.acked <= Stand
      /\ s.owned => j.owned /\ s.rec = j.rec /\ s.pos = j.pos
      /\ s.status = "synced" => s.rev > 0
      /\ s.base \in {j.base, reply.row.rev}
      /\ s.base # j.base => reply.accepted
      /\ s.status = "pending" => IsPending(s) /\ IsPending(j) /\ ~ReplyWins(j, a)
      /\ ~ReplyWins(j, a) /\ s # j => IsPending(j)
  BY SettledIs
<1>3. /\ disk'[d].journal = s /\ mem'[d] = app /\ clock'[d] = clock[d]
      /\ stored'[d] = stored[d] /\ Sent(d)' = Sent(d)
  BY <1>1 DEF SyncTypeOK, Sent
<1>4. /\ taken'[d] \in Nat /\ taken[d] <= taken'[d] /\ taken'[d] <= Stand
      /\ reply.accepted => reply.row.rev <= taken'[d]
      /\ \A e \in Device \ {d} : taken'[e] = taken[e]
      /\ taken' \in [Device -> Nat]
  BY <1>1 DEF Took, Raise, Larger, SyncTypeOK
<1>5. /\ HasNewSeek(app) => HasNewSeek(mem[d])
      /\ \A f \in {"open", "seekGen", "jGen", "listing", "adopting"} : app[f] = mem[d][f]
  BY <1>1 DEF TakesReply, HasNewSeek, Larger, App
<1>6. \A e : Recent(d, e) => Recent(d, e)'
  BY <1>3, <1>5 DEF Recent
<1>7. \A e, b \in Nat : Informed(d, e, b) => Informed(d, e, b)'
  BY <1>1, <1>3, <1>4 DEF Informed
<1>8. \A c : Leads(d, c) => Leads(d, c)'
  BY <1>3, <1>6 DEF Leads
<1>9. ASSUME NEW c \in Copy, reply.accepted, r.edit < c.edit
      PROVE  Informed(d, c.edit, reply.row.rev)'
  <2>1. row # None /\ reply.row.rev >= row.rev => c.edit > stored[d]
    <3>1. ASSUME row # None, reply.row.rev >= row.rev
          PROVE  c.edit > stored[d]
      <4>1. c.edit \in Nat /\ stored[d] \in Nat
        BY <1>1 DEF Copy, SyncTypeOK
      <4>2. stored[d] < c.edit
        BY <1>1, <1>9, <3>1, <4>1, AnswerInforms
      <4> QED BY <4>1, <4>2
    <3> QED BY <3>1
  <2> QED BY <1>3, <1>4, <1>9, <2>1 DEF Informed
<1>10. RequestInv(d)'
  <2>1. \A t \in Sent(d) : t.cp.base \in Nat \cup {None} /\ t.edit \in Nat
    BY <1>1 DEF SyncTypeOK, SaveRequest, Checkpoint, Sent
  <2> QED BY <1>1, <1>3, <1>6, <1>7, <2>1 DEF DeviceInv, RequestInv
<1>11. j.base \in Nat /\ j.edit \in Nat /\ s.base \in Nat /\ j # None
  BY <1>2, SyncAssumption DEF Copy
<1>12. IsPending(j) /\ ~ReplyWins(j, a) => r.edit < j.edit
  <2>1. IsPending(j) => Leads(d, j)
    BY <1>1, <1>11 DEF DeviceInv, JournalInv, IsPending
  <2> QED BY <1>2, <1>11, <2>1, LaterIsLater DEF ReplyWins
<1>13. JournalInv(d)'
  <2>1. s.base <= taken'[d]
    BY <1>1, <1>2, <1>4, <1>11 DEF DeviceInv, JournalInv
  <2>2. s.status = "pending" => Informed(d, s.edit, s.base)'
    <3>1. CASE s.base = j.base
      BY <1>1, <1>2, <1>7, <1>11, <3>1 DEF DeviceInv, JournalInv, IsPending
    <3>2. CASE s.base # j.base
      BY <1>2, <1>9, <1>12, <3>2
    <3> QED BY <3>1, <3>2
  <2>3. s.owned => Leads(d, s)'
    <3>1. j.owned => Leads(d, j)'
      BY <1>1, <1>8, <1>11 DEF DeviceInv, JournalInv
    <3> QED BY <1>2, <3>1 DEF Leads, OwnRecording, InOrder
  <2> QED BY <1>1, <1>2, <1>3, <2>1, <2>2, <2>3 DEF JournalInv, Stand
<1>14. QueueInv(d)' /\ (app.queue # None => /\ mem[d].queue # None
                                            /\ app.queue.gen = mem[d].queue.gen)
  <2>0. PICK q : q = mem[d].queue
    OBVIOUS
  <2>1. q # None => /\ q \in Entry /\ q.copy \in Copy
                    /\ IsPending(q.copy) /\ Informed(d, q.copy.edit, q.copy.base)
                    /\ Leads(d, q.copy) /\ j.edit = q.copy.edit
                    /\ j.owned => j.rec = q.copy.rec /\ j.pos = q.copy.pos
    BY <1>1, <2>0 DEF DeviceInv, QueueInv, App, Entry
  <2>2. q # None => /\ IsPending(q.copy) /\ Informed(d, q.copy.edit, q.copy.base)'
                    /\ Leads(d, q.copy)'
    BY <1>7, <1>8, <2>1 DEF Copy
  <2>3. CASE app.queue = q
    BY <1>1, <1>2, <1>3, <2>0, <2>1, <2>2, <2>3 DEF QueueInv
  <2>4. CASE app.queue # q
    <3>1. /\ ~ReplyWins(j, a) /\ s # j /\ q # None
          /\ app.queue = [q EXCEPT !.copy = Rebased(q.copy, a, reply)]
      BY <2>0, <2>4 DEF TakesReply, Requeued
    <3>2. PICK k : k = Rebased(q.copy, a, reply)
      OBVIOUS
    <3>3. app.queue.copy = k /\ app.queue.gen = q.gen
      BY <2>1, <3>1, <3>2 DEF Entry
    <3>4. r.edit < q.copy.edit /\ ~SameCopy(q.copy, a)
      <4>1. r.edit < q.copy.edit /\ a.edit = r.edit
        BY <1>2, <1>12, <2>1, <3>1 DEF Carries
      <4> QED BY <4>1, <1>11, <2>1, <3>1 DEF SameCopy, Copy
    <3>5. IsPast(q.copy, reply)
      <4>1. r.cp.rec.id = q.copy.rec.id => r.cp.rec.seq < q.copy.rec.seq
        BY <2>1, <3>1, <3>4, LaterIsLater
      <4> QED BY <2>1, <3>1, <4>1 DEF IsPast, Answers, Leads, OwnRecording
    <3>6. k = q.copy \/ IsRebasedOn(k, q.copy, a, reply)
      BY <2>1, <3>1, <3>2, <3>5, RebasedIs
    <3>7. /\ IsPending(k) /\ k.edit = q.copy.edit /\ k.rec = q.copy.rec /\ k.pos = q.copy.pos
          /\ Informed(d, k.edit, k.base)'
      BY <1>9, <2>1, <2>2, <3>1, <3>4, <3>6 DEF IsRebasedOn, IsPending
    <3>8. Leads(d, k)'
      BY <2>2, <3>1, <3>7 DEF Leads, OwnRecording, InOrder
    <3>9. s # None /\ s.edit = k.edit /\ (s.owned => s.rec = k.rec /\ s.pos = k.pos)
      BY <1>1, <1>2, <2>1, <3>1, <3>7
    <3>10. QueueInv(d)'
      BY <1>3, <3>3, <3>7, <3>8, <3>9 DEF QueueInv
    <3> QED BY <2>0, <3>1, <3>3, <3>10
  <2> QED BY <2>0, <2>3, <2>4
<1>15. CallInv(d)'
  <2>1. CallInv(d)
    BY <1>1 DEF DeviceInv
  <2> QED BY <1>1, <1>3, <2>1 DEF CallInv, Carries, Answers, Stand, TakesReply
<1>16. SeekInv(d)'
  BY <1>1, <1>3, <1>5, <1>14 DEF DeviceInv, SeekInv, TakesReply
<1>17. KnownInv(d)'
  BY <1>1, <1>2, <1>3, <1>4, <1>5 DEF DeviceInv, KnownInv, TakesReply, Stand
<1>18. SyncTypeOK'
  <2>1. disk' \in [Device -> [journal : Copy \cup {None}, intent : Intent \cup {None}]]
    BY <1>1, <1>2 DEF SyncTypeOK
  <2> QED BY <1>1, <1>4, <2>1 DEF SyncTypeOK
<1>19. Local(d)
  BY <1>1, <1>4 DEF Local, SyncTypeOK
<1> QED BY <1>10, <1>13, <1>14, <1>15, <1>16, <1>17, <1>18, <1>19, LocalKeeps DEF DeviceInv

\* A rebased copy is a copy.
LEMMA RebasedType ==
  ASSUME NEW reply \in Reply, NEW attempted \in Copy, NEW copy \in Copy,
         copy.owned => copy.rec # None
  PROVE  Rebased(copy, attempted, reply) \in Copy
<1>1. RebasedRecording(copy, reply) \in Recording \cup {None}
  <2>1. CASE copy.owned /\ reply.row.rec # None
    <3>1. copy.rec \in Recording /\ reply.row.rec \in Recording
      BY <2>1 DEF Copy, Reply, Row
    <3>2. [copy.rec EXCEPT !.seq = reply.row.rec.seq + 1] \in Recording
      BY <3>1 DEF Recording
    <3> QED BY <3>1, <3>2 DEF RebasedRecording
  <2>2. CASE ~(copy.owned /\ reply.row.rec # None)
    BY <2>2 DEF RebasedRecording, Copy
  <2> QED BY <2>1, <2>2
<1>2. PICK rec \in Recording \cup {None} : rec = RebasedRecording(copy, reply)
  BY <1>1
<1>3. Rebased(copy, attempted, reply) \in
        {copy, [copy EXCEPT !.base = reply.row.rev, !.acked = reply.row.rev, !.rec = rec]}
  BY <1>2 DEF Rebased
<1>4. [copy EXCEPT !.base = reply.row.rev, !.acked = reply.row.rev, !.rec = rec] \in Copy
  BY <1>2 DEF Copy, Reply, Row
<1> QED BY <1>3, <1>4

\* What Reconcile returns.
LEMMA ReconcileIs ==
  ASSUME NEW app \in App, NEW a \in Copy, NEW reply \in Reply, NEW j \in Copy,
         NEW s \in Copy, s = Settled(j, a, reply),
         app.queue # None /\ app.queue.copy.owned => app.queue.copy.rec # None,
         NEW after, after = Reconcile(app, j, a, reply)
  PROVE  /\ after.journal = s /\ after.app \in App
         /\ after.app.queue = Requeued(app.queue, j, a, s, reply)
         /\ after.app.shelf \in {app.shelf, s.acked}
         /\ \A f \in {"open", "seekGen", "jGen", "ackGen", "sending", "listing", "replay",
                      "adopting"} : after.app[f] = app[f]
<1>1. PICK wins \in BOOLEAN : wins <=> ReplyWins(j, a)
  OBVIOUS
<1>2. PICK stores \in BOOLEAN : stores <=> (wins \/ s # j)
  OBVIOUS
<1>3. ~wins => s = Rebased(j, a, reply)
  BY <1>1 DEF Settled
<1>4. PICK q : q = Requeued(app.queue, j, a, s, reply)
  OBVIOUS
<1>5. q \in Entry \cup {None}
  <2>1. app.queue # None => app.queue \in Entry /\ app.queue.copy \in Copy
    BY DEF App, Entry
  <2>2. app.queue # None => Rebased(app.queue.copy, a, reply) \in Copy
    BY <2>1, RebasedType
  <2>3. app.queue # None => [app.queue EXCEPT !.copy = Rebased(app.queue.copy, a, reply)] \in Entry
    BY <2>1, <2>2 DEF Entry
  <2> QED BY <1>4, <2>1, <2>3 DEF Requeued
<1>6. PICK shelf \in {app.shelf, s.acked} : shelf = IF stores THEN s.acked ELSE app.shelf
  OBVIOUS
<1>7. PICK pos \in Position \cup {None} : pos = IF wins THEN reply.row.pos ELSE app.ackPos
  BY DEF App, Reply, Row
<1>8. PICK over \in BOOLEAN : over = (app.overruled \/ (wins /\ ~reply.accepted))
  OBVIOUS
<1>9. after.journal = s
  BY DEF Reconcile, Settled
<1>10. after.app = [app EXCEPT !.queue = q, !.shelf = shelf, !.ackPos = pos,
                               !.overruled = over]
  <2>2. after.app = [app EXCEPT !.queue = after.app.queue, !.shelf = after.app.shelf,
                                !.ackPos = after.app.ackPos, !.overruled = after.app.overruled]
    BY DEF Reconcile, App
  <2>3. after.app.queue = q
    <3>1. CASE wins
      BY <1>1, <1>4, <3>1 DEF Reconcile, App, Requeued
    <3>2. CASE ~wins /\ s = j
      BY <1>1, <1>3, <1>4, <3>2 DEF Reconcile, App, Requeued
    <3>3. CASE ~wins /\ s # j
      <4>1. ~ReplyWins(j, a) /\ Rebased(j, a, reply) # j
        BY <1>1, <1>3, <3>3
      <4>2. PICK k : k = [app.queue EXCEPT !.copy = Rebased(app.queue.copy, a, reply)]
        OBVIOUS
      <4>3. after.app.queue = IF app.queue = None THEN app.queue ELSE k
        <5>1. CASE app.queue = None
          BY <4>1, <5>1 DEF Reconcile, App
        <5>2. CASE app.queue # None
          <6>1. after.app.queue = [app.queue EXCEPT !.copy = Rebased(app.queue.copy, a, reply)]
            BY <4>1, <5>2 DEF Reconcile, App
          <6> QED BY <4>2, <5>2, <6>1
        <5> QED BY <5>1, <5>2
      <4>4. q = IF app.queue = None THEN app.queue ELSE k
        BY <1>4, <3>3, <4>1, <4>2 DEF Requeued
      <4> QED BY <4>3, <4>4
    <3> QED BY <3>1, <3>2, <3>3
  <2>4. after.app.shelf = shelf
    BY <1>1, <1>2, <1>3, <1>6 DEF Reconcile, App, Settled
  <2>5. after.app.ackPos = pos
    BY <1>1, <1>7 DEF Reconcile, App
  <2>6. after.app.overruled = over
    BY <1>1, <1>8 DEF Reconcile, App
  <2> QED BY <2>2, <2>3, <2>4, <2>5, <2>6
<1>11. after.app \in App
  <2>1. shelf \in Nat \cup {None}
    BY <1>6 DEF App, Copy
  <2> QED BY <1>5, <1>7, <1>8, <1>10, <2>1 DEF App
<1>12. /\ after.app.queue = q /\ after.app.shelf = shelf
       /\ \A f \in {"open", "seekGen", "jGen", "ackGen", "sending", "listing", "replay",
                    "adopting"} : after.app[f] = app[f]
  BY <1>10 DEF App
<1> QED BY <1>4, <1>6, <1>9, <1>11, <1>12

\* The reply to a save is taken.
LEMMA SaveReturnsKeeps ==
  ASSUME SyncInv, NEW d \in Device, SaveReturns(d)
  PROVE  SyncInv'
<1>1. PICK call : call = mem[d].sending
  OBVIOUS
<1>2. PICK j : j = disk[d].journal
  OBVIOUS
<1>3. PICK a : a = call.entry.copy
  OBVIOUS
<1>4. PICK reply : reply = call.reply
  OBVIOUS
<1>5. PICK after : after = Reconcile(mem[d], j, a, reply)
  OBVIOUS
<1>6. PICK s : s = Settled(j, a, reply)
  OBVIOUS
<1>7. PICK r : r = call.request
  OBVIOUS
<1>8. /\ SyncTypeOK /\ DeviceInv(d) /\ mem[d] \in App /\ call \in Sending
      /\ a \in Copy /\ reply \in Reply /\ reply # None /\ call.entry \in Entry
      /\ Carries(d, r, a) /\ Answers(r, reply) /\ call # None
      /\ disk[d].intent \in Intent \cup {None}
  BY <1>1, <1>3, <1>4, <1>7
     DEF SaveReturns, SyncInv, SyncTypeOK, App, Sending, Entry, DeviceInv, CallInv
<1>9. j \in Copy /\ s \in Copy
  BY <1>2, <1>6, <1>8, SettledIs
<1>10. mem[d].queue # None /\ mem[d].queue.copy.owned => mem[d].queue.copy.rec # None
  BY <1>8 DEF DeviceInv, QueueInv, Leads, OwnRecording
<1>11. /\ after.journal = s /\ after.app \in App
       /\ after.app.queue = Requeued(mem[d].queue, j, a, s, reply)
       /\ after.app.shelf \in {mem[d].shelf, s.acked}
       /\ \A f \in {"open", "seekGen", "jGen", "ackGen", "sending", "listing", "replay",
                    "adopting"} : after.app[f] = mem[d][f]
  BY <1>5, <1>6, <1>8, <1>9, <1>10, ReconcileIs
<1>12. PICK over \in BOOLEAN :
         over = (after.app.overruled \/ (/\ ReplyWins(j, a)
                                         /\ Apart(a.pos, reply.row.pos)))
  OBVIOUS
<1>13. PICK gen \in Nat : /\ gen = Larger(after.app.ackGen, call.entry.gen)
                          /\ mem[d].ackGen <= gen /\ gen <= mem[d].seekGen
  <2>1. /\ after.app.ackGen = mem[d].ackGen /\ mem[d].ackGen \in Nat
        /\ mem[d].ackGen <= mem[d].seekGen /\ call.entry.gen <= mem[d].seekGen
        /\ call.entry.gen \in Nat
    BY <1>1, <1>8, <1>11 DEF App, Entry, DeviceInv, SeekInv
  <2> QED BY <2>1 DEF Larger
<1>14. PICK app : app = [after.app EXCEPT !.sending = None, !.ackPos = reply.row.pos,
                                          !.ackGen = gen, !.overruled = over]
  OBVIOUS
<1>15. PICK intent : intent = Acknowledged(disk[d].intent, call.entry.intent)
  OBVIOUS
<1>16. intent \in Intent \cup {None}
  BY <1>8, <1>15 DEF Acknowledged
<1>17. /\ disk' = [disk EXCEPT ![d] = [journal |-> s, intent |-> intent]]
       /\ mem' = [mem EXCEPT ![d] = app] /\ taken' = Took(d, reply)
       /\ row' = row /\ stored' = stored /\ clock' = clock /\ requests' = requests
  <2>1. /\ disk' = [disk EXCEPT ![d] = [journal |-> after.journal, intent |-> intent]]
        /\ taken' = Took(d, reply)
        /\ row' = row /\ stored' = stored /\ clock' = clock /\ requests' = requests
    BY <1>1, <1>2, <1>3, <1>4, <1>5, <1>15 DEF SaveReturns, serverVars
  <2>2. mem' = [mem EXCEPT ![d] =
           [after.app EXCEPT !.sending = None, !.ackPos = reply.row.pos,
              !.ackGen = Larger(@, call.entry.gen),
              !.overruled = @ \/ (ReplyWins(j, a) /\ Apart(a.pos, reply.row.pos))]]
    BY <1>1, <1>2, <1>3, <1>4, <1>5 DEF SaveReturns
  <2> QED BY <1>11, <1>12, <1>13, <1>14, <2>1, <2>2
<1>18. /\ app \in App /\ app.ackGen = gen /\ app.sending = None
       /\ \A f \in {"open", "seekGen", "jGen", "queue", "shelf", "listing", "replay",
                    "adopting"} : app[f] = after.app[f]
  <2>1. reply.row.pos \in Position
    BY <1>8 DEF Reply, Row
  <2> QED BY <1>11, <1>14, <2>1 DEF App
<1>19. TakesReply(d, app, j, s, a, reply)
  BY <1>11, <1>13, <1>18 DEF TakesReply
<1> QED BY <1>2, <1>6, <1>8, <1>16, <1>17, <1>18, <1>19, ReplyKeeps

\* The reply to a replay is taken.
LEMMA ReplayReturnsKeeps ==
  ASSUME SyncInv, NEW d \in Device, ReplayReturns(d)
  PROVE  SyncInv'
<1>1. PICK call : call = mem[d].replay
  OBVIOUS
<1>2. PICK j : j = disk[d].journal
  OBVIOUS
<1>3. PICK a : a = call.attempted
  OBVIOUS
<1>4. PICK reply : reply = call.reply
  OBVIOUS
<1>5. PICK after : after = Reconcile(mem[d], j, a, reply)
  OBVIOUS
<1>6. PICK s : s = Settled(j, a, reply)
  OBVIOUS
<1>7. PICK r : r = call.request
  OBVIOUS
<1>8. /\ SyncTypeOK /\ DeviceInv(d) /\ mem[d] \in App /\ call \in Replay
      /\ a \in Copy /\ reply \in Reply /\ reply # None
      /\ Carries(d, r, a) /\ Answers(r, reply) /\ call # None
      /\ disk[d].intent \in Intent \cup {None}
  BY <1>1, <1>3, <1>4, <1>7
     DEF ReplayReturns, SyncInv, SyncTypeOK, App, Replay, DeviceInv, CallInv
<1>9. j \in Copy /\ s \in Copy
  BY <1>2, <1>6, <1>8, SettledIs
<1>10. mem[d].queue # None /\ mem[d].queue.copy.owned => mem[d].queue.copy.rec # None
  BY <1>8 DEF DeviceInv, QueueInv, Leads, OwnRecording
<1>11. /\ after.journal = s /\ after.app \in App
       /\ after.app.queue = Requeued(mem[d].queue, j, a, s, reply)
       /\ after.app.shelf \in {mem[d].shelf, s.acked}
       /\ \A f \in {"open", "seekGen", "jGen", "ackGen", "sending", "listing", "replay",
                    "adopting"} : after.app[f] = mem[d][f]
  BY <1>5, <1>6, <1>8, <1>9, <1>10, ReconcileIs
<1>12. PICK app : app = [after.app EXCEPT !.replay = None]
  OBVIOUS
<1>13. PICK intent : intent = Acknowledged(disk[d].intent, call.intent)
  OBVIOUS
<1>14. intent \in Intent \cup {None}
  BY <1>8, <1>13 DEF Acknowledged
<1>15. /\ disk' = [disk EXCEPT ![d] = [journal |-> s, intent |-> intent]]
       /\ mem' = [mem EXCEPT ![d] = app] /\ taken' = Took(d, reply)
       /\ row' = row /\ stored' = stored /\ clock' = clock /\ requests' = requests
  BY <1>1, <1>2, <1>3, <1>4, <1>5, <1>11, <1>12, <1>13 DEF ReplayReturns, serverVars
<1>16. /\ app \in App /\ app.replay = None
       /\ \A f \in {"open", "seekGen", "jGen", "ackGen", "queue", "shelf", "listing",
                    "sending", "adopting"} : app[f] = after.app[f]
  BY <1>11, <1>12 DEF App
<1>17. mem[d].ackGen <= app.ackGen /\ app.ackGen <= app.seekGen
  BY <1>8, <1>11, <1>16 DEF App, DeviceInv, SeekInv
<1>18. TakesReply(d, app, j, s, a, reply)
  BY <1>11, <1>16, <1>17 DEF TakesReply
<1> QED BY <1>2, <1>6, <1>8, <1>14, <1>15, <1>16, <1>18, ReplyKeeps

\* The server's place is taken up.
LEMMA AdoptionKeeps ==
  ASSUME SyncInv, NEW d \in Device, FinishAdoption(d)
  PROVE  SyncInv'
<1>1. PICK fetched : fetched = mem[d].adopting.row
  OBVIOUS
<1>2. PICK j : j = disk[d].journal
  OBVIOUS
<1>3. PICK app : app = [mem[d] EXCEPT !.adopting = None]
  OBVIOUS
<1>4. /\ SyncTypeOK /\ DeviceInv(d) /\ mem[d] \in App /\ fetched \in Row
      /\ j \in Copy \cup {None} /\ clock[d] \in Nat /\ taken[d] \in Nat /\ mem[d].adopting # None
      /\ 0 < fetched.rev /\ fetched.rev <= Stand /\ fetched.rev \in Nat /\ taken[d] <= Stand
  BY <1>1, <1>2 DEF FinishAdoption, SyncInv, SyncTypeOK, App, DeviceInv, KnownInv, Row
<1>5. /\ app \in App /\ app.adopting = None
      /\ \A f \in {"open", "seekGen", "jGen", "ackGen", "queue", "shelf", "listing", "replay",
                   "sending"} : app[f] = mem[d][f]
  BY <1>3, <1>4 DEF App
<1>6. row' = row /\ stored' = stored /\ clock' = clock /\ requests' = requests
  BY DEF FinishAdoption, serverVars
<1>7. /\ mem[d].seekGen \in Nat
      /\ mem[d].jGen <= mem[d].seekGen /\ mem[d].ackGen <= mem[d].seekGen
      /\ mem[d].queue # None => mem[d].queue.gen <= mem[d].seekGen
      /\ mem[d].open => HasNewSeek(mem[d]) \/ disk[d].journal # None
  BY <1>2, <1>4 DEF DeviceInv, SeekInv, JournalInv, App
<1>8. CASE Adopts(d)
  <2>1. PICK c : c = SyncedCopy(fetched, IF j = None THEN clock[d] ELSE j.edit, FALSE)
    OBVIOUS
  <2>2. PICK adopted : adopted = [app EXCEPT !.head = fetched.pos, !.ackPos = fetched.pos,
                                             !.shelf = fetched.rev, !.overruled = FALSE]
    OBVIOUS
  <2>3. /\ mem' = [mem EXCEPT ![d] = adopted]
        /\ disk' = [disk EXCEPT ![d].journal = c]
        /\ taken' = Raise(taken, d, fetched.rev)
    BY <1>1, <1>2, <1>3, <1>4, <1>8, <2>1, <2>2 DEF FinishAdoption, SyncTypeOK
  <2>4. /\ c \in Copy /\ c.status = "synced" /\ c.rev = fetched.rev /\ c.base = fetched.rev
        /\ c.acked = fetched.rev /\ c.owned = FALSE
        /\ j # None => c.edit = j.edit
    <3>1. PICK e \in Nat : e = IF j = None THEN clock[d] ELSE j.edit
      BY <1>4 DEF Copy
    <3>2. PICK no \in BOOLEAN : no = FALSE
      OBVIOUS
    <3>3. c = SyncedCopy(fetched, e, no)
      BY <2>1, <3>1, <3>2
    <3>4. /\ c \in Copy /\ c.status = "synced" /\ c.rev = fetched.rev /\ c.base = fetched.rev
          /\ c.acked = fetched.rev /\ c.owned = no /\ c.edit = e
      BY <1>4, <3>3, SyncedCopyIs
    <3> QED BY <3>1, <3>2, <3>4
  <2>5. /\ adopted \in App /\ adopted.shelf = fetched.rev
        /\ \A f \in {"open", "seekGen", "jGen", "ackGen", "queue", "listing", "replay",
                     "sending", "adopting"} : adopted[f] = app[f]
    <3>1. PICK no \in BOOLEAN : no = FALSE
      OBVIOUS
    <3>2. adopted = [app EXCEPT !.head = fetched.pos, !.ackPos = fetched.pos,
                                !.shelf = fetched.rev, !.overruled = no]
      BY <2>2, <3>1
    <3>3. adopted \in App
      <4>1. PICK pos \in Position, rev \in Nat : pos = fetched.pos /\ rev = fetched.rev
        BY <1>4 DEF Row
      <4>2. adopted = [app EXCEPT !.head = pos, !.ackPos = pos, !.shelf = rev, !.overruled = no]
        BY <3>2, <4>1
      <4>3. app \in App
        BY <1>5
      <4> QED BY <4>2, <4>3 DEF App
    <3>4. adopted.shelf = fetched.rev
      BY <1>5, <3>2 DEF App
    <3>5. \A f \in {"open", "seekGen", "jGen", "ackGen", "queue", "listing", "replay",
                    "sending", "adopting"} : adopted[f] = app[f]
      BY <1>5, <3>2 DEF App
    <3> QED BY <3>3, <3>4, <3>5
  <2>6. /\ disk'[d].journal = c /\ mem'[d] = adopted /\ clock'[d] = clock[d]
        /\ stored'[d] = stored[d] /\ Sent(d)' = Sent(d)
    BY <1>4, <1>6, <2>3 DEF SyncTypeOK, Sent
  <2>7. /\ taken'[d] \in Nat /\ taken[d] <= taken'[d] /\ fetched.rev <= taken'[d]
        /\ taken'[d] <= Stand /\ taken' \in [Device -> Nat]
    BY <1>4, <2>3 DEF Raise, Larger, SyncTypeOK
  <2>8. SyncTypeOK'
    <3>1. disk' \in [Device -> [journal : Copy \cup {None}, intent : Intent \cup {None}]]
      BY <1>4, <2>3, <2>4 DEF SyncTypeOK
    <3> QED BY <1>4, <1>6, <2>3, <2>5, <2>7, <3>1 DEF SyncTypeOK
  <2>9. Local(d)
    BY <1>4, <1>6, <2>3 DEF Local, SyncTypeOK, Raise
  <2>10. \A e : Recent(d, e) => Recent(d, e)'
    BY <1>5, <2>5, <2>6 DEF Recent, HasNewSeek
  <2>11. \A e, b \in Nat : Informed(d, e, b) => Informed(d, e, b)'
    BY <1>4, <1>6, <2>6, <2>7 DEF Informed
  <2>12. \A k : Leads(d, k) => Leads(d, k)'
    BY <2>6, <2>10 DEF Leads
  <2>13. RequestInv(d)'
    <3>1. \A t \in Sent(d) : t.cp.base \in Nat \cup {None} /\ t.edit \in Nat
      BY <1>4 DEF SyncTypeOK, SaveRequest, Checkpoint, Sent
    <3> QED BY <1>4, <2>6, <2>10, <2>11, <3>1 DEF DeviceInv, RequestInv
  <2>14. c # None
    BY <2>4, SyncAssumption
  <2>15. JournalInv(d)'
    BY <1>4, <1>6, <2>4, <2>6, <2>7, <2>14 DEF JournalInv, Stand
  <2>16. QueueInv(d)'
    <3>1. PICK q : q = mem[d].queue
      OBVIOUS
    <3>2. q # None => /\ q.copy \in Copy /\ IsPending(q.copy)
                      /\ Informed(d, q.copy.edit, q.copy.base)
                      /\ Leads(d, q.copy) /\ j # None /\ j.edit = q.copy.edit
      BY <1>2, <1>4, <3>1 DEF DeviceInv, QueueInv, App, Entry
    <3>3. q # None => Informed(d, q.copy.edit, q.copy.base)' /\ Leads(d, q.copy)'
      BY <2>11, <2>12, <3>2 DEF Copy
    <3>4. mem'[d].queue = q
      BY <1>5, <2>5, <2>6, <3>1
    <3> QED BY <2>4, <2>6, <2>14, <3>2, <3>3, <3>4 DEF QueueInv
  <2>17. CallInv(d)'
    <3>1. CallInv(d) /\ Stand' = Stand
      BY <1>4, <1>6 DEF DeviceInv, Stand
    <3>2. mem'[d].sending = mem[d].sending /\ mem'[d].replay = mem[d].replay
      BY <1>5, <2>5, <2>6
    <3> QED BY <1>6, <2>6, <3>1, <3>2 DEF CallInv, Carries, Answers
  <2>18. SeekInv(d)' /\ KnownInv(d)'
    BY <1>4, <1>5, <1>6, <2>5, <2>6, <2>7 DEF DeviceInv, SeekInv, KnownInv, Stand
  <2> QED BY <2>8, <2>9, <2>13, <2>15, <2>16, <2>17, <2>18, LocalKeeps DEF DeviceInv
<1>9. CASE ~Adopts(d)
  <2>1. mem' = [mem EXCEPT ![d] = app] /\ disk' = disk /\ taken' = taken
    BY <1>1, <1>2, <1>3, <1>9 DEF FinishAdoption
  <2>2. HasNewSeek(app) <=> HasNewSeek(mem[d])
    BY <1>5 DEF HasNewSeek
  <2>3. Quieter(d, app)
    <3>1. mem[d].listing # None /\ mem[d].listing.row # None => mem[d].listing.row.rev <= Stand
      BY <1>4 DEF DeviceInv, KnownInv
    <3> QED BY <1>4, <1>5, <1>7, <2>2, <3>1 DEF Quieter, App
  <2> QED BY <1>5, <1>6, <2>1, <2>3, MemoryKeeps
<1> QED BY <1>8, <1>9

\* The server's row stands, or gives way to a newer one.
RowMoves ==
  /\ row' # row => row' \in Row /\ row'.rev > Stand
  /\ requests' = requests /\ disk' = disk /\ clock' = clock /\ taken' = taken

\* A call that waits, or that has just been answered.
Waits(call, after) ==
  after # None => /\ call # None /\ after.request = call.request
                  /\ after.reply # call.reply => Answers(after.request, after.reply)'

\* An app whose calls may have been answered, and nothing else.
Answered(d, app) ==
  /\ Waits(mem[d].sending, app.sending) /\ Waits(mem[d].replay, app.replay)
  /\ app.sending # None => app.sending.entry = mem[d].sending.entry
  /\ app.replay # None => app.replay.attempted = mem[d].replay.attempted
  /\ \A f \in {"open", "seekGen", "jGen", "ackGen", "queue", "shelf", "listing",
               "adopting"} : app[f] = mem[d][f]

\* A newer row leaves every device sound: what it knows is older than the row.
LEMMA RowMovesKeeps ==
  ASSUME SyncInv, NEW d \in Device, RowMoves, NEW app, Answered(d, app), mem'[d] = app,
         row' = row => stored'[d] = stored[d]
  PROVE  DeviceInv(d)'
<1> USE DEF RowMoves, Answered
<1>1. /\ SyncTypeOK /\ DeviceInv(d) /\ Sent(d)' = Sent(d) /\ taken[d] \in Nat
      /\ row \in Row \cup {None}
  BY DEF SyncInv, SyncTypeOK, Sent
<1>2. /\ Stand \in Nat /\ Stand' \in Nat /\ Stand <= Stand'
      /\ row' # row => Stand < Stand' /\ row' # None /\ Stand' = row'.rev
  BY <1>1, ServerAssumption DEF Stand, Row
<1>3. taken[d] <= Stand
  BY <1>1 DEF DeviceInv, KnownInv
<1>4. \A e, b \in Nat : Informed(d, e, b) => Informed(d, e, b)'
  BY <1>1, <1>2, <1>3 DEF Informed
<1>5. \A e : Recent(d, e) => Recent(d, e)'
  BY DEF Recent, HasNewSeek
<1>6. \A c : Leads(d, c) => Leads(d, c)'
  BY <1>1, <1>5 DEF Leads
<1>7. RequestInv(d)'
  <2>1. \A t \in Sent(d) : t.cp.base \in Nat \cup {None} /\ t.edit \in Nat
    BY <1>1 DEF SyncTypeOK, SaveRequest, Checkpoint, Sent
  <2> QED BY <1>1, <1>4, <1>5, <2>1 DEF DeviceInv, RequestInv
<1>8. JournalInv(d)'
  <2>1. PICK j : j = disk[d].journal
    OBVIOUS
  <2>2. j # None => /\ j \in Copy /\ j.base \in Nat /\ j.edit \in Nat
                    /\ j.acked \in Nat \cup {None}
    BY <1>1, <2>1 DEF SyncTypeOK, Copy
  <2>3. j # None /\ j.acked # None => j.acked <= Stand'
    BY <1>1, <1>2, <2>1, <2>2 DEF DeviceInv, JournalInv
  <2>4. j # None /\ j.status = "pending" => IsPending(j) /\ Informed(d, j.edit, j.base)'
    BY <1>1, <1>4, <2>1, <2>2 DEF DeviceInv, JournalInv
  <2>5. j # None /\ j.owned => Leads(d, j)'
    BY <1>1, <1>6, <2>1 DEF DeviceInv, JournalInv
  <2>6. HasNewSeek(mem[d])' <=> HasNewSeek(mem[d])
    BY DEF HasNewSeek
  <2> QED BY <1>1, <2>1, <2>3, <2>4, <2>5, <2>6 DEF DeviceInv, JournalInv
<1>9. QueueInv(d)'
  <2>1. PICK q : q = mem[d].queue
    OBVIOUS
  <2>2. q # None => /\ q.copy.base \in Nat /\ q.copy.edit \in Nat
    BY <1>1, <2>1 DEF SyncTypeOK, App, Entry, Copy
  <2>3. q # None => Informed(d, q.copy.edit, q.copy.base)' /\ Leads(d, q.copy)'
    BY <1>1, <1>4, <1>6, <2>1, <2>2 DEF DeviceInv, QueueInv
  <2> QED BY <1>1, <2>1, <2>3 DEF DeviceInv, QueueInv
<1>10. CallInv(d)'
  <2>1. mem[d].sending # None => /\ Carries(d, mem[d].sending.request, mem[d].sending.entry.copy)
                                 /\ Answers(mem[d].sending.request, mem[d].sending.reply)
    BY <1>1 DEF DeviceInv, CallInv
  <2>2. mem[d].replay # None => /\ Carries(d, mem[d].replay.request, mem[d].replay.attempted)
                                /\ Answers(mem[d].replay.request, mem[d].replay.reply)
    BY <1>1 DEF DeviceInv, CallInv
  <2>3. /\ mem[d].sending # None /\ mem[d].sending.reply # None
             => mem[d].sending.reply.row.rev \in Nat
        /\ mem[d].replay # None /\ mem[d].replay.reply # None
             => mem[d].replay.reply.row.rev \in Nat
    BY <1>1 DEF SyncTypeOK, App, Sending, Replay, Reply, Row
  <2>4. app.sending # None => /\ Carries(d, app.sending.request, app.sending.entry.copy)'
                              /\ Answers(app.sending.request, app.sending.reply)'
    <3> SUFFICES ASSUME app.sending # None
                 PROVE  /\ Carries(d, app.sending.request, app.sending.entry.copy)'
                        /\ Answers(app.sending.request, app.sending.reply)'
      OBVIOUS
    <3>1. PICK call : call = mem[d].sending
      OBVIOUS
    <3>2. call # None /\ app.sending.request = call.request /\ app.sending.entry = call.entry
      BY <3>1 DEF Waits
    <3>3. Carries(d, app.sending.request, app.sending.entry.copy)'
      BY <1>1, <2>1, <3>1, <3>2 DEF Carries
    <3>4. CASE app.sending.reply = call.reply
      BY <1>1, <1>2, <2>1, <2>3, <3>1, <3>2, <3>3, <3>4 DEF Answers
    <3>5. CASE app.sending.reply # call.reply
      BY <3>1, <3>3, <3>5 DEF Waits
    <3> QED BY <3>4, <3>5
  <2>5. app.replay # None => /\ Carries(d, app.replay.request, app.replay.attempted)'
                             /\ Answers(app.replay.request, app.replay.reply)'
    <3> SUFFICES ASSUME app.replay # None
                 PROVE  /\ Carries(d, app.replay.request, app.replay.attempted)'
                        /\ Answers(app.replay.request, app.replay.reply)'
      OBVIOUS
    <3>1. PICK call : call = mem[d].replay
      OBVIOUS
    <3>2. call # None /\ app.replay.request = call.request /\ app.replay.attempted = call.attempted
      BY <3>1 DEF Waits
    <3>3. Carries(d, app.replay.request, app.replay.attempted)'
      BY <1>1, <2>2, <3>1, <3>2 DEF Carries
    <3>4. CASE app.replay.reply = call.reply
      BY <1>1, <1>2, <2>2, <2>3, <3>1, <3>2, <3>3, <3>4 DEF Answers
    <3>5. CASE app.replay.reply # call.reply
      BY <3>1, <3>3, <3>5 DEF Waits
    <3> QED BY <3>4, <3>5
  <2> QED BY <2>4, <2>5 DEF CallInv
<1>11. SeekInv(d)'
  BY <1>1 DEF DeviceInv, SeekInv, Waits
<1>12. KnownInv(d)'
  <2>1. /\ mem[d].shelf \in Nat \cup {None}
        /\ mem[d].listing # None /\ mem[d].listing.row # None => mem[d].listing.row.rev \in Nat
        /\ mem[d].adopting # None => mem[d].adopting.row.rev \in Nat
    BY <1>1 DEF SyncTypeOK, App, Row
  <2> QED BY <1>1, <1>2, <1>3, <2>1 DEF DeviceInv, KnownInv
<1> QED BY <1>7, <1>8, <1>9, <1>10, <1>11, <1>12 DEF DeviceInv

\* What a save does to the row, and who may have done it.
StoresEdit(r) ==
  /\ row' # row /\ row' \in Row /\ row'.rev > Stand /\ row'.rec = r.cp.rec
  /\ row'.pos = Clamped(r.cp.pos) /\ stored' = Raise(stored, r.dev, r.edit)
  /\ stored[r.dev] < r.edit
  /\ row # None => /\ r.cp.base = row.rev \/ ContinuesRecording(row, r.cp)

\* A save is stored if the device made it after all that was stored of it, and
\* leaves the row alone otherwise.
LEMMA SaveIs ==
  ASSUME SyncInv, NEW r \in requests, NEW now \in Clock, HandleSave(r, now)
  PROVE  \/ StoresEdit(r)
         \/ row # None /\ row' = row /\ stored' = stored
<1>1. /\ SyncTypeOK /\ r \in SaveRequest /\ r.dev \in Device /\ now \in Nat
      /\ row \in Row \cup {None} /\ r.edit \in Nat /\ r \in Sent(r.dev)
      /\ r.cp \in Checkpoint /\ stored[r.dev] \in Nat /\ DeviceInv(r.dev)
  BY ServerAssumption DEF SyncInv, SyncTypeOK, SaveRequest, Sent
<1>2. /\ stored' = IF row' # row THEN Raise(stored, r.dev, r.edit) ELSE stored
      /\ ApplyCheckpoint(r.cp, now)
  BY DEF HandleSave
<1>3. CASE ~StoresCheckpoint(row, r.cp, now)
  BY <1>2, <1>3 DEF ApplyCheckpoint, Keep
<1>4. CASE StoresCheckpoint(row, r.cp, now)
  <2>1. PICK saved : saved = SavedCheckpoint(row, r.cp, now)
    OBVIOUS
  <2>2. row' = saved
    BY <1>2, <1>4, <2>1 DEF ApplyCheckpoint, Store
  <2>3. PICK rev \in Nat : rev = NextRevision(row, now) /\ rev > Stand
    BY <1>1 DEF NextRevision, Larger, Stand, Row
  <2>4. PICK pos \in Position : pos = Clamped(r.cp.pos)
    BY <1>1, RulesAssumption DEF Clamped, Smaller, Checkpoint, Position
  <2>5. PICK fin \in Finished : fin = CarriedFinished(row, Clamped(r.cp.pos), r.cp.seek)
    BY <1>1 DEF CarriedFinished, Row, Finished
  <2>6. saved = [rev |-> rev, pos |-> pos, finished |-> fin, rec |-> r.cp.rec]
    BY <2>1, <2>3, <2>4, <2>5 DEF SavedCheckpoint, SavedRow
  <2>7. saved \in Row /\ saved.rev = rev /\ saved.pos = pos /\ saved.rec = r.cp.rec
    BY <1>1, <2>6 DEF Row, Checkpoint
  <2>8. row' # row
    BY <1>1, <2>2, <2>3, <2>7, ServerAssumption DEF Stand, Row
  <2>9. /\ ~IsReplayOfRecording(row, r.cp) /\ ~HasReplacedBase(row, r.cp)
    BY <1>4 DEF StoresCheckpoint
  <2>10. /\ OwnRecording(r.dev, Mark(r)) /\ Recent(r.dev, r.edit)
         /\ r.cp.base # None /\ Informed(r.dev, r.edit, r.cp.base)
         /\ \A s \in Sent(r.dev) : InOrder(Mark(r), Mark(s))
    BY <1>1 DEF DeviceInv, RequestInv
  <2>11. row # None => r.cp.base = row.rev \/ ContinuesRecording(row, r.cp)
    BY <2>9, <2>10 DEF HasReplacedBase
  <2>12. stored[r.dev] < r.edit
    <3>1. CASE row = None
      <4>1. stored[r.dev] = 0
        BY <1>1, <3>1 DEF SyncInv, StoredInv
      <4> QED BY <1>1, <2>10, <4>1 DEF Recent
    <3>2. CASE row # None /\ r.cp.base = row.rev
      <4>1. row.rev \in Nat
        BY <1>1, <3>2 DEF Row
      <4> QED BY <1>1, <2>10, <3>2, <4>1 DEF Informed
    <3>3. CASE row # None /\ ContinuesRecording(row, r.cp)
      <4>1. /\ row.rec # None /\ row.rec.id = r.cp.rec.id /\ r.cp.rec.seq > row.rec.seq
            /\ r.cp.rec # None
        BY <3>3 DEF ContinuesRecording, SameRecording
      <4>2. PICK s \in requests : s.edit = stored[s.dev] /\ s.cp.rec = row.rec
        BY <3>3 DEF SyncInv, StoredInv
      <4>3. /\ s.dev \in Device /\ s.edit \in Nat /\ s \in Sent(s.dev)
            /\ s.cp.rec \in Recording /\ r.cp.rec \in Recording
        BY <1>1, <4>1, <4>2 DEF SyncTypeOK, SaveRequest, Sent, Checkpoint
      <4>4. OwnRecording(s.dev, Mark(s))
        BY <4>3 DEF SyncInv, DeviceInv, RequestInv
      <4>5. s.dev = r.dev
        BY <2>10, <4>1, <4>2, <4>4 DEF OwnRecording, Mark
      <4>6. InOrder(Mark(r), Mark(s))
        BY <2>10, <4>3, <4>5
      <4>7. r.cp.rec.seq \in Nat /\ s.cp.rec.seq \in Nat
        BY <4>3 DEF Recording
      <4> QED BY <1>1, <4>1, <4>2, <4>3, <4>5, <4>6, <4>7 DEF InOrder, Mark
    <3> QED BY <2>11, <3>1, <3>2, <3>3
  <2> QED BY <1>2, <2>2, <2>3, <2>4, <2>7, <2>8, <2>11, <2>12 DEF StoresEdit
<1> QED BY <1>3, <1>4

\* The reply to a save answers it.
LEMMA ReplyAnswers ==
  ASSUME SyncInv, NEW r \in requests, NEW now \in Clock, HandleSave(r, now),
         NEW c \in Copy, r.cp.pos = c.pos, r.cp.rec = c.rec,
         NEW accepted \in BOOLEAN, accepted <=> IsAccepted(row, row', r.cp),
         NEW reply, reply = [row |-> row', accepted |-> accepted]
  PROVE  Answers(r, reply)' /\ reply \in Reply
<1>1. /\ row \in Row \cup {None} /\ (row # None => row.rev > 0 /\ row.rev \in Nat)
      /\ r.cp.pos = Clamped(r.cp.pos)
  BY RulesAssumption DEF SyncInv, SyncTypeOK, StoredInv, Row, Copy, Position, Clamped, Smaller
<1>2. reply.row = row' /\ reply.accepted = accepted
  OBVIOUS
<1>3. CASE StoresEdit(r)
  <2>1. row' # None /\ 0 < row'.rev /\ Stand' = row'.rev /\ row'.rev \in Nat
    BY <1>1, <1>3, ServerAssumption DEF StoresEdit, Stand, Row
  <2>2. row' \in Row /\ row'.rec = r.cp.rec /\ row'.pos = r.cp.pos
    BY <1>1, <1>3 DEF StoresEdit
  <2> QED BY <1>2, <2>1, <2>2 DEF Answers, Reply
<1>4. CASE row # None /\ row' = row
  <2>1. row' \in Row /\ 0 < row'.rev /\ Stand' = row'.rev /\ row'.rev \in Nat
    BY <1>1, <1>4 DEF Stand
  <2>2. accepted => row'.rec = r.cp.rec /\ row'.pos = r.cp.pos
    BY <1>1, <1>4 DEF IsAccepted
  <2> QED BY <1>2, <2>1, <2>2 DEF Answers, Reply
<1> QED BY <1>3, <1>4, SaveIs

\* The server handles a save.
LEMMA HandleSaveKeeps ==
  ASSUME SyncInv, NEW r \in requests, NEW now \in Clock, HandleSave(r, now)
  PROVE  SyncInv'
<1>1. /\ SyncTypeOK /\ r \in SaveRequest /\ r.dev \in Device
      /\ row \in Row \cup {None} /\ r.edit \in Nat /\ r \in Sent(r.dev)
      /\ mem[r.dev] \in App /\ \A e \in Device : DeviceInv(e)
  BY DEF SyncInv, SyncTypeOK, SaveRequest, Sent
<1>2. \/ StoresEdit(r)
      \/ row # None /\ row' = row /\ stored' = stored
  BY SaveIs
<1>3. PICK accepted \in BOOLEAN : accepted <=> IsAccepted(row, row', r.cp)
  OBVIOUS
<1>4. PICK reply : reply = [row |-> row', accepted |-> accepted]
  OBVIOUS
<1>5. PICK sending : sending = Deliver(mem[r.dev].sending, r, reply)
  OBVIOUS
<1>6. PICK replay : replay = Deliver(mem[r.dev].replay, r, reply)
  OBVIOUS
<1>7. PICK app : app = [mem[r.dev] EXCEPT !.sending = sending, !.replay = replay]
  OBVIOUS
<1>8. /\ mem' = [mem EXCEPT ![r.dev] = app]
      /\ requests' = requests /\ disk' = disk /\ clock' = clock /\ taken' = taken
  <2>1. reply = [row |-> row', accepted |-> IsAccepted(row, row', r.cp)]
    BY <1>3, <1>4 DEF IsAccepted
  <2> QED BY <1>5, <1>6, <1>7, <2>1 DEF HandleSave
<1>9. /\ mem[r.dev].sending # None =>
           /\ mem[r.dev].sending \in Sending /\ mem[r.dev].sending.entry.copy \in Copy
           /\ Carries(r.dev, mem[r.dev].sending.request, mem[r.dev].sending.entry.copy)
      /\ mem[r.dev].replay # None =>
           /\ mem[r.dev].replay \in Replay /\ mem[r.dev].replay.attempted \in Copy
           /\ Carries(r.dev, mem[r.dev].replay.request, mem[r.dev].replay.attempted)
  BY <1>1 DEF App, Sending, Replay, Entry, DeviceInv, CallInv
<1>10. /\ sending \in Sending \cup {None} /\ Waits(mem[r.dev].sending, sending)
       /\ sending # None => sending.entry = mem[r.dev].sending.entry
  <2>1. CASE sending = mem[r.dev].sending
    BY <1>9, <2>1 DEF Waits
  <2>2. CASE sending # mem[r.dev].sending
    <3>1. PICK call : call = mem[r.dev].sending
      OBVIOUS
    <3>2. call # None /\ call.request = r /\ sending = [call EXCEPT !.reply = reply]
      BY <1>5, <2>2, <3>1 DEF Deliver
    <3>3. call \in Sending /\ r.cp.pos = call.entry.copy.pos /\ r.cp.rec = call.entry.copy.rec
          /\ call.entry.copy \in Copy
      BY <1>9, <3>1, <3>2 DEF Carries
    <3>4. Answers(r, reply)' /\ reply \in Reply
      BY <1>3, <1>4, <3>3, ReplyAnswers
    <3>5. sending \in Sending /\ sending.request = r /\ sending.reply = reply
          /\ sending.entry = call.entry
      BY <3>2, <3>3, <3>4 DEF Sending
    <3> QED BY <2>2, <3>1, <3>2, <3>4, <3>5 DEF Waits
  <2> QED BY <2>1, <2>2
<1>11. /\ replay \in Replay \cup {None} /\ Waits(mem[r.dev].replay, replay)
       /\ replay # None => replay.attempted = mem[r.dev].replay.attempted
  <2>1. CASE replay = mem[r.dev].replay
    BY <1>9, <2>1 DEF Waits
  <2>2. CASE replay # mem[r.dev].replay
    <3>1. PICK call : call = mem[r.dev].replay
      OBVIOUS
    <3>2. call # None /\ call.request = r /\ replay = [call EXCEPT !.reply = reply]
      BY <1>6, <2>2, <3>1 DEF Deliver
    <3>3. call \in Replay /\ r.cp.pos = call.attempted.pos /\ r.cp.rec = call.attempted.rec
          /\ call.attempted \in Copy
      BY <1>9, <3>1, <3>2 DEF Carries
    <3>4. Answers(r, reply)' /\ reply \in Reply
      BY <1>3, <1>4, <3>3, ReplyAnswers
    <3>5. replay \in Replay /\ replay.request = r /\ replay.reply = reply
          /\ replay.attempted = call.attempted
      BY <3>2, <3>3, <3>4 DEF Replay
    <3> QED BY <2>2, <3>1, <3>2, <3>4, <3>5 DEF Waits
  <2> QED BY <2>1, <2>2
<1>12. /\ app \in App /\ app.sending = sending /\ app.replay = replay
       /\ \A f \in {"open", "seekGen", "jGen", "ackGen", "queue", "shelf", "listing",
                    "adopting"} : app[f] = mem[r.dev][f]
  BY <1>1, <1>7, <1>10, <1>11 DEF App
<1>13. Answered(r.dev, app)
  BY <1>10, <1>11, <1>12 DEF Answered
<1>14. RowMoves
  BY <1>2, <1>8 DEF RowMoves, StoresEdit
<1>15. \A e \in Device : DeviceInv(e)'
  <2>1. mem'[r.dev] = app /\ (row' = row => stored' = stored)
    BY <1>1, <1>2, <1>8 DEF SyncTypeOK, StoresEdit
  <2>2. DeviceInv(r.dev)'
    BY <1>1, <1>13, <1>14, <2>1, RowMovesKeeps
  <2>3. ASSUME NEW e \in Device \ {r.dev}
        PROVE  DeviceInv(e)'
    <3>1. PICK same : same = mem[e]
      OBVIOUS
    <3>2. mem'[e] = same
      BY <1>1, <1>8, <3>1 DEF SyncTypeOK
    <3>3. Answered(e, same)
      BY <3>1 DEF Answered, Waits
    <3> QED BY <1>14, <2>1, <3>2, <3>3, RowMovesKeeps
  <2> QED BY <2>2, <2>3
<1>16. SyncTypeOK'
  <2>1. row' \in Row \cup {None} /\ stored' \in [Device -> Nat]
    BY <1>1, <1>2 DEF StoresEdit, Raise, Larger, SyncTypeOK
  <2> QED BY <1>1, <1>8, <1>12, <2>1 DEF SyncTypeOK
<1>17. StoredInv'
  <2>1. CASE StoresEdit(r)
    <3>1. /\ stored[r.dev] \in Nat /\ stored[r.dev] < r.edit
          /\ stored' = [stored EXCEPT ![r.dev] = Larger(stored[r.dev], r.edit)]
      BY <1>1, <2>1 DEF StoresEdit, Raise, SyncTypeOK
    <3>2. stored'[r.dev] = r.edit /\ \A e \in Device \ {r.dev} : stored'[e] = stored[e]
      BY <1>1, <3>1 DEF SyncTypeOK, Larger
    <3>3. row' # None /\ row'.rev > 0 /\ r.cp.rec = row'.rec
      BY <1>1, <2>1, ServerAssumption DEF StoresEdit, Stand, Row, SyncInv, StoredInv
    <3>4. \A e \in Device : Sent(e)' = Sent(e)
      BY <1>8 DEF Sent
    <3> QED BY <1>1, <1>8, <3>2, <3>3, <3>4 DEF StoredInv, SyncInv
  <2>2. CASE row # None /\ row' = row /\ stored' = stored
    BY <1>8, <2>2 DEF StoredInv, SyncInv, Sent
  <2> QED BY <1>2, <2>1, <2>2
<1> QED BY <1>15, <1>16, <1>17 DEF SyncInv

\* Every step keeps the invariant.
LEMMA SyncSteps == SyncInv /\ [SyncNext]_syncVars => SyncInv'
<1> SUFFICES ASSUME SyncInv, [SyncNext]_syncVars PROVE SyncInv'
  OBVIOUS
<1>1. ASSUME NEW d \in Device, NEW place \in Position, Listen(d, place)
      PROVE  SyncInv'
  BY <1>1, ListenKeeps
<1>2. ASSUME NEW d \in Device, NEW place \in SeekTargets, Seek(d, place)
      PROVE  SyncInv'
  BY <1>2, SeekKeeps
<1>3. ASSUME NEW d \in Device, StartSave(d) \/ SaveReturns(d)
      PROVE  SyncInv'
  BY <1>3, StartSaveKeeps, SaveReturnsKeeps
<1>4. ASSUME NEW d \in Device, ListingArrives(d) \/ ReplayReturns(d) \/ FinishAdoption(d)
      PROVE  SyncInv'
  BY <1>4, ListingKeeps, ReplayReturnsKeeps, AdoptionKeeps
<1>5. ASSUME NEW d \in Device,
             \/ SaveFails(d) \/ ReplayFails(d) \/ Kill(d)
             \/ RequestListing(d) \/ FetchForAdoption(d)
      PROVE  SyncInv'
  BY <1>5, MemorySteps
<1>6. ASSUME NEW r \in requests, NEW now \in Clock, HandleSave(r, now)
      PROVE  SyncInv'
  BY <1>6, HandleSaveKeeps
<1>7. CASE UNCHANGED syncVars
  <2>1. /\ row' = row /\ disk' = disk /\ mem' = mem /\ requests' = requests
        /\ clock' = clock /\ stored' = stored /\ taken' = taken
    BY <1>7 DEF syncVars, serverVars, deviceVars, historyVars
  <2>2. \A e \in Device : Untouched(e)
    BY <2>1 DEF Untouched, Sent
  <2>3. \A e \in Device : DeviceInv(e)'
    BY <2>1, <2>2, UntouchedKeeps DEF SyncInv
  <2>4. SyncTypeOK' /\ StoredInv'
    BY <2>1 DEF SyncInv, SyncTypeOK, StoredInv, Sent
  <2> QED BY <2>3, <2>4 DEF SyncInv
<1> QED BY <1>1, <1>2, <1>3, <1>4, <1>5, <1>6, <1>7 DEF SyncNext

\* What the devices and the server know of each other's edits holds in every
\* state, however many requests are late, repeated or lost.
THEOREM SyncIsSound == SyncSpec => []SyncInv
<1> QED BY SyncBegins, SyncSteps, PTL DEF SyncSpec

\* Only the handling of a save changes the row.
LEMMA RowSteps ==
  ASSUME SyncInv, [SyncNext]_syncVars, row' # row
  PROVE  \E r \in requests : r.dev \in Device /\ StoresEdit(r)
<1>1. PICK r \in requests, now \in Clock : HandleSave(r, now)
  <2>1. ASSUME NEW d \in Device, NEW place \in Position, Listen(d, place) \/ Seek(d, place)
        PROVE  row' = row
    BY <2>1 DEF Listen, Seek, serverVars
  <2>2. ASSUME NEW d \in Device, StartSave(d) \/ SaveReturns(d) \/ SaveFails(d) \/ Kill(d)
        PROVE  row' = row
    BY <2>2 DEF StartSave, SaveReturns, SaveFails, Kill, serverVars
  <2>3. ASSUME NEW d \in Device, RequestListing(d) \/ ListingArrives(d) \/ FinishAdoption(d)
        PROVE  row' = row
    BY <2>3 DEF RequestListing, ListingArrives, FinishAdoption, serverVars
  <2>4. ASSUME NEW d \in Device, ReplayReturns(d) \/ ReplayFails(d) \/ FetchForAdoption(d)
        PROVE  row' = row
    BY <2>4 DEF ReplayReturns, ReplayFails, FetchForAdoption, serverVars
  <2>5. UNCHANGED syncVars => row' = row
    BY DEF syncVars, serverVars
  <2>6. SeekTargets \subseteq Position
    BY SyncAssumption
  <2> QED BY <2>1, <2>2, <2>3, <2>4, <2>5, <2>6 DEF SyncNext
<1>2. StoresEdit(r)
  BY <1>1, SaveIs
<1>3. r.dev \in Device
  BY DEF SyncInv, SyncTypeOK, SaveRequest
<1> QED BY <1>2, <1>3

\* The row's recording names the device that wrote it.
LEMMA WriterIs ==
  ASSUME SyncInv, NEW r \in requests
  PROVE  r.cp.rec # None /\ r.cp.rec.id[1] = r.dev
<1>1. r.dev \in Device /\ r \in Sent(r.dev)
  BY DEF SyncInv, SyncTypeOK, SaveRequest, Sent
<1> QED BY <1>1 DEF SyncInv, DeviceInv, RequestInv, OwnRecording, Mark

\* No device replaces another device's place unseen: a save is stored over a
\* row some other device wrote only if the saver has taken up that row's place.
THEOREM OverwritesAreInformed == SyncSpec => NoBlindOverwrite
<1>1. ASSUME SyncInv, [SyncNext]_syncVars, row' # row, row # None, Writer(row') # Writer(row)
      PROVE  row.rev <= taken[Writer(row')]
  <2>1. PICK r \in requests : r.dev \in Device /\ StoresEdit(r)
    BY <1>1, RowSteps
  <2>2. Writer(row') = r.dev
    BY <1>1, <2>1, WriterIs DEF Writer, StoresEdit
  <2>3. ~ContinuesRecording(row, r.cp)
    BY <1>1, <2>1 DEF Writer, StoresEdit, ContinuesRecording, SameRecording
  <2>4. r.cp.base = row.rev
    BY <1>1, <2>1, <2>3 DEF StoresEdit
  <2>5. r.cp.base <= taken[r.dev]
    BY <1>1, <2>1 DEF SyncInv, DeviceInv, RequestInv, Informed, Sent
  <2> QED BY <2>2, <2>4, <2>5
<1> QED BY <1>1, SyncIsSound, PTL DEF SyncSpec, NoBlindOverwrite

\* The server never returns to an older edit of the same device, however late,
\* repeated or reordered its requests arrive.
THEOREM EditsStayInOrder == SyncSpec => EditsAreStoredInOrder
<1>1. ASSUME SyncInv, [SyncNext]_syncVars, row' # row
      PROVE  stored'[Writer(row')] > stored[Writer(row')]
  <2>1. PICK r \in requests : r.dev \in Device /\ StoresEdit(r)
    BY <1>1, RowSteps
  <2>2. Writer(row') = r.dev
    BY <1>1, <2>1, WriterIs DEF Writer, StoresEdit
  <2>3. stored \in [Device -> Nat] /\ r.edit \in Nat /\ stored' = Raise(stored, r.dev, r.edit)
        /\ stored[r.dev] < r.edit
    BY <1>1, <2>1 DEF SyncInv, SyncTypeOK, StoresEdit, SaveRequest
  <2>4. stored'[r.dev] = r.edit
    BY <2>1, <2>3 DEF Raise, Larger
  <2> QED BY <2>2, <2>3, <2>4
<1> QED BY <1>1, SyncIsSound, PTL DEF SyncSpec, EditsAreStoredInOrder
-----------------------------------------------------------------------------

\* A pending journal becomes a synced one when a reply is taken or a place adopted.
LEMMA JournalSettles ==
  ASSUME SyncInv, [SyncNext]_syncVars, NEW d \in Device, disk[d].journal # None,
         disk[d].journal.status = "pending", disk'[d].journal.status = "synced"
  PROVE  SaveReturns(d) \/ ReplayReturns(d) \/ FinishAdoption(d)
<1>1. disk \in [Device -> [journal : Copy \cup {None}, intent : Intent \cup {None}]]
  BY DEF SyncInv, SyncTypeOK
<1>2. disk'[d].journal # disk[d].journal
  BY <1>1
<1>3. ASSUME NEW e \in Device, NEW app, NEW intent, NEW at, Persist(e, app, intent, at)
      PROVE  FALSE
  <2>1. PICK c : c = PendingCopy(app.head, at, disk[e].journal, app.shelf, HasNewSeek(app), <<e, at>>)
    OBVIOUS
  <2>2. disk' = [disk EXCEPT ![e] = [journal |-> c, intent |-> intent]]
    BY <1>3, <2>1 DEF Persist
  <2>3. c.status = "pending"
    BY <2>1 DEF PendingCopy
  <2>4. disk'[d] = disk[d] \/ disk'[d].journal = c
    BY <1>1, <2>2
  <2> QED BY <1>2, <2>3, <2>4
<1>4. ASSUME NEW e \in Device, NEW place \in Position, Listen(e, place)
      PROVE  FALSE
  BY <1>3, <1>4 DEF Listen
<1>5. ASSUME NEW e \in Device, NEW place \in SeekTargets, Seek(e, place)
      PROVE  FALSE
  <2>1. PICK intent : disk' = [disk EXCEPT ![e].intent = intent]
    BY <1>3, <1>5 DEF Seek
  <2>2. disk'[d].journal = disk[d].journal
    BY <1>1, <2>1
  <2> QED BY <1>2, <2>2
<1>6. ASSUME NEW e \in Device, ListingArrives(e)
      PROVE  FALSE
  <2>1. disk' = disk \/ \E intent : disk' = [disk EXCEPT ![e].intent = intent]
    BY <1>6 DEF ListingArrives
  <2>2. disk'[d].journal = disk[d].journal
    BY <1>1, <2>1
  <2> QED BY <1>2, <2>2
<1>7. ASSUME NEW e \in Device \ {d}, SaveReturns(e) \/ ReplayReturns(e) \/ FinishAdoption(e)
      PROVE  FALSE
  <2>1. SaveReturns(e) => disk'[d] = disk[d]
    BY <1>1 DEF SaveReturns
  <2>2. ReplayReturns(e) => disk'[d] = disk[d]
    BY <1>1 DEF ReplayReturns
  <2>3. FinishAdoption(e) => disk'[d] = disk[d]
    BY <1>1 DEF FinishAdoption
  <2> QED BY <1>2, <1>7, <2>1, <2>2, <2>3
<1>8. ASSUME NEW e \in Device,
             \/ StartSave(e) \/ SaveFails(e) \/ RequestListing(e) \/ ReplayFails(e)
             \/ FetchForAdoption(e) \/ Kill(e)
      PROVE  FALSE
  BY <1>2, <1>8 DEF StartSave, SaveFails, RequestListing, ReplayFails, FetchForAdoption, Kill
<1>9. ASSUME NEW r \in requests, NEW now \in Clock, HandleSave(r, now)
      PROVE  FALSE
  BY <1>2, <1>9 DEF HandleSave
<1>10. UNCHANGED syncVars => disk' = disk
  BY DEF syncVars, deviceVars
<1> QED BY <1>2, <1>4, <1>5, <1>6, <1>7, <1>8, <1>9, <1>10 DEF SyncNext

\* A reply that settles a pending journal is one to that very edit.
LEMMA SettledByItsReply ==
  ASSUME NEW j \in Copy, NEW a, NEW reply, j # None, j.status = "pending",
         NEW app, Reconcile(app, j, a, reply).journal.status = "synced"
  PROVE  SameCopy(j, a)
<1>1. SUFFICES ASSUME ~SameCopy(j, a) PROVE FALSE
  OBVIOUS
<1>2. ~ReplyWins(j, a)
  BY <1>1 DEF ReplyWins
<1>3. Reconcile(app, j, a, reply).journal = Rebased(j, a, reply)
  BY <1>2 DEF Reconcile
<1>4. PICK rec : rec = RebasedRecording(j, reply)
  OBVIOUS
<1>5. Rebased(j, a, reply) \in
        {j, [j EXCEPT !.base = reply.row.rev, !.acked = reply.row.rev, !.rec = rec]}
  BY <1>4 DEF Rebased
<1>6. [j EXCEPT !.base = reply.row.rev, !.acked = reply.row.rev, !.rec = rec].status = j.status
  BY DEF Copy
<1> QED BY <1>3, <1>5, <1>6

\* A pending journal only gives way to a later edit, to the answer to that very edit,
\* or to the place a refused player is given when it returns.
THEOREM EditsWaitForTheServer == SyncSpec => PendingUntilDecided
<1>1. ASSUME SyncInv, [SyncNext]_syncVars, NEW d \in Device, disk[d].journal # None,
             disk[d].journal.status = "pending", disk'[d].journal.status = "synced"
      PROVE  \/ AnsweredBy(mem[d].sending, disk[d].journal.edit)
             \/ AnsweredBy(mem[d].replay, disk[d].journal.edit)
             \/ mem[d].adopting # None /\ mem[d].overruled
  <2>1. /\ disk \in [Device -> [journal : Copy \cup {None}, intent : Intent \cup {None}]]
        /\ CallInv(d)
    BY <1>1 DEF SyncInv, SyncTypeOK, DeviceInv
  <2>0. disk[d].journal \in Copy
    <3>1. disk[d].journal \in Copy \cup {None}
      BY <2>1
    <3> QED BY <1>1, <3>1
  <2>2. CASE SaveReturns(d)
    <3> DEFINE j == disk[d].journal
    <3>1. PICK call : call = mem[d].sending
      OBVIOUS
    <3>2. call # None /\ call.reply # None
          /\ disk'[d].journal = Reconcile(mem[d], j, call.entry.copy, call.reply).journal
      BY <2>1, <2>2, <3>1 DEF SaveReturns
    <3>3. SameCopy(j, call.entry.copy)
      BY <1>1, <2>0, <3>2, SettledByItsReply
    <3>4. call.request.edit = j.edit
      BY <2>1, <3>1, <3>2, <3>3 DEF CallInv, Carries, SameCopy
    <3> QED BY <3>1, <3>2, <3>4 DEF AnsweredBy
  <2>3. CASE ReplayReturns(d)
    <3> DEFINE j == disk[d].journal
    <3>1. PICK call : call = mem[d].replay
      OBVIOUS
    <3>2. call # None /\ call.reply # None
          /\ disk'[d].journal = Reconcile(mem[d], j, call.attempted, call.reply).journal
      BY <2>1, <2>3, <3>1 DEF ReplayReturns
    <3>3. SameCopy(j, call.attempted)
      BY <1>1, <2>0, <3>2, SettledByItsReply
    <3>4. call.request.edit = j.edit
      BY <2>1, <3>1, <3>2, <3>3 DEF CallInv, Carries, SameCopy
    <3> QED BY <3>1, <3>2, <3>4 DEF AnsweredBy
  <2>4. CASE FinishAdoption(d)
    <3>1. Adopts(d)
      BY <1>1, <2>1, <2>4 DEF FinishAdoption
    <3> QED BY <1>1, <2>4, <3>1 DEF FinishAdoption, Adopts, IsAdoptable
  <2> QED BY <1>1, <2>2, <2>3, <2>4, JournalSettles
<1> DEFINE GivesWay == \A d \in Device :
             disk[d].journal # None /\ disk[d].journal.status = "pending"
               /\ disk'[d].journal.status = "synced"
             => \/ AnsweredBy(mem[d].sending, disk[d].journal.edit)
                \/ AnsweredBy(mem[d].replay, disk[d].journal.edit)
                \/ mem[d].adopting # None /\ mem[d].overruled
<1>2. SyncInv /\ [SyncNext]_syncVars => GivesWay
  BY <1>1
<1>3. PendingUntilDecided <=> [][GivesWay]_syncVars
  BY DEF PendingUntilDecided
<1> QED BY <1>2, <1>3, SyncIsSound, PTL DEF SyncSpec

-----------------------------------------------------------------------------
(* A device nobody competes with.                                          *)

\* No other device has recorded anything, and no app was started again.
IsAlone(d) == restarts = 0 /\ \A e \in Device \ {d} : clock[e] = 0

\* It has one recording, and the player is where its journal is, or further on.
LineInv(d) ==
  LET j == disk[d].journal
      app == mem[d]
  IN  /\ \A s \in Sent(d) : s.cp.pos \in Position
      /\ j # None => /\ app.open /\ ~HasNewSeek(app) /\ j.pos <= app.head
                     /\ j.owned /\ \A s \in Sent(d) : s.cp.rec.id = j.rec.id
      /\ ~app.overruled

\* The row is its latest stored edit, and a synced journal is the row.
RowInv(d) ==
  LET j == disk[d].journal
  IN  /\ row # None => \E s \in Sent(d) : /\ s.edit = stored[d]
                                          /\ s.cp.rec = row.rec /\ s.cp.pos = row.pos
      /\ j # None /\ j.status = "synced" =>
           stored[d] = j.edit /\ row # None /\ j.rev = row.rev

\* A reply comes with the edit stored; one that is refused was overtaken.
Decided(d, r, reply) ==
  reply # None => /\ r.edit <= stored[d]
                  /\ ~reply.accepted => r.edit < stored[d]
                  /\ r.edit = stored[d] => reply.row = row

\* A call carries no later seek than its edit.
CallsInv(d) ==
  /\ LET call == mem[d].sending
     IN  call # None => /\ Decided(d, call.request, call.reply)
                        /\ call.entry.intent # None => call.entry.intent <= call.request.edit
  /\ LET call == mem[d].replay
     IN  call # None => /\ Decided(d, call.request, call.reply)
                        /\ call.intent # None => call.intent <= call.request.edit

\* The journal is only behind a place that may be, or come to be, the row's if a
\* later seek is still on record.
SoughtBack(d, s) ==
  LET j == disk[d].journal
      i == disk[d].intent
  IN  i # None /\ s.edit < i.at /\ i.at <= j.edit /\ i.target <= j.pos

BehindInv(d) ==
  LET j == disk[d].journal
  IN  j # None => \A s \in Sent(d) : stored[d] <= s.edit /\ j.pos < s.cp.pos => SoughtBack(d, s)

\* And a request behind such a place says so.
IsFlagged(cp) == cp.seek /\ (cp.pos < NearZero => cp.regression)

FlagInv(d) ==
  \A r, s \in Sent(d) :
    stored[d] <= s.edit /\ s.edit < r.edit /\ r.cp.pos < s.cp.pos => IsFlagged(r.cp)

\* A queued save knows of the seek on record, if it is not older.
EntryInv(d) ==
  LET q == mem[d].queue
      i == disk[d].intent
  IN  q # None => /\ q.intent # None => q.intent <= q.copy.edit
                  /\ i # None /\ i.at <= q.copy.edit =>
                       q.intent = i.at /\ (i.target < NearZero => q.regression)

AloneInv(d) ==
  /\ LineInv(d) /\ RowInv(d) /\ CallsInv(d) /\ BehindInv(d) /\ FlagInv(d) /\ EntryInv(d)

\* All there is was sent by a lone device, and with a row it has a journal.
LEMMA AloneSends ==
  ASSUME SyncInv, NEW d \in Device, IsAlone(d)
  PROVE  /\ \A r \in requests : r.dev = d /\ r \in Sent(d)
         /\ row # None => Sent(d) # {}
         /\ Sent(d) # {} => disk[d].journal # None
<1>1. ASSUME NEW r \in requests
      PROVE  r.dev = d /\ r \in Sent(d)
  <2>1. r.dev \in Device /\ r \in Sent(r.dev) /\ r.edit \in Nat
    BY DEF SyncInv, SyncTypeOK, SaveRequest, Sent
  <2>2. Recent(r.dev, r.edit)
    BY <2>1 DEF SyncInv, DeviceInv, RequestInv
  <2>3. clock[r.dev] > 0
    BY <2>1, <2>2 DEF Recent, SyncInv, SyncTypeOK
  <2> QED BY <2>1, <2>3 DEF IsAlone
<1>2. row # None => Sent(d) # {}
  BY <1>1 DEF SyncInv, StoredInv
<1>3. Sent(d) # {} => disk[d].journal # None
  BY DEF SyncInv, DeviceInv, JournalInv
<1> QED BY <1>1, <1>2, <1>3

\* Its journal is its newest edit, and what is stored is no newer.
LEMMA AloneLeads ==
  ASSUME SyncInv, NEW d \in Device, AloneInv(d), NEW j, j = disk[d].journal, j # None
  PROVE  /\ j \in Copy /\ Leads(d, j) /\ j.owned /\ stored[d] \in Nat /\ stored[d] <= j.edit
         /\ \A s \in Sent(d) : /\ s \in SaveRequest /\ s.edit \in Nat /\ s.edit <= j.edit
                               /\ s.cp.pos \in Position
                               /\ s.edit = j.edit => s.cp.pos = j.pos /\ s.cp.rec = j.rec
<1>1. j \in Copy /\ j.owned /\ stored[d] \in Nat
  BY DEF SyncInv, SyncTypeOK, AloneInv, LineInv
<1>2. Leads(d, j)
  BY <1>1 DEF SyncInv, DeviceInv, JournalInv
<1>3. \A s \in Sent(d) : s \in SaveRequest /\ s.edit \in Nat /\ s.cp.pos \in Position
  BY DEF SyncInv, SyncTypeOK, Sent, SaveRequest, AloneInv, LineInv
<1>4. \A s \in Sent(d) : /\ s.edit <= j.edit
                         /\ s.edit = j.edit => s.cp.pos = j.pos /\ s.cp.rec = j.rec
  BY <1>2 DEF Leads, InOrder, Mark
<1>5. stored[d] = 0 \/ \E s \in Sent(d) : s.edit = stored[d]
  BY DEF SyncInv, StoredInv
<1>6. stored[d] <= j.edit
  BY <1>1, <1>4, <1>5 DEF Copy
<1> QED BY <1>1, <1>2, <1>3, <1>4, <1>6

\* An app that is at the same place, with the same save queued.
StaysThere(d, app) ==
  /\ \A f \in {"open", "head", "overruled", "queue"} : app[f] = mem[d][f]
  /\ HasNewSeek(app) => HasNewSeek(mem[d])

\* It stays what it is when nothing happens but that calls end.
LEMMA AloneStays ==
  ASSUME NEW d \in Device, AloneInv(d), NEW app, mem'[d] = app, StaysThere(d, app),
         app.sending \in {None, mem[d].sending}, app.replay \in {None, mem[d].replay},
         disk'[d] = disk[d], row' = row, stored'[d] = stored[d], Sent(d)' = Sent(d)
  PROVE  AloneInv(d)'
<1> USE DEF StaysThere
<1>1. LineInv(d)'
  BY DEF AloneInv, LineInv, HasNewSeek
<1>2. RowInv(d)'
  BY DEF AloneInv, RowInv
<1>3. CallsInv(d)'
  BY DEF AloneInv, CallsInv, Decided
<1>4. BehindInv(d)'
  BY DEF AloneInv, BehindInv, SoughtBack
<1>5. FlagInv(d)'
  BY DEF AloneInv, FlagInv
<1>6. EntryInv(d)'
  BY DEF AloneInv, EntryInv
<1> QED BY <1>1, <1>2, <1>3, <1>4, <1>5, <1>6 DEF AloneInv

\* A step of another device that records nothing leaves it alone.
LEMMA AnotherStep ==
  ASSUME SyncInv, NEW d \in Device, IsAlone(d), IsAlone(d)', AloneInv(d),
         NEW e \in Device \ {d},
         \/ \E place \in Position : Listen(e, place)
         \/ \E place \in SeekTargets : Seek(e, place)
         \/ StartSave(e) \/ SaveReturns(e) \/ SaveFails(e)
         \/ RequestListing(e) \/ ListingArrives(e)
         \/ ReplayReturns(e) \/ ReplayFails(e)
         \/ FetchForAdoption(e) \/ FinishAdoption(e)
  PROVE  AloneInv(d)'
<1>1. /\ disk \in [Device -> [journal : Copy \cup {None}, intent : Intent \cup {None}]]
      /\ mem \in [Device -> App] /\ clock \in [Device -> Nat] /\ DeviceInv(e)
      /\ clock[e] = 0 /\ clock'[e] = 0
  BY DEF SyncInv, SyncTypeOK, IsAlone
<1>2. ASSUME NEW place \in Position, Listen(e, place)
      PROVE  FALSE
  <2>1. PICK app : app = [mem[e] EXCEPT !.head = place]
    OBVIOUS
  <2>2. clock'[e] = IF HasNewSeek(app) THEN clock[e] ELSE clock[e] + 1
    BY <1>1, <1>2, <2>1 DEF Listen
  <2>3. HasNewSeek(app) => mem[e].seekGen > 0
    BY <1>1, <2>1 DEF App, HasNewSeek, Larger
  <2> QED BY <1>1, <2>2, <2>3 DEF DeviceInv, SeekInv
<1>3. ASSUME NEW place \in SeekTargets, Seek(e, place)
      PROVE  FALSE
  <2>1. clock' = [clock EXCEPT ![e] = clock[e] + 1]
    BY <1>3 DEF Seek
  <2> QED BY <1>1, <2>1
<1>4. ASSUME StartSave(e) \/ SaveReturns(e) \/ SaveFails(e) \/ RequestListing(e)
             \/ ReplayReturns(e) \/ ReplayFails(e) \/ FetchForAdoption(e)
      PROVE  /\ disk'[d] = disk[d] /\ mem'[d] = mem[d] /\ row' = row /\ stored' = stored
             /\ requests \subseteq requests' /\ \A r \in requests' \ requests : r.dev = e
  <2>1. ASSUME StartSave(e)
        PROVE  /\ disk'[d] = disk[d] /\ mem'[d] = mem[d] /\ row' = row /\ stored' = stored
               /\ requests \subseteq requests' /\ \A r \in requests' \ requests : r.dev = e
    BY <1>1, <2>1 DEF StartSave, Request, serverVars, historyVars
  <2>2. ASSUME SaveReturns(e)
        PROVE  /\ disk'[d] = disk[d] /\ mem'[d] = mem[d] /\ row' = row /\ stored' = stored
               /\ requests' = requests
    BY <1>1, <2>2 DEF SaveReturns, serverVars
  <2>3. ASSUME ReplayReturns(e)
        PROVE  /\ disk'[d] = disk[d] /\ mem'[d] = mem[d] /\ row' = row /\ stored' = stored
               /\ requests' = requests
    BY <1>1, <2>3 DEF ReplayReturns, serverVars
  <2>4. ASSUME SaveFails(e) \/ RequestListing(e) \/ ReplayFails(e) \/ FetchForAdoption(e)
        PROVE  /\ disk'[d] = disk[d] /\ mem'[d] = mem[d] /\ row' = row /\ stored' = stored
               /\ requests' = requests
    BY <1>1, <2>4 DEF SaveFails, RequestListing, ReplayFails, FetchForAdoption,
                      serverVars, historyVars
  <2> QED BY <1>4, <2>1, <2>2, <2>3, <2>4
<1>5. ASSUME ListingArrives(e)
      PROVE  /\ disk'[d] = disk[d] /\ mem'[d] = mem[d] /\ row' = row /\ stored' = stored
             /\ requests \subseteq requests' /\ \A r \in requests' \ requests : r.dev = e
  <2>1. row' = row /\ stored' = stored
    BY <1>5 DEF ListingArrives, serverVars, historyVars
  <2>2. disk' = disk \/ \E intent : disk' = [disk EXCEPT ![e].intent = intent]
    BY <1>5 DEF ListingArrives
  <2>3. \E app : mem' = [mem EXCEPT ![e] = app]
    BY <1>5 DEF ListingArrives
  <2>4. requests' = requests \/ \E seek, flag : requests' = requests \cup {Request(e, disk[e].journal, seek, flag)}
    BY <1>5 DEF ListingArrives
  <2> QED BY <1>1, <2>1, <2>2, <2>3, <2>4 DEF Request
<1>6. ASSUME FinishAdoption(e)
      PROVE  /\ disk'[d] = disk[d] /\ mem'[d] = mem[d] /\ row' = row /\ stored' = stored
             /\ requests' = requests
  <2>1. row' = row /\ stored' = stored /\ requests' = requests
    BY <1>6 DEF FinishAdoption, serverVars
  <2>2. disk' = disk \/ \E journal : disk' = [disk EXCEPT ![e].journal = journal]
    BY <1>6 DEF FinishAdoption
  <2>3. \E app : mem' = [mem EXCEPT ![e] = app]
    BY <1>6 DEF FinishAdoption
  <2> QED BY <1>1, <2>1, <2>2, <2>3
<1>7. /\ disk'[d] = disk[d] /\ mem'[d] = mem[d] /\ row' = row /\ stored' = stored
      /\ requests \subseteq requests' /\ \A r \in requests' \ requests : r.dev = e
  BY <1>2, <1>3, <1>4, <1>5, <1>6
<1>8. Sent(d)' = Sent(d)
  BY <1>7 DEF Sent
<1>9. StaysThere(d, mem[d])
  BY DEF StaysThere
<1> QED BY <1>7, <1>8, <1>9, AloneStays

\* It listens on or seeks: the new edit is further on, or sought.
LEMMA AlonePersists ==
  ASSUME SyncInv, NEW d \in Device, IsAlone(d), AloneInv(d),
         NEW app \in App, NEW intent \in Intent \cup {None},
         NEW at, IsUnused(d, at), Persist(d, app, intent, at),
         row' = row, stored' = stored, requests' = requests,
         app.jGen = mem[d].jGen, app.ackGen = mem[d].ackGen, app.queue = mem[d].queue,
         app.sending = mem[d].sending, app.replay = mem[d].replay,
         app.overruled = mem[d].overruled, app.open,
         \/ intent = disk[d].intent /\ mem[d].head <= app.head
         \/ intent # None /\ intent.at = at /\ intent.target = app.head
  PROVE  AloneInv(d)'
<1> DEFINE new == HasNewSeek(app)
           j == disk[d].journal
<1>1. PICK c : c = PendingCopy(app.head, at, j, app.shelf, new, <<d, at>>)
  OBVIOUS
<1>2. PICK q : q = SaveEntry(app, c, intent)
  OBVIOUS
<1>3. /\ SyncTypeOK /\ DeviceInv(d) /\ mem[d] \in App /\ at \in Nat
      /\ j \in Copy \cup {None} /\ stored[d] \in Nat /\ stored[d] < at
  BY DEF SyncInv, SyncTypeOK, IsUnused
<1>4. /\ disk' = [disk EXCEPT ![d] = [journal |-> c, intent |-> intent]]
      /\ mem' = [mem EXCEPT ![d] =
           [app EXCEPT !.queue = q, !.shelf = c.acked,
                       !.jGen = IF new THEN app.seekGen ELSE @,
                       !.overruled = @ /\ ~new]]
  BY <1>1, <1>2 DEF Persist
<1>5. j # None => Leads(d, j) /\ j.owned /\ j.edit < at
  BY AloneLeads DEF IsUnused
<1>6. /\ c.status = "pending" /\ c.edit = at /\ c.pos = app.head /\ c.owned /\ c # None
      /\ j # None => c.rec.id = j.rec.id
  <2>1. j # None /\ j.owned => j.rec # None
    BY <1>5 DEF Leads, OwnRecording
  <2>2. c = PendingCopy(app.head, at, j, app.shelf, HasNewSeek(app), <<d, at>>)
    BY <1>1
  <2> HIDE DEF j, new
  <2>3. c \in Copy
    BY <1>3, <2>1, <2>2, PendingCopyIs
  <2>4. NextIn(c, j, <<d, at>>)
    BY <1>3, <2>1, <2>2, PendingInherits
  <2> QED BY <1>5, <2>2, <2>3, <2>4, SyncAssumption DEF PendingCopy, NextIn
<1> HIDE DEF new, j
<1>7. /\ disk'[d].journal = c /\ disk'[d].intent = intent
      /\ mem'[d].queue = q /\ mem'[d].open /\ mem'[d].head = app.head
      /\ mem'[d].sending = mem[d].sending /\ mem'[d].replay = mem[d].replay
      /\ mem'[d].overruled = (app.overruled /\ ~new)
      /\ mem'[d].jGen = (IF new THEN app.seekGen ELSE app.jGen)
      /\ mem'[d].seekGen = app.seekGen /\ mem'[d].ackGen = app.ackGen
  BY <1>3, <1>4 DEF SyncTypeOK, App
<1>8. Sent(d)' = Sent(d) /\ stored'[d] = stored[d]
  BY DEF Sent
<1>9. j = None => Sent(d) = {}
  BY AloneSends DEF j
<1>10. \A s \in Sent(d) : s.cp.pos \in Position /\ s.edit \in Nat /\ s.edit < at
  BY <1>3 DEF AloneInv, LineInv, IsUnused, Sent, SyncTypeOK, SaveRequest
<1>11. LineInv(d)'
  <2>1. ~HasNewSeek(mem'[d])
    BY <1>7 DEF HasNewSeek, Larger, App, new
  <2>2. ~mem'[d].overruled
    BY <1>7 DEF AloneInv, LineInv
  <2>3. c.pos <= mem'[d].head
    BY <1>6, <1>7 DEF App, Position
  <2>4. \A s \in Sent(d) : s.cp.rec.id = c.rec.id
    BY <1>6, <1>9 DEF AloneInv, LineInv, j
  <2> QED BY <1>6, <1>7, <1>8, <1>10, <2>1, <2>2, <2>3, <2>4 DEF LineInv
<1>12. RowInv(d)' /\ CallsInv(d)' /\ FlagInv(d)'
  <2>1. RowInv(d)'
    BY <1>6, <1>7, <1>8 DEF AloneInv, RowInv
  <2>2. CallsInv(d)'
    BY <1>7, <1>8 DEF AloneInv, CallsInv, Decided
  <2>3. FlagInv(d)'
    BY <1>8 DEF AloneInv, FlagInv
  <2> QED BY <2>1, <2>2, <2>3
<1>13. BehindInv(d)'
  <2> SUFFICES ASSUME NEW s \in Sent(d), stored[d] <= s.edit, c.pos < s.cp.pos
               PROVE  /\ intent # None /\ s.edit < intent.at /\ intent.at <= c.edit
                      /\ intent.target <= c.pos
    BY <1>7, <1>8 DEF BehindInv, SoughtBack
  <2>1. CASE intent # None /\ intent.at = at /\ intent.target = app.head
    BY <1>3, <1>6, <1>10, <2>1 DEF App, Position
  <2>2. CASE intent = disk[d].intent /\ mem[d].head <= app.head
    <3>1. j # None /\ j \in Copy /\ j.pos <= mem[d].head
      BY <1>3, <1>9 DEF AloneInv, LineInv, j
    <3>2. /\ j.pos \in Nat /\ c.pos \in Nat /\ mem[d].head \in Nat /\ s.cp.pos \in Nat
          /\ app.head \in Nat /\ j.edit \in Nat
      BY <1>3, <1>6, <1>10, <3>1, RulesAssumption DEF App, Copy, Position
    <3>3. j.pos <= c.pos /\ j.pos < s.cp.pos
      BY <1>6, <2>2, <3>1, <3>2
    <3>4. SoughtBack(d, s)
      BY <3>1, <3>3 DEF AloneInv, BehindInv, j
    <3>5. intent # None /\ intent.at \in Nat /\ intent.target \in Nat
      BY <2>2, <3>4 DEF SoughtBack, Intent, Position
    <3> QED BY <1>3, <1>5, <1>6, <2>2, <3>1, <3>2, <3>3, <3>4, <3>5 DEF SoughtBack, j
  <2> QED BY <2>1, <2>2
<1>14. EntryInv(d)'
  <2>1. /\ q.copy = c
        /\ q.intent = IF IntentAuthorizes(intent, c) THEN intent.at ELSE None
        /\ IntentAuthorizes(intent, c) /\ FlagsRegression(intent.target, app.ackPos)
              => q.regression
    BY <1>2 DEF SaveEntry
  <2>2. intent # None => intent.target # None /\ intent.at \in Nat
    BY RulesAssumption DEF Intent, Position
  <2>3. q.intent # None => q.intent <= c.edit
    BY <1>3, <1>6, <2>1, <2>2 DEF IntentAuthorizes
  <2>4. intent # None /\ intent.at <= c.edit
          => q.intent = intent.at /\ (intent.target < NearZero => q.regression)
    BY <1>3, <1>6, <2>1, <2>2 DEF IntentAuthorizes, FlagsRegression
  <2> QED BY <1>7, <2>1, <2>3, <2>4 DEF EntryInv
<1> QED BY <1>11, <1>12, <1>13, <1>14 DEF AloneInv

\* A tick of playback.
LEMMA AloneListens ==
  ASSUME SyncInv, NEW d \in Device, IsAlone(d), AloneInv(d),
         NEW place \in Position, Listen(d, place)
  PROVE  AloneInv(d)'
<1>1. PICK app : app = [mem[d] EXCEPT !.head = place]
  OBVIOUS
<1>2. PICK at : at = IF HasNewSeek(app) THEN clock[d] ELSE clock[d] + 1
  OBVIOUS
<1>3. mem[d] \in App /\ disk[d].intent \in Intent \cup {None}
  BY DEF SyncInv, SyncTypeOK
<1>4. /\ app \in App /\ app.head = place
      /\ \A f \in {"jGen", "ackGen", "seekGen", "queue", "sending", "replay", "overruled",
                   "open"} : app[f] = mem[d][f]
  BY <1>1, <1>3 DEF App
<1>5. /\ mem[d].open /\ mem[d].head <= place
      /\ Persist(d, app, disk[d].intent, at)
      /\ row' = row /\ stored' = stored /\ requests' = requests
  <2>1. mem[d].head \in Int /\ Smaller(mem[d].head + 1, BookEnd) \in Int
    BY <1>3, RulesAssumption DEF App, Position, Smaller
  <2> QED BY <1>1, <1>2, <2>1 DEF Listen, serverVars
<1>6. IsUnused(d, at)
  <2>1. HasNewSeek(app) <=> HasNewSeek(mem[d])
    BY <1>4 DEF HasNewSeek
  <2> QED BY <1>2, <2>1, NextNumber
<1> QED BY <1>3, <1>4, <1>5, <1>6, AlonePersists

\* A deliberate seek, in an open book or from the shelf.
LEMMA AloneSeeks ==
  ASSUME SyncInv, NEW d \in Device, IsAlone(d), AloneInv(d),
         NEW place \in SeekTargets, Seek(d, place)
  PROVE  AloneInv(d)'
<1>1. PICK at : at = clock[d] + 1
  OBVIOUS
<1>2. PICK app : app = [mem[d] EXCEPT !.open = TRUE, !.head = place, !.target = place,
                                      !.seekGen = @ + 1]
  OBVIOUS
<1>3. PICK intent : intent = [at |-> at, target |-> place]
  OBVIOUS
<1>4. /\ mem[d] \in App /\ clock[d] \in Nat /\ place \in Position /\ SyncTypeOK
      /\ IsUnused(d, at) /\ at \in Nat
  BY <1>1, SyncAssumption, NextNumber DEF SyncInv, SyncTypeOK
<1>5. intent \in Intent /\ intent # None /\ intent.at = at /\ intent.target = place
  BY <1>3, <1>4, SyncAssumption DEF Intent
<1>6. /\ app \in App /\ app.head = place /\ app.open
      /\ \A f \in {"jGen", "ackGen", "queue", "sending", "replay", "overruled"} :
            app[f] = mem[d][f]
  <2>1. PICK n \in Nat : n = mem[d].seekGen + 1
    BY <1>4 DEF App
  <2>2. app = [mem[d] EXCEPT !.open = TRUE, !.head = place, !.target = place, !.seekGen = n]
    BY <1>2, <2>1
  <2> QED BY <1>4, <2>2 DEF App
<1>7. /\ row' = row /\ stored' = stored /\ requests' = requests
      /\ IF mem[d].open THEN Persist(d, app, intent, at)
         ELSE /\ disk' = [disk EXCEPT ![d].intent = intent]
              /\ mem' = [mem EXCEPT ![d] = app]
              /\ UNCHANGED taken
  BY <1>1, <1>2, <1>3 DEF Seek, serverVars
<1>8. CASE mem[d].open
  BY <1>4, <1>5, <1>6, <1>7, <1>8, AlonePersists
<1>9. CASE ~mem[d].open
  <2>1. /\ disk'[d].journal = disk[d].journal /\ mem'[d] = app
        /\ Sent(d)' = Sent(d) /\ stored'[d] = stored[d]
    BY <1>4, <1>7, <1>9 DEF SyncTypeOK, Sent
  <2>2. disk[d].journal = None
    BY <1>9 DEF AloneInv, LineInv
  <2>3. mem[d].queue = None /\ Sent(d) = {}
    BY <2>2 DEF SyncInv, DeviceInv, JournalInv
  <2>4. LineInv(d)' /\ BehindInv(d)' /\ EntryInv(d)'
    BY <1>6, <2>1, <2>2, <2>3 DEF AloneInv, LineInv, BehindInv, EntryInv
  <2>5. RowInv(d)' /\ FlagInv(d)'
    BY <1>7, <2>1, <2>2, <2>3 DEF AloneInv, RowInv, FlagInv
  <2>6. CallsInv(d)'
    BY <1>6, <1>7, <2>1 DEF AloneInv, CallsInv, Decided
  <2> QED BY <2>4, <2>5, <2>6 DEF AloneInv
<1> QED BY <1>8, <1>9

\* A request that sends the journal's edit, and says so if it is behind.
SendsJournal(d, r) ==
  LET j == disk[d].journal
  IN  /\ r.dev = d /\ r.edit = j.edit /\ r.cp.rec = j.rec /\ r.cp.pos = j.pos
      /\ \A s \in Sent(d) : SoughtBack(d, s) => IsFlagged(r.cp)

\* Sending it keeps the order of places.
LEMMA AloneSending ==
  ASSUME SyncInv, NEW d \in Device, AloneInv(d), disk[d].journal # None,
         NEW r, SendsJournal(d, r), Sent(d)' = Sent(d) \cup {r},
         disk' = disk, row' = row, stored' = stored,
         \A f \in {"open", "head", "overruled"} : mem'[d][f] = mem[d][f],
         HasNewSeek(mem'[d]) => HasNewSeek(mem[d])
  PROVE  LineInv(d)' /\ RowInv(d)' /\ BehindInv(d)' /\ FlagInv(d)'
<1>1. PICK j : j = disk[d].journal
  OBVIOUS
<1>2. /\ j \in Copy /\ \A s \in Sent(d) : /\ s.edit \in Nat /\ s.edit <= j.edit
                                          /\ s.cp.pos \in Position
  BY <1>1, AloneLeads
<1>3. /\ r.edit = j.edit /\ r.cp.pos = j.pos /\ r.cp.rec = j.rec
      /\ \A s \in Sent(d) : SoughtBack(d, s) => IsFlagged(r.cp)
      /\ j.pos \in Position /\ j.edit \in Nat /\ j.pos \in Int
  BY <1>1, <1>2 DEF SendsJournal, Copy, Position
<1>4. LineInv(d)'
  BY <1>1, <1>3 DEF AloneInv, LineInv
<1>5. RowInv(d)'
  <2>1. RowInv(d) /\ Sent(d) \subseteq Sent(d)'
    BY DEF AloneInv
  <2> QED BY <2>1 DEF RowInv
<1>6. BehindInv(d)'
  <2> SUFFICES ASSUME NEW s \in Sent(d) \cup {r}, stored[d] <= s.edit, j.pos < s.cp.pos
               PROVE  SoughtBack(d, s)'
    BY <1>1 DEF BehindInv
  <2>1. s \in Sent(d)
    BY <1>3
  <2> QED BY <1>1, <2>1 DEF AloneInv, BehindInv, SoughtBack
<1>7. FlagInv(d)'
  <2> SUFFICES ASSUME NEW a \in Sent(d) \cup {r}, NEW s \in Sent(d) \cup {r},
                      stored[d] <= s.edit, s.edit < a.edit, a.cp.pos < s.cp.pos
               PROVE  IsFlagged(a.cp)
    BY DEF FlagInv
  <2>1. s # r
    BY <1>2, <1>3
  <2>2. CASE a = r
    BY <1>1, <1>3, <2>1, <2>2 DEF AloneInv, BehindInv
  <2>3. CASE a # r
    BY <2>1, <2>3 DEF AloneInv, FlagInv
  <2> QED BY <2>2, <2>3
<1> QED BY <1>4, <1>5, <1>6, <1>7

\* Its queued save is sent.
LEMMA AloneStartsSave ==
  ASSUME SyncInv, NEW d \in Device, AloneInv(d), StartSave(d)
  PROVE  AloneInv(d)'
<1>1. PICK entry : entry = mem[d].queue
  OBVIOUS
<1>2. PICK c : c = entry.copy
  OBVIOUS
<1>3. PICK seek \in BOOLEAN :
        seek = (StillIntended(d, entry.intent) \/ entry.gen > mem[d].ackGen)
  OBVIOUS
<1>4. PICK flag \in BOOLEAN : flag = (entry.regression /\ seek)
  OBVIOUS
<1>5. PICK r : r = Request(d, c, seek, flag)
  OBVIOUS
<1>6. PICK call : call = [entry |-> entry, request |-> r, reply |-> None]
  OBVIOUS
<1>7. /\ entry # None /\ mem' = [mem EXCEPT ![d].queue = None, ![d].sending = call]
      /\ requests' = requests \cup {r}
      /\ row' = row /\ stored' = stored /\ disk' = disk
  BY <1>1, <1>2, <1>3, <1>4, <1>5, <1>6 DEF StartSave, serverVars, historyVars
<1>8. mem \in [Device -> App] /\ mem[d] \in App /\ entry \in Entry
      /\ disk[d].intent \in Intent \cup {None} /\ disk[d].journal \in Copy \cup {None}
  BY <1>1, <1>7 DEF SyncInv, SyncTypeOK, App
<1>9. /\ mem'[d].queue = None /\ mem'[d].sending = call
      /\ \A f \in {"open", "head", "overruled", "seekGen", "jGen", "ackGen", "replay"} :
            mem'[d][f] = mem[d][f]
  BY <1>7, <1>8 DEF App
<1>10. HasNewSeek(mem'[d]) => HasNewSeek(mem[d])
  BY <1>9 DEF HasNewSeek
<1>11. /\ r.dev = d /\ r.edit = c.edit /\ r.cp.rec = c.rec /\ r.cp.pos = c.pos
       /\ r.cp.seek = seek /\ r.cp.regression = flag
  BY <1>5 DEF Request, CheckpointOf
<1>12. /\ disk[d].journal # None /\ disk[d].journal.edit = c.edit
       /\ disk[d].journal.rec = c.rec /\ disk[d].journal.pos = c.pos
  BY <1>1, <1>2, <1>7 DEF SyncInv, DeviceInv, QueueInv, AloneInv, LineInv
<1>13. ASSUME NEW s \in Sent(d), SoughtBack(d, s)
       PROVE  IsFlagged(r.cp)
  <2>1. PICK i : i = disk[d].intent
    OBVIOUS
  <2>2. i # None /\ i.at <= c.edit /\ i.target <= c.pos /\ i \in Intent
    BY <1>8, <1>12, <1>13, <2>1 DEF SoughtBack
  <2>3. entry.intent = i.at /\ (i.target < NearZero => entry.regression)
    BY <1>1, <1>2, <1>7, <2>1, <2>2 DEF AloneInv, EntryInv
  <2>4. seek
    <3>1. i.at \in Nat /\ i.at # None
      BY <2>2, RulesAssumption DEF Intent
    <3>2. StillIntended(d, entry.intent)
      BY <2>1, <2>2, <2>3, <3>1 DEF StillIntended
    <3> QED BY <1>3, <3>2
  <2>5. c.pos < NearZero => i.target < NearZero
    BY <1>8, <1>12, <2>2, RulesAssumption DEF Intent, Position, Copy
  <2> QED BY <1>4, <1>11, <2>3, <2>4, <2>5 DEF IsFlagged
<1>14. SendsJournal(d, r)
  BY <1>11, <1>12, <1>13 DEF SendsJournal
<1>15. Sent(d)' = Sent(d) \cup {r}
  BY <1>7, <1>11 DEF Sent
<1>16. LineInv(d)' /\ RowInv(d)' /\ BehindInv(d)' /\ FlagInv(d)'
  BY <1>7, <1>9, <1>10, <1>12, <1>14, <1>15, AloneSending
<1>17. CallsInv(d)'
  <2>1. entry.intent # None => entry.intent <= c.edit
    BY <1>1, <1>2, <1>7 DEF AloneInv, EntryInv
  <2>2. call.entry = entry /\ call.request = r /\ call.reply = None
    BY <1>6
  <2> QED BY <1>7, <1>9, <1>11, <2>1, <2>2 DEF AloneInv, CallsInv, Decided
<1>18. EntryInv(d)'
  BY <1>9 DEF EntryInv
<1> QED BY <1>16, <1>17, <1>18 DEF AloneInv

\* A listing arrives: a pending journal is replayed, and a seek whose edit is the
\* row's is settled.
LEMMA AloneListing ==
  ASSUME SyncInv, NEW d \in Device, AloneInv(d), ListingArrives(d)
  PROVE  AloneInv(d)'
<1>1. PICK j : j = disk[d].journal
  OBVIOUS
<1>2. PICK i : i = disk[d].intent
  OBVIOUS
<1>3. PICK listed : listed = mem[d].listing.row
  OBVIOUS
<1>4. PICK app : app = [mem[d] EXCEPT !.listing = None,
                          !.shelf = IF listed = None THEN None ELSE listed.rev]
  OBVIOUS
<1>5. /\ disk \in [Device -> [journal : Copy \cup {None}, intent : Intent \cup {None}]]
      /\ mem \in [Device -> App] /\ mem[d] \in App
      /\ i \in Intent \cup {None} /\ j \in Copy \cup {None}
      /\ row' = row /\ stored' = stored
  BY <1>1, <1>2 DEF SyncInv, SyncTypeOK, ListingArrives, serverVars, historyVars
<1>6. \A f \in {"open", "head", "overruled", "queue", "seekGen", "jGen", "ackGen",
                "sending", "replay"} : app[f] = mem[d][f]
  BY <1>4, <1>5 DEF App
<1>7. CASE NeedsSync(j, listed)
  <2>1. PICK seek \in BOOLEAN : seek = IntentAuthorizes(i, j)
    BY DEF IntentAuthorizes
  <2>2. PICK flag \in BOOLEAN :
          flag = (seek /\ FlagsRegression(i.target,
                            IF listed = None THEN None ELSE listed.pos))
    BY DEF FlagsRegression
  <2>3. PICK r : r = Request(d, j, seek, flag)
    OBVIOUS
  <2>4. PICK at : at = IF seek THEN i.at ELSE None
    OBVIOUS
  <2>5. PICK call : call = [attempted |-> j, request |-> r, reply |-> None, intent |-> at]
    OBVIOUS
  <2>6. PICK sent : sent = [app EXCEPT !.replay = call]
    OBVIOUS
  <2>7. mem' = [mem EXCEPT ![d] = sent] /\ requests' = requests \cup {r} /\ disk' = disk
    BY <1>1, <1>2, <1>3, <1>4, <1>7, <2>1, <2>2, <2>3, <2>4, <2>5, <2>6 DEF ListingArrives
  <2>8. /\ mem'[d].replay = call
        /\ \A f \in {"open", "head", "overruled", "queue", "seekGen", "jGen", "ackGen",
                     "sending"} : mem'[d][f] = mem[d][f]
    <3>1. sent.replay = call /\ \A f \in {"open", "head", "overruled", "queue", "seekGen",
                                          "jGen", "ackGen", "sending"} : sent[f] = app[f]
      BY <1>4, <1>5, <2>6 DEF App
    <3> QED BY <1>5, <1>6, <2>7, <3>1
  <2>9. HasNewSeek(mem'[d]) => HasNewSeek(mem[d])
    BY <2>8 DEF HasNewSeek
  <2>10. /\ r.dev = d /\ r.edit = j.edit /\ r.cp.rec = j.rec /\ r.cp.pos = j.pos
         /\ r.cp.seek = seek /\ r.cp.regression = flag
    BY <2>3 DEF Request, CheckpointOf
  <2>11. ASSUME NEW s \in Sent(d), SoughtBack(d, s)
         PROVE  IsFlagged(r.cp)
    <3>1. i # None /\ i.at <= j.edit /\ i.target <= j.pos /\ i \in Intent /\ j \in Copy
      BY <1>1, <1>2, <1>5, <1>7, <2>11 DEF SoughtBack, NeedsSync
    <3>2. seek
      BY <2>1, <3>1 DEF IntentAuthorizes, Intent, Copy
    <3>3. i.target # None /\ (j.pos < NearZero => i.target < NearZero)
      BY <3>1, RulesAssumption DEF Intent, Position, Copy
    <3> QED BY <2>2, <2>10, <3>2, <3>3 DEF IsFlagged, FlagsRegression
  <2>12. SendsJournal(d, r)
    BY <1>1, <2>10, <2>11 DEF SendsJournal
  <2>13. Sent(d)' = Sent(d) \cup {r} /\ disk[d].journal # None
    BY <1>1, <1>7, <2>7, <2>10 DEF Sent, NeedsSync
  <2>14. LineInv(d)' /\ RowInv(d)' /\ BehindInv(d)' /\ FlagInv(d)'
    BY <1>5, <2>7, <2>8, <2>9, <2>12, <2>13, AloneSending
  <2>15. CallsInv(d)'
    <3>1. at # None => at <= j.edit
      BY <1>5, <1>7, <2>1, <2>4 DEF IntentAuthorizes, Intent, Copy, NeedsSync
    <3>2. call.request = r /\ call.reply = None /\ call.intent = at
      BY <2>5
    <3> QED BY <1>5, <2>8, <2>10, <3>1, <3>2 DEF AloneInv, CallsInv, Decided
  <2>16. EntryInv(d)'
    BY <2>7, <2>8 DEF AloneInv, EntryInv
  <2> QED BY <2>14, <2>15, <2>16 DEF AloneInv
<1>8. CASE ~NeedsSync(j, listed)
  <2>1. PICK k : k = IF j # None /\ listed # None /\ IntentAuthorizes(i, j) THEN None ELSE i
    OBVIOUS
  <2>2. mem' = [mem EXCEPT ![d] = app] /\ requests' = requests
        /\ disk' = [disk EXCEPT ![d].intent = k]
    BY <1>1, <1>2, <1>3, <1>4, <1>5, <1>8, <2>1 DEF ListingArrives
  <2>3. /\ disk'[d].journal = j /\ disk'[d].intent = k /\ mem'[d] = app
        /\ Sent(d)' = Sent(d)
    BY <1>1, <1>5, <2>2 DEF Sent
  <2>4. LineInv(d)' /\ RowInv(d)' /\ FlagInv(d)'
    <3>1. HasNewSeek(app) => HasNewSeek(mem[d])
      BY <1>6 DEF HasNewSeek
    <3>2. LineInv(d)'
      BY <1>1, <1>6, <2>3, <3>1 DEF AloneInv, LineInv
    <3>3. RowInv(d)' /\ FlagInv(d)'
      BY <1>1, <1>5, <2>3 DEF AloneInv, RowInv, FlagInv
    <3> QED BY <3>2, <3>3
  <2>5. CallsInv(d)'
    BY <1>5, <1>6, <2>3 DEF AloneInv, CallsInv, Decided
  <2>6. BehindInv(d)'
    <3> SUFFICES ASSUME j # None, NEW s \in Sent(d), stored[d] <= s.edit, j.pos < s.cp.pos
                 PROVE  k = i /\ SoughtBack(d, s)
      BY <1>1, <1>2, <1>5, <2>3 DEF BehindInv, SoughtBack
    <3>1. SoughtBack(d, s)
      BY <1>1 DEF AloneInv, BehindInv
    <3>2. j \in Copy /\ s.edit \in Nat /\ s.edit <= j.edit /\ (s.edit = j.edit => s.cp.pos = j.pos)
      BY <1>1, AloneLeads
    <3>3. j.status = "synced"
      BY <1>8, <3>2 DEF NeedsSync, Copy
    <3>4. stored[d] = j.edit
      BY <1>1, <3>3 DEF AloneInv, RowInv
    <3>5. s.cp.pos = j.pos
      BY <3>2, <3>4 DEF Copy
    <3> QED BY <3>2, <3>5 DEF Copy, Position
  <2>7. EntryInv(d)'
    BY <1>2, <1>6, <2>1, <2>3 DEF AloneInv, EntryInv
  <2> QED BY <2>4, <2>5, <2>6, <2>7 DEF AloneInv
<1> QED BY <1>7, <1>8

\* The server's answer to its newest edit is that edit, and its row.
LEMMA AloneAnswer ==
  ASSUME SyncInv, NEW d \in Device, AloneInv(d),
         NEW r, NEW a \in Copy, Carries(d, r, a),
         NEW reply \in Reply, reply # None, Answers(r, reply), Decided(d, r, reply),
         NEW j, j = disk[d].journal, SameCopy(j, a)
  PROVE  /\ reply.accepted /\ reply.row = row /\ row # None /\ stored[d] = j.edit
         /\ row.pos = j.pos /\ row.rec = j.rec
<1>1. r \in Sent(d) /\ r.edit = a.edit /\ j # None /\ r.edit = j.edit
      /\ r.cp.pos = j.pos /\ r.cp.rec = j.rec
  <2>1. r \in Sent(d) /\ r.edit = a.edit /\ r.cp.rec = a.rec /\ r.cp.pos = a.pos
    BY DEF Carries
  <2> QED BY <2>1 DEF SyncInv, DeviceInv, JournalInv, SameCopy
<1>2. j \in Copy /\ stored[d] \in Nat /\ stored[d] <= j.edit /\ j.edit \in Nat
  BY <1>1, AloneLeads DEF Copy
<1>3. r.edit = stored[d] /\ reply.accepted /\ reply.row = row
  BY <1>1, <1>2 DEF Decided
<1>4. row # None
  BY <1>3, ServerAssumption DEF Reply
<1> QED BY <1>1, <1>3, <1>4 DEF Answers

\* What the journal becomes is the edit it was; if it was answered, it is the row.
LEMMA AloneSettles ==
  ASSUME SyncInv, NEW d \in Device, AloneInv(d),
         NEW r, NEW a \in Copy, Carries(d, r, a),
         NEW reply \in Reply, reply # None, Answers(r, reply), Decided(d, r, reply),
         NEW j, j = disk[d].journal, NEW s, s = Settled(j, a, reply)
  PROVE  /\ s # None /\ j # None /\ s.edit = j.edit /\ s.pos = j.pos /\ s.owned /\ s.rec.id = j.rec.id
         /\ s.status = "synced" => stored[d] = j.edit /\ row # None /\ s.rev = row.rev
<1>1. j # None /\ j \in Copy /\ j.owned
  <2>1. j # None
    BY DEF SyncInv, DeviceInv, JournalInv, Carries
  <2> QED BY <2>1, AloneLeads
<1>2. CASE ReplyWins(j, a)
  <2>1. SameCopy(j, a)
    BY <1>1, <1>2 DEF ReplyWins
  <2>2. /\ reply.accepted /\ reply.row = row /\ row # None /\ stored[d] = j.edit
        /\ row.pos = j.pos /\ row.rec = j.rec
    BY <2>1, AloneAnswer
  <2>3. PICK owned \in BOOLEAN : owned = (a.owned /\ row.rec = a.rec)
    OBVIOUS
  <2>4. owned /\ a.edit = j.edit
    BY <2>1, <2>2, <2>3 DEF Carries, IsPending, SameCopy
  <2>5. s = SyncedCopy(row, a.edit, owned)
    BY <1>2, <2>2, <2>3 DEF Settled, CanonicalOf, Reply
  <2>6. row \in Row /\ j.edit \in Nat /\ s = SyncedCopy(row, j.edit, owned)
    BY <1>1, <2>2, <2>4, <2>5 DEF Reply, Copy
  <2>7. /\ s \in Copy /\ s.rev = row.rev /\ s.edit = j.edit /\ s.owned
        /\ s.pos = row.pos /\ s.rec = row.rec
    <3>1. /\ s \in Copy /\ s.rev = row.rev /\ s.edit = j.edit /\ s.owned = owned
          /\ s.pos = row.pos /\ s.rec = row.rec
      BY <2>6, SyncedCopyIs
    <3> QED BY <2>4, <3>1
  <2> QED BY <1>1, <2>2, <2>7, SyncAssumption
<1>3. CASE ~ReplyWins(j, a)
  <2>1. s = Rebased(j, a, reply) /\ ~SameCopy(j, a)
    BY <1>3 DEF Settled, ReplyWins
  <2>2. IsPast(j, reply)
    <3>1. j.status = "pending" => IsPending(j)
      BY <1>1 DEF SyncInv, DeviceInv, JournalInv
    <3>2. Leads(d, j) /\ j.rec # None
      BY <1>1, AloneLeads DEF Leads, OwnRecording
    <3> QED BY <1>1, <2>1, <3>1, <3>2, LaterIsLater DEF Answers, IsPast
  <2>3. s = j \/ IsRebasedOn(s, j, a, reply)
    BY <1>1, <2>1, <2>2, RebasedIs
  <2>4. s = j => (s.status = "synced" => stored[d] = j.edit /\ row # None /\ s.rev = row.rev)
    BY <1>1 DEF AloneInv, RowInv
  <2> QED BY <1>1, <2>3, <2>4, SyncAssumption DEF IsRebasedOn
<1> QED BY <1>2, <1>3

\* What it does with the reply to a call.
LEMMA AloneTakes ==
  ASSUME SyncInv, NEW d \in Device, AloneInv(d),
         NEW r, NEW a \in Copy, Carries(d, r, a),
         NEW reply \in Reply, reply # None, Answers(r, reply), Decided(d, r, reply),
         NEW j, j = disk[d].journal, NEW s, s = Settled(j, a, reply),
         NEW at, at # None => at <= r.edit,
         NEW intent, intent = Acknowledged(disk[d].intent, at),
         disk'[d] = [journal |-> s, intent |-> intent],
         NEW app \in App, mem'[d] = app, TakesReply(d, app, j, s, a, reply),
         app.head = mem[d].head, ~app.overruled,
         row' = row, stored' = stored, requests' = requests
  PROVE  AloneInv(d)'
<1>1. /\ s # None /\ j # None /\ s.edit = j.edit /\ s.pos = j.pos /\ s.owned /\ s.rec.id = j.rec.id
      /\ s.status = "synced" => stored[d] = j.edit /\ row # None /\ s.rev = row.rev
  BY AloneSettles
<1>2. /\ disk'[d].journal = s /\ disk'[d].intent = intent /\ Sent(d)' = Sent(d)
      /\ stored'[d] = stored[d] /\ stored[d] \in Nat
  BY DEF Sent, SyncInv, SyncTypeOK
<1>3. \/ intent = disk[d].intent
      \/ /\ intent = None /\ at # None
         /\ disk[d].intent # None /\ disk[d].intent.at = at
  BY DEF Acknowledged
<1>4. LineInv(d)'
  <2>1. HasNewSeek(app) => HasNewSeek(mem[d])
    <3>1. mem[d] \in App
      BY DEF SyncInv, SyncTypeOK
    <3>2. /\ mem[d].ackGen \in Nat /\ mem[d].jGen \in Nat /\ mem[d].seekGen \in Nat
          /\ app.ackGen \in Nat /\ app.seekGen = mem[d].seekGen /\ app.jGen = mem[d].jGen
          /\ mem[d].ackGen <= app.ackGen /\ app.ackGen <= app.seekGen
      BY <3>1 DEF App, TakesReply
    <3> QED BY <3>2 DEF HasNewSeek, Larger
  <2>2. app.open = mem[d].open
    BY DEF TakesReply
  <2> QED BY <1>1, <1>2, <2>1, <2>2 DEF AloneInv, LineInv
<1>5. RowInv(d)'
  BY <1>1, <1>2 DEF AloneInv, RowInv
<1>6. CallsInv(d)'
  <2>1. app.sending \in {None, mem[d].sending} /\ app.replay \in {None, mem[d].replay}
    BY DEF TakesReply
  <2> QED BY <1>2, <2>1 DEF AloneInv, CallsInv, Decided
<1>7. BehindInv(d)'
  <2> SUFFICES ASSUME NEW t \in Sent(d), stored[d] <= t.edit, s.pos < t.cp.pos
               PROVE  SoughtBack(d, t)'
    BY <1>2 DEF BehindInv
  <2>1. SoughtBack(d, t)
    BY <1>1 DEF AloneInv, BehindInv
  <2>2. r.edit <= stored[d] /\ r.edit \in Nat /\ t.edit \in Nat
    BY DEF Decided, Carries, SyncInv, SyncTypeOK, SaveRequest, Sent
  <2>3. intent = disk[d].intent
    <3>1. CASE intent # disk[d].intent
      <4>1. disk[d].intent.at <= r.edit /\ t.edit < disk[d].intent.at /\ disk[d].intent.at \in Nat
        BY <1>3, <2>1, <3>1 DEF SoughtBack, SyncInv, SyncTypeOK, Intent
      <4> QED BY <1>2, <2>2, <4>1
    <3> QED BY <3>1
  <2> QED BY <1>1, <1>2, <2>1, <2>3 DEF SoughtBack
<1>8. FlagInv(d)'
  BY <1>2 DEF AloneInv, FlagInv
<1>9. EntryInv(d)'
  <2>1. PICK q : q = mem[d].queue
    OBVIOUS
  <2>2. app.queue # None => /\ q # None /\ app.queue.intent = q.intent
                            /\ app.queue.regression = q.regression
                            /\ app.queue.copy.edit = q.copy.edit
    <3>1. app.queue = Requeued(q, j, a, s, reply)
      BY <2>1 DEF TakesReply
    <3>2. CASE ReplyWins(j, a) \/ s = j \/ q = None
      BY <3>1, <3>2 DEF Requeued
    <3>3. CASE ~(ReplyWins(j, a) \/ s = j \/ q = None)
      <4>1. PICK k : k = Rebased(q.copy, a, reply)
        OBVIOUS
      <4>2. q \in Entry /\ q.copy \in Copy
        BY <2>1, <3>3 DEF SyncInv, SyncTypeOK, App, Entry
      <4>3. k.edit = q.copy.edit
        <5>1. PICK rec : rec = RebasedRecording(q.copy, reply)
          OBVIOUS
        <5>2. k \in {q.copy, [q.copy EXCEPT !.base = reply.row.rev, !.acked = reply.row.rev,
                                            !.rec = rec]}
          BY <4>1, <5>1 DEF Rebased
        <5>3. [q.copy EXCEPT !.base = reply.row.rev, !.acked = reply.row.rev, !.rec = rec].edit
                = q.copy.edit
          BY <4>2 DEF Copy
        <5> QED BY <5>2, <5>3
      <4>4. app.queue = [q EXCEPT !.copy = k]
        BY <3>1, <3>3, <4>1 DEF Requeued
      <4> QED BY <3>3, <4>2, <4>3, <4>4 DEF Entry
    <3> QED BY <3>2, <3>3
  <2> QED BY <1>2, <1>3, <2>1, <2>2 DEF AloneInv, EntryInv
<1> QED BY <1>4, <1>5, <1>6, <1>7, <1>8, <1>9 DEF AloneInv

\* A reply taken says that it is overruled only if it was refused.
LEMMA ReconcileOverrules ==
  ASSUME NEW app \in App, NEW j, NEW a, NEW reply,
         NEW after, after = Reconcile(app, j, a, reply)
  PROVE  /\ after.app.overruled => app.overruled \/ (ReplyWins(j, a) /\ ~reply.accepted)
         /\ after.app.head = app.head
<1>1. PICK wins \in BOOLEAN : wins <=> ReplyWins(j, a)
  OBVIOUS
<1>2. PICK over : over = (app.overruled \/ (wins /\ ~reply.accepted))
  OBVIOUS
<1>3. \E q, shelf, pos : after.app = [app EXCEPT !.queue = q, !.shelf = shelf, !.ackPos = pos,
                                                 !.overruled = over]
  BY <1>1, <1>2 DEF Reconcile
<1> QED BY <1>1, <1>2, <1>3 DEF App

\* The reply to its save is taken.
LEMMA AloneSaved ==
  ASSUME SyncInv, NEW d \in Device, AloneInv(d), SaveReturns(d)
  PROVE  AloneInv(d)'
<1>1. PICK call : call = mem[d].sending
  OBVIOUS
<1>2. PICK j : j = disk[d].journal
  OBVIOUS
<1>3. PICK a : a = call.entry.copy
  OBVIOUS
<1>4. PICK reply : reply = call.reply
  OBVIOUS
<1>5. PICK after : after = Reconcile(mem[d], j, a, reply)
  OBVIOUS
<1>6. PICK s : s = Settled(j, a, reply)
  OBVIOUS
<1>7. PICK r : r = call.request
  OBVIOUS
<1>8. /\ SyncTypeOK /\ DeviceInv(d) /\ mem[d] \in App /\ call \in Sending
      /\ a \in Copy /\ reply \in Reply /\ reply # None /\ call.entry \in Entry
      /\ Carries(d, r, a) /\ Answers(r, reply) /\ call # None
      /\ Decided(d, r, reply) /\ (call.entry.intent # None => call.entry.intent <= r.edit)
  BY <1>1, <1>3, <1>4, <1>7
     DEF SaveReturns, SyncInv, SyncTypeOK, App, Sending, Entry, DeviceInv, CallInv,
         AloneInv, CallsInv
<1>9. j \in Copy /\ s \in Copy
  BY <1>2, <1>6, <1>8, SettledIs
<1>10. mem[d].queue # None /\ mem[d].queue.copy.owned => mem[d].queue.copy.rec # None
  BY <1>8 DEF DeviceInv, QueueInv, Leads, OwnRecording
<1>11. /\ after.journal = s /\ after.app \in App
       /\ after.app.queue = Requeued(mem[d].queue, j, a, s, reply)
       /\ after.app.shelf \in {mem[d].shelf, s.acked}
       /\ \A f \in {"open", "seekGen", "jGen", "ackGen", "sending", "listing", "replay",
                    "adopting"} : after.app[f] = mem[d][f]
  BY <1>5, <1>6, <1>8, <1>9, <1>10, ReconcileIs
<1>12. ~after.app.overruled /\ after.app.head = mem[d].head
  <2>1. ReplyWins(j, a) => reply.accepted
    BY <1>2, <1>8, <1>9, SyncAssumption, AloneAnswer DEF ReplyWins
  <2>2. ~mem[d].overruled
    BY DEF AloneInv, LineInv
  <2> QED BY <1>5, <1>8, <2>1, <2>2, ReconcileOverrules
<1>13. PICK over : over = (after.app.overruled \/ (/\ ReplyWins(j, a)
                                                   /\ Apart(a.pos, reply.row.pos)))
  OBVIOUS
<1>14. over = FALSE
  <2>1. ReplyWins(j, a) => a.pos = reply.row.pos /\ a.pos \in Int
    <3> SUFFICES ASSUME ReplyWins(j, a) PROVE a.pos = reply.row.pos /\ a.pos \in Int
      OBVIOUS
    <3>1. SameCopy(j, a)
      BY <1>9, SyncAssumption DEF ReplyWins
    <3>2. reply.row = row /\ row.pos = j.pos
      BY <1>2, <1>8, <3>1, AloneAnswer
    <3> QED BY <1>8, <3>1, <3>2 DEF SameCopy, Copy, Position
  <2>2. ReplyWins(j, a) => ~Apart(a.pos, reply.row.pos)
    BY <2>1, ClientAssumption DEF Apart
  <2> QED BY <1>12, <1>13, <2>2
<1>15. PICK gen \in Nat : /\ gen = Larger(after.app.ackGen, call.entry.gen)
                          /\ mem[d].ackGen <= gen /\ gen <= mem[d].seekGen
  <2>1. /\ after.app.ackGen = mem[d].ackGen /\ mem[d].ackGen \in Nat
        /\ mem[d].ackGen <= mem[d].seekGen /\ call.entry.gen <= mem[d].seekGen
        /\ call.entry.gen \in Nat
    BY <1>1, <1>8, <1>11 DEF App, Entry, DeviceInv, SeekInv
  <2> QED BY <2>1 DEF Larger
<1>16. PICK app : app = [after.app EXCEPT !.sending = None, !.ackPos = reply.row.pos,
                                          !.ackGen = gen, !.overruled = FALSE]
  OBVIOUS
<1>17. PICK intent : intent = Acknowledged(disk[d].intent, call.entry.intent)
  OBVIOUS
<1>18. /\ disk' = [disk EXCEPT ![d] = [journal |-> s, intent |-> intent]]
       /\ mem' = [mem EXCEPT ![d] = app]
       /\ row' = row /\ stored' = stored /\ requests' = requests
  <2>1. /\ disk' = [disk EXCEPT ![d] = [journal |-> after.journal, intent |-> intent]]
        /\ row' = row /\ stored' = stored /\ requests' = requests
    BY <1>1, <1>2, <1>3, <1>4, <1>5, <1>17 DEF SaveReturns, serverVars
  <2>2. mem' = [mem EXCEPT ![d] =
           [after.app EXCEPT !.sending = None, !.ackPos = reply.row.pos,
              !.ackGen = Larger(@, call.entry.gen),
              !.overruled = @ \/ (ReplyWins(j, a) /\ Apart(a.pos, reply.row.pos))]]
    BY <1>1, <1>2, <1>3, <1>4, <1>5 DEF SaveReturns
  <2>3. mem' = [mem EXCEPT ![d] =
           [after.app EXCEPT !.sending = None, !.ackPos = reply.row.pos,
              !.ackGen = gen, !.overruled = over]]
    BY <1>11, <1>13, <1>15, <2>2
  <2> QED BY <1>11, <1>14, <1>16, <2>1, <2>3
<1>19. /\ app \in App /\ app.ackGen = gen /\ app.sending = None /\ ~app.overruled
       /\ \A f \in {"open", "seekGen", "jGen", "queue", "shelf", "listing", "replay",
                    "adopting", "head"} : app[f] = after.app[f]
  <2>1. reply.row.pos \in Position
    BY <1>8 DEF Reply, Row
  <2> QED BY <1>11, <1>16, <2>1 DEF App
<1>20. TakesReply(d, app, j, s, a, reply)
  BY <1>11, <1>15, <1>19 DEF TakesReply
<1>21. disk'[d] = [journal |-> s, intent |-> intent] /\ mem'[d] = app
       /\ app.head = mem[d].head
  BY <1>8, <1>12, <1>18, <1>19 DEF SyncTypeOK
<1> QED BY <1>2, <1>6, <1>8, <1>17, <1>18, <1>19, <1>20, <1>21, AloneTakes

\* The reply to its replay is taken.
LEMMA AloneReplayed ==
  ASSUME SyncInv, NEW d \in Device, AloneInv(d), ReplayReturns(d)
  PROVE  AloneInv(d)'
<1>1. PICK call : call = mem[d].replay
  OBVIOUS
<1>2. PICK j : j = disk[d].journal
  OBVIOUS
<1>3. PICK a : a = call.attempted
  OBVIOUS
<1>4. PICK reply : reply = call.reply
  OBVIOUS
<1>5. PICK after : after = Reconcile(mem[d], j, a, reply)
  OBVIOUS
<1>6. PICK s : s = Settled(j, a, reply)
  OBVIOUS
<1>7. PICK r : r = call.request
  OBVIOUS
<1>8. /\ SyncTypeOK /\ DeviceInv(d) /\ mem[d] \in App /\ call \in Replay
      /\ a \in Copy /\ reply \in Reply /\ reply # None
      /\ Carries(d, r, a) /\ Answers(r, reply) /\ call # None
      /\ Decided(d, r, reply) /\ (call.intent # None => call.intent <= r.edit)
  BY <1>1, <1>3, <1>4, <1>7
     DEF ReplayReturns, SyncInv, SyncTypeOK, App, Replay, DeviceInv, CallInv,
         AloneInv, CallsInv
<1>9. j \in Copy /\ s \in Copy
  BY <1>2, <1>6, <1>8, SettledIs
<1>10. mem[d].queue # None /\ mem[d].queue.copy.owned => mem[d].queue.copy.rec # None
  BY <1>8 DEF DeviceInv, QueueInv, Leads, OwnRecording
<1>11. /\ after.journal = s /\ after.app \in App
       /\ after.app.queue = Requeued(mem[d].queue, j, a, s, reply)
       /\ after.app.shelf \in {mem[d].shelf, s.acked}
       /\ \A f \in {"open", "seekGen", "jGen", "ackGen", "sending", "listing", "replay",
                    "adopting"} : after.app[f] = mem[d][f]
  BY <1>5, <1>6, <1>8, <1>9, <1>10, ReconcileIs
<1>12. ~after.app.overruled /\ after.app.head = mem[d].head
  <2>1. ReplyWins(j, a) => reply.accepted
    BY <1>2, <1>8, <1>9, SyncAssumption, AloneAnswer DEF ReplyWins
  <2>2. ~mem[d].overruled
    BY DEF AloneInv, LineInv
  <2> QED BY <1>5, <1>8, <2>1, <2>2, ReconcileOverrules
<1>13. PICK app : app = [after.app EXCEPT !.replay = None]
  OBVIOUS
<1>14. PICK intent : intent = Acknowledged(disk[d].intent, call.intent)
  OBVIOUS
<1>15. /\ disk' = [disk EXCEPT ![d] = [journal |-> s, intent |-> intent]]
       /\ mem' = [mem EXCEPT ![d] = app]
       /\ row' = row /\ stored' = stored /\ requests' = requests
  BY <1>1, <1>2, <1>3, <1>4, <1>5, <1>11, <1>13, <1>14 DEF ReplayReturns, serverVars
<1>16. /\ app \in App /\ app.replay = None
       /\ \A f \in {"open", "seekGen", "jGen", "ackGen", "queue", "shelf", "listing",
                    "sending", "adopting", "head", "overruled"} : app[f] = after.app[f]
  BY <1>11, <1>13 DEF App
<1>17. TakesReply(d, app, j, s, a, reply)
  <2>1. mem[d].ackGen <= app.ackGen /\ app.ackGen <= app.seekGen
    BY <1>8, <1>11, <1>16 DEF App, DeviceInv, SeekInv
  <2> QED BY <1>11, <1>16, <2>1 DEF TakesReply
<1>18. disk'[d] = [journal |-> s, intent |-> intent] /\ mem'[d] = app
       /\ app.head = mem[d].head /\ ~app.overruled
  BY <1>8, <1>12, <1>15, <1>16 DEF SyncTypeOK
<1> QED BY <1>2, <1>6, <1>8, <1>14, <1>15, <1>16, <1>17, <1>18, AloneTakes

\* The server takes a later edit of its recording, unless it does not say how far back
\* it goes; so an edit that it leaves was overtaken, or is the row already.
LEMMA AloneRefused ==
  ASSUME SyncInv, NEW d \in Device, IsAlone(d), AloneInv(d),
         NEW r \in requests, NEW now \in Clock, HandleSave(r, now), row' = row
  PROVE  /\ r.edit <= stored[d]
         /\ r.edit = stored[d] => IsAccepted(row, row', r.cp)
<1>1. /\ r \in Sent(d) /\ r \in SaveRequest /\ row \in Row \cup {None} /\ now \in Nat
      /\ stored[d] \in Nat /\ r.edit \in Nat /\ r.cp \in Checkpoint
  BY AloneSends, ServerAssumption DEF SyncInv, SyncTypeOK, SaveRequest
<1>2. row # None
  BY SaveIs DEF StoresEdit
<1>3. PICK s \in Sent(d) : s.edit = stored[d] /\ s.cp.rec = row.rec /\ s.cp.pos = row.pos
  BY <1>2 DEF AloneInv, RowInv
<1>4. /\ InOrder(Mark(r), Mark(s)) /\ InOrder(Mark(s), Mark(r))
      /\ OwnRecording(d, Mark(r)) /\ OwnRecording(d, Mark(s)) /\ r.cp.base # None
  BY <1>1, <1>3 DEF SyncInv, DeviceInv, RequestInv
<1>5. /\ r.cp.rec # None /\ s.cp.rec # None /\ r.cp.rec \in Recording /\ s.cp.rec \in Recording
      /\ r.cp.rec.seq \in Nat /\ s.cp.rec.seq \in Nat
      /\ r.cp.pos \in Position /\ s.cp.pos \in Position
  BY <1>1, <1>3, <1>4
     DEF OwnRecording, Mark, SyncInv, SyncTypeOK, Sent, SaveRequest, Checkpoint, Recording,
         AloneInv, LineInv
<1>6. Clamped(r.cp.pos) = r.cp.pos
  BY <1>5, RulesAssumption DEF Clamped, Smaller, Position
<1>7. r.edit = stored[d] => IsAccepted(row, row', r.cp)
  BY <1>3, <1>4, <1>5, <1>6 DEF InOrder, Mark, IsAccepted
<1>8. ASSUME r.edit > stored[d]
      PROVE  FALSE
  <2>1. r.cp.rec.id = s.cp.rec.id
    <3>1. disk[d].journal # None
      BY <1>1, AloneSends
    <3> QED BY <1>1, <1>3, <3>1 DEF AloneInv, LineInv
  <2>2. ContinuesRecording(row, r.cp)
    BY <1>1, <1>2, <1>3, <1>4, <1>5, <1>8, <2>1
       DEF InOrder, Mark, ContinuesRecording, SameRecording
  <2>3. ~IsReplayOfRecording(row, r.cp) /\ ~HasReplacedBase(row, r.cp)
    BY <1>3, <1>5, <2>2
       DEF IsReplayOfRecording, HasReplacedBase, ContinuesRecording, SameRecording
  <2>4. CheckpointTime(row, r.cp, now) = None
    BY <2>2 DEF CheckpointTime
  <2>5. r.cp.pos < row.pos => IsFlagged(r.cp)
    BY <1>1, <1>3, <1>8 DEF AloneInv, FlagInv
  <2>6. ~PlaceIsGuarded(row, r.cp.pos, r.cp.seek, r.cp.regression)
    <3>1. /\ r.cp.pos \in Nat /\ row.pos \in Nat /\ RegressionSlack \in Nat /\ BackupDrop \in Nat
          /\ NearZero \in Nat
      BY <1>3, <1>5, RulesAssumption DEF Position
    <3>2. ~IsUnintentionalRegression(row.pos, r.cp.pos, r.cp.seek \/ r.cp.regression)
      BY <2>5, <3>1 DEF IsUnintentionalRegression, IsFlagged
    <3>3. ~IsSuspectReset(row.pos, r.cp.pos, r.cp.regression)
      BY <2>5, <3>1 DEF IsSuspectReset, IsFlagged
    <3> QED BY <1>6, <3>2, <3>3 DEF PlaceIsGuarded
  <2>7. StoresCheckpoint(row, r.cp, now)
    <3>1. ~IsStale(row, None, now)
      BY DEF IsStale
    <3> QED BY <2>3, <2>4, <2>6, <3>1 DEF StoresCheckpoint, StoresWrite
  <2>8. row' = SavedCheckpoint(row, r.cp, now)
    BY <2>7 DEF HandleSave, ApplyCheckpoint, Store
  <2>9. row'.rev = NextRevision(row, now)
    BY <2>8 DEF SavedCheckpoint, SavedRow
  <2>10. row.rev \in Nat /\ NextRevision(row, now) > row.rev
    BY <1>1, <1>2 DEF NextRevision, Larger, Row
  <2> QED BY <2>9, <2>10
<1> QED BY <1>1, <1>7, <1>8

\* The server handles one of its saves.
LEMMA AloneHandled ==
  ASSUME SyncInv, NEW d \in Device, IsAlone(d), AloneInv(d),
         NEW r \in requests, NEW now \in Clock, HandleSave(r, now)
  PROVE  AloneInv(d)'
<1>1. /\ SyncTypeOK /\ r.dev = d /\ r \in Sent(d) /\ r.edit \in Nat /\ stored[d] \in Nat
      /\ row \in Row \cup {None} /\ mem[d] \in App /\ r.cp \in Checkpoint
  BY AloneSends DEF SyncInv, SyncTypeOK, SaveRequest
<1>2. \/ StoresEdit(r)
      \/ row # None /\ row' = row /\ stored' = stored
  BY SaveIs
<1>3. PICK accepted \in BOOLEAN : accepted <=> IsAccepted(row, row', r.cp)
  OBVIOUS
<1>4. PICK reply : reply = [row |-> row', accepted |-> accepted]
  OBVIOUS
<1>5. PICK sending : sending = Deliver(mem[d].sending, r, reply)
  OBVIOUS
<1>6. PICK replay : replay = Deliver(mem[d].replay, r, reply)
  OBVIOUS
<1>7. PICK app : app = [mem[d] EXCEPT !.sending = sending, !.replay = replay]
  OBVIOUS
<1>8. mem' = [mem EXCEPT ![d] = app] /\ requests' = requests /\ disk' = disk
  <2>1. reply = [row |-> row', accepted |-> IsAccepted(row, row', r.cp)]
    BY <1>3, <1>4 DEF IsAccepted
  <2> QED BY <1>1, <1>5, <1>6, <1>7, <2>1 DEF HandleSave
<1>9. /\ mem'[d].sending = sending /\ mem'[d].replay = replay
      /\ \A f \in {"open", "head", "overruled", "queue", "seekGen", "jGen", "ackGen"} :
            mem'[d][f] = mem[d][f]
  <2>1. app.sending = sending /\ app.replay = replay
        /\ \A f \in {"open", "head", "overruled", "queue", "seekGen", "jGen", "ackGen"} :
            app[f] = mem[d][f]
    BY <1>1, <1>7 DEF App
  <2> QED BY <1>1, <1>8, <2>1 DEF SyncTypeOK
<1>10. Sent(d)' = Sent(d)
  BY <1>8 DEF Sent
<1>11. \A s \in Sent(d) : s.edit \in Nat
  BY <1>1 DEF SyncTypeOK, Sent, SaveRequest
<1>12. StoresEdit(r) => stored'[d] = r.edit /\ stored[d] < r.edit
  <2> SUFFICES ASSUME StoresEdit(r) PROVE stored'[d] = r.edit /\ stored[d] < r.edit
    OBVIOUS
  <2>1. stored' = [stored EXCEPT ![d] = Larger(stored[d], r.edit)] /\ stored[d] < r.edit
    BY <1>1 DEF StoresEdit, Raise
  <2> QED BY <1>1, <2>1 DEF Larger, SyncTypeOK
<1>13. stored[d] <= stored'[d] /\ stored'[d] \in Nat
  BY <1>1, <1>2, <1>12
<1>14. Decided(d, r, reply)'
  <2>1. reply.row = row' /\ (reply.accepted <=> accepted)
    BY <1>4
  <2>2. CASE StoresEdit(r)
    <3>1. IsAccepted(row, row', r.cp)
      BY <1>1, <2>2 DEF StoresEdit, IsAccepted, Stand, Row
    <3> QED BY <1>1, <1>3, <1>12, <2>1, <2>2, <3>1 DEF Decided
  <2>3. CASE row' = row /\ stored' = stored
    <3>1. r.edit <= stored[d] /\ (r.edit = stored[d] => IsAccepted(row, row', r.cp))
      BY <2>3, AloneRefused
    <3> QED BY <1>1, <1>3, <2>1, <2>3, <3>1 DEF Decided
  <2> QED BY <1>2, <2>2, <2>3
<1>15. ASSUME NEW q \in SaveRequest, NEW old, Decided(d, q, old)
       PROVE  Decided(d, q, old)'
  <2>1. q.edit \in Nat
    BY DEF SaveRequest
  <2> QED BY <1>1, <1>2, <1>12, <1>13, <1>15, <2>1 DEF Decided
<1>16. LineInv(d)'
  <2>1. HasNewSeek(mem'[d]) <=> HasNewSeek(mem[d])
    BY <1>9 DEF HasNewSeek
  <2> QED BY <1>8, <1>9, <1>10, <2>1 DEF AloneInv, LineInv
<1>17. RowInv(d)'
  <2>1. CASE StoresEdit(r)
    <3>1. r.cp.pos \in Position
      BY <1>1 DEF AloneInv, LineInv
    <3>2. row'.rec = r.cp.rec /\ row'.pos = r.cp.pos
      BY <2>1, <3>1, RulesAssumption DEF StoresEdit, Clamped, Smaller, Position
    <3>3. PICK j : j = disk[d].journal
      OBVIOUS
    <3>4. j # None /\ j.status = "synced" => stored[d] = j.edit /\ r.edit <= j.edit
      BY <1>1, <3>3, AloneLeads DEF AloneInv, RowInv
    <3>5. ~(j # None /\ j.status = "synced")
      BY <1>1, <1>12, <2>1, <3>4
    <3> QED BY <1>1, <1>8, <1>10, <1>12, <2>1, <3>2, <3>3, <3>5 DEF RowInv
  <2>2. CASE row' = row /\ stored' = stored
    BY <1>8, <1>10, <2>2 DEF AloneInv, RowInv
  <2> QED BY <1>2, <2>1, <2>2
<1>18. CallsInv(d)'
  <2>1. ASSUME sending # None
        PROVE  /\ Decided(d, sending.request, sending.reply)'
               /\ sending.entry.intent # None => sending.entry.intent <= sending.request.edit
    <3>1. PICK call : call = mem[d].sending
      OBVIOUS
    <3>2. call # None /\ call \in Sending
      BY <1>1, <1>5, <2>1, <3>1 DEF Deliver, App
    <3>3. /\ Decided(d, call.request, call.reply)
          /\ call.entry.intent # None => call.entry.intent <= call.request.edit
      BY <3>1, <3>2 DEF AloneInv, CallsInv
    <3>4. CASE sending = call
      BY <1>15, <3>2, <3>3, <3>4 DEF Sending
    <3>5. CASE sending # call
      <4>1. call.request = r /\ sending = [call EXCEPT !.reply = reply]
        BY <1>5, <3>1, <3>5 DEF Deliver
      <4>2. sending.request = r /\ sending.reply = reply /\ sending.entry = call.entry
        BY <3>2, <4>1 DEF Sending
      <4> QED BY <1>14, <3>3, <4>1, <4>2
    <3> QED BY <3>4, <3>5
  <2>2. ASSUME replay # None
        PROVE  /\ Decided(d, replay.request, replay.reply)'
               /\ replay.intent # None => replay.intent <= replay.request.edit
    <3>1. PICK call : call = mem[d].replay
      OBVIOUS
    <3>2. call # None /\ call \in Replay
      BY <1>1, <1>6, <2>2, <3>1 DEF Deliver, App
    <3>3. /\ Decided(d, call.request, call.reply)
          /\ call.intent # None => call.intent <= call.request.edit
      BY <3>1, <3>2 DEF AloneInv, CallsInv
    <3>4. CASE replay = call
      BY <1>15, <3>2, <3>3, <3>4 DEF Replay
    <3>5. CASE replay # call
      <4>1. call.request = r /\ replay = [call EXCEPT !.reply = reply]
        BY <1>6, <3>1, <3>5 DEF Deliver
      <4>2. replay.request = r /\ replay.reply = reply /\ replay.intent = call.intent
        BY <3>2, <4>1 DEF Replay
      <4> QED BY <1>14, <3>3, <4>1, <4>2
    <3> QED BY <3>4, <3>5
  <2> QED BY <1>9, <2>1, <2>2 DEF CallsInv
<1>19. BehindInv(d)'
  BY <1>1, <1>8, <1>10, <1>11, <1>13 DEF AloneInv, BehindInv, SoughtBack
<1>20. FlagInv(d)'
  BY <1>1, <1>10, <1>11, <1>13 DEF AloneInv, FlagInv
<1>21. EntryInv(d)'
  BY <1>8, <1>9 DEF AloneInv, EntryInv
<1> QED BY <1>16, <1>17, <1>18, <1>19, <1>20, <1>21 DEF AloneInv

\* Nothing it can fetch is newer than its own synced journal, so nothing is adopted.
LEMMA AloneAdopts ==
  ASSUME SyncInv, NEW d \in Device, IsAlone(d), AloneInv(d), FinishAdoption(d)
  PROVE  AloneInv(d)'
<1>1. PICK app : app = [mem[d] EXCEPT !.adopting = None]
  OBVIOUS
<1>2. /\ SyncTypeOK /\ mem[d] \in App /\ mem[d].adopting # None
      /\ disk[d].journal \in Copy \cup {None}
  BY DEF FinishAdoption, SyncInv, SyncTypeOK
<1>3. ~Adopts(d)
  <2>1. PICK fetched : fetched = mem[d].adopting.row
    OBVIOUS
  <2>2. PICK j : j = disk[d].journal
    OBVIOUS
  <2>3. /\ fetched \in Row /\ fetched.rev \in Nat /\ 0 < fetched.rev /\ fetched.rev <= Stand
    BY <1>2, <2>1 DEF App, Row, SyncInv, DeviceInv, KnownInv
  <2>4. row # None /\ Stand = row.rev /\ row.rev \in Nat
    BY <1>2, <2>3 DEF Stand, SyncTypeOK, Row
  <2>5. j # None /\ j \in Copy
    BY <1>2, <2>2, <2>4, AloneSends
  <2>6. j.status # "pending" => j.rev = row.rev
    BY <2>2, <2>5 DEF Copy, AloneInv, RowInv
  <2>7. ~IsAdoptable(j, fetched)
    BY <2>3, <2>4, <2>5, <2>6 DEF IsAdoptable
  <2> QED BY <2>1, <2>2, <2>7 DEF Adopts, AloneInv, LineInv
<1>4. /\ mem'[d] = app /\ disk' = disk
      /\ row' = row /\ stored' = stored /\ requests' = requests
  BY <1>1, <1>2, <1>3 DEF FinishAdoption, SyncTypeOK, serverVars
<1>5. \A f \in {"open", "head", "overruled", "queue", "seekGen", "ackGen", "jGen", "sending",
                "replay"} : app[f] = mem[d][f]
  BY <1>1, <1>2 DEF App
<1>6. StaysThere(d, app) /\ Sent(d)' = Sent(d)
  BY <1>4, <1>5 DEF StaysThere, HasNewSeek, Sent
<1> QED BY <1>4, <1>5, <1>6, AloneStays

\* A call fails, or a listing or a place is asked for.
LEMMA AloneWaits ==
  ASSUME SyncInv, NEW d \in Device, AloneInv(d),
         SaveFails(d) \/ ReplayFails(d) \/ RequestListing(d) \/ FetchForAdoption(d)
  PROVE  AloneInv(d)'
<1>1. mem \in [Device -> App] /\ mem[d] \in App
  BY DEF SyncInv, SyncTypeOK
<1>2. disk' = disk /\ row' = row /\ stored' = stored /\ requests' = requests
  BY DEF SaveFails, ReplayFails, RequestListing, FetchForAdoption, serverVars, historyVars
<1>3. PICK app :
        /\ mem'[d] = app
        /\ \A f \in {"open", "head", "overruled", "queue", "seekGen", "ackGen", "jGen"} :
             app[f] = mem[d][f]
        /\ app.sending \in {None, mem[d].sending} /\ app.replay \in {None, mem[d].replay}
  <2>1. CASE SaveFails(d)
    <3>1. PICK app : app = [mem[d] EXCEPT !.sending = None]
      OBVIOUS
    <3>2. mem'[d] = app
      BY <1>1, <2>1, <3>1 DEF SaveFails
    <3> QED BY <1>1, <3>1, <3>2 DEF App
  <2>2. CASE ReplayFails(d)
    <3>1. PICK app : app = [mem[d] EXCEPT !.replay = None]
      OBVIOUS
    <3>2. mem'[d] = app
      BY <1>1, <2>2, <3>1 DEF ReplayFails
    <3> QED BY <1>1, <3>1, <3>2 DEF App
  <2>3. CASE RequestListing(d)
    <3>1. PICK app : app = [mem[d] EXCEPT !.listing = [row |-> row]]
      OBVIOUS
    <3>2. mem'[d] = app
      BY <1>1, <2>3, <3>1 DEF RequestListing
    <3> QED BY <1>1, <3>1, <3>2 DEF App
  <2>4. CASE FetchForAdoption(d)
    <3>1. PICK app : app = [mem[d] EXCEPT !.adopting = [row |-> row, since |-> Version(d)]]
      OBVIOUS
    <3>2. mem'[d] = app
      BY <1>1, <2>4, <3>1 DEF FetchForAdoption
    <3> QED BY <1>1, <3>1, <3>2 DEF App
  <2> QED BY <2>1, <2>2, <2>3, <2>4
<1>4. StaysThere(d, app) /\ Sent(d)' = Sent(d)
  BY <1>2, <1>3 DEF StaysThere, HasNewSeek, Sent
<1> QED BY <1>2, <1>3, <1>4, AloneStays

\* No clock goes back and no kill is taken back: who is alone was so before.
LEMMA AloneBefore ==
  ASSUME SyncInv, restarts \in Nat, [SyncNext]_syncVars
  PROVE  /\ restarts' \in Nat
         /\ \A d \in Device : IsAlone(d)' => IsAlone(d)
         /\ \A d, e \in Device : IsAlone(d)' => ~Kill(e)
<1>1. clock \in [Device -> Nat]
  BY DEF SyncInv, SyncTypeOK
<1>2. ASSUME NEW d \in Device, NEW place, Listen(d, place) \/ Seek(d, place)
      PROVE  /\ restarts' = restarts
             /\ \A e \in Device : clock[e] <= clock'[e]
  <2>1. restarts' = restarts
    BY <1>2 DEF Listen, Seek
  <2>2. \E at \in {clock[d], clock[d] + 1} : clock' = [clock EXCEPT ![d] = at]
    BY <1>2 DEF Listen, Seek
  <2> QED BY <1>1, <2>1, <2>2
<1>3. ASSUME NEW d \in Device,
             \/ StartSave(d) \/ SaveReturns(d) \/ SaveFails(d) \/ RequestListing(d)
             \/ ListingArrives(d) \/ ReplayReturns(d) \/ ReplayFails(d)
             \/ FetchForAdoption(d) \/ FinishAdoption(d)
      PROVE  restarts' = restarts /\ clock' = clock
  BY <1>3 DEF StartSave, SaveReturns, SaveFails, RequestListing, ListingArrives, ReplayReturns,
              ReplayFails, FetchForAdoption, FinishAdoption
<1>4. ASSUME NEW d \in Device, Kill(d)
      PROVE  restarts' = restarts + 1 /\ clock' = clock
  BY <1>4 DEF Kill
<1>5. ASSUME NEW r, NEW now, HandleSave(r, now)
      PROVE  restarts' = restarts /\ clock' = clock
  BY <1>5 DEF HandleSave
<1>6. UNCHANGED syncVars => restarts' = restarts /\ clock' = clock
  BY DEF syncVars, deviceVars
<1>7. /\ restarts' \in {restarts, restarts + 1}
      /\ \A e \in Device : clock[e] <= clock'[e]
  BY <1>1, <1>2, <1>3, <1>4, <1>5, <1>6 DEF SyncNext
<1>8. ASSUME NEW d \in Device, IsAlone(d)'
      PROVE  IsAlone(d) /\ \A e \in Device : ~Kill(e)
  <2>1. restarts' = 0 /\ \A e \in Device \ {d} : clock'[e] = 0
    BY <1>8 DEF IsAlone
  <2>2. restarts = 0 /\ restarts' # restarts + 1
    BY <1>7, <2>1
  <2>3. \A e \in Device \ {d} : clock[e] = 0
    BY <1>1, <1>7, <2>1
  <2> QED BY <1>4, <2>2, <2>3 DEF IsAlone
<1> QED BY <1>7, <1>8

\* Whoever is alone has one line of edits.
AllAlone == restarts \in Nat /\ \A d \in Device : IsAlone(d) => AloneInv(d)

\* Nobody has recorded anything yet.
LEMMA AloneBegins == SyncInit => AllAlone
<1>0. SyncInit => restarts \in Nat
  BY DEF SyncInit
<1> SUFFICES ASSUME SyncInit, NEW d \in Device PROVE AloneInv(d)
  BY <1>0 DEF AllAlone
<1>1. /\ mem[d] = StartedApp /\ disk[d].journal = None /\ Sent(d) = {} /\ row = None
      /\ restarts = 0
  BY DEF SyncInit, Init, Sent
<1>2. /\ ~mem[d].overruled /\ mem[d].queue = None /\ mem[d].sending = None
      /\ mem[d].replay = None
  BY <1>1 DEF StartedApp
<1>3. LineInv(d) /\ RowInv(d) /\ CallsInv(d)
  BY <1>1, <1>2 DEF LineInv, RowInv, CallsInv
<1>4. BehindInv(d) /\ FlagInv(d) /\ EntryInv(d)
  BY <1>1, <1>2 DEF BehindInv, FlagInv, EntryInv
<1> QED BY <1>1, <1>3, <1>4 DEF AloneInv

\* And keeps it, whatever step is taken.
LEMMA AloneKeeps == SyncInv /\ AllAlone /\ [SyncNext]_syncVars => AllAlone'
<1> SUFFICES ASSUME SyncInv, AllAlone, [SyncNext]_syncVars, NEW d \in Device, IsAlone(d)'
             PROVE  AloneInv(d)'
  BY AloneBefore DEF AllAlone
<1>1. IsAlone(d) /\ AloneInv(d) /\ \A e \in Device : ~Kill(e)
  BY AloneBefore DEF AllAlone
<1>2. ASSUME NEW place \in Position, Listen(d, place)
      PROVE  AloneInv(d)'
  BY <1>1, <1>2, AloneListens
<1>3. ASSUME NEW place \in SeekTargets, Seek(d, place)
      PROVE  AloneInv(d)'
  BY <1>1, <1>3, AloneSeeks
<1>4. ASSUME \/ StartSave(d) \/ SaveReturns(d) \/ SaveFails(d) \/ RequestListing(d)
             \/ ListingArrives(d) \/ ReplayReturns(d) \/ ReplayFails(d)
             \/ FetchForAdoption(d) \/ FinishAdoption(d)
      PROVE  AloneInv(d)'
  BY <1>1, <1>4, AloneStartsSave, AloneSaved, AloneListing, AloneReplayed, AloneWaits, AloneAdopts
<1>5. ASSUME NEW e \in Device \ {d},
             \/ \E place \in Position : Listen(e, place)
             \/ \E place \in SeekTargets : Seek(e, place)
             \/ StartSave(e) \/ SaveReturns(e) \/ SaveFails(e)
             \/ RequestListing(e) \/ ListingArrives(e)
             \/ ReplayReturns(e) \/ ReplayFails(e)
             \/ FetchForAdoption(e) \/ FinishAdoption(e)
      PROVE  AloneInv(d)'
  BY <1>1, <1>5, AnotherStep
<1>6. ASSUME NEW r \in requests, NEW now \in Clock, HandleSave(r, now)
      PROVE  AloneInv(d)'
  BY <1>1, <1>6, AloneHandled
<1>7. CASE UNCHANGED syncVars
  <2>1. disk' = disk /\ mem' = mem /\ row' = row /\ stored' = stored /\ requests' = requests
    BY <1>7 DEF syncVars, serverVars, deviceVars, historyVars
  <2>2. StaysThere(d, mem[d]) /\ Sent(d)' = Sent(d)
    BY <2>1 DEF StaysThere, Sent
  <2> QED BY <1>1, <2>1, <2>2, AloneStays
<1>8. CASE SyncNext
  <2>1. ASSUME NEW e \in Device,
               \/ \E place \in Position : Listen(e, place)
               \/ \E place \in SeekTargets : Seek(e, place)
               \/ StartSave(e) \/ SaveReturns(e) \/ SaveFails(e)
               \/ RequestListing(e) \/ ListingArrives(e)
               \/ ReplayReturns(e) \/ ReplayFails(e)
               \/ FetchForAdoption(e) \/ FinishAdoption(e)
               \/ Kill(e)
        PROVE  AloneInv(d)'
    <3>1. CASE e = d
      BY <1>1, <1>2, <1>3, <1>4, <2>1, <3>1
    <3>2. CASE e # d
      BY <1>1, <1>5, <2>1, <3>2
    <3> QED BY <3>1, <3>2
  <2> QED BY <1>6, <1>8, <2>1 DEF SyncNext
<1> QED BY <1>7, <1>8

\* A device nobody competes with is not overruled by its own requests: until an app
\* has been restarted no retry, late arrival or lost reply makes the server keep
\* another place than the one the player is at.
THEOREM AloneStaysUnoverruled == SyncSpec => []AloneNeverOverruled
<1>1. AllAlone => AloneNeverOverruled
  BY DEF AllAlone, AloneNeverOverruled, IsAlone, AloneInv, LineInv
<1> QED BY <1>1, AloneBegins, AloneKeeps, SyncIsSound, PTL DEF SyncSpec
=============================================================================
