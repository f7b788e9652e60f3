------------------------ MODULE SyncScheduleProofs ------------------------
(***************************************************************************)
(* What the schedules keep true for any books, jobs, calendar and bounds:  *)
(* a schedule starts its book once and a night is swept once (AtMostOnce), *)
(* what a schedule and the rule show is true (ResultsAreTrue), and the     *)
(* queue they assume is one that SyncLedger allows.                        *)
(***************************************************************************)
EXTENDS SyncSchedule, FiniteSetTheorems, NaturalsInduction, WellFoundedInduction, TLAPS

Rule ==
  [on : BOOLEAN, at : LocalTime \cup {None}, next : Nat, ran : Time \cup {None},
   queued : Nat \cup {None}]

QueueTyped ==
  /\ ledger \in [Id -> Entry \cup {None}]
  /\ closed \subseteq Id
  /\ started \in [Id -> Time]
  /\ begun \in [Book -> SUBSET Id]

FilesTyped ==
  /\ now \in Time
  /\ entries \in [Book -> Schedule]
  /\ rule \in Rule /\ (rule.on => rule.at # None)
  /\ swept \in [Time -> Nat]

LockTyped ==
  /\ ready \in BOOLEAN /\ enabled \in BOOLEAN
  /\ tick \in TickState \cup {None}
  /\ sweep \in SweepState \cup {None}

\* The lock is held by whoever the tick and the sweep say, and a sweep of the
\* tick's comes after its entries.
LockInv ==
  /\ holder \in {"nobody", "tick", "manual"}
  /\ tick # None <=> holder = "tick"
  /\ tick # None => tick.now <= now
  /\ sweep # None /\ tick # None => tick.at = "sweep"
  /\ sweep # None => holder # "nobody"
  /\ holder = "manual" => sweep # None
  /\ tick # None /\ tick.at = "sweep" => sweep # None

Exists(j) == IsUnderway(ledger[j]) \/ IsEnded(ledger[j])

\* The jobs a schedule began are its book's, none is older than the start it
\* waits for, and all but one are gone.
BegunInv ==
  \A b \in Book :
    /\ entries[b].status \in {"none", "scheduled"} => begun[b] = {}
    /\ entries[b].status = "dispatching" => entries[b].runAt <= now
    /\ \A j \in begun[b] :
         \/ ledger[j] = Gone
         \/ Exists(j) /\ ledger[j].book = b /\ started[j] >= entries[b].runAt
    /\ \A i, j \in begun[b] : ledger[i] # Gone /\ ledger[j] # Gone => i = j

\* The entry the tick hands off is marked so until the result was saved, and
\* none of its jobs is left before a job is asked for.
HandInv ==
  tick # None /\ tick.at \in {"handoff", "record"} =>
    /\ tick.book \in Book
    /\ entries[tick.book].status = "dispatching"
    /\ tick.at = "handoff" => \A j \in begun[tick.book] : ledger[j] = Gone
    /\ tick.at = "record" => /\ tick.result.status \in {"submitted", "refused"}
                             /\ tick.result.runAt = entries[tick.book].runAt

\* Only what ended is closed.
ClosedInv == \A j \in closed : ledger[j] # None /\ ~IsUnderway(ledger[j])

\* A submitted schedule's job exists, and its outcome was recorded by nobody,
\* or the schedule came too late for it.
Linked(entry) ==
  entry.status = "submitted" =>
    /\ entry.job \in Id
    /\ ledger[entry.job] # None
    /\ ledger[entry.job] = Gone \/ entry.job \in closed => entry.job \in excused

LinkInv ==
  /\ \A b \in Book : Linked(entries[b])
  /\ tick # None /\ tick.at = "record" => Linked(tick.result)

NightInv ==
  \A slot \in Time :
    /\ swept[slot] <= 1
    /\ swept[slot] > 0 => slot <= now /\ slot < rule.next

ReportInv ==
  sweep # None /\ sweep.at = "report" /\ holder = "tick" =>
    <<rule.ran, sweep.queued>> \in counts

\* A book has one job under way.
OneInv ==
  \A i, j \in Id : IsUnderway(ledger[i]) /\ IsUnderway(ledger[j])
                     /\ ledger[i].book = ledger[j].book => i = j

ScheduleInv ==
  /\ QueueTyped /\ FilesTyped /\ LockTyped /\ LockInv
  /\ BegunInv /\ HandInv
  /\ ClosedInv /\ LinkInv /\ OutcomesAreKept
  /\ NightInv /\ ReportInv /\ ReportsAreOwn
  /\ OneInv

-----------------------------------------------------------------------------
(* What the operators of SyncSchedule return.                              *)

(* Entries and states of the lock holder are told apart from None.         *)
LEMMA StatesAreNotNone ==
  /\ \A t \in TickState : t # None
  /\ \A s \in SweepState : s # None
  /\ \A e \in Entry : e # None
  /\ Gone # None /\ Gone \in Entry /\ ~IsUnderway(Gone) /\ ~IsEnded(Gone)
  /\ \A n \in Nat : n # None
BY NoneAssumption DEF Entry, Gone, IsUnderway, IsEnded, Outcome

(* A finite set of integers has a greatest element, and Max is it.         *)
LEMMA MaxIsGreatest ==
  ASSUME NEW S \in SUBSET Int, IsFiniteSet(S), S # {}
  PROVE  Max(S) \in S /\ \A x \in S : x <= Max(S)
<1> DEFINE HasMax(T) == \E m \in T : \A x \in T : x <= m
<1> DEFINE Bad == {T \in SUBSET S : T # {} /\ ~HasMax(T)}
<1>1. HasMax(S)
  <2> SUFFICES ASSUME ~HasMax(S) PROVE FALSE
    OBVIOUS
  <2>1. S \in Bad
    OBVIOUS
  <2>2. Bad \subseteq FiniteSubsetsOf(S)
    BY FS_Subset DEF FiniteSubsetsOf
  <2>3. PICK T \in Bad : \A U \in Bad : <<U, T>> \notin StrictSubsetOrdering(S)
    BY <2>1, <2>2, FS_StrictSubsetOrderingWellFounded, WFMin
  <2>4. PICK t \in T : TRUE
    OBVIOUS
  <2>5. CASE T = {t}
    BY <2>3, <2>5
  <2>6. CASE T # {t}
    <3>1. (T \ {t}) # {} /\ <<T \ {t}, T>> \in StrictSubsetOrdering(S)
      BY <2>3, <2>4, <2>6 DEF StrictSubsetOrdering
    <3>2. PICK m \in T \ {t} : \A x \in T \ {t} : x <= m
      BY <2>3, <3>1
    <3>3. HasMax(T)
      BY <2>3, <2>4, <3>2
    <3> QED BY <2>3, <3>3
  <2> QED BY <2>5, <2>6
<1>2. \E m \in S : \A x \in S : m >= x
  BY <1>1
<1> QED BY <1>2 DEF Max

(* A nonempty set of numbers has a least one, and Min is it.               *)
LEMMA MinIsLeast ==
  ASSUME NEW S \in SUBSET Nat, S # {}
  PROVE  Min(S) \in S /\ \A x \in S : Min(S) <= x
<1> DEFINE Less == OpToRel(<, Nat)
<1>1. \A x, y \in Nat : x < y => <<x, y>> \in Less
  BY DEF OpToRel
<1>2. IsWellFoundedOn(Less, Nat)
  BY NatLessThanWellFounded
<1> HIDE DEF Less
<1>3. PICK n \in S : \A x \in S : <<x, n>> \notin Less
  BY <1>2, WFMin
<1>4. n \in Nat /\ \A x \in S : x \in Nat /\ ~(x < n)
  BY <1>1, <1>3
<1>5. \A x \in S : n <= x
  BY <1>4
<1> QED BY <1>5 DEF Min

(* Of the jobs an interrupted handoff may have queued one is the last.     *)
LEMMA ExistingHasLast ==
  ASSUME NEW b \in Book, Existing(b) # {}
  PROVE  Max(Existing(b)) \in Existing(b)
<1>1. Existing(b) \subseteq Id
  BY DEF Existing, JobsOf, Underway, Ended
<1>2. IsFiniteSet(Existing(b))
  BY <1>1, ScheduleAssumption, FS_Subset
<1>3. \A x \in Id : x \in Int
  BY ScheduleAssumption
<1>4. \A x \in Existing(b) : x \in Int
  BY <1>1, <1>3
<1>5. Existing(b) \in SUBSET Int
  BY <1>4
<1> QED BY <1>2, <1>5, MaxIsGreatest

(* The dates the calendar looks at reach beyond the present, so what it    *)
(* finds is in the future.                                                 *)
LEMMA FirstAfterIsLater ==
  ASSUME NEW at \in LocalTime, NEW t \in Nat, NEW dates \in SUBSET Nat,
         NEW date \in dates, date > DateOf(t)
  PROVE  FirstAfter(at, dates, t) \in Nat /\ FirstAfter(at, dates, t) > t
<1> DEFINE S == {Occurrence(at, d) : d \in dates} \ (0 .. t)
<1>1. Day \in Nat /\ Day > 0 /\ at \in Nat
  BY ScheduleAssumption
<1>2. \A d \in dates : Occurrence(at, d) \in Nat
  BY <1>1 DEF Occurrence
<1>3. S \in SUBSET Nat /\ \A x \in S : x > t
  BY <1>2
<1>4. DateOf(t) \in Nat /\ t < (DateOf(t) + 1) * Day
  BY <1>1 DEF DateOf
<1>5. (DateOf(t) + 1) * Day <= date * Day
  BY <1>1, <1>4
<1>6. Occurrence(at, date) > t
  BY <1>1, <1>4, <1>5 DEF Occurrence
<1>7. Occurrence(at, date) \in S
  BY <1>2, <1>6
<1>8. Min(S) \in S
  BY <1>3, <1>7, MinIsLeast
<1> QED BY <1>3, <1>8 DEF FirstAfter

(* The nightly rule's next slot is never one that has come.                *)
LEMMA OccurrencesAreLater ==
  ASSUME NEW at \in LocalTime, NEW t \in Nat, NEW due \in Nat
  PROVE  /\ NextOccurrence(at, t) \in Nat /\ NextOccurrence(at, t) > t
         /\ AdvancedOccurrence(at, due, t) \in Nat /\ AdvancedOccurrence(at, due, t) > t
<1>1. Day \in Nat /\ Day > 0
  BY ScheduleAssumption
<1>2. DateOf(t) \in Nat /\ DateOf(due) \in Nat
  BY <1>1 DEF DateOf
<1>3. DateOf(t) + 1 \in DateOf(t) .. DateOf(t) + 2 /\ DateOf(t) .. DateOf(t) + 2 \subseteq Nat
  BY <1>2
<1>4. NextOccurrence(at, t) \in Nat /\ NextOccurrence(at, t) > t
  BY <1>2, <1>3, FirstAfterIsLater DEF NextOccurrence
<1> DEFINE first == Max({DateOf(due) + 1, DateOf(t)})
<1>5. first \in Nat /\ first >= DateOf(t)
  BY <1>2 DEF Max
<1>6. first + 1 \in {first, first + 1} /\ {first, first + 1} \subseteq Nat /\ first + 1 > DateOf(t)
  BY <1>2, <1>5
<1>7. FirstAfter(at, {first, first + 1}, t) \in Nat /\ FirstAfter(at, {first, first + 1}, t) > t
  BY <1>6, FirstAfterIsLater
<1> QED BY <1>4, <1>7 DEF AdvancedOccurrence

(* Recording outcomes settles submitted entries and touches nothing else;  *)
(* no submitted entry is left of a job that ended.                         *)
LEMMA RecordedSettles ==
  ASSUME QueueTyped, NEW file \in [Book -> Schedule], NEW ends \in SUBSET Id, NEW outcome,
         ends = {} \/ outcome \in Outcome
  PROVE  /\ Recorded(file, ends, outcome) \in [Book -> Schedule]
         /\ \A b \in Book :
              \/ /\ Recorded(file, ends, outcome)[b] = file[b]
                 /\ file[b].status = "submitted" => file[b].job \notin Ended \cup ends
              \/ /\ file[b].status = "submitted"
                 /\ Recorded(file, ends, outcome)[b].status \in Outcome
                 /\ Recorded(file, ends, outcome)[b].runAt = file[b].runAt
<1> SUFFICES ASSUME NEW b \in Book
             PROVE  LET new == Recorded(file, ends, outcome)[b] IN
                    /\ new \in Schedule
                    /\ \/ new = file[b] /\ (file[b].status = "submitted" => file[b].job \notin Ended \cup ends)
                       \/ /\ file[b].status = "submitted" /\ new.status \in Outcome
                          /\ new.runAt = file[b].runAt
  BY DEF Recorded
<1> DEFINE status == IF file[b].job \in ends THEN outcome ELSE ledger[file[b].job].status
<1>1. CASE file[b].status = "submitted" /\ file[b].job \in Ended \cup ends
  <2>1. status \in Outcome
    BY <1>1 DEF Ended, IsEnded
  <2>2. file[b] \in [status : Waiting \cup Settled, runAt : Time, job : Id \cup {None}]
    BY <1>1 DEF Schedule, NoEntry
  <2>3. status \in Waiting \cup Settled
    BY <2>1 DEF Settled
  <2> HIDE DEF status
  <2>4. /\ [file[b] EXCEPT !.status = status] \in Schedule
        /\ [file[b] EXCEPT !.status = status].status = status
        /\ [file[b] EXCEPT !.status = status].runAt = file[b].runAt
    BY <2>2, <2>3 DEF Schedule
  <2>5. Recorded(file, ends, outcome)[b] = [file[b] EXCEPT !.status = status]
    BY <1>1 DEF Recorded, status
  <2> QED BY <1>1, <2>1, <2>4, <2>5
<1>2. CASE ~(file[b].status = "submitted" /\ file[b].job \in Ended \cup ends)
  <2>1. Recorded(file, ends, outcome)[b] = file[b]
    BY <1>2 DEF Recorded
  <2> QED BY <1>2, <2>1
<1> QED BY <1>1, <1>2

\* What queueing the books does to the ledger.
Queued(books) ==
  \E jobs \in SUBSET Fresh :
    /\ \A j \in jobs : /\ ledger'[j] \in Entry /\ IsUnderway(ledger'[j])
                       /\ ledger'[j].book \in books /\ started'[j] = now
    /\ \A i, j \in jobs : ledger'[i].book = ledger'[j].book => i = j
    /\ \A j \in Id \ jobs : ledger'[j] = ledger[j] /\ started'[j] = started[j]

(* Each book gets one fresh job, and nothing else changes.                 *)
LEMMA QueueAdds ==
  ASSUME QueueTyped, FilesTyped, NEW books \in SUBSET Book, Queue(books)
  PROVE  /\ Queued(books)
         /\ ledger' \in [Id -> Entry \cup {None}]
         /\ started' \in [Id -> Time]
         /\ closed' = closed
<1>0. PICK jobs \in SUBSET Fresh :
        /\ \E bookOf \in Bijection(jobs, books) :
             ledger' = [j \in Id |->
                          IF j \in jobs THEN [book |-> bookOf[j], status |-> "unfinished"]
                          ELSE ledger[j]]
        /\ started' = [j \in Id |-> IF j \in jobs THEN now ELSE started[j]]
        /\ UNCHANGED closed
  BY DEF Queue, kSubset
<1>1. PICK bookOf \in Bijection(jobs, books) :
           ledger' = [j \in Id |->
                      IF j \in jobs THEN [book |-> bookOf[j], status |-> "unfinished"]
                      ELSE ledger[j]]
  BY <1>0
<1>2. /\ \A j \in jobs : bookOf[j] \in books
      /\ \A i, j \in jobs : bookOf[i] = bookOf[j] => i = j
  BY DEF Bijection, Injection, IsInjective
<1>3. \A j \in jobs : j \in Id
  BY DEF Fresh
<1>4. \A j \in jobs : [book |-> bookOf[j], status |-> "unfinished"] \in Entry
  BY <1>2 DEF Entry
<1>5. \A j \in jobs : /\ ledger'[j] = [book |-> bookOf[j], status |-> "unfinished"]
                     /\ started'[j] = now
  BY <1>0, <1>1, <1>3
<1>6. \A j \in jobs : ledger'[j] \in Entry /\ IsUnderway(ledger'[j]) /\ ledger'[j].book = bookOf[j]
  <2> SUFFICES ASSUME NEW j \in jobs
               PROVE  ledger'[j] \in Entry /\ IsUnderway(ledger'[j]) /\ ledger'[j].book = bookOf[j]
    OBVIOUS
  <2> DEFINE new == [book |-> bookOf[j], status |-> "unfinished"]
  <2>1. new \in Entry /\ new # None
    BY <1>4, StatesAreNotNone
  <2>2. new.status = "unfinished" /\ new.book = bookOf[j]
    OBVIOUS
  <2>3. IsUnderway(new)
    BY <2>1, <2>2 DEF IsUnderway
  <2>4. ledger'[j] = new
    BY <1>5
  <2> HIDE DEF new
  <2> QED BY <2>1, <2>2, <2>3, <2>4
<1>7. \A j \in Id \ jobs : ledger'[j] = ledger[j] /\ started'[j] = started[j]
  BY <1>0, <1>1
<1>8. Queued(books)
  <2>1. \A j \in jobs : /\ ledger'[j] \in Entry /\ IsUnderway(ledger'[j])
                       /\ ledger'[j].book \in books /\ started'[j] = now
    BY <1>2, <1>5, <1>6
  <2>2. \A i, j \in jobs : ledger'[i].book = ledger'[j].book => i = j
    BY <1>2, <1>6
  <2> QED BY <2>1, <2>2, <1>7 DEF Queued
<1>9. ledger' \in [Id -> Entry \cup {None}] /\ started' \in [Id -> Time]
  BY <1>0, <1>1, <1>4 DEF QueueTyped, FilesTyped
<1> QED BY <1>0, <1>8, <1>9

-----------------------------------------------------------------------------
(* How the lock's holder moves on.                                         *)

\* The tick or the sweep is gone, and the lock is free.
Freed == holder' = "nobody" /\ tick' = None /\ sweep' = None

\* Where the tick may go from its entries, and from a handoff.
Goes == tick' # None /\ tick'.at = "entries"
Hands(b) == tick' # None /\ tick'.at = "handoff" /\ tick'.book = b
Keeps(b, result) == tick' # None /\ tick'.at = "record" /\ tick'.book = b /\ tick'.result = result

\* The lock stays the tick's.
TicksOn ==
  /\ tick # None /\ tick' \in TickState /\ tick'.now = tick.now
  /\ holder' = holder /\ sweep' = sweep

(* Every way a tick goes on keeps the lock.                                *)
LEMMA TickGoesOn ==
  ASSUME LockTyped, LockInv, tick # None, tick.at # "sweep", NEW b \in Book
  PROVE  /\ GoesOn(b) => TicksOn /\ Goes
         /\ HandsOff(b) => TicksOn /\ Hands(b)
         /\ \A result \in Schedule : Holds(b, result) => TicksOn /\ Keeps(b, result)
<1>1. tick \in TickState
  BY DEF LockTyped
<1> DEFINE onwards == [tick EXCEPT !.at = "entries", !.left = @ \ {b}]
<1> DEFINE handed == [tick EXCEPT !.at = "handoff", !.book = b]
<1>2. GoesOn(b) => TicksOn /\ Goes
  <2>1. onwards \in TickState /\ onwards.at = "entries" /\ onwards.now = tick.now
    BY <1>1 DEF TickState
  <2>3. onwards # None
    BY <2>1, StatesAreNotNone
  <2>2. GoesOn(b) => tick' = onwards /\ holder' = holder /\ sweep' = sweep
    BY DEF GoesOn
  <2> HIDE DEF onwards
  <2> QED BY <2>1, <2>2, <2>3 DEF TicksOn, Goes
<1>3. HandsOff(b) => TicksOn /\ Hands(b)
  <2>1. /\ handed \in TickState /\ handed.at = "handoff" /\ handed.now = tick.now
        /\ handed.book = b
    BY <1>1 DEF TickState
  <2>3. handed # None
    BY <2>1, StatesAreNotNone
  <2>2. HandsOff(b) => tick' = handed /\ holder' = holder /\ sweep' = sweep
    BY DEF HandsOff
  <2> HIDE DEF handed
  <2> QED BY <2>1, <2>2, <2>3 DEF TicksOn, Hands
<1>4. ASSUME NEW result \in Schedule, Holds(b, result) PROVE TicksOn /\ Keeps(b, result)
  <2> DEFINE kept == [tick EXCEPT !.at = "record", !.book = b, !.result = result]
  <2>1. /\ kept \in TickState /\ kept.at = "record" /\ kept.now = tick.now
        /\ kept.book = b /\ kept.result = result
    BY <1>1, <1>4 DEF TickState
  <2>3. kept # None
    BY <2>1, StatesAreNotNone
  <2>2. tick' = kept /\ holder' = holder /\ sweep' = sweep
    BY <1>4 DEF Holds
  <2> HIDE DEF kept
  <2> QED BY <2>1, <2>2, <2>3 DEF TicksOn, Keeps
<1> QED BY <1>2, <1>3, <1>4

(* An entry that is one keeps its start whatever it is marked.             *)
LEMMA EntryEdits ==
  ASSUME FilesTyped, NEW b \in Book, entries[b].status # "none"
  PROVE  /\ \A status \in Waiting \cup Settled :
              LET e == [entries[b] EXCEPT !.status = status]
              IN  /\ e \in Schedule /\ e.status = status /\ e.runAt = entries[b].runAt
                  /\ e.job = entries[b].job
         /\ \A j \in Id : /\ Submitted(b, j) \in Schedule
                          /\ Submitted(b, j).status = "submitted"
                          /\ Submitted(b, j).runAt = entries[b].runAt
                          /\ Submitted(b, j).job = j
         /\ entries[b].runAt \in Time
<1>1. entries[b] \in [status : Waiting \cup Settled, runAt : Time, job : Id \cup {None}]
  BY DEF FilesTyped, Schedule, NoEntry
<1>2. "submitted" \in Waiting \cup Settled
  BY DEF Waiting
<1> QED BY <1>1, <1>2 DEF Submitted, Schedule

\* What a step of the tick's through the entries does with the lock.
TickTurns ==
  \/ TicksOn /\ Goes
  \/ TicksOn /\ \E b \in Book : Hands(b)
  \/ TicksOn /\ \E b \in Book : \E result \in Schedule : Keeps(b, result)
  \/ Freed

(* Each of them keeps the lock in order.                                   *)
LEMMA TurnsKeepLock ==
  ASSUME LockTyped, LockInv, tick # None, tick.at # "sweep", TickTurns,
         now' = now, UNCHANGED <<ready, enabled>>
  PROVE  LockTyped' /\ LockInv'
BY DEF LockTyped, LockInv, TickTurns, TicksOn, Goes, Hands, Keeps, Freed

EntryStep(b) ==
  TickOutcome(b) \/ TickMissed(b) \/ TickDispatch(b) \/ TickReplay(b) \/ TickSkip(b)

(* The entry the tick looks at is one, and what a replay finds has an id.  *)
LEMMA EntryStepTurns ==
  ASSUME QueueTyped, FilesTyped, LockTyped, LockInv, NEW b \in Book, EntryStep(b)
  PROVE  TickTurns /\ tick # None /\ tick.at # "sweep"
<1>1. tick # None /\ tick.at = "entries"
  BY DEF EntryStep, TickOutcome, TickMissed, TickDispatch, TickReplay, TickSkip, IsNext, At
<1>2. /\ GoesOn(b) => TicksOn /\ Goes
      /\ HandsOff(b) => TicksOn /\ Hands(b)
      /\ \A result \in Schedule : Holds(b, result) => TicksOn /\ Keeps(b, result)
  BY <1>1, TickGoesOn
<1>3. CASE TickOutcome(b)
  BY <1>1, <1>2, <1>3 DEF TickOutcome, SavesEntry, FailsToSave, Releases, Freed, TickTurns
<1>4. CASE TickMissed(b)
  BY <1>1, <1>2, <1>4 DEF TickMissed, SavesEntry, FailsToSave, Releases, Freed, TickTurns
<1>5. CASE TickDispatch(b)
  BY <1>1, <1>2, <1>5 DEF TickDispatch, SavesEntry, FailsToSave, Releases, Freed, TickTurns
<1>6. CASE TickReplay(b)
  <2>1. CASE HandsOff(b)
    BY <1>1, <1>2, <2>1 DEF TickTurns
  <2>2. CASE Existing(b) # {} /\ Holds(b, Submitted(b, Max(Existing(b))))
    <3>1. Max(Existing(b)) \in Existing(b)
      BY <2>2, ExistingHasLast
    <3>2. Max(Existing(b)) \in Id
      BY <3>1 DEF Existing, JobsOf, Underway, Ended
    <3>3. entries[b].status # "none"
      BY <1>6 DEF TickReplay, IsInterrupted
    <3>4. Submitted(b, Max(Existing(b))) \in Schedule
      BY <3>2, <3>3, EntryEdits
    <3> QED BY <1>1, <1>2, <2>2, <3>4 DEF TickTurns
  <2> QED BY <1>6, <2>1, <2>2 DEF TickReplay
<1>7. CASE TickSkip(b)
  BY <1>1, <1>2, <1>7 DEF TickSkip, TickTurns
<1> QED BY <1>1, <1>3, <1>4, <1>5, <1>6, <1>7 DEF EntryStep

(* What is handed off is recorded with the start it waited for.            *)
LEMMA HandOffTurns ==
  ASSUME QueueTyped, FilesTyped, LockTyped, LockInv, HandInv, HandOff
  PROVE  /\ TicksOn /\ tick.at # "sweep" /\ tick.at # "record"
         /\ \E result \in Schedule :
              /\ Keeps(tick.book, result)
              /\ result.runAt = entries[tick.book].runAt
              /\ \/ /\ result.status = "refused"
                    /\ UNCHANGED <<queueVars, begun>>
                 \/ /\ result.status = "submitted" /\ result.job \in Underway
                    /\ UNCHANGED <<queueVars, begun>>
                 \/ /\ result.status = "submitted" /\ ~IsBusy(tick.book)
                    /\ Queue({tick.book})
                    /\ result.job \in Fresh /\ ledger'[result.job] # None
                    /\ begun' = [begun EXCEPT ![tick.book] = @ \cup {result.job}]
<1>1. tick # None /\ tick.at = "handoff"
  BY DEF HandOff, At
<1>2. PICK b \in Book : b = tick.book
  BY <1>1 DEF HandInv
<1>3. entries[b].status = "dispatching"
  BY <1>1, <1>2 DEF HandInv
<1>4. \A result \in Schedule : Holds(b, result) => TicksOn /\ Keeps(b, result)
  BY <1>1, TickGoesOn
<1>5. \A j \in Id : /\ Submitted(b, j) \in Schedule
                    /\ Submitted(b, j).status = "submitted"
                    /\ Submitted(b, j).runAt = entries[b].runAt
                    /\ Submitted(b, j).job = j
  BY <1>3, EntryEdits
<1>6. CASE \E j \in JobsOf(b) \cap Underway : Holds(b, Submitted(b, j)) /\ UNCHANGED <<queueVars, begun>>
  <2>1. PICK j \in Underway : Holds(b, Submitted(b, j)) /\ UNCHANGED <<queueVars, begun>>
    BY <1>6
  <2>2. j \in Id
    BY DEF Underway
  <2>3. TicksOn /\ Keeps(b, Submitted(b, j))
    BY <1>4, <1>5, <2>1, <2>2
  <2> QED BY <1>1, <1>2, <1>5, <2>1, <2>2, <2>3
<1>7. CASE /\ ~IsBusy(b) /\ Queue({b})
           /\ \E j \in {i \in Fresh : ledger'[i] # None} :
                Holds(b, Submitted(b, j)) /\ begun' = [begun EXCEPT ![b] = @ \cup {j}]
  <2>1. PICK j \in Fresh : /\ ledger'[j] # None /\ Holds(b, Submitted(b, j))
                           /\ begun' = [begun EXCEPT ![b] = @ \cup {j}]
    BY <1>7
  <2>2. j \in Id
    BY DEF Fresh
  <2>3. TicksOn /\ Keeps(b, Submitted(b, j))
    BY <1>4, <1>5, <2>1, <2>2
  <2> DEFINE result == Submitted(b, j)
  <2>4. /\ result \in Schedule /\ result.status = "submitted"
        /\ result.runAt = entries[b].runAt /\ result.job = j
    BY <1>5, <2>2
  <2>5. TicksOn /\ Keeps(b, result)
    BY <2>3
  <2> HIDE DEF result
  <2>6. begun' = [begun EXCEPT ![b] = @ \cup {result.job}] /\ result.job \in Fresh /\ ledger'[result.job] # None
    BY <2>1, <2>4
  <2> QED BY <1>1, <1>2, <1>7, <2>4, <2>5, <2>6
<1>8. CASE Holds(b, [entries[b] EXCEPT !.status = "refused"]) /\ UNCHANGED <<queueVars, begun>>
  <2> DEFINE result == [entries[b] EXCEPT !.status = "refused"]
  <2>1. result \in Schedule /\ result.status = "refused" /\ result.runAt = entries[b].runAt
    BY <1>3, EntryEdits DEF Settled
  <2>2. TicksOn /\ Keeps(b, result)
    BY <1>4, <1>8, <2>1
  <2> HIDE DEF result
  <2> QED BY <1>1, <1>2, <1>8, <2>1, <2>2
<1>9. \/ \E j \in JobsOf(b) \cap Underway : Holds(b, Submitted(b, j)) /\ UNCHANGED <<queueVars, begun>>
      \/ /\ ~IsBusy(b) /\ Queue({b})
         /\ \E j \in {i \in Fresh : ledger'[i] # None} :
              Holds(b, Submitted(b, j)) /\ begun' = [begun EXCEPT ![b] = @ \cup {j}]
      \/ Holds(b, [entries[b] EXCEPT !.status = "refused"]) /\ UNCHANGED <<queueVars, begun>>
  BY <1>2 DEF HandOff
<1> QED BY <1>6, <1>7, <1>8, <1>9

(* Every step keeps the lock in order.                                     *)
LEMMA LockKeeps ==
  ASSUME QueueTyped, FilesTyped, LockTyped, LockInv, HandInv, ScheduleNext
  PROVE  LockTyped' /\ LockInv'
<1>1. ASSUME lockVars' = lockVars, now' \in {now, now + 1},
             ready' \in BOOLEAN, enabled' \in BOOLEAN
      PROVE  LockTyped' /\ LockInv'
  BY <1>1 DEF lockVars, LockTyped, LockInv, TickState, FilesTyped, Time
<1>2. ready \in BOOLEAN /\ enabled \in BOOLEAN
  BY DEF LockTyped
<1>3. ASSUME Releases, now' = now, ready' \in BOOLEAN, enabled' \in BOOLEAN
      PROVE  LockTyped' /\ LockInv'
  BY <1>3 DEF Releases, LockTyped, LockInv
<1>4. ASSUME NEW b \in Book, EntryStep(b) PROVE LockTyped' /\ LockInv'
  <2>1. TickTurns /\ tick # None /\ tick.at # "sweep"
    BY <1>4, EntryStepTurns
  <2>2. now' = now /\ UNCHANGED <<ready, enabled>>
    BY <1>4 DEF EntryStep, TickOutcome, TickMissed, TickDispatch, TickReplay, TickSkip,
                SavesEntry, worldVars
  <2> QED BY <2>1, <2>2, TurnsKeepLock
<1>5. CASE HandOff
  <2>1. TickTurns /\ tick # None /\ tick.at # "sweep"
    <3>1. TicksOn /\ tick.at # "sweep" /\ \E result \in Schedule : Keeps(tick.book, result)
      BY <1>5, HandOffTurns
    <3>2. tick.book \in Book
      BY <1>5 DEF HandOff, At, HandInv
    <3> QED BY <3>1, <3>2 DEF TickTurns, TicksOn
  <2>2. now' = now /\ UNCHANGED <<ready, enabled>>
    BY <1>5 DEF HandOff, worldVars
  <2> QED BY <2>1, <2>2, TurnsKeepLock
<1>6. CASE Record
  <2>1. tick # None /\ tick.at = "record" /\ tick.book \in Book
    BY <1>6 DEF Record, At, HandInv
  <2>2. PICK b \in Book : b = tick.book
    BY <2>1
  <2>3. GoesOn(b) => TicksOn /\ Goes
    BY <2>1, TickGoesOn
  <2>4. TickTurns /\ now' = now /\ UNCHANGED <<ready, enabled>>
    BY <1>6, <2>2, <2>3 DEF Record, SavesEntry, FailsToSave, Releases, Freed, TickTurns, worldVars
  <2> QED BY <2>1, <2>4, TurnsKeepLock
<1>7. CASE BeginTick
  <2> DEFINE new == [at |-> "entries", now |-> now, ready |-> ready, book |-> None,
                     left |-> {b \in Book : entries[b] # NoEntry}, result |-> NoEntry]
  <2>1. new \in TickState /\ new.now = now /\ new.at = "entries"
    BY <1>2 DEF TickState, Schedule, FilesTyped
  <2>2. tick' = new /\ holder' = "tick" /\ holder = "nobody"
        /\ UNCHANGED <<sweep, now, ready, enabled>>
    BY <1>7 DEF BeginTick, worldVars
  <2> HIDE DEF new
  <2>3. new # None
    BY <2>1, StatesAreNotNone
  <2>4. sweep = None
    BY <2>2 DEF LockInv
  <2>5. LockTyped'
    BY <1>2, <2>1, <2>2, <2>4 DEF LockTyped
  <2>6. now \in Nat
    BY ScheduleAssumption DEF FilesTyped, Time
  <2>7. tick'.now <= now' /\ tick' # None
    BY <2>1, <2>2, <2>3, <2>6
  <2>8. LockInv'
    BY <2>1, <2>2, <2>3, <2>4, <2>7 DEF LockInv
  <2> QED BY <2>5, <2>8
<1>8. CASE RunSweepNow
  <2> DEFINE new == [at |-> "select", limit |-> Cardinality(Book), books |-> {}, queued |-> 0]
  <2>1. new \in SweepState
    BY ScheduleAssumption, FS_CardinalityType DEF SweepState
  <2>2. sweep' = new /\ holder' = "manual" /\ holder = "nobody"
        /\ UNCHANGED <<tick, now, ready, enabled>>
    BY <1>8 DEF RunSweepNow, worldVars
  <2> HIDE DEF new
  <2>3. new # None
    BY <2>1, StatesAreNotNone
  <2> QED BY <2>1, <2>2, <2>3 DEF LockTyped, LockInv
<1>9. CASE ClaimSweep
  <2> DEFINE new == [at |-> "select", limit |-> Limit, books |-> {}, queued |-> 0]
  <2> DEFINE onwards == [tick EXCEPT !.at = "sweep"]
  <2>1. now' = now /\ UNCHANGED <<ready, enabled>> /\ (BeginsSweep \/ Releases)
    BY <1>9 DEF ClaimSweep, FailsToSave, worldVars
  <2>2. tick # None /\ tick.at = "entries"
    BY <1>9 DEF ClaimSweep, SlotIsDue, At
  <2>3. CASE BeginsSweep
    <3>1. new \in SweepState
      BY ScheduleAssumption DEF SweepState
    <3>2. tick \in TickState
      BY <2>2 DEF LockTyped
    <3>3. onwards \in TickState /\ onwards.at = "sweep" /\ onwards.now = tick.now
      BY <3>2 DEF TickState
    <3>4. tick' = onwards /\ sweep' = new /\ UNCHANGED holder
      BY <2>3 DEF BeginsSweep
    <3> HIDE DEF new, onwards
    <3>5. new # None /\ onwards # None
      BY <3>1, <3>3, StatesAreNotNone
    <3> QED BY <2>1, <2>2, <3>1, <3>3, <3>4, <3>5 DEF LockTyped, LockInv
  <2>4. CASE Releases
    BY <1>2, <1>3, <2>1, <2>4
  <2> QED BY <2>1, <2>3, <2>4
<1>10. ASSUME NEW targets \in SUBSET Book, SelectBooks(targets) PROVE LockTyped' /\ LockInv'
  <2>1. PICK books \in SUBSET Book : sweep' = [sweep EXCEPT !.at = "queue", !.books = books]
    BY <1>10 DEF SelectBooks, kSubset
  <2>2. sweep \in SweepState
    BY <1>10 DEF SelectBooks, IsSweeping, LockTyped
  <2>3. sweep' \in SweepState
    BY <2>1, <2>2 DEF SweepState
  <2>4. sweep' # None
    BY <2>3, StatesAreNotNone
  <2>5. UNCHANGED <<holder, tick, now, ready, enabled>>
    BY <1>10 DEF SelectBooks, worldVars
  <2> QED BY <1>10, <2>3, <2>4, <2>5 DEF LockTyped, LockInv, SelectBooks, IsSweeping
<1>11. CASE QueueBooks
  <2> DEFINE open == {b \in sweep.books : ~IsBusy(b)}
  <2>1. sweep \in SweepState
    BY <1>11 DEF QueueBooks, IsSweeping, LockTyped
  <2>2. Cardinality(open) \in Nat
    <3>1. open \subseteq Book
      BY <2>1 DEF SweepState
    <3> QED BY <3>1, ScheduleAssumption, FS_Subset, FS_CardinalityType
  <2>3. sweep' \in {[sweep EXCEPT !.at = "report", !.queued = Cardinality(open)],
                    [sweep EXCEPT !.at = "report"]}
    BY <1>11 DEF QueueBooks
  <2>4. sweep' \in SweepState
    BY <2>1, <2>2, <2>3 DEF SweepState
  <2>5. sweep' # None
    BY <2>4, StatesAreNotNone
  <2>6. UNCHANGED <<holder, tick, now, ready, enabled>>
    BY <1>11 DEF QueueBooks, worldVars
  <2> QED BY <1>11, <2>4, <2>5, <2>6 DEF LockTyped, LockInv, QueueBooks, IsSweeping
<1>12. CASE NoSweep \/ MissSweep \/ ReportSweep \/ Crash
  <2>1. Releases /\ now' = now /\ ready' \in {ready, FALSE} /\ enabled' = enabled
    BY <1>12 DEF NoSweep, MissSweep, ReportSweep, Crash, worldVars
  <2> QED BY <1>2, <1>3, <2>1
<1>13. CASE \E b \in Book : \/ RequestSync(b) \/ CancelSchedule(b)
                            \/ \E at \in Time : ScheduleBook(b, at)
  <2>1. UNCHANGED <<lockVars, worldVars>>
    BY <1>13 DEF RequestSync, CancelSchedule, ScheduleBook, Edit
  <2> QED BY <1>1, <1>2, <2>1 DEF worldVars
<1>14. CASE \E j \in Id : \/ \E outcome \in Outcome : FinishJob(j, outcome)
                          \/ PruneResult(j) \/ RemoveJob(j)
  <2>1. UNCHANGED <<lockVars, worldVars>>
    BY <1>14 DEF FinishJob, PruneResult, RemoveJob
  <2> QED BY <1>1, <1>2, <2>1 DEF worldVars
<1>15. CASE (\E on \in BOOLEAN, at \in LocalTime : SetSweep(on, at)) \/ ChangeAddon \/ Advance \/ ScanLibrary
  <2>1. lockVars' = lockVars /\ now' \in {now, now + 1}
    BY <1>15 DEF SetSweep, Edit, ChangeAddon, Advance, ScanLibrary, worldVars
  <2>2. ready' \in {ready, TRUE} /\ enabled' \in {enabled, ~enabled}
    BY <1>15 DEF SetSweep, Edit, ChangeAddon, Advance, ScanLibrary, worldVars
  <2> QED BY <1>1, <1>2, <2>1, <2>2
<1> QED BY <1>4, <1>5, <1>6, <1>7, <1>8, <1>9, <1>10, <1>11, <1>12, <1>13, <1>14, <1>15
        DEF ScheduleNext, TickStep, SweepStep, EntryStep

-----------------------------------------------------------------------------
(* The nightly rule.                                                       *)

\* The rule's next slot changes only to one in the future, and a slot is swept
\* only when it has come and another is put in its place.
RuleStep ==
  /\ rule' \in Rule /\ (rule'.on => rule'.at # None)
  /\ rule'.next = rule.next \/ rule'.next > now
  /\ \/ swept' = swept
     \/ /\ rule.next <= now /\ rule'.next > now
        /\ swept' = [swept EXCEPT ![rule.next] = @ + 1]

(* A rule that is due knows its time of day, and advances to a later slot. *)
LEMMA AdvancedIsLater ==
  ASSUME FilesTyped, rule.on
  PROVE  /\ Advanced \in Rule /\ Advanced.next > now /\ Advanced.at # None
         /\ Advanced.queued = rule.queued /\ Advanced.ran = rule.ran
         /\ [Advanced EXCEPT !.ran = now, !.queued = None] \in Rule
         /\ [Advanced EXCEPT !.ran = now, !.queued = None].next = Advanced.next
         /\ [Advanced EXCEPT !.ran = now, !.queued = None].at = Advanced.at
         /\ [Advanced EXCEPT !.ran = now, !.queued = None].queued = None
<1>1. rule \in Rule /\ rule.at # None /\ now \in Time
  BY DEF FilesTyped
<1>2. rule.at \in LocalTime /\ rule.next \in Nat /\ now \in Nat
  BY <1>1, ScheduleAssumption DEF Rule, Time
<1> DEFINE next == AdvancedOccurrence(rule.at, rule.next, now)
<1>3. next \in Nat /\ next > now
  BY <1>2, OccurrencesAreLater
<1> HIDE DEF next
<1>4. Advanced = [rule EXCEPT !.next = next]
  BY DEF Advanced, next
<1>5. /\ Advanced \in Rule /\ Advanced.next = next /\ Advanced.at = rule.at
      /\ Advanced.queued = rule.queued /\ Advanced.ran = rule.ran
  BY <1>1, <1>3, <1>4 DEF Rule
<1>6. /\ [Advanced EXCEPT !.ran = now, !.queued = None] \in Rule
      /\ [Advanced EXCEPT !.ran = now, !.queued = None].next = Advanced.next
      /\ [Advanced EXCEPT !.ran = now, !.queued = None].at = Advanced.at
      /\ [Advanced EXCEPT !.ran = now, !.queued = None].queued = None
  BY <1>1, <1>5 DEF Rule
<1> QED BY <1>1, <1>3, <1>5, <1>6

(* Setting the rule finds its next slot.                                   *)
LEMMA SetSweepSets ==
  ASSUME FilesTyped, NEW on \in BOOLEAN, NEW at \in LocalTime, SetSweep(on, at)
  PROVE  RuleStep /\ rule'.queued = rule.queued /\ rule'.ran = rule.ran
<1>1. rule \in Rule /\ now \in Nat
  BY ScheduleAssumption DEF FilesTyped, Time
<1>2. NextOccurrence(at, now) \in Nat /\ NextOccurrence(at, now) > now
  BY <1>1, OccurrencesAreLater
<1>3. at # None
  BY ScheduleAssumption, StatesAreNotNone
<1>4. swept' = swept
  BY DEF SetSweep, historyVars
<1>5. ASSUME NEW yes \in BOOLEAN, NEW no \in BOOLEAN, yes = TRUE, no = FALSE
      PROVE  /\ [rule EXCEPT !.on = yes, !.at = at, !.next = NextOccurrence(at, now)] \in Rule
             /\ [rule EXCEPT !.on = no] \in Rule
  BY <1>1, <1>2 DEF Rule
<1>6. /\ [rule EXCEPT !.on = TRUE, !.at = at, !.next = NextOccurrence(at, now)] \in Rule
      /\ [rule EXCEPT !.on = FALSE] \in Rule
  BY <1>5
<1>7. CASE rule' = [rule EXCEPT !.on = TRUE, !.at = at, !.next = NextOccurrence(at, now)]
  <2>1. /\ rule'.at = at /\ rule'.next = NextOccurrence(at, now)
        /\ rule'.queued = rule.queued /\ rule'.ran = rule.ran
    BY <1>1, <1>7 DEF Rule
  <2> QED BY <1>2, <1>3, <1>4, <1>6, <1>7, <2>1 DEF RuleStep
<1>8. CASE rule' = [rule EXCEPT !.on = FALSE]
  <2>1. ~rule'.on /\ rule'.next = rule.next /\ rule'.queued = rule.queued /\ rule'.ran = rule.ran
    BY <1>1, <1>8 DEF Rule
  <2> QED BY <1>4, <1>6, <1>8, <2>1 DEF RuleStep
<1> QED BY <1>7, <1>8 DEF SetSweep

(* What each step does to the rule.                                        *)
LEMMA RuleSteps ==
  ASSUME FilesTyped, LockTyped, LockInv, HandInv, ScheduleNext
  PROVE  RuleStep
<1>1. ASSUME rule' = rule, swept' = swept PROVE RuleStep
  BY <1>1 DEF FilesTyped, RuleStep
<1>2. ASSUME NEW b \in Book, EntryStep(b) PROVE rule' = rule /\ swept' = swept
  BY <1>2 DEF EntryStep, TickOutcome, TickMissed, TickDispatch, TickReplay, TickSkip,
              SavesEntry, fileVars, historyVars
<1>3. CASE HandOff \/ Record \/ BeginTick \/ NoSweep
  BY <1>1, <1>3 DEF HandOff, Record, SavesEntry, BeginTick, NoSweep, fileVars, historyVars
<1>4. CASE MissSweep
  <2>1. rule.on /\ rule' \in {rule, Advanced} /\ swept' = swept
    BY <1>4 DEF MissSweep, SlotIsDue, FailsToSave, historyVars
  <2> QED BY <1>1, <2>1, AdvancedIsLater DEF RuleStep
<1>5. CASE ClaimSweep
  <2> DEFINE claimed == [Advanced EXCEPT !.ran = now, !.queued = None]
  <2>1. rule.on /\ rule.next <= now
    BY <1>5 DEF ClaimSweep, SlotIsDue, FilesTyped, Time, Rule
  <2>2. \/ rule' = claimed /\ swept' = [swept EXCEPT ![rule.next] = @ + 1]
        \/ rule' \in {rule, claimed} /\ swept' = swept
    BY <1>5 DEF ClaimSweep, BeginsSweep, FailsToSave
  <2>3. claimed \in Rule /\ claimed.next > now /\ claimed.at # None
    BY <2>1, AdvancedIsLater
  <2> HIDE DEF claimed
  <2> QED BY <1>1, <2>1, <2>2, <2>3 DEF RuleStep
<1>6. ASSUME NEW targets \in SUBSET Book, SelectBooks(targets) PROVE RuleStep
  BY <1>1, <1>6 DEF SelectBooks, fileVars, historyVars
<1>7. CASE QueueBooks
  BY <1>1, <1>7 DEF QueueBooks, fileVars
<1>8. CASE ReportSweep
  <2>1. sweep \in SweepState
    BY <1>8 DEF ReportSweep, IsSweeping, LockTyped
  <2>2. sweep.queued \in Nat
    BY <2>1 DEF SweepState
  <2> DEFINE report == [rule EXCEPT !.ran = IF holder = "manual" THEN now ELSE @, !.queued = sweep.queued]
  <2>3. rule' \in {rule, report} /\ swept' = swept
    BY <1>8 DEF ReportSweep, FailsToSave
  <2>4. report \in Rule /\ report.next = rule.next /\ report.at = rule.at /\ report.on = rule.on
    BY <2>2 DEF FilesTyped, Rule
  <2> HIDE DEF report
  <2> QED BY <1>1, <2>3, <2>4 DEF RuleStep, FilesTyped
<1>9. CASE \E on \in BOOLEAN, at \in LocalTime : SetSweep(on, at)
  BY <1>9, SetSweepSets
<1>10. CASE \E b \in Book : \/ RequestSync(b) \/ CancelSchedule(b)
                            \/ \E at \in Time : ScheduleBook(b, at)
  BY <1>1, <1>10 DEF RequestSync, CancelSchedule, ScheduleBook, fileVars, historyVars
<1>11. CASE \E j \in Id : \/ \E outcome \in Outcome : FinishJob(j, outcome)
                          \/ PruneResult(j) \/ RemoveJob(j)
  BY <1>1, <1>11 DEF FinishJob, PruneResult, RemoveJob, fileVars, historyVars
<1>12. CASE RunSweepNow \/ ChangeAddon \/ Advance \/ ScanLibrary \/ Crash
  BY <1>1, <1>12 DEF RunSweepNow, ChangeAddon, Advance, ScanLibrary, Crash, fileVars, historyVars
<1> QED BY <1>1, <1>2, <1>3, <1>4, <1>5, <1>6, <1>7, <1>8, <1>9, <1>10, <1>11, <1>12
        DEF ScheduleNext, TickStep, SweepStep, EntryStep

(* The clock goes on by one or stands.                                     *)
LEMMA ClockSteps ==
  ASSUME FilesTyped, ScheduleNext
  PROVE  now' \in Time /\ now \in Nat /\ (now' = now \/ now' = now + 1)
<1>1. now' = now \/ (now < MaxTime /\ now' = now + 1)
  <2>1. ASSUME NEW b \in Book, EntryStep(b) PROVE now' = now
    BY <2>1 DEF EntryStep, TickOutcome, TickMissed, TickDispatch, TickReplay, TickSkip,
                SavesEntry, worldVars
  <2>2. CASE HandOff \/ Record \/ BeginTick \/ NoSweep \/ MissSweep \/ ClaimSweep
    BY <2>2 DEF HandOff, Record, SavesEntry, BeginTick, NoSweep, MissSweep, ClaimSweep, worldVars
  <2>3. CASE \/ \E targets \in SUBSET Book : SelectBooks(targets)
             \/ QueueBooks \/ ReportSweep
    BY <2>3 DEF SelectBooks, QueueBooks, ReportSweep, worldVars
  <2>4. CASE \E b \in Book : \/ RequestSync(b) \/ CancelSchedule(b)
                             \/ \E at \in Time : ScheduleBook(b, at)
    BY <2>4 DEF RequestSync, CancelSchedule, ScheduleBook, Edit, worldVars
  <2>5. CASE \E j \in Id : \/ \E outcome \in Outcome : FinishJob(j, outcome)
                           \/ PruneResult(j) \/ RemoveJob(j)
    BY <2>5 DEF FinishJob, PruneResult, RemoveJob, worldVars
  <2>6. CASE (\E on \in BOOLEAN, at \in LocalTime : SetSweep(on, at))
             \/ RunSweepNow \/ ChangeAddon \/ Advance \/ ScanLibrary \/ Crash
    BY <2>6 DEF SetSweep, Edit, RunSweepNow, ChangeAddon, Advance, ScanLibrary, Crash, worldVars
  <2> QED BY <2>1, <2>2, <2>3, <2>4, <2>5, <2>6 DEF ScheduleNext, TickStep, SweepStep, EntryStep
<1> QED BY <1>1, ScheduleAssumption DEF FilesTyped, Time

(* No night is swept twice.                                                *)
LEMMA NightKeeps ==
  ASSUME FilesTyped, NightInv, RuleStep, now' = now \/ now' = now + 1
  PROVE  NightInv' /\ swept' \in [Time -> Nat]
<1>1. now \in Nat /\ rule.next \in Nat /\ rule'.next \in Nat /\ \A slot \in Time : slot \in Nat
  BY ScheduleAssumption DEF FilesTyped, Time, Rule, RuleStep
<1>2. \A slot \in Time : swept[slot] \in Nat
  BY DEF FilesTyped
<1>3. CASE swept' = swept
  BY <1>1, <1>2, <1>3 DEF NightInv, RuleStep, FilesTyped
<1>4. CASE /\ rule.next <= now /\ rule'.next > now
           /\ swept' = [swept EXCEPT ![rule.next] = @ + 1]
  <2>1. rule.next \in Time
    BY <1>1, <1>4, ScheduleAssumption DEF FilesTyped, Time
  <2>2. swept[rule.next] = 0
    BY <1>1, <1>2, <2>1 DEF NightInv
  <2>3. swept' \in [Time -> Nat] /\ \A slot \in Time : swept'[slot] = IF slot = rule.next THEN 1 ELSE swept[slot]
    BY <1>2, <1>4, <2>1, <2>2 DEF FilesTyped
  <2> QED BY <1>1, <1>2, <1>4, <2>3 DEF NightInv
<1> QED BY <1>3, <1>4 DEF RuleStep

(* The number the rule shows is that of the run whose time it shows.       *)
LEMMA ReportKeeps ==
  ASSUME FilesTyped, LockTyped, LockInv, HandInv, ReportInv, ReportsAreOwn, ScheduleNext
  PROVE  ReportInv' /\ ReportsAreOwn'
<1> DEFINE Calm ==
      \/ sweep' = None
      \/ sweep' # None /\ sweep'.at # "report"
      \/ sweep' = sweep /\ holder' = holder
<1>1. ASSUME rule'.queued = rule.queued, rule'.ran = rule.ran, counts \subseteq counts', Calm
      PROVE  ReportInv' /\ ReportsAreOwn'
  BY <1>1 DEF ReportInv, ReportsAreOwn
<1>2. ASSUME NEW b \in Book, EntryStep(b) PROVE ReportInv' /\ ReportsAreOwn'
  <2>1. rule' = rule /\ counts' = counts
    BY <1>2 DEF EntryStep, TickOutcome, TickMissed, TickDispatch, TickReplay, TickSkip,
                SavesEntry, fileVars, historyVars
  <2>2. Calm
    BY <1>2 DEF EntryStep, TickOutcome, TickMissed, TickDispatch, TickReplay, TickSkip,
                SavesEntry, FailsToSave, Releases, GoesOn, HandsOff, Holds
  <2> QED BY <1>1, <2>1, <2>2
<1>3. CASE HandOff
  <2>1. rule' = rule /\ counts' = counts
    BY <1>3 DEF HandOff, fileVars
  <2>2. Calm
    BY <1>3 DEF HandOff, Holds
  <2> QED BY <1>1, <2>1, <2>2
<1>4. CASE Record
  <2>1. rule' = rule /\ counts' = counts
    BY <1>4 DEF Record, SavesEntry, historyVars
  <2>2. Calm
    BY <1>4 DEF Record, SavesEntry, FailsToSave, Releases, GoesOn
  <2> QED BY <1>1, <2>1, <2>2
<1>5. CASE BeginTick
  <2>1. rule' = rule /\ counts' = counts /\ sweep' = sweep /\ sweep = None
    BY <1>5 DEF BeginTick, fileVars, historyVars, LockInv
  <2> QED BY <1>1, <2>1
<1>6. CASE NoSweep \/ MissSweep
  <2>1. rule' \in {rule, Advanced} /\ (rule' # rule => rule.on) /\ counts' = counts /\ sweep' = None
    BY <1>6 DEF NoSweep, MissSweep, SlotIsDue, FailsToSave, Releases, fileVars, historyVars
  <2> QED BY <1>1, <2>1, AdvancedIsLater
<1>7. CASE ClaimSweep
  <2> DEFINE claimed == [Advanced EXCEPT !.ran = now, !.queued = None]
  <2> DEFINE new == [at |-> "select", limit |-> Limit, books |-> {}, queued |-> 0]
  <2>1. rule.on /\ counts' = counts /\ rule' \in {rule, claimed}
    BY <1>7 DEF ClaimSweep, SlotIsDue, FailsToSave
  <2>2. sweep' = None \/ sweep' = new
    BY <1>7 DEF ClaimSweep, BeginsSweep, FailsToSave, Releases
  <2>3. new \in SweepState /\ new.at # "report"
    BY ScheduleAssumption DEF SweepState
  <2>4. claimed.queued = None
    BY <2>1, AdvancedIsLater
  <2> HIDE DEF claimed, new
  <2>5. Calm
    BY <2>2, <2>3
  <2>6. CASE rule' = rule
    BY <1>1, <2>1, <2>5, <2>6
  <2>7. CASE rule' = claimed
    BY <2>2, <2>3, <2>4, <2>7 DEF ReportInv, ReportsAreOwn
  <2> QED BY <2>1, <2>6, <2>7
<1>8. ASSUME NEW targets \in SUBSET Book, SelectBooks(targets) PROVE ReportInv' /\ ReportsAreOwn'
  <2>1. sweep \in SweepState /\ \E books : sweep' = [sweep EXCEPT !.at = "queue", !.books = books]
    BY <1>8 DEF SelectBooks, IsSweeping, LockTyped
  <2>2. sweep'.at = "queue"
    BY <2>1 DEF SweepState
  <2>3. rule' = rule /\ counts' = counts
    BY <1>8 DEF SelectBooks, fileVars, historyVars
  <2> QED BY <2>2, <2>3 DEF ReportInv, ReportsAreOwn
<1>9. CASE QueueBooks
  <2>1. /\ rule' = rule /\ holder' = holder
        /\ counts' = IF holder = "tick" THEN counts \cup {<<rule.ran, sweep'.queued>>} ELSE counts
    BY <1>9 DEF QueueBooks, fileVars
  <2> QED BY <2>1 DEF ReportInv, ReportsAreOwn
<1>10. CASE ReportSweep
  <2> DEFINE report == [rule EXCEPT !.ran = IF holder = "manual" THEN now ELSE @, !.queued = sweep.queued]
  <2>1. /\ rule' \in {rule, report} /\ sweep' = None /\ sweep # None /\ sweep.at = "report"
        /\ counts' = IF holder = "manual" THEN counts \cup {<<now, sweep.queued>>} ELSE counts
    BY <1>10 DEF ReportSweep, FailsToSave, Releases, IsSweeping
  <2>2. report.queued = sweep.queued /\ report.ran = IF holder = "manual" THEN now ELSE rule.ran
    BY DEF FilesTyped, Rule
  <2>3. holder \in {"tick", "manual"}
    BY <2>1 DEF LockInv
  <2>4. <<report.ran, report.queued>> \in counts'
    BY <2>1, <2>2, <2>3 DEF ReportInv
  <2> HIDE DEF report
  <2> QED BY <2>1, <2>4 DEF ReportInv, ReportsAreOwn
<1>11. CASE \E on \in BOOLEAN, at \in LocalTime : SetSweep(on, at)
  <2>1. rule'.queued = rule.queued /\ rule'.ran = rule.ran
    BY <1>11, SetSweepSets
  <2>2. counts' = counts /\ sweep' = sweep /\ holder' = holder
    BY <1>11 DEF SetSweep, Edit, lockVars, historyVars
  <2> QED BY <1>1, <2>1, <2>2
<1>12. CASE \E b \in Book : \/ RequestSync(b) \/ CancelSchedule(b)
                            \/ \E at \in Time : ScheduleBook(b, at)
  <2>1. rule' = rule /\ counts' = counts /\ sweep' = sweep /\ holder' = holder
    BY <1>12 DEF RequestSync, CancelSchedule, ScheduleBook, Edit, fileVars, lockVars, historyVars
  <2> QED BY <1>1, <2>1
<1>13. CASE \E j \in Id : \/ \E outcome \in Outcome : FinishJob(j, outcome)
                          \/ PruneResult(j) \/ RemoveJob(j)
  <2>1. rule' = rule /\ counts' = counts /\ sweep' = sweep /\ holder' = holder
    BY <1>13 DEF FinishJob, PruneResult, RemoveJob, fileVars, lockVars, historyVars
  <2> QED BY <1>1, <2>1
<1>14. CASE RunSweepNow
  <2> DEFINE new == [at |-> "select", limit |-> Cardinality(Book), books |-> {}, queued |-> 0]
  <2>1. new.at = "select"
    OBVIOUS
  <2>2. rule' = rule /\ counts' = counts /\ sweep' = new
    BY <1>14 DEF RunSweepNow, fileVars, historyVars
  <2> HIDE DEF new
  <2> QED BY <2>1, <2>2 DEF ReportInv, ReportsAreOwn
<1>15. CASE ChangeAddon \/ Advance \/ ScanLibrary \/ Crash
  <2>1. rule' = rule /\ counts' = counts /\ (sweep' = None \/ (sweep' = sweep /\ holder' = holder))
    BY <1>15 DEF ChangeAddon, Advance, ScanLibrary, Crash, Releases, fileVars, lockVars, historyVars
  <2> QED BY <1>1, <2>1
<1> QED BY <1>2, <1>3, <1>4, <1>5, <1>6, <1>7, <1>8, <1>9, <1>10, <1>11, <1>12, <1>13, <1>14, <1>15
        DEF ScheduleNext, TickStep, SweepStep, EntryStep

-----------------------------------------------------------------------------
(* The queue.                                                              *)

\* What a step may make of one job.
Stays(j) == ledger'[j] = ledger[j] /\ started'[j] = started[j]
Starts(j) ==
  /\ ledger[j] = None /\ ledger'[j] \in Entry /\ IsUnderway(ledger'[j]) /\ started'[j] = now
Stops(j) ==
  /\ IsUnderway(ledger[j]) /\ IsEnded(ledger'[j]) /\ ledger'[j] \in Entry
  /\ \E outcome \in Outcome : ledger'[j] = [ledger[j] EXCEPT !.status = outcome]
  /\ ledger'[j].book = ledger[j].book /\ started'[j] = started[j]
Leaves(j) ==
  /\ Exists(j) /\ ledger'[j] = Gone /\ j \in closed' /\ started'[j] = started[j]

JobsMove == \A j \in Id : Stays(j) \/ Starts(j) \/ Stops(j) \/ Leaves(j)

\* Jobs start, end and go; what is closed stays closed and is not under way.
QueueStep ==
  /\ ledger' \in [Id -> Entry \cup {None}] /\ started' \in [Id -> Time]
  /\ closed \subseteq closed' /\ closed' \subseteq Id
  /\ JobsMove

(* A step that leaves the queue alone.                                     *)
LEMMA QueueRests ==
  ASSUME QueueTyped, UNCHANGED queueVars
  PROVE  QueueStep
BY DEF QueueTyped, QueueStep, JobsMove, Stays, queueVars

(* Books without a job under way get one each.                             *)
LEMMA QueueGrows ==
  ASSUME QueueTyped, FilesTyped, ClosedInv, OneInv, NEW books \in SUBSET Book, Queue(books),
         \A b \in books : ~IsBusy(b)
  PROVE  QueueStep /\ ClosedInv' /\ OneInv'
<1>1. /\ ledger' \in [Id -> Entry \cup {None}] /\ started' \in [Id -> Time] /\ closed' = closed
  BY QueueAdds
<1>2. PICK jobs \in SUBSET Fresh :
    /\ \A j \in jobs : /\ ledger'[j] \in Entry /\ IsUnderway(ledger'[j])
                       /\ ledger'[j].book \in books /\ started'[j] = now
    /\ \A i, j \in jobs : ledger'[i].book = ledger'[j].book => i = j
    /\ \A j \in Id \ jobs : ledger'[j] = ledger[j] /\ started'[j] = started[j]
  BY QueueAdds DEF Queued
<1>3. \A j \in jobs : j \in Id /\ ledger[j] = None
  BY DEF Fresh
<1>4. JobsMove
  BY <1>2, <1>3 DEF JobsMove, Stays, Starts
<1>5. ClosedInv'
  BY <1>1, <1>2, <1>3 DEF ClosedInv, QueueTyped
<1>6. \A i \in Id \ jobs, j \in jobs : IsUnderway(ledger'[i]) => ledger'[i].book # ledger'[j].book
  <2> SUFFICES ASSUME NEW i \in Id \ jobs, NEW j \in jobs, IsUnderway(ledger'[i]),
                      ledger'[i].book = ledger'[j].book
               PROVE  FALSE
    OBVIOUS
  <2>1. ledger'[i] = ledger[i] /\ ledger'[j].book \in books
    BY <1>2
  <2>2. i \in Underway
    BY <2>1 DEF Underway
  <2>3. IsBusy(ledger'[j].book)
    BY <2>1, <2>2 DEF IsBusy
  <2> QED BY <2>1, <2>3
<1>7. OneInv'
  <2> SUFFICES ASSUME NEW i \in Id, NEW j \in Id, IsUnderway(ledger'[i]), IsUnderway(ledger'[j]),
                      ledger'[i].book = ledger'[j].book
               PROVE  i = j
    BY DEF OneInv
  <2>1. CASE i \in jobs /\ j \in jobs
    BY <1>2, <2>1
  <2>2. CASE i \notin jobs /\ j \notin jobs
    BY <1>2, <2>2 DEF OneInv
  <2> QED BY <1>6, <2>1, <2>2
<1> QED BY <1>1, <1>4, <1>5, <1>7, <1>3 DEF QueueStep, QueueTyped

(* A job ends, alone or displacing the older results of its book.          *)
LEMMA QueueEnds ==
  ASSUME QueueTyped, ClosedInv, OneInv, NEW j \in Id, NEW outcome \in Outcome, FinishJob(j, outcome)
  PROVE  QueueStep /\ ClosedInv' /\ OneInv'
<1> DEFINE result == [ledger[j] EXCEPT !.status = outcome]
<1> DEFINE older == JobsOf(ledger[j].book) \cap Ended
<1>1. IsUnderway(ledger[j]) /\ j \notin older
  BY DEF FinishJob, Underway, Ended, IsUnderway, IsEnded, Outcome
<1>2. ledger[j] \in [book : Book, status : {"unfinished"} \cup Outcome]
  BY <1>1, StatesAreNotNone DEF QueueTyped, IsUnderway, Entry, Gone
<1>3. /\ result \in Entry /\ result.status = outcome /\ result.book = ledger[j].book
  BY <1>2 DEF Entry
<1>4. IsEnded(result) /\ ~IsUnderway(result) /\ result # None
  BY <1>3, StatesAreNotNone DEF IsEnded, IsUnderway, Outcome
<1>5. older \subseteq Id /\ \A i \in older : IsEnded(ledger[i])
  BY DEF Ended
<1>6. /\ started' = started
      /\ \/ /\ ledger' = [i \in Id |-> IF i = j THEN result
                                       ELSE IF i \in older THEN Gone ELSE ledger[i]]
            /\ closed' = closed \cup older \cup {j}
         \/ /\ ledger' = [ledger EXCEPT ![j] = result]
            /\ closed' = closed
  BY DEF FinishJob
<1>7. \/ Stops(j)
      \/ ~\E o \in Outcome : ledger'[j] = [ledger[j] EXCEPT !.status = o]
  BY <1>1, <1>3, <1>4, <1>6 DEF Stops, QueueTyped
<1>8. ledger'[j] = result
  BY <1>6 DEF QueueTyped
<1>9. Stops(j)
  BY <1>7, <1>8
<1>10. \A i \in Id \ {j} : Stays(i) \/ (Leaves(i) /\ i \in older)
  BY <1>5, <1>6 DEF Stays, Leaves, Exists, QueueTyped
<1>11. ledger' \in [Id -> Entry \cup {None}]
  BY <1>3, <1>5, <1>6, StatesAreNotNone DEF QueueTyped
<1>12. closed \subseteq closed' /\ closed' \subseteq Id
  BY <1>5, <1>6 DEF QueueTyped
<1>13. \A i \in closed' : ledger'[i] # None /\ ~IsUnderway(ledger'[i])
  <2> SUFFICES ASSUME NEW i \in closed' PROVE ledger'[i] # None /\ ~IsUnderway(ledger'[i])
    OBVIOUS
  <2>1. CASE i = j
    BY <1>4, <1>8, <2>1
  <2>2. CASE i # j /\ Leaves(i)
    BY <2>2, StatesAreNotNone DEF Leaves
  <2>3. CASE i # j /\ ~Leaves(i)
    <3>1. i \in Id /\ Stays(i)
      BY <1>10, <1>12, <2>3
    <3>2. i \in closed \/ i \in older
      BY <1>6, <2>3
    <3>3. CASE i \in closed
      BY <3>1, <3>3 DEF ClosedInv, Stays
    <3>4. CASE i \in older
      BY <1>5, <3>1, <3>4 DEF Stays, IsEnded, IsUnderway, Outcome
    <3> QED BY <3>2, <3>3, <3>4
  <2> QED BY <2>1, <2>2, <2>3
<1>14. \A i \in Id : IsUnderway(ledger'[i]) => ledger'[i] = ledger[i]
  BY <1>4, <1>8, <1>10, StatesAreNotNone DEF Stays, Leaves
<1>15. OneInv'
  BY <1>14 DEF OneInv
<1> QED BY <1>6, <1>9, <1>10, <1>11, <1>12, <1>13, <1>15 DEF QueueStep, JobsMove, ClosedInv, QueueTyped

(* A job is pruned or withdrawn.                                           *)
LEMMA QueueDrops ==
  ASSUME QueueTyped, ClosedInv, OneInv, NEW j \in Id, PruneResult(j) \/ RemoveJob(j)
  PROVE  QueueStep /\ ClosedInv' /\ OneInv'
<1>1. /\ Exists(j) /\ started' = started
      /\ ledger' = [ledger EXCEPT ![j] = Gone]
      /\ closed' = closed \cup {j}
  BY DEF PruneResult, RemoveJob, Exists, Underway, Ended, QueueTyped
<1>2. ledger'[j] = Gone /\ \A i \in Id \ {j} : ledger'[i] = ledger[i]
  BY <1>1 DEF QueueTyped
<1>3. JobsMove
  BY <1>1, <1>2 DEF JobsMove, Stays, Leaves
<1>4. ledger' \in [Id -> Entry \cup {None}]
  BY <1>1, StatesAreNotNone DEF QueueTyped
<1>5. ClosedInv'
  BY <1>1, <1>2, StatesAreNotNone DEF ClosedInv, QueueTyped
<1>6. OneInv'
  BY <1>2, StatesAreNotNone DEF OneInv
<1> QED BY <1>1, <1>3, <1>4, <1>5, <1>6 DEF QueueStep, QueueTyped

(* What each step makes of the jobs.                                       *)
LEMMA QueueSteps ==
  ASSUME QueueTyped, FilesTyped, LockTyped, LockInv, HandInv, ClosedInv, OneInv, ScheduleNext
  PROVE  QueueStep /\ ClosedInv' /\ OneInv'
<1>1. ASSUME UNCHANGED queueVars PROVE QueueStep /\ ClosedInv' /\ OneInv'
  <2>1. ClosedInv' /\ OneInv'
    BY <1>1 DEF queueVars, ClosedInv, OneInv
  <2> QED BY <1>1, <2>1, QueueRests
<1>2. ASSUME NEW b \in Book, EntryStep(b) PROVE UNCHANGED queueVars
  BY <1>2 DEF EntryStep, TickOutcome, TickMissed, TickDispatch, TickReplay, TickSkip, SavesEntry
<1>3. CASE HandOff
  <2>1. UNCHANGED queueVars \/ (Queue({tick.book}) /\ ~IsBusy(tick.book))
    BY <1>3, HandOffTurns
  <2>2. {tick.book} \in SUBSET Book
    BY <1>3 DEF HandOff, At, HandInv
  <2>3. CASE Queue({tick.book}) /\ ~IsBusy(tick.book)
    <3>1. PICK books \in SUBSET Book : books = {tick.book}
      BY <2>2
    <3> QED BY <2>3, <3>1, QueueGrows
  <2> QED BY <1>1, <2>1, <2>3
<1>4. CASE Record \/ BeginTick \/ NoSweep \/ MissSweep \/ ClaimSweep
  BY <1>1, <1>4 DEF Record, SavesEntry, BeginTick, NoSweep, MissSweep, ClaimSweep
<1>5. CASE (\E targets \in SUBSET Book : SelectBooks(targets)) \/ ReportSweep
  BY <1>1, <1>5 DEF SelectBooks, ReportSweep
<1>6. CASE QueueBooks
  <2>1. sweep \in SweepState
    BY <1>6 DEF QueueBooks, IsSweeping, LockTyped
  <2>2. PICK books \in SUBSET Book : books = {b \in sweep.books : ~IsBusy(b)}
    BY <2>1 DEF SweepState
  <2>3. CASE Queue(books)
    BY <2>2, <2>3, QueueGrows
  <2> QED BY <1>1, <1>6, <2>2, <2>3 DEF QueueBooks
<1>7. ASSUME NEW b \in Book, RequestSync(b) PROVE QueueStep /\ ClosedInv' /\ OneInv'
  <2>1. Queue({b}) /\ ~IsBusy(b)
    BY <1>7 DEF RequestSync
  <2> QED BY <2>1, QueueGrows
<1>8. CASE \E b \in Book : CancelSchedule(b) \/ \E at \in Time : ScheduleBook(b, at)
  BY <1>1, <1>8 DEF CancelSchedule, ScheduleBook, Edit
<1>9. CASE \E j \in Id : \/ \E outcome \in Outcome : FinishJob(j, outcome)
                         \/ PruneResult(j) \/ RemoveJob(j)
  BY <1>9, QueueEnds, QueueDrops
<1>10. CASE (\E on \in BOOLEAN, at \in LocalTime : SetSweep(on, at))
            \/ RunSweepNow \/ ChangeAddon \/ Advance \/ ScanLibrary \/ Crash
  BY <1>1, <1>10 DEF SetSweep, Edit, RunSweepNow, ChangeAddon, Advance, ScanLibrary, Crash
<1> QED BY <1>1, <1>2, <1>3, <1>4, <1>5, <1>6, <1>7, <1>8, <1>9, <1>10
        DEF ScheduleNext, TickStep, SweepStep, EntryStep

(* Every step on the queue is one of the ledger's.                         *)
LEMMA QueueKeepsLedger ==
  ASSUME QueueTyped, QueueStep, OneInv'
  PROVE  LedgerStep
<1>1. DOMAIN ledger' = Id /\ closed \subseteq closed'
  BY DEF QueueStep
<1>2. ASSUME NEW j \in Id PROVE ledger'[j] = ledger[j] \/ Accept(j) \/ End(j) \/ Forget(j) \/ Reread(j)
  <2>1. CASE Stays(j)
    BY <2>1 DEF Stays
  <2>2. CASE Starts(j)
    <3>1. \A i \in Id \ {j} : IsUnderway(ledger'[i]) => ledger'[i].book # ledger'[j].book
      BY <2>2 DEF Starts, OneInv
    <3> QED BY <2>2, <3>1 DEF Starts, Accept
  <2>3. CASE Stops(j)
    BY <2>3 DEF Stops, End
  <2>4. CASE Leaves(j)
    BY <2>4 DEF Leaves, Exists, Forget
  <2> QED BY <2>1, <2>2, <2>3, <2>4 DEF QueueStep, JobsMove
<1> QED BY <1>1, <1>2 DEF LedgerStep

-----------------------------------------------------------------------------
(* The entries.                                                            *)

\* What a step may make of one book's entry.
Same(b) == entries'[b] = entries[b] /\ begun'[b] = begun[b]
Resets(b) == entries'[b].status \in {"none", "scheduled"} /\ begun'[b] = {}
Marks(b) ==
  /\ entries[b].status # "none" /\ begun'[b] = begun[b]
  /\ entries'[b].runAt = entries[b].runAt
  /\ entries'[b].status \notin {"none", "scheduled"}
  /\ entries'[b].status = "dispatching" => entries'[b].runAt <= now
  /\ Linked(entries'[b])
  /\ entries'[b].status = "lost" => entries'[b].job \in excused
Begins(b) ==
  /\ entries'[b] = entries[b] /\ tick # None /\ tick.at = "handoff" /\ tick.book = b
  /\ \E j \in Fresh : /\ begun'[b] = begun[b] \cup {j}
                      /\ Starts(j) /\ ledger'[j].book = b

EntriesStep ==
  /\ entries' \in [Book -> Schedule]
  /\ begun' \in [Book -> SUBSET Id]
  /\ \A b \in Book : Same(b) \/ Resets(b) \/ Marks(b) \/ Begins(b)

(* A step that leaves the entries alone.                                   *)
LEMMA EntriesRest ==
  ASSUME QueueTyped, FilesTyped, entries' = entries, begun' = begun
  PROVE  EntriesStep
BY DEF EntriesStep, Same, QueueTyped, FilesTyped

(* One entry is marked, or not when its save failed.                       *)
LEMMA OneIsMarked ==
  ASSUME QueueTyped, FilesTyped, NEW b \in Book, NEW entry \in Schedule, begun' = begun,
         entries' \in {entries, [entries EXCEPT ![b] = entry]},
         entries[b].status # "none", entry.runAt = entries[b].runAt,
         entry.status \notin {"none", "scheduled"},
         entry.status = "dispatching" => entry.runAt <= now,
         Linked(entry),
         entry.status = "lost" => entry.job \in excused
  PROVE  EntriesStep
<1>1. CASE entries' = entries
  BY <1>1, EntriesRest
<1>2. CASE entries' = [entries EXCEPT ![b] = entry]
  <2>1. entries' \in [Book -> Schedule] /\ entries'[b] = entry
        /\ \A c \in Book \ {b} : entries'[c] = entries[c]
    BY <1>2 DEF FilesTyped
  <2>2. Marks(b)
    BY <2>1 DEF Marks
  <2> QED BY <2>1, <2>2 DEF EntriesStep, Same, QueueTyped
<1> QED BY <1>1, <1>2

(* Entries of jobs that ended are settled, the others are not touched.     *)
LEMMA ManyAreSettled ==
  ASSUME QueueTyped, FilesTyped, NEW ends \in SUBSET Id, NEW outcome,
         ends = {} \/ outcome \in Outcome, begun' = begun,
         entries' \in {entries, Recorded(entries, ends, outcome)}
  PROVE  EntriesStep
<1>1. CASE entries' = entries
  BY <1>1, EntriesRest
<1>2. CASE entries' = Recorded(entries, ends, outcome)
  <2>0. entries \in [Book -> Schedule]
    BY DEF FilesTyped
  <2>1. /\ entries' \in [Book -> Schedule]
        /\ \A b \in Book :
             \/ entries'[b] = entries[b]
             \/ /\ entries[b].status = "submitted" /\ entries'[b].status \in Outcome
                /\ entries'[b].runAt = entries[b].runAt
    BY <1>2, <2>0, RecordedSettles
  <2>2. \A b \in Book : Same(b) \/ Marks(b)
    BY <2>1 DEF Same, Marks, Linked, Outcome
  <2> QED BY <2>1, <2>2 DEF EntriesStep, QueueTyped
<1> QED BY <1>1, <1>2

(* What a step of the tick's through the entries makes of them.            *)
LEMMA EntryStepMarks ==
  ASSUME QueueTyped, FilesTyped, LockTyped, LockInv, LinkInv, NEW b \in Book, EntryStep(b)
  PROVE  EntriesStep
<1>0. tick # None /\ tick \in TickState /\ tick.now <= now /\ begun' = begun
  BY DEF EntryStep, TickOutcome, TickMissed, TickDispatch, TickReplay, TickSkip, IsNext, At,
         LockTyped, LockInv, historyVars
<1>1. CASE TickSkip(b) \/ TickReplay(b)
  BY <1>0, <1>1, EntriesRest DEF TickSkip, TickReplay, fileVars
<1>2. CASE TickOutcome(b)
  <2> DEFINE status == IF entries[b].job \in Ended THEN ledger[entries[b].job].status ELSE "lost"
  <2> DEFINE entry == [entries[b] EXCEPT !.status = status]
  <2>1. entries[b].status = "submitted" /\ entries[b].job \notin Underway
    BY <1>2 DEF TickOutcome, HasOutcome
  <2>2. status \in Outcome \cup {"lost"}
    BY DEF Ended, IsEnded
  <2>3. status = "lost" => entries[b].job \in excused
    <3>1. SUFFICES ASSUME entries[b].job \notin Ended PROVE entries[b].job \in excused
      BY <2>2 DEF Outcome, Ended, IsEnded
    <3> DEFINE j == entries[b].job
    <3>2. j \in Id /\ ledger[j] # None /\ (ledger[j] = Gone => j \in excused)
      BY <2>1 DEF LinkInv, Linked
    <3>3. ledger[j] \in Entry
      BY <3>2 DEF QueueTyped
    <3>4. ~IsUnderway(ledger[j]) /\ ~IsEnded(ledger[j])
      BY <2>1, <3>1, <3>2 DEF Underway, Ended
    <3>5. ledger[j] = Gone
      BY <3>2, <3>3, <3>4 DEF Entry, IsUnderway, IsEnded
    <3> QED BY <3>2, <3>5
  <2>4. /\ entry \in Schedule /\ entry.status = status /\ entry.runAt = entries[b].runAt
        /\ entry.job = entries[b].job
    BY <2>1, <2>2, EntryEdits DEF Settled
  <2>5. entries' \in {entries, [entries EXCEPT ![b] = entry]}
    BY <1>2 DEF TickOutcome, SavesEntry, FailsToSave
  <2>6. Linked(entry)
    BY <2>2, <2>4 DEF Linked, Outcome
  <2>7. entry.status \notin {"none", "scheduled", "dispatching"}
    BY <2>2, <2>4 DEF Outcome
  <2> HIDE DEF entry, status
  <2> QED BY <1>0, <2>1, <2>3, <2>4, <2>5, <2>6, <2>7, OneIsMarked
<1>3. CASE TickMissed(b)
  <2> DEFINE entry == [entries[b] EXCEPT !.status = "missed"]
  <2>1. entries[b].status = "scheduled"
    BY <1>3 DEF TickMissed, IsLate, IsDue
  <2>2. entry \in Schedule /\ entry.status = "missed" /\ entry.runAt = entries[b].runAt
    BY <2>1, EntryEdits DEF Settled
  <2>3. entries' \in {entries, [entries EXCEPT ![b] = entry]}
    BY <1>3 DEF TickMissed, SavesEntry, FailsToSave
  <2>4. Linked(entry)
    BY <2>2 DEF Linked
  <2> HIDE DEF entry
  <2> QED BY <1>0, <2>1, <2>2, <2>3, <2>4, OneIsMarked
<1>4. CASE TickDispatch(b)
  <2> DEFINE entry == [entries[b] EXCEPT !.status = "dispatching"]
  <2>1. entries[b].status = "scheduled" /\ tick.now >= entries[b].runAt
    BY <1>4 DEF TickDispatch, IsDue
  <2>2. /\ entry \in Schedule /\ entry.status = "dispatching" /\ entry.runAt = entries[b].runAt
        /\ entries[b].runAt \in Time
    BY <2>1, EntryEdits DEF Waiting
  <2>3. entry.runAt <= now
    BY <1>0, <2>1, <2>2, ScheduleAssumption DEF TickState, FilesTyped, Time
  <2>4. entries' \in {entries, [entries EXCEPT ![b] = entry]}
    BY <1>4 DEF TickDispatch, SavesEntry, FailsToSave
  <2>5. Linked(entry)
    BY <2>2 DEF Linked
  <2> HIDE DEF entry
  <2> QED BY <1>0, <2>1, <2>2, <2>3, <2>4, <2>5, OneIsMarked
<1> QED BY <1>1, <1>2, <1>3, <1>4 DEF EntryStep

(* What each step makes of the entries.                                    *)
LEMMA EntriesSteps ==
  ASSUME QueueTyped, FilesTyped, LockTyped, LockInv, HandInv, LinkInv, QueueStep, ScheduleNext
  PROVE  EntriesStep
<1>1. ASSUME NEW b \in Book, EntryStep(b) PROVE EntriesStep
  BY <1>1, EntryStepMarks
<1>2. CASE HandOff
  <2>1. PICK b \in Book : b = tick.book
    BY <1>2 DEF HandOff, At, HandInv
  <2>2. entries' = entries /\ tick # None /\ tick.at = "handoff"
    BY <1>2 DEF HandOff, At, fileVars
  <2>3. CASE begun' = begun
    BY <2>2, <2>3, EntriesRest
  <2>4. CASE \E j \in Fresh : /\ begun' = [begun EXCEPT ![b] = @ \cup {j}] /\ ledger'[j] # None
                              /\ Queue({b})
    <3>1. PICK j \in Fresh : /\ begun' = [begun EXCEPT ![b] = @ \cup {j}] /\ ledger'[j] # None
                             /\ Queue({b})
      BY <2>4
    <3>2. Queued({b})
      BY <3>1, QueueAdds
    <3>3. j \in Id /\ ledger[j] = None
      BY DEF Fresh
    <3>4. Starts(j) /\ ledger'[j].book = b
      BY <3>1, <3>2, <3>3 DEF Queued, Starts
    <3>5. /\ begun' \in [Book -> SUBSET Id] /\ begun'[b] = begun[b] \cup {j}
          /\ \A c \in Book \ {b} : begun'[c] = begun[c]
      BY <3>1, <3>3 DEF QueueTyped
    <3>6. Begins(b)
      BY <2>1, <2>2, <3>4, <3>5 DEF Begins
    <3> QED BY <2>2, <3>5, <3>6 DEF EntriesStep, Same, FilesTyped
  <2>5. \/ begun' = begun
        \/ \E j \in Fresh : /\ begun' = [begun EXCEPT ![b] = @ \cup {j}] /\ ledger'[j] # None
                            /\ Queue({b})
    BY <1>2, <2>1, HandOffTurns
  <2> QED BY <2>3, <2>4, <2>5
<1>3. CASE Record
  <2>1. tick # None /\ tick.at = "record" /\ tick \in TickState
    BY <1>3 DEF Record, At, LockTyped
  <2>2. PICK b \in Book : b = tick.book
    BY <2>1 DEF HandInv
  <2>3. PICK entry \in Schedule : entry = tick.result
    BY <2>1 DEF TickState
  <2>4. /\ entries[b].status = "dispatching" /\ entry.status \in {"submitted", "refused"}
        /\ entry.runAt = entries[b].runAt /\ Linked(entry)
    BY <2>1, <2>2, <2>3 DEF HandInv, LinkInv
  <2>5. entries' \in {entries, [entries EXCEPT ![b] = entry]} /\ begun' = begun
    BY <1>3, <2>2, <2>3 DEF Record, SavesEntry, FailsToSave, historyVars
  <2> QED BY <2>4, <2>5, OneIsMarked
<1>4. CASE \/ BeginTick \/ NoSweep \/ MissSweep \/ ClaimSweep
           \/ \E targets \in SUBSET Book : SelectBooks(targets)
           \/ QueueBooks \/ ReportSweep
  BY <1>4, EntriesRest DEF BeginTick, NoSweep, MissSweep, ClaimSweep, SelectBooks, QueueBooks,
                           ReportSweep, fileVars, historyVars
<1>5. CASE \E b \in Book : RequestSync(b)
  BY <1>5, EntriesRest DEF RequestSync, fileVars, historyVars
<1>6. ASSUME NEW b \in Book, CancelSchedule(b) \/ \E at \in Time : ScheduleBook(b, at)
      PROVE  EntriesStep
  <2>1. \E entry \in Schedule : /\ entry.status \in {"none", "scheduled"}
                                /\ entries' = [entries EXCEPT ![b] = entry]
                                /\ begun' = [begun EXCEPT ![b] = {}]
    <3>1. NoEntry \in Schedule /\ NoEntry.status = "none"
      BY DEF Schedule, NoEntry
    <3>2. \A at \in Time :
            LET new == [status |-> "scheduled", runAt |-> at, job |-> None]
            IN  new \in Schedule /\ new.status = "scheduled"
      BY DEF Schedule, Waiting
    <3>3. CASE CancelSchedule(b)
      BY <3>1, <3>3 DEF CancelSchedule
    <3>4. ASSUME NEW at \in Time, ScheduleBook(b, at)
          PROVE  \E entry \in Schedule : /\ entry.status \in {"none", "scheduled"}
                                         /\ entries' = [entries EXCEPT ![b] = entry]
                                         /\ begun' = [begun EXCEPT ![b] = {}]
      BY <3>2, <3>4 DEF ScheduleBook
    <3> QED BY <1>6, <3>3, <3>4
  <2>2. PICK entry \in Schedule : /\ entry.status \in {"none", "scheduled"}
                                  /\ entries' = [entries EXCEPT ![b] = entry]
                                  /\ begun' = [begun EXCEPT ![b] = {}]
    BY <2>1
  <2>3. /\ entries' \in [Book -> Schedule] /\ begun' \in [Book -> SUBSET Id]
        /\ entries'[b] = entry /\ begun'[b] = {}
        /\ \A c \in Book \ {b} : entries'[c] = entries[c] /\ begun'[c] = begun[c]
    BY <2>2 DEF FilesTyped, QueueTyped
  <2> QED BY <2>2, <2>3 DEF EntriesStep, Same, Resets
<1>7. ASSUME NEW j \in Id, NEW outcome \in Outcome, FinishJob(j, outcome) PROVE EntriesStep
  <2>1. entries' \in {entries, Recorded(entries, {j}, outcome)} /\ begun' = begun
    BY <1>7 DEF FinishJob, historyVars
  <2> QED BY <2>1, ManyAreSettled
<1>8. ASSUME NEW j \in Id, PruneResult(j) PROVE EntriesStep
  BY <1>8, EntriesRest DEF PruneResult, fileVars, historyVars
<1>9. ASSUME NEW j \in Id, RemoveJob(j) PROVE EntriesStep
  <2>1. entries' = Recorded(entries, {}, None) /\ begun' = begun
    BY <1>9 DEF RemoveJob, RecordedSoFar
  <2> QED BY <2>1, ManyAreSettled
<1>10. CASE Crash
  <2>1. /\ begun' = begun
        /\ \/ entries' \in {entries, Recorded(entries, {}, None)}
           \/ \E j \in Id, outcome \in Outcome : entries' = Recorded(entries, {j}, outcome)
    BY <1>10 DEF Crash, RecordedSoFar, historyVars, Underway
  <2>2. CASE entries' \in {entries, Recorded(entries, {}, None)}
    BY <2>1, <2>2, ManyAreSettled
  <2>3. ASSUME NEW j \in Id, NEW outcome \in Outcome, entries' = Recorded(entries, {j}, outcome)
        PROVE  EntriesStep
    BY <2>1, <2>3, ManyAreSettled
  <2> QED BY <2>1, <2>2, <2>3
<1>11. CASE (\E on \in BOOLEAN, at \in LocalTime : SetSweep(on, at))
            \/ RunSweepNow \/ ChangeAddon \/ Advance \/ ScanLibrary
  BY <1>11, EntriesRest DEF SetSweep, RunSweepNow, ChangeAddon, Advance, ScanLibrary, fileVars, historyVars
<1> QED BY <1>1, <1>2, <1>3, <1>4, <1>5, <1>6, <1>7, <1>8, <1>9, <1>10, <1>11
        DEF ScheduleNext, TickStep, SweepStep, EntryStep

(* What is gone stays gone, and what exists stays its book's or goes.      *)
LEMMA JobsLast ==
  ASSUME QueueStep, NEW j \in Id
  PROVE  /\ ledger[j] = Gone => ledger'[j] = Gone
         /\ ledger[j] # None => ledger'[j] # None
         /\ Exists(j) => \/ ledger'[j] = Gone
                         \/ /\ Exists(j)' /\ ledger'[j].book = ledger[j].book
                            /\ started'[j] = started[j]
         /\ ledger'[j] = Gone => ledger[j] = Gone \/ j \in closed'
<1>1. Stays(j) \/ Starts(j) \/ Stops(j) \/ Leaves(j)
  BY DEF QueueStep, JobsMove
<1>2. CASE Stays(j)
  BY <1>2 DEF Stays, Exists
<1>3. CASE Starts(j)
  BY <1>3, StatesAreNotNone DEF Starts, Exists, IsUnderway, IsEnded
<1>4. CASE Stops(j)
  BY <1>4, StatesAreNotNone DEF Stops, Exists
<1>5. CASE Leaves(j)
  BY <1>5, StatesAreNotNone DEF Leaves, Exists
<1> QED BY <1>1, <1>2, <1>3, <1>4, <1>5

(* A schedule's jobs stay its own, and all but one of them gone.           *)
LEMMA BegunKeeps ==
  ASSUME QueueTyped, FilesTyped, FilesTyped', BegunInv, HandInv, QueueStep, EntriesStep,
         now' = now \/ now' = now + 1
  PROVE  BegunInv'
<1> SUFFICES ASSUME NEW b \in Book
             PROVE  /\ entries'[b].status \in {"none", "scheduled"} => begun'[b] = {}
                    /\ entries'[b].status = "dispatching" => entries'[b].runAt <= now'
                    /\ \A j \in begun'[b] :
                         \/ ledger'[j] = Gone
                         \/ Exists(j)' /\ ledger'[j].book = b /\ started'[j] >= entries'[b].runAt
                    /\ \A i, j \in begun'[b] : ledger'[i] # Gone /\ ledger'[j] # Gone => i = j
  BY DEF BegunInv
<1>1. now \in Nat /\ \A j \in Id : started[j] \in Nat /\ started'[j] \in Nat
  BY ScheduleAssumption DEF QueueTyped, FilesTyped, QueueStep, Time
<1>2. entries[b].status \notin {"none"} => entries[b].runAt \in Nat
  BY EntryEdits, ScheduleAssumption DEF Time
<1>3. begun[b] \subseteq Id
  BY DEF QueueTyped
<1>4. ASSUME entries'[b].runAt = entries[b].runAt
      PROVE  /\ \A j \in begun[b] :
                  \/ ledger'[j] = Gone
                  \/ Exists(j)' /\ ledger'[j].book = b /\ started'[j] >= entries'[b].runAt
             /\ \A i, j \in begun[b] : ledger'[i] # Gone /\ ledger'[j] # Gone => i = j
  <2>1. \A j \in begun[b] : \/ ledger[j] = Gone
                            \/ Exists(j) /\ ledger[j].book = b /\ started[j] >= entries[b].runAt
    BY DEF BegunInv
  <2>2. \A j \in begun[b] : \/ ledger'[j] = Gone
                            \/ Exists(j)' /\ ledger'[j].book = b /\ started'[j] >= entries'[b].runAt
    BY <1>3, <1>4, <2>1, JobsLast
  <2>3. \A i, j \in begun[b] : ledger'[i] # Gone /\ ledger'[j] # Gone => i = j
    BY <1>3, JobsLast DEF BegunInv
  <2> QED BY <2>2, <2>3
<1>5. CASE Same(b)
  BY <1>1, <1>2, <1>4, <1>5 DEF Same, BegunInv
<1>6. CASE Resets(b)
  BY <1>6 DEF Resets
<1>7. CASE Marks(b)
  BY <1>1, <1>2, <1>4, <1>7 DEF Marks
<1>8. CASE Begins(b)
  <2>1. PICK k \in Fresh : begun'[b] = begun[b] \cup {k} /\ Starts(k) /\ ledger'[k].book = b
    BY <1>8 DEF Begins
  <2>2. entries'[b] = entries[b] /\ entries[b].status = "dispatching"
        /\ \A j \in begun[b] : ledger[j] = Gone
    BY <1>8 DEF Begins, HandInv
  <2>3. entries[b].runAt <= now /\ entries[b].runAt \in Nat
    BY <1>2, <2>2 DEF BegunInv
  <2>4. \A j \in begun[b] : ledger'[j] = Gone
    BY <1>3, <2>2, JobsLast
  <2>5. Exists(k)' /\ ledger'[k].book = b /\ started'[k] >= entries'[b].runAt
    BY <1>1, <2>1, <2>2, <2>3 DEF Starts, Exists
  <2>6. entries'[b].runAt <= now'
    BY <1>1, <2>2, <2>3
  <2> QED BY <2>1, <2>2, <2>4, <2>5, <2>6
<1> QED BY <1>5, <1>6, <1>7, <1>8 DEF EntriesStep

\* A job is closed with its outcome recorded, or it was withdrawn.
Settles ==
  /\ excused \subseteq excused'
  /\ \A j \in closed' \ closed :
       \/ j \in excused'
       \/ /\ tick' = None
          /\ \A b \in Book : ~(entries'[b].status = "submitted" /\ entries'[b].job = j)

(* Every step closes jobs so: outcomes are recorded before a result goes.  *)
LEMMA SettleSteps ==
  ASSUME QueueTyped, FilesTyped, LockTyped, LockInv, HandInv, ScheduleNext
  PROVE  Settles
<1>0. entries \in [Book -> Schedule]
  BY DEF FilesTyped
<1>1. ASSUME closed' = closed, excused \subseteq excused' PROVE Settles
  BY <1>1 DEF Settles
<1>2. ASSUME NEW b \in Book, EntryStep(b) PROVE Settles
  BY <1>1, <1>2 DEF EntryStep, TickOutcome, TickMissed, TickDispatch, TickReplay, TickSkip,
                    SavesEntry, queueVars, historyVars
<1>3. CASE HandOff
  <2>1. closed' = closed
    <3>1. UNCHANGED queueVars \/ Queue({tick.book})
      BY <1>3, HandOffTurns
    <3> QED BY <3>1 DEF queueVars, Queue
  <2> QED BY <1>1, <1>3, <2>1 DEF HandOff
<1>4. CASE Record \/ BeginTick \/ NoSweep \/ MissSweep \/ ClaimSweep
  BY <1>1, <1>4 DEF Record, SavesEntry, BeginTick, NoSweep, MissSweep, ClaimSweep, queueVars, historyVars
<1>5. CASE (\E targets \in SUBSET Book : SelectBooks(targets)) \/ ReportSweep
  BY <1>1, <1>5 DEF SelectBooks, ReportSweep, queueVars, historyVars
<1>6. CASE QueueBooks
  BY <1>1, <1>6 DEF QueueBooks, Queue, queueVars
<1>7. ASSUME NEW b \in Book, RequestSync(b) PROVE Settles
  BY <1>1, <1>7 DEF RequestSync, Queue, historyVars
<1>8. CASE \E b \in Book : CancelSchedule(b) \/ \E at \in Time : ScheduleBook(b, at)
  BY <1>1, <1>8 DEF CancelSchedule, ScheduleBook, Edit, queueVars
<1>9. ASSUME NEW j \in Id, NEW outcome \in Outcome, FinishJob(j, outcome) PROVE Settles
  <2>1. tick' = None /\ excused' = excused
    BY <1>9 DEF FinishJob, LockInv, lockVars, historyVars
  <2>2. \/ closed' = closed
        \/ /\ entries' = Recorded(entries, {j}, outcome)
           /\ closed' \ closed \subseteq Ended \cup {j}
    BY <1>9 DEF FinishJob
  <2>3. CASE /\ entries' = Recorded(entries, {j}, outcome)
             /\ closed' \ closed \subseteq Ended \cup {j}
    <3>1. \A b \in Book : \/ entries'[b].status \in Outcome
                          \/ /\ entries'[b] = entries[b]
                             /\ entries[b].status = "submitted" => entries[b].job \notin Ended \cup {j}
      BY <1>0, <2>3, RecordedSettles
    <3>2. \A b \in Book : entries'[b].status = "submitted" => entries'[b].job \notin Ended \cup {j}
      BY <3>1 DEF Outcome
    <3> QED BY <2>1, <2>3, <3>2 DEF Settles
  <2> QED BY <1>1, <2>1, <2>2, <2>3
<1>10. ASSUME NEW j \in Id, PruneResult(j) PROVE Settles
  BY <1>1, <1>10 DEF PruneResult, historyVars
<1>11. ASSUME NEW j \in Id, RemoveJob(j) PROVE Settles
  <2>1. /\ tick' = None /\ entries' = Recorded(entries, {}, None)
        /\ closed' = closed \cup {j} /\ excused \subseteq excused'
        /\ j \in Ended \/ j \in excused'
    BY <1>11 DEF RemoveJob, RecordedSoFar, LockInv, lockVars
  <2>2. \A b \in Book : \/ entries'[b].status \in Outcome
                        \/ /\ entries'[b] = entries[b]
                           /\ entries[b].status = "submitted" => entries[b].job \notin Ended
    BY <1>0, <2>1, RecordedSettles
  <2>3. \A b \in Book : entries'[b].status = "submitted" => entries'[b].job \notin Ended
    BY <2>2 DEF Outcome
  <2> QED BY <2>1, <2>3 DEF Settles
<1>12. CASE (\E on \in BOOLEAN, at \in LocalTime : SetSweep(on, at))
            \/ RunSweepNow \/ ChangeAddon \/ Advance \/ ScanLibrary \/ Crash
  BY <1>1, <1>12 DEF SetSweep, Edit, RunSweepNow, ChangeAddon, Advance, ScanLibrary, Crash,
                     queueVars, historyVars
<1> QED BY <1>2, <1>3, <1>4, <1>5, <1>6, <1>7, <1>8, <1>9, <1>10, <1>11, <1>12
        DEF ScheduleNext, TickStep, SweepStep, EntryStep

\* Linked, of an entry in the next state.
LinkedNext(entry) ==
  entry.status = "submitted" =>
    /\ entry.job \in Id
    /\ ledger'[entry.job] # None
    /\ ledger'[entry.job] = Gone \/ entry.job \in closed' => entry.job \in excused'

(* An entry that is linked stays so while its job is closed only as above. *)
LEMMA LinksLast ==
  ASSUME QueueTyped, QueueStep, Settles, NEW entry, Linked(entry),
         \/ tick' # None
         \/ \E b \in Book : entries'[b] = entry
  PROVE  LinkedNext(entry)
<1> SUFFICES ASSUME entry.status = "submitted"
             PROVE  /\ entry.job \in Id /\ ledger'[entry.job] # None
                    /\ ledger'[entry.job] = Gone \/ entry.job \in closed' => entry.job \in excused'
  BY DEF LinkedNext
<1> DEFINE j == entry.job
<1>1. /\ j \in Id /\ ledger[j] # None
      /\ ledger[j] = Gone \/ j \in closed => j \in excused
  BY DEF Linked
<1>2. ledger'[j] # None /\ (ledger'[j] = Gone => ledger[j] = Gone \/ j \in closed')
  BY <1>1, JobsLast
<1>3. j \in closed' \ closed => j \in excused'
  BY DEF Settles
<1> QED BY <1>1, <1>2, <1>3 DEF Settles

\* What a step makes of an entry in the tick's hands.
TickStays == tick' = tick /\ (tick # None => entries' = entries /\ begun' = begun)
TickRests == tick' = None \/ (tick' # None /\ tick'.at \in {"entries", "sweep"})
TickHands ==
  \E b \in Book : /\ Hands(b) /\ entries'[b].status = "dispatching"
                  /\ \A j \in begun'[b] : ledger'[j] = Gone
TickKeeps ==
  \E b \in Book : \E result \in Schedule :
    /\ Keeps(b, result) /\ entries'[b].status = "dispatching"
    /\ result.status \in {"submitted", "refused"} /\ result.runAt = entries'[b].runAt
    /\ LinkedNext(result)

(* A step leaves what the tick holds alone, ends it, or hands on an entry  *)
(* that is marked, with a result that is linked.                           *)
LEMMA TickSteps ==
  ASSUME QueueTyped, FilesTyped, LockTyped, LockInv, BegunInv, HandInv, ClosedInv, LinkInv,
         QueueStep, ClosedInv', ScheduleNext
  PROVE  TickStays \/ TickRests \/ TickHands \/ TickKeeps
<1>1. ASSUME NEW b \in Book, EntryStep(b) PROVE TickStays \/ TickRests \/ TickHands \/ TickKeeps
  <2>1. tick # None /\ tick.at = "entries"
    BY <1>1 DEF EntryStep, TickOutcome, TickMissed, TickDispatch, TickReplay, TickSkip, IsNext, At
  <2>2. /\ GoesOn(b) => Goes
        /\ HandsOff(b) => Hands(b)
        /\ \A result \in Schedule : Holds(b, result) => Keeps(b, result)
    BY <2>1, TickGoesOn
  <2>3. CASE TickSkip(b) \/ TickOutcome(b) \/ TickMissed(b)
    <3>1. Goes \/ Releases
      BY <2>2, <2>3 DEF TickSkip, TickOutcome, TickMissed, SavesEntry, FailsToSave
    <3> QED BY <3>1 DEF Goes, Releases, TickRests
  <2>4. CASE TickDispatch(b)
    <3>1. \/ Releases
          \/ Hands(b) /\ entries' = [entries EXCEPT ![b] = [entries[b] EXCEPT !.status = "dispatching"]]
      BY <2>2, <2>4 DEF TickDispatch, SavesEntry, FailsToSave
    <3>2. entries[b].status = "scheduled" /\ begun'[b] = {}
      BY <2>4 DEF TickDispatch, IsDue, BegunInv, historyVars
    <3>3. [entries[b] EXCEPT !.status = "dispatching"].status = "dispatching"
      BY <3>2, EntryEdits DEF Waiting
    <3>4. CASE Releases
      BY <3>4 DEF Releases, TickRests
    <3>5. CASE Hands(b) /\ entries' = [entries EXCEPT ![b] = [entries[b] EXCEPT !.status = "dispatching"]]
      BY <3>2, <3>3, <3>5 DEF TickHands, FilesTyped
    <3> QED BY <3>1, <3>4, <3>5
  <2>5. CASE TickReplay(b)
    <3>1. entries[b].status = "dispatching" /\ entries' = entries /\ begun' = begun /\ ledger' = ledger
          /\ closed' = closed
      BY <2>5 DEF TickReplay, IsInterrupted, queueVars, fileVars
    <3>2. CASE Existing(b) = {} /\ HandsOff(b)
      <4>1. \A j \in begun[b] : ledger[j] = Gone
        <5> SUFFICES ASSUME NEW j \in begun[b], ledger[j] # Gone PROVE FALSE
          OBVIOUS
        <5>1. j \in Id /\ Exists(j) /\ ledger[j].book = b /\ started[j] >= entries[b].runAt
          BY DEF BegunInv, QueueTyped
        <5>2. j \in Existing(b)
          BY <5>1 DEF Existing, JobsOf, Underway, Ended, Exists
        <5> QED BY <3>2, <5>2
      <4> QED BY <2>2, <3>1, <3>2, <4>1 DEF TickHands
    <3>3. CASE /\ Existing(b) # {}
               /\ Holds(b, Submitted(b, Max(Existing(b))))
               /\ excused' = excused \cup (Ended \cap {Max(Existing(b))})
      <4>1. PICK j \in Existing(b) : j = Max(Existing(b))
        BY <3>3, ExistingHasLast
      <4>2. j \in Id /\ Exists(j)
        BY DEF Existing, JobsOf, Underway, Ended, Exists
      <4> DEFINE result == Submitted(b, j)
      <4>3. /\ result \in Schedule /\ result.status = "submitted"
            /\ result.runAt = entries[b].runAt /\ result.job = j
        BY <3>1, <4>2, EntryEdits
      <4>4. Keeps(b, result)
        BY <2>2, <3>3, <4>1, <4>3
      <4>5. ledger[j] # None /\ ledger[j] # Gone /\ (j \in closed => j \in Ended)
        BY <4>2, StatesAreNotNone DEF Exists, IsUnderway, IsEnded, ClosedInv, Ended
      <4> HIDE DEF result
      <4>6. LinkedNext(result)
        BY <3>1, <3>3, <4>1, <4>2, <4>3, <4>5 DEF LinkedNext
      <4> QED BY <3>1, <4>3, <4>4, <4>6 DEF TickKeeps
    <3> QED BY <2>5, <3>2, <3>3 DEF TickReplay
  <2> QED BY <1>1, <2>3, <2>4, <2>5 DEF EntryStep
<1>2. CASE HandOff
  <2>1. PICK b \in Book : b = tick.book
    BY <1>2 DEF HandOff, At, HandInv
  <2>2. entries' = entries /\ entries[b].status = "dispatching"
    BY <1>2, <2>1 DEF HandOff, At, HandInv, fileVars
  <2>3. PICK result \in Schedule :
          /\ Keeps(b, result) /\ result.runAt = entries[b].runAt
          /\ \/ result.status = "refused"
             \/ /\ result.status = "submitted" /\ result.job \in Underway
                /\ UNCHANGED <<queueVars, begun>>
             \/ /\ result.status = "submitted" /\ Queue({b})
                /\ result.job \in Fresh /\ ledger'[result.job] # None
    BY <1>2, <2>1, HandOffTurns
  <2>4. CASE result.status = "refused"
    <3>1. LinkedNext(result)
      BY <2>4 DEF LinkedNext
    <3> QED BY <2>2, <2>3, <2>4, <3>1 DEF TickKeeps
  <2>5. CASE result.status = "submitted" /\ result.job \in Underway /\ UNCHANGED <<queueVars, begun>>
    <3>1. result.job \in Id /\ IsUnderway(ledger[result.job]) /\ ledger' = ledger /\ closed' = closed
      BY <2>5 DEF Underway, queueVars
    <3>2. LinkedNext(result)
      BY <3>1, StatesAreNotNone DEF LinkedNext, ClosedInv, IsUnderway
    <3> QED BY <2>2, <2>3, <2>5, <3>2 DEF TickKeeps
  <2>6. CASE /\ result.status = "submitted" /\ Queue({b})
             /\ result.job \in Fresh /\ ledger'[result.job] # None
    <3>1. result.job \in Id /\ ledger[result.job] = None
      BY <2>6 DEF Fresh
    <3>2. IsUnderway(ledger'[result.job])
      BY <2>6, <3>1, QueueAdds DEF Queued
    <3>3. LinkedNext(result)
      BY <3>1, <3>2, StatesAreNotNone DEF LinkedNext, ClosedInv, IsUnderway
    <3> QED BY <2>2, <2>3, <2>6, <3>3 DEF TickKeeps
  <2> QED BY <2>3, <2>4, <2>5, <2>6
<1>3. CASE Record
  <2>1. PICK b \in Book : b = tick.book
    BY <1>3 DEF Record, At, HandInv
  <2>2. tick # None /\ tick.at = "record"
    BY <1>3 DEF Record, At
  <2>3. GoesOn(b) => Goes
    BY <2>2, TickGoesOn
  <2>4. Goes \/ Releases
    BY <1>3, <2>1, <2>3 DEF Record, SavesEntry, FailsToSave
  <2> QED BY <2>4 DEF Goes, Releases, TickRests
<1>4. CASE BeginTick
  <2> DEFINE new == [at |-> "entries", now |-> now, ready |-> ready, book |-> None,
                     left |-> {b \in Book : entries[b] # NoEntry}, result |-> NoEntry]
  <2>1. tick' = new /\ new.at = "entries"
    BY <1>4 DEF BeginTick
  <2> HIDE DEF new
  <2> QED BY <2>1 DEF TickRests
<1>5. CASE NoSweep \/ MissSweep \/ ReportSweep \/ Crash
  BY <1>5 DEF NoSweep, MissSweep, ReportSweep, Crash, FailsToSave, Releases, TickRests
<1>6. CASE ClaimSweep
  <2>1. Releases \/ tick' = [tick EXCEPT !.at = "sweep"]
    BY <1>6 DEF ClaimSweep, BeginsSweep, FailsToSave
  <2>2. tick \in TickState
    BY <1>6 DEF ClaimSweep, SlotIsDue, At, LockTyped
  <2>3. [tick EXCEPT !.at = "sweep"].at = "sweep"
    BY <2>2 DEF TickState
  <2> QED BY <2>1, <2>3 DEF Releases, TickRests
<1>7. CASE (\E targets \in SUBSET Book : SelectBooks(targets)) \/ QueueBooks
  <2>1. tick' = tick /\ (tick # None => tick.at = "sweep")
    BY <1>7 DEF SelectBooks, QueueBooks, IsSweeping, LockInv
  <2> QED BY <2>1 DEF TickRests
<1>8. CASE \E b \in Book : RequestSync(b)
  BY <1>8 DEF RequestSync, TickStays, lockVars, fileVars, historyVars
<1>9. CASE \E b \in Book : CancelSchedule(b) \/ \E at \in Time : ScheduleBook(b, at)
  BY <1>9 DEF CancelSchedule, ScheduleBook, Edit, TickStays, lockVars, LockInv
<1>10. CASE \E j \in Id : \/ \E outcome \in Outcome : FinishJob(j, outcome)
                          \/ PruneResult(j) \/ RemoveJob(j)
  BY <1>10 DEF FinishJob, PruneResult, RemoveJob, TickStays, lockVars, fileVars, historyVars, LockInv
<1>11. CASE (\E on \in BOOLEAN, at \in LocalTime : SetSweep(on, at))
            \/ RunSweepNow \/ ChangeAddon \/ Advance \/ ScanLibrary
  BY <1>11 DEF SetSweep, Edit, RunSweepNow, ChangeAddon, Advance, ScanLibrary, TickStays,
               lockVars, fileVars, historyVars, LockInv
<1> QED BY <1>1, <1>2, <1>3, <1>4, <1>5, <1>6, <1>7, <1>8, <1>9, <1>10, <1>11
        DEF ScheduleNext, TickStep, SweepStep, EntryStep

(* What the tick hands off stays marked and linked.                        *)
LEMMA HandKeeps ==
  ASSUME QueueTyped, HandInv, LinkInv, QueueStep, EntriesStep, Settles,
         TickStays \/ TickRests \/ TickHands \/ TickKeeps
  PROVE  HandInv' /\ LinkInv'
<1>1. ASSUME NEW b \in Book PROVE LinkedNext(entries'[b])
  <2>1. CASE Same(b) \/ Begins(b) \/ Marks(b)
    <3>1. PICK entry : entry = entries'[b]
      OBVIOUS
    <3>2. Linked(entry)
      BY <2>1, <3>1 DEF Same, Begins, Marks, LinkInv
    <3>3. LinkedNext(entry)
      BY <3>1, <3>2, LinksLast
    <3> QED BY <3>1, <3>3 DEF LinkedNext
  <2>2. CASE Resets(b)
    BY <2>2 DEF Resets, LinkedNext
  <2> QED BY <2>1, <2>2 DEF EntriesStep
<1>2. CASE TickStays
  <2>1. HandInv'
    <3>1. CASE tick = None
      BY <1>2, <3>1 DEF TickStays, HandInv
    <3>2. CASE tick # None
      <4>1. tick.at = "handoff" => \A j \in begun[tick.book] : ledger'[j] = Gone
        BY <3>2, JobsLast DEF HandInv, QueueTyped
      <4> QED BY <1>2, <3>2, <4>1 DEF TickStays, HandInv
    <3> QED BY <3>1, <3>2
  <2>2. tick' # None /\ tick'.at = "record" => LinkedNext(tick'.result)
    <3> SUFFICES ASSUME tick' # None, tick'.at = "record" PROVE LinkedNext(tick'.result)
      OBVIOUS
    <3>1. PICK entry : entry = tick.result
      OBVIOUS
    <3>2. Linked(entry)
      BY <1>2, <3>1 DEF TickStays, LinkInv
    <3>3. LinkedNext(entry)
      BY <3>2, LinksLast
    <3> QED BY <1>2, <3>1, <3>3 DEF TickStays, LinkedNext
  <2> QED BY <1>1, <2>1, <2>2 DEF LinkInv, Linked, LinkedNext
<1>3. CASE TickRests
  BY <1>1, <1>3 DEF TickRests, HandInv, LinkInv, Linked, LinkedNext
<1>4. CASE TickHands
  BY <1>1, <1>4 DEF TickHands, Hands, HandInv, LinkInv, Linked, LinkedNext
<1>5. CASE TickKeeps
  <2>1. PICK b \in Book, result \in Schedule :
          /\ Keeps(b, result) /\ entries'[b].status = "dispatching"
          /\ result.status \in {"submitted", "refused"} /\ result.runAt = entries'[b].runAt
          /\ LinkedNext(result)
    BY <1>5 DEF TickKeeps
  <2>2. tick'.at = "record" /\ tick'.book = b /\ tick'.result = result
    BY <2>1 DEF Keeps
  <2>3. HandInv'
    BY <2>1, <2>2 DEF HandInv
  <2>4. LinkedNext(tick'.result)
    BY <2>1, <2>2 DEF LinkedNext
  <2> QED BY <1>1, <2>3, <2>4 DEF LinkInv, Linked, LinkedNext
<1> QED BY <1>2, <1>3, <1>4, <1>5

(* A result is reported lost only of a job nobody recorded in time.        *)
LEMMA LostKeeps ==
  ASSUME OutcomesAreKept, EntriesStep, excused \subseteq excused'
  PROVE  OutcomesAreKept'
BY DEF OutcomesAreKept, EntriesStep, Same, Resets, Marks, Begins

-----------------------------------------------------------------------------
(* The invariant.                                                          *)

(* Nothing is scheduled at the start.                                      *)
LEMMA ScheduleStarts == ScheduleInit => ScheduleInv
<1> SUFFICES ASSUME ScheduleInit PROVE ScheduleInv
  OBVIOUS
<1>1. 0 \in Time
  BY ScheduleAssumption DEF Time
<1>2. QueueTyped
  BY <1>1 DEF ScheduleInit, LedgerInit, QueueTyped
<1>3. ASSUME NEW no \in BOOLEAN, no = FALSE, NEW new, new = [on |-> no, at |-> None, next |-> 0, ran |-> None, queued |-> None]
      PROVE  new \in Rule /\ ~new.on /\ new.queued = None
  BY <1>3 DEF Rule
<1>4. rule \in Rule /\ ~rule.on /\ rule.queued = None
  BY <1>3 DEF ScheduleInit
<1>5. FilesTyped
  BY <1>1, <1>4 DEF ScheduleInit, FilesTyped, Schedule
<1>6. LockTyped /\ LockInv
  BY DEF ScheduleInit, LockTyped, LockInv
<1>7. BegunInv /\ HandInv /\ ClosedInv /\ LinkInv /\ OutcomesAreKept
  BY DEF ScheduleInit, LedgerInit, BegunInv, HandInv, ClosedInv, LinkInv, Linked, OutcomesAreKept, NoEntry
<1>8. NightInv /\ ReportInv /\ ReportsAreOwn
  BY <1>4 DEF ScheduleInit, NightInv, ReportInv, ReportsAreOwn
<1>9. OneInv
  BY DEF ScheduleInit, LedgerInit, OneInv, IsUnderway
<1> QED BY <1>2, <1>5, <1>6, <1>7, <1>8, <1>9 DEF ScheduleInv

(* Every step keeps the invariant, and is one the ledger allows or none of *)
(* its own.                                                                *)
LEMMA ScheduleSteps ==
  ScheduleInv /\ [ScheduleNext]_scheduleVars => ScheduleInv' /\ (LedgerStep \/ UNCHANGED <<ledger, closed>>)
<1> SUFFICES ASSUME ScheduleInv, [ScheduleNext]_scheduleVars
             PROVE  ScheduleInv' /\ (LedgerStep \/ UNCHANGED <<ledger, closed>>)
  OBVIOUS
<1> USE DEF ScheduleInv
<1>1. CASE ScheduleNext
  <2>1. LockTyped' /\ LockInv'
    BY <1>1, LockKeeps
  <2>2. RuleStep
    BY <1>1, RuleSteps
  <2>3. now' \in Time /\ (now' = now \/ now' = now + 1)
    BY <1>1, ClockSteps
  <2>4. NightInv' /\ swept' \in [Time -> Nat]
    BY <2>2, <2>3, NightKeeps
  <2>5. ReportInv' /\ ReportsAreOwn'
    BY <1>1, ReportKeeps
  <2>6. QueueStep /\ ClosedInv' /\ OneInv'
    BY <1>1, QueueSteps
  <2>7. EntriesStep
    BY <1>1, <2>6, EntriesSteps
  <2>8. QueueTyped'
    BY <2>6, <2>7 DEF QueueTyped, QueueStep, EntriesStep
  <2>9. FilesTyped'
    BY <2>2, <2>3, <2>4, <2>7 DEF FilesTyped, RuleStep, EntriesStep
  <2>10. BegunInv'
    BY <2>3, <2>6, <2>7, <2>9, BegunKeeps
  <2>11. Settles
    BY <1>1, SettleSteps
  <2>12. TickStays \/ TickRests \/ TickHands \/ TickKeeps
    BY <1>1, <2>6, TickSteps
  <2>13. HandInv' /\ LinkInv'
    BY <2>6, <2>7, <2>11, <2>12, HandKeeps
  <2>14. OutcomesAreKept'
    BY <2>7, <2>11, LostKeeps DEF Settles
  <2>15. LedgerStep
    BY <2>6, QueueKeepsLedger
  <2> QED BY <2>1, <2>4, <2>5, <2>6, <2>8, <2>9, <2>10, <2>13, <2>14, <2>15
<1>2. CASE UNCHANGED scheduleVars
  <2> USE <1>2 DEF scheduleVars, queueVars, fileVars, lockVars, worldVars, boundVars, historyVars
  <2>1. QueueTyped' /\ FilesTyped'
    BY DEF QueueTyped, FilesTyped
  <2>2. LockTyped' /\ LockInv'
    BY DEF LockTyped, LockInv
  <2>3. BegunInv' /\ HandInv'
    BY DEF BegunInv, HandInv, Exists
  <2>4. ClosedInv' /\ LinkInv' /\ OutcomesAreKept'
    BY DEF ClosedInv, LinkInv, Linked, OutcomesAreKept
  <2>5. NightInv' /\ ReportInv' /\ ReportsAreOwn' /\ OneInv'
    BY DEF NightInv, ReportInv, ReportsAreOwn, OneInv
  <2> QED BY <2>1, <2>2, <2>3, <2>4, <2>5
<1> QED BY <1>1, <1>2

(* The invariant holds of every schedule.                                  *)
THEOREM ScheduleIsSound == ScheduleSpec => []ScheduleInv
<1>1. ScheduleInv /\ [ScheduleNext]_scheduleVars => ScheduleInv'
  BY ScheduleSteps
<1> QED BY ScheduleStarts, <1>1, PTL DEF ScheduleSpec

(* A schedule starts its book once and a night is swept once, wherever the *)
(* server stopped between marking the start, queueing the job and saving   *)
(* which it was (tick, tick_sweep).                                        *)
THEOREM SchedulesStartOnce == ScheduleSpec => []AtMostOnce
<1>1. ScheduleInv => AtMostOnce
  <2> SUFFICES ASSUME ScheduleInv PROVE AtMostOnce
    OBVIOUS
  <2>1. ASSUME NEW b \in Book PROVE Cardinality({j \in begun[b] : ledger[j] # Gone}) <= 1
    <3> DEFINE left == {j \in begun[b] : ledger[j] # Gone}
    <3>1. CASE left = {}
      BY <3>1, FS_EmptySet
    <3>2. CASE left # {}
      <4>1. PICK k \in left : TRUE
        BY <3>2
      <4>2. left = {k}
        BY <4>1 DEF ScheduleInv, BegunInv
      <4>3. Cardinality({k}) = 1
        BY FS_Singleton
      <4>4. Cardinality(left) = 1
        BY <4>2, <4>3, Zenon
      <4> QED BY <4>4
    <3> QED BY <3>1, <3>2
  <2> QED BY <2>1 DEF AtMostOnce, OncePerSchedule, NightlyOnce, ScheduleInv, NightInv
<1> QED BY ScheduleIsSound, <1>1, PTL

(* What a schedule and the rule show is what became of their own starts    *)
(* (save_finished_results, tick_sweep).                                    *)
THEOREM SchedulesTellTheTruth == ScheduleSpec => []ResultsAreTrue
<1>1. ScheduleInv => ResultsAreTrue
  BY DEF ScheduleInv, ResultsAreTrue
<1> QED BY ScheduleIsSound, <1>1, PTL

(* The queue as the schedules use it is one of those SyncLedger allows, so *)
(* what SyncQueueProofs shows of the read-along queue is all they rest on. *)
THEOREM SchedulesKeepTheLedger == ScheduleSpec => LedgerSpec
<1>1. ScheduleInit => LedgerInit
  BY DEF ScheduleInit
<1>2. ScheduleInv /\ [ScheduleNext]_scheduleVars => [LedgerStep]_<<ledger, closed>>
  BY ScheduleSteps
<1> QED BY ScheduleIsSound, <1>1, <1>2, PTL DEF ScheduleSpec, LedgerSpec
=============================================================================
