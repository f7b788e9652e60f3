---------------------------- MODULE SyncSchedule ----------------------------
(***************************************************************************)
(* The read-along schedules of sync_schedule.rs: one-time starts of a book *)
(* and the nightly sweep, handed to a queue of which only SyncLedger's     *)
(* promise is used.                                                        *)
(*                                                                         *)
(* Everything here holds sync_schedule_lock, and so do the recording of a  *)
(* job's outcome and its removal.  The lock is kept over several saves and *)
(* calls of the queue, each of which is an action: other requests may      *)
(* queue books in between, a save may fail (before or after the file was   *)
(* replaced) and the process may end.  The clock never goes back.          *)
(***************************************************************************)
EXTENDS SyncLedger, Integers, FiniteSets, FiniteSetsExt, Functions

CONSTANTS
  MaxTime,     \* model bound: the last reading of the clock
  Day,         \* readings per local date
  Lateness,    \* MAX_LATENESS_MS
  LocalTime,   \* what the nightly rule may be set to: readings into a date
  Limit,       \* books_per_night
  MaxRequests, \* model bound: what administrators ask for
  MaxFaults    \* model bound: failed saves, refusals and crashes

ASSUME ScheduleAssumption ==
  /\ {MaxTime, Lateness, Limit, MaxRequests, MaxFaults} \subseteq Nat
  /\ Day \in Nat \ {0}
  /\ LocalTime \subseteq 0 .. Day - 1
  /\ IsFiniteSet(Book) /\ IsFiniteSet(Id) /\ Id \subseteq Nat

VARIABLES
  now,      \* unix_now_millis
  entries,  \* sync-schedules.json: the latest schedule of each book
  rule,     \* sync-sweep.json
  started,  \* per job, when it was created
  ready,    \* catalogue_ready
  enabled,  \* the sync add-on is installed
  holder,   \* who holds sync_schedule_lock: nobody, the tick or a manual sweep
  tick,     \* how far the tick is through the entries it loaded
  sweep,    \* how far a sweep is
  requests, faults,
  \* History, read by the properties only:
  begun,    \* per book, the jobs its present schedule created
  swept,    \* how often a sweep was begun for each nightly slot
  counts,   \* what each sweep queued, with the time it ran
  excused   \* jobs withdrawn before they ended, or handed to a schedule after

queueVars == <<ledger, closed, started>>
fileVars == <<entries, rule>>
lockVars == <<holder, tick, sweep>>
worldVars == <<now, ready, enabled>>
boundVars == <<requests, faults>>
historyVars == <<begun, swept, counts, excused>>
scheduleVars == <<queueVars, fileVars, lockVars, worldVars, boundVars, historyVars>>

Time == 0 .. MaxTime
Waiting == {"scheduled", "dispatching", "submitted"}
\* "lost": failed because the job's result is no longer available.
Settled == {"missed", "refused", "lost"} \cup Outcome
NoEntry == [status |-> "none"]
Schedule ==
  {NoEntry} \cup [status : Waiting \cup Settled, runAt : Time, job : Id \cup {None}]

\* What a tick and a sweep remember while they hold the lock.
TickState ==
  [at : {"entries", "handoff", "record", "sweep"}, now : Time, ready : BOOLEAN,
   book : Book \cup {None}, left : SUBSET Book, result : Schedule]
SweepState ==
  [at : {"select", "queue", "report"}, limit : Nat, books : SUBSET Book, queued : Nat]

ASSUME NoneAssumption == None \notin Entry \cup TickState \cup SweepState \cup Nat

ScheduleInit ==
  /\ LedgerInit
  /\ now = 0
  /\ entries = [b \in Book |-> NoEntry]
  /\ rule = [on |-> FALSE, at |-> None, next |-> 0, ran |-> None, queued |-> None]
  /\ started = [j \in Id |-> 0]
  /\ ready = FALSE /\ enabled = TRUE
  /\ holder = "nobody" /\ tick = None /\ sweep = None
  /\ requests = 0 /\ faults = 0
  /\ begun = [b \in Book |-> {}]
  /\ swept = [slot \in Time |-> 0]
  /\ counts = {} /\ excused = {}

-----------------------------------------------------------------------------
(* The queue, as far as schedules see it.                                  *)

Underway == {j \in Id : IsUnderway(ledger[j])}
Ended == {j \in Id : IsEnded(ledger[j])}
JobsOf(b) == {j \in Underway \cup Ended : ledger[j].book = b}
IsBusy(b) == \E j \in Underway : ledger[j].book = b
Fresh == {j \in Id : ledger[j] = None}

\* Each of the books gets a job; identifiers are in order of creation.
Queue(books) ==
  \E jobs \in kSubset(Cardinality(books), Fresh) :
    /\ \A j \in jobs : \A i \in Fresh \ jobs : j < i
    /\ \E bookOf \in Bijection(jobs, books) :
         ledger' = [j \in Id |->
                      IF j \in jobs THEN [book |-> bookOf[j], status |-> "unfinished"]
                      ELSE ledger[j]]
    /\ started' = [j \in Id |-> IF j \in jobs THEN now ELSE started[j]]
    /\ UNCHANGED closed

Ask == requests < MaxRequests /\ requests' = requests + 1 /\ UNCHANGED faults
Fault == faults < MaxFaults /\ faults' = faults + 1 /\ UNCHANGED requests
Freely == UNCHANGED boundVars

\* A queue out of identifiers, a model bound, refuses.
Refuses(books) ==
  IF enabled /\ Cardinality(books) <= Cardinality(Fresh) THEN Fault ELSE Freely

\* A request from elsewhere for a sync of one book.
RequestSync(b) ==
  /\ Ask
  /\ ~IsBusy(b)
  /\ Queue({b})
  /\ UNCHANGED <<fileVars, lockVars, worldVars, historyVars>>

\* Mutant of Recorded: outcomes are left to the next tick.
RecordedLater(file, ends, outcome) == file

\* save_finished_results, while the jobs in ends come to the outcome.
Recorded(file, ends, outcome) ==
  [b \in Book |->
     IF file[b].status = "submitted" /\ file[b].job \in Ended \cup ends
     THEN [file[b] EXCEPT !.status = IF file[b].job \in ends THEN outcome
                                     ELSE ledger[file[b].job].status]
     ELSE file[b]]

RecordedSoFar == Recorded(entries, {}, None)

\* update_job_finished: the result displaces the older ones of its book, but
\* only when the outcomes could be saved.
FinishJob(j, outcome) ==
  LET result == [ledger[j] EXCEPT !.status = outcome]
      older  == JobsOf(ledger[j].book) \cap Ended
  IN  /\ holder = "nobody"
      /\ j \in Underway
      /\ \/ /\ entries' = Recorded(entries, {j}, outcome)
            /\ ledger' = [i \in Id |-> IF i = j THEN result
                                       ELSE IF i \in older THEN Gone ELSE ledger[i]]
            /\ closed' = closed \cup older \cup {j}
            /\ Freely
         \/ /\ Fault
            /\ entries' \in {entries, Recorded(entries, {j}, outcome)}
            /\ ledger' = [ledger EXCEPT ![j] = result]
            /\ UNCHANGED closed
      /\ UNCHANGED <<started, rule, lockVars, worldVars, historyVars>>

\* Other jobs fill the table: a recorded result may be pruned at any time.
PruneResult(j) ==
  /\ j \in Ended \cap closed
  /\ ledger' = [ledger EXCEPT ![j] = Gone]
  /\ UNCHANGED <<closed, started, fileVars, lockVars, worldVars, boundVars, historyVars>>

\* remove_sync_job
RemoveJob(j) ==
  /\ Ask
  /\ holder = "nobody"
  /\ j \in Underway \cup Ended
  /\ entries' = RecordedSoFar
  /\ ledger' = [ledger EXCEPT ![j] = Gone]
  /\ closed' = closed \cup {j}
  /\ excused' = IF j \in Underway THEN excused \cup {j} ELSE excused
  /\ UNCHANGED <<started, rule, lockVars, worldVars, begun, swept, counts>>

-----------------------------------------------------------------------------
(* The nightly rule's calendar.                                            *)

DateOf(t) == t \div Day
Occurrence(at, date) == date * Day + at
FirstAfter(at, dates, t) == Min({Occurrence(at, date) : date \in dates} \ (0 .. t))

\* next_occurrence
NextOccurrence(at, t) == FirstAfter(at, DateOf(t) .. DateOf(t) + 2, t)

\* advance_occurrence: not again on the date that was due.
AdvancedOccurrence(at, due, t) ==
  LET first == Max({DateOf(due) + 1, DateOf(t)})
  IN  FirstAfter(at, {first, first + 1}, t)

-----------------------------------------------------------------------------
(* What administrators ask for.  A handler whose save fails has either     *)
(* done its work or not, and holds the lock for that one save.             *)

Edit == Ask /\ holder = "nobody" /\ UNCHANGED <<queueVars, lockVars, worldVars>>

\* schedule: the time and the add-on are checked before the lock is held, when the
\* clock may have shown less and the add-on was there.
ScheduleBook(b, at) ==
  /\ Edit
  /\ \E asked \in Time : asked <= now /\ at > asked
  /\ ~IsBusy(b)
  /\ entries' = [entries EXCEPT ![b] = [status |-> "scheduled", runAt |-> at, job |-> None]]
  /\ begun' = [begun EXCEPT ![b] = {}]
  /\ UNCHANGED <<rule, swept, counts, excused>>

\* cancel
CancelSchedule(b) ==
  /\ Edit
  /\ entries[b] # NoEntry
  /\ entries[b].status # "submitted"
  /\ ~(entries[b].status = "dispatching" /\ IsBusy(b))
  /\ entries' = [entries EXCEPT ![b] = NoEntry]
  /\ begun' = [begun EXCEPT ![b] = {}]
  /\ UNCHANGED <<rule, swept, counts, excused>>

\* set_sweep
SetSweep(on, at) ==
  /\ Edit
  /\ rule' = IF on THEN [rule EXCEPT !.on = TRUE, !.at = at, !.next = NextOccurrence(at, now)]
             ELSE [rule EXCEPT !.on = FALSE]
  /\ UNCHANGED <<entries, historyVars>>

\* run_sweep_now
RunSweepNow ==
  /\ Ask
  /\ enabled /\ ready
  /\ holder = "nobody" /\ holder' = "manual"
  /\ sweep' = [at |-> "select", limit |-> Cardinality(Book), books |-> {}, queued |-> 0]
  /\ UNCHANGED <<queueVars, fileVars, tick, worldVars, historyVars>>

ChangeAddon ==
  /\ Ask
  /\ enabled' = ~enabled
  /\ UNCHANGED <<queueVars, fileVars, lockVars, now, ready, historyVars>>

-----------------------------------------------------------------------------
(* tick: the entries, in the order of their start.                         *)

BeginTick ==
  /\ holder = "nobody" /\ holder' = "tick"
  /\ tick' = [at |-> "entries", now |-> now, ready |-> ready, book |-> None,
              left |-> {b \in Book : entries[b] # NoEntry}, result |-> NoEntry]
  /\ UNCHANGED <<queueVars, fileVars, sweep, worldVars, boundVars, historyVars>>

Releases == holder' = "nobody" /\ tick' = None /\ sweep' = None

\* A failed save ends the tick or the sweep.
FailsToSave(old, new, file) == file \in {old, new} /\ Releases /\ Fault

At(step) == tick # None /\ tick.at = step

IsNext(b) ==
  /\ At("entries") /\ b \in tick.left
  /\ \A other \in tick.left : entries[b].runAt <= entries[other].runAt

GoesOn(b) == tick' = [tick EXCEPT !.at = "entries", !.left = @ \ {b}] /\ UNCHANGED <<holder, sweep>>
HandsOff(b) == tick' = [tick EXCEPT !.at = "handoff", !.book = b] /\ UNCHANGED <<holder, sweep>>
Holds(b, result) ==
  /\ tick' = [tick EXCEPT !.at = "record", !.book = b, !.result = result]
  /\ UNCHANGED <<holder, sweep>>

SavesEntry(b, entry, goesOn) ==
  /\ \E file \in {[entries EXCEPT ![b] = entry]} :
       \/ entries' = file /\ goesOn /\ Freely
       \/ FailsToSave(entries, file, entries')
  /\ UNCHANGED <<queueVars, rule, worldVars>>

IsDue(b) == entries[b].status = "scheduled" /\ tick.now >= entries[b].runAt
IsLate(b) == IsDue(b) /\ tick.now - entries[b].runAt > Lateness
IsInterrupted(b) == entries[b].status = "dispatching"
HasOutcome(b) == entries[b].status = "submitted" /\ entries[b].job \notin Underway

\* Mutant of TickSkip: an interrupted handoff is passed over.
SkipInterrupted(b) ==
  /\ IsNext(b)
  /\ ~HasOutcome(b) /\ ~IsLate(b)
  /\ tick.ready => ~IsDue(b)
  /\ GoesOn(b)
  /\ UNCHANGED <<queueVars, fileVars, worldVars, boundVars, historyVars>>

TickSkip(b) ==
  /\ IsNext(b)
  /\ ~HasOutcome(b) /\ ~IsLate(b)
  /\ tick.ready => ~IsDue(b) /\ ~(IsInterrupted(b) /\ enabled)
  /\ GoesOn(b)
  /\ UNCHANGED <<queueVars, fileVars, worldVars, boundVars, historyVars>>

TickOutcome(b) ==
  /\ IsNext(b) /\ HasOutcome(b)
  /\ SavesEntry(b,
       [entries[b] EXCEPT !.status = IF entries[b].job \in Ended
                                     THEN ledger[entries[b].job].status ELSE "lost"],
       GoesOn(b))
  /\ UNCHANGED historyVars

TickMissed(b) ==
  /\ IsNext(b) /\ IsLate(b)
  /\ SavesEntry(b, [entries[b] EXCEPT !.status = "missed"], GoesOn(b))
  /\ UNCHANGED historyVars

TickDispatch(b) ==
  /\ IsNext(b) /\ IsDue(b) /\ ~IsLate(b) /\ tick.ready
  /\ SavesEntry(b, [entries[b] EXCEPT !.status = "dispatching"], HandsOff(b))
  /\ UNCHANGED historyVars

\* Mutant of Existing: only a job under way is recognised.
ExistingUnderway(b) == {j \in JobsOf(b) \cap Underway : started[j] >= entries[b].runAt}

\* What an interrupted handoff may already have queued.
Existing(b) == {j \in JobsOf(b) : started[j] >= entries[b].runAt}

Submitted(b, j) == [entries[b] EXCEPT !.status = "submitted", !.job = j]

\* A handoff found interrupted, however long ago.
TickReplay(b) ==
  /\ IsNext(b) /\ IsInterrupted(b) /\ tick.ready /\ enabled
  /\ \/ Existing(b) = {} /\ HandsOff(b) /\ UNCHANGED excused
     \/ /\ Existing(b) # {}
        /\ Holds(b, Submitted(b, Max(Existing(b))))
        /\ excused' = excused \cup (Ended \cap {Max(Existing(b))})
  /\ UNCHANGED <<queueVars, fileVars, worldVars, boundVars, begun, swept, counts>>

\* enqueue_sync_map: it joins the job of a busy book, creates one, or refuses.
HandOff ==
  LET b == tick.book
  IN  /\ At("handoff")
      /\ \/ /\ IsBusy(b) /\ enabled
            /\ \E j \in JobsOf(b) \cap Underway : Holds(b, Submitted(b, j))
            /\ UNCHANGED <<queueVars, begun>> /\ Freely
         \/ /\ ~IsBusy(b) /\ enabled
            /\ Queue({b})
            /\ \E j \in {i \in Fresh : ledger'[i] # None} :
                 Holds(b, Submitted(b, j)) /\ begun' = [begun EXCEPT ![b] = @ \cup {j}]
            /\ Freely
         \/ /\ Refuses({b})
            /\ Holds(b, [entries[b] EXCEPT !.status = "refused"])
            /\ UNCHANGED <<queueVars, begun>>
      /\ UNCHANGED <<fileVars, worldVars, swept, counts, excused>>

Record ==
  /\ At("record")
  /\ SavesEntry(tick.book, tick.result, GoesOn(tick.book))
  /\ UNCHANGED historyVars

-----------------------------------------------------------------------------
(* tick_sweep, and the sweep itself, which a manual run shares.            *)

SlotIsDue == At("entries") /\ tick.left = {} /\ rule.on /\ now >= rule.next /\ ready
SlotIsLate == now - rule.next > Lateness
Advanced == [rule EXCEPT !.next = AdvancedOccurrence(rule.at, rule.next, now)]

NoSweep ==
  /\ At("entries") /\ tick.left = {} /\ ~SlotIsDue
  /\ Releases
  /\ UNCHANGED <<queueVars, fileVars, worldVars, boundVars, historyVars>>

MissSweep ==
  /\ SlotIsDue /\ SlotIsLate
  /\ Releases
  /\ \/ rule' = Advanced /\ Freely
     \/ FailsToSave(rule, Advanced, rule')
  /\ UNCHANGED <<queueVars, entries, worldVars, historyVars>>

BeginsSweep ==
  /\ tick' = [tick EXCEPT !.at = "sweep"]
  /\ sweep' = [at |-> "select", limit |-> Limit, books |-> {}, queued |-> 0]
  /\ swept' = [swept EXCEPT ![rule.next] = @ + 1]
  /\ UNCHANGED holder /\ Freely

\* The slot is claimed before anything is queued.
ClaimSweep ==
  /\ SlotIsDue /\ ~SlotIsLate
  /\ \E claimed \in {[Advanced EXCEPT !.ran = now, !.queued = None]} :
       \/ rule' = claimed /\ BeginsSweep
       \/ FailsToSave(rule, claimed, rule') /\ UNCHANGED swept
  /\ UNCHANGED <<queueVars, entries, worldVars, begun, counts, excused>>

IsSweeping(step) == sweep # None /\ sweep.at = step

\* A book without a job was never attempted.
LastAttempt(b) == Max({started[j] + 1 : j \in JobsOf(b)} \cup {0})

\* run_sweep: of the books that need a map (any may), those attempted least
\* recently.
SelectBooks(targets) ==
  LET open == {b \in targets : entries[b].status \notin Waiting /\ ~IsBusy(b)}
  IN  /\ IsSweeping("select")
      /\ \E books \in kSubset(Min({sweep.limit, Cardinality(open)}), open) :
           /\ \A b \in books, other \in open \ books : LastAttempt(b) <= LastAttempt(other)
           /\ sweep' = [sweep EXCEPT !.at = "queue", !.books = books]
      /\ UNCHANGED <<queueVars, fileVars, holder, tick, worldVars, boundVars, historyVars>>

\* enqueue_sync_batch looks again; it may refuse the whole batch.
QueueBooks ==
  LET open == {b \in sweep.books : ~IsBusy(b)}
  IN  /\ IsSweeping("queue")
      /\ \/ /\ enabled
            /\ Queue(open)
            /\ sweep' = [sweep EXCEPT !.at = "report", !.queued = Cardinality(open)]
            /\ Freely
         \/ /\ Refuses(open)
            /\ sweep' = [sweep EXCEPT !.at = "report"]
            /\ UNCHANGED queueVars
      /\ counts' = IF holder = "tick" THEN counts \cup {<<rule.ran, sweep'.queued>>} ELSE counts
      /\ UNCHANGED <<fileVars, holder, tick, worldVars, begun, swept, excused>>

ReportSweep ==
  /\ IsSweeping("report")
  /\ Releases
  /\ \E report \in {[rule EXCEPT !.ran = IF holder = "manual" THEN now ELSE @,
                                 !.queued = sweep.queued]} :
       \/ rule' = report /\ Freely
       \/ FailsToSave(rule, report, rule')
  /\ counts' = IF holder = "manual" THEN counts \cup {<<now, sweep.queued>>} ELSE counts
  /\ UNCHANGED <<queueVars, entries, worldVars, begun, swept, excused>>

-----------------------------------------------------------------------------
Advance ==
  /\ now < MaxTime
  /\ now' = now + 1
  /\ UNCHANGED <<queueVars, fileVars, lockVars, ready, enabled, boundVars, historyVars>>

ScanLibrary ==
  /\ ~ready /\ ready' = TRUE
  /\ UNCHANGED <<queueVars, fileVars, lockVars, now, enabled, boundVars, historyVars>>

\* The process ends, possibly after the outcome of a job was recorded and
\* before the queue was saved; restore_queue records what the queue still has.
Crash ==
  /\ Fault
  /\ Releases
  /\ ready' = FALSE
  /\ \/ entries' \in {entries, RecordedSoFar}
     \/ /\ holder = "nobody"
        /\ \E j \in Underway, outcome \in Outcome : entries' = Recorded(entries, {j}, outcome)
  /\ UNCHANGED <<queueVars, rule, now, enabled, historyVars>>

TickStep ==
  \/ BeginTick \/ HandOff \/ Record \/ NoSweep \/ MissSweep \/ ClaimSweep
  \/ \E b \in Book : \/ TickOutcome(b) \/ TickMissed(b) \/ TickDispatch(b)
                     \/ TickReplay(b) \/ TickSkip(b)

SweepStep ==
  \/ \E targets \in SUBSET Book : SelectBooks(targets)
  \/ QueueBooks \/ ReportSweep

ScheduleNext ==
  \/ TickStep \/ SweepStep
  \/ \E b \in Book :
       \/ RequestSync(b) \/ CancelSchedule(b)
       \/ \E at \in Time : ScheduleBook(b, at)
  \/ \E j \in Id :
       \/ \E outcome \in Outcome : FinishJob(j, outcome)
       \/ PruneResult(j) \/ RemoveJob(j)
  \/ \E on \in BOOLEAN, at \in LocalTime : SetSweep(on, at)
  \/ RunSweepNow \/ ChangeAddon
  \/ Advance \/ ScanLibrary \/ Crash

ScheduleSpec == ScheduleInit /\ [][ScheduleNext]_scheduleVars

\* The tick recurs every 15 seconds, whoever holds the lock lets go of it, and
\* a scan ends.
FairScheduleSpec ==
  /\ ScheduleSpec
  /\ WF_scheduleVars(TickStep \/ SweepStep)
  /\ WF_scheduleVars(ScanLibrary)

-----------------------------------------------------------------------------
(* Properties.                                                             *)

(* One schedule starts its book once, wherever the server stopped between  *)
(* marking it, queueing the job and recording which it was: an interrupted *)
(* handoff is replayed onto the job it created, unless that job's result   *)
(* is gone (tick: replay an interrupted handoff).                          *)
OncePerSchedule ==
  \A b \in Book : Cardinality({j \in begun[b] : ledger[j] # Gone}) <= 1

(* A night is swept at most once: not again after a crash in the middle of *)
(* it, a manual sweep or a change of the rule (tick_sweep: a crash midway  *)
(* must not repeat the sweep on restart).                                  *)
NightlyOnce == \A slot \in Time : swept[slot] <= 1

(* Neither a replayed handoff nor a repeated sweep starts anything twice.   *)
AtMostOnce == OncePerSchedule /\ NightlyOnce

(* A schedule is only told that its result is not available when its job   *)
(* was withdrawn before it ended, or had ended before the schedule was     *)
(* linked to it: pruning, a newer result or a dismissal never takes an     *)
(* outcome nobody recorded (save_finished_results: record outcomes before  *)
(* job history is removed).                                                *)
OutcomesAreKept ==
  \A b \in Book : entries[b].status = "lost" => entries[b].job \in excused

(* The number of queued books that the rule shows is that of the run whose *)
(* time it shows, also when that run was interrupted (tick_sweep: clearing *)
(* the prior outcome).                                                     *)
ReportsAreOwn == rule.queued # None => <<rule.ran, rule.queued>> \in counts

(* What a schedule and the rule show is what became of their own starts.    *)
ResultsAreTrue == OutcomesAreKept /\ ReportsAreOwn

(* A start whose time has come is not left waiting: as long as the add-on  *)
(* is installed it is dispatched, missed or refused, and an interrupted    *)
(* handoff is completed.                                                   *)
IsWaiting(b) ==
  \/ entries[b].status = "dispatching"
  \/ entries[b].status = "scheduled" /\ entries[b].runAt <= now

StartsSettle == <>[]enabled => \A b \in Book : []<>~IsWaiting(b)
=============================================================================
