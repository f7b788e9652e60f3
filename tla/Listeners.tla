------------------------------- MODULE Listeners -------------------------------
(* What a playback checkpoint leaves behind besides the place itself: the      *)
(* day's listening, the sitting it belongs to, and the book being finished     *)
(* (progress.rs, activity.rs, reading.rs); and what deleting an account takes  *)
(* away again. One book. The composition of Accounts with the reading log: a   *)
(* checkpoint and a deletion are requests like the others.                     *)
EXTENDS Accounts, ReadingLog

CONSTANTS
    BookEnd,            \* the last place of the book, where it is finished
    Grace               \* how far a place may move within one tick and count as heard

ASSUME ListenersAssumption == BookEnd \in Nat \ {0} /\ Grace \in Nat

VARIABLES
    places,             \* progress rows: [spot, at], or None
    activity,           \* [mem, disk], each from listeners to what they heard
    open,               \* the sittings that are still accumulating
    history,            \* [mem, disk], each [rows, done]: sittings, and completions per listener
    sweep,              \* rows the sweeper has taken and not written yet
    heard,              \* (history) what each listener's stored places amount to
    folded,             \* (history) the sittings there were, and what was folded into each
    finishes,           \* (history) how often each listener's stored place reached the end
    cut,                \* (history) listeners whose record a fault has touched
    forgotten           \* (history) accounts whose deletion was carried through

recordVars == <<activity, open, history, sweep, folded, cut>>
listenVars == <<places, heard, finishes, forgotten, recordVars>>
allVars == <<vars, listenVars>>

Zero == [u \in Users |-> 0]

ListenersInit ==
    /\ AccountsInit
    /\ places = [u \in Users |-> IF u \in Readers THEN [spot |-> 0, at |-> 0] ELSE None]
    /\ activity = Both(Zero)
    /\ open = NoSittings
    /\ history = Both([rows |-> {}, done |-> Zero])
    /\ sweep = {}
    /\ heard = Zero /\ finishes = Zero
    /\ folded = {} /\ cut = {} /\ forgotten = {}

--------------------------------------------------------------------------------
(* A checkpoint                                                                *)

AskCheckpoint(r, s, spot, seek) ==
    /\ Spend("checkpoints")
    /\ Live(s)
    /\ Asks(r, s, [Idle EXCEPT !.op = "checkpoint", !.at = "store",
                               !.work = [spot |-> spot, seek |-> seek, at |-> 0, heard |-> 0,
                                         finished |-> FALSE, rows |-> {}]])
    /\ UNCHANGED <<clock, accountVars, listenVars>>

\* plausible_listened_delta: no seek, forward only, and no more than fits the
\* time since the last place.
Plausible(previous, spot, seek, now) ==
    IF previous = None \/ seek THEN 0
    ELSE LET moved == Max({0, spot - previous.spot})
         IN IF now > previous.at THEN moved ELSE Min({moved, Grace})

\* Where a checkpoint goes after a step of its bookkeeping.
AfterFolding(work) == IF work.finished THEN "complete" ELSE "done"
AfterStoring(work) == IF work.heard > 0 THEN "activity" ELSE AfterFolding(work)

Proceeds(r, work, at) ==
    requests' = [requests EXCEPT ![r] =
                    IF at = "done" THEN Idle ELSE [@ EXCEPT !.at = at, !.work = work]]

\* Only the step from an unfinished place to a finished one is a completion.
Finishes(previous, spot) ==
    spot = BookEnd /\ (previous = None \/ previous.spot # BookEnd)

\* update_progress, one transaction: the new place is taken, or the stored one
\* stands (ProgressServer). What follows from it is decided from these two.
StorePlace(r) ==
    LET q == requests[r]
        u == q.by
        previous == places[u]
    IN /\ q.at = "store"
       /\ \/ /\ places' = [places EXCEPT ![u] = [spot |-> q.work.spot, at |-> clock]]
             /\ LET delta == Plausible(previous, q.work.spot, q.work.seek, clock)
                    work == [q.work EXCEPT !.at = clock, !.heard = delta,
                                           !.finished = Finishes(previous, q.work.spot)]
                IN /\ heard' = [heard EXCEPT ![u] = @ + delta]
                   /\ Proceeds(r, work, AfterStoring(work))
             /\ finishes' = IF /\ q.work.spot = BookEnd
                               /\ previous # None => previous.spot < BookEnd
                            THEN [finishes EXCEPT ![u] = @ + 1] ELSE finishes
          \/ /\ previous # None
             /\ Ends(r)
             /\ UNCHANGED <<places, heard, finishes>>
       /\ UNCHANGED <<clock, allowed, accountVars, forgotten, recordVars>>

\* record_activity: one row of the table and then the copy in memory, under one lock.
Longer(q) == activity.mem[q.by] + q.work.heard

AddActivity(r) ==
    LET q == requests[r] IN
    /\ q.at = "activity"
    /\ activity' = [mem |-> [activity.mem EXCEPT ![q.by] = Longer(q)],
                    disk |-> [activity.disk EXCEPT ![q.by] = Longer(q)]]
    /\ Proceeds(r, q.work, "fold")
    /\ UNCHANGED <<clock, allowed, accountVars, places, heard, finishes, forgotten,
                   open, history, sweep, folded, cut>>

\* record_listening: the checkpoint joins the open sitting, or a new one.
FoldIn(r) ==
    LET q == requests[r]
        u == q.by
        result == Recorded(open, u, q.work.at, q.work.heard, serial)
        id == result.open[u].id
    IN /\ q.at = "fold"
       /\ open' = result.open
       /\ \/ /\ \A f \in folded : f.id # id
             /\ folded' = folded \cup {[id |-> id, user |-> u, heard |-> q.work.heard]}
          \/ \E f \in folded :
                /\ f.id = id
                /\ folded' = (folded \ {f}) \cup {[f EXCEPT !.heard = @ + q.work.heard]}
       /\ serial' = serial + 1
       /\ Proceeds(r, [q.work EXCEPT !.rows = result.rows],
                   IF result.rows # {} THEN "rows" ELSE AfterFolding(q.work))
       /\ UNCHANGED <<clock, allowed, users, sessions, agents, links, attempts, issuance, gate,
                      guesses, halfway, used, lingering, unpublished,
                      places, heard, finishes, forgotten, activity, history, sweep, cut>>

WithRows(rows) == [history.mem EXCEPT !.rows = Replaced(@, rows)]
WithCompletion(u) == [history.mem EXCEPT !.done[u] = @ + 1]

WriteRows(r) ==
    LET q == requests[r] IN
    /\ q.at = "rows"
    /\ history' = Both(WithRows(q.work.rows))
    /\ Proceeds(r, [q.work EXCEPT !.rows = {}], AfterFolding(q.work))
    /\ UNCHANGED <<clock, allowed, accountVars, places, heard, finishes, forgotten,
                   activity, open, sweep, folded, cut>>

WriteCompletion(r) ==
    LET q == requests[r] IN
    /\ q.at = "complete"
    /\ history' = Both(WithCompletion(q.by))
    /\ Ends(r)
    /\ UNCHANGED <<clock, allowed, accountVars, places, heard, finishes, forgotten,
                   activity, open, sweep, folded, cut>>

\* A statistic the database refuses is logged and passed over.
LosesStatistic(r) ==
    LET q == requests[r] IN
    /\ Spend("faults")
    /\ q.at \in {"activity", "rows", "complete"}
    /\ Proceeds(r, [q.work EXCEPT !.rows = {}],
                CASE q.at = "activity" -> "fold"
                  [] q.at = "rows" -> AfterFolding(q.work)
                  [] OTHER -> "done")
    /\ cut' = cut \cup {q.by}
    /\ UNCHANGED <<clock, accountVars, places, heard, finishes, forgotten,
                   activity, open, history, sweep, folded>>

--------------------------------------------------------------------------------
(* Closing sittings                                                            *)

\* The sweeper takes what has gone quiet, releases the lock, and writes it.
TakeQuiet ==
    LET quiet == Quiet(open, clock) IN
    /\ sweep = {} /\ quiet # {}
    /\ sweep' = ClosedRows(open, quiet)
    /\ open' = Without(open, quiet)
    /\ UNCHANGED <<vars, places, heard, finishes, forgotten, activity, history, folded, cut>>

WriteQuiet ==
    /\ sweep # {}
    /\ history' = Both(WithRows(sweep))
    /\ sweep' = {}
    /\ UNCHANGED <<vars, places, heard, finishes, forgotten, activity, open, folded, cut>>

\* Once no request is served any more everything is closed and written, and the
\* process ends; a later start reads it back. A sweep still writing is lost.
Stop ==
    LET rows == ClosedRows(open, DOMAIN open) IN
    /\ Spend("stops")
    /\ \A r \in Requests : requests[r] = Idle
    /\ RestartAccounts
    /\ history' = Both(IF rows = {} THEN history.disk ELSE WithRows(rows))
    /\ activity' = Both(activity.disk)
    /\ open' = NoSittings
    /\ sweep' = {}
    /\ cut' = cut \cup {row.user : row \in sweep}
    /\ UNCHANGED <<clock, places, heard, finishes, forgotten, folded>>

--------------------------------------------------------------------------------
(* The rest of a deletion                                                      *)

\* (Mutated form: buffered sittings are left to the sweeper.)
LeavesBuffered(at) ==
    CASE at = "places" -> "purge" [] OTHER -> "done"
\* The order delete_user takes them in.
NextPart(at) ==
    CASE at = "places" -> "forget" [] at = "forget" -> "purge" [] OTHER -> "done"

ForgetPart(r) ==
    LET q == requests[r]
        u == q.user
    IN /\ q.op = "delete"
       /\ \/ /\ q.at = "places"
             /\ places' = [places EXCEPT ![u] = None]
             /\ UNCHANGED <<open, history, lingering>>
          \/ /\ q.at = "forget"
             /\ open' = Without(open, {u})
             /\ lingering' = lingering \cup ({u} \cap {row.user : row \in sweep})
             /\ UNCHANGED <<places, history>>
          \/ /\ q.at = "purge"
             /\ history' = Both([rows |-> {row \in history.mem.rows : row.user # u},
                                 done |-> [history.mem.done EXCEPT ![u] = 0]])
             /\ UNCHANGED <<places, open, lingering>>
       /\ IF NextPart(q.at) = "done"
          THEN Ends(r) /\ forgotten' = forgotten \cup {u}
          ELSE Moves(r, NextPart(q.at)) /\ UNCHANGED forgotten
       /\ UNCHANGED <<clock, allowed, users, sessions, agents, links, attempts, issuance, gate,
                      serial, guesses, halfway, used, unpublished,
                      activity, heard, finishes, sweep, folded, cut>>

--------------------------------------------------------------------------------
(* What goes wrong                                                             *)

Recording(q) == q.op = "checkpoint" /\ q.at # "store"

GivesUpListening(r) ==
    /\ GivesUp(r)
    /\ cut' = IF Recording(requests[r]) THEN cut \cup {requests[r].by} ELSE cut
    /\ UNCHANGED <<places, heard, finishes, forgotten, activity, open, history, sweep, folded>>

\* The client goes away while a statistic is written: the copy in memory stays.
RecordsOnlyOnDisk(r) ==
    LET q == requests[r] IN
    /\ Spend("faults")
    /\ \/ /\ q.at = "activity"
          /\ activity' = [activity EXCEPT !.disk[q.by] = Longer(q)]
          /\ UNCHANGED history
       \/ /\ q.at = "rows"
          /\ history' = OnDisk(history, WithRows(q.work.rows))
          /\ UNCHANGED activity
       \/ /\ q.at = "complete"
          /\ history' = OnDisk(history, WithCompletion(q.by))
          /\ UNCHANGED activity
    /\ Ends(r)
    /\ cut' = cut \cup {q.by}
    /\ UNCHANGED <<clock, accountVars, places, heard, finishes, forgotten, open, sweep, folded>>

\* Power goes: what was not on disk is gone, the detail of open sittings too.
PowerGoes ==
    /\ Crash
    /\ activity' = Both(activity.disk)
    /\ history' = Both(history.disk)
    /\ open' = NoSittings
    /\ sweep' = {}
    /\ cut' = cut \cup {u \in DOMAIN open : open[u].dirty}
                  \cup {row.user : row \in sweep}
                  \cup {requests[r].by : r \in {x \in Requests : Recording(requests[x])}}
    /\ UNCHANGED <<places, heard, finishes, forgotten, folded>>

\* A tick is a minute: no write of the history takes that long, and no request
\* under way is older than one.
Minute ==
    /\ Tick
    /\ sweep = {}
    /\ \A r \in Requests :
        LET q == requests[r] IN Recording(q) => q.at # "rows" /\ q.work.at = clock
    /\ UNCHANGED listenVars

--------------------------------------------------------------------------------
ListenersNext ==
    \/ AccountsStep /\ UNCHANGED listenVars
    \/ \E r \in Requests, s \in sessions.mem, spot \in 0 .. BookEnd, seek \in BOOLEAN :
            AskCheckpoint(r, s, spot, seek)
    \/ \E r \in Requests : StorePlace(r)
    \/ \E r \in Requests : AddActivity(r)
    \/ \E r \in Requests : FoldIn(r)
    \/ \E r \in Requests : WriteRows(r)
    \/ \E r \in Requests : WriteCompletion(r)
    \/ \E r \in Requests : LosesStatistic(r)
    \/ TakeQuiet
    \/ WriteQuiet
    \/ Stop
    \/ \E r \in Requests : ForgetPart(r)
    \/ \E r \in Requests : GivesUpListening(r)
    \/ \E r \in Requests : WritesOnlyDisk(r) /\ UNCHANGED listenVars
    \/ \E r \in Requests : RecordsOnlyOnDisk(r)
    \/ PowerGoes
    \/ Minute

ListenersSpec == ListenersInit /\ [][ListenersNext]_allVars

--------------------------------------------------------------------------------
\* What requests of a listener have stored and not yet brought this far.
Pending(u, steps) ==
    MapThenSumSet(LAMBDA r : requests[r].work.heard,
                  {r \in Requests : requests[r].by = u /\ requests[r].at \in steps})

InHand == sweep \cup UNION {requests[r].work.rows : r \in {x \in Requests : requests[x].at = "rows"}}

\* The sitting is where it should be: still open with all that was folded into
\* it, or closed and on its way or in the history, unless it is too short.
IsKept(f) ==
    \/ \E u \in DOMAIN open : open[u].id = f.id /\ open[u].heard = f.heard
    \/ /\ \A u \in DOMAIN open : open[u].id # f.id
       /\ LET found == {row \in InHand : row.id = f.id}
              rows == {row \in history.mem.rows : row.id = f.id}
          IN IF f.heard < MinSession THEN found \cup rows = {}
             ELSE IF found # {} THEN \A row \in found : row.heard = f.heard
             ELSE Cardinality(rows) = 1 /\ \A row \in rows : row.heard = f.heard

\* The day's listening is what was heard, and so is what the sittings add up to.
TotalsAreKept ==
    \A u \in Known \ cut :
        /\ activity.mem[u] + Pending(u, {"activity"}) = heard[u]
        /\ MapThenSumSet(LAMBDA f : f.heard, {f \in folded : f.user = u})
                + Pending(u, {"activity", "fold"}) = heard[u]

\* Every sitting there was is open, or on its way to the history, or in it once.
SittingsAreKept == \A u \in Known \ cut : \A f \in folded : f.user = u => IsKept(f)

\* Requests that have stored the end of the book and not yet counted it.
Finishing(u) ==
    {r \in Requests : /\ requests[r].by = u /\ requests[r].op = "checkpoint"
                      /\ requests[r].at # "store" /\ requests[r].work.finished}

\* Every finish is counted once, or about to be.
CompletionsAreKept ==
    \A u \in Known \ cut : history.mem.done[u] + Cardinality(Finishing(u)) = finishes[u]

\* While no fault has touched a listener's record, what their stored places
\* amount to is what the daily total, the sittings and the completions show or
\* requests under way still owe: nothing is lost, and nothing counted twice,
\* whatever the order in which two devices' checkpoints, the flushes of a
\* sitting, the sweeper and a shutdown come.
ListeningIsKept == TotalsAreKept /\ SittingsAreKept /\ CompletionsAreKept

\* After a deletion that was carried through nothing brings the account back:
\* no session, agent token, place, buffered sitting or history row of it is left
\* in memory or on disk, unless a request of it or a flush of its sitting was
\* already under way.
DeletedIsForgotten ==
    \A u \in forgotten \ (lingering \cup halfway) :
        /\ \A s \in sessions.mem \cup sessions.disk : s.user # u
        /\ \A t \in agents.mem \cup agents.disk : t.user # u
        /\ places[u] = None
        /\ u \notin DOMAIN open
        /\ \A row \in history.mem.rows \cup history.disk.rows : row.user # u
        /\ history.mem.done[u] = 0 /\ history.disk.done[u] = 0
================================================================================
