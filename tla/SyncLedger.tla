----------------------------- MODULE SyncLedger -----------------------------
(***************************************************************************)
(* What the read-along queue promises to those who were answered with a    *)
(* job: nothing is said about how a job is run, only that it is kept until *)
(* its outcome was recorded or an administrator withdrew it, that an       *)
(* outcome does not change, and that a book has at most one job under way. *)
(*                                                                         *)
(* SyncQueue implements this; SyncSchedule is built on it.                 *)
(***************************************************************************)
CONSTANTS
  None,
  Book,
  Id       \* the jobs a request may be answered with

VARIABLES
  ledger,  \* what became of each accepted job
  closed   \* jobs withdrawn, or whose outcome was recorded for the schedules

Outcome == {"completed", "failed"}

\* Withdrawn, or ended and its result pruned or dismissed.
Gone == [book |-> None, status |-> "gone"]

Entry == [book : Book, status : {"unfinished"} \cup Outcome] \cup {Gone}

LedgerInit ==
  /\ ledger = [j \in Id |-> None]
  /\ closed = {}

IsUnderway(entry) == entry # None /\ entry.status = "unfinished"
IsEnded(entry) == entry # None /\ entry.status \in Outcome

\* An answer may name a job that ended, or was removed, on its way.
Accept(j) ==
  /\ ledger[j] = None
  /\ ledger'[j] \in Entry
  /\ IsUnderway(ledger'[j]) =>
       \A i \in Id \ {j} :
         IsUnderway(ledger'[i]) => ledger'[i].book # ledger'[j].book

End(j) ==
  /\ IsUnderway(ledger[j])
  /\ \E outcome \in Outcome : ledger'[j] = [ledger[j] EXCEPT !.status = outcome]

Forget(j) ==
  /\ IsUnderway(ledger[j]) \/ IsEnded(ledger[j])
  /\ j \in closed'
  /\ ledger'[j] = Gone

\* A restart finds a result that was pruned since the last save.
Reread(j) ==
  /\ ledger[j] = Gone
  /\ \E book \in Book, outcome \in Outcome :
       ledger'[j] = [book |-> book, status |-> outcome]

\* Several jobs may change at once: a batch is accepted as one, and a result
\* displaces an older one.
LedgerStep ==
  /\ \A j \in Id :
       ledger'[j] = ledger[j] \/ Accept(j) \/ End(j) \/ Forget(j) \/ Reread(j)
  /\ DOMAIN ledger' = Id
  /\ closed \subseteq closed'

LedgerSpec == LedgerInit /\ [][LedgerStep]_<<ledger, closed>>
=============================================================================
