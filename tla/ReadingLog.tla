------------------------------- MODULE ReadingLog -------------------------------
(* Sittings: how checkpoints are folded into one continuous stretch of         *)
(* listening in memory, when that is written through, and when it is closed    *)
(* (reading_log.rs). One book; open is a function from listeners to their open *)
(* sitting. Every operator here runs under one hold of the lock around it.     *)
EXTENDS Integers, FiniteSets, FiniteSetsExt, Functions

CONSTANTS
    SessionGap,         \* SESSION_GAP_SECONDS, in ticks of the clock
    FlushFirst,         \* SESSION_FLUSH_SECONDS
    FlushMax,           \* SESSION_FLUSH_MAX_SECONDS
    MinSession          \* MIN_SESSION_SECONDS, in steps of the place

ASSUME ReadingLogAssumption ==
    /\ {SessionGap, FlushFirst, FlushMax} \subseteq Nat \ {0}
    /\ MinSession \in Nat /\ FlushFirst < FlushMax

\* saturating_sub
Since(now, then) == Max({0, now - then})

Accepts(sitting, at) == Since(at, sitting.ended) <= SessionGap
IsSubstantive(sitting) == sitting.heard >= MinSession
RowOf(sitting) == [id |-> sitting.id, user |-> sitting.user, heard |-> sitting.heard]

NoSittings == [u \in {} |-> [id |-> 0]]
Without(open, listeners) == Restrict(open, DOMAIN open \ listeners)

\* What closing these listeners' sittings leaves to write.
ClosedRows(open, listeners) ==
    {RowOf(open[u]) : u \in {x \in listeners : open[x].dirty /\ IsSubstantive(open[x])}}

\* (Mutated form: a flush restarts the count of what was heard.)
RestartsCount(sitting, at) ==
    [sitting EXCEPT !.flushed = at, !.dirty = FALSE, !.heard = 0,
                    !.interval = Min({2 * sitting.interval, FlushMax})]
\* A sitting once its latest revision was handed to the history.
Flushed(sitting, at) ==
    [sitting EXCEPT !.flushed = at, !.dirty = FALSE,
                    !.interval = Min({2 * sitting.interval, FlushMax})]

\* OpenSessions::record: the open sittings after a checkpoint, and the rows it
\* gives out. Times may go back; only a gap forward ends a sitting.
Recorded(open, u, at, heard, id) ==
    IF u \in DOMAIN open /\ Accepts(open[u], at)
    THEN LET longer == [open[u] EXCEPT !.ended = at, !.heard = @ + heard, !.dirty = TRUE]
             due == Since(at, longer.flushed) >= longer.interval /\ IsSubstantive(longer)
         IN [open |-> [open EXCEPT ![u] = IF due THEN Flushed(longer, at) ELSE longer],
             rows |-> IF due THEN {RowOf(longer)} ELSE {}]
    ELSE LET new == [id |-> id, user |-> u, ended |-> at, heard |-> heard, flushed |-> at,
                     interval |-> FlushFirst, dirty |-> TRUE]
         IN [open |-> [x \in DOMAIN open \cup {u} |-> IF x = u THEN new ELSE open[x]],
             rows |-> ClosedRows(open, DOMAIN open \cap {u})]

\* OpenSessions::close_idle: the listeners whose sittings have gone quiet.
Quiet(open, now) == {u \in DOMAIN open : ~Accepts(open[u], now)}

\* persist_sessions: a revision replaces the earlier ones of its sitting.
Replaced(rows, new) == {row \in rows : \A x \in new : x.id # row.id} \cup new
================================================================================
