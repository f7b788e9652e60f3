----------------------------- MODULE MCListeners -----------------------------
(* The owner, a reader, and an id for whoever takes the reader's name later;   *)
(* two addresses of one network and one of another. Each row of MCBounds is    *)
(* what may happen in one behaviour; see the README for what each reaches.     *)
EXTENDS Listeners

CONSTANTS root, ada, ada2, rootName, adaName, home, away, hostel, r1, r2, r3

MCNameOf == (root :> rootName) @@ (ada :> adaName) @@ (ada2 :> adaName)
MCNetworkOf == (home :> home) @@ (away :> away) @@ (hostel :> away)

None0 == [signIns |-> 0, changes |-> 0, deletions |-> 0, roles |-> 0, accounts |-> 0,
          agents |-> 0, signOuts |-> 0, faults |-> 0, ticks |-> 0, checkpoints |-> 0,
          stops |-> 0, overlap |-> 2, from |-> {home}, names |-> {adaName},
          asking |-> {root, ada, ada2}]

MCBounds ==
    {\* guessing: one network over its budget, a full table, and a late success
     [None0 EXCEPT !.signIns = 4, !.overlap = 1, !.from = {home, away, hostel}],
     [None0 EXCEPT !.signIns = 4, !.overlap = 1, !.ticks = 1, !.from = {home, away},
                   !.names = {adaName, rootName}],
     [None0 EXCEPT !.signIns = 4, !.ticks = 2, !.from = {away}],
     \* credentials: resets among sign-ins, agents and faults; accounts that come and go
     [None0 EXCEPT !.signIns = 1, !.changes = 2, !.agents = 1, !.overlap = 3],
     [None0 EXCEPT !.signIns = 1, !.changes = 2, !.agents = 1, !.faults = 1],
     [None0 EXCEPT !.agents = 3, !.changes = 1],
     [None0 EXCEPT !.signIns = 1, !.changes = 1, !.deletions = 1, !.accounts = 1, !.signOuts = 1],
     [None0 EXCEPT !.signIns = 3, !.signOuts = 1, !.names = {adaName, rootName}],
     [None0 EXCEPT !.changes = 1, !.roles = 2, !.deletions = 1],
     [None0 EXCEPT !.signIns = 1, !.ticks = 4],
     \* listening: two devices, time, faults, a stop, a deletion
     [None0 EXCEPT !.checkpoints = 4, !.ticks = 3, !.asking = {ada}],
     [None0 EXCEPT !.checkpoints = 3, !.ticks = 2, !.faults = 1, !.stops = 1,
                   !.asking = {ada}],
     [None0 EXCEPT !.checkpoints = 2, !.ticks = 2, !.deletions = 1],
     [None0 EXCEPT !.checkpoints = 1, !.ticks = 2, !.deletions = 1, !.faults = 1]}

Alike == Permutations(Requests)
==============================================================================
