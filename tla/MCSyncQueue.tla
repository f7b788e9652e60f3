---------------------------- MODULE MCSyncQueue ----------------------------
(* Instances of SyncQueue for TLC: rows of what may happen in one behaviour.   *)
EXTENDS SyncQueue

CONSTANTS b1, b2

Nothing ==
  [wanted |-> {}, batches |-> {}, sections |-> 1, updates |-> 0, faults |-> 1,
   limit |-> [what \in Kind |-> 0]]

Whole == {<<b1, {}>>, <<b2, {}>>}
RerunOrWhole == {<<b1, {}>>, <<b1, {1}>>}
Faulty == [Nothing.limit EXCEPT !.errors = 1, !.panics = 1, !.gone = 1, !.rescans = 1]

\* A request and a batch over two books with two controls, or one and a crash;
\* the request for the first book only, with two controls and a crash.
Work ==
  [Nothing EXCEPT !.wanted = Whole, !.batches = {{b1, b2}}, !.sections = 2,
                  !.limit = [@ EXCEPT !.controls = 2]]
Restarts == [Work EXCEPT !.limit = [@ EXCEPT !.controls = 1, !.crashes = 1]]
ControlsAndRestarts ==
  [Work EXCEPT !.wanted = {<<b1, {}>>}, !.limit = [@ EXCEPT !.crashes = 1]]

\* A fault of any kind while a book is asked for as a whole and in part and an
\* update stops the queue; or two updates, the first of which is undone late.
Faults == [Nothing EXCEPT !.wanted = RerunOrWhole, !.updates = 1, !.limit = Faulty]
Updates == [Faults EXCEPT !.wanted = {<<b1, {}>>}, !.updates = 2]

\* A run of two sections is paused, and its inputs change before, while or after it
\* runs and perhaps back; or it is stopped for an update, which may bring other inputs.
OtherInputs ==
  [Nothing EXCEPT !.wanted = {<<b1, {}>>}, !.sections = 2, !.faults = 2,
                  !.limit = [@ EXCEPT !.controls = 2, !.inputs = 2]]
OtherBuild ==
  [OtherInputs EXCEPT !.updates = 1, !.faults = 1,
                      !.limit = [@ EXCEPT !.controls = 1, !.inputs = 1]]

MCRows == {Work, Restarts, ControlsAndRestarts, Faults, Updates, OtherInputs, OtherBuild}

\* A batch of two books with an update, a control and a crash.
MCLiveRows ==
  {[Nothing EXCEPT !.batches = {{b1, b2}}, !.updates = 1,
                   !.limit = [@ EXCEPT !.controls = 1, !.crashes = 1]]}

MCJoinRows == {[Nothing EXCEPT !.wanted = RerunOrWhole]}

MCDedupeRows ==
  {[Nothing EXCEPT !.batches = {{b1}}, !.updates = 1,
                   !.limit = [@ EXCEPT !.controls = 1, !.rescans = 1]]}
=============================================================================
