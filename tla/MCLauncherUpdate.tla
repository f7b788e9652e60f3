-------------------------- MODULE MCLauncherUpdate --------------------------
(* Instances of LauncherUpdate for TLC. *)
EXTENDS LauncherUpdate

\* A combined installation, and a server-only one without VERSION.txt on a
\* volume without hard links, updated to a build that knows no trials.
MCSetups ==
  {[web |-> TRUE, version |-> TRUE, trials |-> TRUE, links |-> TRUE],
   [web |-> FALSE, version |-> FALSE, trials |-> FALSE, links |-> FALSE]}

MCBounds ==
  {<<1, 1, 0, 0>>, <<2, 0, 0, 0>>, <<0, 1, 1, 0>>, <<0, 0, 0, 1>>}
=============================================================================
