------------------------- MODULE MCLibationDownloads -------------------------
(* Two Audible accounts and four people, in rows of what may happen in one     *)
(* behaviour; see the README for what each row reaches.                        *)
EXTENDS LibationDownloads

CONSTANTS main, second, ada, bob, root

\* starts, requests, rulings, purchases, download-alls, faults, ends, ownership
MCBounds ==
    {[owners |-> {main, second}, most |-> <<2, 0, 0, 0, 0, 1, 0, 0>>],
     [owners |-> {main}, most |-> <<1, 1, 1, 0, 0, 0, 0, 1>>],
     [owners |-> {main}, most |-> <<0, 3, 2, 0, 0, 0, 0, 0>>],
     [owners |-> {main}, most |-> <<0, 1, 1, 0, 0, 2, 1, 0>>],
     [owners |-> {main}, most |-> <<0, 1, 2, 0, 0, 1, 0, 0>>],
     [owners |-> {main}, most |-> <<1, 0, 0, 0, 0, 0, 2, 0>>],
     [owners |-> {main}, most |-> <<1, 0, 0, 0, 0, 0, 1, 1>>],
     [owners |-> {main}, most |-> <<1, 0, 0, 0, 0, 2, 1, 0>>],
     [owners |-> {main, second}, most |-> <<0, 0, 0, 1, 1, 0, 1, 0>>],
     [owners |-> {main}, most |-> <<0, 0, 0, 0, 2, 1, 1, 0>>]}

==============================================================================
