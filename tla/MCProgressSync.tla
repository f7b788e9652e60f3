--------------------------- MODULE MCProgressSync ---------------------------
(***************************************************************************)
(* ProgressSync over a short book.  Every request carries a base revision, *)
(* so one reading of the server's clock is enough: revisions then count up *)
(* from 1.                                                                 *)
(***************************************************************************)
EXTENDS ProgressSync

\* Two edits, with failed calls or an app that starts again.
MCBounds == {<<2, 0, 1>>, <<1, 1, 1>>, <<2, 1, 0>>}

\* One listens on after a refused save, while another device has moved the place.
MCRefusedBounds == {<<3, 1, 0>>}
=============================================================================
