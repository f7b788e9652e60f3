-------------------------- MODULE MCProgressServer --------------------------
(***************************************************************************)
(* ProgressServer over a short book, two devices and a clock that may be   *)
(* set back.  Checkpoints with a base carry no timestamps: the rules do not *)
(* read them there.                                                        *)
(***************************************************************************)
EXTENDS ProgressServer

CONSTANTS Sent  \* the clock readings clients stamp on their requests

MCRecordingId == Device \X {1}

MCRecording == [id : MCRecordingId, seq : {1, 2}] \cup {None}

MCCheckpoints ==
  [pos : {0, 2, 4}, base : {0, 1, 3}, rec : MCRecording,
   seek : BOOLEAN, regression : {FALSE}, at : {None}, sent : {None}]
  \cup
  [pos : {0, 3}, base : {None}, rec : {None} \cup [id : MCRecordingId, seq : {2}],
   seek : {TRUE}, regression : BOOLEAN, at : Sent \cup {None}, sent : {None, 3}]
=============================================================================
