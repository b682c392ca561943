---------------------------- MODULE MCTracklist -----------------------------
(* Small instances of Tracklist. *)
EXTENDS Tracklist

MCPositions == {0, 2}
=============================================================================
