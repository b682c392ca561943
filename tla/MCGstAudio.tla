------------------------------ MODULE MCGstAudio ------------------------------
(* A small instance of GstAudio. *)
EXTENDS GstAudio

MCUris == {1, 2}
MCLive == {2}
MCReports == {{"tag"}, {"buffering", "error"}}
=============================================================================
