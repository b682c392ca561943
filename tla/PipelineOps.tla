------------------------------ MODULE PipelineOps ------------------------------
(***************************************************************************)
(* Audio as core sees it: GStreamer's pipeline, and the events that tell   *)
(* core of it.  The operators act on a world, a record with                *)
(*                                                                         *)
(*   gst    the pipeline,                                                  *)
(*   bus    events that still wait in the mailbox of the audio actor,      *)
(*   inbox  events that core has not handled yet,                          *)
(*                                                                         *)
(* among others.  A call to audio blocks until the audio actor has handled *)
(* the messages that were in its mailbox before.                           *)
(*                                                                         *)
(* PlaybackOps puts the playback controller on top, and GstAudio is the    *)
(* audio actor in detail.                                                  *)
(***************************************************************************)
EXTENDS Types, Sequences

\* Seek targets, as the code tells them apart: the start of the track, a
\* position within it, and one past its end.
TrackPositions == 0 .. 1
BeyondEnd == 2

\* A change to PAUSED or PLAYING from NULL or READY takes time: `goal` is the
\* state asked for.
PipelineType ==
    [state : {"NULL", "READY", "PAUSED", "PLAYING"},
     goal : {"NULL", "READY", "PAUSED", "PLAYING"},
     uri : TlidOrNone,       \* the uri property of playbin
     source : TlidOrNone,    \* the stream in the pipeline
     queued : TlidOrNone,    \* the uri set for the time source ends
     at : TrackPositions,    \* where the source was started or seeked to
     finishing : BOOLEAN,    \* about-to-finish was signalled
     ended : BOOLEAN,        \* source played to its end
     segment : BOOLEAN]      \* a SEGMENT event is on its way to the output

InitPipeline ==
    [state |-> "NULL", goal |-> "NULL", uri |-> None, source |-> None,
     queued |-> None, at |-> 0, finishing |-> FALSE, ended |-> FALSE, segment |-> FALSE]

Rolling(w) == w.gst.state \in {"PAUSED", "PLAYING"}

Sounds(w) == w.gst.state = "PLAYING" /\ w.gst.source # None /\ ~w.gst.ended

-----------------------------------------------------------------------------
(* What core asks of audio. *)

\* A call to audio: its mailbox is handled first.
Ask(w) == [w EXCEPT !.inbox = @ \o w.bus, !.bus = << >>]

\* A change to READY or NULL gives up the stream at once.
Flush(w, state) ==
    [Ask(w) EXCEPT !.gst = [InitPipeline EXCEPT !.uri = w.gst.uri,
                                                !.state = state, !.goal = state]]

\* stop_playback.  The state change posts STATE_CHANGED messages unless the
\* pipeline was not past READY, and audio makes stream_changed(None) of them.
StopPlayback(w) ==
    [Flush(w, "NULL") EXCEPT !.bus = IF Rolling(w) THEN <<"stream_changed">> ELSE << >>]

\* Mistake: the old stream is not flushed before the change.
PrepareNothing(w) == Ask(w)

PrepareChange(w) == Flush(w, "READY")

SetUri(w, tlid) ==
    [Ask(w) EXCEPT !.gst.uri = tlid,
                   !.gst.queued = IF Rolling(w) THEN tlid ELSE None]

\* start_playback and pause_playback
SetPipeline(w, goal) ==
    [Ask(w) EXCEPT !.gst.goal = goal,
                   !.gst.state = IF Rolling(w) THEN goal ELSE @]

\* Mistake: a paused pipeline is not seeked.
CanSeekWhilePlaying(w) == w.gst.state = "PLAYING" /\ w.gst.source # None

\* set_position: a flushing seek, which fails on a pipeline with no stream.
CanSeek(w) == Rolling(w) /\ w.gst.source # None

SetPosition(w, pos) ==
    IF CanSeek(w)
    THEN [Ask(w) EXCEPT !.gst.at = pos, !.gst.segment = TRUE,
                        !.gst.ended = FALSE, !.gst.finishing = FALSE]
    ELSE Ask(w)

-----------------------------------------------------------------------------
(* What the pipeline does by itself: when it can, and what comes of it. *)

\* It reaches the state asked for, with the stream of its uri.
IsStarting(w) == w.gst.goal \in {"PAUSED", "PLAYING"} /\ w.gst.state # w.gst.goal

StreamStarted(w) ==
    [w EXCEPT !.gst = [@ EXCEPT !.state = w.gst.goal, !.source = w.gst.uri,
                                !.at = 0, !.segment = TRUE],
              !.bus = Append(@, "stream_changed")]

\* A SEGMENT event reaches the output; its probe tells core without audio.
SegmentPassed(w) ==
    [w EXCEPT !.gst.segment = FALSE, !.inbox = Append(@, "position_changed")]

\* The source comes to its end, and is followed by the stream queued
\* meanwhile, without a gap, or by none.
IsAtEnd(w) == Sounds(w) /\ w.gst.finishing

NextSourceStarted(w) ==
    [w EXCEPT !.gst = [@ EXCEPT !.source = w.gst.queued, !.queued = None,
                                !.at = 0, !.finishing = FALSE, !.segment = TRUE],
              !.bus = Append(@, "stream_changed")]

SourceEnded(w) ==
    [w EXCEPT !.gst.ended = TRUE, !.bus = Append(@, "reached_end_of_stream")]

\* An element fails: audio stops the pipeline by itself.  The messages of this
\* change are behind what is in the mailbox, where they may come too late to
\* be told.
Failures(w) ==
    LET failed == [w EXCEPT !.gst = [InitPipeline EXCEPT !.uri = w.gst.uri]]
    IN  {failed} \union
        IF Rolling(w) THEN {[failed EXCEPT !.bus = Append(@, "stream_changed")]} ELSE {}
=============================================================================
