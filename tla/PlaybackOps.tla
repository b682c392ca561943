---------------------------- MODULE PlaybackOps -----------------------------
(***************************************************************************)
(* The methods of mopidy.core.PlaybackController, with the methods of the  *)
(* TracklistController that call them back, as operators on a "world": a   *)
(* record with                                                             *)
(*   tl      the tracklist controller (see TracklistOps),                  *)
(*   pb      the playback controller,                                      *)
(*   gst     the audio pipeline,                                           *)
(*   bus     events in the audio actor's mailbox, oldest first,            *)
(*   inbox   events in the core actor's mailbox, oldest first,             *)
(*   shown   the track that listeners take for the one on, from the        *)
(*           track_playback_started and track_playback_ended events,       *)
(*   hung    a loop that does not end was entered,                         *)
(*   fault   what goes wrong in the backends while the method runs.        *)
(*                                                                         *)
(* A method gives the set of worlds it can leave.  It runs in the core     *)
(* actor without interruption; a call to audio blocks until the audio      *)
(* actor has handled the messages that were in its mailbox before.         *)
(***************************************************************************)
EXTENDS TracklistOps, PipelineOps

CONSTANTS
    Orphans,   \* tracks whose URI scheme no backend plays
    Endless    \* tracks with no length

ASSUME OrphansAssumption == Orphans \subseteq Tlid
ASSUME EndlessAssumption == Endless \subseteq Tlid

States == {"stopped", "playing", "paused"}

PlaybackType ==
    [state : States, current : TlidOrNone,
     pending : TlidOrNone, pendingState : States, previous : BOOLEAN,
     pendingPos : TrackPositions \union {None},
     startAt : TrackPositions \union {None}, startPaused : BOOLEAN]

InitPlayback ==
    [state |-> "stopped", current |-> None,
     pending |-> None, pendingState |-> "playing", previous |-> FALSE,
     pendingPos |-> None, startAt |-> None, startPaused |-> FALSE]

\* f is applied to each of the worlds.
Then(worlds, f(_)) == UNION {f(w) : w \in worlds}

-----------------------------------------------------------------------------
(* Backends.                                                               *)

HasBackend(tlid) == tlid # None /\ tlid \notin Orphans

\* change_track gives no URI or raises, or play() and pause() fail.
NoUri(w, tlid) == w.fault.kind = "no_uri" /\ tlid \in w.fault.tracks
NoStart(w, tlid) == w.fault.kind = "no_start" /\ tlid \in w.fault.tracks

-----------------------------------------------------------------------------
(* Parts that call nothing back. *)

Playing(w) == IF w.pb.pending # None THEN w.pb.pending ELSE w.pb.current

\* Mistake: the pipeline goes on.
StoppedInNameOnly(w) == [w EXCEPT !.pb.state = "stopped"]

\* stop
Stopped(w) ==
    IF w.pb.state = "stopped" THEN w
    ELSE [(IF HasBackend(w.pb.current) THEN StopPlayback(w) ELSE w)
             EXCEPT !.pb.state = "stopped"]

\* pause
Paused(w) ==
    [(IF HasBackend(w.pb.current) THEN SetPipeline(w, "PAUSED") ELSE w)
        EXCEPT !.pb.state = "paused"]

\* resume
Resumed(w) ==
    IF w.pb.state = "paused" /\ HasBackend(w.pb.current)
    THEN [SetPipeline(w, "PLAYING") EXCEPT !.pb.state = "playing"]
    ELSE w

\* Mistake: a track that starts paused is not told.
StartedIfPlaying(w) ==
    IF w.pb.current = None \/ w.pb.state = "paused" THEN w
    ELSE [w EXCEPT !.tl = MarkPlaying(@, w.pb.current), !.shown = w.pb.current]

\* _trigger_track_playback_started
Started(w) ==
    IF w.pb.current = None THEN w
    ELSE [w EXCEPT !.tl = MarkPlaying(@, w.pb.current), !.shown = w.pb.current]

\* Mistake: an empty tracklist does not stop playback.
CurrentCleared(w) == IF w.tl.tracks = << >> THEN [w EXCEPT !.pb.current = None] ELSE w

\* _on_tracklist_change
TracklistChanged(w) ==
    IF w.tl.tracks = << >> THEN [Stopped(w) EXCEPT !.pb.current = None] ELSE w

\* _increase_version.  Core does not count versions.
Announced(w) ==
    LET kept == TracklistChanged(w)
    IN  {[kept EXCEPT !.tl = [t EXCEPT !.version = 0]] : t \in IncreaseVersion(kept.tl)}

\* The track a step of the loop tries after an unplayable one.
Step(kind, w, ref) ==
    CASE kind = "next"     -> NextTl(w.tl, ref, w.pb.current)
      [] kind = "previous" -> PreviousTl(w.tl, ref, w.pb.current)
      [] kind = "eot"      -> EotTl(w.tl, ref, w.pb.current)

-----------------------------------------------------------------------------
(* The methods that change tracks.  remove() calls them and they call      *)
(* remove(), so they are one recursion.                                    *)

\* Mistake: one round is enough.
OneRound(t) == Len(t.tracks)

\* How many tracks a search for a playable one tries at most.
Limit(t) == 2 * Len(t.tracks)

RECURSIVE Removed(_, _), TryUntilPlayable(_, _, _, _, _)

\* _remove_unplayable
UnplayableRemoved(w) ==
    LET cleared == [w EXCEPT !.tl.unplayable = {}]
    IN  IF w.tl.consume /\ w.tl.unplayable # {}
        THEN Removed(cleared, w.tl.unplayable \intersect Range(w.tl.tracks))
        ELSE {cleared}

\* Mistake: a paused track that ends is kept.
ConsumesIfPlaying(w, tlid) ==
    w.tl.consume /\ ~w.pb.previous /\ w.pb.state = "playing" /\ tlid \in Range(w.tl.tracks)

\* _trigger_track_playback_ended, with _mark_played
Consumes(w, tlid) ==
    w.tl.consume /\ ~w.pb.previous /\ tlid \in Range(w.tl.tracks)

Ended(w, tlid) ==
    LET after == IF Consumes(w, tlid)
                 THEN Removed(w, {tlid}) ELSE {w}
    IN  IF tlid = None THEN {w}
        ELSE {[v EXCEPT !.pb.previous = FALSE,
                        !.shown = IF @ = tlid THEN None ELSE @] : v \in after}

\* _on_end_of_stream
EndOfStream(w) ==
    Ended([w EXCEPT !.pb.state = "stopped", !.pb.current = None], w.pb.current)

\* _change: its results, with what it returns.
Change(w, tlid, state) ==
    LET set     == [w EXCEPT !.pb.pending = tlid, !.pb.pendingState = state]
        ready   == PrepareChange(set)
        loaded  == SetUri(ready, tlid)
        Result(v, ok) == {[world |-> v, ok |-> ok]}
    IN  IF tlid = None
        THEN {[world |-> v, ok |-> TRUE] : v \in EndOfStream(Stopped(set))}
        ELSE IF ~HasBackend(tlid) THEN Result(set, FALSE)
        ELSE IF NoUri(w, tlid) THEN Result(ready, FALSE)
        ELSE IF state = "stopped"
             THEN Result([loaded EXCEPT !.pb.current = tlid, !.pb.pending = None], TRUE)
        ELSE IF NoStart(w, tlid) THEN Result(loaded, FALSE)
        ELSE Result(SetPipeline(loaded, IF state = "playing" THEN "PLAYING" ELSE "PAUSED"),
                    TRUE)

\* _change_eot_track
ChangeEot(w, tlid) ==
    IF tlid = None THEN {[world |-> w, ok |-> TRUE]}
    ELSE IF ~HasBackend(tlid) \/ NoUri(w, tlid) THEN {[world |-> w, ok |-> FALSE]}
    ELSE {[world |-> [SetUri(w, tlid) EXCEPT !.pb.pending = tlid,
                                             !.pb.pendingState = "playing"],
           ok |-> TRUE]}

\* The `change` function each caller gives to the loop: play() skips None, the
\* others keep the state they found.
Try(how, w, tlid) ==
    CASE how = "eot" -> ChangeEot(w, tlid)
      [] how = "play" -> IF tlid = None THEN {[world |-> w, ok |-> TRUE]}
                         ELSE Change(w, tlid, "playing")
      [] OTHER -> Change(w, tlid, how)

\* _try_until_playable from its loop on.  `count` is tested for zero only after
\* it was lowered, so one that starts at zero never stops the loop: when the
\* step then stays at the track that failed, nothing does.
TryUntilPlayable(how, step, w, tlid, count) ==
    UNION { IF tried.ok THEN UnplayableRemoved(tried.world)
            ELSE UNION {
                LET next == [tried.world EXCEPT !.tl = r.tl]
                IN  IF count = 1 THEN UnplayableRemoved(next)
                    ELSE IF count <= 0 /\ r.track = tlid THEN {[next EXCEPT !.hung = TRUE]}
                    ELSE TryUntilPlayable(how, step, next, r.track, count - 1)
                : r \in Step(step, [tried.world EXCEPT !.tl = MarkUnplayable(@, tlid)], tlid) }
            : tried \in Try(how, w, tlid) }

\* _try_until_playable, with the first track from a call of `step`.
TryFrom(how, step, w, ref) ==
    UNION { TryUntilPlayable(how, step, [w EXCEPT !.tl = r.tl], r.track, Limit(w.tl))
            : r \in Step(step, w, ref) }

\* Mistake: playback does not hear that its track is gone.
RemovedUnnoticed(w, R) == Announced([w EXCEPT !.tl = RemoveTracks(@, R)])

\* remove, of tracks of the tracklist, with _on_current_track_removed.
Removed(w, R) ==
    IF w.pb.current \notin R
    THEN Announced([w EXCEPT !.tl = RemoveTracks(@, R)])
    ELSE UNION {
        LET left == [w EXCEPT !.tl = RemoveTracks(r.tl, R)]
        IN  Then(IF left.tl.tracks = << >> THEN {left}
                 ELSE IF w.pb.state = "stopped" THEN {[left EXCEPT !.pb.current = None]}
                 ELSE TryUntilPlayable(w.pb.state, "next", left, r.track, Limit(left.tl)),
                 Announced)
        : r \in NextRemaining(w.tl, w.pb.current, R) }

-----------------------------------------------------------------------------
(* Calls of clients. *)

NextTrack(w) ==
    IF Playing(w) = None THEN {w} ELSE TryFrom(w.pb.state, "next", w, Playing(w))

PreviousTrack(w) ==
    LET asked == [w EXCEPT !.pb.previous = TRUE]
    IN  IF Playing(w) = None THEN {asked}
        ELSE TryFrom(w.pb.state, "previous", asked, Playing(w))

\* play: a TLID that is not in the tracklist counts as none.
Play(w, tlid) ==
    LET first == IF tlid \in Range(w.tl.tracks) THEN tlid ELSE Playing(w)
    IN  IF tlid = None /\ w.pb.state = "paused" THEN {Resumed(w)}
        ELSE IF first # None THEN TryUntilPlayable("play", "next", w, first, Limit(w.tl))
        ELSE TryFrom("play", "next", w, None)

\* Mistake: the position is lost.
SoughtToStart(w, pos) == IF HasBackend(w.pb.current) THEN SetPosition(w, 0) ELSE w

\* _seek
Sought(w, pos) == IF HasBackend(w.pb.current) THEN SetPosition(w, pos) ELSE w
SeekOk(w) == HasBackend(w.pb.current) /\ CanSeek(w)

\* Mistake: no test for an empty tracklist or the end of the track.
SeekAnywhere(w, pos) ==
    {[world |-> Sought([w EXCEPT !.pb.pendingPos = pos], pos), ok |-> SeekOk(w)]}

\* seek: its results, with what it returns.
Seek(w, pos) ==
    LET Result(S, ok) == {[world |-> v, ok |-> ok] : v \in S}
        Go(v) ==
            LET tlid == IF v.pb.current # None THEN v.pb.current ELSE v.pb.pending
                set  == [v EXCEPT !.pb.pendingPos = pos]
            IN  IF tlid = None \/ tlid \in Endless THEN Result({v}, FALSE)
                ELSE IF pos = BeyondEnd THEN Result(NextTrack(v), TRUE)
                ELSE IF v.pb.current # None /\ v.pb.pending # None
                     THEN Change(set, v.pb.current, v.pb.state)
                ELSE Result({Sought(set, pos)}, SeekOk(v))
    IN  IF w.tl.tracks = << >> THEN Result({w}, FALSE)
        ELSE Then(IF w.pb.state = "stopped" THEN Play(w, None) ELSE {w}, Go)

-----------------------------------------------------------------------------
(* Events of audio. *)

\* _on_about_to_finish
AboutToFinish(w) ==
    IF w.pb.state = "stopped" THEN {w} ELSE TryFrom("eot", "eot", w, w.pb.current)

\* Mistake: the saved position is not sought.
StartUnsought(w) ==
    {IF w.pb.startPaused THEN [Paused(w) EXCEPT !.pb.startPaused = FALSE] ELSE w}

\* The last part of _on_stream_changed: the saved position and pause.
StartAsSaved(w) ==
    LET sought == IF w.pb.startAt \in {None, 0} THEN {[world |-> w, ok |-> FALSE]}
                  ELSE Seek(w, w.pb.startAt)
        Begun(v) == IF w.pb.startAt \in {None, 0} THEN v ELSE [v EXCEPT !.pb.startAt = None]
    IN  { IF r.ok \/ ~r.world.pb.startPaused THEN Begun(r.world)
          ELSE [Paused(Begun(r.world)) EXCEPT !.pb.startPaused = FALSE] : r \in sought }

\* Mistake: the pending state is ignored.
StartPlaying(w) == "playing"

\* The state a track starts in.
StartState(w) == IF w.pb.pendingState = "paused" THEN "paused" ELSE "playing"

\* _on_stream_changed
StreamChanged(w) ==
    LET pending == w.pb.pending
        taken == [w EXCEPT !.pb.pending = None, !.pb.pendingState = "playing",
                           !.pb.current = IF pending = None THEN @ ELSE pending]
        Begin(v) ==
            LET sought == IF v.pb.pendingPos = None THEN v ELSE Sought(v, v.pb.pendingPos)
                begun  == Started([sought EXCEPT !.pb.state = StartState(w)])
            IN  IF pending = None THEN {v}
                ELSE IF v.pb.pendingPos = None THEN StartAsSaved(begun) ELSE {begun}
    IN  Then(IF w.pb.pendingPos = None THEN Ended(taken, w.pb.current) ELSE {taken}, Begin)

\* _on_position_changed
PositionChanged(w) ==
    LET seeked == [w EXCEPT !.pb.pendingPos = None]
    IN  IF w.pb.pendingPos = None THEN {w}
        ELSE IF w.pb.startPaused THEN {[Paused(seeked) EXCEPT !.pb.startPaused = FALSE]}
        ELSE {seeked}

\* Mistake: events of a stopped player are dropped as late ones.
HandleUnlessStopped(event, w) ==
    IF w.pb.state = "stopped" THEN {w}
    ELSE CASE event = "stream_changed"        -> StreamChanged(w)
           [] event = "reached_end_of_stream" -> EndOfStream(w)
           [] event = "position_changed"      -> PositionChanged(w)

Handle(event, w) ==
    CASE event = "stream_changed"        -> StreamChanged(w)
      [] event = "reached_end_of_stream" -> EndOfStream(w)
      [] event = "position_changed"      -> PositionChanged(w)
=============================================================================
