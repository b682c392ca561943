-------------------------------- MODULE Core --------------------------------
(***************************************************************************)
(* The core actor: the playback and tracklist controllers, the clients     *)
(* that call them, the audio actor that relays pipeline events to them,    *)
(* and the pipeline.  Each action of the core actor is one message from    *)
(* its mailbox, handled to its end by an operator of PlaybackOps.          *)
(*                                                                         *)
(* A client call may run at any point between two events: a call that      *)
(* waits in the mailbox behind an event is the same call made after it.    *)
(***************************************************************************)
EXTENDS PlaybackOps

CONSTANTS
    Calls,         \* the calls clients make, of AllCalls
    Eager,         \* those of them that do not wait for the last change to come through
    BatchSizes,    \* how many tracks one add() brings
    ClientOptions, \* the options that set_options calls change
    Faults,        \* subset of {"no_uri", "no_start"}: what backends get wrong
    Restarts,      \* whether the process is shut down, killed and started again
    MaxTlid,       \* bound: TLIDs handed out by the model
    MaxEvents      \* bound: events on their way when a client calls

AllCalls ==
    {"next", "previous", "play", "replay", "pause", "pause_stopped", "resume", "stop",
     "seek", "seek_stopped", "add", "clear", "remove", "set_option", "set_random", "peek"}

ASSUME BatchAssumption == BatchSizes \subseteq Nat
ASSUME OptionsAssumption == ClientOptions \subseteq Options
ASSUME FaultsAssumption == Faults \subseteq {"no_uri", "no_start"}
ASSUME CallsAssumption == Calls \subseteq AllCalls
ASSUME EagerAssumption == Eager \subseteq Calls
ASSUME RestartsAssumption == Restarts \in BOOLEAN
ASSUME BoundsAssumption == MaxTlid \in Nat /\ MaxEvents \in Nat

VARIABLES
    tl, pb, gst, bus, inbox, shown, hung,  \* the world of PlaybackOps
    running,    \* core._setup() is done
    stored,     \* the state file, or None
    wanted,     \* history: playback was asked for, and not to pause or stop since
    expected    \* history: what the last call or start must come to, if nobody interferes

vars == <<tl, pb, gst, bus, inbox, shown, hung, running, stored, wanted, expected>>

Events == {"stream_changed", "reached_end_of_stream", "position_changed"}

StoredType ==
    [tracklist : [tracks : Seq(Tlid), nextTlid : Tlid, consume : BOOLEAN,
                  random : BOOLEAN, repeat : BOOLEAN, single : BOOLEAN],
     tlid : TlidOrNone, position : TrackPositions, state : States]

TypeOK ==
    /\ tl \in TracklistType
    /\ pb \in PlaybackType
    /\ gst \in PipelineType
    /\ bus \in Seq(Events)
    /\ inbox \in Seq(Events)
    /\ shown \in TlidOrNone
    /\ {hung, running, wanted} \subseteq BOOLEAN
    /\ stored \in StoredType \union {None}
    /\ expected \in [tlid : Tlid, state : States, position : TrackPositions \union {None}]
                     \union {None}

Fresh ==
    [tl |-> InitTracklist, pb |-> InitPlayback, gst |-> InitPipeline,
     bus |-> << >>, inbox |-> << >>, shown |-> None, hung |-> FALSE,
     fault |-> [kind |-> "none", tracks |-> {}]]

Init ==
    /\ tl = Fresh.tl /\ pb = Fresh.pb /\ gst = Fresh.gst
    /\ bus = << >> /\ inbox = << >> /\ shown = None /\ hung = FALSE
    /\ running = FALSE
    /\ stored = None
    /\ wanted = FALSE
    /\ expected = None

-----------------------------------------------------------------------------
(* The world as a method finds it, and what it leaves.  A track that fails *)
(* fails as long as the method runs.                                       *)

FaultChoices(tlids) ==
    {Fresh.fault} \union [kind : Faults, tracks : SUBSET tlids \ {{}}]

World(f) ==
    [tl |-> tl, pb |-> pb, gst |-> gst, bus |-> bus, inbox |-> inbox,
     shown |-> shown, hung |-> hung, fault |-> f]

Here == World(Fresh.fault)

Become(worlds) ==
    \E w \in worlds :
        /\ tl' = w.tl /\ pb' = w.pb /\ gst' = w.gst
        /\ bus' = w.bus /\ inbox' = w.inbox
        /\ shown' = w.shown /\ hung' = w.hung

\* Nothing is on its way from or within the pipeline.
Quiet ==
    /\ bus = << >> /\ inbox = << >>
    /\ gst.state = gst.goal /\ ~gst.segment

Active == running /\ ~hung

-----------------------------------------------------------------------------
(* Calls of clients. *)

\* And no next stream is queued, which would start by itself.
Settled == Quiet /\ (gst.finishing => gst.queued = None)

Client(call) ==
    /\ call \in Calls
    /\ Active
    /\ \/ Settled
       \/ call \in Eager /\ Len(bus) + Len(inbox) <= MaxEvents
    /\ UNCHANGED <<running, stored>>

\* A call that reaches a backend.
Call(call, Method(_)) ==
    /\ Client(call)
    /\ expected' = None
    /\ \E f \in FaultChoices(Range(tl.tracks)) : Become(Method(World(f)))

\* A call that does not.
PlainCall(call, Method(_)) ==
    /\ Client(call)
    /\ expected' = None
    /\ Become(Method(Here))

WhenStopped(call, other) == IF pb.state = "stopped" THEN call ELSE other

CallNext     == Call("next", NextTrack) /\ UNCHANGED wanted
CallPrevious == Call("previous", PreviousTrack) /\ UNCHANGED wanted

\* play() of the track that is current already.
Replays(tlid) ==
    /\ pb.current # None
    /\ IF tlid \in Range(tl.tracks) THEN tlid = pb.current ELSE pb.pending = None

CallPlay(tlid) ==
    /\ Client(IF Replays(tlid) THEN "replay" ELSE "play")
    /\ \E f \in FaultChoices(Range(tl.tracks)) :
          /\ Become(Play(World(f), tlid))
          /\ expected' = IF /\ Settled /\ f.kind = "none"
                            /\ tlid \in Range(tl.tracks) \ Orphans
                         THEN [tlid |-> tlid, state |-> "playing", position |-> None]
                         ELSE None
    /\ wanted' = TRUE

CallPause ==
    /\ PlainCall(WhenStopped("pause_stopped", "pause"), LAMBDA w : {Paused(w)})
    /\ wanted' = FALSE

CallResume ==
    /\ PlainCall("resume", LAMBDA w : {Resumed(w)})
    /\ wanted' = (wanted \/ pb.state = "paused")

CallStop ==
    /\ PlainCall("stop", LAMBDA w : {Stopped(w)})
    /\ wanted' = FALSE

CallSeek(pos) ==
    /\ Call(WhenStopped("seek_stopped", "seek"),
            LAMBDA w : {r.world : r \in Seek(w, pos)})
    /\ wanted' = (wanted \/ pb.state = "stopped")

CallAdd(n, pos) ==
    /\ tl.nextTlid + n <= MaxTlid + 1
    /\ n <= AddRoom(tl)
    /\ PlainCall("add", LAMBDA w : Announced([w EXCEPT !.tl = AddTracks(@, n, pos)]))
    /\ UNCHANGED wanted

CallClear ==
    /\ PlainCall("clear", LAMBDA w : Announced([w EXCEPT !.tl.tracks = << >>]))
    /\ UNCHANGED wanted

CallRemove(R) ==
    /\ Call("remove", LAMBDA w : Removed(w, R))
    /\ UNCHANGED wanted

CallSetOption(option, value) ==
    /\ PlainCall("set_option", LAMBDA w : {[w EXCEPT !.tl = SetOption(@, option, value)]})
    /\ UNCHANGED wanted

CallSetRandom(value) ==
    /\ PlainCall("set_random", LAMBDA w : {[w EXCEPT !.tl = t] : t \in SetRandom(w.tl, value)})
    /\ UNCHANGED wanted

\* get_next_tlid and get_eot_tlid can draw a random order.
CallPeek ==
    /\ PlainCall("peek", LAMBDA w : {[w EXCEPT !.tl = r.tl] :
                                r \in NextTl(w.tl, w.pb.current, w.pb.current)
                                  \union EotTl(w.tl, w.pb.current, w.pb.current)})
    /\ UNCHANGED wanted

-----------------------------------------------------------------------------
(* Events on their way to core. *)

\* The audio actor handles a bus message and sends core its event.
Relay ==
    /\ Active
    /\ bus # << >>
    /\ bus' = Tail(bus)
    /\ inbox' = Append(inbox, Head(bus))
    /\ UNCHANGED <<tl, pb, gst, shown, hung, running, stored, wanted, expected>>

\* Core handles the oldest event.
Deliver ==
    /\ Active
    /\ inbox # << >>
    /\ \E f \in FaultChoices(Range(tl.tracks)) :
          Become(Handle(Head(inbox), [World(f) EXCEPT !.inbox = Tail(@)]))
    /\ UNCHANGED <<running, stored, wanted, expected>>

-----------------------------------------------------------------------------
(* The pipeline, which runs by itself. *)

Pipeline ==
    /\ Active
    /\ UNCHANGED <<running, stored, wanted>>

\* The pipeline reaches the state asked for, with the stream of its uri.
StreamStarts ==
    /\ Pipeline
    /\ IsStarting(Here)
    /\ Become({StreamStarted(Here)})
    /\ UNCHANGED expected

\* A SEGMENT event reaches the output; its probe tells core without audio.
SegmentPasses ==
    /\ Pipeline
    /\ gst.segment
    /\ Become({SegmentPassed(Here)})
    /\ UNCHANGED expected

Sounding == Sounds(Here)

\* The source has given all its data, and the callback waits for core to give
\* the next one.  Streams are long enough for their start to be known by then.
SourceFinishes ==
    /\ Active
    /\ Sounding /\ ~gst.finishing /\ Quiet
    /\ \E f \in FaultChoices(Range(tl.tracks)) :
          Become(AboutToFinish([World(f) EXCEPT !.gst.finishing = TRUE]))
    /\ expected' = None
    /\ UNCHANGED <<running, stored, wanted>>

\* Gapless change to the track queued meanwhile.
NextSourceStarts ==
    /\ Pipeline
    /\ IsAtEnd(Here) /\ gst.queued # None
    /\ Become({NextSourceStarted(Here)})
    /\ UNCHANGED expected

SourceEnds ==
    /\ Pipeline
    /\ IsAtEnd(Here) /\ gst.queued = None
    /\ Become({SourceEnded(Here)})
    /\ UNCHANGED expected

-----------------------------------------------------------------------------
(* Start and end of the process. *)

\* _load_state of the playback controller, which comes after the tracklist's.
Restored(w, saved) ==
    LET asked == [w EXCEPT !.pb.startAt = saved.position,
                           !.pb.startPaused = (saved.state = "paused")]
    IN  IF saved.tlid = None \/ saved.state = "stopped" THEN {w}
        ELSE Play(asked, saved.tlid)

Setup ==
    /\ ~running
    /\ running' = TRUE
    /\ stored' = None
    /\ IF stored = None
       THEN UNCHANGED <<tl, pb, gst, bus, inbox, shown, hung, wanted, expected>>
       ELSE /\ \E f \in FaultChoices(Range(stored.tracklist.tracks)) :
                  Become(Then(Announced([World(f) EXCEPT
                                  !.tl = LoadTracklist(@, stored.tracklist)]),
                              LAMBDA w : Restored(w, stored)))
            /\ wanted' = (stored.tlid # None /\ stored.state # "stopped")
            /\ expected' =
                  IF stored.state # "stopped" /\ stored.tlid \in Range(stored.tracklist.tracks)
                  THEN [tlid |-> stored.tlid, state |-> stored.state,
                        position |-> stored.position]
                  ELSE None

\* A new process: every field is as __init__ left it.
Reset ==
    /\ Become({Fresh})
    /\ running' = FALSE
    /\ wanted' = FALSE
    /\ expected' = None

\* _teardown
Shutdown ==
    /\ Active /\ Restarts
    /\ \E position \in IF pb.pendingPos # None THEN {pb.pendingPos}
                       ELSE IF pb.current = None THEN {0} ELSE TrackPositions :
          stored' = [tracklist |-> SaveTracklist(tl), tlid |-> pb.current,
                     position |-> position, state |-> pb.state]
    /\ Reset

Crash ==
    /\ Active /\ Restarts
    /\ Reset
    /\ UNCHANGED stored
-----------------------------------------------------------------------------

Next ==
    \/ Setup \/ Shutdown \/ Crash
    \/ CallNext \/ CallPrevious \/ CallPause \/ CallResume \/ CallStop
    \/ \E tlid \in 1 .. MaxTlid \union {None} : CallPlay(tlid)
    \/ \E pos \in TrackPositions \union {BeyondEnd} : CallSeek(pos)
    \/ \E n \in BatchSizes, pos \in {0, None} : CallAdd(n, pos)
    \/ CallClear
    \/ \E R \in SUBSET Range(tl.tracks) \ {{}} : CallRemove(R)
    \/ \E option \in ClientOptions, value \in BOOLEAN : CallSetOption(option, value)
    \/ \E value \in BOOLEAN : CallSetRandom(value)
    \/ CallPeek
    \/ Relay \/ Deliver
    \/ StreamStarts \/ SegmentPasses
    \/ SourceFinishes \/ NextSourceStarts \/ SourceEnds

Spec == Init /\ [][Next]_vars

\* The actors handle their mailboxes, and GStreamer starts what it was told to
\* start; nobody has to call, and no track has to end.
FairSpec ==
    /\ Spec
    /\ WF_vars(Relay) /\ WF_vars(Deliver)
    /\ WF_vars(StreamStarts) /\ WF_vars(SegmentPasses)
-----------------------------------------------------------------------------
(* Safety. *)

\* When nothing is on its way, core and the pipeline agree: the track that core
\* plays or holds paused is the stream of the pipeline, a stopped core has
\* silenced it, and no track change is left half done.  Core sets its state
\* in its own handlers and GStreamer its own in its threads, so this relates
\* _change(), stop(), pause(), resume(), _on_stream_changed() and the callback
\* for about-to-finish.
AgreesWithPipeline ==
    running /\ Settled =>
        /\ pb.state = "playing" => gst.state = "PLAYING" /\ gst.source = pb.current
        /\ pb.state = "paused" /\ pb.current # None =>
              gst.state = "PAUSED" /\ gst.source = pb.current
        /\ pb.state = "stopped" => ~Sounding
        /\ pb.pending = None

\* When nothing is on its way and core plays, the last track_playback_started
\* that no track_playback_ended followed is of the current track: frontends
\* that only listen show the right track.
EventsTellCurrent ==
    running /\ Quiet /\ pb.state = "playing" => shown = pb.current

\* The current track of a player that is not stopped is in the tracklist, once
\* its events are handled: remove(), clear() and consume mode all notify
\* playback, which moves on or stops.
CurrentInTracklist ==
    running /\ pb.state # "stopped" /\ Quiet /\ pb.current # None =>
        pb.current \in Range(tl.tracks)

\* Core is never in state PLAYING when the last thing that clients asked for is
\* to stop or pause: no track change, end of track or removal resumes
\* playback.  stop() promises to stop, and next() and previous() to keep the
\* state.
PlaysOnlyIfAsked == pb.state = "playing" => wanted

\* Whatever clients, the pipeline and failing backends did before: a client
\* that finds nothing on its way and plays a track of the tracklist that has a
\* backend gets it, in core, in the pipeline and in the events, unless someone
\* calls in between; and a start gets the saved track, state and position.
AskedIsPlayed ==
    expected # None /\ Quiet =>
        /\ pb.state = expected.state
        /\ pb.current = expected.tlid
        /\ pb.pending = None
        /\ gst.source = expected.tlid
        /\ gst.state = IF expected.state = "playing" THEN "PLAYING" ELSE "PAUSED"
        /\ expected.position \in {None, gst.at}
        /\ shown = expected.tlid

\* What is heard is what core says: no sound comes from a track that core does
\* not play, also when tracks without a backend are skipped on the way.
HeardIsCurrent ==
    Quiet /\ Sounding => pb.state = "playing" /\ pb.current = gst.source

\* The search for a playable track ends.
NeverHangs == ~hung

-----------------------------------------------------------------------------
(* What no step does. *)

\* The seeked event, which core sends at the first position report after a
\* seek, tells the position the pipeline is at.
SeekedWhereTold ==
    [][pb.pendingPos # None /\ pb'.pendingPos = None /\ running'
        => gst'.at = pb.pendingPos]_vars

\* In repeat mode, play() finds a playable track if there is one, from whatever
\* track it starts and in whatever random round it is: the limit of
\* _try_until_playable is high enough.
PlaysAPlayable ==
    [][\A tlid \in 1 .. MaxTlid \union {None} :
        CallPlay(tlid) /\ tl.repeat /\ ~(Range(tl.tracks) \subseteq Orphans)
            => gst'.goal = "PLAYING"]_vars

\* In consume mode a track that listeners saw end, or saw replaced by another,
\* has left the tracklist, unless previous() was asked for.
ConsumedAreGone ==
    [][tl.consume /\ ~pb.previous /\ running' /\ shown \notin {None, shown'}
        => shown \notin Range(tl'.tracks)]_vars

-----------------------------------------------------------------------------
(* Liveness. *)

\* A track asked for starts to play, and a start restores what was saved, if
\* nobody calls in between.
AskedComes ==
    expected # None ~>
        \/ expected = None
        \/ shown = expected.tlid /\ pb.state = expected.state

\* Every seek is answered by a seeked event, or its process ends: clients that
\* wait for the event do not wait for ever.
SeekAnswered == pb.pendingPos # None ~> (pb.pendingPos = None \/ ~running)
=============================================================================
