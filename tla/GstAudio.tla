-------------------------------- MODULE GstAudio --------------------------------
(***************************************************************************)
(* The audio actor, mopidy.audio.GstAudio, between core and GStreamer.     *)
(*                                                                         *)
(* GStreamer posts messages from its own threads; they and the calls of    *)
(* core go through the one mailbox of the actor.  The actor keeps the      *)
(* state asked for apart from the one it sets while the buffer fills, puts *)
(* tags off until the stream they are of has started, and tells core by    *)
(* events.  Core is here what the backends' PlaybackProvider makes of it:  *)
(* it calls audio step by step and waits for each answer.                  *)
(***************************************************************************)
EXTENDS PipelineOps, SeqOps

CONSTANTS
    Uris,      \* the streams there are
    Live,      \* those that are live streams
    SeekTo,    \* where clients seek to
    Reports,   \* bound: sets of what GStreamer may report in one behaviour
    MaxQueue   \* bound: messages and events on their way when something new comes up

ASSUME UrisAssumption == Uris \subseteq Tlid
ASSUME LiveAssumption == Live \subseteq Uris
ASSUME SeekToAssumption == SeekTo \subseteq TrackPositions
ASSUME ReportsAssumption == Reports \subseteq SUBSET {"tag", "buffering", "error"}
ASSUME MaxQueueAssumption == MaxQueue \in Nat

VARIABLES
    playbin,   \* the playbin element: a pipeline as in PipelineOps, which reaches its goal by itself
    low,       \* its buffer runs low
    broken,    \* an element of it has failed
    callback,  \* where its thread is with the about-to-finish callback
    audio,     \* the fields of the actor
    mailbox,   \* messages for the actor, oldest first
    core,      \* core: the calls it is about, and the stream title it shows
    inbox,     \* events for core, oldest first; state_changed, which core ignores, is not there
    reports,   \* what GStreamer may report
    mixed      \* history: a tag was found when core was already asked for the next stream

vars == <<playbin, low, broken, callback, audio, mailbox, core, inbox, reports, mixed>>

GstStates == {"NULL", "READY", "PAUSED", "PLAYING"}

\* VOID_PENDING, which is None here, is not a state on the way to another.
ASSUME VoidPendingAssumption == None \notin GstStates

\* No tags put off is not the same as no tags.
ASSUME PendingTagsAssumption == \A tags \in SUBSET Uris : tags # None

AudioType ==
    [target : GstStates, buffering : BOOLEAN, state : GstStates \ {"READY"},
     tags : SUBSET Uris, pendingUri : Uris \union {None},
     pendingTags : (SUBSET Uris) \union {None}]

\* A stream has one tag, its title, which stands for itself by its URI.
InitAudio ==
    [target |-> "NULL", buffering |-> FALSE, state |-> "NULL",
     tags |-> {}, pendingUri |-> None, pendingTags |-> None]

CallType ==
    [type : {"prepare_change", "stop_playback", "start_playback", "pause_playback",
             "get_current_tags"}]
      \union [type : {"set_uri"}, uri : Uris] \union [type : {"set_position"}, pos : TrackPositions]

MessageType ==
    [type : {"stream_start", "tag"}, of : Uris]
      \union [type : {"buffering"}, percent : {0, 100}, live : BOOLEAN, stale : BOOLEAN]
      \union [type : {"state_changed"}, new : GstStates, pending : GstStates \union {None}]
      \union [type : {"end_of_stream", "error"}]

EventType ==
    [type : {"stream_changed"}, uri : Uris \union {None}]
      \union [type : {"reached_end_of_stream", "position_changed", "tags_changed",
                      "about_to_finish"}]

TypeOK ==
    /\ playbin \in PipelineType
    /\ {low, broken, mixed} \subseteq BOOLEAN
    /\ callback \in {"none", "asked", "handled"}
    /\ audio \in AudioType
    /\ mailbox \in Seq(MessageType \union CallType)
    /\ core \in [plan : Seq(CallType), waits : BOOLEAN, title : Uris \union {None}]
    /\ reports \in Reports
    /\ inbox \in Seq(EventType)

Init ==
    /\ playbin = InitPipeline
    /\ low = FALSE /\ broken = FALSE /\ callback = "none" /\ mixed = FALSE
    /\ audio = InitAudio
    /\ mailbox = << >> /\ inbox = << >>
    /\ core = [plan |-> << >>, waits |-> FALSE, title |-> None]
    /\ reports \in Reports

-----------------------------------------------------------------------------
(* The pipeline, as the actor's set_state finds it.  A change to READY or   *)
(* NULL is done when set_state returns, and GStreamer has posted a          *)
(* STATE_CHANGED for each state on the way, but for the last one, to NULL.  *)

StateChanged(new, pending) == [type |-> "state_changed", new |-> new, pending |-> pending]

IsRolling == playbin.state \in {"PAUSED", "PLAYING"}

PostedOnTheWayTo(state) ==
    (IF playbin.state = "PLAYING" THEN <<StateChanged("PAUSED", state)>> ELSE << >>)
    \o (IF IsRolling
        THEN <<StateChanged("READY", IF state = "NULL" THEN "NULL" ELSE None)>>
        ELSE << >>)

\* The stream in the pipeline, or the one it is about to start.
StreamOf(pipeline) ==
    IF pipeline.source # None THEN pipeline.source
    ELSE IF pipeline.goal \in {"PAUSED", "PLAYING"} THEN pipeline.uri ELSE None

\* History: what the messages say of the buffer is of a stream that is gone.
Staled(messages) ==
    [i \in DOMAIN messages |->
        IF messages[i].type = "buffering" THEN [messages[i] EXCEPT !.stale = TRUE]
        ELSE messages[i]]

\* set_state(NULL) and set_state(READY), which give up the stream.  `rest` is
\* the mailbox when the actor makes the call.
SetDown(state, rest) ==
    /\ playbin' = [InitPipeline EXCEPT !.uri = playbin.uri, !.state = state, !.goal = state]
    /\ low' = FALSE /\ broken' = FALSE
    /\ mailbox' = Staled(rest) \o PostedOnTheWayTo(state)

\* set_state(PAUSED) and set_state(PLAYING): a stream that rolls changes at once.
SetUp(state, rest) ==
    /\ playbin' = [playbin EXCEPT !.goal = state, !.state = IF IsRolling THEN state ELSE @]
    /\ mailbox' = IF IsRolling /\ playbin.state # state
                  THEN Append(rest, StateChanged(state, None)) ELSE rest
    /\ UNCHANGED <<low, broken>>

-----------------------------------------------------------------------------
(* Handlers of bus messages. *)

Tell(events) == inbox' = inbox \o events

\* The actor takes a message of this type.
Receive(type) == mailbox # << >> /\ Head(mailbox).type = type

ReceiveOnly(type) ==
    /\ Receive(type)
    /\ mailbox' = Tail(mailbox)
    /\ UNCHANGED <<playbin, low, broken, callback, core, reports, mixed>>

\* The change to READY is the last GStreamer tells of a change to NULL.
StateOf(m) == IF m.new = "READY" /\ m.pending = "NULL" THEN "NULL" ELSE m.new

\* Mistake: READY is taken for a state.
IsFinal(m) == m.pending = None \/ StateOf(m) = "NULL"

\* A change on the way to another is ignored, and READY is not a state of Mopidy.
IsState(m) == StateOf(m) # "READY" /\ (m.pending = None \/ StateOf(m) = "NULL")

\* And what happens between tracks is not told.
IsTold(m, target) == IsState(m) /\ target # "READY"

OnStateChanged ==
    /\ ReceiveOnly("state_changed")
    /\ LET m == Head(mailbox)
       IN  /\ audio' = IF IsState(m) THEN [audio EXCEPT !.state = StateOf(m)] ELSE audio
           /\ Tell(IF IsTold(m, audio.target) /\ StateOf(m) = "NULL"
                   THEN <<[type |-> "stream_changed", uri |-> None]>> ELSE << >>)

\* Mistake: also between tracks.
BuffersAnyTime(m) == ~m.live

Buffers(m) == audio.target \in {"PAUSED", "PLAYING"} /\ ~m.live

\* Mistake: it goes on only if it was not on hold.
ResumesIfPlaying == audio.state = "PLAYING"

Resumes == audio.target = "PLAYING"

OnBuffering ==
    /\ Receive("buffering")
    /\ LET m == Head(mailbox)
       IN  IF Buffers(m) /\ m.percent < 10 /\ ~audio.buffering
           THEN /\ SetUp("PAUSED", Tail(mailbox))
                /\ audio' = [audio EXCEPT !.buffering = TRUE]
           ELSE IF Buffers(m) /\ m.percent = 100
           THEN /\ audio' = [audio EXCEPT !.buffering = FALSE]
                /\ IF Resumes THEN SetUp("PLAYING", Tail(mailbox))
                   ELSE mailbox' = Tail(mailbox) /\ UNCHANGED <<playbin, low, broken>>
           ELSE mailbox' = Tail(mailbox) /\ UNCHANGED <<playbin, low, broken, audio>>
    /\ UNCHANGED <<callback, core, inbox, reports, mixed>>

OnEndOfStream ==
    /\ ReceiveOnly("end_of_stream")
    /\ audio' = [audio EXCEPT !.tags = {}]
    /\ Tell(<<[type |-> "reached_end_of_stream"]>>)

\* Mistake: with the stream its URI is forgotten.
StoppedForGood ==
    [audio EXCEPT !.buffering = FALSE, !.target = "NULL", !.pendingUri = None]

Stopped == [audio EXCEPT !.buffering = FALSE, !.target = "NULL"]

OnError ==
    /\ Receive("error") /\ callback = "none"
    /\ SetDown("NULL", Tail(mailbox))
    /\ audio' = Stopped
    /\ UNCHANGED <<callback, core, inbox, reports, mixed>>

OnTag ==
    /\ ReceiveOnly("tag")
    /\ LET tags == {Head(mailbox).of}
       IN  IF audio.pendingTags # None
           THEN audio' = [audio EXCEPT !.pendingTags = tags] /\ UNCHANGED inbox
           ELSE IF audio.tags = tags THEN UNCHANGED <<audio, inbox>>
           ELSE /\ audio' = [audio EXCEPT !.tags = tags]
                /\ Tell(<<[type |-> "tags_changed"]>>)

\* Mistake: the tags of the last stream stay.
OnStreamStartKeepsTags ==
    /\ ReceiveOnly("stream_start")
    /\ audio' = [audio EXCEPT !.pendingTags = None]
    /\ Tell(<<[type |-> "stream_changed", uri |-> audio.pendingUri]>>)

OnStreamStart ==
    /\ ReceiveOnly("stream_start")
    /\ LET tags == IF audio.pendingTags = None THEN {} ELSE audio.pendingTags
       IN  /\ audio' = [audio EXCEPT !.pendingTags = None, !.tags = tags]
           /\ Tell(<<[type |-> "stream_changed", uri |-> audio.pendingUri]>>
                   \o IF tags # {} THEN <<[type |-> "tags_changed"]>> ELSE << >>)

-----------------------------------------------------------------------------
(* Calls of core, and their answers: core goes on with its plan. *)

Answer == core' = [core EXCEPT !.plan = Tail(@), !.waits = FALSE]

\* A change that needs the pipeline's own threads to let go waits for the
\* callback they are in.
PrepareChangeCall ==
    /\ Receive("prepare_change") /\ callback = "none"
    /\ SetDown("READY", Tail(mailbox))
    /\ audio' = [audio EXCEPT !.buffering = FALSE, !.target = "READY"]
    /\ Answer
    /\ UNCHANGED <<callback, inbox, reports, mixed>>

StopPlaybackCall ==
    /\ Receive("stop_playback") /\ callback = "none"
    /\ SetDown("NULL", Tail(mailbox))
    /\ audio' = Stopped
    /\ Answer
    /\ UNCHANGED <<callback, inbox, reports, mixed>>

StartPlaybackCall ==
    /\ Receive("start_playback")
    /\ SetUp("PLAYING", Tail(mailbox))
    /\ audio' = [audio EXCEPT !.target = "PLAYING"]
    /\ Answer
    /\ UNCHANGED <<callback, inbox, reports, mixed>>

\* Mistake: the state asked for is only noted once the stream is there.
PauseKeepsTarget ==
    /\ Receive("pause_playback")
    /\ SetUp("PAUSED", Tail(mailbox))
    /\ audio' = IF IsRolling THEN [audio EXCEPT !.target = "PAUSED"] ELSE audio
    /\ Answer
    /\ UNCHANGED <<callback, inbox, reports, mixed>>

PausePlaybackCall ==
    /\ Receive("pause_playback")
    /\ SetUp("PAUSED", Tail(mailbox))
    /\ audio' = [audio EXCEPT !.target = "PAUSED"]
    /\ Answer
    /\ UNCHANGED <<callback, inbox, reports, mixed>>

SetUriCall ==
    /\ Receive("set_uri")
    /\ LET uri == Head(mailbox).uri
       IN  /\ playbin' = [playbin EXCEPT !.uri = uri,
                                         !.queued = IF IsRolling THEN uri ELSE None]
           /\ audio' = [audio EXCEPT !.pendingUri = uri, !.pendingTags = {}]
    /\ mailbox' = Tail(mailbox)
    /\ mixed' = (mixed /\ IsRolling)
    /\ Answer
    /\ UNCHANGED <<low, broken, callback, inbox, reports>>

SetPositionCall ==
    /\ Receive("set_position") /\ callback = "none"
    /\ playbin' = IF IsRolling /\ playbin.source # None
                  THEN [playbin EXCEPT !.at = Head(mailbox).pos, !.segment = TRUE,
                                       !.ended = FALSE, !.finishing = FALSE]
                  ELSE playbin
    /\ mailbox' = Tail(mailbox)
    /\ Answer
    /\ UNCHANGED <<low, broken, callback, audio, inbox, reports, mixed>>

\* The rest of Core.tags_changed is in the answer.
GetCurrentTagsCall ==
    /\ Receive("get_current_tags")
    /\ mailbox' = Tail(mailbox)
    /\ core' = [core EXCEPT !.plan = Tail(@), !.waits = FALSE,
                            !.title = IF audio.tags = {} THEN @
                                      ELSE CHOOSE title \in audio.tags : TRUE]
    /\ UNCHANGED <<playbin, low, broken, callback, audio, inbox, reports, mixed>>
-----------------------------------------------------------------------------
(* Core. *)

CallOf(type) == [type |-> type]
SetUriOf(uri) == [type |-> "set_uri", uri |-> uri]

\* What the playback controller has a PlaybackProvider do.  A change can end
\* before the track is set, when the backend has no URI for it, and before it
\* starts.
Changes ==
    { SubSeq(<<CallOf("prepare_change"), SetUriOf(uri), CallOf(start)>>, 1, n) :
        uri \in Uris, start \in {"start_playback", "pause_playback"}, n \in 1 .. 3 }

Plans ==
    Changes \union { <<CallOf(type)>> : type \in
                        {"stop_playback", "start_playback", "pause_playback"} }
            \union { <<[type |-> "set_position", pos |-> pos]>> : pos \in SeekTo }

\* A call that waits in the mailbox does not count.
Room == Len(mailbox) + Len(inbox) < MaxQueue + (IF core.waits THEN 1 ELSE 0)

Idle == core.plan = << >>

\* A client makes core act.  While the callback for about-to-finish waits, no
\* client may: core would wait for audio, which waits for the callback's thread.
ClientCalls ==
    /\ Idle /\ callback = "none" /\ Room
    /\ \E plan \in (IF playbin.uri = None THEN Changes ELSE Plans) :
          core' = [core EXCEPT !.plan = plan]
    /\ UNCHANGED <<playbin, low, broken, callback, audio, mailbox, inbox, reports, mixed>>

CoreAsks ==
    /\ ~Idle /\ ~core.waits
    /\ mailbox' = Append(mailbox, Head(core.plan))
    /\ core' = [core EXCEPT !.waits = TRUE]
    /\ UNCHANGED <<playbin, low, broken, callback, audio, inbox, reports, mixed>>

\* Core handles an event.
CoreHears ==
    /\ Idle /\ inbox # << >> /\ Head(inbox).type # "about_to_finish"
    /\ LET event == Head(inbox)
       IN  core' = CASE event.type = "stream_changed" -> [core EXCEPT !.title = None]
                     [] event.type = "tags_changed" ->
                            [core EXCEPT !.plan = <<CallOf("get_current_tags")>>]
                     [] OTHER -> core
    /\ inbox' = Tail(inbox)
    /\ UNCHANGED <<playbin, low, broken, callback, audio, mailbox, reports, mixed>>

\* Core handles the callback: it sets the next track, if there is one.
CoreAnswersCallback ==
    /\ Idle /\ inbox # << >> /\ Head(inbox).type = "about_to_finish"
    /\ inbox' = Tail(inbox)
    /\ callback' = "handled"
    /\ \E plan \in {<< >>} \union {<<SetUriOf(uri)>> : uri \in Uris} :
          core' = [core EXCEPT !.plan = plan]
    /\ UNCHANGED <<playbin, low, broken, audio, mailbox, reports, mixed>>

CallbackReturns ==
    /\ callback = "handled" /\ Idle
    /\ callback' = "none"
    /\ UNCHANGED <<playbin, low, broken, audio, mailbox, core, inbox, reports, mixed>>

-----------------------------------------------------------------------------
(* GStreamer. *)

Post(messages) == mailbox' = mailbox \o messages

Starting == playbin.goal \in {"PAUSED", "PLAYING"} /\ ~IsRolling /\ ~broken

StreamStart(uri) == [type |-> "stream_start", of |-> uri]

Preroll ==
    /\ Starting
    /\ playbin' = [playbin EXCEPT !.state = playbin.goal, !.source = playbin.uri,
                                  !.at = 0, !.segment = TRUE]
    /\ Post(<<StreamStart(playbin.uri), StateChanged(playbin.goal, None)>>)
    /\ UNCHANGED <<low, broken, callback, audio, core, inbox, reports, mixed>>

\* The probe on the output tells core itself.
SegmentPasses ==
    /\ playbin.segment
    /\ playbin' = [playbin EXCEPT !.segment = FALSE]
    /\ Tell(<<[type |-> "position_changed"]>>)
    /\ UNCHANGED <<low, broken, callback, audio, mailbox, core, reports, mixed>>

Plays == playbin.state = "PLAYING" /\ playbin.source # None /\ ~playbin.ended /\ ~broken

\* All the data of the source is read.  The thread that finds it so waits for
\* core.  It does not come to it while core has audio take the stream away.
SourceFinishes ==
    /\ Plays /\ ~playbin.finishing /\ ~low /\ Idle
    /\ playbin' = [playbin EXCEPT !.finishing = TRUE]
    /\ callback' = "asked"
    /\ Tell(<<[type |-> "about_to_finish"]>>)
    /\ UNCHANGED <<low, broken, audio, mailbox, core, reports, mixed>>

AtEnd == Plays /\ playbin.finishing /\ callback = "none"

NextSourceStarts ==
    /\ AtEnd /\ playbin.queued # None
    /\ playbin' = [playbin EXCEPT !.source = playbin.queued, !.queued = None,
                                  !.at = 0, !.finishing = FALSE, !.segment = TRUE]
    /\ Post(<<StreamStart(playbin.queued)>>)
    /\ UNCHANGED <<low, broken, callback, audio, core, inbox, reports, mixed>>

SourceEnds ==
    /\ AtEnd /\ playbin.queued = None
    /\ playbin' = [playbin EXCEPT !.ended = TRUE]
    /\ Post(<<[type |-> "end_of_stream"]>>)
    /\ UNCHANGED <<low, broken, callback, audio, core, inbox, reports, mixed>>

\* A tag of the stream is found.
FindTag ==
    /\ "tag" \in reports
    /\ Room /\ ~broken /\ StreamOf(playbin) # None
    /\ Post(<<[type |-> "tag", of |-> StreamOf(playbin)]>>)
    /\ mixed' = (mixed \/ playbin.finishing \/ playbin.queued # None)
    /\ UNCHANGED <<playbin, low, broken, callback, audio, core, inbox, reports>>

Buffering(percent) ==
    /\ "buffering" \in reports
    /\ ~broken /\ StreamOf(playbin) # None
    /\ Post(<<[type |-> "buffering", percent |-> percent, live |-> StreamOf(playbin) \in Live,
               stale |-> FALSE]>>)
    /\ UNCHANGED <<playbin, broken, callback, audio, core, inbox, reports, mixed>>

\* A source that is read to its end counts as full.
BufferRunsLow == Room /\ ~low /\ ~playbin.finishing /\ low' = TRUE /\ Buffering(0)
BufferFills == low /\ low' = FALSE /\ Buffering(100)

ElementFails ==
    /\ "error" \in reports
    /\ ~broken /\ callback = "none" /\ StreamOf(playbin) # None
    /\ broken' = TRUE
    /\ Post(<<[type |-> "error"]>>)
    /\ UNCHANGED <<playbin, low, callback, audio, core, inbox, reports, mixed>>
-----------------------------------------------------------------------------

Actor ==
    \/ OnStateChanged \/ OnBuffering \/ OnEndOfStream \/ OnError \/ OnTag \/ OnStreamStart
    \/ PrepareChangeCall \/ StopPlaybackCall \/ StartPlaybackCall \/ PausePlaybackCall
    \/ SetUriCall \/ SetPositionCall \/ GetCurrentTagsCall

CoreActs == CoreAsks \/ CoreHears \/ CoreAnswersCallback \/ CallbackReturns

Next ==
    \/ Actor \/ CoreActs \/ ClientCalls
    \/ Preroll \/ SegmentPasses \/ SourceFinishes \/ NextSourceStarts \/ SourceEnds
    \/ FindTag \/ BufferRunsLow \/ BufferFills \/ ElementFails

Spec == Init /\ [][Next]_vars

\* Actors handle their mailboxes, GStreamer starts what it is told to start and
\* fills a buffer it waits for.
FairSpec ==
    /\ Spec
    /\ WF_vars(Actor) /\ WF_vars(CoreActs)
    /\ WF_vars(Preroll) /\ WF_vars(SegmentPasses) /\ WF_vars(BufferFills)
-----------------------------------------------------------------------------
(* Safety. *)

\* Nothing is on its way.
Quiet ==
    /\ mailbox = << >> /\ inbox = << >> /\ Idle /\ callback = "none"
    /\ ~Starting /\ ~broken

\* Sound comes from the pipeline only if that is the last thing core asked for:
\* a buffer that is full again never starts a stream that was paused, stopped or
\* exchanged meanwhile, and a pipeline that is to play is on hold only to fill
\* its buffer.
PlaysWhatIsAsked ==
    /\ playbin.goal = "PLAYING" => audio.target = "PLAYING"
    /\ audio.target = "PLAYING" /\ playbin.goal # "PLAYING" => audio.buffering

\* stream_changed tells the URI of the stream that has started: the one set last
\* is still the one that a STREAM_START is of when its turn comes.
StreamToldHasStarted ==
    Receive("stream_start") => Head(mailbox).of = audio.pendingUri

\* When all is handled, tags and stream title are those of the stream that is
\* on, or there are none; unless tags of the last one came after its about-to-finish.
TagsOfTheStream ==
    Quiet /\ playbin.source # None /\ ~playbin.ended /\ ~mixed =>
        /\ audio.tags \subseteq {playbin.source}
        /\ core.title \in {None, playbin.source}

\* A buffer that ran low before core had the stream exchanged or stopped never
\* holds up what is played next.
HoldsUpItsStream ==
    [][~audio.buffering /\ audio'.buffering => ~Head(mailbox).stale]_vars

-----------------------------------------------------------------------------
(* Core's view of it. *)

TargetOf(m) ==
    CASE m.type = "prepare_change" -> {"READY"}
      [] m.type = "stop_playback"  -> {"NULL"}
      [] m.type = "start_playback" -> {"PLAYING"}
      [] m.type = "pause_playback" -> {"PAUSED"}
      [] OTHER -> {}

\* The state asked for once the first i messages are handled: core has one call
\* in the mailbox at most.
TargetAfter(i) ==
    LET asked == UNION {TargetOf(mailbox[j]) : j \in 1 .. i}
    IN  IF asked = {} THEN audio.target ELSE CHOOSE state \in asked : TRUE

\* The event that the i-th message will bring, of those core acts on.
EventOf(i) ==
    LET m == mailbox[i]
    IN  CASE m.type = "stream_start"  -> "stream_changed"
          [] m.type = "end_of_stream" -> "reached_end_of_stream"
          [] m.type = "state_changed" ->
                IF IsTold(m, TargetAfter(i)) /\ StateOf(m) = "NULL" THEN "stream_changed" ELSE "none"
          [] OTHER -> "none"

CoreEvents == {"stream_changed", "reached_end_of_stream", "position_changed"}

EventsOf(names) == Chosen(names, CoreEvents)

\* For core the pipeline is in the state asked for as soon as it rolls, whether
\* its buffer holds it up or not.
SeenGst == [playbin EXCEPT !.state = IF IsRolling THEN audio.target ELSE @, !.goal = audio.target]

SeenBus == EventsOf([i \in DOMAIN mailbox |-> EventOf(i)])

SeenInbox == EventsOf([i \in DOMAIN inbox |-> inbox[i].type])

Seen == INSTANCE Pipeline WITH gst <- SeenGst, bus <- SeenBus, inbox <- SeenInbox

\* The actor and GStreamer together are the audio that core's own model assumes:
\* buffering, tags and messages that cross calls do not show.
ImplementsPipeline == Seen!Spec

-----------------------------------------------------------------------------
(* Liveness. *)

\* A stream that is asked to play does, however often its buffer runs low, or
\* something else is asked for.
PlaysInTheEnd ==
    audio.target = "PLAYING" ~> (playbin.state = "PLAYING" \/ audio.target # "PLAYING")
=============================================================================
