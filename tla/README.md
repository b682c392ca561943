# Mopidy in TLA+

Specifications of Mopidy: the core, the audio actor over GStreamer, library and playlists, and
the process with its configuration, its actors and its web server. They are model checked with
TLC, and TLAPS checks proofs about the tracklist, the audio actor and what core takes it for,
the configuration, the volume on its way through the process, the playlist files and the search for something to play.
`PROJECT.json` lists the components, the runs, which lines each definition translates, and the hazards the properties
are for. Paths below are relative to `src/mopidy/`.

## The system

Mopidy is a set of actors (pykka threads with a mailbox each) around one core actor. A client
(HTTP/JSON-RPC, MPD, another frontend) sends core a call; core runs it to its end and answers.
Core calls backends and audio and waits for the answers; they tell core of changes by sending
events to its mailbox. GStreamer runs threads of its own under the audio actor.

| Component | State | Operations | Talks to |
|---|---|---|---|
| tracklist controller, `core/_tracklist.py` | tracks with TLIDs, next TLID, version, modes, random order, unplayable tracks | add, remove, move, shuffle, clear, set modes, next/previous/end-of-track lookup, save/load | playback (when the list changes or the current track leaves it), listeners |
| playback controller, `core/_playback.py` | state, current and pending track, pending state and position, saved start | play, pause, resume, stop, next, previous, seek; stream changed, end of stream, about-to-finish, position changed | tracklist, backends, audio, listeners |
| core actor, `core/_actor.py` | the controllers, the state file | setup and teardown (load, save), events of audio, mixer and backends | all of them |
| audio, `audio/_gst/` | GStreamer pipeline, target state, buffering, tags that wait | set uri, start, pause, stop, prepare change, seek; bus messages | core by events, and by a blocking call at about-to-finish |
| backends, `backend/`, `_exts/file`, `_exts/stream`, `_exts/m3u` | own libraries and playlists | playback, library and playlist providers | audio |
| library and playlists controllers | none | queries sent to every backend concerned, answers merged | backends, listeners |
| M3U playlists, `_exts/m3u` | files in a directory | create, save, rename, delete, look up | the file system |
| stream backend and media reader, `_exts/stream`, `media/` | none | look up a URI, find what to play for it | the web, GStreamer |
| mixer controller, `_exts/softwaremixer` | volume and mute, before and after audio hands over its element | set, get, events | audio, core |
| history controller | list of played tracks | add | - |
| HTTP frontend, `_exts/http` | server thread, web sockets | start, stop, JSON-RPC, event broadcast | core, clients |
| server, `_app/server.py` | the running actors | start in order, stop in reverse order | all |
| extensions and configuration | the configuration, the status of each extension | load, merge, validate, enable, print | - |
| models, command line | none | parse, print | - |

### What is hard

- A track change takes several events. `play()` only stores a pending track and asks GStreamer
  to start it; the answer is a `stream_changed` event that any number of client calls, the end
  of the old track, a seek or a removal can get in front of. Core tells the events of two
  changes apart by what happens to be pending, not by the stream they are of.
- `remove()` calls playback in the middle, and playback calls `remove()` in consume mode and
  when it meets unplayable tracks: the two controllers recurse through one another.
- The search for a playable track goes round the tracklist under modes that all bend the
  order, and has to end.
- about-to-finish queues the next track while the old one is still heard.
- A seek is stored until GStreamer reports a position; a saved start is stored through three
  events.
- The state file is deleted before it is applied, and the process may die at any point.
- Messages of GStreamer wait in the same mailbox as the calls of core: when one is handled, the
  stream it is of may be gone.
- Actors wait for each other in chains (web server, core, mixer, audio), start side by side,
  and are stopped in order while messages still go round.
- Backends answer at the same time, badly, or not what they were asked; playlist files are
  written in several steps, each of which may fail or be the last.

`PROJECT.json` has these one by one ("hazards"), each with its line.

### What makes each component correct

- Tracklist: TLIDs are unique and never reused, also over restarts; the random order holds
  what is left of the round; who listens to `tracklist_changed` is never behind; `shuffle()`
  and `move()` lose nothing; `previous()` undoes `next()`.
- Playback: core, its events and the pipeline agree once events are handled; what a client
  asked for is what plays; stop means stop; nothing loops for ever; consumed tracks are gone;
  every seek is answered.
- Core actor: what was saved is what is restored, once.
- Audio: a buffer that fills never starts what was paused or stopped, nor holds up another
  stream; tags and stream_changed are those of the stream that plays; a stream asked to play
  does in the end.
- Mixer: the level last asked for is the one heard, told to clients, and saved.
- Library and playlists: a backend that fails takes nothing from the others; a playlist file is
  whole at any time; listeners know what is in it.
- Media reader: finds the first playable stream of a web of playlists, or none if there is none.
- HTTP: each JSON-RPC message is answered in full, and truly, or not at all.
- Process: what is started is configured validly; once it begins to stop, it ends.

## The modules

    Types             TLIDs, and None
    SeqOps            what of a sequence is in a set, in its order
      SeqLemmas         facts about it, and about sequences
    TracklistOps      the tracklist controller's methods, as operators on a record
      Tracklist         the controller alone, under any playback controller
        MCTracklist       small instances
        TracklistProofs   theorems of Tracklist (with SeqLemmas)
    PipelineOps       audio as core sees it, as operators on a "world"
      Pipeline          the same as a specification: each operator a step
      GstAudio          the audio actor and GStreamer in detail; implements Pipeline
        MCGstAudio        a small instance
        GstAudioProofs    theorems of GstAudio: types, what plays, which stream core is
                          told of, what a buffer holds up, whose tags are shown
          GstAudioPipelineProofs   that it implements Pipeline (with SeqLemmas)
      PlaybackOps       the playback controller's methods (with TracklistOps)
        Core              core, its audio and clients together
          MCCore            small instances

    Actors            mailboxes, and calls that wait for an answer
      Server            the main thread: start, main loop, stop
      Mixer             the software mixer and its adapter in audio (with Values)
        Services          core, as far as it uses the mixer
          Http              HTTP frontend, web server and clients (with JsonRpc)
    Values            values of configuration and calls
      Config            types, schemas, sources (with SeqOps), extensions
    App               the process: Server, Http and Config composed
      MCApp             what it may find, in small
      AppProofs         theorems of App: what is heard, what is saved,
        WebProofs         what clients are told and answered (with SeqLemmas),
      ConfigProofs      and that it is set up soundly

    Media             the stream backend and the media reader
    M3U               the M3U playlists provider and its files
      Library           the two controllers, with all kinds of backends
        MCLibrary         calls, webs and files, in small
        LibraryProofs     theorems of Library: playlists are kept, what can be played is found, failures stay apart

**TracklistOps** has one operator per method. A TlTrack is its TLID. `random.shuffle` can give
any order, so a method that may shuffle gives the set of records it can leave.

**Tracklist** runs the controller alone. `remove()` is split where it calls playback: `calls`
counts the calls that wait there, and in between playback may do all it ever does to the
tracklist, in any order and nested (`PeekNext`, `PeekEot`, `SetCurrent`, `MarkTrackPlaying`,
`MarkTrackUnplayable`, `MarkPlayed`, `RemoveUnplayable`). Client calls need `calls = 0`, as the core
actor handles one message at a time. `Setup*`, `Shutdown` and `Crash` are `_setup()`,
`_teardown()` and a process that dies, possibly inside a `remove()`. `announced` and `dealt`
are history: what the last event told, and what left the random order since it was drawn.

**PlaybackOps** translates the playback controller. Its methods nest as the code's do, over
several controllers and audio at once, so they act on a *world*: a record of tracklist (`tl`),
playback (`pb`), pipeline (`gst`), the two mailboxes with events on their way (`bus` at audio,
`inbox` at core), the track listeners think is on (`shown`), and the faults of the backends.
A method gives the set of worlds it can leave. `Removed`, `TryUntilPlayable` and what they
call are one recursion, as in the code. A call from core to audio waits for the messages that audio
has before it (`Ask`). Positions are the start, somewhere inside, and past the end. The code's
`_last_position` only reaches event payloads and is left out, and so are stream titles, tags, the
history and the texts of events.

The pipeline (**PipelineOps**) is what the code in `audio/_gst` and its tests rely on: a
change from NULL or READY to PAUSED or PLAYING takes time and ends in a `stream_changed`; a
change to READY or NULL flushes the stream at once; a flush from past READY to NULL gives
`stream_changed(None)`; a seek fails with no stream and is followed by a SEGMENT event, which
core gets as `position_changed`; at about-to-finish the callback runs in core before the source
ends. `PlaybackOps` uses these operators inside the methods of core. **Pipeline** makes each of
them a step, and is the abstract specification of audio.

**GstAudio** is the audio actor itself. `playbin` is GStreamer's element, `audio` the fields of
the actor, `mailbox` its one mailbox, with calls of core and bus messages in the order they came.
There is one action per bus handler (`OnBuffering`, `OnTag`, ...), one per call of the API
(`PrepareChangeCall`, ...), and the moves of GStreamer (`Preroll`, `NextSourceStarts`,
`BufferRunsLow`, `ElementFails`, ...). Core is there as what `PlaybackProvider` makes of it: a
plan of calls, each waited for, that may break off where a backend fails. The callback at
about-to-finish blocks GStreamer's thread until core has handled it.

*The refinement.* `ImplementsPipeline` says that `GstAudio`, through the mapping `Seen`, is a
`Pipeline`: the state core sees is the state asked for as soon as the pipeline rolls, whether the
buffer holds it up or not; and the events it will see are those that the messages in the mailbox
will bring once the calls in front of them are handled. Buffering, tags, the two-step
STATE_CHANGED messages and messages that cross calls all map to stutters or to steps of `Pipeline`.
Run `audio` checks it on an instance, and `GstAudioPipelineProofs` proves it.

**Core** is the system: each client call, each event and each move of the pipeline is an
action. A method runs without interruption and all interleaving is between methods and
events. `wanted` and `expected` are history variables: whether clients want sound, and what
the last `play()` or start has to come to if nobody interferes.

**Actors** is pykka: `status` and `box` (mailbox) of each actor, and `answers`, what each thread
that asks is waiting for. An actor that waits for another has its message still at the head of
its mailbox, and does nothing else. A request to a dead actor is answered with ActorDeadError.

**Server** is the main thread, one step per function of `_app/server.py`, with `Interrupt`
(SIGINT, `exit_process()`) possible at each and `Terminate` (SIGTERM) in the main loop. An
interrupt during the start goes to the `finally` block, one during that block leaves the rest of
it out (`aborted`). **Mixer**, **Services** and **Http** are the actors along the path of the
volume: client, web server, core, mixer, audio, and back by events to each WebSocket. `wanted`
(what the mixer was last asked for), `told` (what a client was told) and `core.ready` are history.
**JsonRpc** is what a request comes to; Http runs a batch request by request, each a call to core
that others may come in between.

**Config** is the configuration as it is read: every value is a text of one kind (number, word,
list, pair, blank), each type has its `Deserialize` and `Serialize`, a schema gives values and
errors, and sources are merged file by file. **App** composes these: `Configure` is the launcher
up to the start of the first actor, and each thread is an action of `Next`.

**Media** unfolds the recursion of `MediaReader._try_uri` into a sequence of URIs that are left to
try, with the deadline free to pass at any fetch or scan. **M3U** has one action for each step on
a file: `Opens` the temporary file, `Writes` it, `Replaces` the playlist, `Renames` it, `Stats` it;
each may fail once. **Library** is a call of a client: core sends it to the backends concerned,
they answer in any order, and core takes the answers in its own (`CoreGets`). Backends `p` and
`q` answer in any of the ways in `OtherAnswer`; the stream and M3U backends are Media and M3U.

### Which clients

Two constants say what clients do. `Calls` are the calls they make; three of them are
variants of others by the state they are made in (`replay`: `play()` of the current track;
`pause_stopped`, `seek_stopped`: `pause()` and `seek()` when stopped). `Eager` are those made
at any time; the others wait until the last change came through (`Settled`): no event is on
its way, the pipeline is in the state asked for, and no next track is queued in it. The split
is needed because the code keeps most of its promises to patient clients only:

- A `stop()`, `next()`, `pause()`, `remove()` or `clear()` while a track change is under way
  lets the events of the old change be taken for those of the new one. Core and pipeline then
  disagree until the next `play()`. `add()` and the setters of modes are harmless at any time,
  and run `core_patient` has them so.
- `play()` of the current track in consume mode, and `next()` that comes back to the current
  track in random mode, remove it as it starts: state PLAYING, no current track.
- `pause()` when stopped reports PAUSED of whatever track was last; a `resume()` then plays it
  with no `track_playback_started`.
- `seek()` when stopped starts playback and changes or seeks the track it started, at once.

What does hold for all clients, at any time, is that core recovers: run `core_race`.

## The runs

| Run | Instance | What it shows |
|---|---|---|
| `tracklist` | 3 TLIDs, at most 3 tracks, 3 versions, all modes, restarts and crashes, nested `remove()` | the tracklist's promises hold under any playback controller |
| `core_patient` | 2 tracks, all modes but consume, restarts and crashes, fair; `add()` and modes at any time | core, events and pipeline agree; no playback unless asked for; what was asked for comes, and what was saved at its track, position and state; seeks are answered where they were told |
| `core_race` | 2 tracks, clients at any time with up to one event on its way, tracks that fail to start | whatever happened, the next undisturbed `play()` is obeyed |
| `core_unplayable` | 3 tracks, two of them of no backend | the search finds the playable track if repeat is on, and only the current track is heard |
| `core_consume` | up to 3 tracks, one of unknown length, consume and single | consumed tracks are gone, and the change they interrupt comes out right |
| `audio` | 2 streams, one of them live, tags, buffering or errors, one message on its way when something new comes up | the audio actor plays what is asked and nothing else, tells core of the right stream and tags, and implements what the runs of core assume |
| `app` | 40 or so configurations; starts with each failure and signals at any time; two clients with WebSockets, posts and batches | the process is set up soundly and ends; the last volume asked for is heard, told and saved |
| `library` | 22 calls with each pair of ways for two backends to answer; 588 webs of four pages; sequences of three calls on playlists; a fault and a crash anywhere | the answer to a call has what each backend gave and nothing of those that failed, playlists are kept, and what is playable is found |

Four runs show where the code does not do what it says. They are expected to fail.

| Run | What happens |
|---|---|
| `tracklist_full` | `add()` raises `TracklistFull` from its loop, with tracks added and no event or version for them |
| `tracklist_shuffle_end` | `shuffle(end=0)` takes 0 for no end where it cuts the rest, and loses every track |
| `core_stop` | after a `play()` that no backend could serve, `stop()` of the old track: its own `stream_changed` makes the failed track current and PLAYING |
| `core_hang` | `clear()` after such a `play()`, then `previous()`: the limit starts at 0, is lowered before it is tested, and the loop never ends |

**Bounds.** `MaxTlid` and `MaxVersion` bound counters; `MaxEvents` how many events a client
call can get in front of. Two tracks are enough to tell a track from its successor, from the one
played before and from itself in repeat mode; three are used where the middle of a list matters
(removal, the search for a playable track, the random round). One event in flight already
gives every order of one call and one event, and a call leaves its own events behind for the
next. In `tracklist`, three versions are enough for a `remove()` nested in a
`remove()`, and for a save after changes and a load after it. In `Core` the bounds stop client
calls only, never an event or a handler. In `tracklist` they stop whatever would increase the
version once more; a `remove()` that waits for playback always has room to return.
`core_patient` has the same states with one and with three events in front of a call.

In `audio`, `MaxQueue` stops only new client calls, tags and buffering messages while messages and
events are on their way, never a handler or what a handler brings; a call of several steps still has
any of them between its steps. `Reports` says which kinds of message GStreamer has in one
behaviour: tags, or buffering and errors; all at once multiply the states, and tags only meet the
rest where a stream is given up, which clients do as well. Two streams tell a stream from the one before. In `app` and `library` the settings
are a set of records, each with what happens: which files, which answers, which faults. Signals
(at most 2), faults and crashes (at most 1) are counters in the settings. Two volumes tell the
last from the one before, two clients a change of one's own from another's. Four pages give loops,
documents in documents and a dead end next to a playable stream; `MaxChunks` 2 lets a document be too long.

**Fairness.** Liveness assumes weak fairness of what runs by itself: the audio and core actors
handle their mailboxes (`Relay`, `Deliver`), GStreamer reaches a state it was told to reach and
passes the SEGMENT event it made (`StreamStarts`, `SegmentPasses`). pykka's loop takes every
message, and a pipeline that cannot start posts an error, which ends what is asked for. No
client has to call and no track has to end. In `audio`, the actor and core handle their
mailboxes, and GStreamer starts a stream and fills a buffer it waits for; that it runs low,
finds tags or fails need not happen, and `PlaysInTheEnd` allows for an error by its effect on the
target. In `app`, the main thread and each actor go on whenever they can: a thread that
waits is not able to. Signals and clients are not fair, nor is `Configure`, as nothing is said of
a process that does not start. `library` is checked for safety only.

**Mutants.** An operator under a comment `Mistake:` is a plausible bug in the definition that
follows it, used to make sure that each property can fail. No specification refers to it.

## The proofs

**The tracklist.** `TracklistProofs` proves, for every length limit, set of positions, batch size and bound:

| Theorem | Says |
|---|---|
| `TypeCorrect` | `Spec => []TypeOK` |
| `UniqueTlids` | TLIDs are unique and below the next, in the list and in the state file |
| `RandomOrderWithinTracklist` | the random order holds tracks of the list, each once, also in the middle of a `remove()` |
| `NoTlidComesBack` | a TLID that enters the list is new in the life of the process |
| `PreviousAfterNext` | outside repeat, consume and random mode, `previous()` undoes `next()` |

The inductive invariant `IInv` is `TypeOK`, `TracklistInv(tl)` and `StoredInv`. `TracklistInv`
joins what the operators need of one another: the TLIDs are unique and below `nextTlid`
(else a new block may collide), and the random order is duplicate free and within the list
(what a refill or a removal starts from). `StoredInv` says the same of the state file: it is
tomorrow's tracklist, and without it a load could break everything. The first part shows
that each operator of `TracklistOps` preserves `TracklistInv`, over lemmas about slices,
insertion, shuffles and filtering; one lemma per action is on top.
`PreviousAfterNext` follows from uniqueness: the position of the next track has one TLID, so its
index minus one is where `next()` came from.

Assumptions: `None` is not a number, the bounds are numbers, positions and batch sizes are
natural numbers, client options are options of the controller.

**The audio actor.** Proved for every set of streams, live or not, every set of positions, every
kind of report and every bound on what is on its way:

| Theorem | Says |
|---|---|
| `TypeCorrect` | `Spec => []TypeOK` |
| `AlwaysPlaysWhatIsAsked` | the pipeline plays only what core asked to be played, and what core asked for is held up only by a buffer that fills |
| `AlwaysToldWhatHasStarted` | the URI in `stream_changed` is that of the stream whose STREAM_START is handled |
| `OnlyHoldsUpItsStream` | a buffering message of a stream that was given up holds up no other |
| `AlwaysTagsOfTheStream` | when all is handled, the actor's tags and core's title are those of the stream that is on, or there are none |
| `ActorImplementsPipeline` | `Spec => ImplementsPipeline`: what core sees of the actor is a `Pipeline` |

Each is about messages that cross calls, so the invariants are about the order in the mailbox.

- Types: `IInv` joins `TypeOK` and `PlaysWhatIsAsked` with `CallsWait` (at most one call
  is in the mailbox, the first of core's plan, and core waits for it) and `StreamsAreKnown` (a
  pipeline that is to start has a URI, as a plan that starts it sets one before if there is none).
  `TypeOK` is not inductive without them: a call answered out of turn could leave a plan in
  which a start comes before any URI, and what then started would be no stream.
- The stream: the actor answers a STREAM_START with the URI set last, not
  with the one the message is of. `Told` says that each STREAM_START in the mailbox is of the URI set
  last and that no `set_uri` is in front of it; `PipelineHeld` is why: core sets a URI when the pipeline
  is down, or while the callback keeps the next stream from starting.
- The buffer: `HoldsBack` says that a buffering message of a stream that is
  gone is handled while the target is not to play, before the call that starts the next one. An
  error is the one thing that stops the pipeline with no call; `ErrorIsLast` and `ErrorIsFirst`
  say that nothing comes of an element after its error, and that core's next start comes behind it.
- The tags: a tag on its way is of the URI set last (`TagsAreOf`), as a stream is gone before core
  sets the next URI, or it is about to finish, which `mixed` notes; `NoTagBehind` is what makes a
  `set_uri` keep that. `StartIsTold` says when tags are put off: from `set_uri` until the STREAM_START,
  which is in the mailbox once the stream is on. In that time the actor's tags and the title may
  be those of the last stream, and `TagsAreRight` says nothing of them; after it they are
  of the stream that is on, the title as soon as core has heard `stream_changed`. TLC finds `TagInv`, which joins these, true in
  the instance of run `audio`, with a bound of 2 for `MaxQueue` too.
- `GstAudioPipelineProofs`: each action is, through the mapping, a step of `Pipeline` or a stutter.
  What a message brings depends on the state asked for when its turn comes, hence on the calls in
  front of it; as at most one call is there (`CallsWait`), that is the target, or what this call
  asks for (`AfterNone`, `AfterOne`). So the lemmas on the bus say what becomes of the events when
  a message is added or handled, and when the target changes under those that wait: a stop by the
  actor itself, on an error, must leave them the same. `TooLate` is why it does: behind an error there is no
  STATE_CHANGED to NULL that core is to hear of, unless NULL was asked for already. `IsRolling`
  implies that the pipeline is where it is to go, which tells a start from a stop that is under way.
  The invariant `PInv` joins these to the two above.

The library's induction theorems take an operator. `SeqLemmas` has induction over the naturals for
a set instead (`NatSetInduction`, from well-foundedness), and derives what `Chosen`, a recursive
function in place of `SelectSeq`, gives for an appended or a removed element.

Assumptions: URIs are TLIDs, live streams are streams, positions are those of `PipelineOps`,
`MaxQueue` is a number, no pipeline state is called None (GStreamer's VOID_PENDING), and neither is a
set of tags (`PendingTagsAssumption`). These invariants are also true in the instance TLC checks.

**The process.** `AppProofs` proves, for every set of backends, clients, scripts, levels, failures
and signals:

| Theorem | Says |
|---|---|
| `AppHearsLastSet` | `Spec => []LastSetIsHeard`: once nothing is on its way, the element has the level last asked for |
| `AppSavesWhatWasSet` | `Spec => SavesWhatWasSet`: the volume and mute saved at the end are those last asked for |

Between a `set_volume()` and the element are the mailboxes of core, mixer and audio, with a time
before the adapter is handed over in which the mixer keeps the level for itself, and a shutdown
that may begin anywhere. `IInv` has four parts:

- `StaffInv`: the post. `Post` says which messages are for whom, and that whoever waits has one
  question in one mailbox, and whoever does not has none; `NobodyThere` that nothing waits at an
  actor that is not there; `MainAsks` and `NotStarted` tie the mailboxes to where the main thread is.
- `TypeInv`: the types of what the actors keep, as far as the steps read it.
- `MixerInv`: `SetsArrive` is the heart. Before the adapter is handed over nothing is on its
  way to audio and `mixer.initial` is what is wanted; after that, the last `set` in audio's mailbox
  is, or the element if there is none. It holds as long as mixer and audio are there and are not
  asked to stop, and `StopsInTurn` says that this lasts until core is gone. `MixerWaits` says that
  the mixer handles nothing else while it asks audio.
- `CoreInv`: what is saved. Core asks for the volume and then for the mute, in its teardown, and a
  `set` that came after would make the answer stale. `ToldWhatHolds` says that none can: a
  `get` of core's is behind every `set` in the mixer's mailbox (`AsksAfterSets`), that of the mixer behind
  every one in audio's, and the only one to send a `set` is core, which is in its teardown
  (`CoreBusy`, `TeardownInTurn`).

The properties ask for little: the first that audio has handed over its element, the second that
the process has a mixer and core is ready (either may have failed to start).

Assumptions: backends are not named like other actors and no asker is called None; clients have
scripts, whose messages are garbage, a single request or a batch, and of what is exported they call the
methods modelled, of the volume or the mute (`ScriptsAssumption`); no level is None. TLC finds each part of `IInv` true in the instance of run `app`.

`WebProofs` proves, for the same:

| Theorem | Says |
|---|---|
| `AppTellsWhatIsReal` | `Spec => []ToldIsReal`: once nothing is on its way, each client with a WebSocket knows the levels it would be told if it asked |
| `AppAnswersTruly` | `Spec => []AnswersAreTrue`: a message is answered in full, in order and with its ids, or not at all if pydantic raises; the level that is answered is the one last asked for |

A new level passes the mailboxes of mixer, core and frontend and the callbacks of the web server
before a client is told, and the clients are those of the time at which the frontend hears of it.
`TellInv` says where it may be. `IsUnderWay` says that the last message about a property in
the last of the three mailboxes it has got to is of the level that the element has; each step that hands
the message on either keeps that or brings it to the next mailbox (`Handover`), and a newer one that
comes behind an older one never overtakes it. For a client, `IsTold` says that the real level is
either under way, or that no message is, and the last callback for this client and property has it, or there
is none and the client knows it. A client that opens while the level is under way is told twice, one that opens
after that was given the level of the element; that no callback of before is waiting for it is `Openings`.
`StaysUp` says that core and the frontend are there to hand messages on as soon as anybody can
listen, until the process is to stop: a message to an actor that has not started is lost, and then
there must be nobody to miss it (`NobodyListens`).

A client is one WebSocket, which opens once (`OpeningsAssumption`), as a callback is for a handler
and not for a peer; a peer that comes back is another client. TLC finds `TellInv` true in the
instance of run `app`.

`AppAnswersTruly` is about two things at once. That nothing is left out of a batch is `JobInv`: what was
answered so far has the ids of those of the requests done so far that are to be answered, in their
order (`OneMoreAnswered` is the step of it). That what is answered holds is harder, as the answer to a
`get` passes audio, mixer, core and the web server, each of which waits for the next, while others
set the level: the configuration, the restored state, the client itself by a notification that
nobody waited for. `TrueInv` follows the value back:

- `WebTold`: there is no request in core's mailbox behind that of the web server, which asks one at a time;
  so once core has handled it, nobody but core's setup is left to set anything, and `SetUpFirst`
  says that the setup is done before the web server serves.
- `CoreTold`: while core handles a `get`, its own `get` is the only message of it in the mixer's mailbox, and
  what it learns `Holds`: it is None or the level last asked for, and no `set` is left in that mailbox.
- `MixerTold`: no `set` is behind the `get` in the mixer's mailbox, and audio answers, by `IInv`,
  what was set last of all, as the mixer's own `get` is behind every `set` in audio's.
- `LevelsWanted`: what nobody asked for is not set, so that None is the truth too.
- `CoreDown`: the mixer and audio are asked to stop, or stopped, only when core is gone, so that
  `SetsArrive` holds whenever core asks.

TLC finds `TrueInv` true in the instance of run `app`.

`ConfigProofs` proves, for all files, command lines, schemas, extensions and their flaws:

| Theorem | Says |
|---|---|
| `AppSetUpIsSound` | `Spec => []SetUpIsSound`: what is started has valid values for the texts that count, and what has errors is off |

The property says of each value which text counts for it, file by file; the code merges all sources
section by section and key by key first. `TextCounts` shows that the two agree: the last source with a
key (`IsLastIn`) is found through the same cases when sources are put in a row (`LastOfConcat`)
and when files that cannot be read are left out (`LastOfChosen`). A section with no errors has values
that its types read from those texts and nothing else (`NoErrorsAreValid`); an extension that is on has none,
as one with errors is switched off before the configuration is closed (`ConfiguredIsSound`). `ConfInv`
then says that this holds from the start of the first actor, and that no actor of an extension
that is off is there, in each step of the main thread, the actors and the signals (`OnlyEnabled`).

Assumptions: an extension has a section of its own, with an `enabled` that is a boolean, as
`_app/extensions.py` asks of it (`ExtensionsAssumption`); none is named like an actor that is of no
extension, and flaws are of the kinds in `Flaws` (`SettingsAssumption`).

**Playlists and the media reader.** `LibraryProofs` proves, for every set of backends, calls, webs
and directories, and any number of failing steps and crashes:

| Theorem | Says |
|---|---|
| `FilesAlwaysWhole` | `Spec => []FilesAreWhole`: no playlist file is there in part |
| `PlaylistsKept` | `Spec => []PlaylistsAreKept`: what is answered to be saved is in its file, and listeners know every file until a step fails |
| `FailuresApart` | `Spec => []FailuresStayApart`: the answer to a call has what each of those asked has given, in the order they were asked, and nothing of those that failed |
| `PlayableIsFound` | `Spec => []FindsPlayable`: a search ends at media if any can be reached |

- `WholeInv`, the files: the temporary file is whole before it replaces a playlist, and the file that
  is then renamed is there and whole.
- `KeptInv`, the playlists. A change passes four places before a listener knows it: the file, the
  answer of the M3U backend, core's table of answers, and the result. `News` is the files whose
  change is in one of these, and `RestIsKnown` says that listeners know the others. `IsReal` says that
  an answer on its way is about the files as they are, which holds because the backend works on one
  request at a time, the one core waits for (`M3UIsSound`). `AnswersAreSound` says that such an answer
  is not lost: core is still to take it, or took it last, as `save` and `delete` ask one backend and
  `create` stops at the first answer. So at the end of the call it is what the event says
  (`ResultIsSound`). `ConcernedAre` is what the invariant needs of whom core asks.
- `ApartInv`, the answers. `FailuresStayApart` says what comes out of a call for every way in which the
  others answer, also with URIs of one another: an image of each that gave one, in the order of the call;
  the tracks of the last that gave some, since `lookup()` puts them in place of what it had; all that a
  search found, in order. It counts who is asked (`IsFor`) and what one gives (`Gives`) from the call and the ways
  the backends behave, not from what the model collects. `ApartInv` says it of a call that is not over, for those
  whose answer core has got: `MapIsRight` for mappings, which are put together URI by URI,
  `FromIsRight` for the rest. `OthersGive` and `StreamGives` say what answers are like while they wait:
  the stream backend works URI by URI, and `StreamWorks` says that what it has and what is left
  are the URIs it was asked for, in their order. That core asks whom a call is for, each once and in the
  order of the call, is a fact on the operators (`AskedIsFor`, `AskedInOrder`, `OwnersAre`,
  `OwnersInOrder`), as is that one more answer keeps what was collected in order (`SoFarMore`,
  `ListedInOrder`); the mutant that asks in the order of registration breaks just this.
- `SearchInv`, the search, which goes down a web that may lead in circles. What was tried or
  is left can be reached (`StaysReachable`); of what was tried none is what is searched for, and all
  that a document leads to was tried or is left (`IsExhausted`). When nothing is left, what was tried is
  hence closed under "leads to", and as `Reachable` is the smallest such set (`ReachableIsClosed`), there
  was nothing to find. For the order, `GoesDown`: what is left begins with what is new in the
  document tried last, with what was tried before among it and still to be skipped. The entries of a document
  are lists of alternatives that are put in a row by a recursive function; its type is proved by induction
  over the length (`FlattenType`).

Assumptions: files were whole when the process started (`StoredAssumption`); the web has pages, of
the kinds documents have (`WebAssumption`), and no target is called None (`TargetAssumption`); `Order`
lists backends, each once, a URI is of one that has a library, which M3U has not, and those of the stream backend are
the pages (`OrderAssumption`); clients call with such URIs, with none where the call takes none, and M3U is asked for what
core was called for (`CallsAssumption`); a way to answer badly is not called "value" (`BehavesAssumption`). TLC finds
`SearchInv`, `KeptInv` and `ApartInv` true in the instance of run `library`.

Only model checked:

- `RandomRound` speaks of whole rounds through history, and is not an invariant of every instance: a list
  filled past the limit breaks it, as no event redraws the order (run `tracklist_full` has the
  cause).
- `ClientViewCurrent` is false in general, for the same reason.
- Everything in `Core`: its methods are recursive operators, which TLAPS cannot reason about.
- Of `Library`: its types.
- Of `App`: its full types (`TypeOK`), and `ConfigReadsBack`, which holds for the types and values
  of the code but not for every schema.
- Liveness: `ProcessEnds` and the rest.

## What the models show about the code

Apart from the four runs above, writing the models showed behaviour that no document rules out.
The properties allow for it, each where its comment says so:

- A second signal in the `finally` block leaves the rest of the shutdown out (`aborted`).
- A stop of the HTTP frontend right after its start trips over `assert self.io_loop`, and the
  server thread stays (`web.left`).
- A JSON-RPC request that passes the checks by hand but not pydantic's raises out of the batch:
  requests before it have taken effect, and nobody is answered.
- A `LookupError` of one backend drops what all the others found in `search()`.  `FailuresStayApart`
  says that it does, and nothing else.
- `lookup()` takes tracks for URIs that the backend was not asked for, also over those of the
  backend they belong to; `get_images()` does not.
- `save()` of a playlist with a new name writes first and renames second; if the rename fails the
  tracks are saved and the answer is None. Listeners are told of the new name only. Creating or
  renaming onto an existing playlist replaces it, and `with_suffix()` cuts a new name at its last dot.
- A document that was fetched as the deadline passed does not count as something to play.
- A GStreamer error tells core of a stopped stream only, and core stays PLAYING.
- A text for `enabled` that is no boolean switches the extension off like `false` does.
- `filter()` with no criteria returns the controller's live list, so for a caller without a proxy
  it changes with the tracklist. The model's tracklist is a value.
- An unset optional boolean prints as `false`.
- The deadlock: while the callback at about-to-finish waits for core, a call of core that gives up
  the stream would wait for the thread the callback runs in. `GstAudio` has no client call in that
  time, as how GStreamer lets go of the thread is outside the code.

## Not modelled, and the plan

Next, in this order:

1. **Proofs**: for `App`, that an actor is stopped after those
   that use it, of which `CoreDown` is a part.
2. **A listener's view**: an abstract player (stopped, playing or paused on a track) driven by
   core's events only, as the abstract specification that `Core` implements for patient
   clients, and a consume mode with `replay` in which it does not.
3. **Errors in Core**: streams that fail while they play.

Left out for good:

- The history controller: it appends to a list, and is saved with the rest.
- The file backend: a read-only view of the file system. As an actor it is in App, as a library it
  answers like `p` or `q` in Library.
- What documents look like: the formats of playlists, tags and M3U lines are part of the data, with
  the result of parsing them.
- Of HTTP: static files, the list of clients, headers, cookies, zeroconf and the description of the
  API. Of the configuration: Float, keyrings, and reading of files. Of the command line:
  the parser, logging, and commands other than the server.
- Models: immutable data.
