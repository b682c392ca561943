----------------------------- MODULE Tracklist ------------------------------
(***************************************************************************)
(* The TracklistController on its own, under any PlaybackController.       *)
(*                                                                         *)
(* The controller runs in the core actor, so its methods never overlap.    *)
(* They do nest: remove() calls playback._on_current_track_removed() after *)
(* the tracks left the list and before the version is increased, and that  *)
(* call comes back with _get_next_tl_track(), _mark_unplayable(),          *)
(* _remove_unplayable() and so further remove() calls.  `calls` counts the *)
(* remove() calls that wait for playback; while it is positive no client   *)
(* call runs, and the actions of the second group are what playback may    *)
(* do.  Nothing else is assumed of playback.                               *)
(*                                                                         *)
(* A clean shutdown saves the tracklist, a crash does not, and the next    *)
(* start loads what was saved and deletes the file.                        *)
(***************************************************************************)
EXTENDS TracklistOps

CONSTANTS
    Positions,     \* the positions and slice bounds clients pass, 0-based
    BatchSizes,    \* how many tracks one add() brings
    ClientOptions, \* the options clients change besides random
    MaxTlid,       \* bound: TLIDs handed out by the model
    MaxVersion     \* bound: version increases in the model

ASSUME PositionsAssumption == Positions \subseteq Nat
ASSUME BatchAssumption == BatchSizes \subseteq Nat
ASSUME OptionsAssumption == ClientOptions \subseteq Options
ASSUME BoundsAssumption == MaxTlid \in Nat /\ MaxVersion \in Nat

VARIABLES
    tl,         \* the fields of the controller
    current,    \* playback._current_tl_track
    calls,      \* remove() calls that wait for playback
    running,    \* core._setup() is done
    stored,     \* the tracklist in the state file, or None
    announced,  \* history: the tracks at the last tracklist_changed event
    dealt       \* history: marked playing or unplayable since the last shuffle

vars == <<tl, current, calls, running, stored, announced, dealt>>

StoredType ==
    [tracks : Seq(Tlid), nextTlid : Tlid, consume : BOOLEAN,
     random : BOOLEAN, repeat : BOOLEAN, single : BOOLEAN]

TypeOK ==
    /\ tl \in TracklistType
    /\ current \in TlidOrNone
    /\ calls \in Nat
    /\ running \in BOOLEAN
    /\ stored \in StoredType \union {None}
    /\ announced \in Seq(Tlid)
    /\ dealt \subseteq Tlid

Init ==
    /\ tl = InitTracklist
    /\ current = None
    /\ calls = 0
    /\ running = FALSE
    /\ stored = None
    /\ announced = << >>
    /\ dealt = {}

-----------------------------------------------------------------------------
(* Start and end of the process. *)

\* The bound on version increases, with those that open remove() calls owe.
VersionRoom == tl.version + calls < MaxVersion

\* _increase_version: playback hears of the new list, the random order is
\* drawn again and tracklist_changed is sent.
Announce(t) ==
    /\ tl' \in IncreaseVersion(t)
    /\ announced' = t.tracks
    /\ current' = IF t.tracks = << >> THEN None ELSE current
    /\ dealt' = {}

\* Core._setup with an empty data directory, or with restore_state off.
SetupFresh ==
    /\ ~running /\ stored = None
    /\ running' = TRUE
    /\ UNCHANGED <<tl, current, calls, stored, announced, dealt>>

\* Core._setup with a state file, which is deleted before it is applied.
SetupStored ==
    /\ ~running /\ stored # None
    /\ running' = TRUE
    /\ stored' = None
    /\ VersionRoom
    /\ Announce(LoadTracklist(tl, stored))
    /\ UNCHANGED calls

\* A new process: every field is as __init__ left it.
Reset ==
    /\ tl' = InitTracklist
    /\ current' = None
    /\ calls' = 0
    /\ running' = FALSE
    /\ announced' = << >>
    /\ dealt' = {}

\* Core._teardown, then the process ends.
Shutdown ==
    /\ running /\ calls = 0
    /\ stored' = SaveTracklist(tl)
    /\ Reset

\* The process dies, possibly inside a remove().
Crash ==
    /\ running
    /\ Reset
    /\ UNCHANGED stored

-----------------------------------------------------------------------------
(* Calls of clients.  They are messages of their own to the core actor. *)

Client == running /\ calls = 0 /\ VersionRoom

Add(n, pos) ==
    /\ Client
    /\ tl.nextTlid + n <= MaxTlid + 1
    /\ LET t == AddTracks(tl, n, pos)
       IN  IF n > AddRoom(tl)
           THEN /\ tl' = t                \* TracklistFull is raised
                /\ UNCHANGED <<current, announced, dealt>>
           ELSE IF n = 0 THEN UNCHANGED <<tl, current, announced, dealt>>
           ELSE Announce(t)
    /\ UNCHANGED <<calls, running, stored>>

\* Mistake: an empty tracklist hands out its TLIDs again.
ClearTlids ==
    /\ Client
    /\ Announce([tl EXCEPT !.tracks = << >>, !.nextTlid = 1])
    /\ UNCHANGED <<calls, running, stored>>

Clear ==
    /\ Client
    /\ Announce([tl EXCEPT !.tracks = << >>])
    /\ UNCHANGED <<calls, running, stored>>

Move(start, end, to) ==
    /\ Client
    /\ LET last == IF start = end THEN end + 1 ELSE end
       IN  /\ CanMove(tl, start, last, to)
           /\ Announce(MoveTracks(tl, start, last, to))
    /\ UNCHANGED <<calls, running, stored>>

Shuffle(start, end) ==
    /\ Client
    /\ CanShuffle(tl, start, end)
    /\ \E t \in ShuffleTracks(tl, start, end) : Announce(t)
    /\ UNCHANGED <<calls, running, stored>>

\* remove() on t: the tracks leave the list.  If the current track is one of
\* them and others stay, playback is called before the version is increased.
Remove(t, R) ==
    /\ VersionRoom
    /\ IF current \in R /\ ~(Range(t.tracks) \subseteq R)
       THEN \E r \in NextRemaining(t, current, R) :
                /\ tl' = RemoveTracks(r.tl, R)
                /\ dealt' = IF Range(tl'.shuffled) \subseteq Range(tl.shuffled)
                            THEN dealt ELSE {}
                /\ calls' = calls + 1
                /\ UNCHANGED <<current, announced>>
       ELSE Announce(RemoveTracks(t, R)) /\ UNCHANGED calls
    /\ UNCHANGED <<running, stored>>

\* Any criteria select some of the tracks.
ClientRemove == \E R \in SUBSET Range(tl.tracks) : Client /\ Remove(tl, R)

\* Consume, repeat and single do not touch the random order.
ChangeOption ==
    /\ Client
    /\ \E option \in ClientOptions, value \in BOOLEAN :
          tl' = SetOption(tl, option, value)
    /\ UNCHANGED <<current, calls, running, stored, announced, dealt>>

ChangeRandom ==
    /\ Client
    /\ \E value \in BOOLEAN :
          /\ tl' \in SetRandom(tl, value)
          /\ dealt' = IF value THEN {} ELSE dealt
    /\ UNCHANGED <<current, calls, running, stored, announced>>

-----------------------------------------------------------------------------
(* Calls of playback, and of get_next_tlid() and get_eot_tlid(), which     *)
(* share their code.                                                       *)

\* _get_next_tl_track and _get_eot_tl_track refill an empty random order.
Peek(Pick(_, _, _)) ==
    /\ running
    /\ \E ref \in Range(tl.tracks) \union {current, None} :
         \E r \in Pick(tl, ref, current) :
            /\ tl' = r.tl
            /\ dealt' = IF r.tl.shuffled = tl.shuffled THEN dealt ELSE {}
    /\ UNCHANGED <<current, calls, running, stored, announced>>

PeekNext == Peek(NextTl)
PeekEot  == Peek(EotTl)

\* playback._set_current_tl_track: any track that was ever in the list.
SetCurrent ==
    /\ running
    /\ current' \in {None} \union {t \in 1 .. MaxTlid : t < tl.nextTlid}
    /\ UNCHANGED <<tl, calls, running, stored, announced, dealt>>

Mark(With(_, _)) ==
    /\ running
    /\ \E tlid \in 1 .. MaxTlid :
        /\ tlid < tl.nextTlid
        /\ tl' = With(tl, tlid)
        /\ dealt' = IF tl.random THEN dealt \union {tlid} ELSE dealt
    /\ UNCHANGED <<current, calls, running, stored, announced>>

MarkTrackPlaying    == Mark(MarkPlaying)
MarkTrackUnplayable == Mark(MarkUnplayable)

\* _mark_played: consume mode removes the track that ended.
MarkPlayed ==
    \E tlid \in Range(tl.tracks) : running /\ tl.consume /\ Remove(tl, {tlid})

\* _remove_unplayable.  The list is cleared first, as remove() can come back.
RemoveUnplayable ==
    /\ running
    /\ tl.unplayable # {}
    /\ LET t == [tl EXCEPT !.unplayable = {}]
       IN  IF tl.consume
           THEN Remove(t, tl.unplayable \intersect Range(tl.tracks))
           ELSE /\ tl' = t
                /\ UNCHANGED <<current, calls, running, stored, announced, dealt>>

\* Mistake: the version was increased before playback was called.
RemoveReturnsSilently ==
    /\ running /\ calls > 0
    /\ calls' = calls - 1
    /\ UNCHANGED <<tl, current, running, stored, announced, dealt>>

\* playback returns from _on_current_track_removed().
RemoveReturns ==
    /\ running /\ calls > 0
    /\ Announce(tl)
    /\ calls' = calls - 1
    /\ UNCHANGED <<running, stored>>
-----------------------------------------------------------------------------

Next ==
    \/ SetupFresh \/ SetupStored \/ Shutdown \/ Crash
    \/ \E n \in BatchSizes, pos \in Positions \union {None} : Add(n, pos)
    \/ Clear
    \/ \E start, end, to \in Positions : Move(start, end, to)
    \/ \E start, end \in Positions \union {None} : Shuffle(start, end)
    \/ ClientRemove
    \/ ChangeOption \/ ChangeRandom
    \/ PeekNext \/ PeekEot \/ SetCurrent
    \/ MarkTrackPlaying \/ MarkTrackUnplayable
    \/ MarkPlayed \/ RemoveUnplayable \/ RemoveReturns

Spec == Init /\ [][Next]_vars

-----------------------------------------------------------------------------
(* Properties. *)

\* No two entries of the tracklist, nor of a saved one, have the same TLID, and
\* the next TLID is new: what index(), filter() and play(tlid) rely on, over
\* any order of add(), move(), shuffle(), remove(), save and load.
TlidsUnique ==
    /\ NoDuplicates(tl.tracks)
    /\ \A i \in DOMAIN tl.tracks : tl.tracks[i] < tl.nextTlid
    /\ stored # None =>
          /\ NoDuplicates(stored.tracks)
          /\ \A i \in DOMAIN stored.tracks : stored.tracks[i] < stored.nextTlid

\* The random order holds tracks of the tracklist, each once, also while a
\* remove() waits for playback, which then reads it through next().
ShuffledWithinTracklist ==
    /\ Range(tl.shuffled) \subseteq Range(tl.tracks)
    /\ NoDuplicates(tl.shuffled)

\* In random mode the order holds exactly the tracks that did not play and were
\* not found unplayable since it was drawn: none is played twice in a round and
\* none is left out, whatever is removed in between.
RandomRound ==
    tl.random => Range(tl.shuffled) = Range(tl.tracks) \ dealt

\* Between client calls the tracklist is the one of the last tracklist_changed
\* event, so a client that reads it at each event is never behind.
ClientViewCurrent ==
    running /\ calls = 0 => announced = tl.tracks

\* previous() undoes next(): outside repeat, consume and random mode the track
\* before the next track is the track itself.
PreviousUndoesNext ==
    ~(tl.repeat \/ tl.consume \/ tl.random) =>
        \A t \in Range(tl.tracks) :
            \A r \in NextTl(tl, t, current) :
                r.track # None =>
                    \A q \in PreviousTl(tl, r.track, current) : q.track = t

\* A TLID that leaves the tracklist never comes back in the life of the
\* process: what add() and load bring is not below the next TLID, which never
\* falls.  So a client cannot take a new track for one it knew.
TlidsNeverReused ==
    [][running /\ running' =>
          /\ tl'.nextTlid >= tl.nextTlid
          /\ \A t \in Range(tl'.tracks) \ Range(tl.tracks) : t >= tl.nextTlid]_vars

\* shuffle() changes the order of the tracks and nothing else, whichever of its
\* arguments are given.
ShuffleKeepsTracks ==
    \A start, end \in Positions \union {None} :
        CanShuffle(tl, start, end) =>
            \A t \in ShuffleTracks(tl, start, end) : Range(t.tracks) = Range(tl.tracks)
=============================================================================
