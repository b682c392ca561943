---------------------------- MODULE TracklistOps ----------------------------
(***************************************************************************)
(* The methods of mopidy.core.TracklistController as operators on a record *)
(* that holds its fields.  A TlTrack is its tracklist id (TLID): the code  *)
(* compares TlTracks by TLID only, and the track behind it matters to the  *)
(* backends, not here.  A method that draws a random order, or that can    *)
(* reshuffle, gives the set of its possible results.                       *)
(*                                                                         *)
(* Tracklist runs these operators on their own and Core runs them under    *)
(* the PlaybackController, so both speak of the same methods.              *)
(***************************************************************************)
EXTENDS Types, Sequences, FiniteSets, FiniteSetsExt, Functions

CONSTANT MaxTracklistLength   \* config core/max_tracklist_length

ASSUME MaxLengthAssumption == MaxTracklistLength \in Nat

\* The fields of the controller.  `unplayable` is a list in the code; only
\* the TLIDs in it and whether it is empty are ever read.
TracklistType ==
    [tracks : Seq(Tlid), nextTlid : Tlid, version : Nat,
     consume : BOOLEAN, random : BOOLEAN, repeat : BOOLEAN, single : BOOLEAN,
     shuffled : Seq(Tlid), unplayable : SUBSET Tlid]

\* Mistake: TLIDs count from 0.
InitTracklistFromZero ==
    [tracks |-> << >>, nextTlid |-> 0, version |-> 0,
     consume |-> FALSE, random |-> FALSE, repeat |-> FALSE, single |-> FALSE,
     shuffled |-> << >>, unplayable |-> {}]

InitTracklist ==
    [tracks |-> << >>, nextTlid |-> 1, version |-> 0,
     consume |-> FALSE, random |-> FALSE, repeat |-> FALSE, single |-> FALSE,
     shuffled |-> << >>, unplayable |-> {}]

-----------------------------------------------------------------------------
(* Sequences. *)

NoDuplicates(seq) ==
    \A i, j \in DOMAIN seq : seq[i] = seq[j] => i = j

\* The elements of seq that are not in S, in their order.
Without(seq, S) ==
    LET kept[i \in 0 .. Len(seq)] ==
            IF i = 0 THEN << >>
            ELSE IF seq[i] \in S THEN kept[i - 1]
            ELSE Append(kept[i - 1], seq[i])
    IN  kept[Len(seq)]

\* Every order random.shuffle can leave seq in.
Shuffles(seq) ==
    { [i \in DOMAIN seq |-> seq[p[i]]] : p \in Bijection(DOMAIN seq, DOMAIN seq) }

\* list.insert, element after element, of block at the 0-based position pos:
\* a position past the end appends.
InsertBlock(seq, pos, block) ==
    LET at == IF pos < Len(seq) THEN pos ELSE Len(seq)
    IN  SubSeq(seq, 1, at) \o block \o SubSeq(seq, at + 1, Len(seq))

\* Where tlid stands in seq, or 0 (the code's None).
Index(seq, tlid) ==
    IF \E i \in DOMAIN seq : seq[i] = tlid
    THEN CHOOSE i \in DOMAIN seq : seq[i] = tlid
    ELSE 0

-----------------------------------------------------------------------------
(* The track to play next.  `current` is playback.get_current_tl_track():  *)
(* index() falls back on it when the reference is None.                    *)

Reference(ref, current) == IF ref = None THEN current ELSE ref

\* _get_next_tl_track: the results are pairs of the record, which a refill of
\* the random order changes, and the track.
NextTl(t, ref, current) ==
    LET n      == Len(t.tracks)
        refill == t.random /\ t.shuffled = << >> /\ (t.repeat \/ ref = None)
        after  == Index(t.tracks, Reference(ref, current)) + 1
        Pick(track) == {[tl |-> t, track |-> track]}
    IN  IF t.tracks = << >> THEN Pick(None)
        ELSE IF refill THEN
            {[tl |-> [t EXCEPT !.shuffled = s], track |-> Head(s)] :
                s \in Shuffles(t.tracks)}
        ELSE IF t.random THEN
            Pick(IF t.shuffled = << >> THEN None ELSE Head(t.shuffled))
        ELSE IF after <= n /\ ~(t.repeat /\ t.consume /\ n = 1) THEN
            Pick(t.tracks[after])
        ELSE IF t.repeat /\ ~(t.consume /\ n = 1) THEN Pick(t.tracks[1])
        ELSE Pick(None)

\* _get_eot_tl_track
EotTl(t, ref, current) ==
    IF t.single /\ t.repeat /\ ~t.consume THEN {[tl |-> t, track |-> ref]}
    ELSE IF t.single /\ ~t.repeat THEN {[tl |-> t, track |-> None]}
    ELSE NextTl(t, ref, current)

\* Mistake: the reference itself instead of the track before it.
PreviousTlOffByOne(t, ref, current) ==
    LET i == Index(t.tracks, Reference(ref, current))
    IN  {[tl |-> t, track |-> IF i \in {0, 1} THEN None ELSE t.tracks[i]]}

\* _get_previous_tl_track
PreviousTl(t, ref, current) ==
    LET i == Index(t.tracks, Reference(ref, current))
    IN  {[tl |-> t,
          track |-> IF t.repeat \/ t.consume \/ t.random THEN ref
                    ELSE IF i \in {0, 1} THEN None
                    ELSE t.tracks[i - 1]]}

\* _get_next_remaining_tl_track: what next() would change to from `current`,
\* a track of the tracklist, if it skips the tracks in R.  The loop ends at
\* the first track outside R.  In random mode it draws the random order,
\* without the tracks of R it meets, and refills it once in repeat mode.
NextRemaining(t, current, R) ==
    LET n == Len(t.tracks)
        i == Index(t.tracks, current)
        Ahead   == {j \in 1 .. n : j > i /\ t.tracks[j] \notin R}
        Wrapped == IF t.repeat THEN {j \in 1 .. i : t.tracks[j] \notin R} ELSE {}
        FirstLeft(s) == Min({j \in DOMAIN s : s[j] \notin R})
        Draw(s) == [tl |-> [t EXCEPT !.shuffled = SubSeq(s, FirstLeft(s), Len(s))],
                    track |-> s[FirstLeft(s)]]
        Stay(track) == {[tl |-> t, track |-> track]}
    IN  IF Range(t.tracks) \subseteq R
        THEN {[tl |-> [t EXCEPT !.shuffled = << >>], track |-> None]}
        ELSE IF ~t.random THEN
            IF Ahead # {} THEN Stay(t.tracks[Min(Ahead)])
            ELSE IF Wrapped # {} THEN Stay(t.tracks[Min(Wrapped)])
            ELSE Stay(None)
        ELSE IF ~(Range(t.shuffled) \subseteq R) THEN {Draw(t.shuffled)}
        ELSE IF t.repeat THEN {Draw(s) : s \in Shuffles(t.tracks)}
        ELSE {[tl |-> [t EXCEPT !.shuffled = << >>], track |-> None]}

-----------------------------------------------------------------------------
(* The methods that change the tracklist. *)

\* _trigger_tracklist_changed, after _increase_version counted the version.
IncreaseVersion(t) ==
    {[t EXCEPT !.version = @ + 1, !.shuffled = s] :
        s \in IF t.random THEN Shuffles(t.tracks) ELSE {<< >>}}

\* add: n tracks, at the 0-based position pos or (None) at the end.  The loop
\* raises TracklistFull at the length limit, with the tracks before it already
\* in the list.
AddRoom(t) ==
    IF Len(t.tracks) < MaxTracklistLength THEN MaxTracklistLength - Len(t.tracks) ELSE 0

AddTracks(t, n, pos) ==
    LET k  == IF n <= AddRoom(t) THEN n ELSE AddRoom(t)
        block == [i \in 1 .. k |-> t.nextTlid + i - 1]
        at == IF pos = None THEN Len(t.tracks) ELSE pos
    IN  [t EXCEPT !.tracks = InsertBlock(@, at, block), !.nextTlid = @ + k]

\* move, on its valid arguments (0-based, start < end).
CanMove(t, start, end, to) ==
    /\ start < end /\ end <= Len(t.tracks)
    /\ to <= Len(t.tracks)

MoveTracks(t, start, end, to) ==
    LET rest == SubSeq(t.tracks, 1, start) \o SubSeq(t.tracks, end + 1, Len(t.tracks))
    IN  [t EXCEPT !.tracks = InsertBlock(rest, to, SubSeq(@, start + 1, end))]

\* shuffle, on its valid arguments; `end` is tested for truth where the part
\* after the slice is cut, so an end of 0 cuts nothing.
CanShuffle(t, start, end) ==
    /\ start # None /\ end # None => start < end
    /\ end # None => end <= Len(t.tracks)

ShuffleTracks(t, start, end) ==
    LET n == Len(t.tracks)
        from  == IF start = None THEN 0 ELSE IF start < n THEN start ELSE n
        upto  == IF end = None THEN n ELSE end
        after == IF end \in {None, 0} THEN n ELSE end
    IN  {[t EXCEPT !.tracks = SubSeq(@, 1, from) \o s \o SubSeq(@, after + 1, n)] :
            s \in Shuffles(SubSeq(t.tracks, from + 1, upto))}

\* _remove_from_shuffled
RemoveFromShuffled(t, R) == [t EXCEPT !.shuffled = Without(@, R)]

\* Mistake: the random order keeps what was removed.
RemoveTracksOnly(t, R) == [t EXCEPT !.tracks = Without(@, R)]

\* What remove() does before it tells the PlaybackController.
RemoveTracks(t, R) ==
    RemoveFromShuffled([t EXCEPT !.tracks = Without(@, R)], R)

\* set_consume, set_repeat and set_single, by the name of the option.
Options == {"consume", "repeat", "single"}
SetOption(t, option, value) == [t EXCEPT ![option] = value]

\* set_random
SetRandom(t, value) ==
    {[t EXCEPT !.random = value, !.shuffled = s] :
        s \in IF value THEN Shuffles(t.tracks) ELSE {t.shuffled}}

-----------------------------------------------------------------------------
(* Called by the PlaybackController. *)

MarkPlaying(t, tlid) ==
    IF t.random THEN RemoveFromShuffled(t, {tlid}) ELSE t

\* Mistake: an unplayable track stays in the random order.
MarkUnplayableOnly(t, tlid) ==
    IF tlid = None THEN t ELSE [t EXCEPT !.unplayable = @ \union {tlid}]

MarkUnplayable(t, tlid) ==
    LET marked == [t EXCEPT !.unplayable = @ \union {tlid}]
    IN  IF tlid = None THEN t
        ELSE IF t.random THEN RemoveFromShuffled(marked, {tlid}) ELSE marked

\* The saved state, and what a restart makes of it.
SaveTracklist(t) ==
    [tracks |-> t.tracks, nextTlid |-> t.nextTlid, consume |-> t.consume,
     random |-> t.random, repeat |-> t.repeat, single |-> t.single]

\* Mistake: the next TLID is not restored.
LoadTracksOnly(t, saved) ==
    [t EXCEPT !.consume = saved.consume, !.random = saved.random,
              !.repeat = saved.repeat, !.single = saved.single,
              !.tracks = saved.tracks]

LoadTracklist(t, saved) ==
    [t EXCEPT !.consume = saved.consume, !.random = saved.random,
              !.repeat = saved.repeat, !.single = saved.single,
              !.nextTlid = IF saved.nextTlid > @ THEN saved.nextTlid ELSE @,
              !.tracks = saved.tracks]
=============================================================================
