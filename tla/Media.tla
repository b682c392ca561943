--------------------------------- MODULE Media ---------------------------------
(***************************************************************************)
(* The stream backend and its media reader.  What to play for a URI is     *)
(* searched for: playlist documents are read, their entries tried in order,*)
(* and so on, until something playable is found or it has taken too long.  *)
(***************************************************************************)
EXTENDS Types, Sequences, SequencesExt, SeqOps

CONSTANTS
    Pages,       \* URIs of pages that the stream backend may be asked for
    Blacklist,   \* those of them that are not to be looked at
    MaxChunks    \* how many chunks a document may have

ASSUME MediaAssumption == Blacklist \subseteq Pages /\ MaxChunks \in Nat

VARIABLES
    web,       \* what is at each URI
    search,    \* the search that goes on
    stream     \* the stream backend

mediaVars == <<web, search, stream>>

\* What is at a URI: whether it is fetched with file or HTTP, and successfully;
\* the chunks of the body; its format and the entries in it, each a sequence of
\* alternatives; and the media that GStreamer makes of it.
Page(scheme, chunks, format, entries, media) ==
    [scheme |-> scheme, chunks |-> chunks, format |-> format, entries |-> entries,
     media |-> media]

Media == {"none", "unplayable", "file", "live"}

IsPlayable(media) == media \in {"file", "live"}

PageType ==
    [scheme : STRING, chunks : Seq({"text", "binary"}), format : STRING,
     entries : Seq(Seq(Pages)), media : Media]

\* A target is a URI, with the media unless nobody knows that it can be played.
Target(uri, media) == [uri |-> uri, media |-> media]

ASSUME TargetAssumption == None \notin [uri : Pages, media : Media]

-----------------------------------------------------------------------------
(* Fetching and reading.                                                    *)

\* _read: the first chunk that is not text, that is one too many, or that comes
\* after the deadline, `lateAt`, ends it.
Read(chunks, lateAt) ==
    LET ends == {i \in 1 .. Len(chunks) :
                    chunks[i] = "binary" \/ i > MaxChunks \/ i >= lateAt}
        first == CHOOSE i \in ends : \A j \in ends : i <= j
    IN  IF ends = {} THEN "text"
        ELSE IF chunks[first] = "binary" THEN "media" ELSE "failed"

\* fetch_document; without chunks, the file or the response is an error.
Fetch(page, lateAt) ==
    IF page.scheme \notin {"file", "http"} \/ page.chunks = << >> THEN "failed"
    ELSE Read(page.chunks, lateAt)

\* HLS and DASH documents have no entries, nor has what is no playlist.
ParsePlaylistEntries(page) == IF page.format = "playlist" THEN page.entries ELSE << >>

-----------------------------------------------------------------------------
(* The search.  The recursion of _try_uri is unfolded: what is left to try  *)
(* is a sequence, and the alternatives in a document come first in it.      *)

NoSearch ==
    [at |-> "none", uri |-> None, left |-> << >>, seen |-> {}, tried |-> << >>,
     fetched |-> FALSE, unverified |-> None, target |-> None, late |-> FALSE]

StartOf(uri) == [NoSearch EXCEPT !.at = "try", !.uri = uri, !.left = <<uri>>]

IsSearching == search.at \in {"try", "info"}
Now == Head(search.left)
Rest == [search EXCEPT !.at = "try", !.left = Tail(@)]

\* Nothing is left, or no time is.
Ends ==
    /\ search.at = "try" /\ (search.left = << >> \/ search.late)
    /\ search' = [search EXCEPT !.at = "done"]
    /\ UNCHANGED web

Skips ==
    /\ search.at = "try" /\ search.left # << >> /\ ~search.late
    /\ Now \in search.seen
    /\ search' = Rest
    /\ UNCHANGED web

\* Mistake: the next entry is tried before what is in this document.
FetchesBreadthFirst ==
    /\ search.at = "try" /\ search.left # << >> /\ ~search.late
    /\ Now \notin search.seen
    /\ LET tried == [search EXCEPT !.seen = @ \union {Now}, !.tried = Append(@, Now)]
           fetched == Fetch(web[Now], Len(web[Now].chunks) + 1)
           entries == ParsePlaylistEntries(web[Now])
       IN  search' = IF fetched = "text" /\ entries # << >>
                     THEN [tried EXCEPT !.left = Tail(@) \o FlattenSeq(entries)]
                     ELSE [tried EXCEPT !.at = "info", !.fetched = fetched # "failed"]
    /\ UNCHANGED web

\* Fetching takes its time, maybe all that is left.
Fetches ==
    /\ search.at = "try" /\ search.left # << >> /\ ~search.late
    /\ Now \notin search.seen
    /\ \E late \in BOOLEAN, lateAt \in 1 .. Len(web[Now].chunks) + 1 :
          LET tried == [search EXCEPT !.seen = @ \union {Now}, !.tried = Append(@, Now),
                                      !.late = late]
              fetched == Fetch(web[Now], lateAt)
              entries == ParsePlaylistEntries(web[Now])
          IN  /\ lateAt <= Len(web[Now].chunks) => late
              /\ search' = IF fetched = "text" /\ entries # << >>
                           THEN [tried EXCEPT !.left = FlattenSeq(entries) \o Tail(@)]
                           ELSE [tried EXCEPT !.at = "info",
                                              !.fetched = fetched # "failed"]
    /\ UNCHANGED web

\* The media is inspected, which fails, or takes too long.
Inspects ==
    /\ search.at = "info" /\ ~search.late
    /\ \E late \in BOOLEAN, media \in {web[Now].media, "none"} :
          /\ media # web[Now].media => late
          /\ search' =
                IF IsPlayable(media)
                THEN [search EXCEPT !.at = "done", !.late = late, !.target = Target(Now, media)]
                ELSE [Rest EXCEPT !.late = late,
                                  !.unverified = IF search.fetched /\ @ = None
                                                 THEN Target(Now, "none") ELSE @]
    /\ UNCHANGED web

\* Nothing is known of what was fetched in the last moment.
GivesUp ==
    /\ search.at = "info" /\ search.late
    /\ search' = Rest
    /\ UNCHANGED web

SearchGoesOn == Ends \/ Skips \/ Fetches \/ Inspects \/ GivesUp

Found == IF search.target # None THEN search.target ELSE search.unverified

-----------------------------------------------------------------------------
(* The stream backend is asked to look up URIs, one after the other, or to  *)
(* translate the one that is to be played.                                  *)

\* `tracks` has for each URI that was looked up whether its media is known.
NoTask == [task |-> "none", left |-> << >>, tracks |-> << >>, live |-> None, target |-> None]

StreamType ==
    /\ stream.task \in {"none", "lookup", "translate"}
    /\ stream.live \in Pages \union {None}
    /\ search.at \in {"none", "try", "info", "done"}
    /\ search.seen \subseteq Pages
    /\ \A target \in {search.target, search.unverified} :
          target = None \/ target \in [uri : Pages, media : Media]

StreamStarts(task, uris) ==
    /\ stream.task = "none"
    /\ stream' = [task |-> task, left |-> uris, tracks |-> << >>, target |-> None,
                  live |-> IF task = "translate" THEN None ELSE stream.live]
    /\ UNCHANGED <<web, search>>

IsBusy == stream.task # "none" /\ stream.left # << >>

\* A URI with a scheme that is not that of the backend is not found, and one
\* that is blacklisted is not looked at.
StreamSkips ==
    /\ IsBusy /\ search.at = "none"
    /\ LET uri == Head(stream.left)
       IN  /\ uri \notin Pages \/ uri \in Blacklist
           /\ stream' = [stream EXCEPT
                 !.left = Tail(@),
                 !.tracks = IF uri \in Blacklist THEN Append(@, Target(uri, "none")) ELSE @,
                 !.target = IF uri \in Blacklist THEN Target(uri, "none") ELSE None]
    /\ UNCHANGED <<web, search>>

StreamSearches ==
    /\ IsBusy /\ search.at = "none"
    /\ LET uri == Head(stream.left)
       IN  uri \in Pages \ Blacklist /\ search' = StartOf(uri)
    /\ UNCHANGED <<web, stream>>

\* A live stream is remembered until the next URI is translated.
StreamFinds ==
    /\ search.at = "done"
    /\ LET uri == Head(stream.left)
           media == IF Found = None THEN "none" ELSE Found.media
       IN  stream' = [stream EXCEPT
              !.left = Tail(@),
              !.tracks = Append(@, Target(uri, media)),
              !.target = Found,
              !.live = IF stream.task = "translate" /\ media = "live" THEN Found.uri ELSE @]
    /\ search' = NoSearch
    /\ UNCHANGED web

StreamGoesOn ==
    \/ SearchGoesOn /\ UNCHANGED stream
    \/ StreamSkips \/ StreamSearches \/ StreamFinds

\* What the stream backend has to answer.
StreamIsDone == stream.task # "none" /\ stream.left = << >>

-----------------------------------------------------------------------------
(* What is to be found.                                                     *)

Alternatives(uri) == ToSet(FlattenSeq(ParsePlaylistEntries(web[uri])))

IsDocument(uri) ==
    /\ Fetch(web[uri], Len(web[uri].chunks) + 1) = "text"
    /\ ParsePlaylistEntries(web[uri]) # << >>

\* The URIs in documents, to any depth.
Reachable(uri) ==
    LET IsClosed(uris) == \A u \in uris : IsDocument(u) => Alternatives(u) \subseteq uris
        closed == {uris \in SUBSET Pages : uri \in uris /\ IsClosed(uris)}
    IN  {u \in Pages : \A uris \in closed : u \in uris}

Playable(uri) == {u \in Reachable(uri) : ~IsDocument(u) /\ IsPlayable(web[u].media)}

Fetchable(uri) ==
    {u \in Reachable(uri) :
        ~IsDocument(u) /\ Fetch(web[u], Len(web[u].chunks) + 1) # "failed"}

IsFirstTried(uri, uris) ==
    \E i \in DOMAIN search.tried :
        /\ search.tried[i] = uri /\ uri \in uris
        /\ \A j \in 1 .. i - 1 : search.tried[j] \notin uris

\* What is in a document is tried first, unless it was tried before.
IsInOrder(tried) ==
    \A i \in 1 .. Len(tried) - 1 :
        LET before == ToSet(SubSeq(tried, 1, i))
            new == Chosen(FlattenSeq(ParsePlaylistEntries(web[tried[i]])), Pages \ before)
        IN  IsDocument(tried[i]) /\ new # << >> => tried[i + 1] = Head(new)

\* The search tries what is in the documents, in order and nothing twice.  It finds
\* something playable if there is any, or else the first of what it could fetch,
\* unless it is late; what it says is playable is, late or not
\* (MediaReader.find_playback_target).
FindsPlayable ==
    /\ search.at # "none" =>
          /\ ToSet(search.tried) \subseteq Reachable(search.uri)
          /\ IsInjective(search.tried) /\ IsInOrder(search.tried)
    /\ search.at = "done" =>
          CASE search.target # None -> search.target.uri \in Playable(search.uri)
            [] search.target = None /\ search.late ->
                   Found # None => Found.uri \in Fetchable(search.uri)
            [] OTHER -> /\ Playable(search.uri) = {}
                        /\ IF Found = None THEN Fetchable(search.uri) = {}
                           ELSE IsFirstTried(Found.uri, Fetchable(search.uri))
=============================================================================
