-------------------------------- MODULE Library --------------------------------
(***************************************************************************)
(* The library and playlists controllers of core.  A call of a client goes *)
(* to all backends that are concerned, which work at the same time, and    *)
(* their answers are put together in a fixed order.  The stream and M3U    *)
(* backends are modelled; others answer in any way that a backend may.     *)
(***************************************************************************)
EXTENDS Media, M3U

CONSTANTS
    Uris,        \* those clients ask for
    Owner,       \* the backend of each, by the URI scheme
    Foreign,     \* a URI that a backend may answer for, though nobody asked it
    Order,       \* the backends in the order of registration
    Settings     \* what happens

\* Each URI is that of a backend with a library; M3U has none, and stream has
\* pages.
ASSUME OrderAssumption ==
    /\ Order \in Seq(ToSet(Order)) /\ IsInjective(Order)
    /\ Owner \in [Uris -> ToSet(Order) \ {"m3u"}]
    /\ \A u \in Uris : Owner[u] = "stream" <=> u \in Pages

\* What the M3U backend is asked for is what core was called for.  Some calls
\* are for all that there is.
ASSUME CallsAssumption ==
    \A s \in Settings :
        /\ DOMAIN s = {"calls", "behaves", "files", "faults", "crashes", "web"}
        /\ s.calls \in Seq(ToSet(s.calls))
        /\ \A call \in ToSet(s.calls) :
              /\ call.uris \in Seq(Uris) /\ call.request.op \in {call.op, "none"}
              /\ call.op \in {"roots", "get_distinct", "as_list"} => call.uris = << >>

\* Ways to answer other than with a value have names of their own.
ASSUME BehavesAssumption ==
    \A s \in Settings : \A b \in ToSet(Order) \ {"stream", "m3u"} : s.behaves[b] # "value"

\* What the directory has at the start was written by somebody to its end.
ASSUME StoredAssumption ==
    \A s \in Settings : \A path \in DOMAIN s.files :
        s.files[path] # None => s.files[path].whole

\* Whatever is in the web, it is pages.
ASSUME WebAssumption == \A s \in Settings : s.web \in [Pages -> PageType]

VARIABLES
    setting,     \* what is left to happen
    job,         \* the call that core handles
    reply,       \* history: the last call, and what it was answered
    known,       \* history: the playlists, as a listener to events of core knows
    troubled     \* history: whether a step on a playlist failed or was cut off

coreVars == <<setting, job, reply, known, troubled>>

vars == <<mediaVars, m3uVars, coreVars>>

Others == ToSet(Order) \ {"stream", "m3u"}

\* Stream has no directories to browse and no playlists, M3U only playlists.
WithLibrary == Chosen(Order, Others \union {"stream"})
WithLibraryBrowse == Chosen(Order, Others)
WithPlaylists == Chosen(Order, Others \union {"m3u"})

\* A call: what it asks for, and of which backend if it names one.
Call(op, uris, scheme, request) ==
    [op |-> op, uris |-> uris, scheme |-> scheme, request |-> request]

\* What a backend answers: one that is no value, or the items it has, each with
\* whether it is valid, and a playlist or the like.
Answered(kind, items, value) == [kind |-> kind, items |-> items, value |-> value]
Pending == Answered("pending", << >>, NoAnswer)

Nothing == [map |-> << >>, from |-> << >>, answer |-> NoAnswer]

NoCall == Call("none", << >>, None, NoRequest)
NoJob == [call |-> NoCall, asked |-> << >>, next |-> 1, answers |-> << >>, result |-> Nothing]

NoReply == [call |-> NoCall, behaves |-> << >>, result |-> Nothing, raised |-> FALSE]

Init ==
    /\ setting \in Settings
    /\ job = NoJob /\ reply = NoReply
    /\ known = setting.files /\ troubled = FALSE
    /\ web = setting.web /\ search = NoSearch /\ stream = NoTask
    /\ M3UInit(setting.files, setting.faults)

IsIdle == job = NoJob

-----------------------------------------------------------------------------
(* Whom core asks. *)

\* Mistake: the backends in the order of registration.
OwnersAsRegistered(uris) == Chosen(Order, {Owner[uris[i]] : i \in 1 .. Len(uris)})

\* _get_backends_to_uris: the backends in the order of the URIs.
OwnersOf(uris) ==
    LET firsts == Chosen([i \in 1 .. Len(uris) |-> i],
                         {i \in 1 .. Len(uris) :
                             \A j \in 1 .. i - 1 : Owner[uris[j]] # Owner[uris[i]]})
    IN  [i \in 1 .. Len(firsts) |-> Owner[uris[firsts[i]]]]

Concerned(call) ==
    LET of(backends) == Chosen(backends, {call.scheme})
        ofUri(backends) == Chosen(backends, {Owner[call.uris[1]]})
        isAll == call.uris = << >>
    IN  CASE call.op = "roots" -> {WithLibraryBrowse}
          [] call.op = "browse" -> {ofUri(WithLibraryBrowse)}
          [] call.op = "get_distinct" -> {WithLibrary}
          [] call.op \in {"get_images", "lookup_uris"} -> {OwnersOf(call.uris)}
          [] call.op = "refresh_library" ->
                 {IF isAll THEN WithLibrary ELSE ofUri(WithLibrary)}
          [] call.op = "search" -> {IF isAll THEN WithLibrary ELSE OwnersOf(call.uris)}
          [] call.op = "translate" -> {<<"stream">>}
          [] call.op = "as_list" -> SetToSeqs(ToSet(WithPlaylists))
          [] call.op = "create" ->
                 {IF of(WithPlaylists) = << >> THEN WithPlaylists ELSE of(WithPlaylists)}
          [] call.op = "refresh" ->
                 {IF call.scheme = None THEN WithPlaylists ELSE of(WithPlaylists)}
          [] OTHER -> {of(WithPlaylists)}

\* create() asks one after the other, the rest ask all at once.
IsAskedNow(b) ==
    \E i \in job.next .. Len(job.asked) :
        job.asked[i] = b /\ (job.call.op = "create" => i = job.next)

IsWaitedFor(b) == IsAskedNow(b) /\ job.answers[b] = Pending

CoreStarts ==
    /\ IsIdle /\ setting.calls # << >>
    /\ LET call == Head(setting.calls)
       IN  \E asked \in Concerned(call) :
              job' = [call |-> call, asked |-> asked, next |-> 1,
                      answers |-> [b \in ToSet(asked) |-> Pending],
                      result |-> [Nothing EXCEPT !.map =
                          [u \in IF call.op \in {"get_images", "lookup_uris"}
                                 THEN ToSet(call.uris) ELSE {} |-> << >>]]]
    /\ setting' = [setting EXCEPT !.calls = Tail(@)]
    /\ reply' = NoReply
    /\ UNCHANGED <<mediaVars, m3uVars, known, troubled>>

-----------------------------------------------------------------------------
(* What the backends answer. *)

Answers(b, answer) == job' = [job EXCEPT !.answers[b] = answer]

OwnUris(b) == Chosen(job.call.uris, {u \in Uris : Owner[u] = b})

Item(uri, isValid, what) == [uri |-> uri, isValid |-> isValid, what |-> what]

Items(b, uris) == [i \in 1 .. Len(uris) |-> Item(uris[i], TRUE, b)]

Mappings == {"get_images", "lookup_uris"}

\* A backend may give what is asked, nothing, something else, some of what is
\* asked and something else, or more than what is asked, or raise any exception.
\* What is not a mapping is good or bad as a whole.
OtherAnswer(b, how) ==
    LET good == Items(b, OwnUris(b))
    IN  CASE how = "good" -> Answered("value", good, NoAnswer)
          [] how = "partial" /\ job.call.op \in Mappings ->
                 Answered("value", [i \in DOMAIN good |-> [good[i] EXCEPT !.isValid = i = 1]],
                          NoAnswer)
          [] how = "foreign" ->
                 Answered("value", Append(good, Item(Foreign[b], TRUE, b)), NoAnswer)
          [] OTHER -> Answered(IF how = "partial" THEN "bad" ELSE how, << >>, NoAnswer)

OtherActs ==
    /\ \E b \in Others :
          IsWaitedFor(b) /\ Answers(b, OtherAnswer(b, setting.behaves[b]))
    /\ UNCHANGED <<mediaVars, m3uVars, setting, reply, known, troubled>>

\* What the stream backend has not implemented gives nothing.
StreamIsAsked ==
    /\ IsWaitedFor("stream")
    /\ \/ /\ job.call.op \in {"lookup_uris", "translate"}
          /\ StreamStarts(IF job.call.op = "translate" THEN "translate" ELSE "lookup",
                          OwnUris("stream"))
          /\ UNCHANGED job
       \/ /\ job.call.op \notin {"lookup_uris", "translate"}
          /\ Answers("stream", Answered("none", << >>, NoAnswer))
          /\ UNCHANGED mediaVars
    /\ UNCHANGED <<m3uVars, setting, reply, known, troubled>>

StreamAnswers ==
    /\ StreamIsDone
    /\ Answers("stream",
               Answered("value",
                        [i \in 1 .. Len(stream.tracks) |->
                            Item(stream.tracks[i].uri, TRUE, stream.tracks[i].media)],
                        Answer("target", stream.target)))
    /\ stream' = [stream EXCEPT !.task = "none", !.tracks = << >>, !.target = None]
    /\ UNCHANGED <<web, search, m3uVars, setting, reply, known, troubled>>

StreamActs == StreamIsAsked \/ StreamAnswers \/ (StreamGoesOn /\ UNCHANGED <<m3uVars, coreVars>>)

M3UStarts ==
    /\ IsWaitedFor("m3u") /\ m3u.at = "idle"
    /\ m3u' = M3UIsAsked(job.call.request)
    /\ UNCHANGED <<mediaVars, files, faults, coreVars>>

\* An OSError is logged by the backend, another error by core.
M3UAnswers ==
    /\ m3u.at = "done"
    /\ Answers("m3u",
               CASE m3u.answer.kind \in {"not_found", "os_error"} -> Answered("none", << >>, NoAnswer)
                 [] m3u.answer.kind = "error" -> Answered("error", << >>, NoAnswer)
                 [] OTHER -> Answered("value", << >>, m3u.answer))
    /\ troubled' = (troubled \/ m3u.answer.kind \in {"os_error", "error"})
    /\ m3u' = Idle
    /\ UNCHANGED <<mediaVars, files, faults, setting, reply, known>>

M3UActs == M3UStarts \/ M3UAnswers \/ (M3UGoesOn /\ UNCHANGED <<mediaVars, coreVars>>)

-----------------------------------------------------------------------------
(* How core puts the answers together. *)

Backend == job.asked[job.next]
Got == job.answers[Backend]

HasGot == ~IsIdle /\ job.next <= Len(job.asked) /\ Got # Pending

\* Mistake: images are taken for URIs that nobody asked for.
ValidItemsOfAny(call, items) ==
    LET bad == {i \in DOMAIN items : ~items[i].isValid}
    IN  IF bad = {} THEN items ELSE SubSeq(items, 1, (CHOOSE i \in bad : \A j \in bad : i <= j) - 1)

\* The items before the first that is not as it should be.
ValidItems(call, items) ==
    LET IsBad(i) == ~items[i].isValid
                    \/ (call.op = "get_images" /\ items[i].uri \notin ToSet(call.uris))
        bad == {i \in DOMAIN items : IsBad(i)}
    IN  IF bad = {} THEN items ELSE SubSeq(items, 1, (CHOOSE i \in bad : \A j \in bad : i <= j) - 1)

\* A mapping has one value for a URI, the last that was put in.  Images are added
\* to those that there are, and tracks put in their place.
Updated(call, map, items) ==
    LET of(uri) == Chosen(items, {item \in ToSet(items) : item.uri = uri})
        had(uri) == IF uri \in DOMAIN map THEN map[uri] ELSE << >>
        what(uri) == of(uri)[Len(of(uri))].what
    IN  [uri \in DOMAIN map \union {items[i].uri : i \in DOMAIN items} |->
            IF of(uri) = << >> THEN had(uri)
            ELSE IF call.op = "get_images" THEN Append(had(uri), what(uri)) ELSE <<what(uri)>>]

\* Exceptions that the controllers let through.
IsRaised(call, answer) ==
    \/ call.op = "search" /\ answer.kind = "lookup_error"
    \/ call.op = "save" /\ answer.kind = "assertion_error"

\* An answer with something in it that is not as it should be is dropped.
IsValue(answer) ==
    answer.kind = "value" /\ \A i \in DOMAIN answer.items : answer.items[i].isValid

\* The result with one more answer; what is no value adds nothing to it.
Merged(call, result, b, answer) ==
    IF call.op \in Mappings
    THEN [result EXCEPT !.map = Updated(call, @, ValidItems(call, answer.items))]
    ELSE IF call.op \in {"refresh_library", "refresh"} /\ answer.kind \in {"value", "none", "bad"}
    THEN [result EXCEPT !.from = Append(@, b)]
    ELSE IF IsValue(answer)
    THEN [result EXCEPT !.from = Append(@, b), !.answer = answer.value]
    ELSE IF call.op = "delete" /\ answer.kind = "none"
    THEN [result EXCEPT !.answer = Answer("deleted", TRUE)]
    ELSE result

\* create() is content with the first playlist.
IsEnough(call, answer) == call.op = "create" /\ IsValue(answer)

CoreGets ==
    /\ HasGot /\ ~IsRaised(job.call, Got)
    /\ job' = [job EXCEPT !.result = Merged(job.call, @, Backend, Got),
                          !.next = IF IsEnough(job.call, Got) THEN Len(job.asked) + 1
                                   ELSE @ + 1]
    /\ UNCHANGED <<mediaVars, m3uVars, setting, reply, known, troubled>>

Replied(raised) ==
    [call |-> job.call, behaves |-> setting.behaves, result |-> job.result, raised |-> raised]

CoreRaises ==
    /\ HasGot /\ IsRaised(job.call, Got)
    /\ job' = NoJob
    /\ reply' = Replied(TRUE)
    /\ UNCHANGED <<mediaVars, m3uVars, setting, known, troubled>>

\* playlist_changed and playlist_deleted, as far as they are about M3U.
Heard(result) ==
    LET answer == result.answer
        path == answer.value.path
    IN  CASE job.call.op \in {"create", "save"} /\ answer.kind = "playlist" ->
                 [p \in DOMAIN known \union {path} |->
                     IF p = path THEN Whole(answer.value.tracks) ELSE known[p]]
          [] job.call.op = "delete" /\ job.call.scheme = "m3u"
             /\ answer = Answer("deleted", TRUE) ->
                 [p \in DOMAIN known |-> IF p = job.call.request.path THEN None ELSE known[p]]
          [] OTHER -> known

CoreReplies ==
    /\ ~IsIdle /\ job.next > Len(job.asked)
    /\ job' = NoJob
    /\ reply' = Replied(FALSE)
    /\ known' = Heard(job.result)
    /\ UNCHANGED <<mediaVars, m3uVars, setting, troubled>>

-----------------------------------------------------------------------------
(* The process ends and is started again; the files stay. *)

Crash ==
    /\ setting.crashes > 0 /\ ~IsIdle
    /\ setting' = [setting EXCEPT !.crashes = @ - 1]
    /\ job' = NoJob /\ reply' = NoReply
    /\ troubled' = TRUE
    /\ m3u' = Idle
    /\ search' = NoSearch
    /\ stream' = NoTask
    /\ UNCHANGED <<web, files, faults, known>>
-----------------------------------------------------------------------------

\* Core has nothing left to do.
Over == IsIdle /\ setting.calls = << >> /\ UNCHANGED vars

Next ==
    \/ CoreStarts \/ CoreGets \/ CoreRaises \/ CoreReplies
    \/ OtherActs \/ StreamActs \/ M3UActs \/ Crash \/ Over

Spec == Init /\ [][Next]_vars

-----------------------------------------------------------------------------
(* Properties. *)

\* The variables have their types.
TypeOK ==
    /\ StreamType /\ M3UType
    /\ job.call # NoCall => job.next \in 1 .. Len(job.asked) + 1
    /\ ToSet(job.result.from) \subseteq ToSet(Order)
    /\ DOMAIN job.result.map \subseteq Uris
    /\ job.call.op = "get_images" => DOMAIN job.result.map = ToSet(job.call.uris)
    /\ troubled \in BOOLEAN /\ faults \in Nat

\* The backends a call is for, in the order it names them, or they were registered.
Sources(call) ==
    IF call.uris = << >> THEN Order ELSE [i \in DOMAIN call.uris |-> Owner[call.uris[i]]]

IsFor(call, b) == \E i \in DOMAIN Sources(call) : Sources(call)[i] = b

ComesBefore(call, b, c) ==
    \E i \in DOMAIN Sources(call) :
        Sources(call)[i] = b /\ \A j \in 1 .. i : Sources(call)[j] # c

\* These backends, each once, in that order.
ListsInOrder(call, seq, backends) ==
    /\ {seq[i] : i \in DOMAIN seq} = backends
    /\ \A i, j \in DOMAIN seq : i < j => ComesBefore(call, seq[i], seq[j])

\* The backend, behaving like this, gives something for the URI: it has what it
\* was asked for, or the first of it, or something for a URI of another as well.
Gives(b, how, call, uri) ==
    \/ how \in {"good", "foreign"} /\ Owner[uri] = b
    \/ how = "partial" /\ Owner[uri] = b
       /\ \E i \in DOMAIN call.uris :
             call.uris[i] = uri /\ \A j \in 1 .. i - 1 : Owner[call.uris[j]] # b
    \/ how = "foreign" /\ Foreign[b] = uri

\* Who gives something for the URI.  Stream has tracks for its own, and no images.
Givers(behaves, call, uri) ==
    {b \in Others : IsFor(call, b) /\ Gives(b, behaves[b], call, uri)}
        \union (IF call.op = "lookup_uris" /\ Owner[uri] = "stream" THEN {"stream"} ELSE {})

\* Images are those of all who gave some, in the order of the call.  Tracks are
\* those of the last of them, so another than the owner of the URI may have the
\* last word; and without an answer there are none.
IsFromGivers(result, behaves, call, uri) ==
    LET givers == Givers(behaves, call, uri)
        IsLast(b) == \A c \in givers \ {b} : ComesBefore(call, c, b)
    IN  IF call.op = "get_images" THEN ListsInOrder(call, result.map[uri], givers)
        ELSE IF givers = {} THEN result.map[uri] = << >>
        ELSE \E b \in givers :
                /\ IsLast(b) /\ Len(result.map[uri]) = 1
                /\ b \in Others => result.map[uri] = <<b>>

\* Who has an answer to a question that is not about single URIs.
Answerers(behaves, call) ==
    {b \in Others : IsFor(call, b) /\ behaves[b] \in {"good", "foreign"}}

\* In the end of a call that goes to many backends the answer has what each of
\* them gave and nothing of those that raised, gave nothing or gave what is not
\* valid, whoever answered first: for each URI, for a search in order, for the
\* root directories, distinct values and playlists in any.  Only an exception
\* that search() and save() let through takes the answers of the others with it
\* (LibraryController, PlaylistsController.as_list, _backend_error_handling).
FailuresStayApart ==
    LET call == reply.call
        result == reply.result
        behaves == reply.behaves
        isLost == \E b \in Others : IsFor(call, b) /\ behaves[b] = "lookup_error"
    IN  /\ call.op = "search" => reply.raised = isLost
        /\ call.op # "search" /\ reply.raised =>
              /\ call.op = "save" /\ call.scheme \in Others
              /\ behaves[call.scheme] = "assertion_error"
        /\ call.op \in Mappings =>
              \A u \in ToSet(call.uris) : IsFromGivers(result, behaves, call, u)
        /\ call.op = "search" /\ ~isLost =>
              ListsInOrder(call, result.from, Answerers(behaves, call))
        /\ call.op \in {"roots", "get_distinct", "as_list"} =>
              ToSet(result.from) \ {"m3u"} = Answerers(behaves, call)

\* No playlist file is ever there in part (m3u/playlists.py, replace()).
FilesAreWhole == \A path \in DOMAIN files : Exists(path) => files[path].whole

\* Files are whole at any time.  A playlist that is answered to have been made or
\* saved is there; and, unless a step failed or the process was ended before,
\* who listens to the events of core knows what is in every playlist (m3u/
\* playlists.py, replace() and save(); PlaylistsController.save).
PlaylistsAreKept ==
    /\ FilesAreWhole
    /\ IsIdle /\ reply.result.answer.kind = "playlist" /\ reply.call.op \in {"create", "save"} =>
          LET playlist == reply.result.answer.value
          IN  files[playlist.path] = Whole(playlist.tracks)
    /\ IsIdle /\ ~troubled =>
          \A path \in DOMAIN files : Exists(path) => known[path] = files[path]
=============================================================================
