------------------------------- MODULE MCLibrary -------------------------------
(* Calls of clients, and what the backends make of them. *)
EXTENDS Library

MCOrder == <<"p", "stream", "m3u", "q">>

MCPages == {"station", "list", "first", "second"}

MCUris == MCPages \union {"p1", "p2", "q1"}

MCOwner == [u \in MCUris |-> IF u \in MCPages THEN "stream"
                             ELSE IF u = "q1" THEN "q" ELSE "p"]

MCForeign == [p |-> "q1", q |-> "p1"]

\* q hands on what it has for URIs of p, and p for those of q.
Ways == {"good", "none", "bad", "partial", "foreign", "error", "lookup_error", "type_error",
         "unimplemented", "assertion_error"}

-----------------------------------------------------------------------------
(* What is in the web. *)

Missing == Page("http", << >>, "none", << >>, "none")
Audio(media) == Page("http", <<"binary">>, "none", << >>, media)
Text == Page("http", <<"text">>, "none", << >>, "unplayable")
Document(entries) == Page("http", <<"text", "text">>, "playlist", entries, "unplayable")

Leaves ==
    {Missing, Audio("file"), Audio("live"), Audio("unplayable"), Text,
     Page("rtsp", <<"binary">>, "none", << >>, "live"),
     Page("http", <<"text", "text", "text">>, "playlist", <<<<"station">>>>, "none")}

Stations ==
    {Document(<<<<"first">>, <<"second">>>>), Document(<<<<"first", "list", "second">>>>),
     Document(<<<<"list">>, <<"first">>>>)}

Nested ==
    {Document(<<<<"second">>, <<"station", "first">>>>), Text, Missing,
     Page("file", <<"text">>, "hls", <<<<"first">>>>, "live")}

Web(station, list, first, second) ==
    ("station" :> station) @@ ("list" :> list) @@ ("first" :> first) @@ ("second" :> second)

Webs == {Web(s, l, f, t) : s \in Stations, l \in Nested, f \in Leaves, t \in Leaves}

-----------------------------------------------------------------------------
(* Playlists. *)

A == <<"a">>
B == <<"b">>
Dotted == <<"a", "mix">>

Song == Track("song", FALSE, FALSE)
Bare == Track("bare", TRUE, FALSE)
Named == Track("bare", TRUE, TRUE)

Stored == (A :> Whole(<<Song>>))

Ask(op, path) == [NoRequest EXCEPT !.op = op, !.path = path]
Saved(path, name, tracks) ==
    [NoRequest EXCEPT !.op = "save", !.path = path, !.name = name, !.tracks = tracks]
Made(name) == [NoRequest EXCEPT !.op = "create", !.name = name]

ToM3U(request) == Call(request.op, << >>, "m3u", request)

Changes ==
    {Made(A), Made(B), Made(Dotted), Made(Blanks), Saved(A, A, <<Song, Song>>), Saved(A, B, <<Song>>),
     Saved(B, Dotted, <<Bare>>), Saved(A, Blanks, <<Named>>), Saved(Dotted, Dotted, <<Bare, Song>>),
     [Saved(B, B, <<Song>>) EXCEPT !.inside = FALSE], Ask("delete", A), Ask("delete", B)}

Looks ==
    {Ask("lookup", A), Ask("get_items", A), Ask("as_list", A),
     [Ask("lookup", B) EXCEPT !.inside = FALSE], Ask("refresh", A)}

-----------------------------------------------------------------------------

Base ==
    [calls |-> << >>, behaves |-> [p |-> "good", q |-> "good"], files |-> Stored, faults |-> 0,
     crashes |-> 0, web |-> Web(Missing, Missing, Missing, Missing)]

Plain(op, uris, scheme) == Call(op, uris, scheme, NoRequest)

LibraryCalls ==
    {Plain("roots", << >>, None), Plain("browse", <<"p1">>, None), Plain("browse", <<"first">>, None),
     Plain("get_distinct", << >>, None), Plain("get_images", <<"q1", "p1", "p2">>, None),
     Plain("lookup_uris", <<"p1", "station", "q1", "p2", "p1">>, None), Plain("lookup_uris", << >>, None),
     Plain("get_images", <<"p2", "p2">>, None),
     Plain("lookup_uris", <<"q1", "first", "p1">>, None),
     Plain("refresh_library", << >>, None), Plain("refresh_library", <<"q1">>, None),
     Plain("search", << >>, None), Plain("search", <<"q1", "p1">>, None),
     Call("as_list", << >>, None, Ask("as_list", A)), Call("refresh", << >>, None, Ask("refresh", A)),
     Call("create", << >>, None, Made(B)), Call("create", << >>, "q", NoRequest),
     Call("save", << >>, "q", NoRequest), Call("delete", << >>, "p", NoRequest),
     Call("lookup", << >>, "q", NoRequest), Call("get_items", << >>, "p", NoRequest),
     Call("get_items", << >>, "none", NoRequest)}

Asking ==
    {[Base EXCEPT !.calls = <<call>>, !.behaves = [p |-> p, q |-> q]] :
        call \in LibraryCalls, p \in Ways, q \in Ways}

Searching ==
    {[Base EXCEPT !.calls = <<Plain("lookup_uris", <<"station">>, None)>>, !.web = web_] :
        web_ \in Webs}
        \union {[Base EXCEPT !.calls = <<Plain("translate", <<"station">>, None),
                                         Plain("translate", <<"second">>, None)>>,
                             !.web = Web(Document(<<<<"first">>>>), Text, f, Text)] : f \in Leaves}

Writing ==
    {[Base EXCEPT !.calls = <<ToM3U(r), ToM3U(s), ToM3U(t)>>] :
        r \in Changes, s \in Changes, t \in Changes \union Looks}
        \union {[Base EXCEPT !.calls = <<ToM3U(r), ToM3U(s)>>, !.faults = 1, !.crashes = 1] :
                   r \in Changes, s \in Changes \union Looks}

MCSettings == Asking \union Searching \union Writing
=============================================================================
