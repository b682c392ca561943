---------------------------------- MODULE M3U ----------------------------------
(***************************************************************************)
(* The M3U backend: playlists are files in a directory.  A playlist is     *)
(* written to a temporary file that then replaces it.  Any step may fail   *)
(* with an OSError, and the process may end between any two.               *)
(***************************************************************************)
EXTENDS Types, Sequences, SequencesExt

VARIABLES
    files,     \* contents of the files, by path
    m3u,       \* what the backend does, and the temporary file
    faults     \* how many more steps may fail

m3uVars == <<files, m3u, faults>>

\* A name is a sequence of what is between its dots; a path is the name without
\* the extension.  The name of blanks is that of no playlist.
Blanks == <<" ">>

Stripped(name) == IF name = Blanks THEN << >> ELSE name

\* path_from_name with the extension, as in create.
PathOf(name) == Stripped(name)

NameOf(path) == path

\* path_from_name and with_suffix, as in save, put the extension in the place of
\* what looks like one.
MovedPath(name) == IF Len(name) > 1 THEN Front(name) ELSE name

\* Files without a name before the extension are not seen.
IsListed(path) == path # << >>

\* A track has a URI, which is `bare` when nothing tells that it is one, and may
\* have a name.
Track(uri, bare, named) == [uri |-> uri, bare |-> bare, named |-> named]

\* dump_items and load_items: only with a header, that is when some track has a
\* name, are bare URIs read again.
LoadItems(tracks) ==
    IF \E i \in DOMAIN tracks : tracks[i].named THEN tracks
    ELSE SelectSeq(tracks, LAMBDA track : ~track.bare)

\* What is in a file.
Whole(tracks) == [whole |-> TRUE, tracks |-> tracks]
Partial == [whole |-> FALSE, tracks |-> << >>]

\* A playlist, as clients and core have it: where it is, its name, its tracks.
Playlist(path, name, tracks) == [path |-> path, name |-> name, tracks |-> tracks]

\* A request; `inside` is whether the path is in the directory.
NoRequest == [op |-> "none", path |-> << >>, name |-> << >>, tracks |-> << >>, inside |-> TRUE]

Answer(kind, value) == [kind |-> kind, value |-> value]
NoAnswer == Answer("none", None)
NotFound == Answer("not_found", None)
OsError == Answer("os_error", None)

\* The steps of a request that writes.
Idle == [at |-> "idle", request |-> NoRequest, temp |-> None, path |-> << >>,
         answer |-> NoAnswer]

M3UType ==
    /\ DOMAIN m3u = DOMAIN Idle
    /\ m3u.at \in {"idle", "asked", "opened", "written", "replaced", "renamed", "done"}
    /\ \A path \in DOMAIN files : files[path] = None \/ files[path].whole \in BOOLEAN

M3UInit(stored, failing) ==
    /\ files = stored
    /\ m3u = Idle
    /\ faults = failing

M3UIsAsked(request) == [Idle EXCEPT !.at = "asked", !.request = request]

Done(answer) == [m3u EXCEPT !.at = "done", !.temp = None, !.answer = answer]

Fails ==
    /\ faults > 0
    /\ faults' = faults - 1
    /\ m3u' = Done(OsError)

-----------------------------------------------------------------------------
(* Requests that are done at once. *)

Request == m3u.request
Asked(ops) == m3u.at = "asked" /\ Request.op \in ops

Exists(path) == path \in DOMAIN files /\ files[path] # None

Tracks(path) == LoadItems(files[path].tracks)

\* Paths out of the directory are ignored.
IgnoresOutside ==
    /\ Asked({"get_items", "lookup", "delete", "save"}) /\ ~Request.inside
    /\ m3u' = Done(IF Request.op = "delete" THEN Answer("deleted", FALSE) ELSE NotFound)
    /\ UNCHANGED <<files, faults>>

Lists ==
    /\ Asked({"as_list"})
    /\ m3u' = Done(Answer("list", {path \in DOMAIN files : Exists(path) /\ IsListed(path)}))
    /\ UNCHANGED <<files, faults>>

Refreshes ==
    /\ Asked({"refresh"})
    /\ m3u' = Done(NoAnswer)
    /\ UNCHANGED <<files, faults>>

Reads ==
    /\ Asked({"get_items", "lookup"}) /\ Request.inside
    /\ \/ /\ m3u' = Done(IF ~Exists(Request.path) THEN NotFound
                        ELSE IF Request.op = "get_items"
                        THEN Answer("items", Tracks(Request.path))
                        ELSE Answer("playlist",
                                    Playlist(Request.path, NameOf(Request.path),
                                             Tracks(Request.path))))
          /\ UNCHANGED faults
       \/ Fails
    /\ UNCHANGED files

Deletes ==
    /\ Asked({"delete"}) /\ Request.inside
    /\ \/ /\ files' = [path \in DOMAIN files |->
                          IF path = Request.path THEN None ELSE files[path]]
          /\ m3u' = Done(Answer("deleted", Exists(Request.path)))
          /\ UNCHANGED faults
       \/ /\ faults > 0 /\ faults' = faults - 1
          /\ m3u' = Done(Answer("deleted", FALSE))
          /\ UNCHANGED files

-----------------------------------------------------------------------------
(* Create and save, through replace(). *)

WithFile(path, contents) ==
    [p \in DOMAIN files \union {path} |-> IF p = path THEN contents ELSE files[p]]

\* Mistake: the file itself is opened for writing.
OpensInPlace ==
    /\ Asked({"create", "save"}) /\ (Request.op = "save" => Request.inside)
    /\ LET path == IF Request.op = "create" THEN PathOf(Request.name) ELSE Request.path
       IN  /\ m3u' = [m3u EXCEPT !.at = "opened", !.temp = Partial, !.path = path]
           /\ files' = WithFile(path, Partial)
    /\ UNCHANGED faults

\* The temporary file is in the directory, and has no name that is listed.
Opens ==
    /\ Asked({"create", "save"}) /\ (Request.op = "save" => Request.inside)
    /\ \/ /\ m3u' = [m3u EXCEPT !.at = "opened", !.temp = Partial,
                                !.path = IF Request.op = "create" THEN PathOf(Request.name)
                                         ELSE Request.path]
          /\ UNCHANGED faults
       \/ Fails
    /\ UNCHANGED files

\* All is in the temporary file, and on the disk.
Writes ==
    /\ m3u.at = "opened"
    /\ \/ m3u' = [m3u EXCEPT !.at = "written", !.temp = Whole(Request.tracks)]
          /\ UNCHANGED faults
       \/ Fails
    /\ UNCHANGED files

Replaces ==
    /\ m3u.at = "written"
    /\ \/ /\ files' = WithFile(m3u.path, m3u.temp)
          /\ m3u' = [m3u EXCEPT !.at = "replaced", !.temp = None]
          /\ UNCHANGED faults
       \/ Fails /\ UNCHANGED files

IsRenamed ==
    Request.op = "save" /\ Request.name # << >> /\ Request.name # NameOf(m3u.path)

\* The file gets the name that the playlist has now; another of that name is
\* replaced.  A name of blanks is an error that save() does not expect.
Renames ==
    /\ m3u.at = "replaced" /\ IsRenamed
    /\ LET path == MovedPath(Stripped(Request.name))
       IN  \/ /\ path = << >>
              /\ m3u' = Done(Answer("error", None))
              /\ UNCHANGED <<files, faults>>
           \/ /\ path # << >>
              /\ files' = [WithFile(path, files[m3u.path]) EXCEPT
                              ![m3u.path] = IF path = m3u.path THEN @ ELSE None]
              /\ m3u' = [m3u EXCEPT !.at = "renamed", !.path = path]
              /\ UNCHANGED faults
           \/ path # << >> /\ Fails /\ UNCHANGED files

\* stat() may fail as well.
Stats ==
    /\ m3u.at = "renamed" \/ (m3u.at = "replaced" /\ ~IsRenamed)
    /\ \/ /\ m3u' = Done(Answer("playlist",
                                Playlist(m3u.path, NameOf(m3u.path), Request.tracks)))
          /\ UNCHANGED faults
       \/ Fails
    /\ UNCHANGED files

M3UGoesOn ==
    \/ IgnoresOutside \/ Lists \/ Refreshes \/ Reads \/ Deletes
    \/ Opens \/ Writes \/ Replaces \/ Renames \/ Stats
=============================================================================
