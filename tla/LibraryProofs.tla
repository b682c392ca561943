----------------------------- MODULE LibraryProofs -----------------------------
(***************************************************************************)
(* Four theorems of the library, the playlists and the stream backend.     *)
(* Playlist files are whole, for every directory, set of calls, number of  *)
(* failures and of crashes: what replaces a file was written to its end    *)
(* before, and what is renamed is a file that is whole.  The stream        *)
(* backend plays what can be played: for every web of pages, a search that *)
(* was not interrupted ends at media whenever media can be reached.        *)
(* Playlists are kept: what a client is told of a playlist is so, and who  *)
(* listens knows all of them until a step fails.  And failures stay apart: *)
(* the answer has what each backend that was asked gave, in the order they *)
(* were asked, and nothing of those that failed.                           *)
(***************************************************************************)
EXTENDS Library, SeqLemmas, FiniteSetTheorems, TLAPS

\* The inductive invariant.  What a request has written is whole by the time it
\* replaces a file, and the file it then renames is there.
WholeInv ==
    /\ FilesAreWhole
    /\ DOMAIN m3u = {"at", "request", "temp", "path", "answer"}
    /\ m3u.at = "written" => m3u.temp.whole
    /\ m3u.at = "replaced" => m3u.path \in DOMAIN files /\ files[m3u.path].whole

LEMMA IdleDone ==
    ASSUME DOMAIN m3u = {"at", "request", "temp", "path", "answer"}
    PROVE  /\ DOMAIN Idle = DOMAIN m3u /\ Idle.at = "idle"
           /\ \A request : /\ DOMAIN M3UIsAsked(request) = DOMAIN m3u
                           /\ M3UIsAsked(request).at = "asked"
           /\ \A answer : DOMAIN Done(answer) = DOMAIN m3u /\ Done(answer).at = "done"
BY DEF Idle, M3UIsAsked, Done

\* When nothing is being written, only the files count.
LEMMA NotWriting ==
    ASSUME FilesAreWhole', DOMAIN m3u' = {"at", "request", "temp", "path", "answer"},
           m3u'.at \notin {"written", "replaced"}
    PROVE  WholeInv'
BY DEF WholeInv

LEMMA FilesStay ==
    ASSUME FilesAreWhole, files' = files
    PROVE  FilesAreWhole'
BY DEF FilesAreWhole, Exists

LEMMA StepOfM3U ==
    ASSUME WholeInv, M3UGoesOn
    PROVE  WholeInv'
<1>. USE DEF WholeInv
<1>1. ASSUME UNCHANGED files, NEW answer, m3u' = Done(answer)
      PROVE  WholeInv'
  BY <1>1, IdleDone, FilesStay, NotWriting
<1>2. CASE Fails /\ UNCHANGED files
  BY <1>1, <1>2 DEF Fails
<1>3. CASE IgnoresOutside \/ Lists \/ Refreshes
  BY <1>1, <1>3 DEF IgnoresOutside, Lists, Refreshes
<1>4. CASE Reads
  BY <1>1, <1>2, <1>4 DEF Reads
<1>5. CASE Deletes
  <2>1. CASE UNCHANGED files
    BY <1>1, <1>5, <2>1 DEF Deletes
  <2>2. CASE files' = [path \in DOMAIN files |-> IF path = Request.path THEN None ELSE files[path]]
    <3>1. FilesAreWhole'
      BY <2>2 DEF FilesAreWhole, Exists
    <3>2. \E answer : m3u' = Done(answer)
      BY <1>5 DEF Deletes
    <3>. QED BY <3>1, <3>2, IdleDone, NotWriting
  <2>. QED BY <1>5, <2>1, <2>2 DEF Deletes
<1>6. CASE Opens
  <2>1. CASE Fails
    BY <1>2, <1>6, <2>1 DEF Opens
  <2>2. CASE ~Fails
    <3>1. PICK path : m3u' = [m3u EXCEPT !.at = "opened", !.temp = Partial, !.path = path]
      BY <1>6, <2>2 DEF Opens
    <3>2. DOMAIN m3u' = DOMAIN m3u /\ m3u'.at = "opened" /\ FilesAreWhole'
      BY <1>6, <3>1, FilesStay DEF Opens
    <3>. QED BY <3>2, NotWriting
  <2>. QED BY <2>1, <2>2
<1>7. CASE Writes
  <2>1. CASE Fails
    BY <1>2, <1>7, <2>1 DEF Writes
  <2>2. CASE ~Fails
    <3>1. m3u' = [m3u EXCEPT !.at = "written", !.temp = Whole(Request.tracks)]
      BY <1>7, <2>2 DEF Writes
    <3>2. /\ DOMAIN m3u' = DOMAIN m3u /\ m3u'.at = "written" /\ m3u'.temp.whole
          /\ FilesAreWhole'
      BY <1>7, <3>1, FilesStay DEF Writes, Whole
    <3>. QED BY <3>2
  <2>. QED BY <2>1, <2>2
<1>8. CASE Replaces
  <2>1. CASE Fails /\ UNCHANGED files
    BY <1>2, <2>1
  <2>2. CASE ~(Fails /\ UNCHANGED files)
    <3>1. /\ files' = WithFile(m3u.path, m3u.temp) /\ m3u.temp.whole
          /\ m3u' = [m3u EXCEPT !.at = "replaced", !.temp = None]
      BY <1>8, <2>2 DEF Replaces
    <3>2. m3u.path \in DOMAIN files' /\ files'[m3u.path].whole /\ FilesAreWhole'
      BY <3>1 DEF WithFile, FilesAreWhole, Exists
    <3>3. DOMAIN m3u' = DOMAIN m3u /\ m3u'.at = "replaced" /\ m3u'.path = m3u.path
      BY <3>1
    <3>. QED BY <3>2, <3>3
  <2>. QED BY <2>1, <2>2
<1>9. CASE Renames
  <2>. DEFINE path == MovedPath(Stripped(Request.name))
  <2>1. CASE UNCHANGED files /\ \E answer : m3u' = Done(answer)
    BY <1>1, <2>1
  <2>2. CASE /\ files' = [WithFile(path, files[m3u.path]) EXCEPT
                             ![m3u.path] = IF path = m3u.path THEN @ ELSE None]
             /\ m3u' = [m3u EXCEPT !.at = "renamed", !.path = path]
    <3>1. m3u.path \in DOMAIN files /\ files[m3u.path].whole
      BY <1>9 DEF Renames
    <3>2. FilesAreWhole'
      BY <2>2, <3>1 DEF WithFile, FilesAreWhole, Exists
    <3>3. DOMAIN m3u' = DOMAIN m3u /\ m3u'.at = "renamed"
      BY <2>2
    <3>. QED BY <3>2, <3>3, NotWriting
  <2>3. \/ UNCHANGED files /\ \E answer : m3u' = Done(answer)
        \/ /\ files' = [WithFile(path, files[m3u.path]) EXCEPT
                           ![m3u.path] = IF path = m3u.path THEN @ ELSE None]
           /\ m3u' = [m3u EXCEPT !.at = "renamed", !.path = path]
    BY <1>9 DEF Renames, Fails
  <2>. QED BY <2>1, <2>2, <2>3
<1>10. CASE Stats
  <2>1. \E answer : m3u' = Done(answer)
    BY <1>10 DEF Stats, Fails
  <2>. QED BY <1>1, <1>10, <2>1 DEF Stats
<1>. QED BY <1>3, <1>4, <1>5, <1>6, <1>7, <1>8, <1>9, <1>10 DEF M3UGoesOn

\* No playlist file is ever there in part, however steps fail and whenever the
\* process ends (m3u/playlists.py, replace()).
THEOREM FilesAlwaysWhole == Spec => []FilesAreWhole
<1>1. Init => WholeInv
  <2>. SUFFICES ASSUME Init
                PROVE  WholeInv
    OBVIOUS
  <2>1. files = setting.files /\ setting \in Settings /\ m3u = Idle
    BY DEF Init, M3UInit
  <2>2. FilesAreWhole
    BY <2>1, StoredAssumption DEF FilesAreWhole, Exists
  <2>. QED BY <2>1, <2>2 DEF WholeInv, Idle
<1>2. WholeInv /\ [Next]_vars => WholeInv'
  <2>. SUFFICES ASSUME WholeInv, [Next]_vars
                PROVE  WholeInv'
    OBVIOUS
  <2>1. CASE UNCHANGED m3uVars
    BY <2>1, FilesStay DEF WholeInv, m3uVars
  <2>2. CASE M3UStarts \/ M3UAnswers \/ Crash
    <3>1. UNCHANGED files /\ (m3u' = Idle \/ \E request : m3u' = M3UIsAsked(request))
      BY <2>2 DEF M3UStarts, M3UAnswers, Crash
    <3>. QED BY <3>1, IdleDone, FilesStay, NotWriting DEF WholeInv
  <2>3. CASE M3UGoesOn
    BY <2>3, StepOfM3U
  <2>4. CASE CoreStarts \/ CoreGets \/ CoreRaises \/ CoreReplies \/ OtherActs \/ StreamActs
    <3>1. UNCHANGED m3uVars
      BY <2>4 DEF CoreStarts, CoreGets, CoreRaises, CoreReplies, OtherActs, StreamActs,
                  StreamIsAsked, StreamAnswers
    <3>. QED BY <2>1, <3>1
  <2>5. CASE UNCHANGED vars
    BY <2>1, <2>5 DEF vars
  <2>. QED BY <2>2, <2>3, <2>4, <2>5 DEF Next, M3UActs, Over
<1>3. WholeInv => FilesAreWhole
  BY DEF WholeInv
<1>. QED BY <1>1, <1>2, <1>3, PTL DEF Spec

-----------------------------------------------------------------------------
(* What the search is after, as operators on a web.  Those of Media are     *)
(* these, of the web there is.                                              *)

NextsIn(w, u) == FlattenSeq(ParsePlaylistEntries(w[u]))

FetchedIn(w, u) == Fetch(w[u], Len(w[u].chunks) + 1)

IsDocumentIn(w, u) == FetchedIn(w, u) = "text" /\ ParsePlaylistEntries(w[u]) # << >>

IsClosedIn(w, uris) == \A u \in uris : IsDocumentIn(w, u) => ToSet(NextsIn(w, u)) \subseteq uris

ReachableIn(w, uri) ==
    {u \in Pages : \A uris \in SUBSET Pages : uri \in uris /\ IsClosedIn(w, uris) => u \in uris}

IsPlayableIn(w, u) == ~IsDocumentIn(w, u) /\ IsPlayable(w[u].media)

IsFetchableIn(w, u) == ~IsDocumentIn(w, u) /\ FetchedIn(w, u) # "failed"

Before(tried, i) == {tried[j] : j \in 1 .. i}

NewIn(w, tried, i) == Chosen(NextsIn(w, tried[i]), Pages \ Before(tried, i))

IsInOrderIn(w, tried) ==
    \A i \in 1 .. Len(tried) - 1 :
        IsDocumentIn(w, tried[i]) /\ NewIn(w, tried, i) # << >>
            => tried[i + 1] = Head(NewIn(w, tried, i))

IsFirstIn(w, tried, uri) ==
    \E i \in 1 .. Len(tried) :
        /\ tried[i] = uri /\ IsFetchableIn(w, uri)
        /\ \A j \in 1 .. i - 1 : ~IsFetchableIn(w, tried[j])

(***************************************************************************)
(* The invariant of a search.                                              *)
(***************************************************************************)

SearchType(s) ==
    /\ DOMAIN s = DOMAIN NoSearch
    /\ s.at \in {"try", "info", "done"} /\ s.uri \in Pages
    /\ s.left \in Seq(Pages) /\ s.tried \in Seq(Pages)
    /\ s.seen = ToSet(s.tried) /\ IsInjective(s.tried)
    /\ s.late \in BOOLEAN
    /\ s.at # "done" => s.target = None

\* The one that is looked at; it is the last that was tried.
Looking(s) == IF s.at = "info" THEN {Head(s.left)} ELSE {}

LooksAtLast(s) ==
    s.at = "info" => /\ s.left # << >> /\ s.tried # << >>
                     /\ s.tried[Len(s.tried)] = Head(s.left)

\* All that was tried or is left is to be reached.
StaysReachable(s, w) == s.seen \union ToSet(s.left) \subseteq ReachableIn(w, s.uri)

\* What was looked at is not what is searched for, and its entries are tried or left.
IsExhausted(s, w) ==
    /\ s.uri \in s.seen \union ToSet(s.left)
    /\ \A u \in s.seen \ Looking(s) :
          /\ IsDocumentIn(w, u) => ToSet(NextsIn(w, u)) \subseteq s.seen \union ToSet(s.left)
          /\ ~IsPlayableIn(w, u)
          /\ s.unverified = None => ~IsFetchableIn(w, u)

\* The one that is looked at is no document, and what was fetched is of it.
KnowsNow(s, w) ==
    s.at = "info" => /\ ~IsDocumentIn(w, Head(s.left))
                     /\ s.fetched = (FetchedIn(w, Head(s.left)) # "failed")

\* What is left begins with what is new in the document that was tried last.
GoesDown(s, w) ==
    s.at = "try" /\ s.tried # << >> =>
        LET last == Len(s.tried)
            new == NewIn(w, s.tried, last)
        IN  IsDocumentIn(w, s.tried[last]) /\ new # << >> =>
                \E part, rest \in Seq(Pages) :
                    s.left = part \o rest /\ Chosen(part, Pages \ s.seen) = new

FoundIsReal(s, w) ==
    /\ s.unverified # None => IsFirstIn(w, s.tried, s.unverified.uri)
    /\ s.target # None => s.target.uri \in ReachableIn(w, s.uri) /\ IsPlayableIn(w, s.target.uri)

SearchInv(s, w) ==
    s.at # "none" =>
        /\ SearchType(s) /\ LooksAtLast(s)
        /\ StaysReachable(s, w) /\ IsInOrderIn(w, s.tried) /\ FoundIsReal(s, w)
        /\ ~s.late /\ s.target = None => IsExhausted(s, w) /\ KnowsNow(s, w) /\ GoesDown(s, w)
        /\ s.at = "done" /\ ~s.late /\ s.target = None => s.left = << >>

-----------------------------------------------------------------------------
(* Sequences. *)

\* The recursive function in FlattenSeq, and its step.
FlattenStep(seqs, f, i) == IF i = 1 THEN seqs[i] ELSE f[i - 1] \o seqs[i]

Flattening(seqs, f) == [i \in 1 .. Len(seqs) |-> IF i = 1 THEN seqs[i] ELSE f[i - 1] \o seqs[i]]

LEMMA FlatteningExists ==
    ASSUME NEW X, NEW seqs \in Seq(Seq(X))
    PROVE  \E f \in [1 .. Len(seqs) -> Seq(X)] : f = Flattening(seqs, f)
<1>. DEFINE Upto(n) == \E f \in [1 .. n -> Seq(X)] :
                           \A i \in 1 .. n : f[i] = FlattenStep(seqs, f, i)
            T == {n \in Nat : n <= Len(seqs) => Upto(n)}
<1>0. Len(seqs) \in Nat
  OBVIOUS
<1>1. 0 \in T
  <2>. DEFINE f == [i \in 1 .. 0 |-> << >>]
  <2>1. f \in [1 .. 0 -> Seq(X)] /\ 1 .. 0 = {}
    OBVIOUS
  <2>. HIDE DEF f
  <2>. QED BY <2>1, Zenon
<1>2. ASSUME NEW n \in Nat, n \in T PROVE n + 1 \in T
  <2>0. n + 1 \in Nat
    OBVIOUS
  <2>1. SUFFICES ASSUME n + 1 <= Len(seqs) PROVE Upto(n + 1)
    BY <2>0, Zenon
  <2>2. n <= Len(seqs)
    BY <2>1, <1>0
  <2>3. PICK f \in [1 .. n -> Seq(X)] : \A i \in 1 .. n : f[i] = FlattenStep(seqs, f, i)
    BY <1>2, <2>2
  <2>4. seqs[n + 1] \in Seq(X) /\ (n # 0 => f[n] \in Seq(X))
    BY <2>1, <1>0, <2>3
  <2>. DEFINE next == IF n = 0 THEN seqs[n + 1] ELSE f[n] \o seqs[n + 1]
              f2 == [i \in 1 .. n + 1 |-> IF i = n + 1 THEN next ELSE f[i]]
  <2>5. next \in Seq(X)
    BY <2>4, ConcatProperties
  <2>6. f2 \in [1 .. n + 1 -> Seq(X)]
    BY <2>5, <2>3
  <2>7. \A i \in 1 .. n + 1 : f2[i] = FlattenStep(seqs, f2, i)
    <3>. TAKE i \in 1 .. n + 1
    <3>1. CASE i = n + 1
      <4>1. f2[i] = next /\ (n # 0 => f2[i - 1] = f[n]) /\ (i = 1 <=> n = 0)
        BY <3>1
      <4>. QED BY <4>1, <3>1 DEF FlattenStep
    <3>2. CASE i # n + 1
      <4>1. i \in 1 .. n /\ f2[i] = f[i] /\ (i # 1 => i - 1 \in 1 .. n /\ f2[i - 1] = f[i - 1])
        BY <3>2
      <4>. QED BY <4>1, <2>3 DEF FlattenStep
    <3>. QED BY <3>1, <3>2
  <2>. HIDE DEF f2
  <2>. QED BY <2>6, <2>7
<1>. HIDE DEF T
<1>3. Len(seqs) \in T
  BY <1>0, <1>1, <1>2, NatSetInduction
<1>4. PICK f \in [1 .. Len(seqs) -> Seq(X)] :
         \A i \in 1 .. Len(seqs) : f[i] = FlattenStep(seqs, f, i)
  BY <1>3, <1>0 DEF T
<1>5. f = Flattening(seqs, f)
  BY <1>4 DEF FlattenStep, Flattening
<1>. QED BY <1>4, <1>5

LEMMA FlattenType ==
    ASSUME NEW X, NEW seqs \in Seq(Seq(X))
    PROVE  FlattenSeq(seqs) \in Seq(X)
<1>. DEFINE flatten == CHOOSE f : f = Flattening(seqs, f)
<1>0. Len(seqs) \in Nat
  OBVIOUS
<1>1. CASE Len(seqs) = 0
  <2>1. seqs = << >>
    BY <1>1, EmptySeq
  <2>. QED BY <1>1, <2>1 DEF FlattenSeq
<1>2. CASE Len(seqs) # 0
  <2>1. flatten = Flattening(seqs, flatten)
    BY FlatteningExists, Zenon
  <2>2. FlattenSeq(seqs) = flatten[Len(seqs)]
    BY <1>2, Zenon DEF FlattenSeq, Flattening
  <2>. HIDE DEF flatten
  <2>. DEFINE T == {n \in Nat : n \in 1 .. Len(seqs) => flatten[n] \in Seq(X)}
  <2>3. 0 \in T
    OBVIOUS
  <2>4. ASSUME NEW n \in Nat, n \in T PROVE n + 1 \in T
    <3>0. n + 1 \in Nat
      OBVIOUS
    <3>1. SUFFICES ASSUME n + 1 \in 1 .. Len(seqs) PROVE flatten[n + 1] \in Seq(X)
      BY <3>0, Zenon
    <3>2. flatten[n + 1] = IF n = 0 THEN seqs[n + 1] ELSE flatten[n] \o seqs[n + 1]
      <4>1. \A f : Flattening(seqs, f)[n + 1] = IF n = 0 THEN seqs[n + 1] ELSE f[n] \o seqs[n + 1]
        BY <3>1 DEF Flattening
      <4>. QED BY <2>1, <4>1, Zenon
    <3>3. seqs[n + 1] \in Seq(X) /\ (n # 0 => flatten[n] \in Seq(X))
      BY <2>4, <3>1, <1>0
    <3>. QED BY <3>2, <3>3, ConcatProperties
  <2>. HIDE DEF T
  <2>5. Len(seqs) \in T
    BY <1>0, <2>3, <2>4, NatSetInduction
  <2>. QED BY <2>2, <2>5, <1>0, <1>2 DEF T
<1>. QED BY <1>1, <1>2

LEMMA ToSetOf ==
    ASSUME NEW X, NEW s \in Seq(X)
    PROVE  /\ ToSet(s) = {s[i] : i \in 1 .. Len(s)} /\ ToSet(s) \subseteq X
           /\ s # << >> => /\ Head(s) = s[1] /\ Head(s) \in ToSet(s)
                           /\ ToSet(s) = {Head(s)} \union ToSet(Tail(s))
<1>1. /\ Len(s) \in Nat /\ DOMAIN s = 1 .. Len(s) /\ \A i \in 1 .. Len(s) : s[i] \in X
      /\ ToSet(s) = {s[i] : i \in 1 .. Len(s)}
  BY LenProperties DEF ToSet
<1>2. ASSUME s # << >>
      PROVE  /\ Head(s) = s[1] /\ Head(s) \in ToSet(s)
             /\ ToSet(s) = {Head(s)} \union ToSet(Tail(s))
  <2>. DEFINE t == Tail(s)
  <2>1. /\ t \in Seq(X) /\ Len(t) = Len(s) - 1 /\ Len(s) # 0
        /\ \A i \in 1 .. Len(t) : t[i] = s[i + 1]
    BY <1>2, HeadTailProperties, EmptySeq
  <2>2. Head(s) = s[1]
    BY <1>2
  <2>. HIDE DEF t
  <2>6. ToSet(t) = {t[i] : i \in 1 .. Len(t)}
    <3>1. DOMAIN t = 1 .. Len(t)
      BY <2>1, LenProperties
    <3>. QED BY <3>1 DEF ToSet
  <2>3. \A i \in 1 .. Len(s) : i # 1 => i - 1 \in 1 .. Len(t) /\ t[i - 1] = s[i]
    BY <2>1, <1>1
  <2>4. \A i \in 1 .. Len(t) : i + 1 \in 1 .. Len(s)
    BY <2>1, <1>1
  <2>5. 1 \in 1 .. Len(s)
    BY <2>1, <1>1
  <2>7. Head(s) \in ToSet(s)
    BY <1>1, <2>2, <2>5
  <2>8. ToSet(s) \subseteq {Head(s)} \union ToSet(t)
    BY <1>1, <2>2, <2>3, <2>6
  <2>9. ToSet(t) \subseteq ToSet(s)
    BY <1>1, <2>1, <2>4, <2>6
  <2>. QED BY <2>2, <2>7, <2>8, <2>9 DEF t
<1>. QED BY <1>1, <1>2

LEMMA ToSetOfConcat ==
    ASSUME NEW X, NEW s \in Seq(X), NEW t \in Seq(X)
    PROVE  ToSet(s \o t) = ToSet(s) \union ToSet(t)
<1>1. Range(s \o t) = Range(s) \union Range(t)
  BY RangeConcatenation
<1>. QED BY <1>1 DEF Range, ToSet

\* One more is tried.
LEMMA ToSetOfAppend ==
    ASSUME NEW X, NEW s \in Seq(X), NEW x \in X \ ToSet(s), IsInjective(s)
    PROVE  /\ Append(s, x) \in Seq(X) /\ IsInjective(Append(s, x)) /\ Append(s, x) # << >>
           /\ ToSet(Append(s, x)) = ToSet(s) \union {x}
           /\ Len(Append(s, x)) = Len(s) + 1 /\ Len(s) \in Nat
           /\ Append(s, x)[Len(s) + 1] = x
           /\ \A i \in 1 .. Len(s) : Append(s, x)[i] = s[i]
           /\ \A i \in 1 .. Len(s) : Before(Append(s, x), i) = Before(s, i)
           /\ \A i \in 1 .. Len(s) : Before(s, i) \subseteq ToSet(s)
           /\ Before(Append(s, x), Len(s) + 1) = ToSet(s) \union {x}
<1>. DEFINE t == Append(s, x)
<1>1. /\ t \in Seq(X) /\ t # << >> /\ Len(t) = Len(s) + 1 /\ Len(s) \in Nat
      /\ t[Len(s) + 1] = x /\ \A i \in 1 .. Len(s) : t[i] = s[i]
  BY AppendProperties
<1>. HIDE DEF t
<1>2. ToSet(t) = {t[i] : i \in 1 .. Len(s) + 1} /\ ToSet(s) = {s[i] : i \in 1 .. Len(s)}
  BY <1>1, ToSetOf
<1>3. \A i \in 1 .. Len(s) : 1 .. i \subseteq 1 .. Len(s)
  BY <1>1
<1>4. 1 .. Len(s) + 1 = 1 .. Len(s) \union {Len(s) + 1}
  BY <1>1
<1>5. ToSet(t) = ToSet(s) \union {x} /\ Before(t, Len(s) + 1) = ToSet(s) \union {x}
  BY <1>1, <1>2, <1>4 DEF Before
<1>6. IsInjective(t)
  <2>1. DOMAIN t = 1 .. Len(s) \union {Len(s) + 1} /\ DOMAIN s = 1 .. Len(s)
    BY <1>1, <1>4, LenProperties
  <2>2. \A i \in 1 .. Len(s) : s[i] # x
    BY <1>2
  <2>. QED BY <1>1, <2>1, <2>2 DEF IsInjective
<1>7. \A i \in 1 .. Len(s) : Before(t, i) = Before(s, i) /\ Before(s, i) \subseteq ToSet(s)
  BY <1>1, <1>2, <1>3 DEF Before
<1>. QED BY <1>1, <1>5, <1>6, <1>7 DEF t

LEMMA LastIsIn ==
    ASSUME NEW X, NEW s \in Seq(X), s # << >>
    PROVE  /\ Len(s) \in 1 .. Len(s) /\ s[Len(s)] \in ToSet(s)
           /\ Before(s, Len(s)) = ToSet(s)
<1>1. Len(s) \in 1 .. Len(s)
  BY EmptySeq
<1>. QED BY <1>1, ToSetOf DEF Before

LEMMA HeadTailOfConcat ==
    ASSUME NEW X, NEW s \in Seq(X), s # << >>, NEW t \in Seq(X)
    PROVE  Head(s \o t) = Head(s) /\ Tail(s \o t) = Tail(s) \o t
<1>. DEFINE u == s \o t
            v == Tail(s) \o t
<1>1. /\ Len(s) \in Nat \ {0} /\ Len(t) \in Nat /\ u \in Seq(X) /\ Len(u) = Len(s) + Len(t)
      /\ \A i \in 1 .. Len(u) : u[i] = IF i <= Len(s) THEN s[i] ELSE t[i - Len(s)]
  BY EmptySeq, ConcatProperties
<1>2. /\ Tail(s) \in Seq(X) /\ Len(Tail(s)) = Len(s) - 1
      /\ \A i \in 1 .. Len(Tail(s)) : Tail(s)[i] = s[i + 1]
  BY HeadTailProperties
<1>3. /\ v \in Seq(X) /\ Len(v) = Len(s) - 1 + Len(t)
      /\ \A i \in 1 .. Len(v) : v[i] = IF i <= Len(s) - 1 THEN Tail(s)[i] ELSE t[i - (Len(s) - 1)]
  BY <1>1, <1>2, ConcatProperties
<1>. HIDE DEF u, v
<1>4. u # << >> /\ 1 \in 1 .. Len(u) /\ 1 <= Len(s)
  BY <1>1
<1>5. Head(u) = u[1] /\ Head(s) = s[1] /\ u[1] = s[1]
  BY <1>1, <1>4
<1>6. /\ Tail(u) \in Seq(X) /\ Len(Tail(u)) = Len(u) - 1
      /\ \A i \in 1 .. Len(Tail(u)) : Tail(u)[i] = u[i + 1]
  BY <1>1, <1>4, HeadTailProperties
<1>7. \A i \in 1 .. Len(v) : Tail(u)[i] = v[i]
  <2>. TAKE i \in 1 .. Len(v)
  <2>1. i + 1 \in 1 .. Len(u) /\ i \in 1 .. Len(Tail(u)) /\ (i <= Len(s) - 1 <=> i + 1 <= Len(s))
        /\ (i + 1) - Len(s) = i - (Len(s) - 1)
    BY <1>1, <1>3, <1>6
  <2>2. i <= Len(s) - 1 => i \in 1 .. Len(Tail(s))
    BY <1>1, <1>2
  <2>. QED BY <1>1, <1>2, <1>3, <1>6, <2>1, <2>2
<1>8. Tail(u) = v
  BY <1>1, <1>3, <1>6, <1>7, SeqEqual
<1>. QED BY <1>5, <1>8 DEF u, v

LEMMA FirstOf ==
    ASSUME NEW X, NEW s \in Seq(X), NEW i \in 1 .. Len(s) - 1
    PROVE  ToSet(SubSeq(s, 1, i)) = Before(s, i)
<1>1. i \in Nat /\ 1 <= i /\ 1 .. i \subseteq 1 .. Len(s)
  OBVIOUS
<1>. DEFINE t == SubSeq(s, 1, i)
<1>2. t \in Seq(X) /\ Len(t) = i /\ \A j \in 1 .. i : t[j] = s[j]
  <2>1. \A j \in 1 .. i : s[j] \in X
    BY <1>1
  <2>2. t \in Seq(X) /\ Len(t) = i - 1 + 1 /\ \A j \in 1 .. i - 1 + 1 : t[j] = s[1 + j - 1]
    BY <1>1, <2>1, SubSeqProperties
  <2>. HIDE DEF t
  <2>. QED BY <1>1, <2>2
<1>. HIDE DEF t
<1>3. ToSet(t) = {s[j] : j \in 1 .. i}
  BY <1>2, ToSetOf
<1>. QED BY <1>3 DEF Before, t

-----------------------------------------------------------------------------
(* The web. *)

LEMMA NextsType ==
    ASSUME NEW w \in [Pages -> PageType], NEW u \in Pages
    PROVE  NextsIn(w, u) \in Seq(Pages) /\ ToSet(NextsIn(w, u)) \subseteq Pages
<1>1. w[u].entries \in Seq(Seq(Pages)) /\ << >> \in Seq(Seq(Pages))
  BY DEF PageType
<1>2. ParsePlaylistEntries(w[u]) \in Seq(Seq(Pages))
  BY <1>1 DEF ParsePlaylistEntries
<1>. QED BY <1>2, FlattenType, ToSetOf DEF NextsIn

LEMMA ReachableIsClosed ==
    ASSUME NEW w \in [Pages -> PageType], NEW uri \in Pages
    PROVE  /\ uri \in ReachableIn(w, uri) /\ ReachableIn(w, uri) \subseteq Pages
           /\ IsClosedIn(w, ReachableIn(w, uri))
           /\ \A uris \in SUBSET Pages :
                 uri \in uris /\ IsClosedIn(w, uris) => ReachableIn(w, uri) \subseteq uris
<1>1. uri \in ReachableIn(w, uri) /\ ReachableIn(w, uri) \subseteq Pages
  BY DEF ReachableIn
<1>2. ASSUME NEW u \in ReachableIn(w, uri), IsDocumentIn(w, u), NEW v \in ToSet(NextsIn(w, u))
      PROVE  v \in ReachableIn(w, uri)
  <2>1. v \in Pages
    BY <1>1, NextsType
  <2>2. ASSUME NEW uris \in SUBSET Pages, uri \in uris, IsClosedIn(w, uris)
        PROVE  v \in uris
    <3>1. u \in uris
      BY <2>2 DEF ReachableIn
    <3>. QED BY <1>2, <2>2, <3>1 DEF IsClosedIn
  <2>. QED BY <2>1, <2>2 DEF ReachableIn
<1>. QED BY <1>1, <1>2 DEF IsClosedIn, ReachableIn

\* What is read as a text was read to its end.
LEMMA TextIsInTime ==
    ASSUME NEW page \in PageType, NEW lateAt \in 1 .. Len(page.chunks) + 1,
           Fetch(page, lateAt) = "text"
    PROVE  lateAt = Len(page.chunks) + 1
<1>. SUFFICES ASSUME lateAt # Len(page.chunks) + 1 PROVE FALSE
  OBVIOUS
<1>1. page.chunks \in Seq({"text", "binary"}) /\ Len(page.chunks) \in Nat
  BY DEF PageType
<1>2. lateAt \in 1 .. Len(page.chunks) /\ lateAt >= lateAt
  BY <1>1
<1>. DEFINE ends == {i \in 1 .. Len(page.chunks) :
                        page.chunks[i] = "binary" \/ i > MaxChunks \/ i >= lateAt}
<1>3. lateAt \in ends
  BY <1>2
<1>4. Read(page.chunks, lateAt) # "text"
  BY <1>3 DEF Read
<1>. QED BY <1>4 DEF Fetch

-----------------------------------------------------------------------------
(* The steps of a search, as facts on what it was and is. *)

Rests(s, t) == t = [s EXCEPT !.at = "try", !.left = Tail(@)]

Goes(s) == s.at = "try" /\ s.left # << >> /\ ~s.late

SkipsOne(s, t) == Goes(s) /\ Head(s.left) \in s.seen /\ Rests(s, t)

Stops(s, t) == s.at = "try" /\ (s.left = << >> \/ s.late) /\ t = [s EXCEPT !.at = "done"]

FetchesOne(s, t, w) ==
    LET u == Head(s.left)
    IN  /\ Goes(s) /\ u \notin s.seen
        /\ \E late \in BOOLEAN, lateAt \in 1 .. Len(w[u].chunks) + 1 :
              LET tried == [s EXCEPT !.seen = @ \union {u}, !.tried = Append(@, u), !.late = late]
                  fetched == Fetch(w[u], lateAt)
              IN  /\ lateAt <= Len(w[u].chunks) => late
                  /\ t = IF fetched = "text" /\ ParsePlaylistEntries(w[u]) # << >>
                         THEN [tried EXCEPT !.left = NextsIn(w, u) \o Tail(@)]
                         ELSE [tried EXCEPT !.at = "info", !.fetched = fetched # "failed"]

InspectsOne(s, t, w) ==
    LET u == Head(s.left)
    IN  /\ s.at = "info" /\ ~s.late
        /\ \E late \in BOOLEAN, media \in {w[u].media, "none"} :
              /\ media # w[u].media => late
              /\ t = IF IsPlayable(media)
                     THEN [s EXCEPT !.at = "done", !.late = late, !.target = Target(u, media)]
                     ELSE [s EXCEPT !.at = "try", !.left = Tail(@), !.late = late,
                                    !.unverified = IF s.fetched /\ @ = None
                                                   THEN Target(u, "none") ELSE @]

GivesUpOne(s, t) == s.at = "info" /\ s.late /\ Rests(s, t)

LEMMA SearchStays ==
    ASSUME NEW w \in [Pages -> PageType], NEW s, s.at # "none", SearchInv(s, w),
           s.at \in {"try", "info"}, s.left # << >>, Head(s.left) \in s.seen, NEW t,
           DOMAIN t = DOMAIN s, t.at = "try", t.left = Tail(s.left), t.late \in BOOLEAN,
           t.uri = s.uri, t.seen = s.seen, t.tried = s.tried, t.target = s.target
    PROVE  /\ SearchType(t) /\ LooksAtLast(t) /\ StaysReachable(t, w) /\ IsInOrderIn(w, t.tried)
           /\ t.target = None
           /\ t.seen \union ToSet(t.left) = s.seen \union ToSet(s.left)
<1>. USE DEF SearchInv
<1>1. SearchType(t) /\ t.target = None
  BY HeadTailProperties DEF SearchType
<1>2. t.seen \union ToSet(t.left) = s.seen \union ToSet(s.left)
  <2>1. s.left \in Seq(Pages)
    BY DEF SearchType
  <2>2. ToSet(s.left) = {Head(s.left)} \union ToSet(Tail(s.left))
    BY <2>1, ToSetOf
  <2>. QED BY <2>2
<1>. QED BY <1>1, <1>2 DEF LooksAtLast, StaysReachable

LEMMA SkippingIsSafe ==
    ASSUME NEW w \in [Pages -> PageType], NEW s, SearchInv(s, w), NEW t, SkipsOne(s, t)
    PROVE  SearchInv(t, w)
<1>1. /\ s.at = "try" /\ s.left # << >> /\ ~s.late /\ Head(s.left) \in s.seen /\ s.target = None
      /\ SearchType(s) /\ IsExhausted(s, w) /\ GoesDown(s, w) /\ FoundIsReal(s, w)
  BY DEF SkipsOne, Goes, SearchInv, SearchType
<1>2. /\ DOMAIN t = DOMAIN s /\ t.at = "try" /\ t.left = Tail(s.left) /\ t.late = s.late
      /\ t.uri = s.uri /\ t.seen = s.seen /\ t.tried = s.tried /\ t.target = s.target
      /\ t.unverified = s.unverified
  BY <1>1 DEF SkipsOne, Rests, SearchType, NoSearch
<1>3. /\ SearchType(t) /\ LooksAtLast(t) /\ StaysReachable(t, w) /\ IsInOrderIn(w, t.tried)
      /\ t.target = None /\ t.seen \union ToSet(t.left) = s.seen \union ToSet(s.left)
  <2>1. s.late \in BOOLEAN
    BY <1>1 DEF SearchType
  <2>. QED BY <1>1, <1>2, <2>1, SearchStays
<1>4. FoundIsReal(t, w)
  BY <1>1, <1>2 DEF FoundIsReal
<1>5. IsExhausted(t, w) /\ KnowsNow(t, w)
  BY <1>1, <1>2, <1>3 DEF IsExhausted, Looking, KnowsNow
<1>6. GoesDown(t, w)
  <2>. DEFINE new == NewIn(w, s.tried, Len(s.tried))
  <2>1. SUFFICES ASSUME t.tried # << >>, IsDocumentIn(w, s.tried[Len(s.tried)]), new # << >>
                 PROVE  \E part, rest \in Seq(Pages) :
                            t.left = part \o rest /\ Chosen(part, Pages \ t.seen) = new
    BY <1>2 DEF GoesDown
  <2>2. PICK part \in Seq(Pages), rest \in Seq(Pages) :
           s.left = part \o rest /\ Chosen(part, Pages \ s.seen) = new
    BY <1>1, <1>2, <2>1 DEF GoesDown
  <2>3. part # << >>
    BY <2>1, <2>2, ChosenType
  <2>4. Head(s.left) = Head(part) /\ Tail(s.left) = Tail(part) \o rest /\ Tail(part) \in Seq(Pages)
    <3>1. Tail(part) \in Seq(Pages)
      BY <2>3, HeadTailProperties
    <3>2. Head(part \o rest) = Head(part) /\ Tail(part \o rest) = Tail(part) \o rest
      BY <2>3, HeadTailOfConcat
    <3>. QED BY <2>2, <3>1, <3>2
  <2>5. Chosen(Tail(part), Pages \ t.seen) = new
    BY <1>1, <1>2, <2>2, <2>3, <2>4, ChosenOfTail
  <2>. QED BY <1>2, <2>4, <2>5
<1>. QED BY <1>1, <1>2, <1>3, <1>4, <1>5, <1>6 DEF SearchInv

LEMMA StoppingIsSafe ==
    ASSUME NEW w \in [Pages -> PageType], NEW s, SearchInv(s, w), NEW t, Stops(s, t)
    PROVE  SearchInv(t, w)
<1>1. /\ s.at = "try" /\ (s.left = << >> \/ s.late) /\ s.target = None
      /\ SearchType(s) /\ FoundIsReal(s, w) /\ StaysReachable(s, w) /\ IsInOrderIn(w, s.tried)
      /\ ~s.late => IsExhausted(s, w)
  BY DEF Stops, SearchInv, SearchType
<1>2. /\ DOMAIN t = DOMAIN s /\ t.at = "done" /\ t.left = s.left /\ t.late = s.late
      /\ t.uri = s.uri /\ t.seen = s.seen /\ t.tried = s.tried /\ t.target = s.target
      /\ t.unverified = s.unverified
  BY <1>1 DEF Stops, SearchType, NoSearch
<1>3. SearchType(t)
  BY <1>1, <1>2 DEF SearchType
<1>4. LooksAtLast(t) /\ StaysReachable(t, w) /\ FoundIsReal(t, w)
  BY <1>1, <1>2 DEF LooksAtLast, StaysReachable, FoundIsReal
<1>5. ~t.late => IsExhausted(t, w) /\ KnowsNow(t, w) /\ GoesDown(t, w)
  BY <1>1, <1>2 DEF IsExhausted, Looking, KnowsNow, GoesDown
<1>. QED BY <1>1, <1>2, <1>3, <1>4, <1>5 DEF SearchInv

LEMMA GivingUpIsSafe ==
    ASSUME NEW w \in [Pages -> PageType], NEW s, SearchInv(s, w), NEW t, GivesUpOne(s, t)
    PROVE  SearchInv(t, w)
<1>1. /\ s.at = "info" /\ s.late /\ s.target = None /\ LooksAtLast(s)
      /\ SearchType(s) /\ FoundIsReal(s, w)
  BY DEF GivesUpOne, SearchInv, SearchType
<1>2. /\ DOMAIN t = DOMAIN s /\ t.at = "try" /\ t.left = Tail(s.left) /\ t.late = s.late
      /\ t.uri = s.uri /\ t.seen = s.seen /\ t.tried = s.tried /\ t.target = s.target
      /\ t.unverified = s.unverified
  BY <1>1 DEF GivesUpOne, Rests, SearchType, NoSearch
<1>3. s.left # << >> /\ Head(s.left) \in s.seen
  BY <1>1, LastIsIn DEF LooksAtLast, SearchType
<1>4. /\ SearchType(t) /\ LooksAtLast(t) /\ StaysReachable(t, w) /\ IsInOrderIn(w, t.tried)
      /\ t.target = None
  <2>1. s.late \in BOOLEAN
    BY <1>1 DEF SearchType
  <2>. QED BY <1>1, <1>2, <1>3, <2>1, SearchStays
<1>5. FoundIsReal(t, w)
  BY <1>1, <1>2 DEF FoundIsReal
<1>. QED BY <1>1, <1>2, <1>4, <1>5 DEF SearchInv

\* What is tried next is the first that is new, and what was found stays the first.
LEMMA TryingIsSafe ==
    ASSUME NEW w \in [Pages -> PageType], NEW s, SearchInv(s, w), Goes(s),
           Head(s.left) \notin s.seen,
           NEW tried, tried = Append(s.tried, Head(s.left))
    PROVE  /\ tried \in Seq(Pages) /\ tried # << >> /\ tried[Len(tried)] = Head(s.left)
           /\ IsInjective(tried) /\ ToSet(tried) = s.seen \union {Head(s.left)}
           /\ Before(tried, Len(tried)) = ToSet(tried)
           /\ IsInOrderIn(w, tried)
           /\ s.unverified # None => IsFirstIn(w, tried, s.unverified.uri)
           /\ Head(s.left) \in Pages
<1>. DEFINE u == Head(s.left)
            n == Len(s.tried)
<1>1. /\ SearchType(s) /\ s.at = "try" /\ s.left # << >> /\ GoesDown(s, w)
      /\ IsInOrderIn(w, s.tried) /\ FoundIsReal(s, w)
  BY DEF SearchInv, Goes, SearchType
<1>2. u \in Pages /\ s.tried \in Seq(Pages) /\ s.seen = ToSet(s.tried) /\ IsInjective(s.tried)
  BY <1>1, HeadTailProperties DEF SearchType
<1>3. /\ tried \in Seq(Pages) /\ IsInjective(tried) /\ tried # << >>
      /\ ToSet(tried) = ToSet(s.tried) \union {u}
      /\ Len(tried) = n + 1 /\ n \in Nat
      /\ tried[n + 1] = u
      /\ \A i \in 1 .. n : tried[i] = s.tried[i]
      /\ \A i \in 1 .. n : Before(tried, i) = Before(s.tried, i)
      /\ Before(tried, n + 1) = ToSet(s.tried) \union {u}
  BY <1>2, ToSetOfAppend
<1>. HIDE DEF u, n
<1>4. \A i \in 1 .. n : NewIn(w, tried, i) = NewIn(w, s.tried, i)
  BY <1>3 DEF NewIn
<1>5. ASSUME NEW i \in 1 .. n, IsDocumentIn(w, tried[i]), NewIn(w, tried, i) # << >>
      PROVE  tried[i + 1] = Head(NewIn(w, tried, i))
  <2>1. IsDocumentIn(w, s.tried[i]) /\ NewIn(w, s.tried, i) # << >>
    BY <1>3, <1>4, <1>5
  <2>2. CASE i < n
    <3>1. i \in 1 .. n - 1 /\ i + 1 \in 1 .. n
      BY <2>2, <1>3
    <3>2. s.tried[i + 1] = Head(NewIn(w, s.tried, i))
      BY <1>1, <2>1, <3>1 DEF IsInOrderIn, n
    <3>. QED BY <3>1, <3>2, <1>3, <1>4
  <2>3. CASE i = n
    <3>. DEFINE new == NewIn(w, s.tried, n)
    <3>0. s.tried # << >>
      BY <2>3, <1>2 DEF n
    <3>1. PICK part \in Seq(Pages), rest \in Seq(Pages) :
             s.left = part \o rest /\ Chosen(part, Pages \ s.seen) = new
      BY <1>1, <2>1, <2>3, <3>0 DEF GoesDown, n
    <3>2. part # << >>
      BY <2>1, <2>3, <3>1, ChosenType
    <3>3. u = Head(part)
      BY <3>1, <3>2, HeadTailOfConcat DEF u
    <3>4. Head(part) \in Pages \ s.seen
      BY <3>3, <1>2 DEF u
    <3>5. Head(new) = Head(part)
      BY <3>1, <3>2, <3>4, ChosenOfTail
    <3>. QED BY <2>3, <3>3, <3>5, <1>3, <1>4
  <2>. QED BY <2>2, <2>3, <1>3
<1>6. IsInOrderIn(w, tried)
  BY <1>3, <1>5 DEF IsInOrderIn
<1>7. ASSUME s.unverified # None PROVE IsFirstIn(w, tried, s.unverified.uri)
  <2>1. PICK i \in 1 .. n : /\ s.tried[i] = s.unverified.uri /\ IsFetchableIn(w, s.unverified.uri)
                            /\ \A j \in 1 .. i - 1 : ~IsFetchableIn(w, s.tried[j])
    BY <1>1, <1>7 DEF FoundIsReal, IsFirstIn, n
  <2>2. i \in 1 .. Len(tried) /\ \A j \in 1 .. i - 1 : j \in 1 .. n
    BY <1>3
  <2>. QED BY <2>1, <2>2, <1>3 DEF IsFirstIn
<1>. QED BY <1>2, <1>3, <1>6, <1>7 DEF u

LEMMA FetchingIsSafe ==
    ASSUME NEW w \in [Pages -> PageType], NEW s, SearchInv(s, w), NEW t, FetchesOne(s, t, w)
    PROVE  SearchInv(t, w)
<1>. DEFINE u == Head(s.left)
            tried == Append(s.tried, u)
            seen == s.seen \union {u}
<1>1. /\ s.at = "try" /\ s.left # << >> /\ ~s.late /\ s.target = None /\ Goes(s) /\ u \notin s.seen
      /\ SearchType(s) /\ StaysReachable(s, w) /\ IsExhausted(s, w)
  BY DEF FetchesOne, Goes, SearchInv, SearchType
<1>2. /\ tried \in Seq(Pages) /\ tried # << >> /\ tried[Len(tried)] = u
      /\ IsInjective(tried) /\ ToSet(tried) = seen /\ Before(tried, Len(tried)) = seen
      /\ IsInOrderIn(w, tried) /\ u \in Pages
      /\ s.unverified # None => IsFirstIn(w, tried, s.unverified.uri)
  BY <1>1, TryingIsSafe
<1>3. /\ s.left \in Seq(Pages) /\ Tail(s.left) \in Seq(Pages) /\ s.uri \in Pages
      /\ u \in ToSet(s.left) /\ ToSet(s.left) = {u} \union ToSet(Tail(s.left))
  BY <1>1, ToSetOf, HeadTailProperties DEF SearchType
<1>4. PICK late \in BOOLEAN, lateAt \in 1 .. Len(w[u].chunks) + 1 :
         /\ lateAt <= Len(w[u].chunks) => late
         /\ t = IF Fetch(w[u], lateAt) = "text" /\ ParsePlaylistEntries(w[u]) # << >>
                THEN [[s EXCEPT !.seen = @ \union {u}, !.tried = Append(@, u), !.late = late]
                         EXCEPT !.left = NextsIn(w, u) \o Tail(@)]
                ELSE [[s EXCEPT !.seen = @ \union {u}, !.tried = Append(@, u), !.late = late]
                         EXCEPT !.at = "info", !.fetched = Fetch(w[u], lateAt) # "failed"]
  BY DEF FetchesOne
<1>5. w[u] \in PageType /\ Len(w[u].chunks) \in Nat
  BY <1>2 DEF PageType
<1>6. ~late => lateAt = Len(w[u].chunks) + 1
  BY <1>4, <1>5
<1>7. u \in ReachableIn(w, s.uri) /\ s.seen \union ToSet(s.left) \subseteq ReachableIn(w, s.uri)
  BY <1>1, <1>3 DEF StaysReachable
<1>. HIDE DEF tried, seen, u
<1>9. CASE Fetch(w[u], lateAt) = "text" /\ ParsePlaylistEntries(w[u]) # << >>
  <2>. DEFINE left == NextsIn(w, u) \o Tail(s.left)
  <2>1. /\ DOMAIN t = DOMAIN s /\ t.at = "try" /\ t.left = left /\ t.late = late
        /\ t.uri = s.uri /\ t.seen = seen /\ t.tried = tried /\ t.target = None
        /\ t.unverified = s.unverified
    BY <1>1, <1>4, <1>9 DEF SearchType, NoSearch, tried, seen
  <2>2. NextsIn(w, u) \in Seq(Pages) /\ ToSet(NextsIn(w, u)) \subseteq Pages
    BY <1>2, NextsType
  <2>3. left \in Seq(Pages) /\ ToSet(left) = ToSet(NextsIn(w, u)) \union ToSet(Tail(s.left))
    <3>1. NextsIn(w, u) \o Tail(s.left) \in Seq(Pages)
      BY <2>2, <1>3, ConcatProperties
    <3>2. ASSUME NEW nexts \in Seq(Pages), NEW tail \in Seq(Pages)
          PROVE  ToSet(nexts \o tail) = ToSet(nexts) \union ToSet(tail)
      BY ToSetOfConcat
    <3>. QED BY <2>2, <1>3, <3>1, <3>2
  <2>4. IsDocumentIn(w, u)
    BY <1>9, <1>5, TextIsInTime DEF IsDocumentIn, FetchedIn
  <2>. HIDE DEF left
  <2>5. SearchType(t) /\ LooksAtLast(t)
    BY <1>1, <1>2, <1>3, <2>1, <2>3 DEF SearchType, LooksAtLast
  <2>6. StaysReachable(t, w)
    <3>1. ToSet(NextsIn(w, u)) \subseteq ReachableIn(w, s.uri)
      BY <1>3, <1>7, <2>4, ReachableIsClosed DEF IsClosedIn
    <3>. QED BY <1>3, <1>7, <2>1, <2>3, <3>1 DEF StaysReachable, seen
  <2>7. IsExhausted(t, w)
    <3>1. s.seen \union ToSet(s.left) \subseteq t.seen \union ToSet(t.left)
      BY <1>3, <2>1, <2>3 DEF seen
    <3>2. t.seen \ Looking(t) = s.seen \union {u} /\ Looking(s) = {}
      BY <1>1, <2>1 DEF Looking, seen
    <3>3. ToSet(NextsIn(w, u)) \subseteq t.seen \union ToSet(t.left)
      BY <2>1, <2>3
    <3>4. ~IsPlayableIn(w, u) /\ ~IsFetchableIn(w, u)
      BY <2>4 DEF IsPlayableIn, IsFetchableIn
    <3>. QED BY <1>1, <2>1, <3>1, <3>2, <3>3, <3>4 DEF IsExhausted
  <2>8. KnowsNow(t, w)
    BY <2>1 DEF KnowsNow
  <2>9. GoesDown(t, w)
    <3>1. NewIn(w, t.tried, Len(t.tried)) = Chosen(NextsIn(w, u), Pages \ t.seen)
      BY <1>2, <2>1 DEF NewIn
    <3>2. t.left = NextsIn(w, u) \o Tail(s.left)
      BY <2>1 DEF left
    <3>. QED BY <1>3, <2>2, <3>1, <3>2 DEF GoesDown
  <2>10. FoundIsReal(t, w)
    BY <1>2, <2>1 DEF FoundIsReal
  <2>. QED BY <1>2, <2>1, <2>5, <2>6, <2>7, <2>8, <2>9, <2>10 DEF SearchInv
<1>10. CASE ~(Fetch(w[u], lateAt) = "text" /\ ParsePlaylistEntries(w[u]) # << >>)
  <2>1. /\ DOMAIN t = DOMAIN s /\ t.at = "info" /\ t.left = s.left /\ t.late = late
        /\ t.uri = s.uri /\ t.seen = seen /\ t.tried = tried /\ t.target = None
        /\ t.unverified = s.unverified /\ t.fetched = (Fetch(w[u], lateAt) # "failed")
    BY <1>1, <1>4, <1>10 DEF SearchType, NoSearch, tried, seen
  <2>2. SearchType(t) /\ LooksAtLast(t)
    BY <1>1, <1>2, <2>1 DEF SearchType, LooksAtLast, u
  <2>3. StaysReachable(t, w)
    BY <1>7, <2>1 DEF StaysReachable, seen
  <2>4. IsExhausted(t, w)
    <3>1. t.seen \ Looking(t) \subseteq s.seen /\ Looking(s) = {}
      BY <1>1, <2>1 DEF Looking, seen, u
    <3>2. s.seen \union ToSet(s.left) \subseteq t.seen \union ToSet(t.left)
      BY <2>1 DEF seen
    <3>. QED BY <1>1, <2>1, <3>1, <3>2 DEF IsExhausted
  <2>5. ~t.late => KnowsNow(t, w)
    BY <1>6, <1>10, <2>1 DEF KnowsNow, IsDocumentIn, FetchedIn, u
  <2>6. GoesDown(t, w) /\ FoundIsReal(t, w)
    BY <1>2, <2>1 DEF GoesDown, FoundIsReal
  <2>. QED BY <1>2, <2>1, <2>2, <2>3, <2>4, <2>5, <2>6 DEF SearchInv
<1>. QED BY <1>9, <1>10

LEMMA InspectingIsSafe ==
    ASSUME NEW w \in [Pages -> PageType], NEW s, SearchInv(s, w), NEW t, InspectsOne(s, t, w)
    PROVE  SearchInv(t, w)
<1>. DEFINE u == Head(s.left)
<1>1. /\ s.at = "info" /\ ~s.late /\ s.target = None
      /\ SearchType(s) /\ LooksAtLast(s) /\ StaysReachable(s, w) /\ IsInOrderIn(w, s.tried)
      /\ FoundIsReal(s, w) /\ IsExhausted(s, w) /\ KnowsNow(s, w)
  BY DEF InspectsOne, SearchInv, SearchType
<1>2. /\ s.left # << >> /\ u \in s.seen /\ u \in Pages /\ s.tried \in Seq(Pages)
      /\ s.tried # << >> /\ s.tried[Len(s.tried)] = u /\ s.seen = ToSet(s.tried)
  BY <1>1, LastIsIn, HeadTailProperties DEF LooksAtLast, SearchType
<1>3. ~IsDocumentIn(w, u) /\ s.fetched = (FetchedIn(w, u) # "failed")
  BY <1>1 DEF KnowsNow
<1>4. PICK late \in BOOLEAN, media \in {w[u].media, "none"} :
         /\ media # w[u].media => late
         /\ t = IF IsPlayable(media)
                THEN [s EXCEPT !.at = "done", !.late = late, !.target = Target(u, media)]
                ELSE [s EXCEPT !.at = "try", !.left = Tail(@), !.late = late,
                               !.unverified = IF s.fetched /\ @ = None
                                              THEN Target(u, "none") ELSE @]
  BY DEF InspectsOne
<1>5. w[u].media \in Media /\ media \in Media /\ "none" \in Media
  BY <1>2, <1>4 DEF PageType, Media
<1>6. \A m \in Media : Target(u, m) # None /\ Target(u, m).uri = u
  BY <1>2, TargetAssumption DEF Target
<1>. HIDE DEF u
<1>7. CASE IsPlayable(media)
  <2>1. /\ DOMAIN t = DOMAIN s /\ t.at = "done" /\ t.left = s.left /\ t.late = late
        /\ t.uri = s.uri /\ t.seen = s.seen /\ t.tried = s.tried /\ t.target = Target(u, media)
        /\ t.unverified = s.unverified
    BY <1>1, <1>4, <1>7 DEF SearchType, NoSearch
  <2>2. media = w[u].media
    BY <1>4, <1>7 DEF IsPlayable
  <2>3. IsPlayableIn(w, u)
    BY <1>3, <1>7, <2>2 DEF IsPlayableIn
  <2>4. u \in ReachableIn(w, s.uri)
    BY <1>1, <1>2 DEF StaysReachable
  <2>5. FoundIsReal(t, w)
    BY <1>1, <1>5, <1>6, <2>1, <2>3, <2>4 DEF FoundIsReal
  <2>6. SearchType(t)
    BY <1>1, <2>1 DEF SearchType
  <2>7. LooksAtLast(t) /\ StaysReachable(t, w)
    BY <1>1, <2>1 DEF LooksAtLast, StaysReachable
  <2>. QED BY <1>1, <1>5, <1>6, <2>1, <2>5, <2>6, <2>7 DEF SearchInv
<1>8. CASE ~IsPlayable(media)
  <2>. DEFINE found == IF s.fetched /\ s.unverified = None THEN Target(u, "none") ELSE s.unverified
  <2>1. /\ DOMAIN t = DOMAIN s /\ t.at = "try" /\ t.left = Tail(s.left) /\ t.late = late
        /\ t.uri = s.uri /\ t.seen = s.seen /\ t.tried = s.tried /\ t.target = s.target
        /\ t.unverified = found
    BY <1>1, <1>4, <1>8 DEF SearchType, NoSearch
  <2>2. /\ SearchType(t) /\ LooksAtLast(t) /\ StaysReachable(t, w) /\ IsInOrderIn(w, t.tried)
        /\ t.target = None /\ t.seen \union ToSet(t.left) = s.seen \union ToSet(s.left)
    BY <1>1, <1>2, <2>1, SearchStays DEF u
  <2>3. Looking(s) = {u} /\ Looking(t) = {}
    BY <1>1, <2>1 DEF Looking, u
  <2>4. found = None => ~IsFetchableIn(w, u) /\ s.unverified = None
    BY <1>3, <1>5, <1>6 DEF IsFetchableIn
  <2>5. FoundIsReal(t, w)
    <3>1. CASE found = s.unverified
      BY <1>1, <2>1, <2>2, <3>1 DEF FoundIsReal
    <3>2. CASE found # s.unverified
      <4>1. found = Target(u, "none") /\ s.fetched /\ s.unverified = None
        BY <3>2
      <4>2. IsFetchableIn(w, u)
        BY <1>3, <4>1 DEF IsFetchableIn
      <4>3. \A j \in 1 .. Len(s.tried) - 1 : s.tried[j] \in s.seen /\ s.tried[j] # u
        <5>1. Len(s.tried) \in 1 .. Len(s.tried) /\ ToSet(s.tried) = {s.tried[i] : i \in 1 .. Len(s.tried)}
          BY <1>2, LastIsIn, ToSetOf
        <5>2. \A j, k \in 1 .. Len(s.tried) : s.tried[j] = s.tried[k] => j = k
          <6>1. DOMAIN s.tried = 1 .. Len(s.tried) /\ IsInjective(s.tried)
            BY <1>1, <1>2, LenProperties DEF SearchType
          <6>. QED BY <6>1 DEF IsInjective
        <5>3. \A j \in 1 .. Len(s.tried) - 1 : j \in 1 .. Len(s.tried) /\ j # Len(s.tried)
          BY <5>1
        <5>4. s.seen = ToSet(s.tried) /\ s.tried[Len(s.tried)] = u
          BY <1>1, <1>2 DEF SearchType
        <5>5. ASSUME NEW j \in 1 .. Len(s.tried) - 1
              PROVE  s.tried[j] \in s.seen /\ s.tried[j] # u
          <6>1. j \in 1 .. Len(s.tried) /\ j # Len(s.tried)
            BY <5>3
          <6>2. s.tried[j] # s.tried[Len(s.tried)]
            BY <5>1, <5>2, <6>1
          <6>. QED BY <5>1, <5>4, <6>1, <6>2
        <5>. QED BY <5>5
      <4>4. \A j \in 1 .. Len(s.tried) - 1 : ~IsFetchableIn(w, s.tried[j])
        BY <1>1, <2>3, <4>1, <4>3 DEF IsExhausted
      <4>5. IsFirstIn(w, t.tried, u)
        BY <1>2, <2>1, <4>2, <4>4, LastIsIn DEF IsFirstIn
      <4>. QED BY <1>5, <1>6, <2>1, <2>2, <4>1, <4>5 DEF FoundIsReal
    <3>. QED BY <3>1, <3>2
  <2>6. ~t.late => IsExhausted(t, w)
    <3>1. SUFFICES ASSUME ~late PROVE IsExhausted(t, w)
      BY <2>1
    <3>2. ~IsPlayableIn(w, u)
      BY <1>4, <1>8, <3>1 DEF IsPlayableIn
    <3>3. \A v \in s.seen : v = u \/ v \in s.seen \ Looking(s)
      BY <2>3
    <3>. QED BY <1>1, <1>3, <2>1, <2>2, <2>3, <2>4, <3>2, <3>3 DEF IsExhausted
  <2>7. KnowsNow(t, w)
    BY <2>1 DEF KnowsNow
  <2>8. GoesDown(t, w)
    BY <1>2, <1>3, <2>1 DEF GoesDown
  <2>. QED BY <2>1, <2>2, <2>5, <2>6, <2>7, <2>8 DEF SearchInv
<1>. QED BY <1>7, <1>8

-----------------------------------------------------------------------------
(* The search is one of these steps after the other. *)

WebInv == web \in [Pages -> PageType]

SearchedInv == WebInv /\ SearchInv(search, web)

LEMMA SearchStep ==
    ASSUME SearchedInv, SearchGoesOn
    PROVE  SearchedInv'
<1>. USE DEF SearchedInv, WebInv
<1>1. UNCHANGED web
  BY DEF SearchGoesOn, Ends, Skips, Fetches, Inspects, GivesUp
<1>2. SUFFICES SearchInv(search', web)
  BY <1>1
<1>3. CASE Ends
  BY <1>3, StoppingIsSafe DEF Ends, Stops
<1>4. CASE Skips
  BY <1>4, SkippingIsSafe DEF Skips, SkipsOne, Goes, Rests, Rest, Now
<1>5. CASE Fetches
  <2>1. FetchesOne(search, search', web)
    BY <1>5 DEF Fetches, FetchesOne, Goes, Now, NextsIn
  <2>. QED BY <2>1, FetchingIsSafe
<1>6. CASE Inspects
  <2>1. InspectsOne(search, search', web)
    <3>1. search.at = "info" /\ ~search.late
      BY <1>6 DEF Inspects
    <3>2. DOMAIN search = DOMAIN NoSearch
      BY <3>1 DEF SearchInv, SearchType
    <3>3. PICK late \in BOOLEAN, media \in {web[Now].media, "none"} :
             /\ media # web[Now].media => late
             /\ search' =
                   IF IsPlayable(media)
                   THEN [search EXCEPT !.at = "done", !.late = late, !.target = Target(Now, media)]
                   ELSE [Rest EXCEPT !.late = late,
                                     !.unverified = IF search.fetched /\ @ = None
                                                    THEN Target(Now, "none") ELSE @]
      BY <1>6 DEF Inspects
    <3>4. \A found :
             [Rest EXCEPT !.late = late, !.unverified = found]
                = [search EXCEPT !.at = "try", !.left = Tail(@), !.late = late, !.unverified = found]
      BY <3>2 DEF Rest, NoSearch
    <3>5. Rest.unverified = search.unverified
      BY <3>2 DEF Rest, NoSearch
    <3>. QED BY <3>1, <3>3, <3>4, <3>5 DEF InspectsOne, Now
  <2>. QED BY <2>1, InspectingIsSafe
<1>7. CASE GivesUp
  BY <1>7, GivingUpIsSafe DEF GivesUp, GivesUpOne, Rests, Rest
<1>. QED BY <1>3, <1>4, <1>5, <1>6, <1>7 DEF SearchGoesOn

LEMMA SearchBegins ==
    ASSUME WebInv, NEW uri \in Pages
    PROVE  SearchInv(StartOf(uri), web)
<1>. DEFINE s == StartOf(uri)
<1>1. /\ DOMAIN s = DOMAIN NoSearch /\ s.at = "try" /\ s.uri = uri /\ s.left = <<uri>>
      /\ s.seen = {} /\ s.tried = << >> /\ s.unverified = None /\ s.target = None /\ s.late = FALSE
  BY DEF StartOf, NoSearch
<1>. HIDE DEF s
<1>2. <<uri>> \in Seq(Pages) /\ << >> \in Seq(Pages) /\ Len(<< >>) = 0
  OBVIOUS
<1>3. ToSet(<<uri>>) = {uri} /\ ToSet(<< >>) = {} /\ IsInjective(<< >>)
  BY DEF ToSet, IsInjective
<1>4. SearchType(s)
  BY <1>1, <1>2, <1>3 DEF SearchType
<1>5. LooksAtLast(s) /\ FoundIsReal(s, web) /\ KnowsNow(s, web) /\ GoesDown(s, web)
  BY <1>1 DEF LooksAtLast, FoundIsReal, KnowsNow, GoesDown
<1>6. StaysReachable(s, web)
  BY <1>1, <1>3, ReachableIsClosed DEF StaysReachable, WebInv
<1>7. IsExhausted(s, web)
  BY <1>1, <1>3 DEF IsExhausted
<1>8. IsInOrderIn(web, s.tried)
  BY <1>1, <1>2 DEF IsInOrderIn
<1>. QED BY <1>1, <1>4, <1>5, <1>6, <1>7, <1>8 DEF SearchInv, s

LEMMA StepOfStream ==
    ASSUME SearchedInv, StreamGoesOn
    PROVE  SearchedInv'
<1>1. CASE SearchGoesOn
  BY <1>1, SearchStep
<1>2. CASE StreamSkips
  BY <1>2 DEF StreamSkips, SearchedInv, WebInv
<1>3. CASE StreamSearches
  BY <1>3, SearchBegins DEF StreamSearches, SearchedInv, WebInv
<1>4. CASE StreamFinds
  BY <1>4 DEF StreamFinds, SearchedInv, WebInv, SearchInv, NoSearch
<1>. QED BY <1>1, <1>2, <1>3, <1>4 DEF StreamGoesOn

\* What the steps keep is what is to be shown.
LEMMA SearchedIsFound ==
    ASSUME SearchedInv
    PROVE  FindsPlayable
<1>. DEFINE uri == search.uri
<1>1. CASE search.at = "none"
  BY <1>1 DEF FindsPlayable
<1>2. CASE search.at # "none"
  <2>1. /\ WebInv /\ SearchType(search) /\ StaysReachable(search, web)
        /\ IsInOrderIn(web, search.tried) /\ FoundIsReal(search, web)
        /\ uri \in Pages /\ search.tried \in Seq(Pages)
        /\ ToSet(search.tried) = search.seen /\ IsInjective(search.tried)
    BY <1>2 DEF SearchedInv, SearchInv, SearchType
  <2>2. \A u : (IsDocument(u) <=> IsDocumentIn(web, u)) /\ Alternatives(u) = ToSet(NextsIn(web, u))
    BY DEF IsDocument, IsDocumentIn, FetchedIn, Alternatives, NextsIn
  <2>3. Reachable(uri) = ReachableIn(web, uri)
    BY <2>2 DEF Reachable, ReachableIn, IsClosedIn
  <2>4. Playable(uri) = {u \in ReachableIn(web, uri) : IsPlayableIn(web, u)}
    BY <2>2, <2>3 DEF Playable, IsPlayableIn
  <2>5. Fetchable(uri) = {u \in ReachableIn(web, uri) : IsFetchableIn(web, u)}
    BY <2>2, <2>3 DEF Fetchable, IsFetchableIn, FetchedIn
  <2>6. ToSet(search.tried) \subseteq ReachableIn(web, uri)
    BY <2>1 DEF StaysReachable
  <2>7. IsInOrder(search.tried)
    <3>1. \A i \in 1 .. Len(search.tried) - 1 :
             ToSet(SubSeq(search.tried, 1, i)) = Before(search.tried, i)
      BY <2>1, FirstOf
    <3>. QED BY <2>1, <2>2, <3>1 DEF IsInOrder, IsInOrderIn, NewIn, NextsIn
  <2>8. ASSUME search.unverified # None
        PROVE  /\ search.unverified.uri \in Fetchable(uri)
               /\ IsFirstTried(search.unverified.uri, Fetchable(uri))
    <3>1. PICK i \in 1 .. Len(search.tried) :
             /\ search.tried[i] = search.unverified.uri
             /\ IsFetchableIn(web, search.unverified.uri)
             /\ \A j \in 1 .. i - 1 : ~IsFetchableIn(web, search.tried[j])
      BY <2>1, <2>8 DEF FoundIsReal, IsFirstIn
    <3>2. DOMAIN search.tried = 1 .. Len(search.tried) /\ search.tried[i] \in ToSet(search.tried)
      BY <2>1, LenProperties, ToSetOf
    <3>3. search.unverified.uri \in Fetchable(uri)
      BY <2>5, <2>6, <3>1, <3>2
    <3>. QED BY <2>5, <3>1, <3>2, <3>3 DEF IsFirstTried
  <2>9. search.target # None => search.target.uri \in Playable(uri)
    BY <2>1, <2>4 DEF FoundIsReal
  <2>10. ASSUME search.at = "done", ~search.late, search.target = None
         PROVE  Playable(uri) = {} /\ (search.unverified = None => Fetchable(uri) = {})
    <3>1. search.left = << >> /\ IsExhausted(search, web)
      BY <2>10 DEF SearchedInv, SearchInv
    <3>2. ToSet(search.left) = {} /\ Looking(search) = {}
      BY <2>10, <3>1 DEF ToSet, Looking
    <3>3. IsClosedIn(web, search.seen) /\ search.seen \subseteq Pages /\ uri \in search.seen
      BY <2>1, <3>1, <3>2, ToSetOf DEF IsExhausted, IsClosedIn
    <3>4. ReachableIn(web, uri) \subseteq search.seen
      BY <2>1, <3>3, ReachableIsClosed DEF WebInv
    <3>5. \A u \in ReachableIn(web, uri) :
             ~IsPlayableIn(web, u) /\ (search.unverified = None => ~IsFetchableIn(web, u))
      BY <3>1, <3>2, <3>4 DEF IsExhausted
    <3>. QED BY <2>4, <2>5, <3>5
  <2>11. Found = IF search.target # None THEN search.target ELSE search.unverified
    BY DEF Found
  <2>12. ASSUME search.at = "done"
         PROVE  CASE search.target # None -> search.target.uri \in Playable(search.uri)
                  [] search.target = None /\ search.late ->
                         Found # None => Found.uri \in Fetchable(search.uri)
                  [] OTHER -> /\ Playable(search.uri) = {}
                              /\ IF Found = None THEN Fetchable(search.uri) = {}
                                 ELSE IsFirstTried(Found.uri, Fetchable(search.uri))
    <3>1. CASE search.target # None
      BY <2>9, <3>1
    <3>2. CASE search.target = None /\ search.late
      BY <2>8, <2>11, <3>2
    <3>3. CASE search.target = None /\ ~search.late
      BY <2>8, <2>10, <2>11, <2>12, <3>3
    <3>. QED BY <3>1, <3>2, <3>3
  <2>. QED BY <2>1, <2>3, <2>6, <2>7, <2>12 DEF FindsPlayable
<1>. QED BY <1>1, <1>2

\* The search finds what is to be found, in the order of the documents, whatever is in
\* the web (MediaReader.find_playback_target).
THEOREM PlayableIsFound == Spec => []FindsPlayable
<1>1. Init => SearchedInv
  BY WebAssumption DEF Init, SearchedInv, WebInv, SearchInv, NoSearch
<1>2. SearchedInv /\ [Next]_vars => SearchedInv'
  <2>. SUFFICES ASSUME SearchedInv, [Next]_vars
                PROVE  SearchedInv'
    OBVIOUS
  <2>1. CASE UNCHANGED <<web, search>>
    BY <2>1 DEF SearchedInv, WebInv
  <2>2. CASE StreamActs
    <3>1. CASE StreamGoesOn
      BY <3>1, StepOfStream
    <3>2. CASE StreamIsAsked \/ StreamAnswers
      BY <2>1, <3>2 DEF StreamIsAsked, StreamStarts, StreamAnswers, mediaVars
    <3>. QED BY <2>2, <3>1, <3>2 DEF StreamActs
  <2>3. CASE Crash
    BY <2>3 DEF Crash, SearchedInv, WebInv, SearchInv, NoSearch
  <2>4. CASE CoreStarts \/ CoreGets \/ CoreRaises \/ CoreReplies \/ OtherActs \/ M3UActs
    BY <2>1, <2>4 DEF CoreStarts, CoreGets, CoreRaises, CoreReplies, OtherActs, M3UActs,
                      M3UStarts, M3UAnswers, mediaVars
  <2>5. CASE UNCHANGED vars
    BY <2>1, <2>5 DEF vars, mediaVars
  <2>. QED BY <2>2, <2>3, <2>4, <2>5 DEF Next, Over
<1>3. SearchedInv => FindsPlayable
  BY SearchedIsFound
<1>. QED BY <1>1, <1>2, <1>3, PTL DEF Spec

-----------------------------------------------------------------------------
(* Playlists are kept. *)

\* The backend is writing a playlist, or has a new file already.
IsWriting == m3u.at \in {"opened", "written", "replaced", "renamed"}

HasReplaced == m3u.at \in {"replaced", "renamed"}

\* An answer about a playlist that is new or changed.
IsNews(answer) == job.call.op \in {"create", "save"} /\ answer.kind = "playlist"

\* An answer is about the files as they are.
IsReal(answer) ==
    /\ IsNews(answer) =>
          answer.value.path \in DOMAIN files
          /\ files[answer.value.path] = Whole(answer.value.tracks)
    /\ job.call.op = "delete" /\ answer = Answer("deleted", TRUE) =>
          ~Exists(job.call.request.path)

\* Core has a call and asks those that it is for.
JobIsSound ==
    /\ DOMAIN job = DOMAIN NoJob /\ DOMAIN job.result = DOMAIN Nothing
    /\ job.asked \in Seq(ToSet(job.asked)) /\ DOMAIN job.answers = ToSet(job.asked)
    /\ job.next \in Nat \ {0}
    /\ job.call.request.op \in {job.call.op, "none"}
    /\ job.call.op = "search" => "m3u" \notin ToSet(job.asked)
    /\ job.call.op \in {"save", "delete"} => ToSet(job.asked) \subseteq {job.call.scheme}

\* The backend works for the call, on what it asks for.
M3UIsSound ==
    /\ DOMAIN m3u = DOMAIN Idle
    /\ m3u.at # "idle" => IsWaitedFor("m3u") /\ Request = job.call.request
    /\ IsWriting => Request.op \in {"create", "save"}
    /\ m3u.at = "written" => m3u.temp = Whole(Request.tracks)
    /\ HasReplaced => m3u.path \in DOMAIN files /\ files[m3u.path] = Whole(Request.tracks)
    /\ m3u.at = "done" =>
          /\ Request.op # "none" /\ IsReal(m3u.answer)
          /\ Request.op = "delete" => m3u.answer.kind = "deleted"

\* What the backends have answered.  Only M3U answers with playlists, and core
\* will take what it has answered, or has taken it last.
AnswersAreSound ==
    /\ \A b \in ToSet(job.asked) \ {"m3u"} : job.answers[b].value.kind \in {"none", "target"}
    /\ "m3u" \in ToSet(job.asked) =>
          LET answer == job.answers["m3u"]
          IN  /\ answer.kind \in {"pending", "value", "none", "error"} /\ answer.items = << >>
              /\ answer.kind = "pending" => answer = Pending
              /\ answer.kind # "value" => answer.value = NoAnswer
              /\ job.call.op = "delete" => answer.kind \in {"pending", "value"}
              /\ IsReal(answer.value)
              /\ answer.kind = "value" /\ job.call.op \in {"create", "save"} =>
                    \/ IsAskedNow("m3u")
                    \/ /\ job.result.answer = answer.value
                       /\ job.call.op = "create" => job.next > Len(job.asked)

IsOfDeleted(answer) ==
    job.call.op = "delete" /\ job.call.scheme = "m3u" /\ answer.kind = "deleted"

\* What clients will hear of a playlist is what M3U has answered.
ResultIsSound ==
    IsNews(job.result.answer) \/ IsOfDeleted(job.result.answer) =>
        /\ "m3u" \in ToSet(job.asked) /\ job.answers["m3u"].kind = "value"
        /\ job.result.answer = job.answers["m3u"].value

\* What is in these files is what clients will hear.
News ==
    {path \in DOMAIN files :
        \/ HasReplaced /\ path = m3u.path
        \/ m3u.at = "done" /\ IsNews(m3u.answer) /\ path = m3u.answer.value.path
        \/ /\ "m3u" \in ToSet(job.asked) /\ IsNews(job.answers["m3u"].value)
           /\ path = job.answers["m3u"].value.value.path}

IsTroubled == troubled \/ (m3u.at = "done" /\ m3u.answer.kind \in {"os_error", "error"})

RestIsKnown ==
    ~IsTroubled =>
        \A path \in DOMAIN files \ News :
            Exists(path) => path \in DOMAIN known /\ known[path] = files[path]

\* The last reply is about the files as they still are.
ReplyIsReal ==
    reply.call.op \in {"create", "save"} /\ reply.result.answer.kind = "playlist" =>
        LET playlist == reply.result.answer.value
        IN  job.asked = << >> /\ files[playlist.path] = Whole(playlist.tracks)

CallsAreSound ==
    /\ "calls" \in DOMAIN setting
    /\ \E s \in Settings : setting.calls \in Seq(ToSet(s.calls))

KeptInv ==
    /\ CallsAreSound
    /\ JobIsSound /\ M3UIsSound /\ AnswersAreSound /\ ResultIsSound
    /\ RestIsKnown /\ ReplyIsReal
-----------------------------------------------------------------------------
(* Whom core asks. *)

LEMMA SeqOfItsOwn ==
    ASSUME NEW X, NEW s \in Seq(X)
    PROVE  s \in Seq(ToSet(s))
<1>1. /\ Len(s) \in Nat /\ ToSet(s) = {s[i] : i \in 1 .. Len(s)}
      /\ s = [i \in 1 .. Len(s) |-> s[i]]
  BY ToSetOf
<1>2. \A i \in 1 .. Len(s) : s[i] \in ToSet(s)
  BY <1>1
<1>. QED BY <1>1, <1>2

LEMMA ChosenIn ==
    ASSUME NEW X, NEW seq \in Seq(X), NEW S
    PROVE  Chosen(seq, S) \in Seq(X) /\ ToSet(Chosen(seq, S)) \subseteq S
<1>. DEFINE T == {s \in Seq(X) : Chosen(s, S) \in Seq(X \intersect S)}
<1>1. << >> \in T
  <2>1. << >> \in Seq(X) /\ << >> \in Seq(X \intersect S)
    OBVIOUS
  <2>2. Chosen(<< >>, S) = << >>
    BY <2>1, ChosenType
  <2>. QED BY <2>1, <2>2
<1>2. ASSUME NEW s \in Seq(X), NEW e \in X, s \in T
      PROVE  Append(s, e) \in T
  <2>1. Append(s, e) \in Seq(X)
    OBVIOUS
  <2>2. Chosen(s, S) \in Seq(X \intersect S)
    BY <1>2
  <2>. HIDE DEF T
  <2>3. e \in S => Append(Chosen(s, S), e) \in Seq(X \intersect S)
    BY <2>2
  <2>4. Chosen(Append(s, e), S) \in Seq(X \intersect S)
    BY <2>2, <2>3, ChosenOfAppend
  <2>. QED BY <2>1, <2>4 DEF T
<1>. HIDE DEF T
<1>3. \A s \in Seq(X) : s \in T
  BY <1>1, <1>2, SeqSetInduction
<1>4. Chosen(seq, S) \in Seq(X \intersect S)
  BY <1>3 DEF T
<1>5. ToSet(Chosen(seq, S)) \subseteq X \intersect S
  BY <1>4, ToSetOf
<1>. QED BY <1>5, ChosenType

LEMMA OwnersType ==
    ASSUME NEW uris \in Seq(Uris)
    PROVE  /\ OwnersOf(uris) \in Seq(ToSet(Order))
           /\ "m3u" \notin ToSet(OwnersOf(uris))
<1>. DEFINE n == Len(uris)
            all == [i \in 1 .. n |-> i]
            S == {i \in 1 .. n : \A j \in 1 .. i - 1 : Owner[uris[j]] # Owner[uris[i]]}
            firsts == Chosen(all, S)
            owners == [i \in 1 .. Len(firsts) |-> Owner[uris[firsts[i]]]]
<1>1. n \in Nat /\ all \in Seq(1 .. n)
  OBVIOUS
<1>2. firsts \in Seq(1 .. n)
  BY <1>1, ChosenType
<1>3. OwnersOf(uris) = owners
  BY DEF OwnersOf
<1>. HIDE DEF firsts, all, S
<1>4. Len(firsts) \in Nat /\ \A i \in 1 .. Len(firsts) : firsts[i] \in 1 .. n
  BY <1>2
<1>5. \A i \in 1 .. n : uris[i] \in Uris
  OBVIOUS
<1>6. \A i \in 1 .. Len(firsts) : Owner[uris[firsts[i]]] \in ToSet(Order) \ {"m3u"}
  BY <1>4, <1>5, OrderAssumption
<1>7. owners \in Seq(ToSet(Order) \ {"m3u"})
  BY <1>4, <1>6
<1>8. ToSet(owners) \subseteq ToSet(Order) \ {"m3u"}
  BY <1>7, ToSetOf
<1>. QED BY <1>3, <1>7, <1>8

LEMMA WithType ==
    /\ WithLibrary \in Seq(ToSet(Order)) /\ "m3u" \notin ToSet(WithLibrary)
    /\ WithLibraryBrowse \in Seq(ToSet(Order)) /\ WithPlaylists \in Seq(ToSet(Order))
<1>1. Order \in Seq(ToSet(Order))
  BY OrderAssumption
<1>2. ToSet(WithLibrary) \subseteq Others \union {"stream"}
  BY <1>1, ChosenIn DEF WithLibrary
<1>. QED BY <1>1, <1>2, ChosenType DEF WithLibrary, WithLibraryBrowse, WithPlaylists, Others

LEMMA ToSetFinite ==
    ASSUME NEW X, NEW s \in Seq(X)
    PROVE  IsFiniteSet(ToSet(s)) /\ Cardinality(ToSet(s)) \in Nat
<1>1. Len(s) \in Nat /\ IsFiniteSet(1 .. Len(s))
  BY FS_Interval
<1>2. s \in [1 .. Len(s) -> ToSet(s)] /\ ToSet(s) = {s[i] : i \in 1 .. Len(s)}
  BY SeqOfItsOwn, ToSetOf
<1>3. s \in Surjection(1 .. Len(s), ToSet(s))
  BY <1>2 DEF Surjection
<1>. QED BY <1>1, <1>3, FS_Surjection, FS_CardinalityType

LEMMA ConcernedAre ==
    ASSUME NEW call, call.uris \in Seq(Uris), NEW asked \in Concerned(call)
    PROVE  /\ asked \in Seq(ToSet(asked))
           /\ call.op = "search" => "m3u" \notin ToSet(asked)
           /\ call.op \in {"save", "delete"} => ToSet(asked) \subseteq {call.scheme}
<1>. DEFINE of(backends) == Chosen(backends, {call.scheme})
            ofUri(backends) == Chosen(backends, {Owner[call.uris[1]]})
<1>1. /\ WithLibrary \in Seq(ToSet(Order)) /\ WithLibraryBrowse \in Seq(ToSet(Order))
      /\ WithPlaylists \in Seq(ToSet(Order)) /\ OwnersOf(call.uris) \in Seq(ToSet(Order))
  BY WithType, OwnersType
<1>2. /\ of(WithPlaylists) \in Seq(ToSet(Order)) /\ ofUri(WithLibraryBrowse) \in Seq(ToSet(Order))
      /\ ofUri(WithLibrary) \in Seq(ToSet(Order)) /\ ToSet(of(WithPlaylists)) \subseteq {call.scheme}
  BY <1>1, ChosenIn
<1>. HIDE DEF of, ofUri
<1>3. CASE call.op = "as_list"
  <2>1. asked \in SetToSeqs(ToSet(WithPlaylists))
    BY <1>3 DEF Concerned
  <2>2. Cardinality(ToSet(WithPlaylists)) \in Nat
    BY <1>1, ToSetFinite
  <2>3. asked \in Seq(ToSet(WithPlaylists))
    BY <2>1, <2>2 DEF SetToSeqs
  <2>. QED BY <1>3, <2>3, SeqOfItsOwn
<1>4. CASE call.op = "search"
  <2>1. asked \in {WithLibrary, OwnersOf(call.uris)}
    BY <1>4 DEF Concerned
  <2>. QED BY <1>1, <1>4, <2>1, SeqOfItsOwn, WithType, OwnersType
<1>5. CASE call.op \in {"save", "delete"}
  <2>1. asked = of(WithPlaylists)
    BY <1>5 DEF Concerned, of
  <2>. QED BY <1>2, <1>5, <2>1, SeqOfItsOwn
<1>6. CASE call.op \notin {"as_list", "search", "save", "delete"}
  <2>1. <<"stream">> \in Seq({"stream"})
    OBVIOUS
  <2>2. asked \in {WithLibraryBrowse, ofUri(WithLibraryBrowse), WithLibrary, ofUri(WithLibrary),
                   OwnersOf(call.uris), <<"stream">>, WithPlaylists, of(WithPlaylists)}
    BY <1>6 DEF Concerned, of, ofUri
  <2>. QED BY <1>1, <1>2, <1>6, <2>1, <2>2, SeqOfItsOwn
<1>. QED BY <1>3, <1>4, <1>5, <1>6

-----------------------------------------------------------------------------
(* Core. *)

LEMMA NotWaiting ==
    ASSUME KeptInv, job.asked = << >> \/ job.next > Len(job.asked)
    PROVE  m3u.at = "idle" /\ \A b : ~IsAskedNow(b)
<1>1. job.next \in Nat \ {0} /\ job.asked \in Seq(ToSet(job.asked))
  BY DEF KeptInv, JobIsSound
<1>2. \A b : ~IsAskedNow(b)
  BY <1>1 DEF IsAskedNow
<1>. QED BY <1>2 DEF KeptInv, M3UIsSound, IsWaitedFor

\* Nothing has been done for a call that is new or over.
LEMMA FreshCall ==
    ASSUME KeptInv, m3u.at = "idle", m3u' = m3u, files' = files, known' = known,
           troubled' = troubled, News \subseteq News', CallsAreSound',
           JobIsSound', AnswersAreSound', ResultIsSound', ReplyIsReal'
    PROVE  KeptInv'
<1>1. M3UIsSound'
  BY DEF KeptInv, M3UIsSound, IsWriting, HasReplaced
<1>2. RestIsKnown'
  BY DEF KeptInv, RestIsKnown, IsTroubled, Exists
<1>. QED BY <1>1, <1>2 DEF KeptInv

LEMMA NoNewsOfNoJob ==
    ASSUME m3u.at = "idle", IsIdle
    PROVE  News = {}
BY DEF News, HasReplaced, IsIdle, NoJob, ToSet

LEMMA StartingKeeps ==
    ASSUME KeptInv, CoreStarts
    PROVE  KeptInv'
<1>. DEFINE call == Head(setting.calls)
<1>1. PICK s \in Settings : setting.calls \in Seq(ToSet(s.calls))
  BY DEF KeptInv, CallsAreSound
<1>2. setting.calls # << >> /\ IsIdle
  BY DEF CoreStarts
<1>3. call \in ToSet(s.calls) /\ Tail(setting.calls) \in Seq(ToSet(s.calls))
  BY <1>1, <1>2, ToSetOf, HeadTailProperties
<1>4. call.uris \in Seq(Uris) /\ call.request.op \in {call.op, "none"}
  BY <1>3, CallsAssumption
<1>5. PICK asked \in Concerned(call) :
        job' = [call |-> call, asked |-> asked, next |-> 1,
                answers |-> [b \in ToSet(asked) |-> Pending],
                result |-> [Nothing EXCEPT !.map =
                    [u \in IF call.op \in {"get_images", "lookup_uris"}
                           THEN ToSet(call.uris) ELSE {} |-> << >>]]]
  BY DEF CoreStarts
<1>. HIDE DEF call
<1>6. /\ DOMAIN job' = DOMAIN NoJob /\ job'.call = call /\ job'.asked = asked /\ job'.next = 1
      /\ job'.answers = [b \in ToSet(asked) |-> Pending]
      /\ DOMAIN job'.result = DOMAIN Nothing /\ job'.result.answer = NoAnswer
  BY <1>5 DEF NoJob, Nothing
<1>7. m3u.at = "idle" /\ News = {}
  BY <1>2, NotWaiting, NoNewsOfNoJob DEF IsIdle, NoJob
<1>8. CallsAreSound'
  BY <1>1, <1>3 DEF KeptInv, CallsAreSound, CoreStarts, call
<1>9. JobIsSound'
  BY <1>4, <1>6, ConcernedAre DEF JobIsSound
<1>10. AnswersAreSound' /\ ResultIsSound'
  BY <1>6 DEF AnswersAreSound, ResultIsSound, Pending, Answered, NoAnswer, Answer, IsReal, IsNews,
              IsOfDeleted
<1>11. ReplyIsReal'
  BY DEF CoreStarts, ReplyIsReal, NoReply, NoCall, Call
<1>12. UNCHANGED <<m3u, files, known, troubled>>
  BY DEF CoreStarts, m3uVars
<1>. QED BY <1>7, <1>8, <1>9, <1>10, <1>11, <1>12, FreshCall

LEMMA GettingKeeps ==
    ASSUME KeptInv, CoreGets
    PROVE  KeptInv'
<1>. DEFINE merged == Merged(job.call, job.result, Backend, Got)
            next == IF IsEnough(job.call, Got) THEN Len(job.asked) + 1 ELSE job.next + 1
<1>1. /\ job.next \in Nat \ {0} /\ job.asked \in Seq(ToSet(job.asked)) /\ DOMAIN job = DOMAIN NoJob
      /\ DOMAIN job.result = DOMAIN Nothing /\ DOMAIN job.answers = ToSet(job.asked)
      /\ JobIsSound /\ M3UIsSound /\ AnswersAreSound /\ ResultIsSound /\ RestIsKnown
  BY DEF KeptInv, JobIsSound
<1>2. /\ job.next <= Len(job.asked) /\ Got # Pending
      /\ job' = [job EXCEPT !.result = merged, !.next = next]
      /\ UNCHANGED <<m3u, files, faults, setting, reply, known, troubled>>
  BY <1>1 DEF CoreGets, HasGot, m3uVars, NoJob
<1>3. /\ DOMAIN merged = DOMAIN Nothing
      /\ \/ merged.answer = job.result.answer
         \/ IsValue(Got) /\ merged.answer = Got.value
         \/ /\ job.call.op = "delete" /\ Got.kind = "none"
            /\ merged.answer = Answer("deleted", TRUE)
      /\ job.call.op \in {"create", "save"} /\ IsValue(Got) => merged.answer = Got.value
  BY <1>1 DEF Merged, Nothing, Mappings
<1>4. next \in Nat \ {0} /\ Len(job.asked) \in Nat
  BY <1>1
<1>. HIDE DEF merged
<1>5. /\ DOMAIN job' = DOMAIN NoJob /\ job'.call = job.call /\ job'.asked = job.asked
      /\ job'.answers = job.answers /\ job'.result = merged /\ job'.next = next
  BY <1>1, <1>2 DEF NoJob
<1>6. job.next \in 1 .. Len(job.asked) /\ Backend \in ToSet(job.asked)
  BY <1>1, <1>2, ToSetOf DEF Backend
<1>7. JobIsSound'
  BY <1>1, <1>3, <1>4, <1>5 DEF JobIsSound
<1>8. CallsAreSound' /\ ReplyIsReal'
  BY <1>2, <1>5 DEF KeptInv, CallsAreSound, ReplyIsReal
<1>9. M3UIsSound'
  <2>1. ASSUME m3u.at # "idle"
        PROVE  IsWaitedFor("m3u")'
    <3>1. IsWaitedFor("m3u")
      BY <1>1, <2>1 DEF M3UIsSound
    <3>2. PICK i \in job.next .. Len(job.asked) :
              job.asked[i] = "m3u" /\ (job.call.op = "create" => i = job.next)
      BY <3>1 DEF IsWaitedFor, IsAskedNow
    <3>3. i # job.next /\ job.answers["m3u"] = Pending
      BY <1>2, <3>1, <3>2 DEF IsWaitedFor, Got, Backend
    <3>4. job.call.op # "create" /\ next = job.next + 1
      BY <3>2, <3>3 DEF IsEnough
    <3>5. i \in next .. Len(job.asked)
      BY <1>1, <3>2, <3>3, <3>4
    <3>. QED BY <1>5, <3>2, <3>3, <3>4, <3>5 DEF IsWaitedFor, IsAskedNow
  <2>. QED BY <1>1, <1>2, <1>5, <2>1 DEF M3UIsSound, IsWriting, HasReplaced, IsReal, IsNews, Exists, Request
<1>10. ResultIsSound'
  <2>1. CASE merged.answer = job.result.answer
    BY <1>1, <1>5, <2>1 DEF ResultIsSound, IsNews, IsOfDeleted
  <2>2. CASE IsValue(Got) /\ merged.answer = Got.value
    <3>1. CASE Backend = "m3u"
      BY <1>5, <1>6, <2>2, <3>1 DEF ResultIsSound, IsValue, Got
    <3>2. CASE Backend # "m3u"
      BY <1>1, <1>5, <1>6, <2>2, <3>2 DEF ResultIsSound, AnswersAreSound, Got, IsNews, IsOfDeleted
    <3>. QED BY <3>1, <3>2
  <2>3. CASE job.call.op = "delete" /\ Got.kind = "none"
    <3>1. Backend = job.call.scheme
      BY <1>1, <1>6, <2>3 DEF JobIsSound
    <3>2. job.call.scheme # "m3u"
      BY <1>1, <1>6, <2>3, <3>1 DEF AnswersAreSound, Got
    <3>. QED BY <1>5, <2>3, <3>2 DEF ResultIsSound, IsNews, IsOfDeleted
  <2>. QED BY <1>3, <2>1, <2>2, <2>3
<1>11. AnswersAreSound'
  <2>1. ASSUME "m3u" \in ToSet(job.asked), job.answers["m3u"].kind = "value",
               job.call.op \in {"create", "save"}
        PROVE  /\ merged.answer = job.answers["m3u"].value
               /\ job.call.op = "create" => next > Len(job.asked)
    <3>1. Backend = "m3u"
      <4>1. CASE job.call.op = "save"
        BY <1>1, <1>6, <2>1, <4>1 DEF JobIsSound
      <4>2. CASE job.call.op = "create"
        <5>1. IsAskedNow("m3u")
          BY <1>1, <1>2, <1>4, <2>1, <4>2 DEF AnswersAreSound
        <5>. QED BY <4>2, <5>1 DEF IsAskedNow, Backend
      <4>. QED BY <2>1, <4>1, <4>2
    <3>2. Got = job.answers["m3u"] /\ Got.items = << >>
      BY <1>1, <2>1, <3>1 DEF Got, AnswersAreSound
    <3>3. IsValue(Got)
      BY <2>1, <3>2 DEF IsValue
    <3>. QED BY <1>3, <1>4, <2>1, <3>2, <3>3 DEF IsEnough
  <2>. QED BY <1>1, <1>2, <1>5, <2>1 DEF AnswersAreSound, IsReal, IsNews, Exists
<1>12. RestIsKnown'
  BY <1>1, <1>2, <1>5 DEF RestIsKnown, News, IsTroubled, IsNews, HasReplaced, Exists
<1>. QED BY <1>7, <1>8, <1>9, <1>10, <1>11, <1>12 DEF KeptInv

\* Core has no call any more, and clients have heard what there was to hear.
LEMMA EndOfCall ==
    ASSUME m3u.at = "idle", m3u' = m3u, job' = NoJob, files' = files, troubled' = troubled,
           KeptInv, UNCHANGED setting,
           \A path \in DOMAIN files : Exists(path) /\ ~troubled =>
               path \in DOMAIN known' /\ known'[path] = files[path],
           reply'.call = job.call /\ reply'.result = job.result,
           IsNews(job.result.answer) => IsReal(job.result.answer)
    PROVE  KeptInv'
<1>1. /\ DOMAIN job' = DOMAIN NoJob /\ job'.asked = << >> /\ job'.next = 1 /\ job'.answers = << >>
      /\ job'.call = NoCall /\ job'.result = Nothing
  BY DEF NoJob
<1>2. ToSet(<< >>) = {} /\ DOMAIN << >> = {} /\ << >> \in Seq({})
  BY DEF ToSet
<1>3. JobIsSound'
  BY <1>1, <1>2 DEF JobIsSound, NoCall, Call, NoRequest
<1>4. AnswersAreSound'
  BY <1>1, <1>2 DEF AnswersAreSound
<1>5. ResultIsSound'
  BY <1>1 DEF ResultIsSound, IsNews, IsOfDeleted, NoCall, Call
<1>6. M3UIsSound'
  BY DEF KeptInv, M3UIsSound, IsWriting, HasReplaced
<1>7. RestIsKnown'
  <2>1. ~IsTroubled' => ~troubled
    BY DEF IsTroubled
  <2>. QED BY <2>1 DEF RestIsKnown, Exists
<1>8. ReplyIsReal'
  BY <1>1 DEF ReplyIsReal, IsReal, IsNews
<1>9. CallsAreSound'
  BY DEF KeptInv, CallsAreSound
<1>. QED BY <1>3, <1>4, <1>5, <1>6, <1>7, <1>8, <1>9 DEF KeptInv

LEMMA RaisingKeeps ==
    ASSUME KeptInv, CoreRaises
    PROVE  KeptInv'
<1>1. /\ job.next \in Nat \ {0} /\ job.asked \in Seq(ToSet(job.asked)) /\ job.next <= Len(job.asked)
      /\ JobIsSound /\ AnswersAreSound /\ ResultIsSound /\ M3UIsSound
  BY DEF KeptInv, JobIsSound, CoreRaises, HasGot
<1>2. Backend \in ToSet(job.asked)
  <2>1. job.next \in 1 .. Len(job.asked)
    BY <1>1
  <2>. QED BY <1>1, <2>1, ToSetOf DEF Backend
<1>3. \/ job.call.op = "search"
      \/ job.call.op = "save" /\ Got.kind = "assertion_error"
  BY DEF CoreRaises, IsRaised
<1>4. "m3u" \notin ToSet(job.asked)
  <2>1. CASE job.call.op = "search"
    BY <1>1, <2>1 DEF JobIsSound
  <2>2. CASE job.call.op = "save" /\ Got.kind = "assertion_error"
    <3>1. Backend # "m3u"
      BY <1>1, <1>2, <2>2 DEF AnswersAreSound, Got
    <3>. QED BY <1>1, <1>2, <2>2, <3>1 DEF JobIsSound
  <2>. QED BY <1>3, <2>1, <2>2
<1>5. m3u.at = "idle"
  BY <1>1, <1>4, ToSetOf DEF M3UIsSound, IsWaitedFor, IsAskedNow
<1>6. News = {}
  BY <1>4, <1>5 DEF News, HasReplaced
<1>7. ~IsNews(job.result.answer)
  BY <1>1, <1>4 DEF ResultIsSound
<1>8. ~troubled => ~IsTroubled
  BY <1>5 DEF IsTroubled
<1>9. \A path \in DOMAIN files : Exists(path) /\ ~troubled =>
          path \in DOMAIN known /\ known[path] = files[path]
  BY <1>6, <1>8 DEF KeptInv, RestIsKnown
<1>. QED BY <1>5, <1>7, <1>9, EndOfCall DEF CoreRaises, Replied, m3uVars

LEMMA ReplyingKeeps ==
    ASSUME KeptInv, CoreReplies
    PROVE  KeptInv'
<1>. DEFINE answer == job.result.answer
<1>1. JobIsSound /\ AnswersAreSound /\ ResultIsSound /\ M3UIsSound
  BY DEF KeptInv
<1>2. m3u.at = "idle" /\ \A b : ~IsAskedNow(b)
  BY NotWaiting DEF CoreReplies
<1>3. IsNews(answer) \/ IsOfDeleted(answer) => IsReal(answer)
  BY <1>1 DEF ResultIsSound, AnswersAreSound
<1>4. News \subseteq {path \in DOMAIN files : IsNews(answer) /\ path = answer.value.path}
  <2>1. ASSUME "m3u" \in ToSet(job.asked), IsNews(job.answers["m3u"].value)
        PROVE  job.answers["m3u"].value = answer
    <3>1. job.answers["m3u"].kind = "value"
      BY <1>1, <2>1 DEF AnswersAreSound, IsNews, NoAnswer, Answer
    <3>. QED BY <1>1, <1>2, <2>1, <3>1 DEF AnswersAreSound, IsNews
  <2>. QED BY <1>2, <2>1 DEF News, HasReplaced
<1>5. ~troubled => ~IsTroubled
  BY <1>2 DEF IsTroubled
<1>6. \A path \in DOMAIN files \ News : Exists(path) /\ ~troubled =>
          path \in DOMAIN known /\ known[path] = files[path]
  BY <1>5 DEF KeptInv, RestIsKnown
<1>7. known' = Heard(job.result)
  BY DEF CoreReplies
<1>8. \A path \in DOMAIN files : Exists(path) /\ ~troubled =>
          path \in DOMAIN known' /\ known'[path] = files[path]
  <2>1. CASE IsNews(answer)
    <3>. DEFINE of == answer.value.path
    <3>1. known' = [p \in DOMAIN known \union {of} |->
                       IF p = of THEN Whole(answer.value.tracks) ELSE known[p]]
      BY <1>7, <2>1 DEF Heard, IsNews
    <3>2. files[of] = Whole(answer.value.tracks) /\ News \subseteq {of}
      BY <1>3, <1>4, <2>1 DEF IsReal
    <3>. HIDE DEF of
    <3>. QED BY <1>6, <3>1, <3>2
  <2>2. CASE ~IsNews(answer) /\ job.call.op = "delete" /\ job.call.scheme = "m3u"
             /\ answer = Answer("deleted", TRUE)
    <3>1. known' = [p \in DOMAIN known |-> IF p = job.call.request.path THEN None ELSE known[p]]
      BY <1>7, <2>2 DEF Heard, IsNews
    <3>2. ~Exists(job.call.request.path) /\ News = {}
      <4>1. IsOfDeleted(answer)
        BY <2>2 DEF IsOfDeleted, Answer
      <4>2. IsReal(answer)
        BY <1>3, <4>1
      <4>. HIDE DEF answer
      <4>. QED BY <1>4, <2>2, <4>2 DEF IsReal
    <3>. QED BY <1>6, <3>1, <3>2
  <2>3. CASE ~IsNews(answer) /\ ~(job.call.op = "delete" /\ job.call.scheme = "m3u"
                                  /\ answer = Answer("deleted", TRUE))
    <3>1. known' = known
      BY <1>7, <2>3 DEF Heard, IsNews
    <3>. QED BY <1>4, <1>6, <2>3, <3>1
  <2>. QED BY <2>1, <2>2, <2>3
<1>9. /\ job' = NoJob /\ UNCHANGED <<m3u, files, setting, troubled>>
      /\ reply'.call = job.call /\ reply'.result = job.result
  BY DEF CoreReplies, Replied, m3uVars
<1>. QED BY <1>2, <1>3, <1>8, <1>9, EndOfCall

LEMMA CrashKeeps ==
    ASSUME KeptInv, Crash
    PROVE  KeptInv'
<1>1. /\ job' = NoJob /\ reply' = NoReply /\ m3u' = Idle /\ troubled' = TRUE
      /\ setting' = [setting EXCEPT !.crashes = @ - 1]
  BY DEF Crash
<1>2. /\ DOMAIN job' = DOMAIN NoJob /\ job'.asked = << >> /\ job'.next = 1 /\ job'.answers = << >>
      /\ job'.call = NoCall /\ job'.result = Nothing
  BY <1>1 DEF NoJob
<1>3. ToSet(<< >>) = {} /\ DOMAIN << >> = {} /\ << >> \in Seq({})
  BY DEF ToSet
<1>4. JobIsSound'
  BY <1>2, <1>3 DEF JobIsSound, NoCall, Call, NoRequest
<1>5. AnswersAreSound'
  BY <1>2, <1>3 DEF AnswersAreSound
<1>6. ResultIsSound'
  BY <1>2 DEF ResultIsSound, IsNews, IsOfDeleted, NoCall, Call
<1>7. M3UIsSound'
  BY <1>1 DEF M3UIsSound, IsWriting, HasReplaced, Idle
<1>8. RestIsKnown' /\ ReplyIsReal'
  BY <1>1 DEF RestIsKnown, IsTroubled, ReplyIsReal, NoReply, NoCall, Call
<1>9. CallsAreSound'
  BY <1>1 DEF KeptInv, CallsAreSound
<1>. QED BY <1>4, <1>5, <1>6, <1>7, <1>8, <1>9 DEF KeptInv

-----------------------------------------------------------------------------
(* The backends. *)

\* What other backends answer says nothing of playlists.
LEMMA OtherAnswersKeep ==
    ASSUME KeptInv, NEW b, b # "m3u", NEW answer, answer.value.kind \in {"none", "target"},
           Answers(b, answer), UNCHANGED <<m3uVars, setting, reply, known, troubled>>
    PROVE  KeptInv'
<1>1. /\ DOMAIN job = DOMAIN NoJob /\ DOMAIN job.answers = ToSet(job.asked)
      /\ JobIsSound /\ M3UIsSound /\ AnswersAreSound /\ ResultIsSound /\ RestIsKnown /\ ReplyIsReal
  BY DEF KeptInv, JobIsSound
<1>2. job' = [job EXCEPT !.answers[b] = answer]
  BY DEF Answers
<1>3. /\ DOMAIN job' = DOMAIN NoJob /\ job'.call = job.call /\ job'.asked = job.asked
      /\ job'.result = job.result /\ job'.next = job.next
      /\ job'.answers = [job.answers EXCEPT ![b] = answer]
  BY <1>1, <1>2 DEF NoJob
<1>4. /\ DOMAIN job'.answers = ToSet(job.asked) /\ job'.answers["m3u"] = job.answers["m3u"]
      /\ \A c \in ToSet(job.asked) : job'.answers[c] = IF c = b THEN answer ELSE job.answers[c]
  BY <1>1, <1>3
<1>5. JobIsSound' /\ ResultIsSound'
  BY <1>1, <1>3, <1>4 DEF JobIsSound, ResultIsSound, IsNews, IsOfDeleted
<1>6. UNCHANGED <<m3u, files, setting, reply, known, troubled>>
  BY DEF m3uVars
<1>7. CallsAreSound' /\ ReplyIsReal'
  BY <1>1, <1>3, <1>6 DEF KeptInv, CallsAreSound, ReplyIsReal
<1>8. RestIsKnown'
  BY <1>1, <1>3, <1>4, <1>6 DEF RestIsKnown, News, IsTroubled, IsNews, HasReplaced, Exists
<1>9. \A a : IsReal(a) => IsReal(a)'
  BY <1>3, <1>6 DEF IsReal, IsNews, Exists
<1>10. \A c : IsAskedNow(c) => IsAskedNow(c)'
  BY <1>3 DEF IsAskedNow
<1>11. M3UIsSound'
  BY <1>1, <1>3, <1>4, <1>6, <1>9, <1>10 DEF M3UIsSound, IsWriting, HasReplaced, IsWaitedFor, Request
<1>12. AnswersAreSound'
  <2>1. \A c \in ToSet(job.asked) \ {"m3u"} : job'.answers[c].value.kind \in {"none", "target"}
    BY <1>1, <1>4 DEF AnswersAreSound
  <2>. QED BY <1>1, <1>3, <1>4, <1>9, <1>10, <2>1 DEF AnswersAreSound
<1>. QED BY <1>5, <1>7, <1>8, <1>11, <1>12 DEF KeptInv

LEMMA M3UStartKeeps ==
    ASSUME KeptInv, M3UStarts
    PROVE  KeptInv'
<1>1. /\ IsWaitedFor("m3u") /\ m3u.at = "idle" /\ m3u' = M3UIsAsked(job.call.request)
      /\ UNCHANGED <<job, files, setting, reply, known, troubled>>
  BY DEF M3UStarts, coreVars
<1>2. /\ DOMAIN m3u' = DOMAIN Idle /\ m3u'.at = "asked" /\ m3u'.request = job.call.request
  BY <1>1 DEF M3UIsAsked, Idle
<1>3. M3UIsSound'
  BY <1>1, <1>2 DEF M3UIsSound, IsWriting, HasReplaced, IsWaitedFor, IsAskedNow, Request
<1>4. RestIsKnown'
  <2>1. News \subseteq News'
    BY <1>1 DEF News, HasReplaced, IsNews
  <2>2. ~IsTroubled' => ~IsTroubled
    BY <1>1 DEF IsTroubled
  <2>. QED BY <1>1, <2>1, <2>2 DEF KeptInv, RestIsKnown, Exists
<1>5. JobIsSound' /\ ResultIsSound' /\ CallsAreSound' /\ ReplyIsReal'
  BY <1>1 DEF KeptInv, JobIsSound, ResultIsSound, CallsAreSound, ReplyIsReal, IsNews, IsOfDeleted
<1>6. \A a : IsReal(a) => IsReal(a)'
  BY <1>1 DEF IsReal, IsNews, Exists
<1>7. IsAskedNow("m3u") => IsAskedNow("m3u")'
  BY <1>1 DEF IsAskedNow
<1>8. AnswersAreSound'
  BY <1>1, <1>6, <1>7 DEF KeptInv, AnswersAreSound
<1>. QED BY <1>3, <1>4, <1>5, <1>8 DEF KeptInv

\* While M3U works, core has no answer of it.
LEMMA WorkingKeeps ==
    ASSUME KeptInv, m3u.at # "idle", UNCHANGED coreVars, M3UIsSound', RestIsKnown'
    PROVE  KeptInv'
<1>1. UNCHANGED <<job, setting, reply, known, troubled>>
  BY DEF coreVars
<1>2. IsWaitedFor("m3u") /\ job.asked # << >>
  BY NotWaiting DEF KeptInv, M3UIsSound, IsWaitedFor
<1>3. JobIsSound' /\ ResultIsSound' /\ CallsAreSound'
  BY <1>1 DEF KeptInv, JobIsSound, ResultIsSound, CallsAreSound, IsNews, IsOfDeleted
<1>4. ReplyIsReal'
  BY <1>1, <1>2 DEF KeptInv, ReplyIsReal
<1>5. AnswersAreSound'
  <2>1. job.answers["m3u"].kind = "pending" /\ job.answers["m3u"].value = NoAnswer
    BY <1>2 DEF IsWaitedFor, Pending, Answered
  <2>2. IsReal(NoAnswer)'
    BY DEF IsReal, IsNews, NoAnswer, Answer
  <2>. QED BY <1>1, <2>1, <2>2 DEF KeptInv, AnswersAreSound
<1>. QED BY <1>3, <1>4, <1>5 DEF KeptInv

LEMMA NewsOfM3U ==
    ASSUME KeptInv, m3u.at # "idle"
    PROVE  /\ News = {path \in DOMAIN files :
                         \/ HasReplaced /\ path = m3u.path
                         \/ m3u.at = "done" /\ IsNews(m3u.answer) /\ path = m3u.answer.value.path}
           /\ Request = job.call.request /\ Request.op \in {job.call.op, "none"}
           /\ DOMAIN m3u = DOMAIN Idle
<1>1. IsWaitedFor("m3u")
  BY DEF KeptInv, M3UIsSound
<1>2. ~IsNews(job.answers["m3u"].value)
  BY <1>1 DEF IsWaitedFor, Pending, Answered, IsNews, NoAnswer, Answer
<1>. QED BY <1>2 DEF News, KeptInv, M3UIsSound, JobIsSound

\* A request ends.
LEMMA DoneKeeps ==
    ASSUME KeptInv, m3u.at \notin {"idle", "done"}, UNCHANGED coreVars, files' = files,
           NEW answer, m3u' = Done(answer), Request.op # "none",
           Request.op = "delete" => answer.kind = "deleted", IsReal(answer),
           HasReplaced => \/ answer.kind \in {"os_error", "error"}
                          \/ IsNews(answer) /\ answer.value.path = m3u.path
    PROVE  KeptInv'
<1>1. UNCHANGED <<job, setting, reply, known, troubled>>
  BY DEF coreVars
<1>2. /\ DOMAIN m3u' = DOMAIN Idle /\ m3u'.at = "done" /\ m3u'.request = m3u.request
      /\ m3u'.answer = answer
  BY DEF Done, KeptInv, M3UIsSound, Idle
<1>3. IsReal(answer)'
  BY <1>1 DEF IsReal, IsNews, Exists
<1>4. M3UIsSound'
  BY <1>1, <1>2, <1>3 DEF KeptInv, M3UIsSound, IsWriting, HasReplaced, IsWaitedFor, IsAskedNow,
                          Request
<1>5. RestIsKnown'
  <2>1. SUFFICES ASSUME ~troubled, answer.kind \notin {"os_error", "error"}
                 PROVE  \A path \in DOMAIN files \ News' :
                            Exists(path) => path \in DOMAIN known /\ known[path] = files[path]
    BY <1>1, <1>2 DEF RestIsKnown, IsTroubled, Exists
  <2>2. \A path \in DOMAIN files \ News :
            Exists(path) => path \in DOMAIN known /\ known[path] = files[path]
    BY <2>1 DEF KeptInv, RestIsKnown, IsTroubled
  <2>3. News \subseteq News'
    BY <1>1, <1>2, <2>1, NewsOfM3U DEF News, HasReplaced, IsNews
  <2>. QED BY <2>2, <2>3
<1>. QED BY <1>4, <1>5, WorkingKeeps

LEMMA RealOrNot ==
    ASSUME NEW answer, answer.kind \notin {"playlist", "deleted"}
    PROVE  IsReal(answer)
BY DEF IsReal, IsNews, Answer

LEMMA FailingKeeps ==
    ASSUME KeptInv, m3u.at \notin {"idle", "done"}, UNCHANGED coreVars, files' = files, Fails,
           Request.op \notin {"none", "delete"}
    PROVE  KeptInv'
<1>1. m3u' = Done(OsError) /\ OsError.kind = "os_error"
  BY DEF Fails, OsError, Answer
<1>2. IsReal(OsError)
  BY <1>1, RealOrNot
<1>. QED BY <1>1, <1>2, DoneKeeps

\* The paths but those of the news are as before, or not there any more.
LEMMA RestStays ==
    ASSUME KeptInv, UNCHANGED coreVars, m3u.at # "done",
           NEW S \in SUBSET DOMAIN files', News' = S,
           \A path \in DOMAIN files' \ S :
               Exists(path)' => path \in DOMAIN files \ News /\ files'[path] = files[path]
    PROVE  RestIsKnown'
<1>1. ~IsTroubled' => ~IsTroubled
  BY DEF IsTroubled, coreVars
<1>. QED BY <1>1 DEF KeptInv, RestIsKnown, Exists, coreVars

LEMMA M3UStepKeeps ==
    ASSUME KeptInv, M3UGoesOn, UNCHANGED coreVars
    PROVE  KeptInv'
<1>1. UNCHANGED <<job, setting, reply, known, troubled>>
  BY DEF coreVars
<1>2. m3u.at \notin {"idle", "done"}
  BY DEF M3UGoesOn, IgnoresOutside, Lists, Refreshes, Reads, Deletes, Opens, Writes, Replaces,
         Renames, Stats, Asked
<1>3. /\ Request = job.call.request /\ Request.op \in {job.call.op, "none"}
      /\ DOMAIN m3u = DOMAIN Idle /\ M3UIsSound
      /\ ~HasReplaced => News = {}
      /\ HasReplaced => News = {m3u.path}
  <2>1. m3u.at # "idle" /\ m3u.at # "done"
    BY <1>2
  <2>2. M3UIsSound
    BY DEF KeptInv
  <2>. QED BY <2>1, <2>2, NewsOfM3U DEF M3UIsSound
<1>4. IsWriting => Request.op \in {"create", "save"}
  BY <1>3 DEF M3UIsSound
\* What is left to show of a step that does not end the request.
<1>5. ASSUME DOMAIN m3u' = DOMAIN Idle, Request' = Request, IsWriting', m3u.at # "idle",
             Request.op \in {"create", "save"},
             m3u'.at = "written" => m3u'.temp = Whole(Request.tracks),
             HasReplaced' => /\ m3u'.path \in DOMAIN files'
                             /\ files'[m3u'.path] = Whole(Request.tracks)
      PROVE  M3UIsSound'
  <2>1. IsWaitedFor("m3u")'
    BY <1>1, <1>3, <1>5 DEF M3UIsSound, IsWaitedFor, IsAskedNow
  <2>2. m3u'.at \notin {"idle", "done"}
    BY <1>5 DEF IsWriting
  <2>. QED BY <1>1, <1>3, <1>5, <2>1, <2>2 DEF M3UIsSound
<1>6. m3u'.at \in {"opened", "written"} /\ IsWaitedFor("m3u") => News' = {}
  BY <1>1 DEF News, HasReplaced, IsWaitedFor, Pending, Answered, IsNews, NoAnswer, Answer
<1>7. m3u'.at \in {"replaced", "renamed"} /\ IsWaitedFor("m3u") /\ m3u'.path \in DOMAIN files'
          => News' = {m3u'.path}
  BY <1>1 DEF News, HasReplaced, IsWaitedFor, Pending, Answered, IsNews, NoAnswer, Answer
<1>8. IsWaitedFor("m3u")
  BY <1>2, <1>3 DEF M3UIsSound
<1>9. ASSUME Fails, files' = files, Request.op \notin {"none", "delete"}
      PROVE  KeptInv'
  BY <1>2, <1>9, FailingKeeps
<1>10. CASE IgnoresOutside
  <2>1. /\ Asked({"get_items", "lookup", "delete", "save"}) /\ files' = files
        /\ m3u' = Done(IF Request.op = "delete" THEN Answer("deleted", FALSE) ELSE NotFound)
    BY <1>10 DEF IgnoresOutside
  <2>2. /\ IsReal(NotFound) /\ IsReal(Answer("deleted", FALSE))
        /\ Answer("deleted", FALSE).kind = "deleted"
    BY DEF IsReal, IsNews, NotFound, Answer
  <2>3. Request.op # "none" /\ ~HasReplaced
    BY <2>1 DEF Asked, HasReplaced
  <2>. QED BY <1>2, <2>1, <2>2, <2>3, DoneKeeps
<1>11. CASE Lists \/ Refreshes
  <2>1. PICK answer : /\ m3u' = Done(answer) /\ files' = files /\ answer.kind \in {"list", "none"}
                      /\ Asked({"as_list", "refresh"})
    BY <1>11 DEF Lists, Refreshes, Asked, Answer, NoAnswer
  <2>2. Request.op \notin {"none", "delete"} /\ ~HasReplaced /\ IsReal(answer)
    BY <2>1, RealOrNot DEF Asked, HasReplaced
  <2>. QED BY <1>2, <2>1, <2>2, DoneKeeps
<1>12. CASE Reads
  <2>1. Asked({"get_items", "lookup"}) /\ files' = files
    BY <1>12 DEF Reads
  <2>2. Request.op \notin {"none", "delete", "create", "save"} /\ ~HasReplaced
    BY <2>1 DEF Asked, HasReplaced
  <2>3. CASE Fails
    BY <1>9, <2>1, <2>2, <2>3
  <2>4. CASE \E answer : m3u' = Done(answer)
    <3>1. PICK answer : m3u' = Done(answer)
      BY <2>4
    <3>2. IsReal(answer)
      BY <1>3, <2>2 DEF IsReal, IsNews
    <3>. QED BY <1>2, <2>1, <2>2, <3>1, <3>2, DoneKeeps
  <2>. QED BY <1>12, <2>3, <2>4 DEF Reads
<1>13. CASE Deletes
  <2>1. Request.op = "delete" /\ job.call.op = "delete" /\ ~HasReplaced /\ m3u.at # "idle"
    BY <1>3, <1>13 DEF Deletes, Asked, HasReplaced
  <2>2. CASE files' = files /\ m3u' = Done(Answer("deleted", FALSE))
    <3>1. IsReal(Answer("deleted", FALSE)) /\ Answer("deleted", FALSE).kind = "deleted"
      BY DEF IsReal, IsNews, Answer
    <3>. QED BY <1>2, <2>1, <2>2, <3>1, DoneKeeps
  <2>3. CASE /\ files' = [path \in DOMAIN files |->
                             IF path = Request.path THEN None ELSE files[path]]
             /\ m3u' = Done(Answer("deleted", Exists(Request.path)))
    <3>. DEFINE answer == Answer("deleted", Exists(Request.path))
    <3>1. /\ DOMAIN m3u' = DOMAIN Idle /\ m3u'.at = "done" /\ Request' = Request
          /\ m3u'.answer = answer /\ answer.kind = "deleted"
      BY <1>3, <2>3 DEF Done, Idle, Request, Answer
    <3>. HIDE DEF answer
    <3>2. ~Exists(Request.path)'
      BY <2>3, <3>1 DEF Exists
    <3>3. IsReal(m3u.answer)'
      BY <1>1, <1>3, <3>1, <3>2 DEF IsReal, IsNews, Exists
    <3>4. IsWaitedFor("m3u")'
      BY <1>1, <1>8 DEF IsWaitedFor, IsAskedNow
    <3>5. M3UIsSound'
      BY <1>1, <1>3, <2>1, <3>1, <3>3, <3>4 DEF M3UIsSound, IsWriting, HasReplaced
    <3>6. RestIsKnown'
      <4>1. News = {} /\ News' \subseteq DOMAIN files'
        BY <1>3, <2>1 DEF News
      <4>. QED BY <1>2, <2>3, <4>1, RestStays DEF Exists
    <3>. QED BY <2>1, <3>5, <3>6, WorkingKeeps
  <2>. QED BY <1>13, <2>2, <2>3 DEF Deletes
<1>14. CASE Opens
  <2>1. Asked({"create", "save"}) /\ files' = files
    BY <1>14 DEF Opens
  <2>2. Request.op \in {"create", "save"} /\ ~HasReplaced /\ m3u.at # "idle"
    BY <2>1 DEF Asked, HasReplaced
  <2>3. CASE Fails
    BY <1>9, <2>1, <2>2, <2>3
  <2>4. CASE ~Fails
    <3>1. \E path : m3u' = [m3u EXCEPT !.at = "opened", !.temp = Partial, !.path = path]
      BY <1>14, <2>4 DEF Opens
    <3>2. DOMAIN m3u' = DOMAIN Idle /\ Request' = Request /\ m3u'.at = "opened"
      BY <1>3, <3>1 DEF Idle, Request
    <3>3. M3UIsSound'
      BY <1>5, <2>2, <3>2 DEF IsWriting, HasReplaced
    <3>4. News = {} /\ News' = {}
      BY <1>3, <1>6, <1>8, <2>2, <3>2
    <3>5. RestIsKnown'
      BY <1>2, <2>1, <3>4, RestStays DEF Exists
    <3>. QED BY <2>2, <3>3, <3>5, WorkingKeeps
  <2>. QED BY <2>3, <2>4
<1>15. CASE Writes
  <2>1. m3u.at = "opened" /\ files' = files /\ ~HasReplaced /\ Request.op \in {"create", "save"}
    BY <1>4, <1>15 DEF Writes, HasReplaced, IsWriting
  <2>2. CASE Fails
    BY <1>9, <2>1, <2>2
  <2>3. CASE ~Fails
    <3>1. m3u' = [m3u EXCEPT !.at = "written", !.temp = Whole(Request.tracks)]
      BY <1>15, <2>3 DEF Writes
    <3>2. /\ DOMAIN m3u' = DOMAIN Idle /\ Request' = Request /\ m3u'.at = "written"
          /\ m3u'.temp = Whole(Request.tracks)
      BY <1>3, <3>1 DEF Idle, Request
    <3>3. M3UIsSound'
      BY <1>5, <2>1, <3>2 DEF IsWriting, HasReplaced
    <3>4. News = {} /\ News' = {}
      BY <1>3, <1>6, <1>8, <2>1, <3>2
    <3>5. RestIsKnown'
      BY <1>2, <2>1, <3>4, RestStays DEF Exists
    <3>. QED BY <2>1, <3>3, <3>5, WorkingKeeps
  <2>. QED BY <2>2, <2>3
<1>16. CASE Replaces
  <2>1. m3u.at = "written" /\ ~HasReplaced /\ Request.op \in {"create", "save"}
    BY <1>4, <1>16 DEF Replaces, HasReplaced, IsWriting
  <2>2. CASE Fails /\ files' = files
    BY <1>9, <2>1, <2>2
  <2>3. CASE ~(Fails /\ files' = files)
    <3>1. /\ files' = WithFile(m3u.path, m3u.temp)
          /\ m3u' = [m3u EXCEPT !.at = "replaced", !.temp = None]
      BY <1>16, <2>3 DEF Replaces
    <3>2. /\ DOMAIN m3u' = DOMAIN Idle /\ Request' = Request /\ m3u'.at = "replaced"
          /\ m3u'.path = m3u.path
      BY <1>3, <3>1 DEF Idle, Request
    <3>3. /\ files' = [p \in DOMAIN files \union {m3u.path} |->
                         IF p = m3u.path THEN Whole(Request.tracks) ELSE files[p]]
      BY <1>3, <2>1, <3>1 DEF M3UIsSound, WithFile
    <3>4. M3UIsSound'
      BY <1>5, <2>1, <3>2, <3>3 DEF IsWriting, HasReplaced
    <3>5. News = {} /\ News' = {m3u.path}
      BY <1>3, <1>7, <1>8, <2>1, <3>2, <3>3
    <3>6. RestIsKnown'
      BY <1>2, <3>3, <3>5, RestStays DEF Exists
    <3>. QED BY <2>1, <3>4, <3>6, WorkingKeeps
  <2>. QED BY <2>2, <2>3
<1>17. CASE Renames
  <2>1. m3u.at = "replaced" /\ HasReplaced /\ Request.op \in {"create", "save"}
    BY <1>4, <1>17 DEF Renames, HasReplaced, IsWriting
  <2>2. CASE Fails /\ files' = files
    BY <1>9, <2>1, <2>2
  <2>3. CASE m3u' = Done(Answer("error", None)) /\ files' = files
    <3>1. Answer("error", None).kind = "error"
      BY DEF Answer
    <3>2. IsReal(Answer("error", None))
      BY <3>1, RealOrNot
    <3>. QED BY <1>2, <2>1, <2>3, <3>1, <3>2, DoneKeeps
  <2>4. CASE ~(Fails /\ files' = files) /\ ~(m3u' = Done(Answer("error", None)) /\ files' = files)
    <3>. DEFINE path == MovedPath(Stripped(Request.name))
    <3>1. /\ files' = [WithFile(path, files[m3u.path]) EXCEPT
                          ![m3u.path] = IF path = m3u.path THEN @ ELSE None]
          /\ m3u' = [m3u EXCEPT !.at = "renamed", !.path = path]
      BY <1>17, <2>4 DEF Renames
    <3>. HIDE DEF path
    <3>2. /\ DOMAIN m3u' = DOMAIN Idle /\ Request' = Request /\ m3u'.at = "renamed"
          /\ m3u'.path = path
      BY <1>3, <3>1 DEF Idle, Request
    <3>3. m3u.path \in DOMAIN files /\ files[m3u.path] = Whole(Request.tracks)
      BY <1>3, <2>1 DEF M3UIsSound
    <3>4. /\ DOMAIN files' = DOMAIN files \union {path}
          /\ files'[path] = Whole(Request.tracks)
          /\ \A p \in DOMAIN files : p \notin {path, m3u.path} => files'[p] = files[p]
          /\ m3u.path # path => files'[m3u.path] = None
      BY <3>1, <3>3 DEF WithFile
    <3>5. M3UIsSound'
      BY <1>5, <2>1, <3>2, <3>4 DEF IsWriting, HasReplaced
    <3>6. News = {m3u.path} /\ News' = {path}
      BY <1>3, <1>7, <1>8, <2>1, <3>2, <3>4
    <3>7. RestIsKnown'
      BY <1>2, <3>4, <3>6, RestStays DEF Exists
    <3>. QED BY <2>1, <3>5, <3>7, WorkingKeeps
  <2>. QED BY <2>2, <2>3, <2>4
<1>18. CASE Stats
  <2>1. HasReplaced /\ files' = files /\ Request.op \in {"create", "save"}
    BY <1>4, <1>18 DEF Stats, HasReplaced, IsWriting
  <2>2. CASE Fails
    BY <1>9, <2>1, <2>2
  <2>3. CASE ~Fails
    <3>. DEFINE answer == Answer("playlist", Playlist(m3u.path, NameOf(m3u.path), Request.tracks))
    <3>1. m3u' = Done(answer)
      BY <1>18, <2>3 DEF Stats
    <3>2. /\ answer.kind = "playlist" /\ answer.value.path = m3u.path
          /\ answer.value.tracks = Request.tracks
      BY DEF Answer, Playlist
    <3>. HIDE DEF answer
    <3>3. job.call.op = Request.op /\ IsNews(answer)
      BY <1>3, <2>1, <3>2 DEF IsNews
    <3>4. IsReal(answer)
      BY <1>3, <2>1, <3>2, <3>3 DEF IsReal, M3UIsSound
    <3>. QED BY <1>2, <2>1, <3>1, <3>2, <3>3, <3>4, DoneKeeps
  <2>. QED BY <2>2, <2>3
<1>. QED BY <1>10, <1>11, <1>12, <1>13, <1>14, <1>15, <1>16, <1>17, <1>18 DEF M3UGoesOn

LEMMA M3UAnswerKeeps ==
    ASSUME KeptInv, M3UAnswers
    PROVE  KeptInv'
<1>. DEFINE given == m3u.answer
            answer == CASE given.kind \in {"not_found", "os_error"} ->
                               Answered("none", << >>, NoAnswer)
                        [] given.kind = "error" -> Answered("error", << >>, NoAnswer)
                        [] OTHER -> Answered("value", << >>, given)
<1>1. /\ m3u.at = "done" /\ Answers("m3u", answer) /\ m3u' = Idle
      /\ troubled' = (troubled \/ given.kind \in {"os_error", "error"})
      /\ UNCHANGED <<files, setting, reply, known>>
  BY DEF M3UAnswers
<1>2. /\ answer.kind \in {"value", "none", "error"} /\ answer.items = << >>
      /\ answer.kind # "value" => answer.value = NoAnswer
      /\ answer.kind = "value" => answer.value = given
      /\ given.kind \in {"deleted", "playlist"} => answer.kind = "value"
  BY DEF Answered
<1>. HIDE DEF answer
<1>3. /\ DOMAIN job = DOMAIN NoJob /\ DOMAIN job.answers = ToSet(job.asked)
      /\ JobIsSound /\ M3UIsSound /\ AnswersAreSound /\ ResultIsSound /\ RestIsKnown
  BY DEF KeptInv, JobIsSound
<1>4. /\ DOMAIN job' = DOMAIN NoJob /\ job'.call = job.call /\ job'.asked = job.asked
      /\ job'.result = job.result /\ job'.next = job.next
      /\ job'.answers = [job.answers EXCEPT !["m3u"] = answer]
  BY <1>1, <1>3 DEF Answers, NoJob
<1>5. IsAskedNow("m3u") /\ job.answers["m3u"] = Pending /\ job.asked # << >>
  BY <1>1, <1>3, NotWaiting DEF M3UIsSound, IsWaitedFor
<1>6. "m3u" \in ToSet(job.asked)
  BY <1>3, <1>5, ToSetOf DEF IsAskedNow, JobIsSound
<1>7. /\ DOMAIN job'.answers = ToSet(job.asked) /\ job'.answers["m3u"] = answer
      /\ \A b \in ToSet(job.asked) \ {"m3u"} : job'.answers[b] = job.answers[b]
  BY <1>3, <1>4, <1>6
<1>8. JobIsSound'
  BY <1>3, <1>4, <1>7 DEF JobIsSound
<1>9. CallsAreSound' /\ ReplyIsReal'
  BY <1>1, <1>4, <1>5 DEF KeptInv, CallsAreSound, ReplyIsReal
<1>10. ResultIsSound'
  <2>1. Pending.kind # "value"
    BY DEF Pending, Answered
  <2>. QED BY <1>3, <1>4, <1>5, <2>1 DEF ResultIsSound, IsNews, IsOfDeleted
<1>11. M3UIsSound'
  BY <1>1 DEF M3UIsSound, IsWriting, HasReplaced, Idle
<1>12. IsReal(job.answers["m3u"].value)'
  <2>1. IsReal(given)
    BY <1>1, <1>3 DEF M3UIsSound
  <2>2. IsReal(NoAnswer)
    BY RealOrNot DEF NoAnswer, Answer
  <2>3. IsReal(answer.value)
    BY <1>2, <2>1, <2>2
  <2>4. \A a : IsReal(a) => IsReal(a)'
    BY <1>1, <1>4 DEF IsReal, IsNews, Exists
  <2>. QED BY <1>7, <2>3, <2>4
<1>13. AnswersAreSound'
  <2>1. IsAskedNow("m3u")'
    BY <1>4, <1>5 DEF IsAskedNow
  <2>2. job.call.op = "delete" => answer.kind = "value"
    BY <1>1, <1>2, <1>3 DEF M3UIsSound, JobIsSound
  <2>3. \A b \in ToSet(job.asked) \ {"m3u"} : job'.answers[b].value.kind \in {"none", "target"}
    BY <1>3, <1>7 DEF AnswersAreSound
  <2>. QED BY <1>2, <1>4, <1>7, <1>12, <2>1, <2>2, <2>3 DEF AnswersAreSound
<1>14. RestIsKnown'
  <2>1. News \subseteq News'
    <3>1. News = {path \in DOMAIN files : IsNews(given) /\ path = given.value.path}
      BY <1>1, NewsOfM3U DEF HasReplaced
    <3>2. IsNews(given) => answer.value = given
      BY <1>2 DEF IsNews
    <3>. QED BY <1>1, <1>4, <1>6, <1>7, <3>1, <3>2 DEF News, IsNews
  <2>2. ~IsTroubled' => ~IsTroubled
    BY <1>1 DEF IsTroubled
  <2>. QED BY <1>1, <1>3, <2>1, <2>2 DEF RestIsKnown, Exists
<1>. QED BY <1>8, <1>9, <1>10, <1>11, <1>13, <1>14 DEF KeptInv

LEMMA KeptIsKept ==
    ASSUME KeptInv, FilesAreWhole
    PROVE  PlaylistsAreKept
<1>1. ASSUME reply.result.answer.kind = "playlist", reply.call.op \in {"create", "save"}
      PROVE  LET playlist == reply.result.answer.value
             IN  files[playlist.path] = Whole(playlist.tracks)
  BY <1>1 DEF KeptInv, ReplyIsReal
<1>2. ASSUME IsIdle, ~troubled
      PROVE  \A path \in DOMAIN files : Exists(path) => known[path] = files[path]
  <2>1. m3u.at = "idle" /\ News = {}
    BY <1>2, NotWaiting, NoNewsOfNoJob DEF IsIdle, NoJob
  <2>. QED BY <1>2, <2>1 DEF KeptInv, RestIsKnown, IsTroubled
<1>. QED BY <1>1, <1>2 DEF PlaylistsAreKept

LEMMA KeptAlways == Spec => []KeptInv
<1>1. Init => KeptInv
  <2>. SUFFICES ASSUME Init PROVE KeptInv
    OBVIOUS
  <2>1. /\ job = NoJob /\ reply = NoReply /\ m3u = Idle /\ known = files
        /\ setting \in Settings
    BY DEF Init, M3UInit
  <2>2. /\ job.asked = << >> /\ job.next = 1 /\ job.answers = << >> /\ DOMAIN job = DOMAIN NoJob
        /\ job.call = NoCall /\ job.result = Nothing
    BY <2>1 DEF NoJob
  <2>3. ToSet(<< >>) = {} /\ DOMAIN << >> = {} /\ << >> \in Seq({})
    BY DEF ToSet
  <2>4. JobIsSound
    BY <2>2, <2>3 DEF JobIsSound, NoCall, Call, NoRequest
  <2>5. AnswersAreSound /\ ResultIsSound
    BY <2>2, <2>3 DEF AnswersAreSound, ResultIsSound, IsNews, IsOfDeleted, NoCall, Call
  <2>6. M3UIsSound
    BY <2>1 DEF M3UIsSound, IsWriting, HasReplaced, Idle
  <2>7. RestIsKnown /\ ReplyIsReal
    BY <2>1 DEF RestIsKnown, ReplyIsReal, NoReply, NoCall, Call
  <2>8. CallsAreSound
    BY <2>1, CallsAssumption DEF CallsAreSound
  <2>. QED BY <2>4, <2>5, <2>6, <2>7, <2>8 DEF KeptInv
<1>2. KeptInv /\ [Next]_vars => KeptInv'
  <2>. SUFFICES ASSUME KeptInv, [Next]_vars PROVE KeptInv'
    OBVIOUS
  <2>1. CASE CoreStarts \/ CoreGets \/ CoreRaises \/ CoreReplies \/ Crash
    BY <2>1, StartingKeeps, GettingKeeps, RaisingKeeps, ReplyingKeeps, CrashKeeps
  <2>2. CASE M3UActs
    BY <2>2, M3UStartKeeps, M3UStepKeeps, M3UAnswerKeeps DEF M3UActs
  <2>3. CASE OtherActs
    <3>1. PICK b \in Others : Answers(b, OtherAnswer(b, setting.behaves[b]))
      BY <2>3 DEF OtherActs
    <3>2. b # "m3u" /\ OtherAnswer(b, setting.behaves[b]).value.kind \in {"none", "target"}
      BY DEF Others, OtherAnswer, Answered, NoAnswer, Answer
    <3>. QED BY <2>3, <3>1, <3>2, OtherAnswersKeep DEF OtherActs
  <2>4. CASE UNCHANGED <<m3uVars, coreVars>>
    <3>1. UNCHANGED <<m3u, files, setting, job, reply, known, troubled>>
      BY <2>4 DEF m3uVars, coreVars
    <3>2. JobIsSound' /\ ResultIsSound' /\ CallsAreSound' /\ ReplyIsReal'
      BY <3>1 DEF KeptInv, JobIsSound, ResultIsSound, CallsAreSound, ReplyIsReal, IsNews, IsOfDeleted
    <3>3. (\A a : IsReal(a) => IsReal(a)') /\ (\A b : IsAskedNow(b) => IsAskedNow(b)')
      BY <3>1 DEF IsReal, IsNews, Exists, IsAskedNow
    <3>4. M3UIsSound'
      BY <3>1, <3>3 DEF KeptInv, M3UIsSound, IsWriting, HasReplaced, IsWaitedFor, Request
    <3>5. AnswersAreSound'
      BY <3>1, <3>3 DEF KeptInv, AnswersAreSound
    <3>6. RestIsKnown'
      BY <3>1 DEF KeptInv, RestIsKnown, News, IsTroubled, HasReplaced, IsNews, Exists
    <3>. QED BY <3>2, <3>4, <3>5, <3>6 DEF KeptInv
  <2>5. CASE StreamActs
    <3>1. CASE StreamIsAsked
      <4>1. CASE UNCHANGED job
        BY <2>4, <3>1, <4>1 DEF StreamIsAsked, coreVars, m3uVars
      <4>2. CASE Answers("stream", Answered("none", << >>, NoAnswer))
        <5>1. Answered("none", << >>, NoAnswer).value.kind = "none"
          BY DEF Answered, NoAnswer, Answer
        <5>. QED BY <3>1, <4>2, <5>1, OtherAnswersKeep DEF StreamIsAsked
      <4>. QED BY <3>1, <4>1, <4>2 DEF StreamIsAsked
    <3>2. CASE StreamAnswers
      <4>1. PICK answer : Answers("stream", answer) /\ answer.value.kind = "target"
        BY <3>2 DEF StreamAnswers, Answered, Answer
      <4>. QED BY <3>2, <4>1, OtherAnswersKeep DEF StreamAnswers
    <3>. QED BY <2>4, <2>5, <3>1, <3>2 DEF StreamActs
  <2>6. CASE UNCHANGED vars
    BY <2>4, <2>6 DEF vars
  <2>. QED BY <2>1, <2>2, <2>3, <2>5, <2>6 DEF Next, Over
<1>. QED BY <1>1, <1>2, PTL DEF Spec

\* Playlist files are whole at any time; what a client is answered to have been
\* made or saved is in its file; and, unless a step failed or the process was
\* ended before, those who listen know what is in every file (m3u/playlists.py,
\* PlaylistsController.create, save and delete).
THEOREM PlaylistsKept == Spec => []PlaylistsAreKept
<1>1. KeptInv /\ FilesAreWhole => PlaylistsAreKept
  BY KeptIsKept
<1>. QED BY <1>1, KeptAlways, FilesAlwaysWhole, PTL

-----------------------------------------------------------------------------
(* What is chosen of a sequence, and whom core asks. *)

\* A sequence with one more.
LEMMA WithOneMore ==
    ASSUME NEW X, NEW s \in Seq(X), NEW x \in X
    PROVE  Append(s, x) \in Seq(X) /\ ToSet(Append(s, x)) = ToSet(s) \union {x}
<1>1. /\ Append(s, x) \in Seq(X) /\ Len(s) \in Nat /\ DOMAIN s = 1 .. Len(s)
      /\ DOMAIN Append(s, x) = 1 .. Len(s) + 1
      /\ 1 .. Len(s) + 1 = 1 .. Len(s) \union {Len(s) + 1} /\ Len(s) + 1 \notin 1 .. Len(s)
      /\ Append(s, x)[Len(s) + 1] = x /\ \A i \in 1 .. Len(s) : Append(s, x)[i] = s[i]
  OBVIOUS
<1>2. /\ ToSet(Append(s, x)) = {Append(s, x)[i] : i \in 1 .. Len(s) + 1}
      /\ ToSet(s) = {s[i] : i \in 1 .. Len(s)}
  BY <1>1 DEF ToSet
<1>3. ToSet(Append(s, x)) = ToSet(s) \union {x}
  BY <1>1, <1>2
<1>. QED BY <1>1, <1>3

\* What is chosen is what is there and is to be chosen.
LEMMA ChosenAre ==
    ASSUME NEW X, NEW seq \in Seq(X), NEW S
    PROVE  ToSet(Chosen(seq, S)) = ToSet(seq) \intersect S
<1>. DEFINE T == {s \in Seq(X) :
                     Chosen(s, S) \in Seq(X) /\ ToSet(Chosen(s, S)) = ToSet(s) \intersect S}
<1>1. << >> \in T
  <2>1. << >> \in Seq(X) /\ Chosen(<< >>, S) = << >> /\ ToSet(<< >>) = {}
    BY ChosenType DEF ToSet
  <2>. QED BY <2>1
<1>2. ASSUME NEW s \in Seq(X), NEW e \in X, s \in T
      PROVE  Append(s, e) \in T
  <2>. DEFINE chosen == Chosen(s, S)
              more == Append(s, e)
  <2>1. chosen \in Seq(X) /\ ToSet(chosen) = ToSet(s) \intersect S
    BY <1>2
  <2>2. Chosen(more, S) = IF e \in S THEN Append(chosen, e) ELSE chosen
    BY ChosenOfAppend
  <2>. HIDE DEF chosen
  <2>. HIDE DEF more
  <2>3. more \in Seq(X) /\ ToSet(more) = ToSet(s) \union {e}
    BY WithOneMore DEF more
  <2>4. Append(chosen, e) \in Seq(X) /\ ToSet(Append(chosen, e)) = ToSet(chosen) \union {e}
    BY <2>1, WithOneMore
  <2>5. Chosen(more, S) \in Seq(X) /\ ToSet(Chosen(more, S)) = ToSet(more) \intersect S
    BY <2>1, <2>2, <2>3, <2>4
  <2>. QED BY <2>3, <2>5 DEF more
<1>. HIDE DEF T
<1>3. seq \in T
  BY <1>1, <1>2, SeqSetInduction
<1>. QED BY <1>3 DEF T

\* Where there is nothing to choose, nothing is chosen.
LEMMA ChosenNone ==
    ASSUME NEW X, NEW seq \in Seq(X), NEW S, ToSet(seq) \intersect S = {}
    PROVE  Chosen(seq, S) = << >>
<1>1. Chosen(seq, S) \in Seq(X) /\ ToSet(Chosen(seq, S)) = {}
  BY ChosenAre, ChosenType
<1>. QED BY <1>1, ToSetOf, EmptySeq

\* Each element is in a relation to those after it.
IsSortedBy(s, R) == \A i, j \in 1 .. Len(s) : i < j => <<s[i], s[j]>> \in R

LEMMA SortedByWithOneMore ==
    ASSUME NEW X, NEW s \in Seq(X), NEW x \in X, NEW R
    PROVE  IsSortedBy(Append(s, x), R) <=> IsSortedBy(s, R) /\ \A y \in ToSet(s) : <<y, x>> \in R
<1>. DEFINE more == Append(s, x)
            n == Len(s)
<1>1. /\ n \in Nat /\ Len(more) = n + 1 /\ more[n + 1] = x
      /\ \A i \in 1 .. n : more[i] = s[i]
  OBVIOUS
<1>2. ToSet(s) = {s[i] : i \in 1 .. n}
  BY ToSetOf
<1>. HIDE DEF more
<1>3. ASSUME IsSortedBy(more, R)
      PROVE  IsSortedBy(s, R) /\ \A y \in ToSet(s) : <<y, x>> \in R
  <2>1. \A i, j \in 1 .. n + 1 : i < j => <<more[i], more[j]>> \in R
    BY <1>1, <1>3 DEF IsSortedBy
  <2>2. \A i \in 1 .. n : i \in 1 .. n + 1 /\ n + 1 \in 1 .. n + 1 /\ i < n + 1
    BY <1>1
  <2>. QED BY <1>1, <1>2, <2>1, <2>2 DEF IsSortedBy
<1>4. ASSUME IsSortedBy(s, R), \A y \in ToSet(s) : <<y, x>> \in R
      PROVE  IsSortedBy(more, R)
  <2>. SUFFICES ASSUME NEW i \in 1 .. n + 1, NEW j \in 1 .. n + 1, i < j
                PROVE  <<more[i], more[j]>> \in R
    BY <1>1 DEF IsSortedBy
  <2>1. i \in 1 .. n
    BY <1>1
  <2>2. CASE j = n + 1
    BY <1>1, <1>2, <1>4, <2>1, <2>2
  <2>3. CASE j # n + 1
    <3>1. j \in 1 .. n
      BY <1>1, <2>3
    <3>. QED BY <1>1, <1>4, <2>1, <3>1 DEF IsSortedBy
  <2>. QED BY <2>2, <2>3
<1>. QED BY <1>3, <1>4 DEF more

\* What is chosen stays in its order.
LEMMA ChosenSorted ==
    ASSUME NEW X, NEW seq \in Seq(X), NEW S, NEW R, IsSortedBy(seq, R)
    PROVE  IsSortedBy(Chosen(seq, S), R)
<1>. DEFINE T == {s \in Seq(X) : IsSortedBy(s, R) => IsSortedBy(Chosen(s, S), R)}
<1>1. << >> \in T
  <2>1. << >> \in Seq(X) /\ Len(<< >>) = 0
    OBVIOUS
  <2>2. Chosen(<< >>, S) = << >>
    BY <2>1, ChosenType
  <2>. QED BY <2>1, <2>2 DEF IsSortedBy
<1>2. ASSUME NEW s \in Seq(X), NEW e \in X, s \in T
      PROVE  Append(s, e) \in T
  <2>. SUFFICES ASSUME IsSortedBy(Append(s, e), R) PROVE IsSortedBy(Chosen(Append(s, e), S), R)
    OBVIOUS
  <2>1. IsSortedBy(s, R) /\ \A y \in ToSet(s) : <<y, e>> \in R
    BY SortedByWithOneMore
  <2>2. /\ Chosen(s, S) \in Seq(X) /\ ToSet(Chosen(s, S)) \subseteq ToSet(s)
        /\ IsSortedBy(Chosen(s, S), R)
    BY <1>2, <2>1, ChosenAre, ChosenType
  <2>3. IsSortedBy(Append(Chosen(s, S), e), R)
    <3>. DEFINE chosen == Chosen(s, S)
    <3>1. chosen \in Seq(X) /\ IsSortedBy(chosen, R) /\ \A y \in ToSet(chosen) : <<y, e>> \in R
      BY <2>1, <2>2
    <3>. HIDE DEF chosen
    <3>2. IsSortedBy(Append(chosen, e), R)
      BY <3>1, SortedByWithOneMore
    <3>. QED BY <3>2 DEF chosen
  <2>. QED BY <2>2, <2>3, ChosenOfAppend
<1>. HIDE DEF T
<1>3. seq \in T
  BY <1>1, <1>2, SeqSetInduction
<1>. QED BY <1>3 DEF T

\* The first that is chosen is the first to be chosen.
LEMMA ChosenFirst ==
    ASSUME NEW X, NEW seq \in Seq(X), NEW S, Chosen(seq, S) # << >>
    PROVE  \E i \in 1 .. Len(seq) :
              seq[i] = Chosen(seq, S)[1] /\ \A j \in 1 .. i - 1 : seq[j] \notin S
<1>. DEFINE IsThere(s) == \E i \in 1 .. Len(s) :
                             s[i] = Chosen(s, S)[1] /\ \A j \in 1 .. i - 1 : s[j] \notin S
            T == {s \in Seq(X) : Chosen(s, S) # << >> => IsThere(s)}
<1>1. << >> \in T
  <2>1. << >> \in Seq(X)
    OBVIOUS
  <2>. QED BY <2>1, ChosenType
<1>2. ASSUME NEW s \in Seq(X), NEW e \in X, s \in T
      PROVE  Append(s, e) \in T
  <2>. DEFINE chosen == Chosen(s, S)
              more == Append(s, e)
              n == Len(s)
  <2>1. /\ more \in Seq(X) /\ n \in Nat /\ Len(more) = n + 1 /\ more[n + 1] = e
        /\ \A i \in 1 .. n : more[i] = s[i]
    OBVIOUS
  <2>2. Chosen(more, S) = IF e \in S THEN Append(chosen, e) ELSE chosen
    BY ChosenOfAppend
  <2>3. chosen \in Seq(X) /\ ToSet(chosen) = ToSet(s) \intersect S /\ ToSet(s) = {s[i] : i \in 1 .. n}
    BY ChosenAre, ChosenType, ToSetOf
  <2>4. CASE chosen # << >>
    <3>1. PICK i \in 1 .. n : s[i] = chosen[1] /\ \A j \in 1 .. i - 1 : s[j] \notin S
      BY <1>2, <2>4
    <3>2. Chosen(more, S)[1] = chosen[1]
      <4>. HIDE DEF chosen, more
      <4>1. Append(chosen, e)[1] = chosen[1]
        BY <2>3, <2>4
      <4>. QED BY <2>2, <4>1
    <3>. HIDE DEF chosen, more
    <3>3. i \in 1 .. n + 1 /\ \A j \in 1 .. i - 1 : j \in 1 .. n
      BY <2>1
    <3>4. IsThere(more)
      BY <2>1, <3>1, <3>2, <3>3
    <3>. QED BY <2>1, <3>4 DEF more
  <2>5. CASE chosen = << >> /\ e \in S
    <3>. HIDE DEF chosen, more
    <3>1. ToSet(chosen) = {}
      BY <2>5 DEF ToSet
    <3>2. \A j \in 1 .. n : s[j] \notin S
      BY <2>3, <3>1
    <3>3. Append(<< >>, e)[1] = e
      OBVIOUS
    <3>4. Chosen(more, S)[1] = e
      BY <2>2, <2>5, <3>3
    <3>5. n + 1 \in 1 .. n + 1 /\ n + 1 - 1 = n
      BY <2>1
    <3>6. IsThere(more)
      BY <2>1, <3>2, <3>4, <3>5
    <3>. QED BY <2>1, <3>6 DEF more
  <2>6. CASE chosen = << >> /\ e \notin S
    BY <2>1, <2>2, <2>6
  <2>. QED BY <2>4, <2>5, <2>6
<1>. HIDE DEF T
<1>3. seq \in T
  BY <1>1, <1>2, SeqSetInduction
<1>. QED BY <1>3 DEF T

\* Who is asked for URIs are their owners.
LEMMA OwnersAre ==
    ASSUME NEW uris \in Seq(Uris)
    PROVE  ToSet(OwnersOf(uris)) = {Owner[u] : u \in ToSet(uris)}
<1>. DEFINE n == Len(uris)
            all == [i \in 1 .. n |-> i]
            S == {i \in 1 .. n : \A j \in 1 .. i - 1 : Owner[uris[j]] # Owner[uris[i]]}
            firsts == Chosen(all, S)
            owners == [i \in 1 .. Len(firsts) |-> Owner[uris[firsts[i]]]]
<1>1. /\ n \in Nat /\ all \in Seq(1 .. n) /\ ToSet(all) = 1 .. n
      /\ ToSet(uris) = {uris[i] : i \in 1 .. n}
  BY ToSetOf DEF ToSet
<1>2. firsts \in Seq(1 .. n) /\ ToSet(firsts) = S
  <2>. HIDE DEF all, S
  <2>1. firsts \in Seq(1 .. n) /\ ToSet(firsts) = ToSet(all) \intersect S
    BY <1>1, ChosenAre, ChosenType
  <2>2. S \subseteq 1 .. n
    BY DEF S
  <2>. QED BY <1>1, <2>1, <2>2
<1>3. OwnersOf(uris) = owners
  BY DEF OwnersOf
<1>. HIDE DEF firsts, all
<1>4. /\ Len(firsts) \in Nat /\ DOMAIN firsts = 1 .. Len(firsts)
      /\ S = {firsts[i] : i \in 1 .. Len(firsts)}
  <2>. HIDE DEF S
  <2>. QED BY <1>2, ToSetOf
<1>5. \A i \in 1 .. n : \E j \in S : Owner[uris[j]] = Owner[uris[i]]
  <2>. TAKE i \in 1 .. n
  <2>. DEFINE same == {j \in 1 .. n : Owner[uris[j]] = Owner[uris[i]]}
  <2>1. same \subseteq Nat /\ i \in same
    BY <1>1
  <2>2. PICK j \in same : \A k \in same : j <= k
    BY <2>1, LeastExists
  <2>3. j \in S
    <3>1. j \in 1 .. n
      BY <2>2
    <3>2. ASSUME NEW k \in 1 .. j - 1 PROVE Owner[uris[k]] # Owner[uris[j]]
      <4>1. k \in 1 .. n /\ ~(j <= k)
        BY <1>1, <3>1
      <4>. QED BY <2>2, <4>1
    <3>. QED BY <3>1, <3>2
  <2>. QED BY <2>2, <2>3
<1>6. ToSet(owners) = {Owner[uris[j]] : j \in S}
  <2>1. ToSet(owners) = {owners[i] : i \in 1 .. Len(firsts)}
    BY <1>4 DEF ToSet
  <2>2. \A i \in 1 .. Len(firsts) : owners[i] = Owner[uris[firsts[i]]]
    OBVIOUS
  <2>. HIDE DEF owners, S
  <2>. QED BY <1>4, <2>1, <2>2
<1>. HIDE DEF owners
<1>7. ToSet(owners) = {Owner[u] : u \in ToSet(uris)}
  <2>1. \A j \in S : j \in 1 .. n
    OBVIOUS
  <2>. HIDE DEF S
  <2>2. ToSet(owners) \subseteq {Owner[u] : u \in ToSet(uris)}
    BY <1>1, <1>6, <2>1
  <2>3. {Owner[u] : u \in ToSet(uris)} \subseteq ToSet(owners)
    BY <1>1, <1>5, <1>6
  <2>. QED BY <2>2, <2>3
<1>. QED BY <1>3, <1>7

\* Who is asked for what.
LEMMA ConcernedOf ==
    ASSUME NEW call, call.uris \in Seq(Uris), NEW asked \in Concerned(call)
    PROVE  /\ asked \in Seq(ToSet(asked))
           /\ call.op \in Mappings => asked = OwnersOf(call.uris)
           /\ call.op = "search" =>
                 /\ asked = IF call.uris = << >> THEN Chosen(Order, Others \union {"stream"})
                            ELSE OwnersOf(call.uris)
                 /\ ToSet(asked) \subseteq Others \union {"stream"}
           /\ call.op = "save" => ToSet(asked) \subseteq Others \union {"m3u"}
           /\ call.op \in {"roots", "get_distinct", "as_list"} =>
                 Others \subseteq ToSet(asked) /\ ToSet(asked) \subseteq ToSet(Order)
<1>1. asked \in Seq(ToSet(asked))
  BY ConcernedAre
<1>2. call.op \in Mappings => asked = OwnersOf(call.uris)
  BY DEF Concerned, Mappings
<1>3. Order \in Seq(ToSet(Order))
  BY OrderAssumption
<1>4. ASSUME call.op \in {"roots", "get_distinct"}
      PROVE  Others \subseteq ToSet(asked) /\ ToSet(asked) \subseteq ToSet(Order)
  <2>1. \E S : Others \subseteq S /\ asked = Chosen(Order, S)
    BY <1>4 DEF Concerned, WithLibraryBrowse, WithLibrary
  <2>. QED BY <1>3, <2>1, ChosenAre DEF Others
<1>5. /\ ToSet(WithLibrary) \subseteq Others \union {"stream"}
      /\ WithPlaylists \in Seq(ToSet(Order))
      /\ ToSet(WithPlaylists) = ToSet(Order) \intersect (Others \union {"m3u"})
  <2>1. \A S : Chosen(Order, S) \in Seq(ToSet(Order))
               /\ ToSet(Chosen(Order, S)) = ToSet(Order) \intersect S
    BY <1>3, ChosenAre, ChosenType
  <2>. QED BY <2>1 DEF WithLibrary, WithPlaylists
<1>6. ASSUME call.op = "search"
      PROVE  /\ asked = IF call.uris = << >> THEN WithLibrary ELSE OwnersOf(call.uris)
             /\ ToSet(asked) \subseteq Others \union {"stream"}
  <2>1. asked = IF call.uris = << >> THEN WithLibrary ELSE OwnersOf(call.uris)
    BY <1>6 DEF Concerned
  <2>2. ToSet(OwnersOf(call.uris)) = {Owner[u] : u \in ToSet(call.uris)}
    BY OwnersAre
  <2>3. \A u \in ToSet(call.uris) : Owner[u] \in Others \union {"stream"}
    BY ToSetOf, OrderAssumption DEF Others
  <2>. QED BY <1>5, <2>1, <2>2, <2>3
<1>7. ASSUME call.op = "save" PROVE ToSet(asked) \subseteq Others \union {"m3u"}
  <2>1. asked = Chosen(WithPlaylists, {call.scheme})
    BY <1>7 DEF Concerned
  <2>. QED BY <1>5, <2>1, ChosenAre
<1>8. ASSUME call.op = "as_list"
      PROVE  Others \subseteq ToSet(asked) /\ ToSet(asked) \subseteq ToSet(Order)
  <2>. DEFINE S == ToSet(WithPlaylists)
              n == Cardinality(S)
  <2>1. asked \in SetToSeqs(S)
    BY <1>8 DEF Concerned
  <2>2. IsFiniteSet(S) /\ n \in Nat
    BY <1>5, ToSetFinite
  <2>3. asked \in Injection(1 .. n, S)
    <3>1. asked \in [1 .. n -> S] /\ \A i, j \in 1 .. n : i # j => asked[i] # asked[j]
      BY <2>1 DEF SetToSeqs
    <3>. HIDE DEF n, S
    <3>. QED BY <3>1 DEF Injection, IsInjective
  <2>4. Cardinality(1 .. n) = n
    <3>. HIDE DEF n, S
    <3>1. Cardinality(1 .. n) = IF 1 > n THEN 0 ELSE n - 1 + 1
      BY <2>2, FS_Interval
    <3>. QED BY <2>2, <3>1
  <2>5. asked \in Surjection(1 .. n, S)
    BY <2>2, <2>3, <2>4, FS_Injection
  <2>6. S \subseteq ToSet(asked) /\ ToSet(asked) \subseteq S
    <3>1. /\ DOMAIN asked = 1 .. n /\ \A b \in S : \E i \in 1 .. n : asked[i] = b
          /\ \A i \in 1 .. n : asked[i] \in S
      BY <2>5 DEF Surjection
    <3>. HIDE DEF n, S
    <3>. QED BY <3>1 DEF ToSet
  <2>. QED BY <1>5, <2>6 DEF Others
<1>. QED BY <1>1, <1>2, <1>4, <1>6, <1>7, <1>8 DEF WithLibrary

-----------------------------------------------------------------------------
(* The order of the backends. *)

\* What the order in a call says of each two backends.
Precedes(call) ==
    {pair \in ToSet(Order) \X ToSet(Order) : ComesBefore(call, pair[1], pair[2])}

\* The owners of URIs are asked in their order.
LEMMA OwnersInOrder ==
    ASSUME NEW call, call.uris \in Seq(Uris), call.uris # << >>
    PROVE  IsSortedBy(OwnersOf(call.uris), Precedes(call))
<1>. DEFINE uris == call.uris
            n == Len(uris)
            all == [i \in 1 .. n |-> i]
            S == {i \in 1 .. n : \A j \in 1 .. i - 1 : Owner[uris[j]] # Owner[uris[i]]}
            firsts == Chosen(all, S)
            owners == [i \in 1 .. Len(firsts) |-> Owner[uris[firsts[i]]]]
            R == {pair \in Nat \X Nat : pair[1] < pair[2]}
<1>1. /\ uris \in Seq(Uris) /\ n \in Nat /\ DOMAIN uris = 1 .. n /\ uris # << >>
      /\ all \in Seq(1 .. n) /\ IsSortedBy(all, R)
  BY DEF IsSortedBy
<1>2. Sources(call) = [i \in 1 .. n |-> Owner[uris[i]]]
  BY <1>1 DEF Sources
<1>3. OwnersOf(uris) = owners
  BY DEF OwnersOf
<1>4. firsts \in Seq(1 .. n) /\ ToSet(firsts) \subseteq S /\ IsSortedBy(firsts, R)
  <2>. HIDE DEF all, S, R, n, uris
  <2>. QED BY <1>1, ChosenSorted, ChosenIn
<1>. HIDE DEF firsts, all, S, uris, n
<1>5. Len(firsts) \in Nat /\ \A i \in 1 .. Len(firsts) : firsts[i] \in 1 .. n /\ firsts[i] \in S
  <2>1. ToSet(firsts) = {firsts[i] : i \in 1 .. Len(firsts)}
    BY <1>4, ToSetOf
  <2>2. \A i \in 1 .. Len(firsts) : firsts[i] \in S
    BY <1>4, <2>1
  <2>3. firsts \in Seq(1 .. n)
    BY <1>4
  <2>4. Len(firsts) \in Nat /\ \A i \in 1 .. Len(firsts) : firsts[i] \in 1 .. n
    BY <1>1, <2>3
  <2>. QED BY <2>2, <2>4
<1>6. \A i \in 1 .. n : Owner[uris[i]] \in ToSet(Order)
  BY <1>1, OrderAssumption
<1>7. ASSUME NEW i \in 1 .. Len(firsts), NEW j \in 1 .. Len(firsts), i < j
      PROVE  <<Owner[uris[firsts[i]]], Owner[uris[firsts[j]]]>> \in Precedes(call)
  <2>1. firsts[i] < firsts[j] /\ firsts[i] \in 1 .. n /\ firsts[j] \in 1 .. n
    BY <1>4, <1>5, <1>7 DEF IsSortedBy
  <2>2. \A k \in 1 .. firsts[j] - 1 : Owner[uris[k]] # Owner[uris[firsts[j]]]
    BY <1>5 DEF S
  <2>3. \A k \in 1 .. firsts[i] : k \in 1 .. firsts[j] - 1 /\ k \in 1 .. n
    BY <1>1, <2>1
  <2>4. \A k \in 1 .. firsts[i] : Sources(call)[k] # Owner[uris[firsts[j]]]
    BY <1>2, <2>2, <2>3
  <2>5. ComesBefore(call, Owner[uris[firsts[i]]], Owner[uris[firsts[j]]])
    BY <1>2, <2>1, <2>4 DEF ComesBefore
  <2>. QED BY <1>6, <2>1, <2>5 DEF Precedes
<1>8. Len(owners) = Len(firsts)
  BY <1>5
<1>9. IsSortedBy(owners, Precedes(call))
  BY <1>5, <1>7, <1>8 DEF IsSortedBy
<1>. QED BY <1>3, <1>9 DEF uris

\* Without URIs, backends are asked as they were registered.
LEMMA RegisteredInOrder ==
    ASSUME NEW call, call.uris = << >>, NEW S
    PROVE  IsSortedBy(Chosen(Order, S), Precedes(call))
<1>1. /\ Order \in Seq(ToSet(Order)) /\ IsInjective(Order) /\ DOMAIN Order = 1 .. Len(Order)
      /\ Len(Order) \in Nat
  BY OrderAssumption
<1>2. IsSortedBy(Order, Precedes(call))
  <2>. SUFFICES ASSUME NEW i \in 1 .. Len(Order), NEW j \in 1 .. Len(Order), i < j
                PROVE  <<Order[i], Order[j]>> \in Precedes(call)
    BY DEF IsSortedBy
  <2>1. \A k \in 1 .. i : k \in 1 .. Len(Order) /\ k # j
    BY <1>1
  <2>2. \A k \in 1 .. i : Order[k] # Order[j]
    BY <1>1, <2>1 DEF IsInjective
  <2>3. ComesBefore(call, Order[i], Order[j])
    BY <1>1, <2>2 DEF ComesBefore, Sources
  <2>. QED BY <1>1, <2>3 DEF Precedes
<1>. QED BY <1>1, <1>2, ChosenSorted

\* Whom the call is for is asked, if it can be.
LEMMA AskedIsFor ==
    ASSUME NEW call, call.uris \in Seq(Uris), NEW asked \in Concerned(call), NEW b
    PROVE  /\ call.uris = << >> => (IsFor(call, b) <=> b \in ToSet(Order))
           /\ call.op \in Mappings /\ call.uris # << >> => (IsFor(call, b) <=> b \in ToSet(asked))
           /\ call.op = "search" /\ b \in Others => (IsFor(call, b) <=> b \in ToSet(asked))
<1>1. call.uris = << >> => (IsFor(call, b) <=> b \in ToSet(Order))
  BY DEF IsFor, Sources, ToSet
<1>2. ASSUME call.uris # << >>
      PROVE  IsFor(call, b) <=> b \in ToSet(OwnersOf(call.uris))
  <2>1. /\ DOMAIN call.uris = 1 .. Len(call.uris)
        /\ ToSet(call.uris) = {call.uris[i] : i \in 1 .. Len(call.uris)}
    BY ToSetOf
  <2>2. Sources(call) = [i \in 1 .. Len(call.uris) |-> Owner[call.uris[i]]]
    BY <1>2, <2>1 DEF Sources
  <2>3. IsFor(call, b) <=> \E i \in 1 .. Len(call.uris) : Owner[call.uris[i]] = b
    BY <2>2 DEF IsFor
  <2>4. ToSet(OwnersOf(call.uris)) = {Owner[u] : u \in ToSet(call.uris)}
    BY OwnersAre
  <2>. QED BY <2>1, <2>3, <2>4
<1>3. call.op = "search" /\ call.uris = << >> =>
          ToSet(asked) = ToSet(Order) \intersect (Others \union {"stream"})
  BY ConcernedOf, OrderAssumption, ChosenAre
<1>. QED BY <1>1, <1>2, <1>3, ConcernedOf DEF Others

\* They are asked in the order of the call.
LEMMA AskedInOrder ==
    ASSUME NEW call, call.uris \in Seq(Uris), NEW asked \in Concerned(call),
           call.op = "search" \/ (call.op \in Mappings /\ call.uris # << >>)
    PROVE  asked \in Seq(ToSet(Order)) /\ IsSortedBy(asked, Precedes(call))
<1>1. CASE call.uris = << >>
  <2>1. asked = Chosen(Order, Others \union {"stream"})
    BY <1>1, ConcernedOf
  <2>. QED BY <1>1, <2>1, RegisteredInOrder, OrderAssumption, ChosenType
<1>2. CASE call.uris # << >>
  <2>1. asked = OwnersOf(call.uris)
    BY <1>2, ConcernedOf
  <2>. QED BY <1>2, <2>1, OwnersInOrder, OwnersType
<1>. QED BY <1>1, <1>2

\* Some of those who were asked, in the order they were.
LEMMA ListedInOrder ==
    ASSUME NEW call, NEW asked \in Seq(ToSet(Order)), IsSortedBy(asked, Precedes(call)),
           NEW some, some \subseteq ToSet(asked)
    PROVE  ListsInOrder(call, Chosen(asked, some), some)
<1>. DEFINE seq == Chosen(asked, some)
<1>1. seq \in Seq(ToSet(Order)) /\ ToSet(seq) = some /\ IsSortedBy(seq, Precedes(call))
  <2>1. seq \in Seq(ToSet(Order)) /\ ToSet(seq) = ToSet(asked) \intersect some
    BY ChosenAre, ChosenType
  <2>2. IsSortedBy(seq, Precedes(call))
    BY ChosenSorted
  <2>. QED BY <2>1, <2>2
<1>. HIDE DEF seq
<1>2. DOMAIN seq = 1 .. Len(seq) /\ {seq[i] : i \in DOMAIN seq} = some
  BY <1>1, ToSetOf
<1>3. \A i, j \in DOMAIN seq : i < j => ComesBefore(call, seq[i], seq[j])
  BY <1>1, <1>2 DEF IsSortedBy, Precedes
<1>4. ListsInOrder(call, seq, some)
  BY <1>2, <1>3 DEF ListsInOrder
<1>. QED BY <1>4 DEF seq

-----------------------------------------------------------------------------
(* Failures stay apart. *)

\* The backends whose answers core has taken.
Taken == [i \in 1 .. job.next - 1 |-> job.asked[i]]

\* Core asks whom the call is for.
CallIsSound ==
    ~IsIdle =>
        /\ job.call.uris \in Seq(Uris) /\ job.asked \in Concerned(job.call)
        /\ job.call.op \in {"roots", "get_distinct", "as_list"} => job.call.uris = << >>

\* Another backend has not answered, or as it does.
OthersGive ==
    \A b \in Others \intersect ToSet(job.asked) :
        job.answers[b] \in {Pending, OtherAnswer(b, setting.behaves[b])}

\* Items are for the URIs, one for each.
AreFor(items, uris) ==
    /\ Len(items) = Len(uris)
    /\ \A i \in 1 .. Len(uris) : items[i].uri = uris[i]

\* The stream backend works on what it was asked for: what it has found is for the
\* first of its URIs, and what is left are the others.
StreamWorks ==
    /\ DOMAIN stream = DOMAIN NoTask
    /\ stream.task = "none" => stream.left = << >>
    /\ search.at # "none" => stream.left # << >>
    /\ stream.task # "none" =>
          IsWaitedFor("stream") /\ job.call.op \in {"lookup_uris", "translate"}
    /\ stream.task # "none" /\ job.call.op = "lookup_uris" =>
          LET own == OwnUris("stream")
              n == Len(stream.tracks)
          IN  /\ stream.left \in Seq(Uris) /\ stream.tracks \in Seq(ToSet(stream.tracks))
              /\ n + Len(stream.left) = Len(own)
              /\ \A i \in 1 .. n : stream.tracks[i].uri = own[i]
              /\ \A i \in 1 .. Len(stream.left) : stream.left[i] = own[n + i]

\* It gives nothing, or something for each of its URIs.
StreamGives ==
    "stream" \in ToSet(job.asked) =>
        LET answer == job.answers["stream"]
        IN  /\ answer.kind \in {"pending", "none", "value"}
            /\ answer.kind = "pending" => answer = Pending
            /\ answer.kind = "none" => job.call.op # "lookup_uris" /\ answer.items = << >>
            /\ answer.kind = "value" => job.call.op \in {"lookup_uris", "translate"}
            /\ answer.kind = "value" /\ job.call.op = "lookup_uris" =>
                  /\ answer.items \in Seq(ToSet(answer.items))
                  /\ AreFor(answer.items, OwnUris("stream"))
                  /\ \A i \in 1 .. Len(answer.items) : answer.items[i].isValid

\* A mapping has for a URI what these backends gave, with some of them givers.
IsSoFar(op, value, backends, givers) ==
    IF op = "get_images" THEN value = Chosen(backends, givers)
    ELSE \/ value = << >> /\ ToSet(backends) \intersect givers = {}
         \/ \E k \in 1 .. Len(backends) :
               /\ backends[k] \in givers
               /\ \A j \in k + 1 .. Len(backends) : backends[j] \notin givers
               /\ Len(value) = 1
               /\ backends[k] \in Others => value = <<backends[k]>>

\* What was given so far is at the URIs of the call.
MapIsRight ==
    job.call.op \in Mappings =>
        \A u \in ToSet(job.call.uris) :
            /\ u \in DOMAIN job.result.map
            /\ IsSoFar(job.call.op, job.result.map[u], Taken, Givers(setting.behaves, job.call, u))

\* Who was asked and gave something is in the result.
FromIsRight ==
    /\ job.result.from \in Seq(ToSet(job.asked))
    /\ job.next \in 1 .. Len(job.asked) + 1
    /\ job.call.op \in {"roots", "get_distinct", "as_list"} =>
          ToSet(job.result.from) \ {"m3u"}
              = ToSet(Taken) \intersect Answerers(setting.behaves, job.call)
    /\ job.call.op = "search" =>
          /\ job.result.from = Chosen(Taken, Answerers(setting.behaves, job.call))
          /\ \A b \in ToSet(Taken) \intersect Others : setting.behaves[b] # "lookup_error"

\* What is left to happen is part of what was there at the start.
SettingIsSound ==
    /\ DOMAIN setting = {"calls", "behaves", "files", "faults", "crashes", "web"}
    /\ \E s \in Settings : setting.calls \in Seq(ToSet(s.calls)) /\ setting.behaves = s.behaves

\* The inductive invariant.
ApartInv ==
    /\ SettingIsSound
    /\ CallIsSound /\ OthersGive /\ StreamWorks /\ StreamGives /\ MapIsRight /\ FromIsRight
    /\ FailuresStayApart
-----------------------------------------------------------------------------
(* What is in an answer, and what core makes of it. *)

\* Core takes an item.
IsTaken(call, item) ==
    item.isValid /\ (call.op = "get_images" => item.uri \in ToSet(call.uris))

\* Core takes the items up to one that is not as it should be.
LEMMA ValidOnes ==
    ASSUME NEW call, NEW X, NEW items \in Seq(X), NEW v, v = ValidItems(call, items)
    PROVE  /\ v \in Seq(X) /\ Len(v) <= Len(items)
           /\ \A i \in 1 .. Len(v) :
                 i \in 1 .. Len(items) /\ v[i] = items[i] /\ IsTaken(call, items[i])
           /\ \A i \in 1 .. Len(items) :
                 (\A j \in 1 .. i : IsTaken(call, items[j])) => i \in 1 .. Len(v)
<1>. DEFINE IsBad(i) == ~items[i].isValid
                        \/ (call.op = "get_images" /\ items[i].uri \notin ToSet(call.uris))
            bad == {i \in DOMAIN items : IsBad(i)}
            first == CHOOSE i \in bad : \A j \in bad : i <= j
<1>1. Len(items) \in Nat /\ DOMAIN items = 1 .. Len(items)
  OBVIOUS
<1>2. v = IF bad = {} THEN items ELSE SubSeq(items, 1, first - 1)
  BY DEF ValidItems
<1>3. \A i \in 1 .. Len(items) : i \in bad <=> ~IsTaken(call, items[i])
  BY <1>1 DEF IsTaken
<1>4. CASE bad # {}
  <2>1. bad \subseteq Nat
    BY <1>1
  <2>2. first \in bad /\ \A j \in bad : first <= j
    <3>. HIDE DEF bad
    <3>. QED BY <1>4, <2>1, LeastExists
  <2>3. first \in 1 .. Len(items)
    BY <1>1, <2>2
  <2>. HIDE DEF bad, first
  <2>4. /\ first - 1 \in Nat /\ first - 1 <= Len(items)
        /\ \A i \in 1 .. first - 1 : i \in 1 .. Len(items) /\ items[i] \in X /\ i \notin bad
    BY <1>1, <2>2, <2>3
  <2>5. /\ SubSeq(items, 1, first - 1) \in Seq(X) /\ Len(SubSeq(items, 1, first - 1)) = first - 1
        /\ \A i \in 1 .. first - 1 : SubSeq(items, 1, first - 1)[i] = items[i]
    BY <1>1, <2>4, SubSeqProperties
  <2>6. v = SubSeq(items, 1, first - 1)
    BY <1>2, <1>4
  <2>7. ASSUME NEW i \in 1 .. Len(items), \A j \in 1 .. i : IsTaken(call, items[j])
        PROVE  i \in 1 .. first - 1
    <3>1. ~(first \in 1 .. i)
      BY <1>3, <2>2, <2>3, <2>7
    <3>. QED BY <1>1, <2>3, <3>1
  <2>. QED BY <1>3, <2>4, <2>5, <2>6, <2>7
<1>5. CASE bad = {}
  <2>1. v = items /\ \A i \in 1 .. Len(items) : IsTaken(call, items[i])
    BY <1>2, <1>3, <1>5
  <2>. QED BY <1>1, <2>1
<1>. QED BY <1>4, <1>5

\* What no item is for stays as it is.
LEMMA UntouchedAt ==
    ASSUME NEW call, NEW map, NEW u \in DOMAIN map, NEW X, NEW items \in Seq(X)
    PROVE  /\ u \in DOMAIN Updated(call, map, items)
           /\ (\A i \in 1 .. Len(items) : items[i].uri # u) =>
                 Updated(call, map, items)[u] = map[u]
<1>. DEFINE S == {item \in ToSet(items) : item.uri = u}
<1>1. ToSet(items) = {items[i] : i \in 1 .. Len(items)}
  BY ToSetOf
<1>2. /\ u \in DOMAIN Updated(call, map, items)
      /\ Chosen(items, S) = << >> => Updated(call, map, items)[u] = map[u]
  BY DEF Updated
<1>3. ASSUME \A i \in 1 .. Len(items) : items[i].uri # u
      PROVE  Chosen(items, S) = << >>
  <2>1. S = {}
    BY <1>1, <1>3
  <2>. HIDE DEF S
  <2>. QED BY <2>1, ChosenNone
<1>. QED BY <1>2, <1>3

\* A sequence of one, for facts that are cited with it closed.
Just(x) == <<x>>

\* What some item is for is put in its place, or added to what was there.
LEMMA TouchedAt ==
    ASSUME NEW call, NEW map, NEW X, NEW items \in Seq(X), NEW i \in 1 .. Len(items),
           NEW u \in DOMAIN map, items[i].uri = u
    PROVE  \E k \in 1 .. Len(items) :
              Updated(call, map, items)[u]
                  = IF call.op = "get_images" THEN Append(map[u], items[k].what)
                    ELSE Just(items[k].what)
<1>. DEFINE S == {item \in ToSet(items) : item.uri = u}
            of == Chosen(items, S)
            what == of[Len(of)].what
<1>1. ToSet(items) = {items[k] : k \in 1 .. Len(items)}
  BY ToSetOf
<1>2. Updated(call, map, items)[u] =
          IF of = << >> THEN map[u]
          ELSE IF call.op = "get_images" THEN Append(map[u], what) ELSE <<what>>
  BY DEF Updated
<1>3. of \in Seq(X) /\ items[i] \in ToSet(of) /\ ToSet(of) \subseteq ToSet(items)
  <2>1. items[i] \in ToSet(items) /\ items[i] \in S
    BY <1>1
  <2>. HIDE DEF S
  <2>. QED BY <2>1, ChosenAre, ChosenType
<1>. HIDE DEF of
<1>4. of # << >> /\ of[Len(of)] \in ToSet(items)
  <2>1. Len(of) \in Nat /\ ToSet(of) = {of[k] : k \in 1 .. Len(of)}
    BY <1>3, ToSetOf
  <2>2. 1 .. Len(of) # {}
    BY <1>3, <2>1
  <2>3. Len(of) \in 1 .. Len(of) /\ of # << >>
    BY <2>1, <2>2
  <2>. QED BY <1>3, <2>1, <2>3
<1>5. PICK k \in 1 .. Len(items) : what = items[k].what
  BY <1>1, <1>4
<1>. HIDE DEF what
<1>6. Updated(call, map, items)[u] = IF call.op = "get_images" THEN Append(map[u], what)
                                     ELSE Just(what)
  BY <1>2, <1>4 DEF Just
<1>. QED BY <1>5, <1>6

\* The URIs a backend is asked for are those it owns.
LEMMA OwnOnes ==
    ASSUME job.call.uris \in Seq(Uris), NEW b, NEW own, own = OwnUris(b)
    PROVE  /\ own \in Seq(Uris) /\ DOMAIN own = 1 .. Len(own) /\ Len(own) \in Nat
           /\ \A i \in 1 .. Len(own) : own[i] \in ToSet(job.call.uris) /\ Owner[own[i]] = b
           /\ \A u \in ToSet(job.call.uris) : Owner[u] = b => \E i \in 1 .. Len(own) : own[i] = u
<1>1. /\ own \in Seq(Uris)
      /\ ToSet(own) = ToSet(job.call.uris) \intersect {u \in Uris : Owner[u] = b}
  BY ChosenAre, ChosenType DEF OwnUris
<1>2. ToSet(own) = {own[i] : i \in 1 .. Len(own)} /\ ToSet(job.call.uris) \subseteq Uris
  BY <1>1, ToSetOf
<1>. QED BY <1>1, <1>2

\* The first URI of the backend in the call.
IsFirstOf(call, b, uri) ==
    \E i \in DOMAIN call.uris :
        call.uris[i] = uri /\ \A j \in 1 .. i - 1 : Owner[call.uris[j]] # b

\* The first of them is the first that the call names.
LEMMA FirstOwn ==
    ASSUME job.call.uris \in Seq(Uris), NEW b, NEW own, own = OwnUris(b),
           NEW u \in ToSet(job.call.uris)
    PROVE  (own # << >> /\ own[1] = u) <=> (Owner[u] = b /\ IsFirstOf(job.call, b, u))
<1>. DEFINE uris == job.call.uris
            S == {x \in Uris : Owner[x] = b}
            n == Len(uris)
<1>1. /\ n \in Nat /\ DOMAIN uris = 1 .. n /\ own = Chosen(uris, S)
      /\ \A i \in 1 .. n : uris[i] \in Uris
      /\ ToSet(uris) = {uris[i] : i \in 1 .. n}
  BY ToSetOf DEF OwnUris
<1>2. own # << >> =>
          \E i \in 1 .. n : uris[i] = own[1] /\ \A j \in 1 .. i - 1 : uris[j] \notin S
  <2>. HIDE DEF S
  <2>. QED BY <1>1, ChosenFirst
<1>3. \A i \in 1 .. n : \A j \in 1 .. i - 1 : j \in 1 .. n
  BY <1>1
<1>4. own # << >> =>
          \E i \in 1 .. n : uris[i] = own[1] /\ \A j \in 1 .. i - 1 : Owner[uris[j]] # b
  BY <1>1, <1>2, <1>3
<1>5. /\ DOMAIN own = 1 .. Len(own) /\ Len(own) \in Nat
      /\ \A i \in 1 .. Len(own) : Owner[own[i]] = b
      /\ Owner[u] = b => \E i \in 1 .. Len(own) : own[i] = u
      /\ own \in Seq(Uris)
  BY OwnOnes
<1>6. own # << >> => Owner[own[1]] = b
  <2>1. own # << >> => Len(own) # 0
    BY <1>5, EmptySeq
  <2>. QED BY <1>5, <2>1
<1>. HIDE DEF S, uris, n
<1>7. ASSUME own # << >>, own[1] = u
      PROVE  Owner[u] = b /\ \E i \in DOMAIN uris : uris[i] = u /\ \A j \in 1 .. i - 1 : Owner[uris[j]] # b
  BY <1>1, <1>4, <1>6, <1>7
<1>8. ASSUME Owner[u] = b, NEW i \in DOMAIN uris, uris[i] = u, \A j \in 1 .. i - 1 : Owner[uris[j]] # b
      PROVE  own # << >> /\ own[1] = u
  <2>1. own # << >>
    <3>1. Len(own) # 0
      BY <1>5, <1>8
    <3>. QED BY <1>5, <3>1
  <2>2. PICK k \in 1 .. n : uris[k] = own[1] /\ \A j \in 1 .. k - 1 : Owner[uris[j]] # b
    BY <1>4, <2>1
  <2>3. Owner[uris[k]] = b /\ Owner[uris[i]] = b
    BY <1>6, <1>8, <2>1, <2>2
  <2>4. i \in 1 .. n /\ ~(i < k) /\ ~(k < i)
    BY <1>1, <1>8, <2>2, <2>3
  <2>5. i = k
    BY <1>1, <2>4
  <2>. QED BY <1>8, <2>1, <2>2, <2>5
<1>. QED BY <1>7, <1>8 DEF uris, IsFirstOf

\* The ways in which another backend gives some of what it was asked for.
GivesItems(how) ==
    how \in {"good", "foreign"} \/ (how = "partial" /\ job.call.op \in Mappings)

\* What another backend gives.
LEMMA OtherItems ==
    ASSUME job.call.uris \in Seq(Uris), NEW b, NEW how,
           NEW answer, answer = OtherAnswer(b, how), NEW own, own = OwnUris(b)
    PROVE  /\ answer.items \in Seq(ToSet(answer.items)) /\ Len(own) \in Nat
           /\ GivesItems(how) => answer.kind = "value"
           /\ ~GivesItems(how) =>
                 answer.items = << >> /\ answer.kind = IF how = "partial" THEN "bad" ELSE how
           /\ \A i \in 1 .. Len(answer.items) : answer.items[i].what = b
           /\ GivesItems(how) =>
                 /\ Len(answer.items) = IF how = "foreign" THEN Len(own) + 1 ELSE Len(own)
                 /\ \A i \in 1 .. Len(own) : answer.items[i].uri = own[i]
           /\ how \in {"good", "foreign"} =>
                 \A i \in 1 .. Len(answer.items) : answer.items[i].isValid
           /\ GivesItems(how) /\ how = "partial" =>
                 \A i \in 1 .. Len(own) : answer.items[i].isValid <=> i = 1
           /\ how = "foreign" => answer.items[Len(own) + 1].uri = Foreign[b]
<1>. DEFINE good == Items(b, own)
            partial == [i \in DOMAIN good |-> [good[i] EXCEPT !.isValid = i = 1]]
            foreign == Append(good, Item(Foreign[b], TRUE, b))
            X == [uri : Uris \union {Foreign[b]}, isValid : BOOLEAN, what : {b}]
<1>1. own \in Seq(Uris) /\ DOMAIN own = 1 .. Len(own) /\ Len(own) \in Nat
  BY OwnOnes
<1>2. /\ good \in Seq(X) /\ Len(good) = Len(own) /\ DOMAIN good = 1 .. Len(own)
      /\ \A i \in 1 .. Len(own) :
            good[i].uri = own[i] /\ good[i].isValid /\ good[i].what = b
  BY <1>1 DEF Items, Item
<1>. HIDE DEF good
<1>3. /\ partial \in Seq(X) /\ Len(partial) = Len(own)
      /\ \A i \in 1 .. Len(own) :
            partial[i].uri = own[i] /\ partial[i].what = b /\ (partial[i].isValid <=> i = 1)
  <2>1. \A x \in X : \A v \in BOOLEAN :
            /\ [x EXCEPT !.isValid = v] \in X /\ [x EXCEPT !.isValid = v].uri = x.uri
            /\ [x EXCEPT !.isValid = v].what = x.what /\ [x EXCEPT !.isValid = v].isValid = v
    OBVIOUS
  <2>. HIDE DEF X
  <2>2. \A i \in 1 .. Len(own) : (i = 1) \in BOOLEAN /\ good[i] \in X
    <3>1. \A i \in 1 .. Len(own) : (i = 1) \in BOOLEAN
      BY Zenon
    <3>. QED BY <1>2, <3>1
  <2>3. \A i \in 1 .. Len(own) : [good[i] EXCEPT !.isValid = (i = 1)] \in X
    BY <2>1, <2>2
  <2>4. \A i \in 1 .. Len(own) :
            /\ [good[i] EXCEPT !.isValid = (i = 1)].uri = own[i]
            /\ [good[i] EXCEPT !.isValid = (i = 1)].what = b
            /\ [good[i] EXCEPT !.isValid = (i = 1)].isValid = (i = 1)
    BY <1>2, <2>1, <2>2
  <2>5. partial = [i \in 1 .. Len(own) |-> [good[i] EXCEPT !.isValid = (i = 1)]]
    BY <1>2
  <2>6. partial \in [1 .. Len(own) -> X]
    BY <2>3, <2>5
  <2>7. partial \in Seq(X) /\ Len(partial) = Len(own)
    <3>. HIDE DEF partial
    <3>. QED BY <1>1, <2>6
  <2>. QED BY <2>4, <2>5, <2>7
<1>4. /\ foreign \in Seq(X) /\ Len(foreign) = Len(own) + 1
      /\ \A i \in 1 .. Len(own) : foreign[i] = good[i]
      /\ foreign[Len(own) + 1].uri = Foreign[b] /\ foreign[Len(own) + 1].what = b
      /\ foreign[Len(own) + 1].isValid
  BY <1>1, <1>2 DEF Item
<1>. HIDE DEF partial, foreign
<1>5. CASE how = "good"
  <2>1. answer.items = good /\ answer.kind = "value"
    BY <1>5 DEF OtherAnswer, Answered, good
  <2>. QED BY <1>1, <1>2, <1>5, <2>1, SeqOfItsOwn DEF GivesItems
<1>6. CASE how = "partial" /\ job.call.op \in Mappings
  <2>1. answer.items = partial /\ answer.kind = "value"
    BY <1>6 DEF OtherAnswer, Answered, partial, good
  <2>. QED BY <1>1, <1>3, <1>6, <2>1, SeqOfItsOwn DEF GivesItems
<1>7. CASE how = "foreign"
  <2>1. answer.items = foreign /\ answer.kind = "value"
    BY <1>7 DEF OtherAnswer, Answered, foreign, good
  <2>2. \A i \in 1 .. Len(own) + 1 : i \in 1 .. Len(own) \/ i = Len(own) + 1
    BY <1>1
  <2>. QED BY <1>1, <1>2, <1>4, <1>7, <2>1, <2>2, SeqOfItsOwn DEF GivesItems
<1>8. CASE ~GivesItems(how)
  <2>1. answer.items = << >> /\ answer.kind = IF how = "partial" THEN "bad" ELSE how
    BY <1>8 DEF OtherAnswer, Answered, GivesItems
  <2>2. << >> \in Seq({}) /\ Len(<< >>) = 0
    OBVIOUS
  <2>. QED BY <1>1, <1>8, <2>1, <2>2, SeqOfItsOwn DEF GivesItems
<1>. QED BY <1>5, <1>6, <1>7, <1>8 DEF GivesItems

\* What b, behaving like this, has in an answer for these URIs.
HasItems(items, uris, b, how) ==
    /\ items \in Seq(ToSet(items))
    /\ ~GivesItems(how) => items = << >>
    /\ \A i \in 1 .. Len(items) : items[i].what = b
    /\ GivesItems(how) =>
          /\ Len(items) = IF how = "foreign" THEN Len(uris) + 1 ELSE Len(uris)
          /\ \A i \in 1 .. Len(uris) : items[i].uri = uris[i]
    /\ how \in {"good", "foreign"} => \A i \in 1 .. Len(items) : items[i].isValid
    /\ GivesItems(how) /\ how = "partial" =>
          \A i \in 1 .. Len(uris) : items[i].isValid <=> i = 1
    /\ how = "foreign" => items[Len(uris) + 1].uri = Foreign[b]

LEMMA AnswerItems ==
    ASSUME job.call.uris \in Seq(Uris), NEW b, NEW how
    PROVE  HasItems(OtherAnswer(b, how).items, OwnUris(b), b, how)
<1>1. \A answer, own :
          answer = OtherAnswer(b, how) /\ own = OwnUris(b) => HasItems(answer.items, own, b, how)
  BY OtherItems DEF HasItems
<1>. QED BY <1>1

-----------------------------------------------------------------------------
(* Core takes an answer. *)

\* The answer that core takes is that of one it asked.
LEMMA GotOf ==
    ASSUME KeptInv, ApartInv, HasGot, NEW b, b = Backend
    PROVE  /\ job.next \in 1 .. Len(job.asked) /\ Len(job.asked) \in Nat
           /\ b \in ToSet(job.asked) /\ Got = job.answers[b] /\ b = job.asked[job.next]
           /\ job.asked \in Seq(ToSet(job.asked))
           /\ job.call.uris \in Seq(Uris)
           /\ job.asked \in Concerned(job.call)
           /\ job.call.op \in {"roots", "get_distinct", "as_list"} => job.call.uris = << >>
           /\ b \in Others => Got = OtherAnswer(b, setting.behaves[b])
<1>1. /\ job.asked \in Seq(ToSet(job.asked)) /\ Len(job.asked) \in Nat
      /\ job.next \in 1 .. Len(job.asked)
  BY DEF KeptInv, JobIsSound, HasGot
<1>2. b = job.asked[job.next] /\ b \in ToSet(job.asked) /\ Got = job.answers[b]
  <2>1. ToSet(job.asked) = {job.asked[i] : i \in 1 .. Len(job.asked)}
    BY <1>1, ToSetOf
  <2>. QED BY <1>1, <2>1 DEF Backend, Got
<1>3. /\ job.call.uris \in Seq(Uris)
      /\ job.asked \in Concerned(job.call)
      /\ job.call.op \in {"roots", "get_distinct", "as_list"} => job.call.uris = << >>
  BY DEF ApartInv, CallIsSound, HasGot
<1>4. b \in Others => Got = OtherAnswer(b, setting.behaves[b])
  BY <1>2 DEF ApartInv, OthersGive, HasGot
<1>. QED BY <1>1, <1>2, <1>3, <1>4

\* Outside of mappings it is a value if it is one of somebody with an answer.
LEMMA GotValue ==
    ASSUME KeptInv, ApartInv, HasGot, NEW b, b = Backend, b # "m3u",
           job.call.op \in {"roots", "get_distinct", "as_list", "search"}
    PROVE  /\ IsValue(Got) <=> b \in Answerers(setting.behaves, job.call)
           /\ Got.kind = "lookup_error" <=> b \in Others /\ setting.behaves[b] = "lookup_error"
<1>. DEFINE how == setting.behaves[b]
<1>1. /\ b \in ToSet(job.asked) /\ Got = job.answers[b] /\ job.call.uris \in Seq(Uris)
      /\ job.asked \in Concerned(job.call) /\ job.asked \in Seq(ToSet(job.asked))
      /\ job.call.op \in {"roots", "get_distinct", "as_list"} => job.call.uris = << >>
      /\ b \in Others => Got = OtherAnswer(b, how)
  BY GotOf
<1>2. CASE b \in Others
  <2>1. IsFor(job.call, b)
    <3>1. ToSet(job.asked) \subseteq ToSet(Order) \/ job.call.op = "search"
      BY <1>1, ConcernedOf
    <3>. QED BY <1>1, <1>2, <3>1, AskedIsFor
  <2>2. how # "value"
    BY <1>2, BehavesAssumption DEF ApartInv, SettingIsSound, Others
  <2>3. /\ Got.items \in Seq(ToSet(Got.items))
        /\ GivesItems(how) => Got.kind = "value"
        /\ ~GivesItems(how) => Got.kind = IF how = "partial" THEN "bad" ELSE how
        /\ how \in {"good", "foreign"} => \A i \in 1 .. Len(Got.items) : Got.items[i].isValid
    BY <1>1, <1>2, OtherItems
  <2>4. GivesItems(how) <=> how \in {"good", "foreign"}
    BY DEF GivesItems, Mappings
  <2>5. DOMAIN Got.items = 1 .. Len(Got.items)
    BY <2>3
  <2>6. IsValue(Got) <=> how \in {"good", "foreign"}
    BY <2>2, <2>3, <2>4, <2>5 DEF IsValue
  <2>. QED BY <1>2, <2>1, <2>3, <2>4, <2>6 DEF Answerers
<1>3. CASE b \notin Others
  <2>1. b = "stream"
    <3>1. ToSet(job.asked) \subseteq ToSet(Order) \union {"stream"}
      BY <1>1, ConcernedOf DEF Others
    <3>. QED BY <1>1, <1>3, <3>1 DEF Others
  <2>2. Got.kind \in {"pending", "none"}
    BY <1>1, <2>1 DEF ApartInv, StreamGives
  <2>. QED BY <1>3, <2>2 DEF IsValue, Answerers
<1>. QED BY <1>2, <1>3

\* Core takes something for a URI of the call if it is from one who gives some.
LEMMA TakenItems ==
    ASSUME KeptInv, ApartInv, HasGot, job.call.op \in Mappings, NEW b, b = Backend,
           NEW items, items = ValidItems(job.call, Got.items), NEW u \in ToSet(job.call.uris)
    PROVE  /\ b \in Others \union {"stream"}
           /\ items \in Seq(ToSet(Got.items))
           /\ b \in Givers(setting.behaves, job.call, u) <=>
                 \E i \in 1 .. Len(items) : items[i].uri = u
           /\ b \in Others => \A i \in 1 .. Len(items) : items[i].what = b
<1>. DEFINE how == setting.behaves[b]
            call == job.call
            got == Got.items
            own == OwnUris(b)
            HasItem == \E i \in 1 .. Len(items) : items[i].uri = u
<1>1. /\ b \in ToSet(job.asked) /\ Got = job.answers[b]
      /\ call.uris \in Seq(Uris)
      /\ job.asked \in Concerned(call) /\ job.asked = OwnersOf(call.uris)
      /\ b \in Others => Got = OtherAnswer(b, how)
  BY GotOf, ConcernedOf
<1>2. b \in Others \union {"stream"}
  <2>1. OwnersOf(call.uris) \in Seq(ToSet(Order)) /\ "m3u" \notin ToSet(OwnersOf(call.uris))
    BY <1>1, OwnersType
  <2>2. ToSet(OwnersOf(call.uris)) \subseteq ToSet(Order)
    BY <2>1, ToSetOf
  <2>. QED BY <1>1, <2>1, <2>2 DEF Others
<1>3. /\ own \in Seq(Uris) /\ DOMAIN own = 1 .. Len(own) /\ Len(own) \in Nat
      /\ \A i \in 1 .. Len(own) : own[i] \in ToSet(call.uris) /\ Owner[own[i]] = b
      /\ Owner[u] = b => \E i \in 1 .. Len(own) : own[i] = u
  BY <1>1, OwnOnes
<1>4. IsFor(call, b)
  <2>1. call.uris # << >>
    BY DEF ToSet
  <2>. QED BY <1>1, <2>1, AskedIsFor
<1>5. /\ b \in Others => (b \in Givers(setting.behaves, call, u) <=> Gives(b, how, call, u))
      /\ b = "stream" => (b \in Givers(setting.behaves, call, u) <=>
                             call.op = "lookup_uris" /\ Owner[u] = "stream")
  BY <1>4 DEF Givers, Others
<1>6. /\ b = "stream" => Got.kind \in {"none", "value"}
      /\ b = "stream" /\ Got.kind = "none" => call.op # "lookup_uris" /\ got = << >>
      /\ b = "stream" /\ Got.kind = "value" =>
            /\ call.op = "lookup_uris" /\ got \in Seq(ToSet(got)) /\ AreFor(got, own)
            /\ \A i \in 1 .. Len(got) : got[i].isValid
  <2>1. b = "stream" => Got # Pending /\ StreamGives
    BY DEF ApartInv, HasGot
  <2>. QED BY <1>1, <2>1 DEF StreamGives, Mappings
<1>7. << >> \in Seq(ToSet(<< >>)) /\ Len(<< >>) = 0
  OBVIOUS
<1>8. b \in Others =>
          /\ got \in Seq(ToSet(got))
          /\ ~GivesItems(how) => got = << >>
          /\ \A i \in 1 .. Len(got) : got[i].what = b
          /\ GivesItems(how) =>
                /\ Len(got) = IF how = "foreign" THEN Len(own) + 1 ELSE Len(own)
                /\ \A i \in 1 .. Len(own) : got[i].uri = own[i]
          /\ how \in {"good", "foreign"} => \A i \in 1 .. Len(got) : got[i].isValid
          /\ GivesItems(how) /\ how = "partial" =>
                \A i \in 1 .. Len(own) : got[i].isValid <=> i = 1
          /\ how = "foreign" => got[Len(own) + 1].uri = Foreign[b]
  <2>1. b \in Others => HasItems(got, own, b, how)
    BY <1>1, AnswerItems
  <2>. HIDE DEF own, got, how, call
  <2>. QED BY <2>1 DEF HasItems
<1>9. got \in Seq(ToSet(got))
  BY <1>2, <1>6, <1>7, <1>8
<1>10. /\ items \in Seq(ToSet(got)) /\ Len(items) \in Nat
       /\ \A i \in 1 .. Len(items) :
             i \in 1 .. Len(got) /\ items[i] = got[i] /\ IsTaken(call, got[i])
       /\ \A i \in 1 .. Len(got) :
             (\A j \in 1 .. i : IsTaken(call, got[j])) => i \in 1 .. Len(items)
  <2>1. items \in Seq(ToSet(got)) => Len(items) \in Nat
    OBVIOUS
  <2>. QED BY <1>9, <2>1, ValidOnes
<1>11. (own # << >> /\ own[1] = u) <=> (Owner[u] = b /\ IsFirstOf(call, b, u))
  <2>. HIDE DEF own
  <2>1. own = OwnUris(b)
    BY DEF own
  <2>. QED BY <1>1, <2>1, FirstOwn
<1>. HIDE DEF got, own, call, how
<1>12. ASSUME NEW i \in 1 .. Len(own), i \in 1 .. Len(got), got[i].uri = own[i], got[i].isValid
       PROVE  IsTaken(call, got[i])
  BY <1>3, <1>12 DEF IsTaken
<1>13. ASSUME b \in Others, how = "good"
       PROVE  HasItem <=> Gives(b, how, call, u)
  <2>1. /\ Len(got) = Len(own)
        /\ \A i \in 1 .. Len(own) : got[i].uri = own[i] /\ got[i].isValid
    BY <1>8, <1>13 DEF GivesItems
  <2>2. \A i \in 1 .. Len(own) : i \in 1 .. Len(items)
    <3>. TAKE i \in 1 .. Len(own)
    <3>1. \A j \in 1 .. i : j \in 1 .. Len(own)
      BY <1>3
    <3>. QED BY <1>10, <1>12, <2>1, <3>1
  <2>. QED BY <1>3, <1>10, <1>13, <2>1, <2>2 DEF Gives
<1>14. ASSUME b \in Others, how = "partial"
       PROVE  HasItem <=> Gives(b, how, call, u)
  <2>1. /\ Len(got) = Len(own)
        /\ \A i \in 1 .. Len(own) : got[i].uri = own[i] /\ (got[i].isValid <=> i = 1)
    BY <1>8, <1>14 DEF GivesItems, call
  <2>2. own # << >> => 1 \in 1 .. Len(own)
    BY <1>3, EmptySeq
  <2>3. own # << >> => 1 \in 1 .. Len(items) /\ items[1].uri = own[1]
    <3>1. own # << >> => IsTaken(call, got[1])
      BY <1>12, <2>1, <2>2
    <3>2. \A j \in 1 .. 1 : j = 1
      OBVIOUS
    <3>. QED BY <1>10, <2>1, <2>2, <3>1, <3>2
  <2>4. \A i \in 1 .. Len(items) : i = 1 /\ own # << >>
    <3>. TAKE i \in 1 .. Len(items)
    <3>1. i \in 1 .. Len(own) /\ got[i].isValid
      BY <1>10, <2>1 DEF IsTaken
    <3>2. own # << >>
      BY <1>7, <3>1
    <3>. QED BY <2>1, <3>1, <3>2
  <2>5. HasItem <=> own # << >> /\ own[1] = u
    BY <2>3, <2>4
  <2>. QED BY <1>14, <1>11, <2>5 DEF Gives, IsFirstOf
<1>15. ASSUME b \in Others, how = "foreign"
       PROVE  HasItem <=> Gives(b, how, call, u)
  <2>. DEFINE n == Len(own)
  <2>1. /\ Len(got) = n + 1 /\ got[n + 1].uri = Foreign[b] /\ got[n + 1].isValid
        /\ \A i \in 1 .. n : got[i].uri = own[i] /\ got[i].isValid
        /\ \A i \in 1 .. n : i \in 1 .. n + 1
        /\ \A i \in 1 .. n + 1 : i \in 1 .. n \/ i = n + 1
    <3>1. /\ Len(got) = n + 1 /\ got[n + 1].uri = Foreign[b]
          /\ \A i \in 1 .. n : got[i].uri = own[i]
          /\ \A i \in 1 .. n + 1 : got[i].isValid
      BY <1>8, <1>15 DEF GivesItems
    <3>2. n + 1 \in 1 .. n + 1 /\ \A i \in 1 .. n : i \in 1 .. n + 1
      BY <1>3
    <3>3. \A i \in 1 .. n + 1 : i \in 1 .. n \/ i = n + 1
      BY <1>3
    <3>. QED BY <3>1, <3>2, <3>3
  <2>2. \A i \in 1 .. n : IsTaken(call, got[i]) /\ i \in 1 .. Len(items)
    <3>. TAKE i \in 1 .. n
    <3>1. \A j \in 1 .. i : j \in 1 .. n
      BY <1>3
    <3>. QED BY <1>10, <1>12, <2>1, <3>1
  <2>3. Foreign[b] = u => n + 1 \in 1 .. Len(items) /\ items[n + 1].uri = u
    <3>1. Foreign[b] = u => IsTaken(call, got[n + 1])
      BY <2>1 DEF IsTaken, call
    <3>2. n + 1 \in 1 .. Len(got)
      BY <1>3, <2>1
    <3>. QED BY <1>10, <2>1, <2>2, <3>1, <3>2
  <2>4. HasItem => Owner[u] = b \/ Foreign[b] = u
    BY <1>3, <1>10, <2>1
  <2>5. Owner[u] = b => HasItem
    BY <1>3, <1>10, <2>1, <2>2
  <2>. QED BY <1>15, <2>3, <2>4, <2>5 DEF Gives
<1>16. ASSUME b \in Others, how \notin {"good", "partial", "foreign"}
       PROVE  HasItem <=> Gives(b, how, call, u)
  <2>1. got = << >>
    BY <1>8, <1>16 DEF GivesItems
  <2>2. ~HasItem
    BY <1>7, <1>10, <2>1
  <2>. QED BY <1>16, <2>2 DEF Gives
<1>17. ASSUME b = "stream"
       PROVE  HasItem <=> call.op = "lookup_uris" /\ Owner[u] = "stream"
  <2>1. CASE Got.kind = "none"
    BY <1>6, <1>7, <1>10, <1>17, <2>1
  <2>2. CASE Got.kind = "value"
    <3>1. /\ call.op = "lookup_uris" /\ Len(got) = Len(own)
          /\ \A i \in 1 .. Len(own) : got[i].uri = own[i] /\ got[i].isValid
      BY <1>6, <1>17, <2>2 DEF AreFor
    <3>2. \A i \in 1 .. Len(own) : i \in 1 .. Len(items)
      <4>. TAKE i \in 1 .. Len(own)
      <4>1. \A j \in 1 .. i : j \in 1 .. Len(own)
        BY <1>3
      <4>. QED BY <1>10, <1>12, <3>1, <4>1
    <3>. QED BY <1>3, <1>10, <1>17, <3>1, <3>2
  <2>. QED BY <1>6, <1>17, <2>1, <2>2
<1>18. b \in Others => \A i \in 1 .. Len(items) : items[i].what = b
  BY <1>8, <1>10
<1>. HIDE DEF HasItem
<1>19. b \in Givers(setting.behaves, call, u) <=> HasItem
  BY <1>2, <1>5, <1>13, <1>14, <1>15, <1>16, <1>17
<1>. QED BY <1>2, <1>10, <1>18, <1>19 DEF HasItem, call, got

\* What core does when it takes an answer.
LEMMA GettingIs ==
    ASSUME KeptInv, CoreGets
    PROVE  /\ HasGot /\ ~IsRaised(job.call, Got)
           /\ UNCHANGED <<web, search, stream, m3u, files, setting, reply>>
           /\ job'.call = job.call /\ job'.asked = job.asked /\ job'.answers = job.answers
           /\ job'.result = Merged(job.call, job.result, Backend, Got)
           /\ job'.next = IF IsEnough(job.call, Got) THEN Len(job.asked) + 1 ELSE job.next + 1
           /\ DOMAIN job' = DOMAIN NoJob /\ DOMAIN job.result = DOMAIN Nothing
<1>1. DOMAIN job = DOMAIN NoJob /\ DOMAIN job.result = DOMAIN Nothing
  BY DEF KeptInv, JobIsSound
<1>. QED BY <1>1 DEF CoreGets, NoJob, mediaVars, m3uVars

\* One more answer is taken.
LEMMA OneMore ==
    ASSUME KeptInv, HasGot, job'.asked = job.asked, job'.next = job.next + 1
    PROVE  /\ Taken' = Append(Taken, Backend) /\ Taken \in Seq(ToSet(job.asked))
           /\ Backend \in ToSet(job.asked)
<1>. DEFINE n == job.next
            more == Append(Taken, Backend)
<1>1. /\ job.asked \in Seq(ToSet(job.asked)) /\ Len(job.asked) \in Nat
      /\ n \in 1 .. Len(job.asked) /\ DOMAIN job.asked = 1 .. Len(job.asked)
  BY DEF KeptInv, JobIsSound, HasGot
<1>2. /\ n - 1 \in Nat /\ n - 1 + 1 = n /\ job'.next - 1 = n
      /\ \A i \in 1 .. n - 1 : i \in 1 .. Len(job.asked)
  BY <1>1
<1>3. Taken \in Seq(ToSet(job.asked)) /\ Len(Taken) = n - 1 /\ \A i \in 1 .. n - 1 : Taken[i] = job.asked[i]
  <2>1. Taken = [i \in 1 .. n - 1 |-> job.asked[i]]
    BY DEF Taken
  <2>2. \A i \in 1 .. n - 1 : job.asked[i] \in ToSet(job.asked)
    BY <1>1, <1>2
  <2>. HIDE DEF n
  <2>. QED BY <1>2, <2>1, <2>2
<1>4. Backend = job.asked[n] /\ Backend \in ToSet(job.asked)
  BY <1>1 DEF Backend
<1>5. /\ more \in Seq(ToSet(job.asked)) /\ Len(more) = n /\ more[n] = job.asked[n]
      /\ \A i \in 1 .. n - 1 : more[i] = job.asked[i]
  BY <1>2, <1>3, <1>4
<1>6. more = [i \in 1 .. n |-> job.asked[i]]
  <2>1. \A i \in 1 .. n : i \in 1 .. n - 1 \/ i = n
    BY <1>1
  <2>. HIDE DEF more, n
  <2>2. more = [i \in 1 .. n |-> more[i]]
    BY <1>5
  <2>. QED BY <1>5, <2>1, <2>2
<1>7. Taken' = [i \in 1 .. n |-> job.asked[i]]
  BY <1>2 DEF Taken
<1>. QED BY <1>3, <1>4, <1>6, <1>7

\* Who gives nothing changes nothing.
LEMMA SoFarSame ==
    ASSUME NEW op, NEW value, NEW X, NEW backends \in Seq(X), NEW b \in X, NEW givers,
           IsSoFar(op, value, backends, givers), b \notin givers
    PROVE  IsSoFar(op, value, Append(backends, b), givers)
<1>. DEFINE more == Append(backends, b)
            n == Len(backends)
<1>1. /\ n \in Nat /\ Len(more) = n + 1 /\ more[n + 1] = b
      /\ \A i \in 1 .. n : more[i] = backends[i]
      /\ ToSet(more) = ToSet(backends) \union {b}
  BY WithOneMore
<1>2. Chosen(more, givers) = Chosen(backends, givers)
  BY ChosenOfAppend
<1>. HIDE DEF more
<1>3. ASSUME op # "get_images", NEW k \in 1 .. n,
             backends[k] \in givers, \A j \in k + 1 .. n : backends[j] \notin givers,
             Len(value) = 1, backends[k] \in Others => value = <<backends[k]>>
      PROVE  IsSoFar(op, value, more, givers)
  <2>1. k \in 1 .. n + 1 /\ more[k] = backends[k]
    BY <1>1
  <2>2. \A j \in k + 1 .. n + 1 : (j \in k + 1 .. n /\ j \in 1 .. n) \/ j = n + 1
    BY <1>1
  <2>3. \A j \in k + 1 .. n + 1 : more[j] \notin givers
    BY <1>1, <1>3, <2>2
  <2>. QED BY <1>1, <1>3, <2>1, <2>3 DEF IsSoFar
<1>4. IsSoFar(op, value, more, givers)
  BY <1>1, <1>2, <1>3 DEF IsSoFar
<1>. QED BY <1>4 DEF more

\* Who gives something has the last word so far.
LEMMA SoFarMore ==
    ASSUME NEW op, NEW value, NEW X, NEW backends \in Seq(X), NEW b \in X, NEW givers,
           IsSoFar(op, value, backends, givers), b \in givers, NEW new,
           op = "get_images" => new = Append(value, b),
           op # "get_images" => Len(new) = 1 /\ (b \in Others => new = <<b>>)
    PROVE  IsSoFar(op, new, Append(backends, b), givers)
<1>. DEFINE more == Append(backends, b)
            n == Len(backends)
<1>1. n \in Nat /\ Len(more) = n + 1 /\ more[n + 1] = b
  OBVIOUS
<1>2. Chosen(more, givers) = Append(Chosen(backends, givers), b)
  BY ChosenOfAppend
<1>. HIDE DEF more
<1>3. n + 1 \in 1 .. n + 1 /\ n + 1 + 1 .. n + 1 = {}
  BY <1>1
<1>4. IsSoFar(op, new, more, givers)
  BY <1>1, <1>2, <1>3 DEF IsSoFar
<1>. QED BY <1>4 DEF more

\* The mapping has what was given for each URI, and no more.
LEMMA MapGrows ==
    ASSUME KeptInv, ApartInv, CoreGets
    PROVE  MapIsRight'
<1>. DEFINE b == Backend
            items == ValidItems(job.call, Got.items)
            map == job.result.map
            new == job'.result.map
            op == job.call.op
<1>. SUFFICES ASSUME op \in Mappings, NEW u \in ToSet(job.call.uris)
              PROVE  /\ u \in DOMAIN new
                     /\ IsSoFar(op, new[u], Taken', Givers(setting.behaves, job.call, u))
  BY GettingIs DEF MapIsRight
<1>. DEFINE givers == Givers(setting.behaves, job.call, u)
<1>1. HasGot /\ job'.asked = job.asked /\ job'.next = job.next + 1
  BY GettingIs DEF IsEnough, Mappings
<1>2. new = Updated(job.call, map, items)
  BY GettingIs DEF Merged, Nothing
<1>3. u \in DOMAIN map /\ IsSoFar(op, map[u], Taken, givers)
  BY DEF ApartInv, MapIsRight
<1>4. Taken' = Append(Taken, b) /\ Taken \in Seq(ToSet(job.asked)) /\ b \in ToSet(job.asked)
  BY <1>1, OneMore
<1>5. /\ items \in Seq(ToSet(Got.items)) /\ b \in Others \union {"stream"}
      /\ b \in givers <=> \E i \in 1 .. Len(items) : items[i].uri = u
      /\ b \in Others => \A i \in 1 .. Len(items) : items[i].what = b
  BY <1>1, TakenItems
<1>6. op = "get_images" /\ b \in givers => b \in Others
  BY DEF Givers
<1>. HIDE DEF b, items, map, new, op, givers
<1>7. /\ u \in DOMAIN new
      /\ (\A i \in 1 .. Len(items) : items[i].uri # u) => new[u] = map[u]
  BY <1>2, <1>3, <1>5, UntouchedAt
<1>8. CASE b \notin givers
  <2>1. \A i \in 1 .. Len(items) : items[i].uri # u
    BY <1>5, <1>8
  <2>2. new[u] = map[u]
    BY <1>7, <2>1
  <2>3. IsSoFar(op, map[u], Append(Taken, b), givers)
    BY <1>3, <1>4, <1>8, SoFarSame
  <2>. QED BY <1>4, <1>7, <2>2, <2>3 DEF givers
<1>9. CASE b \in givers
  <2>1. PICK i \in 1 .. Len(items) : items[i].uri = u
    BY <1>5, <1>9
  <2>2. PICK k \in 1 .. Len(items) :
            new[u] = IF op = "get_images" THEN Append(map[u], items[k].what)
                     ELSE Just(items[k].what)
    BY <1>2, <1>3, <1>5, <2>1, TouchedAt DEF op
  <2>3. b \in Others => items[k].what = b
    BY <1>5
  <2>4. op # "get_images" => Len(new[u]) = 1 /\ (b \in Others => new[u] = <<b>>)
    BY <2>2, <2>3 DEF Just
  <2>5. op = "get_images" => new[u] = Append(map[u], b)
    BY <1>6, <1>9, <2>2, <2>3
  <2>6. IsSoFar(op, new[u], Append(Taken, b), givers)
    BY <1>3, <1>4, <1>9, <2>4, <2>5, SoFarMore
  <2>. QED BY <1>4, <1>7, <2>6 DEF givers
<1>. QED BY <1>8, <1>9 DEF new, op, givers

\* Who gave something is in the result, in the order they were asked.
LEMMA FromGrows ==
    ASSUME KeptInv, ApartInv, CoreGets
    PROVE  FromIsRight'
<1>. DEFINE b == Backend
            from == job.result.from
            new == job'.result.from
            op == job.call.op
            answerers == Answerers(setting.behaves, job.call)
<1>1. /\ job'.call = job.call /\ job'.asked = job.asked /\ setting' = setting /\ HasGot
      /\ ~IsRaised(job.call, Got)
      /\ job'.result = Merged(job.call, job.result, b, Got)
      /\ job'.next = IF IsEnough(job.call, Got) THEN Len(job.asked) + 1 ELSE job.next + 1
      /\ DOMAIN job.result = DOMAIN Nothing
  BY GettingIs
<1>2. /\ job.next \in 1 .. Len(job.asked) /\ Len(job.asked) \in Nat /\ b \in ToSet(job.asked)
      /\ job.asked \in Concerned(job.call) /\ job.call.uris \in Seq(Uris)
  BY <1>1, GotOf
<1>3. /\ from \in Seq(ToSet(job.asked))
      /\ op \in {"roots", "get_distinct", "as_list"} =>
            ToSet(from) \ {"m3u"} = ToSet(Taken) \intersect answerers
      /\ op = "search" =>
            /\ from = Chosen(Taken, answerers)
            /\ \A c \in ToSet(Taken) \intersect Others : setting.behaves[c] # "lookup_error"
  BY DEF ApartInv, FromIsRight
<1>4. new \in {from, Append(from, b)}
  BY <1>1 DEF Merged, Nothing
<1>5. new \in Seq(ToSet(job.asked)) /\ job'.next \in 1 .. Len(job.asked) + 1
  <2>1. Append(from, b) \in Seq(ToSet(job.asked))
    BY <1>2, <1>3, WithOneMore
  <2>2. job'.next \in 1 .. Len(job.asked) + 1
    BY <1>1, <1>2
  <2>. HIDE DEF new
  <2>. QED BY <1>3, <1>4, <2>1, <2>2
<1>6. op \in {"roots", "get_distinct", "search", "as_list"} =>
          /\ new = IF IsValue(Got) THEN Append(from, b) ELSE from
          /\ job'.next = job.next + 1
  BY <1>1 DEF Merged, Mappings, Nothing, IsEnough
<1>7. op \in {"roots", "get_distinct", "search", "as_list"} =>
          /\ Taken' = Append(Taken, b) /\ Taken \in Seq(ToSet(job.asked))
          /\ ToSet(Taken') = ToSet(Taken) \union {b}
          /\ ToSet(Append(from, b)) = ToSet(from) \union {b}
  <2>. SUFFICES ASSUME job'.next = job.next + 1
                PROVE  /\ Taken' = Append(Taken, b) /\ Taken \in Seq(ToSet(job.asked))
                       /\ ToSet(Taken') = ToSet(Taken) \union {b}
                       /\ ToSet(Append(from, b)) = ToSet(from) \union {b}
    BY <1>6
  <2>1. Taken' = Append(Taken, b) /\ Taken \in Seq(ToSet(job.asked))
    BY <1>1, OneMore
  <2>. HIDE DEF b, from
  <2>2. ToSet(Append(Taken, b)) = ToSet(Taken) \union {b}
    BY <1>2, <2>1, WithOneMore
  <2>. QED BY <1>2, <1>3, <2>1, <2>2, WithOneMore
<1>8. b # "m3u" /\ op \in {"roots", "get_distinct", "as_list", "search"} =>
          /\ IsValue(Got) <=> b \in answerers
          /\ Got.kind = "lookup_error" <=> b \in Others /\ setting.behaves[b] = "lookup_error"
  BY <1>1, GotValue
<1>9. "m3u" \notin answerers
  BY DEF Answerers, Others
<1>. HIDE DEF b, from, new, answerers
<1>10. ASSUME op \in {"roots", "get_distinct", "as_list"}
       PROVE  ToSet(new) \ {"m3u"} = ToSet(Taken') \intersect answerers
  <2>1. CASE b = "m3u"
    <3>1. ToSet(new) \ {"m3u"} = ToSet(from) \ {"m3u"}
      BY <1>6, <1>7, <1>10, <2>1
    <3>. QED BY <1>3, <1>7, <1>9, <1>10, <2>1, <3>1
  <2>2. CASE b # "m3u" /\ b \in answerers
    <3>1. ToSet(new) = ToSet(from) \union {b}
      BY <1>6, <1>7, <1>8, <1>10, <2>2
    <3>. QED BY <1>3, <1>7, <1>10, <2>2, <3>1
  <2>3. CASE b # "m3u" /\ b \notin answerers
    <3>1. new = from
      BY <1>6, <1>8, <1>10, <2>3
    <3>. QED BY <1>3, <1>7, <1>10, <2>3, <3>1
  <2>. QED BY <2>1, <2>2, <2>3
<1>11. ASSUME op = "search"
       PROVE  /\ new = Chosen(Taken', answerers)
              /\ \A c \in ToSet(Taken') \intersect Others : setting.behaves[c] # "lookup_error"
  <2>1. b # "m3u"
    BY <1>2, <1>11, ConcernedOf DEF Others
  <2>2. Chosen(Append(Taken, b), answerers) =
            IF b \in answerers THEN Append(Chosen(Taken, answerers), b)
            ELSE Chosen(Taken, answerers)
    <3>. DEFINE X == ToSet(job.asked)
    <3>1. Taken \in Seq(X) /\ b \in X
      BY <1>2, <1>7, <1>11
    <3>. HIDE DEF X
    <3>. QED BY <3>1, ChosenOfAppend
  <2>3. Got.kind # "lookup_error"
    BY <1>1, <1>11 DEF IsRaised
  <2>. QED BY <1>3, <1>6, <1>7, <1>8, <1>11, <2>1, <2>2, <2>3
<1>. QED BY <1>1, <1>5, <1>10, <1>11 DEF FromIsRight, new, answerers

-----------------------------------------------------------------------------
(* Core goes on. *)

LEMMA GettingApart ==
    ASSUME KeptInv, ApartInv, CoreGets
    PROVE  ApartInv'
<1>1. /\ job'.call = job.call /\ job'.asked = job.asked /\ job'.answers = job.answers
      /\ UNCHANGED <<search, stream, setting, reply>> /\ HasGot
      /\ job'.next = IF IsEnough(job.call, Got) THEN Len(job.asked) + 1 ELSE job.next + 1
  BY GettingIs
<1>2. SettingIsSound' /\ OthersGive' /\ StreamGives' /\ FailuresStayApart'
  <2>1. SettingIsSound' /\ FailuresStayApart'
    BY <1>1 DEF ApartInv, SettingIsSound, FailuresStayApart
  <2>2. OthersGive'
    BY <1>1 DEF ApartInv, OthersGive, OtherAnswer, OwnUris
  <2>3. StreamGives'
    BY <1>1 DEF ApartInv, StreamGives, OwnUris
  <2>. QED BY <2>1, <2>2, <2>3
<1>3. CallIsSound'
  BY <1>1 DEF ApartInv, CallIsSound, HasGot
<1>4. StreamWorks'
  <2>1. ASSUME stream.task # "none"
        PROVE  IsWaitedFor("stream")'
    <3>1. IsWaitedFor("stream") /\ job.call.op \in {"lookup_uris", "translate"}
      BY <2>1 DEF ApartInv, StreamWorks
    <3>2. PICK i \in job.next .. Len(job.asked) : job.asked[i] = "stream"
      BY <3>1 DEF IsWaitedFor, IsAskedNow
    <3>3. i # job.next
      BY <1>1, <3>1, <3>2 DEF IsWaitedFor, HasGot, Got, Backend
    <3>4. job'.next = job.next + 1 /\ job.next \in Nat /\ Len(job.asked) \in Nat
      BY <1>1, <3>1, GotOf DEF IsEnough
    <3>5. i \in job'.next .. Len(job.asked)
      BY <3>2, <3>3, <3>4
    <3>. QED BY <1>1, <3>1, <3>2, <3>5 DEF IsWaitedFor, IsAskedNow
  <2>. QED BY <1>1, <2>1 DEF ApartInv, StreamWorks, OwnUris
<1>. QED BY <1>2, <1>3, <1>4, MapGrows, FromGrows DEF ApartInv

\* Of no call there is nothing to say.
LEMMA NoJobApart ==
    ASSUME job' = NoJob, stream'.task = "none", StreamWorks,
           UNCHANGED <<stream, search>> \/ (stream' = NoTask /\ search' = NoSearch)
    PROVE  CallIsSound' /\ OthersGive' /\ StreamWorks' /\ StreamGives' /\ MapIsRight' /\ FromIsRight'
<1>1. /\ job'.asked = << >> /\ job'.next = 1 /\ job'.call = NoCall /\ job'.result = Nothing
      /\ job'.call.op = "none" /\ job'.result.from = << >>
  BY DEF NoJob, Nothing, NoCall, Call
<1>2. ToSet(<< >>) = {} /\ << >> \in Seq({}) /\ Len(<< >>) = 0
  BY DEF ToSet
<1>3. CallIsSound' /\ OthersGive' /\ StreamGives' /\ MapIsRight'
  BY <1>1, <1>2 DEF CallIsSound, IsIdle, OthersGive, StreamGives, MapIsRight, Mappings
<1>4. FromIsRight'
  BY <1>1, <1>2 DEF FromIsRight
<1>5. StreamWorks'
  BY DEF StreamWorks, NoTask, NoSearch
<1>. QED BY <1>3, <1>4, <1>5

LEMMA CrashApart ==
    ASSUME KeptInv, ApartInv, Crash
    PROVE  ApartInv'
<1>1. /\ job' = NoJob /\ reply' = NoReply /\ stream' = NoTask /\ search' = NoSearch
      /\ setting' = [setting EXCEPT !.crashes = @ - 1]
  BY DEF Crash
<1>2. SettingIsSound'
  <2>1. DOMAIN setting = {"calls", "behaves", "files", "faults", "crashes", "web"}
    BY DEF ApartInv, SettingIsSound
  <2>2. DOMAIN setting' = DOMAIN setting /\ setting'.calls = setting.calls
        /\ setting'.behaves = setting.behaves
    BY <1>1, <2>1
  <2>. QED BY <2>2 DEF ApartInv, SettingIsSound
<1>3. FailuresStayApart'
  BY <1>1 DEF FailuresStayApart, NoReply, NoCall, Call, Mappings
<1>4. stream'.task = "none"
  BY <1>1 DEF NoTask
<1>. QED BY <1>1, <1>2, <1>3, <1>4, NoJobApart DEF ApartInv

\* The stream backend does not work for nobody.
LEMMA StreamRests ==
    ASSUME KeptInv, StreamWorks, IsIdle \/ job.next > Len(job.asked)
    PROVE  stream.task = "none"
<1>1. IsIdle => job.asked = << >>
  BY DEF IsIdle, NoJob
<1>2. ~IsAskedNow("stream")
  BY <1>1, NotWaiting
<1>. QED BY <1>2 DEF StreamWorks, IsWaitedFor

LEMMA StartingApart ==
    ASSUME KeptInv, ApartInv, CoreStarts
    PROVE  ApartInv'
<1>. DEFINE call == Head(setting.calls)
<1>1. PICK s \in Settings : setting.calls \in Seq(ToSet(s.calls)) /\ setting.behaves = s.behaves
  BY DEF ApartInv, SettingIsSound
<1>2. setting.calls # << >> /\ IsIdle
  BY DEF CoreStarts
<1>3. call \in ToSet(s.calls) /\ Tail(setting.calls) \in Seq(ToSet(s.calls))
  BY <1>1, <1>2, ToSetOf, HeadTailProperties
<1>4. /\ call.uris \in Seq(Uris)
      /\ call.op \in {"roots", "get_distinct", "as_list"} => call.uris = << >>
  BY <1>3, CallsAssumption
<1>5. PICK asked \in Concerned(call) :
        job' = [call |-> call, asked |-> asked, next |-> 1,
                answers |-> [b \in ToSet(asked) |-> Pending],
                result |-> [Nothing EXCEPT !.map =
                    [u \in IF call.op \in {"get_images", "lookup_uris"}
                           THEN ToSet(call.uris) ELSE {} |-> << >>]]]
  BY DEF CoreStarts
<1>6. /\ setting' = [setting EXCEPT !.calls = Tail(@)] /\ reply' = NoReply
      /\ UNCHANGED <<web, search, stream>>
  BY DEF CoreStarts, mediaVars
<1>7. SettingIsSound'
  <2>1. DOMAIN setting = {"calls", "behaves", "files", "faults", "crashes", "web"}
    BY DEF ApartInv, SettingIsSound
  <2>2. DOMAIN setting' = DOMAIN setting /\ setting'.calls = Tail(setting.calls)
        /\ setting'.behaves = setting.behaves
    BY <1>6, <2>1
  <2>. QED BY <1>1, <1>3, <2>1, <2>2 DEF SettingIsSound
<1>. HIDE DEF call
<1>8. /\ job'.call = call /\ job'.asked = asked /\ job'.next = 1
      /\ job'.answers = [b \in ToSet(asked) |-> Pending]
      /\ job'.result.map = [u \in IF call.op \in {"get_images", "lookup_uris"}
                                  THEN ToSet(call.uris) ELSE {} |-> << >>]
      /\ job'.result.from = << >>
  BY <1>5 DEF Nothing
<1>9. stream.task = "none" /\ StreamWorks
  BY <1>2, StreamRests DEF ApartInv
<1>10. CallIsSound'
  BY <1>4, <1>8 DEF CallIsSound
<1>11. OthersGive' /\ StreamGives'
  BY <1>8 DEF OthersGive, StreamGives, Pending, Answered
<1>12. StreamWorks'
  BY <1>6, <1>9 DEF StreamWorks
<1>13. Taken' = << >> /\ ToSet(<< >>) = {} /\ \A S : Chosen(<< >>, S) = << >>
  <2>1. << >> \in Seq({})
    OBVIOUS
  <2>2. \A S : Chosen(<< >>, S) = << >>
    BY <2>1, ChosenType
  <2>. QED BY <1>8, <2>2 DEF Taken, ToSet
<1>14. MapIsRight'
  <2>1. \A op, givers : IsSoFar(op, << >>, << >>, givers)
    BY <1>13 DEF IsSoFar
  <2>. QED BY <1>8, <1>13, <2>1 DEF MapIsRight, Mappings
<1>15. FromIsRight'
  <2>1. asked \in Seq(ToSet(asked)) /\ Len(asked) \in Nat
    BY <1>4, ConcernedOf
  <2>2. << >> \in Seq(ToSet(asked)) /\ 1 \in 1 .. Len(asked) + 1
    BY <2>1
  <2>. QED BY <1>8, <1>13, <2>2 DEF FromIsRight
<1>16. FailuresStayApart'
  BY <1>6 DEF FailuresStayApart, NoReply, NoCall, Call, Mappings
<1>. QED BY <1>7, <1>10, <1>11, <1>12, <1>14, <1>15, <1>16 DEF ApartInv

LEMMA RaisingApart ==
    ASSUME KeptInv, ApartInv, CoreRaises
    PROVE  ApartInv'
<1>. DEFINE b == Backend
            how == setting.behaves[b]
<1>1. /\ HasGot /\ IsRaised(job.call, Got) /\ job' = NoJob
      /\ UNCHANGED <<web, search, stream, setting>>
      /\ reply'.call = job.call /\ reply'.behaves = setting.behaves /\ reply'.raised = TRUE
  BY DEF CoreRaises, Replied, mediaVars
<1>2. \/ job.call.op = "search" /\ Got.kind = "lookup_error"
      \/ job.call.op = "save" /\ Got.kind = "assertion_error"
  BY <1>1 DEF IsRaised
<1>3. /\ b \in ToSet(job.asked) /\ Got = job.answers[b]
      /\ b \in Others => Got = OtherAnswer(b, how)
      /\ job.call.uris \in Seq(Uris) /\ job.asked \in Concerned(job.call)
  BY <1>1, GotOf
<1>4. ToSet(job.asked) \subseteq Others \union {"stream", "m3u"}
  BY <1>2, <1>3, ConcernedOf
<1>5. b # "stream" /\ b # "m3u"
  <2>1. b = "stream" => Got.kind \in {"pending", "none", "value"}
    BY <1>3 DEF ApartInv, StreamGives
  <2>2. b = "m3u" => Got.kind \in {"pending", "value", "none", "error"}
    BY <1>3 DEF KeptInv, AnswersAreSound
  <2>. QED BY <1>2, <2>1, <2>2
<1>6. b \in Others
  BY <1>3, <1>4, <1>5
<1>7. how = Got.kind
  <2>1. /\ GivesItems(how) => Got.kind = "value"
        /\ ~GivesItems(how) => Got.kind = IF how = "partial" THEN "bad" ELSE how
    BY <1>3, <1>6, OtherItems
  <2>. QED BY <1>2, <2>1
<1>8. job.call.op = "save" => job.call.scheme = b
  <2>1. job.call.op = "save" => ToSet(job.asked) \subseteq {job.call.scheme}
    BY DEF KeptInv, JobIsSound
  <2>. QED BY <1>3, <2>1
<1>9. job.call.op = "search" => IsFor(job.call, b)
  BY <1>3, <1>6, AskedIsFor
<1>. HIDE DEF b
<1>10. FailuresStayApart'
  BY <1>1, <1>2, <1>6, <1>7, <1>8, <1>9 DEF FailuresStayApart, Mappings
<1>11. stream.task = "none"
  BY <1>2 DEF ApartInv, StreamWorks
<1>12. SettingIsSound'
  BY <1>1 DEF ApartInv, SettingIsSound
<1>13. StreamWorks /\ stream'.task = "none" /\ UNCHANGED <<stream, search>>
  BY <1>1, <1>11 DEF ApartInv
<1>. QED BY <1>1, <1>10, <1>12, <1>13, NoJobApart DEF ApartInv

\* All have answered: what there is for a URI is what there should be.
LEMMA ComesFromGivers ==
    ASSUME NEW call, call.uris \in Seq(Uris), call.op \in Mappings, NEW asked \in Concerned(call),
           NEW uri \in ToSet(call.uris), NEW behaves, NEW result,
           IsSoFar(call.op, result.map[uri], asked, Givers(behaves, call, uri))
    PROVE  IsFromGivers(result, behaves, call, uri)
<1>. DEFINE givers == Givers(behaves, call, uri)
            value == result.map[uri]
            IsLast(b) == \A c \in givers \ {b} : ComesBefore(call, c, b)
<1>1. call.uris # << >>
  BY DEF ToSet
<1>2. asked \in Seq(ToSet(Order)) /\ IsSortedBy(asked, Precedes(call))
  BY <1>1, AskedInOrder
<1>3. givers \subseteq ToSet(asked)
  <2>1. \A b \in givers : IsFor(call, b)
    <3>1. Owner[uri] = "stream" => IsFor(call, "stream")
      <4>1. ToSet(OwnersOf(call.uris)) = {Owner[u] : u \in ToSet(call.uris)}
        BY OwnersAre
      <4>2. asked = OwnersOf(call.uris)
        BY ConcernedOf
      <4>. QED BY <1>1, <4>1, <4>2, AskedIsFor
    <3>. QED BY <3>1 DEF Givers
  <2>. QED BY <1>1, <2>1, AskedIsFor
<1>4. Len(asked) \in Nat /\ ToSet(asked) = {asked[i] : i \in 1 .. Len(asked)}
  BY <1>2, ToSetOf
<1>. HIDE DEF givers, value
<1>5. CASE call.op = "get_images"
  <2>1. value = Chosen(asked, givers)
    BY <1>5 DEF IsSoFar, givers, value
  <2>2. ListsInOrder(call, value, givers)
    BY <1>2, <1>3, <2>1, ListedInOrder
  <2>. QED BY <1>5, <2>2 DEF IsFromGivers, givers, value
<1>6. CASE call.op # "get_images" /\ value = << >> /\ ToSet(asked) \intersect givers = {}
  <2>1. givers = {}
    BY <1>3, <1>6
  <2>. QED BY <1>6, <2>1 DEF IsFromGivers, givers, value
<1>7. ASSUME call.op # "get_images", NEW k \in 1 .. Len(asked),
             asked[k] \in givers, \A j \in k + 1 .. Len(asked) : asked[j] \notin givers,
             Len(value) = 1, asked[k] \in Others => value = <<asked[k]>>
      PROVE  IsFromGivers(result, behaves, call, uri)
  <2>. DEFINE b == asked[k]
  <2>1. IsLast(b)
    <3>. SUFFICES ASSUME NEW c \in givers \ {b} PROVE ComesBefore(call, c, b)
      OBVIOUS
    <3>1. PICK j \in 1 .. Len(asked) : asked[j] = c
      BY <1>3, <1>4
    <3>2. j # k /\ ~(j \in k + 1 .. Len(asked))
      BY <1>7, <3>1
    <3>3. j < k
      BY <1>4, <3>2
    <3>4. <<asked[j], asked[k]>> \in Precedes(call)
      BY <1>2, <3>3 DEF IsSortedBy
    <3>. QED BY <3>1, <3>4 DEF Precedes
  <2>2. \E g \in givers : /\ IsLast(g) /\ Len(value) = 1
                          /\ g \in Others => value = <<g>>
    BY <1>7, <2>1
  <2>3. givers # {}
    BY <1>7
  <2>. QED BY <1>7, <2>2, <2>3 DEF IsFromGivers, givers, value
<1>. QED BY <1>5, <1>6, <1>7 DEF IsSoFar, givers, value

LEMMA ReplyingApart ==
    ASSUME KeptInv, ApartInv, CoreReplies
    PROVE  ApartInv'
<1>. DEFINE call == job.call
            result == job.result
            behaves == setting.behaves
            answerers == Answerers(behaves, call)
            IsLost == \E b \in Others : IsFor(call, b) /\ behaves[b] = "lookup_error"
<1>1. /\ ~IsIdle /\ job.next > Len(job.asked) /\ job' = NoJob
      /\ UNCHANGED <<web, search, stream, setting>>
      /\ reply'.call = call /\ reply'.behaves = behaves /\ reply'.raised = FALSE
      /\ reply'.result = result
  BY DEF CoreReplies, Replied, mediaVars
<1>2. /\ job.asked \in Seq(ToSet(job.asked)) /\ Len(job.asked) \in Nat
      /\ job.next - 1 = Len(job.asked)
  <2>1. job.asked \in Seq(ToSet(job.asked)) /\ job.next \in 1 .. Len(job.asked) + 1
    BY DEF KeptInv, JobIsSound, ApartInv, FromIsRight
  <2>. QED BY <1>1, <2>1
<1>3. Taken = job.asked
  BY <1>2 DEF Taken
<1>4. /\ call.uris \in Seq(Uris) /\ job.asked \in Concerned(call)
      /\ call.op \in {"roots", "get_distinct", "as_list"} => call.uris = << >>
  BY <1>1 DEF ApartInv, CallIsSound
<1>5. MapIsRight /\ FromIsRight /\ StreamWorks
  BY DEF ApartInv
<1>. HIDE DEF call, result, behaves, answerers
<1>6. ASSUME call.op \in Mappings, NEW u \in ToSet(call.uris)
      PROVE  IsFromGivers(result, behaves, call, u)
  <2>1. IsSoFar(call.op, result.map[u], job.asked, Givers(behaves, call, u))
    BY <1>3, <1>5, <1>6 DEF MapIsRight, call, result, behaves
  <2>. QED BY <1>4, <1>6, <2>1, ComesFromGivers
<1>7. ASSUME call.op = "search"
      PROVE  ~IsLost /\ ListsInOrder(call, result.from, answerers)
  <2>1. /\ result.from = Chosen(job.asked, answerers)
        /\ \A b \in ToSet(job.asked) \intersect Others : behaves[b] # "lookup_error"
    BY <1>3, <1>5, <1>7 DEF FromIsRight, call, result, behaves, answerers
  <2>2. \A b \in Others : IsFor(call, b) => b \in ToSet(job.asked)
    BY <1>4, <1>7, AskedIsFor
  <2>3. answerers \subseteq ToSet(job.asked)
    BY <2>2 DEF answerers, Answerers
  <2>4. job.asked \in Seq(ToSet(Order)) /\ IsSortedBy(job.asked, Precedes(call))
    BY <1>4, <1>7, AskedInOrder
  <2>. QED BY <2>1, <2>2, <2>3, <2>4, ListedInOrder
<1>8. ASSUME call.op \in {"roots", "get_distinct", "as_list"}
      PROVE  ToSet(result.from) \ {"m3u"} = answerers
  <2>1. ToSet(result.from) \ {"m3u"} = ToSet(job.asked) \intersect answerers
    BY <1>3, <1>5, <1>8 DEF FromIsRight, call, result, behaves, answerers
  <2>2. Others \subseteq ToSet(job.asked)
    BY <1>4, <1>8, ConcernedOf
  <2>3. answerers \subseteq Others
    BY DEF answerers, Answerers
  <2>. QED BY <2>1, <2>2, <2>3
<1>9. FailuresStayApart'
  BY <1>1, <1>6, <1>7, <1>8 DEF FailuresStayApart, answerers
<1>10. SettingIsSound'
  BY <1>1 DEF ApartInv, SettingIsSound
<1>11. stream'.task = "none" /\ UNCHANGED <<stream, search>>
  BY <1>1, <1>5, StreamRests
<1>. QED BY <1>1, <1>5, <1>9, <1>10, <1>11, NoJobApart DEF ApartInv

-----------------------------------------------------------------------------
(* The backends answer. *)

\* An answer changes nothing else.
LEMMA AnsweringApart ==
    ASSUME KeptInv, ApartInv, NEW b, NEW answer, Answers(b, answer), UNCHANGED <<setting, reply>>,
           b \in Others => answer \in {Pending, OtherAnswer(b, setting.behaves[b])}
    PROVE  /\ SettingIsSound' /\ CallIsSound' /\ OthersGive' /\ MapIsRight' /\ FromIsRight'
           /\ FailuresStayApart'
           /\ job'.call = job.call /\ job'.asked = job.asked /\ job'.next = job.next
           /\ DOMAIN job.answers = ToSet(job.asked)
           /\ DOMAIN job'.answers = ToSet(job.asked)
           /\ \A c \in ToSet(job.asked) : job'.answers[c] = IF c = b THEN answer ELSE job.answers[c]
<1>1. DOMAIN job = DOMAIN NoJob /\ DOMAIN job.answers = ToSet(job.asked)
  BY DEF KeptInv, JobIsSound
<1>2. /\ job'.call = job.call /\ job'.asked = job.asked /\ job'.next = job.next
      /\ job'.result = job.result /\ job'.answers = [job.answers EXCEPT ![b] = answer]
  BY <1>1 DEF Answers, NoJob
<1>3. /\ DOMAIN job'.answers = ToSet(job.asked)
      /\ \A c \in ToSet(job.asked) : job'.answers[c] = IF c = b THEN answer ELSE job.answers[c]
  BY <1>1, <1>2
<1>4. SettingIsSound' /\ FailuresStayApart' /\ FromIsRight' /\ MapIsRight'
  <2>1. SettingIsSound' /\ FailuresStayApart'
    BY DEF ApartInv, SettingIsSound, FailuresStayApart
  <2>2. Taken' = Taken
    BY <1>2 DEF Taken
  <2>3. FromIsRight'
    BY <1>2, <2>2 DEF ApartInv, FromIsRight
  <2>4. MapIsRight'
    BY <1>2, <2>2 DEF ApartInv, MapIsRight
  <2>. QED BY <2>1, <2>3, <2>4
<1>5. CallIsSound'
  <2>1. IsIdle => IsIdle'
    <3>1. IsIdle => job.answers = << >>
      BY DEF IsIdle, NoJob
    <3>2. IsIdle => job' = job
      <4>. SUFFICES ASSUME IsIdle PROVE job' = job
        OBVIOUS
      <4>1. job.answers = << >> /\ DOMAIN << >> = {}
        BY <3>1
      <4>2. [job.answers EXCEPT ![b] = answer] = job.answers
        BY <4>1
      <4>. QED BY <4>2 DEF Answers, IsIdle, NoJob
    <3>. QED BY <3>2 DEF IsIdle
  <2>. QED BY <1>2, <2>1 DEF ApartInv, CallIsSound
<1>6. OthersGive'
  <2>1. \A c \in Others \intersect ToSet(job.asked) :
            job'.answers[c] \in {Pending, OtherAnswer(c, setting.behaves[c])}
    BY <1>3 DEF ApartInv, OthersGive
  <2>. QED BY <1>2, <2>1 DEF OthersGive, OtherAnswer, OwnUris
<1>. QED BY <1>1, <1>2, <1>3, <1>4, <1>5, <1>6

\* The stream backend goes on as it is when another one answers.
LEMMA NotStreamApart ==
    ASSUME KeptInv, ApartInv, NEW b, b # "stream", NEW answer, Answers(b, answer),
           UNCHANGED <<search, stream, setting, reply>>,
           b \in Others => answer \in {Pending, OtherAnswer(b, setting.behaves[b])}
    PROVE  ApartInv'
<1>1. /\ SettingIsSound' /\ CallIsSound' /\ OthersGive' /\ MapIsRight' /\ FromIsRight'
      /\ FailuresStayApart'
      /\ job'.call = job.call /\ job'.asked = job.asked /\ job'.next = job.next
      /\ "stream" \in ToSet(job.asked) => job'.answers["stream"] = job.answers["stream"]
  BY AnsweringApart
<1>2. StreamGives'
  BY <1>1 DEF ApartInv, StreamGives, OwnUris
<1>3. StreamWorks'
  <2>1. IsWaitedFor("stream") => IsWaitedFor("stream")'
    <3>1. IsAskedNow("stream") => "stream" \in ToSet(job.asked)
      <4>1. job.asked \in Seq(ToSet(job.asked)) /\ job.next \in Nat \ {0}
        BY DEF KeptInv, JobIsSound
      <4>2. \A i \in job.next .. Len(job.asked) : job.asked[i] \in ToSet(job.asked)
        BY <4>1
      <4>. QED BY <4>2 DEF IsAskedNow
    <3>. QED BY <1>1, <3>1 DEF IsWaitedFor, IsAskedNow
  <2>. QED BY <1>1, <2>1 DEF ApartInv, StreamWorks, OwnUris
<1>. QED BY <1>1, <1>2, <1>3 DEF ApartInv

\* The call and its answers stay as they are.
LEMMA StayingApart ==
    ASSUME ApartInv, UNCHANGED <<job, setting, reply>>, StreamWorks'
    PROVE  ApartInv'
<1>1. SettingIsSound' /\ CallIsSound' /\ StreamGives' /\ FailuresStayApart'
  BY DEF ApartInv, SettingIsSound, CallIsSound, IsIdle, StreamGives, OwnUris, FailuresStayApart
<1>2. OthersGive'
  BY DEF ApartInv, OthersGive, OtherAnswer, OwnUris
<1>3. Taken' = Taken
  BY DEF Taken
<1>4. FromIsRight'
  BY <1>3 DEF ApartInv, FromIsRight
<1>5. MapIsRight'
  BY <1>3 DEF ApartInv, MapIsRight
<1>. QED BY <1>1, <1>2, <1>4, <1>5 DEF ApartInv

\* The M3U backend gives nothing that counts here.
LEMMA M3UApart ==
    ASSUME KeptInv, ApartInv, M3UActs
    PROVE  ApartInv'
<1>1. UNCHANGED <<web, search, stream, setting, reply>>
  BY DEF M3UActs, M3UStarts, M3UAnswers, coreVars, mediaVars
<1>2. CASE M3UAnswers
  <2>1. PICK answer : Answers("m3u", answer)
    BY <1>2 DEF M3UAnswers
  <2>2. "m3u" # "stream" /\ "m3u" \notin Others
    BY DEF Others
  <2>. QED BY <1>1, <2>1, <2>2, NotStreamApart
<1>3. CASE UNCHANGED job
  <2>1. StreamWorks'
    BY <1>1, <1>3 DEF ApartInv, StreamWorks, IsWaitedFor, IsAskedNow, OwnUris
  <2>. QED BY <1>1, <1>3, <2>1, StayingApart
<1>. QED BY <1>2, <1>3 DEF M3UActs, M3UStarts, coreVars

\* Who is waited for was asked for a call.
LEMMA WaitedFor ==
    ASSUME KeptInv, ApartInv, IsWaitedFor("stream")
    PROVE  /\ "stream" \in ToSet(job.asked)
           /\ job.call.uris \in Seq(Uris)
<1>1. job.asked \in Seq(ToSet(job.asked)) /\ job.next \in Nat \ {0}
  BY DEF KeptInv, JobIsSound
<1>2. PICK i \in job.next .. Len(job.asked) : job.asked[i] = "stream"
  BY DEF IsWaitedFor, IsAskedNow
<1>3. "stream" \in ToSet(job.asked) /\ job.asked # << >>
  BY <1>1, <1>2, ToSetOf
<1>4. ~IsIdle
  BY <1>3 DEF IsIdle, NoJob
<1>. QED BY <1>3, <1>4 DEF ApartInv, CallIsSound

-----------------------------------------------------------------------------
(* The stream backend works. *)

LEMMA StreamAskedApart ==
    ASSUME KeptInv, ApartInv, StreamIsAsked
    PROVE  ApartInv'
<1>1. IsWaitedFor("stream") /\ UNCHANGED <<setting, reply>> /\ StreamWorks
  BY DEF StreamIsAsked, ApartInv
<1>2. CASE job.call.op \in {"lookup_uris", "translate"}
  <2>. DEFINE own == OwnUris("stream")
  <2>1. /\ stream.task = "none" /\ UNCHANGED <<job, search>>
        /\ \E live : \E task \in {"translate", "lookup"} :
              stream' = [task |-> task, left |-> own, tracks |-> << >>, target |-> None, live |-> live]
    BY <1>2 DEF StreamIsAsked, StreamStarts
  <2>2. /\ DOMAIN stream' = DOMAIN NoTask /\ stream'.task # "none" /\ stream'.left = own
        /\ stream'.tracks = << >>
    BY <2>1 DEF NoTask
  <2>3. search.at = "none"
    BY <1>1, <2>1 DEF StreamWorks
  <2>4. /\ own \in Seq(Uris) /\ Len(own) \in Nat /\ Len(<< >>) = 0 /\ << >> \in Seq(ToSet(<< >>))
        /\ \A i \in 1 .. Len(own) : own[i] = own[0 + i]
    BY <1>1, WaitedFor, OwnOnes
  <2>5. own' = own
    BY <2>1 DEF OwnUris
  <2>. HIDE DEF own
  <2>6. StreamWorks'
    BY <1>1, <1>2, <2>1, <2>2, <2>3, <2>4, <2>5 DEF StreamWorks, IsWaitedFor, IsAskedNow, own
  <2>. QED BY <1>1, <2>1, <2>6, StayingApart
<1>3. CASE job.call.op \notin {"lookup_uris", "translate"}
  <2>. DEFINE answer == Answered("none", << >>, NoAnswer)
  <2>1. Answers("stream", answer) /\ UNCHANGED <<search, stream>>
    BY <1>3 DEF StreamIsAsked, mediaVars
  <2>2. "stream" \notin Others /\ answer.kind = "none" /\ answer.items = << >>
    BY DEF Others, Answered
  <2>. HIDE DEF answer
  <2>3. /\ SettingIsSound' /\ CallIsSound' /\ OthersGive' /\ MapIsRight' /\ FromIsRight'
        /\ FailuresStayApart' /\ job'.call = job.call /\ job'.asked = job.asked
        /\ \A c \in ToSet(job.asked) :
              job'.answers[c] = IF c = "stream" THEN answer ELSE job.answers[c]
    BY <1>1, <2>1, <2>2, AnsweringApart
  <2>4. StreamGives'
    BY <1>3, <2>2, <2>3 DEF StreamGives
  <2>5. StreamWorks'
    <3>1. stream.task = "none"
      BY <1>1, <1>3 DEF StreamWorks
    <3>. QED BY <1>1, <2>1, <3>1 DEF StreamWorks
  <2>. QED BY <2>3, <2>4, <2>5 DEF ApartInv
<1>. QED BY <1>2, <1>3

LEMMA StreamAnswersApart ==
    ASSUME KeptInv, ApartInv, StreamAnswers
    PROVE  ApartInv'
<1>. DEFINE items == [i \in 1 .. Len(stream.tracks) |->
                         Item(stream.tracks[i].uri, TRUE, stream.tracks[i].media)]
            answer == Answered("value", items, Answer("target", stream.target))
            own == OwnUris("stream")
<1>1. /\ stream.task # "none" /\ stream.left = << >> /\ Answers("stream", answer)
      /\ stream' = [stream EXCEPT !.task = "none", !.tracks = << >>, !.target = None]
      /\ UNCHANGED <<search, setting, reply>> /\ StreamWorks
  BY DEF StreamAnswers, StreamIsDone, ApartInv
<1>2. IsWaitedFor("stream") /\ job.call.op \in {"lookup_uris", "translate"} /\ search.at = "none"
  BY <1>1 DEF StreamWorks
<1>3. answer.kind = "value" /\ answer.items = items /\ "stream" \notin Others
  BY DEF Answered, Others
<1>4. job.call.op = "lookup_uris" =>
          /\ items \in Seq(ToSet(items)) /\ AreFor(items, own)
          /\ \A i \in 1 .. Len(items) : items[i].isValid
  <2>1. job.call.op = "lookup_uris" =>
            /\ stream.tracks \in Seq(ToSet(stream.tracks))
            /\ Len(stream.tracks) + Len(stream.left) = Len(own)
            /\ \A i \in 1 .. Len(stream.tracks) : stream.tracks[i].uri = own[i]
    BY <1>1 DEF StreamWorks
  <2>. SUFFICES ASSUME job.call.op = "lookup_uris"
                PROVE  /\ items \in Seq(ToSet(items)) /\ AreFor(items, own)
                       /\ \A i \in 1 .. Len(items) : items[i].isValid
    OBVIOUS
  <2>. DEFINE n == Len(stream.tracks)
  <2>2. n \in Nat /\ n = Len(own) /\ \A i \in 1 .. n : stream.tracks[i].uri = own[i]
    BY <1>1, <2>1
  <2>. HIDE DEF own
  <2>3. /\ Len(items) = n /\ \A i \in 1 .. n : items[i].uri = own[i] /\ items[i].isValid
    BY <2>2 DEF Item
  <2>4. items \in Seq(ToSet(items))
    <3>1. items = [i \in 1 .. n |-> items[i]]
      OBVIOUS
    <3>. HIDE DEF items, n
    <3>2. items \in [1 .. n -> {items[i] : i \in 1 .. n}]
      BY <3>1
    <3>3. items \in Seq({items[i] : i \in 1 .. n})
      BY <2>2, <3>2
    <3>. QED BY <3>3, SeqOfItsOwn
  <2>. HIDE DEF items, n
  <2>. QED BY <2>2, <2>3, <2>4 DEF AreFor
<1>. HIDE DEF answer, items
<1>5. /\ SettingIsSound' /\ CallIsSound' /\ OthersGive' /\ MapIsRight' /\ FromIsRight'
      /\ FailuresStayApart' /\ job'.call = job.call /\ job'.asked = job.asked
      /\ \A c \in ToSet(job.asked) :
            job'.answers[c] = IF c = "stream" THEN answer ELSE job.answers[c]
  BY <1>1, <1>3, AnsweringApart
<1>6. StreamGives'
  <2>1. own' = own
    BY <1>5 DEF OwnUris
  <2>. HIDE DEF own
  <2>2. "stream" \in ToSet(job.asked) => job'.answers["stream"] = answer
    BY <1>5
  <2>. QED BY <1>2, <1>3, <1>4, <1>5, <2>1, <2>2 DEF StreamGives, own
<1>7. StreamWorks'
  <2>1. DOMAIN stream = DOMAIN NoTask
    BY <1>1 DEF StreamWorks
  <2>2. DOMAIN stream' = DOMAIN NoTask /\ stream'.task = "none" /\ stream'.left = << >>
    BY <1>1, <2>1 DEF NoTask
  <2>. QED BY <1>1, <1>2, <2>2 DEF StreamWorks
<1>. QED BY <1>5, <1>6, <1>7 DEF ApartInv

\* A track is made of the next URI, whatever was found there.
Adds(media) ==
    /\ stream'.left = Tail(stream.left)
    /\ stream'.tracks = Append(stream.tracks, Target(Head(stream.left), media))

\* One URI is done with.
LEMMA OneDone ==
    ASSUME ApartInv, KeptInv, stream.task # "none", stream.left # << >>, UNCHANGED <<job, setting, reply>>,
           job.call.op = "lookup_uris" => \E media : Adds(media),
           DOMAIN stream' = DOMAIN NoTask, stream'.task = stream.task, search'.at = "none"
    PROVE  ApartInv'
<1>. DEFINE own == OwnUris("stream")
            left == stream.left
            tracks == stream.tracks
            n == Len(tracks)
<1>1. StreamWorks /\ IsWaitedFor("stream") /\ job.call.op \in {"lookup_uris", "translate"}
  BY DEF ApartInv, StreamWorks
<1>2. IsWaitedFor("stream")' /\ own' = own
  BY <1>1 DEF IsWaitedFor, IsAskedNow, OwnUris
<1>3. ASSUME job.call.op = "lookup_uris"
      PROVE  /\ stream'.left \in Seq(Uris) /\ stream'.tracks \in Seq(ToSet(stream'.tracks))
             /\ Len(stream'.tracks) + Len(stream'.left) = Len(own)
             /\ \A i \in 1 .. Len(stream'.tracks) : stream'.tracks[i].uri = own[i]
             /\ \A i \in 1 .. Len(stream'.left) : stream'.left[i] = own[Len(stream'.tracks) + i]
  <2>. PICK media : Adds(media)
    BY <1>3
  <2>. DEFINE track == Target(Head(left), media)
  <2>1. /\ left \in Seq(Uris) /\ tracks \in Seq(ToSet(tracks)) /\ n + Len(left) = Len(own)
        /\ \A i \in 1 .. n : tracks[i].uri = own[i]
        /\ \A i \in 1 .. Len(left) : left[i] = own[n + i]
    BY <1>1, <1>3 DEF StreamWorks
  <2>2. stream'.left = Tail(left) /\ stream'.tracks = Append(tracks, track)
    BY DEF Adds
  <2>3. track.uri = left[1] /\ Len(left) \in Nat \ {0} /\ n \in Nat
    BY <2>1 DEF Target
  <2>. HIDE DEF left, tracks, own, track, n
  <2>4. track.uri = own[n + 1]
    <3>1. 1 \in 1 .. Len(left)
      BY <2>3
    <3>. QED BY <2>1, <2>3, <3>1
  <2>5. /\ Tail(left) \in Seq(Uris) /\ Len(Tail(left)) = Len(left) - 1
        /\ \A i \in 1 .. Len(Tail(left)) : Tail(left)[i] = left[i + 1]
    BY <2>1, <2>3, HeadTailProperties
  <2>6. /\ Append(tracks, track) \in Seq(ToSet(tracks) \union {track})
        /\ Len(Append(tracks, track)) = n + 1
        /\ \A i \in 1 .. n : Append(tracks, track)[i] = tracks[i]
        /\ Append(tracks, track)[n + 1] = track
    <3>1. ToSet(tracks) \subseteq ToSet(tracks) \union {track} /\ track \in ToSet(tracks) \union {track}
      OBVIOUS
    <3>2. tracks \in Seq(ToSet(tracks) \union {track})
      BY <2>1, <3>1
    <3>. QED BY <3>1, <3>2, AppendProperties DEF n
  <2>7. Append(tracks, track) \in Seq(ToSet(Append(tracks, track)))
    BY <2>6, SeqOfItsOwn
  <2>8. \A i \in 1 .. n + 1 : Append(tracks, track)[i].uri = own[i]
    <3>1. \A i \in 1 .. n + 1 : i \in 1 .. n \/ i = n + 1
      BY <2>3
    <3>. QED BY <2>1, <2>4, <2>6, <3>1
  <2>9. \A i \in 1 .. Len(left) - 1 : Tail(left)[i] = own[n + 1 + i]
    <3>. TAKE i \in 1 .. Len(left) - 1
    <3>1. i + 1 \in 1 .. Len(left) /\ n + (i + 1) = n + 1 + i
      BY <2>3
    <3>. QED BY <2>1, <2>5, <3>1
  <2>. QED BY <2>1, <2>2, <2>3, <2>5, <2>6, <2>7, <2>8, <2>9
<1>4. StreamWorks'
  <2>. HIDE DEF own
  <2>. QED BY <1>1, <1>2, <1>3 DEF StreamWorks, own
<1>. QED BY <1>4, StayingApart

\* Each step of the search leaves a URI to be done, or is done with one.
LEMMA StreamGoesApart ==
    ASSUME KeptInv, ApartInv, StreamGoesOn, UNCHANGED coreVars
    PROVE  ApartInv'
<1>1. StreamWorks /\ UNCHANGED <<job, setting, reply>> /\ DOMAIN stream = DOMAIN NoTask
  BY DEF ApartInv, StreamWorks, coreVars
<1>2. ASSUME UNCHANGED stream, stream.left # << >> \/ search'.at = "none"
      PROVE  ApartInv'
  <2>1. StreamWorks'
    BY <1>1, <1>2 DEF StreamWorks, IsWaitedFor, IsAskedNow, OwnUris
  <2>. QED BY <1>1, <2>1, StayingApart
<1>3. CASE SearchGoesOn /\ UNCHANGED stream
  <2>1. search.at # "none"
    BY <1>3 DEF SearchGoesOn, Ends, Skips, Fetches, Inspects, GivesUp
  <2>. QED BY <1>1, <1>2, <1>3, <2>1 DEF StreamWorks
<1>4. CASE StreamSearches
  BY <1>2, <1>4 DEF StreamSearches, IsBusy
<1>5. CASE StreamFinds
  <2>1. stream.left # << >> /\ stream.task # "none"
    BY <1>1, <1>5 DEF StreamFinds, StreamWorks
  <2>2. PICK media, live :
            stream' = [stream EXCEPT !.left = Tail(@),
                                     !.tracks = Append(@, Target(Head(stream.left), media)),
                                     !.target = Found, !.live = live]
    BY <1>5 DEF StreamFinds
  <2>3. Adds(media)
    BY <1>1, <2>2 DEF Adds, NoTask
  <2>4. search'.at = "none"
    BY <1>5 DEF StreamFinds, NoSearch
  <2>5. DOMAIN stream' = DOMAIN NoTask /\ stream'.task = stream.task
    BY <1>1, <2>2 DEF NoTask
  <2>. QED BY <1>1, <2>1, <2>4, <2>5, <2>3, OneDone
<1>6. CASE StreamSkips
  <2>1. stream.left # << >> /\ stream.task # "none" /\ search'.at = "none"
    BY <1>6 DEF StreamSkips, IsBusy
  <2>. DEFINE uri == Head(stream.left)
  <2>2. /\ uri \notin Pages \/ uri \in Blacklist
        /\ stream' = [stream EXCEPT
              !.left = Tail(@),
              !.tracks = IF uri \in Blacklist THEN Append(@, Target(uri, "none")) ELSE @,
              !.target = IF uri \in Blacklist THEN Target(uri, "none") ELSE None]
    BY <1>6 DEF StreamSkips
  <2>3. ASSUME job.call.op = "lookup_uris" PROVE uri \in Blacklist
    <3>. DEFINE own == OwnUris("stream")
                n == Len(stream.tracks)
    <3>1. /\ stream.left \in Seq(Uris) /\ stream.tracks \in Seq(ToSet(stream.tracks))
          /\ n + Len(stream.left) = Len(own) /\ IsWaitedFor("stream")
          /\ \A i \in 1 .. Len(stream.left) : stream.left[i] = own[n + i]
      BY <1>1, <2>1, <2>3 DEF StreamWorks
    <3>2. /\ own \in Seq(Uris) /\ Len(own) \in Nat
          /\ \A i \in 1 .. Len(own) : Owner[own[i]] = "stream"
      BY <3>1, WaitedFor, OwnOnes
    <3>. HIDE DEF own
    <3>3. Len(stream.left) \in Nat \ {0} /\ uri = stream.left[1] /\ n \in Nat
      BY <2>1, <3>1
    <3>. HIDE DEF uri, n
    <3>4. uri = own[n + 1] /\ n + 1 \in 1 .. Len(own)
      <4>1. 1 \in 1 .. Len(stream.left) /\ n + 1 \in 1 .. Len(own)
        BY <3>1, <3>2, <3>3
      <4>. QED BY <3>1, <3>3, <4>1
    <3>5. uri \in Uris /\ Owner[uri] = "stream"
      BY <3>2, <3>4
    <3>. QED BY <2>2, <3>5, OrderAssumption
  <2>4. DOMAIN stream' = DOMAIN NoTask /\ stream'.task = stream.task
    BY <1>1, <2>2 DEF NoTask
  <2>5. ASSUME job.call.op = "lookup_uris" PROVE Adds("none")
    BY <1>1, <2>2, <2>3, <2>5 DEF Adds, NoTask
  <2>. QED BY <1>1, <2>1, <2>4, <2>5, OneDone
<1>. QED BY <1>3, <1>4, <1>5, <1>6 DEF StreamGoesOn

-----------------------------------------------------------------------------
(* The theorem. *)

\* In the end of a call there is for each URI what those gave who were asked and
\* gave something for it, the images in the order of the call and the tracks of
\* the last; of a search, with URIs or without, all who had results, in order; of
\* the root directories, distinct values and playlists all who had some.  Search
\* raises exactly if one of those it asks does, whoever answers first, and however
\* often the process ends (LibraryController, PlaylistsController.as_list,
\* _backend_error_handling).
THEOREM FailuresApart == Spec => []FailuresStayApart
<1>1. Init => ApartInv
  <2>. SUFFICES ASSUME Init PROVE ApartInv
    OBVIOUS
  <2>1. /\ job = NoJob /\ reply = NoReply /\ search = NoSearch /\ stream = NoTask
        /\ setting \in Settings
    BY DEF Init
  <2>2. SettingIsSound
    BY <2>1, CallsAssumption DEF SettingIsSound
  <2>3. /\ job.asked = << >> /\ job.next = 1 /\ job.call = NoCall /\ job.result = Nothing
        /\ job.call.op = "none" /\ job.result.from = << >>
    BY <2>1 DEF NoJob, Nothing, NoCall, Call
  <2>4. ToSet(<< >>) = {} /\ << >> \in Seq({}) /\ Len(<< >>) = 0
    BY DEF ToSet
  <2>5. CallIsSound /\ OthersGive /\ StreamGives /\ MapIsRight /\ FromIsRight
    BY <2>1, <2>3, <2>4 DEF CallIsSound, IsIdle, OthersGive, StreamGives, MapIsRight, Mappings,
                            FromIsRight
  <2>6. StreamWorks
    BY <2>1 DEF StreamWorks, NoTask, NoSearch
  <2>7. FailuresStayApart
    BY <2>1 DEF FailuresStayApart, NoReply, NoCall, Call, Mappings
  <2>. QED BY <2>2, <2>5, <2>6, <2>7 DEF ApartInv
<1>2. KeptInv /\ ApartInv /\ [Next]_vars => ApartInv'
  <2>. SUFFICES ASSUME KeptInv, ApartInv, [Next]_vars PROVE ApartInv'
    OBVIOUS
  <2>1. CASE CoreStarts \/ CoreGets \/ CoreRaises \/ CoreReplies
    BY <2>1, StartingApart, GettingApart, RaisingApart, ReplyingApart
  <2>2. CASE OtherActs
    <3>1. PICK b \in Others : Answers(b, OtherAnswer(b, setting.behaves[b]))
      BY <2>2 DEF OtherActs
    <3>. DEFINE answer == OtherAnswer(b, setting.behaves[b])
    <3>2. /\ UNCHANGED <<search, stream, setting, reply>> /\ b # "stream"
          /\ Answers(b, answer) /\ answer \in {Pending, OtherAnswer(b, setting.behaves[b])}
      BY <2>2, <3>1 DEF OtherActs, mediaVars, Others
    <3>. HIDE DEF answer
    <3>. QED BY <3>2, NotStreamApart
  <2>3. CASE StreamActs
    BY <2>3, StreamAskedApart, StreamAnswersApart, StreamGoesApart DEF StreamActs
  <2>4. CASE M3UActs \/ Crash
    BY <2>4, M3UApart, CrashApart
  <2>5. CASE UNCHANGED vars
    <3>1. UNCHANGED <<search, stream, job, setting, reply>>
      BY <2>5 DEF vars, mediaVars, coreVars
    <3>2. StreamWorks'
      BY <3>1 DEF ApartInv, StreamWorks, IsWaitedFor, IsAskedNow, OwnUris
    <3>. QED BY <3>1, <3>2, StayingApart
  <2>. QED BY <2>1, <2>2, <2>3, <2>4, <2>5 DEF Next, Over
<1>3. ApartInv => FailuresStayApart
  BY DEF ApartInv
<1>. QED BY <1>1, <1>2, <1>3, KeptAlways, PTL DEF Spec

================================================================================
