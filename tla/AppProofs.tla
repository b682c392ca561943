------------------------------- MODULE AppProofs -------------------------------
(***************************************************************************)
(* Proofs about the process: what was last set is what is heard, and what  *)
(* is saved at the end, whatever comes between and whoever fails.          *)
(***************************************************************************)
EXTENDS App, SequenceTheorems, TLAPS

-----------------------------------------------------------------------------
(* Mailboxes. *)

\* A sequence, of whatever it has in it.
IsSeq(s) == s \in Seq(Range(s))

OneFrom(b, x) == \A i, j \in DOMAIN b : b[i].from = x /\ b[j].from = x => i = j

OneAdapter(b) ==
    \A i, j \in DOMAIN b : b[i].type = "adapter" /\ b[j].type = "adapter" => i = j

\* No message of that type.
Lacks(b, type) == \A m \in Range(b) : m.type # type

Sets(m, p) == m.type = "set" /\ m.arg.property = p

\* When all of b is handled, p is what is wanted, if that is anything.
Heard(b, p, now, want) ==
    \/ \E i \in DOMAIN b :
          /\ Sets(b[i], p) /\ b[i].arg.level = want
          /\ \A j \in DOMAIN b : j > i => ~Sets(b[j], p)
    \/ /\ \A i \in DOMAIN b : ~Sets(b[i], p)
       /\ want # None => now = want

\* Nothing is set after x has asked.
AsksAfterSets(b, x) ==
    \A i, j \in DOMAIN b : b[i].from = x /\ j > i => b[j].type # "set"

-----------------------------------------------------------------------------
(* The post: who sends what to whom, and waits for the answer. *)

StopFrom(m) == m.type = "stop" /\ m.from \in {None, "main"}

FitsMixer(m) ==
    \/ m.type = "set" /\ m.from \in {None, "core"}
    \/ m.type = "get" /\ m.from = "core"
    \/ m.type \in {"changed", "adapter", "teardown"} /\ m.from = None
    \/ StopFrom(m)

FitsAudio(m) ==
    \/ m.type = "set" /\ m.from = None
    \/ m.type = "get" /\ m.from = "mixer"
    \/ m.type = "set_uri" /\ m.from = "core"
    \/ StopFrom(m)

FitsCore(m) ==
    \/ m.type \in {"setup", "teardown"} /\ m.from \in {None, "main"}
    \/ m.type = "request" /\ m.from \in {None, "web"} /\ m.arg.method \in Methods
    \/ m.type = "changed" /\ m.from = None
    \/ StopFrom(m)

FitsOther(m) == (m.type = "changed" /\ m.from = None) \/ StopFrom(m)

Fits(a, m) ==
    /\ m = Message(m.type, m.from, m.arg)
    /\ a = "mixer" => FitsMixer(m)
    /\ a = "audio" => FitsAudio(m)
    /\ a = "core" => FitsCore(m)
    /\ a \notin {"mixer", "audio", "core"} => FitsOther(m)

\* An asker has one question under way, and waits for its answer.
Questions(bx, an, x) ==
    /\ \A a \in Actors : OneFrom(bx[a], x)
    /\ \A a, b \in Actors : \A m \in Range(bx[a]), n \in Range(bx[b]) :
          m.from = x /\ n.from = x => a = b
    /\ \A a \in Actors : \A m \in Range(bx[a]) : m.from = x => an[x] = Waits

\* Nothing under way from x.
NoneFrom(bx, x) == \A a \in Actors : \A m \in Range(bx[a]) : m.from # x

Post(bx, an) ==
    /\ DOMAIN bx = Actors /\ DOMAIN an = Askers
    /\ \A a \in Actors : IsSeq(bx[a])
    /\ \A a \in Actors : \A m \in Range(bx[a]) : Fits(a, m)
    /\ \A x \in Askers : Questions(bx, an, x)

\* Who is not there has no messages.
NobodyThere(bx) == \A a \in Actors : ~IsUp(a) => bx[a] = << >>

\* The main thread asks core to set up or what it stops.
MainAsks(bx) ==
    NoneFrom(bx, "main") \/ main.at = "setup" \/ (main.at \in Stopping /\ main.asked)

Mail(bx, an) == Post(bx, an) /\ NobodyThere(bx) /\ MainAsks(bx)

\* While the mixer waits for audio, what it was asked is the head of its mailbox.
MixerWaits ==
    /\ ~IsFree("mixer") => box["mixer"] # << >> /\ Head(box["mixer"]).type = "get"
    /\ \A m \in Range(box["audio"]) :
          m.from = "mixer" => m.arg = Head(box["mixer"]).arg
    /\ AsksAfterSets(box["audio"], "mixer")

-----------------------------------------------------------------------------
(* The variables. *)

Early(at) == main.at \in at

\* What is not started yet.
NotStarted ==
    /\ Early({"config", "mixer"}) => status["mixer"] = "none"
    /\ Early({"config", "mixer", "audio"}) => status["audio"] = "none"
    /\ Early({"config", "mixer", "audio", "backends"}) =>
          \A b \in Backends : status[b] = "none"
    /\ Early({"config", "mixer", "audio", "backends", "core"}) => status["core"] = "none"

IsWeb ==
    /\ DOMAIN web = {"state", "callbacks", "clients", "job", "left"}
    /\ DOMAIN web.job = {"client", "socket", "message", "at", "responses"}
    /\ web.job.at \in Nat
    /\ web.job # NoJob => web.job.at # 0
    /\ IsCallable(web.job.message)
    /\ DOMAIN scripts = Clients
    /\ \A c \in Clients :
          /\ IsSeq(scripts[c])
          /\ \A step \in Range(scripts[c]) :
                step.do \in {"send", "post"} => IsCallable(step.message)

IsMixer ==
    /\ DOMAIN mixer = {"setup", "initial"} /\ mixer.setup \in BOOLEAN
    /\ DOMAIN mixer.initial = Properties /\ DOMAIN element = Properties
    /\ DOMAIN wanted = Properties

IsCore ==
    /\ DOMAIN core = {"loaded", "got", "ready"} /\ core.ready \in BOOLEAN
    /\ IsSeq(core.got)

IsMain ==
    /\ status \in [Actors -> Statuses]
    /\ main \in MainType
    /\ Early({"config"}) => ~main.mixer

-----------------------------------------------------------------------------
(* What is heard. *)

\* Mixer and audio are there, and nobody has asked them to stop.
Undisturbed ==
    /\ status["mixer"] # "stopped" /\ Lacks(box["mixer"], "stop")
    /\ status["audio"] # "stopped" /\ Lacks(box["audio"], "stop")

\* They are until it is their turn to stop.
StopsInTurn ==
    main.at \in Starting \union {"config", "stop_frontends", "teardown", "stop_core", "stop_backends"}
        => Undisturbed

\* What is set reaches the element in its order, or waits for the adapter.
SetsArrive ==
    /\ mixer.setup => status["audio"] = "running" /\ status["mixer"] = "running"
    /\ OneAdapter(box["mixer"]) /\ Lacks(box["mixer"], "teardown")
    /\ ~Lacks(box["mixer"], "adapter") => ~mixer.setup /\ status["audio"] = "running"
    /\ ~mixer.setup => Lacks(box["audio"], "set")
    /\ \A p \in Properties :
          IF mixer.setup THEN Heard(box["audio"], p, element[p], wanted[p])
          ELSE mixer.initial[p] = wanted[p]

-----------------------------------------------------------------------------
(* What is saved. *)

\* Core is at something that it asks others for.
CoreBusy ==
    (core.got # << >> \/ ~IsFree("core"))
        => /\ box["core"] # << >> /\ Head(box["core"]).type \in {"setup", "teardown", "request"}
           /\ ~IsBad(Head(box["core"]))

\* Core is asked to save its state while mixer and audio are there.
TeardownInTurn ==
    \A m \in Range(box["core"]) : m.type = "teardown" =>
        /\ Undisturbed
        /\ main.at \in {"teardown", "aborted"}
        /\ main.at = "teardown" => m.from = "main"

Right(value, p) == wanted[p] # None => value = wanted[p]

\* Core asks for the volume, then for the mute.
Asked(n) == IF n = 0 THEN "volume" ELSE "mute"

\* Core saves a state that it can be told.
IsSaving ==
    /\ box["core"] # << >> /\ Head(box["core"]).type = "teardown"
    /\ main.mixer /\ core.ready
    /\ core.got # << >> \/ ~IsFree("core")

\* What core was told holds, and nothing sets another level any more.
ToldWhatHolds ==
    /\ mixer.setup
    /\ Len(core.got) <= 2
    /\ Len(core.got) >= 1 => Right(core.got[1], "volume")
    /\ Len(core.got) = 2 => Right(core.got[2], "mute") /\ IsFree("core")
    /\ core.got # << >> => Lacks(box["mixer"], "set")
    /\ AsksAfterSets(box["mixer"], "core")
    /\ \A m \in Range(box["audio"]) : m.from # "core"
    /\ \A m \in Range(box["mixer"]) :
          m.from = "core" => m.type = "get" /\ m.arg.property = Asked(Len(core.got))
    /\ answers["core"].state # "none" /\ answers["core"] # Waits =>
          /\ answers["core"].state = "value"
          /\ Right(answers["core"].value, Asked(Len(core.got)))
          /\ Lacks(box["mixer"], "set")
    /\ answers["mixer"].state # "none" /\ answers["mixer"] # Waits =>
          /\ answers["mixer"].state = "value"
          /\ Right(answers["mixer"].value, Head(box["mixer"]).arg.property)

SavesRight == IsSaving => ToldWhatHolds

-----------------------------------------------------------------------------
\* The inductive invariant.
StaffInv == Mail(box, answers) /\ NotStarted /\ IsMain
TypeInv == IsWeb /\ IsMixer /\ IsCore
MixerInv == MixerWaits /\ StopsInTurn /\ (Undisturbed => SetsArrive)
CoreInv == CoreBusy /\ TeardownInTurn /\ SavesRight

IInv == StaffInv /\ TypeInv /\ MixerInv /\ CoreInv

-----------------------------------------------------------------------------
(* Sequences. *)

LEMMA IsSeqIn ==
    ASSUME NEW S, NEW s \in Seq(S)
    PROVE  IsSeq(s)
<1>1. Len(s) \in Nat /\ DOMAIN s = 1 .. Len(s) /\ s \in [1 .. Len(s) -> S]
  BY LenProperties
<1>2. s \in [1 .. Len(s) -> Range(s)]
  BY <1>1 DEF Range
<1>. QED BY <1>1, <1>2, SeqDef DEF IsSeq

LEMMA SeqFacts ==
    ASSUME NEW s, IsSeq(s)
    PROVE  /\ Len(s) \in Nat /\ DOMAIN s = 1 .. Len(s)
           /\ s # << >> => Len(s) # 0 /\ 1 \in DOMAIN s /\ Head(s) = s[1] /\ Head(s) \in Range(s)
<1>1. s \in Seq(Range(s))
  BY DEF IsSeq
<1>2. Len(s) \in Nat /\ DOMAIN s = 1 .. Len(s)
  BY <1>1, LenProperties
<1>3. ASSUME s # << >> PROVE Len(s) # 0 /\ Head(s) = s[1]
  BY <1>1, <1>3, EmptySeq
<1>. QED BY <1>2, <1>3 DEF Range

LEMMA EmptyFacts == IsSeq(<< >>) /\ Range(<< >>) = {} /\ DOMAIN << >> = {}
<1>1. << >> \in Seq({}) /\ DOMAIN << >> = {}
  OBVIOUS
<1>. QED BY <1>1, IsSeqIn DEF Range

LEMMA OneFacts ==
    ASSUME NEW m
    PROVE  /\ IsSeq(<<m>>) /\ Range(<<m>>) = {m} /\ DOMAIN <<m>> = {1}
           /\ <<m>>[1] = m /\ Head(<<m>>) = m /\ <<m>> # << >>
<1>1. <<m>> \in Seq({m}) /\ DOMAIN <<m>> = {1} /\ <<m>>[1] = m /\ <<m>> # << >>
  OBVIOUS
<1>2. IsSeq(<<m>>)
  BY <1>1, IsSeqIn
<1>3. Range(<<m>>) = {m}
  BY <1>1 DEF Range
<1>. QED BY <1>1, <1>2, <1>3, SeqFacts

LEMMA AppendFacts ==
    ASSUME NEW s, IsSeq(s), NEW m
    PROVE  /\ IsSeq(Append(s, m)) /\ Range(Append(s, m)) = Range(s) \union {m}
           /\ Append(s, m) # << >>
           /\ Len(s) \in Nat /\ DOMAIN s = 1 .. Len(s)
           /\ Len(Append(s, m)) = Len(s) + 1 /\ DOMAIN Append(s, m) = 1 .. Len(s) + 1
           /\ Append(s, m)[Len(s) + 1] = m
           /\ \A i \in 1 .. Len(s) : Append(s, m)[i] = s[i]
<1>. DEFINE S == Range(s) \union {m}
            t == Append(s, m)
<1>1. s \in Seq(S) /\ m \in S
  BY SeqMonotonic DEF IsSeq
<1>2. /\ t \in Seq(S) /\ Len(t) = Len(s) + 1 /\ Len(s) \in Nat
      /\ DOMAIN s = 1 .. Len(s) /\ DOMAIN t = 1 .. Len(s) + 1
      /\ t[Len(s) + 1] = m /\ t # << >>
      /\ \A i \in 1 .. Len(s) : t[i] = s[i]
  BY <1>1
<1>. HIDE DEF t
<1>3. IsSeq(t)
  BY <1>2, IsSeqIn
<1>4. Range(t) = Range(s) \union {m}
  <2>1. 1 .. Len(s) + 1 = (1 .. Len(s)) \union {Len(s) + 1}
    BY <1>2
  <2>. QED BY <1>2, <2>1 DEF Range
<1>. QED BY <1>2, <1>3, <1>4 DEF t

LEMMA HeadOfAppend ==
    ASSUME NEW s, IsSeq(s), NEW m
    PROVE  Head(Append(s, m)) = IF s = << >> THEN m ELSE Head(s)
<1>1. Head(Append(s, m)) = Append(s, m)[1]
  BY AppendFacts, SeqFacts
<1>2. CASE s = << >>
  BY <1>1, <1>2, OneFacts
<1>3. CASE s # << >>
  <2>1. Head(s) = s[1] /\ 1 \in 1 .. Len(s)
    BY <1>3, SeqFacts
  <2>. QED BY <1>1, <1>3, <2>1, AppendFacts
<1>. QED BY <1>2, <1>3

LEMMA TailFacts ==
    ASSUME NEW s, IsSeq(s), s # << >>
    PROVE  /\ IsSeq(Tail(s)) /\ Range(s) = Range(Tail(s)) \union {Head(s)}
           /\ Head(s) = s[1] /\ Len(s) \in Nat \ {0} /\ DOMAIN s = 1 .. Len(s)
           /\ Len(Tail(s)) = Len(s) - 1 /\ DOMAIN Tail(s) = 1 .. Len(s) - 1
           /\ \A i \in 1 .. Len(s) - 1 : Tail(s)[i] = s[i + 1]
<1>. DEFINE t == Tail(s)
<1>1. s \in Seq(Range(s)) /\ Len(s) \in Nat /\ DOMAIN s = 1 .. Len(s) /\ Len(s) # 0 /\ Head(s) = s[1]
  BY SeqFacts DEF IsSeq
<1>2. /\ t \in Seq(Range(s)) /\ Len(t) = Len(s) - 1
      /\ \A i \in 1 .. Len(t) : t[i] = s[i + 1]
  BY <1>1, HeadTailProperties
<1>. HIDE DEF t
<1>3. IsSeq(t) /\ DOMAIN t = 1 .. Len(s) - 1
  BY <1>2, IsSeqIn, SeqFacts
<1>4. ASSUME NEW m \in Range(s) PROVE m \in Range(t) \union {Head(s)}
  <2>1. PICK i \in 1 .. Len(s) : m = s[i]
    BY <1>1 DEF Range
  <2>2. CASE i = 1
    BY <1>1, <2>1, <2>2
  <2>3. CASE i # 1
    <3>1. i - 1 \in 1 .. Len(s) - 1 /\ (i - 1) + 1 = i
      BY <1>1, <2>3
    <3>2. m = t[i - 1]
      BY <1>2, <2>1, <3>1
    <3>. QED BY <1>3, <3>1, <3>2 DEF Range
  <2>. QED BY <2>2, <2>3
<1>5. ASSUME NEW m \in Range(t) PROVE m \in Range(s)
  <2>1. PICK i \in 1 .. Len(s) - 1 : m = t[i]
    BY <1>3 DEF Range
  <2>2. i + 1 \in 1 .. Len(s) /\ m = s[i + 1]
    BY <1>1, <1>2, <2>1
  <2>. QED BY <1>1, <2>2 DEF Range
<1>6. Head(s) \in Range(s)
  BY <1>1 DEF Range
<1>. QED BY <1>1, <1>2, <1>3, <1>4, <1>5, <1>6 DEF t

-----------------------------------------------------------------------------
(* Messages in a mailbox. *)

LEMMA OneFromAppend ==
    ASSUME NEW b, IsSeq(b), NEW m, NEW x, OneFrom(b, x),
           m.from = x => \A n \in Range(b) : n.from # x
    PROVE  OneFrom(Append(b, m), x)
<1>. DEFINE t == Append(b, m)
            n == Len(b) + 1
<1>1. /\ Len(b) \in Nat /\ DOMAIN b = 1 .. Len(b) /\ DOMAIN t = 1 .. n /\ t[n] = m
      /\ \A i \in 1 .. Len(b) : t[i] = b[i]
  BY AppendFacts
<1>. HIDE DEF t
<1>2. \A i \in DOMAIN t : i \in DOMAIN b \/ i = n
  BY <1>1
<1>3. \A i \in DOMAIN b : b[i] \in Range(b)
  BY DEF Range
<1>4. OneFrom(t, x)
  <2>. SUFFICES ASSUME NEW i \in DOMAIN t, NEW j \in DOMAIN t, t[i].from = x, t[j].from = x
                PROVE  i = j
    BY DEF OneFrom
  <2>1. CASE i \in DOMAIN b /\ j \in DOMAIN b
    BY <1>1, <2>1 DEF OneFrom
  <2>2. CASE i = n \/ j = n
    <3>1. m.from = x
      BY <1>1, <2>2
    <3>. QED BY <1>1, <1>2, <1>3, <3>1
  <2>. QED BY <1>2, <2>1, <2>2
<1>. QED BY <1>4 DEF t

LEMMA OneFromTail ==
    ASSUME NEW b, IsSeq(b), b # << >>, NEW x, OneFrom(b, x)
    PROVE  /\ OneFrom(Tail(b), x)
           /\ Head(b).from = x => \A n \in Range(Tail(b)) : n.from # x
<1>. DEFINE t == Tail(b)
<1>1. /\ Head(b) = b[1] /\ Len(b) \in Nat \ {0} /\ DOMAIN b = 1 .. Len(b)
      /\ DOMAIN t = 1 .. Len(b) - 1 /\ \A i \in 1 .. Len(b) - 1 : t[i] = b[i + 1]
  BY TailFacts
<1>. HIDE DEF t
<1>2. \A i \in DOMAIN t : i \in Int /\ i + 1 \in DOMAIN b /\ i + 1 # 1 /\ 1 \in DOMAIN b /\ t[i] = b[i + 1]
  BY <1>1
<1>3. OneFrom(t, x)
  <2>. SUFFICES ASSUME NEW i \in DOMAIN t, NEW j \in DOMAIN t, t[i].from = x, t[j].from = x
                PROVE  i = j
    BY DEF OneFrom
  <2>1. i + 1 = j + 1
    BY <1>2 DEF OneFrom
  <2>. QED BY <1>2, <2>1
<1>4. ASSUME Head(b).from = x, NEW n \in Range(t), n.from = x PROVE FALSE
  <2>1. PICK i \in DOMAIN t : n = t[i]
    BY DEF Range
  <2>2. i + 1 = 1
    BY <1>1, <1>2, <1>4, <2>1 DEF OneFrom
  <2>. QED BY <1>2, <2>2
<1>. QED BY <1>3, <1>4 DEF t

\* A message more in the mailbox of a: one that nobody waits for, or the
\* question of someone who has no other.
LEMMA PutPost ==
    ASSUME NEW bx, NEW an, Post(bx, an), NEW a \in Actors, NEW m, Fits(a, m),
           NEW an2, DOMAIN an2 = Askers,
           \A x \in Askers : x # m.from => an2[x] = an[x],
           m.from \in Askers => NoneFrom(bx, m.from) /\ an2[m.from] = Waits
    PROVE  Post([bx EXCEPT ![a] = Append(@, m)], an2)
<1>. DEFINE b2 == [bx EXCEPT ![a] = Append(@, m)]
            s == Append(bx[a], m)
<1>1. /\ DOMAIN b2 = Actors /\ b2[a] = s
      /\ \A b \in Actors : b # a => b2[b] = bx[b]
  BY DEF Post
<1>2. IsSeq(bx[a]) /\ IsSeq(s) /\ Range(s) = Range(bx[a]) \union {m}
  BY AppendFacts DEF Post
<1>. HIDE DEF b2, s
<1>3. ASSUME NEW b \in Actors, NEW n \in Range(b2[b])
      PROVE  n \in Range(bx[b]) \/ (b = a /\ n = m)
  BY <1>1, <1>2, <1>3
<1>4. ASSUME NEW b \in Actors PROVE IsSeq(b2[b])
  BY <1>1, <1>2 DEF Post
<1>5. ASSUME NEW b \in Actors, NEW n \in Range(b2[b]) PROVE Fits(b, n)
  BY <1>3, <1>5 DEF Post
<1>6. ASSUME NEW x \in Askers PROVE Questions(b2, an2, x)
  <2>1. Questions(bx, an, x)
    BY DEF Post
  <2>2. m.from = x => \A b \in Actors : \A n \in Range(bx[b]) : n.from # x
    BY DEF NoneFrom
  <2>3. ASSUME NEW b \in Actors PROVE OneFrom(b2[b], x)
    <3>1. CASE b = a
      <4>1. OneFrom(s, x)
        BY <1>2, <2>1, <2>2, OneFromAppend DEF Questions, s
      <4>. QED BY <1>1, <3>1, <4>1
    <3>2. CASE b # a
      BY <1>1, <2>1, <3>2 DEF Questions
    <3>. QED BY <3>1, <3>2
  <2>4. ASSUME NEW b \in Actors, NEW c \in Actors, NEW n \in Range(b2[b]), NEW o \in Range(b2[c]),
               n.from = x, o.from = x
        PROVE  b = c
    BY <1>3, <2>1, <2>2, <2>4 DEF Questions
  <2>5. ASSUME NEW b \in Actors, NEW n \in Range(b2[b]), n.from = x PROVE an2[x] = Waits
    <3>1. CASE m.from = x
      BY <3>1
    <3>2. CASE m.from # x
      BY <1>3, <2>1, <2>5, <3>2 DEF Questions
    <3>. QED BY <3>1, <3>2
  <2>. QED BY <2>3, <2>4, <2>5 DEF Questions
<1>7. Post(b2, an2)
  BY <1>1, <1>4, <1>5, <1>6 DEF Post
<1>. QED BY <1>7 DEF b2

\* The head of the mailbox of a is taken, and answered or not.
LEMMA TakePost ==
    ASSUME NEW bx, NEW an, Post(bx, an), NEW a \in Actors, bx[a] # << >>,
           NEW an2, DOMAIN an2 = Askers,
           \A x \in Askers : x # Head(bx[a]).from => an2[x] = an[x]
    PROVE  Post([bx EXCEPT ![a] = Tail(@)], an2)
<1>. DEFINE b2 == [bx EXCEPT ![a] = Tail(@)]
            s == Tail(bx[a])
<1>1. /\ DOMAIN b2 = Actors /\ b2[a] = s
      /\ \A b \in Actors : b # a => b2[b] = bx[b]
  BY DEF Post
<1>2. IsSeq(bx[a]) /\ IsSeq(s) /\ Range(bx[a]) = Range(s) \union {Head(bx[a])}
  BY TailFacts DEF Post
<1>. HIDE DEF b2, s
<1>3. ASSUME NEW b \in Actors PROVE Range(b2[b]) \subseteq Range(bx[b])
  BY <1>1, <1>2
<1>4. ASSUME NEW b \in Actors PROVE IsSeq(b2[b])
  BY <1>1, <1>2 DEF Post
<1>5. ASSUME NEW b \in Actors, NEW n \in Range(b2[b]) PROVE Fits(b, n)
  BY <1>3 DEF Post
<1>6. ASSUME NEW x \in Askers PROVE Questions(b2, an2, x)
  <2>1. Questions(bx, an, x)
    BY DEF Post
  <2>2. OneFrom(s, x) /\ (Head(bx[a]).from = x => \A n \in Range(s) : n.from # x)
    BY <1>2, <2>1, OneFromTail DEF Questions, s
  <2>3. ASSUME NEW b \in Actors PROVE OneFrom(b2[b], x)
    BY <1>1, <2>1, <2>2 DEF Questions
  <2>4. ASSUME NEW b \in Actors, NEW c \in Actors, NEW n \in Range(b2[b]), NEW o \in Range(b2[c]),
               n.from = x, o.from = x
        PROVE  b = c
    BY <1>3, <2>1, <2>4 DEF Questions
  <2>5. ASSUME NEW b \in Actors, NEW n \in Range(b2[b]), n.from = x PROVE an2[x] = Waits
    <3>1. n \in Range(bx[b]) /\ an[x] = Waits
      BY <1>3, <2>1, <2>5 DEF Questions
    <3>2. Head(bx[a]).from # x
      <4>1. Head(bx[a]) \in Range(bx[a])
        BY <1>2
      <4>2. CASE b = a
        BY <1>1, <2>2, <2>5, <4>2
      <4>3. CASE b # a
        BY <2>1, <2>5, <3>1, <4>1, <4>3 DEF Questions
      <4>. QED BY <4>2, <4>3
    <3>. QED BY <3>1, <3>2
  <2>. QED BY <2>3, <2>4, <2>5 DEF Questions
<1>7. Post(b2, an2)
  BY <1>1, <1>4, <1>5, <1>6 DEF Post
<1>. QED BY <1>7 DEF b2

\* The mailbox of a goes, and who asked a is answered.
LEMMA EmptyPost ==
    ASSUME NEW bx, NEW an, Post(bx, an), NEW a \in Actors, NEW an2, DOMAIN an2 = Askers,
           \A x \in Askers : (\A m \in Range(bx[a]) : m.from # x) => an2[x] = an[x]
    PROVE  Post([bx EXCEPT ![a] = << >>], an2)
<1>. DEFINE b2 == [bx EXCEPT ![a] = << >>]
<1>1. /\ DOMAIN b2 = Actors /\ b2[a] = << >>
      /\ \A b \in Actors : b # a => b2[b] = bx[b]
  BY DEF Post
<1>. HIDE DEF b2
<1>2. ASSUME NEW b \in Actors, NEW n \in Range(b2[b]) PROVE b # a /\ n \in Range(bx[b])
  BY <1>1, <1>2, EmptyFacts
<1>3. ASSUME NEW b \in Actors PROVE IsSeq(b2[b])
  BY <1>1, EmptyFacts DEF Post
<1>4. ASSUME NEW b \in Actors, NEW n \in Range(b2[b]) PROVE Fits(b, n)
  BY <1>2 DEF Post
<1>5. ASSUME NEW x \in Askers PROVE Questions(b2, an2, x)
  <2>1. Questions(bx, an, x)
    BY DEF Post
  <2>2. ASSUME NEW b \in Actors PROVE OneFrom(b2[b], x)
    <3>1. CASE b = a
      BY <1>1, <3>1, EmptyFacts DEF OneFrom
    <3>2. CASE b # a
      BY <1>1, <2>1, <3>2 DEF Questions
    <3>. QED BY <3>1, <3>2
  <2>3. ASSUME NEW b \in Actors, NEW c \in Actors, NEW n \in Range(b2[b]), NEW o \in Range(b2[c]),
               n.from = x, o.from = x
        PROVE  b = c
    BY <1>2, <2>1, <2>3 DEF Questions
  <2>4. ASSUME NEW b \in Actors, NEW n \in Range(b2[b]), n.from = x PROVE an2[x] = Waits
    <3>1. b # a /\ n \in Range(bx[b]) /\ an[x] = Waits
      BY <1>2, <2>1, <2>4 DEF Questions
    <3>2. \A m \in Range(bx[a]) : m.from # x
      BY <2>1, <2>4, <3>1 DEF Questions
    <3>. QED BY <3>1, <3>2
  <2>. QED BY <2>2, <2>3, <2>4 DEF Questions
<1>6. Post(b2, an2)
  BY <1>1, <1>3, <1>4, <1>5 DEF Post
<1>. QED BY <1>6 DEF b2

\* Those who have no question under way go on.
LEMMA AnswersPost ==
    ASSUME NEW bx, NEW an, Post(bx, an), NEW an2, DOMAIN an2 = Askers,
           \A x \in Askers : NoneFrom(bx, x) \/ an2[x] = an[x]
    PROVE  Post(bx, an2)
<1>1. ASSUME NEW x \in Askers PROVE Questions(bx, an2, x)
  BY DEF Post, Questions, NoneFrom
<1>. QED BY <1>1 DEF Post

LEMMA NothingUnderWay ==
    ASSUME NEW bx, NEW an, Post(bx, an), NEW x \in Askers, an[x] # Waits
    PROVE  NoneFrom(bx, x)
BY DEF Post, Questions, NoneFrom

LEMMA SamePost ==
    ASSUME NEW bx, NEW an, Post(bx, an), NEW b2, DOMAIN b2 = Actors,
           \A a \in Actors : b2[a] = bx[a]
    PROVE  Post(b2, an)
<1>1. ASSUME NEW a \in Actors PROVE IsSeq(b2[a]) /\ \A m \in Range(b2[a]) : Fits(a, m)
  BY DEF Post
<1>2. ASSUME NEW x \in Askers PROVE Questions(b2, an, x)
  <2>1. Questions(bx, an, x)
    BY DEF Post
  <2>2. (\A a \in Actors : OneFrom(b2[a], x))
    BY <2>1 DEF Questions
  <2>. QED BY <2>1, <2>2 DEF Questions
<1>. QED BY <1>1, <1>2 DEF Post

LEMMA MessageFacts ==
    ASSUME NEW type, NEW from, NEW arg
    PROVE  LET m == Message(type, from, arg)
           IN  /\ m.type = type /\ m.from = from /\ m.arg = arg
               /\ m = Message(m.type, m.from, m.arg)
BY DEF Message

LEMMA NotWaiting ==
    ASSUME NEW x \in Askers, IsFree(x) \/ IsAnswered(x)
    PROVE  answers[x] # Waits
BY DEF IsFree, IsAnswered, Waits

LEMMA PutFits ==
    ASSUME NEW bx, NEW an, Post(bx, an), NEW a \in Actors, NEW m, Fits(a, m), m.from = None
    PROVE  Post(Put(bx, a, m), an)
<1>1. m.from \notin Askers /\ DOMAIN an = Askers
  BY NamesAssumption DEF Post
<1>2. Post([bx EXCEPT ![a] = Append(@, m)], an)
  BY <1>1, PutPost
<1>. QED BY <1>2 DEF Put

LEMMA AskFits ==
    ASSUME NEW bx, Post(bx, answers), NEW x \in Askers, NoneFrom(bx, x),
           NEW a \in Actors, NEW m, Fits(a, m), m.from = x
    PROVE  Post(Put(bx, a, m), Asking(x, a))
<1>1. DOMAIN answers = Askers
  BY DEF Post
<1>2. CASE IsUp(a)
  <2>. DEFINE an2 == Asking(x, a)
  <2>1. DOMAIN an2 = Askers /\ an2[x] = Waits /\ \A y \in Askers : y # x => an2[y] = answers[y]
    BY <1>1, <1>2 DEF Asking
  <2>. HIDE DEF an2
  <2>2. Post([bx EXCEPT ![a] = Append(@, m)], an2)
    BY <2>1, PutPost
  <2>. QED BY <1>2, <2>2 DEF Put, an2
<1>3. CASE ~IsUp(a)
  <2>. DEFINE an2 == Asking(x, a)
  <2>1. DOMAIN an2 = Askers /\ \A y \in Askers : NoneFrom(bx, y) \/ an2[y] = answers[y]
    BY <1>1, <1>3 DEF Asking
  <2>. HIDE DEF an2
  <2>2. Post(bx, an2)
    BY <2>1, AnswersPost
  <2>. QED BY <1>3, <2>2 DEF Put, an2
<1>. QED BY <1>2, <1>3

LEMMA TakenFits ==
    ASSUME Post(box, answers), NEW a \in Actors, box[a] # << >>, NEW an,
           DOMAIN an = Askers, \A x \in Askers : x # Head(box[a]).from => an[x] = answers[x]
    PROVE  Post(Taken(a), an)
BY TakePost DEF Taken

LEMMA TakenPost ==
    ASSUME Post(box, answers), NEW a \in Actors, box[a] # << >>
    PROVE  Post(Taken(a), answers)
BY TakenFits DEF Post

LEMMA AnsweredPost ==
    ASSUME Post(box, answers), NEW a \in Actors, box[a] # << >>, NEW v
    PROVE  Post(Taken(a), Answered(Head(box[a]), v))
<1>1. DOMAIN answers = Askers
  BY DEF Post
<1>2. /\ DOMAIN Answered(Head(box[a]), v) = Askers
      /\ \A x \in Askers : x # Head(box[a]).from => Answered(Head(box[a]), v)[x] = answers[x]
  BY <1>1 DEF Answered
<1>. QED BY <1>2, TakenFits

LEMMA StopsPost ==
    ASSUME Post(box, answers), NEW a \in Actors, box[a] # << >>
    PROVE  Post([box EXCEPT ![a] = << >>], Ended(a))
<1>1. DOMAIN Ended(a) = Askers
  BY DEF Ended
<1>2. ASSUME NEW x \in Askers, \A m \in Range(box[a]) : m.from # x
      PROVE  Ended(a)[x] = answers[x]
  <2>1. IsSeq(box[a])
    BY DEF Post
  <2>2. Head(box[a]) \in Range(box[a]) /\ DOMAIN box[a] = 1 .. Len(box[a]) /\ Len(box[a]) \in Nat
    BY <2>1, SeqFacts
  <2>3. \A i \in 2 .. Len(box[a]) : box[a][i] \in Range(box[a])
    BY <2>2 DEF Range
  <2>. QED BY <1>2, <2>2, <2>3 DEF Ended
<1>. QED BY <1>1, <1>2, EmptyPost

-----------------------------------------------------------------------------
(* When the main thread is interrupted. *)

LEMMA ForgottenFacts ==
    ASSUME Post(box, answers), NEW a \in Actors
    PROVE  /\ DOMAIN Forgotten = Actors
           /\ IsSeq(Forgotten[a]) /\ DOMAIN Forgotten[a] = DOMAIN box[a]
           /\ \A i \in DOMAIN box[a] :
                 /\ Forgotten[a][i].type = box[a][i].type
                 /\ Forgotten[a][i].arg = box[a][i].arg
                 /\ Forgotten[a][i].from = IF box[a][i].from = "main" THEN None ELSE box[a][i].from
                 /\ Fits(a, Forgotten[a][i])
           /\ box[a] = << >> => Forgotten[a] = << >>
           /\ box[a] # << >> => /\ Forgotten[a] # << >>
                                /\ Head(Forgotten[a]).type = Head(box[a]).type
                                /\ Head(Forgotten[a]).arg = Head(box[a]).arg
<1>. DEFINE s == Forgotten[a]
            b == box[a]
<1>0. IsSeq(b) /\ \A m \in Range(b) : Fits(a, m)
  BY DEF Post
<1>1. /\ Len(b) \in Nat /\ DOMAIN b = 1 .. Len(b)
      /\ \A i \in DOMAIN b : b[i] \in Range(b)
  BY <1>0, SeqFacts DEF Range
<1>2. /\ DOMAIN Forgotten = Actors
      /\ s = [i \in DOMAIN b |-> IF b[i].from = "main" THEN [b[i] EXCEPT !.from = None] ELSE b[i]]
  BY DEF Forgotten
<1>. HIDE DEF s, b
<1>3. ASSUME NEW i \in DOMAIN b
      PROVE  /\ s[i].type = b[i].type /\ s[i].arg = b[i].arg
             /\ s[i].from = (IF b[i].from = "main" THEN None ELSE b[i].from)
             /\ Fits(a, s[i])
  <2>1. Fits(a, b[i]) /\ b[i] = Message(b[i].type, b[i].from, b[i].arg)
    BY <1>0, <1>1 DEF Fits
  <2>2. CASE b[i].from # "main"
    BY <1>2, <2>1, <2>2
  <2>3. CASE b[i].from = "main"
    <3>. DEFINE m == b[i]
    <3>1. s[i] = [m EXCEPT !.from = None]
      BY <1>2, <2>3
    <3>2. s[i] = Message(m.type, None, m.arg)
      <4>1. m = Message(m.type, m.from, m.arg)
        BY <2>1
      <4>. QED BY <3>1, <4>1 DEF Message
    <3>3. s[i].type = m.type /\ s[i].from = None /\ s[i].arg = m.arg
      BY <3>2, MessageFacts
    <3>4. s[i] = Message(s[i].type, s[i].from, s[i].arg)
      BY <3>2, <3>3
    <3>5. Fits(a, m) /\ m.from = "main"
      BY <2>1, <2>3
    <3>. HIDE DEF m
    <3>6. "main" # None
      BY NamesAssumption DEF Askers
    <3>7. Fits(a, s[i])
      BY <3>3, <3>4, <3>5, <3>6 DEF Fits, FitsMixer, FitsAudio, FitsCore, FitsOther, StopFrom
    <3>. QED BY <2>3, <3>3, <3>7 DEF m
  <2>. QED BY <2>2, <2>3
<1>4. s \in Seq(Range(s)) /\ DOMAIN s = 1 .. Len(b)
  <2>1. DOMAIN s = 1 .. Len(b)
    BY <1>1, <1>2
  <2>2. s \in [1 .. Len(b) -> Range(s)]
    BY <1>2, <2>1 DEF Range
  <2>. QED BY <1>1, <2>1, <2>2, SeqDef
<1>5. IsSeq(s)
  BY <1>4 DEF IsSeq
<1>6. b = << >> => s = << >>
  <2>1. ASSUME b = << >> PROVE Len(s) = 0
    <3>1. DOMAIN b = {}
      BY <2>1, EmptyFacts
    <3>. QED BY <1>1, <1>2, <1>5, <3>1, SeqFacts
  <2>. QED BY <2>1, <1>5, EmptySeq DEF IsSeq
<1>7. b # << >> => s # << >> /\ Head(s) = s[1] /\ Head(b) = b[1] /\ 1 \in DOMAIN b
  <2>1. ASSUME b # << >> PROVE 1 \in DOMAIN b
    BY <2>1, <1>0, SeqFacts
  <2>2. ASSUME s = << >> PROVE DOMAIN s = {}
    BY <2>2, EmptyFacts
  <2>. QED BY <2>1, <2>2, <1>0, <1>2, <1>5, SeqFacts
<1>8. DOMAIN s = DOMAIN b
  BY <1>2
<1>. QED BY <1>2, <1>3, <1>5, <1>6, <1>7, <1>8 DEF s, b

LEMMA ForgottenPost ==
    ASSUME Post(box, answers)
    PROVE  /\ Post(Forgotten, NoLongerWaiting)
           /\ \A a \in Actors : \A m \in Range(Forgotten[a]) : m.from # "main"
<1>. DEFINE an == NoLongerWaiting
<1>0. "main" # None
  BY NamesAssumption DEF Askers
<1>1. /\ DOMAIN Forgotten = Actors /\ DOMAIN an = Askers
      /\ \A x \in Askers : x # "main" => an[x] = answers[x]
  BY DEF NoLongerWaiting, Forgotten, Post
<1>2. ASSUME NEW a \in Actors, NEW m \in Range(Forgotten[a])
      PROVE  /\ Fits(a, m) /\ m.from # "main"
             /\ m.from \in Askers => \E n \in Range(box[a]) : n.from = m.from
  <2>1. PICK i \in DOMAIN box[a] : m = Forgotten[a][i]
    BY ForgottenFacts DEF Range
  <2>2. box[a][i] \in Range(box[a])
    BY DEF Range
  <2>3. Fits(a, m) /\ m.from = (IF box[a][i].from = "main" THEN None ELSE box[a][i].from)
    BY <2>1, ForgottenFacts
  <2>. QED BY <1>0, <2>2, <2>3, NamesAssumption
<1>3. ASSUME NEW a \in Actors PROVE IsSeq(Forgotten[a])
  BY ForgottenFacts
<1>4. ASSUME NEW x \in Askers PROVE Questions(Forgotten, an, x)
  <2>1. Questions(box, answers, x)
    BY DEF Post
  <2>2. ASSUME NEW a \in Actors PROVE OneFrom(Forgotten[a], x)
    <3>. SUFFICES ASSUME NEW i \in DOMAIN box[a], NEW j \in DOMAIN box[a],
                         Forgotten[a][i].from = x, Forgotten[a][j].from = x
                  PROVE  i = j
      BY ForgottenFacts DEF OneFrom
    <3>1. box[a][i].from = x /\ box[a][j].from = x
      BY <1>0, ForgottenFacts, NamesAssumption
    <3>. QED BY <2>1, <3>1 DEF Questions, OneFrom
  <2>3. ASSUME NEW a \in Actors, NEW b \in Actors, NEW m \in Range(Forgotten[a]),
               NEW n \in Range(Forgotten[b]), m.from = x, n.from = x
        PROVE  a = b
    BY <1>2, <2>1, <2>3 DEF Questions
  <2>4. ASSUME NEW a \in Actors, NEW m \in Range(Forgotten[a]), m.from = x PROVE an[x] = Waits
    BY <1>1, <1>2, <2>1, <2>4 DEF Questions
  <2>. QED BY <2>2, <2>3, <2>4 DEF Questions
<1>5. Post(Forgotten, an)
  BY <1>1, <1>2, <1>3, <1>4 DEF Post
<1>. QED BY <1>2, <1>5

-----------------------------------------------------------------------------
(* What is in a mailbox when a message comes or goes. *)

LEMMA LacksFacts ==
    ASSUME NEW b, IsSeq(b), NEW type
    PROVE  /\ \A m : Lacks(Append(b, m), type) <=> Lacks(b, type) /\ m.type # type
           /\ b # << >> => (Lacks(b, type) <=> Lacks(Tail(b), type) /\ Head(b).type # type)
           /\ Lacks(b, type) <=> \A i \in DOMAIN b : b[i].type # type
<1>1. ASSUME NEW m PROVE Lacks(Append(b, m), type) <=> Lacks(b, type) /\ m.type # type
  BY AppendFacts DEF Lacks
<1>2. ASSUME b # << >> PROVE Lacks(b, type) <=> Lacks(Tail(b), type) /\ Head(b).type # type
  BY <1>2, TailFacts DEF Lacks
<1>3. Lacks(b, type) <=> \A i \in DOMAIN b : b[i].type # type
  BY DEF Lacks, Range
<1>. QED BY <1>1, <1>2, <1>3

LEMMA LacksForgotten ==
    ASSUME Post(box, answers), NEW a \in Actors, NEW type
    PROVE  Lacks(Forgotten[a], type) <=> Lacks(box[a], type)
<1>1. IsSeq(box[a]) /\ IsSeq(Forgotten[a])
  BY ForgottenFacts DEF Post
<1>2. /\ DOMAIN Forgotten[a] = DOMAIN box[a]
      /\ \A i \in DOMAIN box[a] : Forgotten[a][i].type = box[a][i].type
  BY ForgottenFacts
<1>. QED BY <1>1, <1>2, LacksFacts

LEMMA AdapterAppend ==
    ASSUME NEW b, IsSeq(b), NEW m, OneAdapter(b), m.type = "adapter" => Lacks(b, "adapter")
    PROVE  OneAdapter(Append(b, m))
<1>. DEFINE t == Append(b, m)
            n == Len(b) + 1
<1>1. /\ DOMAIN b = 1 .. Len(b) /\ DOMAIN t = 1 .. n /\ t[n] = m /\ Len(b) \in Nat
      /\ \A i \in 1 .. Len(b) : t[i] = b[i]
  BY AppendFacts
<1>. HIDE DEF t
<1>2. \A i \in DOMAIN t : (i \in DOMAIN b /\ t[i] = b[i]) \/ (i = n /\ t[i] = m)
  BY <1>1
<1>3. m.type = "adapter" => \A i \in DOMAIN b : b[i].type # "adapter"
  BY LacksFacts
<1>4. OneAdapter(t)
  BY <1>2, <1>3 DEF OneAdapter
<1>. QED BY <1>4 DEF t

LEMMA AdapterTail ==
    ASSUME NEW b, IsSeq(b), b # << >>, OneAdapter(b)
    PROVE  /\ OneAdapter(Tail(b))
           /\ Head(b).type = "adapter" => Lacks(Tail(b), "adapter")
<1>. DEFINE t == Tail(b)
<1>1. /\ Head(b) = b[1] /\ Len(b) \in Nat \ {0} /\ DOMAIN b = 1 .. Len(b)
      /\ DOMAIN t = 1 .. Len(b) - 1 /\ \A i \in 1 .. Len(b) - 1 : t[i] = b[i + 1]
  BY TailFacts
<1>2. IsSeq(t)
  BY TailFacts
<1>. HIDE DEF t
<1>3. \A i \in DOMAIN t : i \in Int /\ i + 1 \in DOMAIN b /\ i + 1 # 1 /\ 1 \in DOMAIN b /\ t[i] = b[i + 1]
  BY <1>1
<1>4. OneAdapter(t)
  <2>. SUFFICES ASSUME NEW i \in DOMAIN t, NEW j \in DOMAIN t,
                       t[i].type = "adapter", t[j].type = "adapter"
                PROVE  i = j
    BY DEF OneAdapter
  <2>1. i + 1 = j + 1
    BY <1>3 DEF OneAdapter
  <2>. QED BY <1>3, <2>1
<1>5. ASSUME Head(b).type = "adapter", NEW i \in DOMAIN t PROVE t[i].type # "adapter"
  BY <1>1, <1>3, <1>5 DEF OneAdapter
<1>6. Head(b).type = "adapter" => Lacks(t, "adapter")
  BY <1>2, <1>5, LacksFacts
<1>. QED BY <1>4, <1>6 DEF t

LEMMA AdapterForgotten ==
    ASSUME Post(box, answers), NEW a \in Actors, OneAdapter(box[a])
    PROVE  OneAdapter(Forgotten[a])
BY ForgottenFacts DEF OneAdapter

LEMMA AsksAppend ==
    ASSUME NEW b, IsSeq(b), NEW m, NEW x, AsksAfterSets(b, x),
           m.type = "set" => \A n \in Range(b) : n.from # x
    PROVE  AsksAfterSets(Append(b, m), x)
<1>. DEFINE t == Append(b, m)
            n == Len(b) + 1
<1>1. /\ DOMAIN b = 1 .. Len(b) /\ DOMAIN t = 1 .. n /\ t[n] = m /\ Len(b) \in Nat
      /\ \A i \in 1 .. Len(b) : t[i] = b[i]
  BY AppendFacts
<1>. HIDE DEF t
<1>2. \A i \in DOMAIN t : \/ i \in DOMAIN b /\ t[i] = b[i] /\ t[i] \in Range(b)
                          \/ i = n /\ t[i] = m /\ \A j \in DOMAIN t : ~(j > i)
  BY <1>1 DEF Range
<1>3. AsksAfterSets(t, x)
  BY <1>2 DEF AsksAfterSets
<1>. QED BY <1>3 DEF t

LEMMA AsksTail ==
    ASSUME NEW b, IsSeq(b), b # << >>, NEW x, AsksAfterSets(b, x)
    PROVE  /\ AsksAfterSets(Tail(b), x)
           /\ Head(b).from = x => Lacks(Tail(b), "set")
<1>. DEFINE t == Tail(b)
<1>1. /\ Head(b) = b[1] /\ Len(b) \in Nat \ {0} /\ DOMAIN b = 1 .. Len(b)
      /\ DOMAIN t = 1 .. Len(b) - 1 /\ \A i \in 1 .. Len(b) - 1 : t[i] = b[i + 1]
  BY TailFacts
<1>2. IsSeq(t)
  BY TailFacts
<1>. HIDE DEF t
<1>3. \A i \in DOMAIN t : i \in Int /\ i + 1 \in DOMAIN b /\ i + 1 > 1 /\ 1 \in DOMAIN b /\ t[i] = b[i + 1]
  BY <1>1
<1>4. AsksAfterSets(t, x)
  <2>. SUFFICES ASSUME NEW i \in DOMAIN t, NEW j \in DOMAIN t, t[i].from = x, j > i
                PROVE  t[j].type # "set"
    BY DEF AsksAfterSets
  <2>1. i + 1 \in DOMAIN b /\ j + 1 \in DOMAIN b /\ j + 1 > i + 1
    BY <1>3
  <2>. QED BY <1>3, <2>1 DEF AsksAfterSets
<1>5. ASSUME Head(b).from = x, NEW i \in DOMAIN t PROVE t[i].type # "set"
  BY <1>1, <1>3, <1>5 DEF AsksAfterSets
<1>6. Head(b).from = x => Lacks(t, "set")
  BY <1>2, <1>5, LacksFacts
<1>. QED BY <1>4, <1>6 DEF t

LEMMA AsksForgotten ==
    ASSUME Post(box, answers), NEW a \in Actors, NEW x \in Askers, x # "main",
           AsksAfterSets(box[a], x)
    PROVE  AsksAfterSets(Forgotten[a], x)
<1>1. \A i \in DOMAIN box[a] : Forgotten[a][i].from = x => box[a][i].from = x
  BY ForgottenFacts, NamesAssumption
<1>. QED BY <1>1, ForgottenFacts DEF AsksAfterSets

LEMMA HeardAppend ==
    ASSUME NEW b, IsSeq(b), NEW m, NEW p, NEW now, NEW want
    PROVE  /\ Sets(m, p) => Heard(Append(b, m), p, now, m.arg.level)
           /\ ~Sets(m, p) /\ Heard(b, p, now, want) => Heard(Append(b, m), p, now, want)
<1>. DEFINE t == Append(b, m)
            n == Len(b) + 1
<1>1. /\ DOMAIN b = 1 .. Len(b) /\ DOMAIN t = 1 .. n /\ t[n] = m /\ Len(b) \in Nat
      /\ \A i \in 1 .. Len(b) : t[i] = b[i]
  BY AppendFacts
<1>. HIDE DEF t
<1>2. \A i \in DOMAIN t : \/ i \in DOMAIN b /\ t[i] = b[i]
                          \/ i = n /\ t[i] = m
  BY <1>1
<1>3. n \in DOMAIN t /\ \A j \in DOMAIN t : ~(j > n)
  BY <1>1
<1>4. \A i \in DOMAIN b : i \in DOMAIN t /\ t[i] = b[i]
  BY <1>1
<1>5. Sets(m, p) => Heard(t, p, now, m.arg.level)
  BY <1>1, <1>3 DEF Heard
<1>6. ASSUME ~Sets(m, p), Heard(b, p, now, want) PROVE Heard(t, p, now, want)
  <2>1. CASE \E i \in DOMAIN b : /\ Sets(b[i], p) /\ b[i].arg.level = want
                                 /\ \A j \in DOMAIN b : j > i => ~Sets(b[j], p)
    <3>1. PICK i \in DOMAIN b : /\ Sets(b[i], p) /\ b[i].arg.level = want
                                /\ \A j \in DOMAIN b : j > i => ~Sets(b[j], p)
      BY <2>1
    <3>2. \A j \in DOMAIN t : j > i => ~Sets(t[j], p)
      BY <1>2, <1>6, <3>1
    <3>3. i \in DOMAIN t /\ Sets(t[i], p) /\ t[i].arg.level = want
      BY <1>4, <3>1
    <3>. QED BY <3>2, <3>3 DEF Heard
  <2>2. CASE (\A i \in DOMAIN b : ~Sets(b[i], p)) /\ (want # None => now = want)
    <3>1. \A i \in DOMAIN t : ~Sets(t[i], p)
      BY <1>2, <1>6, <2>2
    <3>. QED BY <2>2, <3>1 DEF Heard
  <2>. QED BY <1>6, <2>1, <2>2 DEF Heard
<1>. QED BY <1>5, <1>6 DEF t

LEMMA HeardTail ==
    ASSUME NEW b, IsSeq(b), b # << >>, NEW p, NEW now, NEW want, Heard(b, p, now, want)
    PROVE  /\ Sets(Head(b), p) => Heard(Tail(b), p, Head(b).arg.level, want)
           /\ ~Sets(Head(b), p) => Heard(Tail(b), p, now, want)
<1>. DEFINE t == Tail(b)
            level == Head(b).arg.level
<1>1. /\ Head(b) = b[1] /\ Len(b) \in Nat \ {0} /\ DOMAIN b = 1 .. Len(b)
      /\ DOMAIN t = 1 .. Len(b) - 1 /\ \A i \in 1 .. Len(b) - 1 : t[i] = b[i + 1]
  BY TailFacts
<1>. HIDE DEF t
<1>2. \A i \in DOMAIN t : i \in Int /\ i + 1 \in DOMAIN b /\ i + 1 > 1 /\ t[i] = b[i + 1]
  BY <1>1
<1>3. 1 \in DOMAIN b /\ \A i \in DOMAIN b : i # 1 => i - 1 \in DOMAIN t /\ b[i] = t[i - 1]
  BY <1>1
<1>4. CASE \E i \in DOMAIN b : /\ Sets(b[i], p) /\ b[i].arg.level = want
                               /\ \A j \in DOMAIN b : j > i => ~Sets(b[j], p)
  <2>1. PICK i \in DOMAIN b : /\ Sets(b[i], p) /\ b[i].arg.level = want
                              /\ \A j \in DOMAIN b : j > i => ~Sets(b[j], p)
    BY <1>4
  <2>2. CASE i = 1
    <3>1. Sets(Head(b), p) /\ level = want
      BY <1>1, <2>1, <2>2
    <3>2. \A j \in DOMAIN t : ~Sets(t[j], p)
      BY <1>2, <2>1, <2>2
    <3>. QED BY <3>1, <3>2 DEF Heard, t
  <2>3. CASE i # 1
    <3>1. i - 1 \in DOMAIN t /\ Sets(t[i - 1], p) /\ t[i - 1].arg.level = want /\ i \in Int
      BY <1>1, <1>3, <2>1, <2>3
    <3>2. \A j \in DOMAIN t : j > i - 1 => ~Sets(t[j], p)
      BY <1>2, <2>1, <3>1
    <3>3. \A v : Heard(t, p, v, want)
      BY <3>1, <3>2 DEF Heard
    <3>. QED BY <3>3 DEF t
  <2>. QED BY <2>2, <2>3
<1>5. CASE (\A i \in DOMAIN b : ~Sets(b[i], p)) /\ (want # None => now = want)
  <2>1. ~Sets(Head(b), p)
    BY <1>1, <1>3, <1>5
  <2>2. \A j \in DOMAIN t : ~Sets(t[j], p)
    BY <1>2, <1>5
  <2>. QED BY <1>5, <2>1, <2>2 DEF Heard, t
<1>. QED BY <1>4, <1>5 DEF Heard

\* With nothing left to be set.
LEMMA HeardIfNone ==
    ASSUME NEW b, IsSeq(b), Lacks(b, "set"), NEW p, NEW now, NEW want
    PROVE  Heard(b, p, now, want) <=> (want # None => now = want)
<1>1. \A i \in DOMAIN b : ~Sets(b[i], p)
  BY LacksFacts DEF Sets
<1>. QED BY <1>1 DEF Heard

LEMMA EmptyLacks ==
    ASSUME NEW type, NEW x
    PROVE  Lacks(<< >>, type) /\ OneAdapter(<< >>) /\ AsksAfterSets(<< >>, x)
BY EmptyFacts DEF Lacks, OneAdapter, AsksAfterSets

LEMMA HeardForgotten ==
    ASSUME Post(box, answers), NEW a \in Actors, NEW p, NEW now, NEW want,
           Heard(box[a], p, now, want)
    PROVE  Heard(Forgotten[a], p, now, want)
<1>. DEFINE b == box[a]
            t == Forgotten[a]
<1>1. /\ DOMAIN t = DOMAIN b
      /\ \A i \in DOMAIN b : (Sets(t[i], p) <=> Sets(b[i], p)) /\ t[i].arg.level = b[i].arg.level
  BY ForgottenFacts DEF Sets
<1>. HIDE DEF t, b
<1>2. Heard(b, p, now, want)
  BY DEF b
<1>3. Heard(t, p, now, want)
  BY <1>1, <1>2 DEF Heard
<1>. QED BY <1>3 DEF t

-----------------------------------------------------------------------------
(* The mail, when one sends or handles a message and nobody comes or goes. *)

LEMMA PutBox ==
    ASSUME NEW bx, DOMAIN bx = Actors, NEW a \in Actors, NEW m
    PROVE  /\ DOMAIN Put(bx, a, m) = Actors
           /\ Put(bx, a, m)[a] = IF IsUp(a) THEN Append(bx[a], m) ELSE bx[a]
           /\ \A b \in Actors : b # a => Put(bx, a, m)[b] = bx[b]
BY DEF Put

LEMMA TakenBox ==
    ASSUME DOMAIN box = Actors, NEW a \in Actors
    PROVE  /\ DOMAIN Taken(a) = Actors /\ Taken(a)[a] = Tail(box[a])
           /\ \A b \in Actors : b # a => Taken(a)[b] = box[b]
BY DEF Taken

LEMMA NoneAfterPut ==
    ASSUME NEW bx, NEW an, Post(bx, an), NEW a \in Actors, NEW m, NEW x,
           m.from # x, NoneFrom(bx, x)
    PROVE  NoneFrom(Put(bx, a, m), x)
<1>1. DOMAIN bx = Actors /\ Range(Append(bx[a], m)) = Range(bx[a]) \union {m}
  BY AppendFacts DEF Post
<1>2. ASSUME NEW b \in Actors, NEW n \in Range(Put(bx, a, m)[b]) PROVE n.from # x
  <2>1. n \in Range(bx[b]) \/ n = m
    BY <1>1, <1>2, PutBox
  <2>. QED BY <2>1 DEF NoneFrom
<1>. QED BY <1>2 DEF NoneFrom

LEMMA NoneAfterTaken ==
    ASSUME Post(box, answers), NEW a \in Actors, box[a] # << >>, NEW x, NoneFrom(box, x)
    PROVE  NoneFrom(Taken(a), x)
<1>1. DOMAIN box = Actors /\ Range(box[a]) = Range(Tail(box[a])) \union {Head(box[a])}
  BY TailFacts DEF Post
<1>2. ASSUME NEW b \in Actors, NEW n \in Range(Taken(a)[b]) PROVE n.from # x
  <2>1. n \in Range(box[b])
    BY <1>1, <1>2, TakenBox
  <2>. QED BY <2>1 DEF NoneFrom
<1>. QED BY <1>2 DEF NoneFrom

LEMMA MailPut ==
    ASSUME NEW bx, NEW an, Mail(bx, an), NEW a \in Actors, NEW m, Fits(a, m), m.from = None
    PROVE  Mail(Put(bx, a, m), an)
<1>0. Post(bx, an) /\ DOMAIN bx = Actors /\ m.from # "main"
  BY NamesAssumption DEF Mail, Post, Askers
<1>1. Post(Put(bx, a, m), an)
  BY <1>0, PutFits
<1>2. NobodyThere(Put(bx, a, m))
  BY <1>0, PutBox DEF Mail, NobodyThere
<1>3. MainAsks(Put(bx, a, m))
  BY <1>0, NoneAfterPut DEF Mail, MainAsks
<1>. QED BY <1>1, <1>2, <1>3 DEF Mail

LEMMA MailAsk ==
    ASSUME Mail(box, answers), NEW x \in Askers, x # "main", answers[x] # Waits,
           NEW a \in Actors, NEW m, Fits(a, m), m.from = x
    PROVE  Mail(Put(box, a, m), Asking(x, a))
<1>0. Post(box, answers) /\ DOMAIN box = Actors /\ NoneFrom(box, x)
  BY NothingUnderWay DEF Mail, Post
<1>1. Post(Put(box, a, m), Asking(x, a))
  BY <1>0, AskFits
<1>2. NobodyThere(Put(box, a, m))
  BY <1>0, PutBox DEF Mail, NobodyThere
<1>3. MainAsks(Put(box, a, m))
  BY <1>0, NoneAfterPut DEF Mail, MainAsks
<1>. QED BY <1>1, <1>2, <1>3 DEF Mail

LEMMA MailTaken ==
    ASSUME Mail(box, answers), NEW a \in Actors, box[a] # << >>, NEW an, Post(Taken(a), an)
    PROVE  Mail(Taken(a), an)
<1>0. Post(box, answers) /\ DOMAIN box = Actors
  BY DEF Mail, Post
<1>1. IsUp(a)
  BY DEF Mail, NobodyThere
<1>2. NobodyThere(Taken(a))
  BY <1>0, <1>1, TakenBox DEF Mail, NobodyThere
<1>3. MainAsks(Taken(a))
  BY <1>0, NoneAfterTaken DEF Mail, MainAsks
<1>. QED BY <1>2, <1>3 DEF Mail

\* The head of a mailbox is handled, without an answer or with one.
LEMMA MailHandled ==
    ASSUME Mail(box, answers), NEW a \in Actors, box[a] # << >>
    PROVE  /\ Mail(Taken(a), answers)
           /\ \A v : Mail(Taken(a), Answered(Head(box[a]), v))
<1>0. Post(box, answers)
  BY DEF Mail
<1>1. Mail(Taken(a), answers)
  BY <1>0, TakenPost, MailTaken
<1>2. ASSUME NEW v PROVE Mail(Taken(a), Answered(Head(box[a]), v))
  BY <1>0, AnsweredPost, MailTaken
<1>. QED BY <1>1, <1>2

\* Someone goes on.
LEMMA MailGets ==
    ASSUME Mail(box, answers), NEW x \in Askers, answers[x] # Waits, NEW v
    PROVE  Mail(box, [answers EXCEPT ![x] = v])
<1>0. Post(box, answers) /\ DOMAIN answers = Askers /\ NoneFrom(box, x)
  BY NothingUnderWay DEF Mail, Post
<1>1. /\ DOMAIN [answers EXCEPT ![x] = v] = Askers
      /\ \A y \in Askers : NoneFrom(box, y) \/ [answers EXCEPT ![x] = v][y] = answers[y]
  BY <1>0
<1>2. Post(box, [answers EXCEPT ![x] = v])
  BY <1>0, <1>1, AnswersPost
<1>. QED BY <1>2 DEF Mail

\* The staff stays.
LEMMA SameStaff ==
    ASSUME StaffInv, Mail(box', answers'), status' = status, main' = main
    PROVE  StaffInv'
<1>1. NotStarted' /\ IsMain'
  BY DEF StaffInv, NotStarted, IsMain, Early
<1>2. Mail(box, answers)'
  BY DEF Mail, NobodyThere, MainAsks, IsUp
<1>. QED BY <1>1, <1>2 DEF StaffInv

-----------------------------------------------------------------------------
(* What others do leaves the mixer, audio and core as they are. *)

MixerView ==
    <<status["mixer"], status["audio"], box["mixer"], box["audio"], answers["mixer"],
      mixer, element, wanted>>

LEMMA MixerSame ==
    ASSUME MixerView' = MixerView
    PROVE  /\ MixerWaits => MixerWaits'
           /\ Undisturbed <=> Undisturbed'
           /\ SetsArrive => SetsArrive'
<1>1. /\ status'["mixer"] = status["mixer"] /\ status'["audio"] = status["audio"]
      /\ box'["mixer"] = box["mixer"] /\ box'["audio"] = box["audio"]
      /\ answers'["mixer"] = answers["mixer"]
      /\ mixer' = mixer /\ element' = element /\ wanted' = wanted
  BY DEF MixerView
<1>2. MixerWaits => MixerWaits'
  BY <1>1 DEF MixerWaits, IsFree
<1>3. Undisturbed <=> Undisturbed'
  BY <1>1 DEF Undisturbed
<1>4. SetsArrive => SetsArrive'
  BY <1>1 DEF SetsArrive
<1>. QED BY <1>2, <1>3, <1>4

\* Core keeps on with what it does, if what it was told still holds.
LEMMA CoreFrame ==
    ASSUME Post(box, answers), CoreInv, core' = core, main'.mixer = main.mixer, main'.at = main.at,
           IsFree("core") => IsFree("core")',
           \/ box'["core"] = box["core"]
           \/ \E m : m.type # "teardown" /\ box'["core"] = Append(box["core"], m),
           Undisturbed => Undisturbed',
           IsSaving /\ ToldWhatHolds /\ Undisturbed => ToldWhatHolds'
    PROVE  CoreInv'
<1>0. IsSeq(box["core"])
  BY DEF Post, Actors
<1>1. /\ box["core"] # << >> => box'["core"] # << >> /\ Head(box'["core"]) = Head(box["core"])
      /\ \A m \in Range(box'["core"]) : m.type = "teardown" => m \in Range(box["core"])
  <2>1. CASE box'["core"] = box["core"]
    BY <2>1
  <2>2. CASE \E m : m.type # "teardown" /\ box'["core"] = Append(box["core"], m)
    <3>1. PICK m : m.type # "teardown" /\ box'["core"] = Append(box["core"], m)
      BY <2>2
    <3>2. /\ Append(box["core"], m) # << >>
          /\ Range(Append(box["core"], m)) = Range(box["core"]) \union {m}
          /\ box["core"] # << >> => Head(Append(box["core"], m)) = Head(box["core"])
      BY <1>0, AppendFacts, HeadOfAppend
    <3>. QED BY <3>1, <3>2
  <2>. QED BY <2>1, <2>2
<1>2. IsFree("core") => IsFree("core")'
  OBVIOUS
<1>3. CoreBusy'
  BY <1>1, <1>2 DEF CoreInv, CoreBusy
<1>4. TeardownInTurn'
  BY <1>1 DEF CoreInv, TeardownInTurn
<1>5. SavesRight'
  <2>. SUFFICES ASSUME IsSaving' PROVE ToldWhatHolds'
    BY DEF SavesRight
  <2>1. /\ box["core"] # << >> /\ Head(box["core"]).type = "teardown"
        /\ main.mixer /\ core.ready /\ (core.got # << >> \/ ~IsFree("core"))
    BY <1>1, <1>2 DEF CoreInv, CoreBusy, IsSaving
  <2>2. IsSaving
    BY <2>1 DEF IsSaving
  <2>3. Undisturbed
    <3>1. Head(box["core"]) \in Range(box["core"])
      BY <1>0, <2>1, SeqFacts
    <3>. QED BY <2>1, <3>1 DEF CoreInv, TeardownInTurn
  <2>. QED BY <2>2, <2>3 DEF CoreInv, SavesRight
<1>. QED BY <1>3, <1>4, <1>5 DEF CoreInv

LEMMA ToldSame ==
    ASSUME MixerView' = MixerView, core' = core, answers'["core"] = answers["core"], ToldWhatHolds
    PROVE  ToldWhatHolds'
<1>1. /\ box'["mixer"] = box["mixer"] /\ answers'["mixer"] = answers["mixer"]
      /\ box'["audio"] = box["audio"] /\ mixer' = mixer /\ wanted' = wanted
  BY DEF MixerView
<1>2. \A v, p : Right(v, p)' <=> Right(v, p)
  BY <1>1 DEF Right
<1>. QED BY <1>1, <1>2 DEF ToldWhatHolds, IsFree, Right

\* A step of neither.
LEMMA Aside ==
    ASSUME IInv, MixerView' = MixerView, main' = main, core' = core,
           answers'["core"] = answers["core"],
           \/ box'["core"] = box["core"]
           \/ \E m : m.type # "teardown" /\ box'["core"] = Append(box["core"], m)
    PROVE  MixerInv' /\ CoreInv'
<1>1. MixerInv'
  BY MixerSame DEF IInv, MixerInv, StopsInTurn
<1>2. Post(box, answers) /\ CoreInv
  BY DEF IInv, StaffInv, Mail
<1>3. IsFree("core") => IsFree("core")'
  BY DEF IsFree
<1>4. CoreInv'
  BY <1>2, <1>3, MixerSame, ToldSame, CoreFrame
<1>. QED BY <1>1, <1>4

-----------------------------------------------------------------------------
(* The web server, its clients and the frontend. *)

LEMMA GarbageFacts ==
    /\ IsCallable(Garbage)
    /\ NoJob.message = Garbage /\ NoJob.at = 0
    /\ DOMAIN NoJob = {"client", "socket", "message", "at", "responses"}
<1>1. Garbage.requests = << >> /\ Garbage.kind = "garbage"
  BY DEF Garbage
<1>2. << >> \in Seq(Range(<< >>)) /\ Range(<< >>) = {}
  BY EmptyFacts DEF IsSeq
<1>3. IsCallable(Garbage)
  BY <1>1, <1>2 DEF IsCallable
<1>. QED BY <1>3 DEF NoJob

\* Another job is one that is done, or the same one request later.
LEMMA WebKept ==
    ASSUME IsWeb, DOMAIN web' = DOMAIN web, scripts' = scripts,
           \/ web'.job = web.job \/ web'.job = NoJob
           \/ \E r : web'.job = WithAnswer(r)
    PROVE  IsWeb'
<1>1. /\ DOMAIN web'.job = {"client", "socket", "message", "at", "responses"}
      /\ web'.job.at \in Nat /\ IsCallable(web'.job.message)
      /\ web'.job # NoJob => web'.job.at # 0
  <2>1. CASE web'.job = web.job
    BY <2>1 DEF IsWeb
  <2>2. CASE web'.job = NoJob
    BY <2>2, GarbageFacts
  <2>3. CASE \E r : web'.job = WithAnswer(r)
    <3>1. PICK r : web'.job = WithAnswer(r)
      BY <2>3
    <3>2. /\ DOMAIN WithAnswer(r) = {"client", "socket", "message", "at", "responses"}
          /\ WithAnswer(r).at = web.job.at + 1 /\ WithAnswer(r).message = web.job.message
      BY DEF WithAnswer, IsWeb
    <3>3. web.job.at \in Nat /\ IsCallable(web.job.message)
      BY DEF IsWeb
    <3>. QED BY <3>1, <3>2, <3>3
  <2>. QED BY <2>1, <2>2, <2>3
<1>2. IsCallable(web.job.message)' <=> IsCallable(web'.job.message)
  BY DEF IsCallable
<1>3. DOMAIN web' = {"state", "callbacks", "clients", "job", "left"}
  BY DEF IsWeb
<1>4. /\ DOMAIN scripts' = Clients
      /\ \A c \in Clients :
            /\ IsSeq(scripts'[c])
            /\ \A step \in Range(scripts'[c]) :
                  step.do \in {"send", "post"} => IsCallable(step.message)
  BY DEF IsWeb
<1>. QED BY <1>1, <1>2, <1>3, <1>4 DEF IsWeb

\* One that is called is callable.
LEMMA CurrentFacts ==
    ASSUME IsWeb, HasMoreRequests, CanBeCalled
    PROVE  /\ Current.call.method \in Methods
           /\ Current.call.method = "get" => Current.call.property \in Properties
<1>. DEFINE requests == web.job.message.requests
<1>1. requests \in Seq(Range(requests)) /\ web.job.at \in 1 .. Len(requests)
  <2>1. requests \in Seq(Range(requests)) /\ web.job.at \in Nat \ {0}
    BY DEF IsWeb, IsCallable, HasMoreRequests
  <2>. QED BY <2>1 DEF HasMoreRequests
<1>2. Current \in Range(requests)
  <2>1. web.job.at \in DOMAIN requests
    BY <1>1
  <2>. QED BY <2>1 DEF Current, Range
<1>. QED BY <1>2 DEF IsWeb, IsCallable, CanBeCalled

LEMMA RequestFits ==
    ASSUME NEW x \in {None, "web"}, NEW call, call.method \in Methods
    PROVE  Fits("core", Message("request", x, call)) /\ Message("request", x, call).from = x
           /\ Message("request", x, call).type = "request"
<1>. DEFINE m == Message("request", x, call)
<1>1. m.type = "request" /\ m.from = x /\ m.arg = call /\ m = Message(m.type, m.from, m.arg)
  BY MessageFacts
<1>. HIDE DEF m
<1>2. FitsCore(m)
  BY <1>1 DEF FitsCore
<1>3. Fits("core", m)
  BY <1>1, <1>2 DEF Fits
<1>. QED BY <1>1, <1>3 DEF m

\* The web server's threads and the clients.
LEMMA WebStep ==
    ASSUME IInv, actorVars' = actorVars \/ WebAsks \/ WebGets, main' = main, mixerVars' = mixerVars, core' = core,
           IsWeb'
    PROVE  IInv'
<1>0. /\ Mail(box, answers) /\ Post(box, answers) /\ DOMAIN box = Actors /\ DOMAIN answers = Askers
      /\ StaffInv /\ IsWeb
  BY DEF IInv, StaffInv, TypeInv, Mail, Post
<1>1. /\ Mail(box', answers') /\ status' = status
      /\ MixerView' = MixerView /\ answers'["core"] = answers["core"]
      /\ \/ box'["core"] = box["core"]
         \/ \E m : m.type # "teardown" /\ box'["core"] = Append(box["core"], m)
  <2>1. CASE actorVars' = actorVars
    BY <1>0, <2>1 DEF actorVars, mixerVars, MixerView
  <2>2. CASE WebAsks
    <3>. DEFINE tell == Message("request", None, Current.call)
                ask == Message("request", "web", Current.call)
    <3>1. Current.call.method \in Methods
      BY <1>0, <2>2, CurrentFacts DEF WebAsks
    <3>2. /\ Fits("core", tell) /\ tell.from = None /\ tell.type = "request"
          /\ Fits("core", ask) /\ ask.from = "web" /\ ask.type = "request"
      BY <3>1, RequestFits
    <3>3. /\ status' = status
          /\ \/ box' = Put(box, "core", tell) /\ answers' = answers
             \/ box' = Put(box, "core", ask) /\ answers' = Asking("web", "core")
      BY <2>2 DEF WebAsks
    <3>4. answers["web"] # Waits /\ "web" \in Askers /\ "core" \in Actors /\ "mixer" \in Actors /\ "audio" \in Actors
      BY <2>2, NotWaiting DEF WebAsks, Askers, Actors
    <3>. HIDE DEF tell, ask
    <3>5. Mail(box', answers')
      BY <1>0, <3>2, <3>3, <3>4, MailPut, MailAsk
    <3>6. answers'["core"] = answers["core"] /\ answers'["mixer"] = answers["mixer"]
      BY <1>0, <3>3 DEF Asking, Askers
    <3>7. PICK m \in {tell, ask} : box' = Put(box, "core", m)
      BY <3>3
    <3>8. /\ box'["mixer"] = box["mixer"] /\ box'["audio"] = box["audio"]
          /\ (box'["core"] = box["core"] \/ box'["core"] = Append(box["core"], m))
      <4>1. /\ Put(box, "core", m)["core"] = (IF IsUp("core") THEN Append(box["core"], m) ELSE box["core"])
            /\ \A b \in Actors : b # "core" => Put(box, "core", m)[b] = box[b]
        BY <1>0, <3>4, PutBox
      <4>. QED BY <3>4, <3>7, <4>1
    <3>9. m.type # "teardown"
      BY <3>2
    <3>. QED BY <3>3, <3>5, <3>6, <3>8, <3>9 DEF MixerView, mixerVars
  <2>3. CASE WebGets
    <3>1. "web" \in Askers /\ answers["web"] # Waits
      BY <2>3, NotWaiting DEF WebGets, Askers
    <3>2. /\ status' = status /\ box' = box /\ answers' = [answers EXCEPT !["web"] = NoAnswer]
      BY <2>3 DEF WebGets
    <3>3. Mail(box', answers')
      BY <1>0, <3>1, <3>2, MailGets
    <3>4. answers'["core"] = answers["core"] /\ answers'["mixer"] = answers["mixer"]
      BY <1>0, <3>2 DEF Askers
    <3>. QED BY <3>2, <3>3, <3>4 DEF MixerView, mixerVars
  <2>. QED BY <2>1, <2>2, <2>3
<1>2. MixerInv' /\ CoreInv'
  BY <1>1, Aside
<1>3. StaffInv'
  BY <1>0, <1>1, SameStaff
<1>4. TypeInv'
  BY DEF IInv, TypeInv, IsMixer, IsCore, mixerVars
<1>. QED BY <1>2, <1>3, <1>4 DEF IInv

\* What a client does next takes that from its script.
LEMMA ScriptKept ==
    ASSUME IsWeb, NEW c \in Clients, NEW what, Does(c, what),
           DOMAIN web' = DOMAIN web,
           \/ web'.job = web.job
           \/ /\ what \in {"send", "post"} /\ web'.job.at = 1
              /\ web'.job.message = Head(scripts[c]).message
              /\ DOMAIN web'.job = {"client", "socket", "message", "at", "responses"}
    PROVE  IsWeb'
<1>1. /\ IsSeq(scripts[c]) /\ scripts[c] # << >> /\ Head(scripts[c]).do = what
      /\ scripts' = [scripts EXCEPT ![c] = Tail(@)] /\ DOMAIN scripts = Clients
  BY DEF IsWeb, Does
<1>2. /\ IsSeq(Tail(scripts[c])) /\ Head(scripts[c]) \in Range(scripts[c])
      /\ Range(Tail(scripts[c])) \subseteq Range(scripts[c])
  BY <1>1, TailFacts
<1>3. /\ DOMAIN scripts' = Clients
      /\ \A d \in Clients :
            /\ IsSeq(scripts'[d])
            /\ \A step \in Range(scripts'[d]) :
                  step.do \in {"send", "post"} => IsCallable(step.message)
  <2>. SUFFICES ASSUME NEW d \in Clients
                PROVE  /\ IsSeq(scripts'[d])
                       /\ \A step \in Range(scripts'[d]) :
                             step.do \in {"send", "post"} => IsCallable(step.message)
    BY <1>1
  <2>1. IsSeq(scripts'[d]) /\ Range(scripts'[d]) \subseteq Range(scripts[d])
    <3>1. CASE d = c
      BY <1>1, <1>2, <3>1
    <3>2. CASE d # c
      BY <1>1, <3>2 DEF IsWeb
    <3>. QED BY <3>1, <3>2
  <2>. QED BY <2>1 DEF IsWeb
<1>4. /\ DOMAIN web'.job = {"client", "socket", "message", "at", "responses"}
      /\ web'.job.at \in Nat /\ IsCallable(web'.job.message)
      /\ web'.job # NoJob => web'.job.at # 0
  <2>1. CASE web'.job = web.job
    BY <2>1 DEF IsWeb
  <2>2. CASE /\ what \in {"send", "post"} /\ web'.job.at = 1
             /\ web'.job.message = Head(scripts[c]).message
             /\ DOMAIN web'.job = {"client", "socket", "message", "at", "responses"}
    <3>1. IsCallable(Head(scripts[c]).message)
      BY <1>1, <1>2, <2>2 DEF IsWeb
    <3>. QED BY <2>2, <3>1
  <2>. QED BY <2>1, <2>2
<1>5. IsCallable(web.job.message)' <=> IsCallable(web'.job.message)
  BY DEF IsCallable
<1>6. DOMAIN web' = {"state", "callbacks", "clients", "job", "left"}
  BY DEF IsWeb
<1>. QED BY <1>3, <1>4, <1>5, <1>6 DEF IsWeb

LEMMA WebThreadStep ==
    ASSUME IInv, WebThread \/ ClientsAct
    PROVE  IInv'
<1>0. IsWeb /\ DOMAIN web = {"state", "callbacks", "clients", "job", "left"}
  BY DEF IInv, TypeInv, IsWeb
<1>1. main' = main /\ mixerVars' = mixerVars /\ core' = core
  BY DEF WebThread, ClientsAct, serverVars, coreVars
<1>2. CASE WebServes
  <2>1. DOMAIN web' = DOMAIN web /\ web'.job = web.job /\ scripts' = scripts /\ actorVars' = actorVars
    BY <1>0, <1>2 DEF WebServes
  <2>. QED BY <1>0, <1>1, <2>1, WebKept, WebStep
<1>3. CASE WebCallsBack
  <2>1. DOMAIN web' = DOMAIN web /\ web'.job = web.job /\ scripts' = scripts /\ actorVars' = actorVars
    BY <1>0, <1>3 DEF WebCallsBack
  <2>. QED BY <1>0, <1>1, <2>1, WebKept, WebStep
<1>4. CASE WebRefuses
  <2>1. /\ DOMAIN web' = DOMAIN web /\ scripts' = scripts /\ actorVars' = actorVars
        /\ web'.job = WithAnswer(Failed("method_not_found"))
    BY <1>0, <1>4 DEF WebRefuses
  <2>. QED BY <1>0, <1>1, <2>1, WebKept, WebStep
<1>5. CASE WebAsks
  <2>1. /\ DOMAIN web' = DOMAIN web /\ scripts' = scripts
        /\ web'.job = web.job \/ \E r : web'.job = WithAnswer(r)
    <3>1. /\ scripts' = scripts
          /\ web' = web \/ web' = [web EXCEPT !.job = WithAnswer(None)]
      BY <1>5 DEF WebAsks
    <3>. QED BY <1>0, <3>1
  <2>. QED BY <1>0, <1>1, <1>5, <2>1, WebKept, WebStep
<1>6. CASE WebGets
  <2>1. /\ DOMAIN web' = DOMAIN web /\ scripts' = scripts
        /\ web'.job = WithAnswer(answers["web"])
    BY <1>0, <1>6 DEF WebGets
  <2>. QED BY <1>0, <1>1, <1>6, <2>1, WebKept, WebStep
<1>7. CASE WebBreaks
  <2>1. /\ DOMAIN web' = DOMAIN web /\ scripts' = scripts /\ actorVars' = actorVars
        /\ web'.job = NoJob
    BY <1>0, <1>7 DEF WebBreaks
  <2>. QED BY <1>0, <1>1, <2>1, WebKept, WebStep
<1>8. CASE WebReplies
  <2>1. /\ DOMAIN web' = DOMAIN web /\ scripts' = scripts /\ actorVars' = actorVars
        /\ web'.job = NoJob
    BY <1>0, <1>8 DEF WebReplies
  <2>. QED BY <1>0, <1>1, <2>1, WebKept, WebStep
<1>9. CASE \E c \in Clients : WebOpens(c, Protected)
  <2>1. PICK c \in Clients : WebOpens(c, Protected)
    BY <1>9
  <2>2. Does(c, "open") /\ DOMAIN web' = DOMAIN web /\ web'.job = web.job /\ actorVars' = actorVars
    BY <1>0, <2>1 DEF WebOpens
  <2>. QED BY <1>0, <1>1, <2>2, ScriptKept, WebStep
<1>10. CASE \E c \in Clients : WebCloses(c)
  <2>1. PICK c \in Clients : WebCloses(c)
    BY <1>10
  <2>2. Does(c, "close") /\ DOMAIN web' = DOMAIN web /\ web'.job = web.job /\ actorVars' = actorVars
    BY <1>0, <2>1 DEF WebCloses
  <2>. QED BY <1>0, <1>1, <2>2, ScriptKept, WebStep
<1>11. CASE \E c \in Clients : WebReceives(c)
  <2>1. PICK c \in Clients : WebReceives(c)
    BY <1>11
  <2>2. /\ Does(c, "send") /\ DOMAIN web' = DOMAIN web /\ actorVars' = actorVars
        /\ \/ web'.job = web.job
           \/ /\ web'.job.at = 1 /\ web'.job.message = Head(scripts[c]).message
              /\ DOMAIN web'.job = {"client", "socket", "message", "at", "responses"}
    BY <1>0, <2>1, GarbageFacts DEF WebReceives, NoJob
  <2>. QED BY <1>0, <1>1, <2>2, ScriptKept, WebStep
<1>12. CASE \E c \in Clients : WebGetsPost(c, Protected)
  <2>1. PICK c \in Clients : WebGetsPost(c, Protected)
    BY <1>12
  <2>2. /\ Does(c, "post") /\ DOMAIN web' = DOMAIN web /\ actorVars' = actorVars
        /\ \/ web'.job = web.job
           \/ /\ web'.job.at = 1 /\ web'.job.message = Head(scripts[c]).message
              /\ DOMAIN web'.job = {"client", "socket", "message", "at", "responses"}
    BY <1>0, <2>1, GarbageFacts DEF WebGetsPost, NoJob
  <2>. QED BY <1>0, <1>1, <2>2, ScriptKept, WebStep
<1>. QED
  BY <1>2, <1>3, <1>4, <1>5, <1>6, <1>7, <1>8, <1>9, <1>10, <1>11, <1>12
  DEF WebThread, ClientsAct, WebActs, ClientActs

-----------------------------------------------------------------------------
(* Actors that are none of the mixer, audio and core. *)

LEMMA HandlesFacts ==
    ASSUME NEW a \in Actors, NEW type, Handles(a, type), Post(box, answers)
    PROVE  /\ status[a] = "running" /\ IsUp(a) /\ box[a] # << >> /\ Head(box[a]).type = type
           /\ IsSeq(box[a]) /\ Head(box[a]) \in Range(box[a]) /\ Fits(a, Head(box[a]))
           /\ a \in Askers => IsFree(a) /\ answers[a] # Waits
<1>1. IsSeq(box[a]) /\ box[a] # << >>
  BY DEF Handles, Post
<1>2. Head(box[a]) \in Range(box[a])
  BY <1>1, SeqFacts
<1>3. Fits(a, Head(box[a]))
  BY <1>2 DEF Post
<1>4. a \in Askers => IsFree(a) /\ answers[a] # Waits
  BY NotWaiting DEF Handles
<1>. QED BY <1>1, <1>2, <1>3, <1>4 DEF Handles, IsUp

\* The status of one actor changes to another with which it is as much up.
LEMMA StatusStaff ==
    ASSUME StaffInv, NEW a \in Actors, NEW st \in {"running", "stopped"},
           status[a] # "none", status' = [status EXCEPT ![a] = st], main' = main,
           Post(box', answers'), \A b \in Actors : b # a /\ ~IsUp(b) => box'[b] = << >>,
           st = "running" \/ box'[a] = << >>,
           NoneFrom(box, "main") => NoneFrom(box', "main")
    PROVE  StaffInv'
<1>1. /\ status \in [Actors -> Statuses] /\ status'[a] = st
      /\ \A b \in Actors : b # a => status'[b] = status[b]
      /\ status' \in [Actors -> Statuses]
  BY DEF StaffInv, IsMain, Statuses
<1>2. NobodyThere(box)'
  <2>1. \A b \in Actors : b # a => (IsUp(b)' <=> IsUp(b))
    BY <1>1 DEF IsUp
  <2>2. IsUp(a)' <=> st = "running"
    BY <1>1 DEF IsUp
  <2>. QED BY <2>1, <2>2 DEF NobodyThere
<1>3. MainAsks(box)'
  BY DEF StaffInv, Mail, MainAsks
<1>4. NotStarted'
  <2>1. Backends \subseteq Actors /\ {"mixer", "audio", "core"} \subseteq Actors
    BY DEF Actors
  <2>. QED BY <1>1, <2>1 DEF StaffInv, NotStarted, Early
<1>5. IsMain'
  BY <1>1 DEF StaffInv, IsMain, Early
<1>. QED BY <1>2, <1>3, <1>4, <1>5 DEF StaffInv, Mail

LEMMA NoneAfterStop ==
    ASSUME Post(box, answers), NEW a \in Actors, NEW bx, DOMAIN bx = Actors, bx[a] = << >>,
           \A b \in Actors : b # a => bx[b] = box[b], NEW x, NoneFrom(box, x)
    PROVE  NoneFrom(bx, x)
BY EmptyFacts DEF NoneFrom

\* An actor stops: its mailbox is gone, and its askers learn of it.
LEMMA StopsStaff ==
    ASSUME StaffInv, NEW a \in Actors, Handles(a, "stop"), Stops(a),
           box' = [box EXCEPT ![a] = << >>], main' = main
    PROVE  /\ StaffInv' /\ status'[a] = "stopped" /\ box'[a] = << >>
           /\ \A b \in Actors : b # a => status'[b] = status[b] /\ box'[b] = box[b]
           /\ \A x \in Askers : (\A m \in Range(box[a]) : m.from # x) => answers'[x] = answers[x]
<1>0. /\ Post(box, answers) /\ DOMAIN box = Actors /\ DOMAIN status = Actors /\ IsSeq(box[a])
      /\ box[a] # << >> /\ status[a] # "none"
  BY HandlesFacts DEF StaffInv, Mail, Post, IsMain
<1>1. /\ status' = [status EXCEPT ![a] = "stopped"] /\ answers' = Ended(a)
  BY DEF Stops
<1>2. /\ box'[a] = << >> /\ DOMAIN box' = Actors
      /\ \A b \in Actors : b # a => box'[b] = box[b]
  BY <1>0
<1>3. Post(box', answers')
  BY <1>0, <1>1, StopsPost
<1>4. \A b \in Actors : b # a /\ ~IsUp(b) => box'[b] = << >>
  BY <1>2 DEF StaffInv, Mail, NobodyThere
<1>5. NoneFrom(box, "main") => NoneFrom(box', "main")
  BY <1>0, <1>2, NoneAfterStop
<1>6. StaffInv'
  BY <1>0, <1>1, <1>2, <1>3, <1>4, <1>5, StatusStaff
<1>7. ASSUME NEW x \in Askers, \A m \in Range(box[a]) : m.from # x PROVE answers'[x] = answers[x]
  <2>1. Head(box[a]) \in Range(box[a]) /\ DOMAIN box[a] = 1 .. Len(box[a]) /\ Len(box[a]) \in Nat
    BY <1>0, SeqFacts
  <2>2. \A i \in 2 .. Len(box[a]) : box[a][i] \in Range(box[a])
    BY <2>1 DEF Range
  <2>. QED BY <1>1, <1>7, <2>1, <2>2 DEF Ended
<1>8. status'[a] = "stopped" /\ \A b \in Actors : b # a => status'[b] = status[b]
  BY <1>0, <1>1
<1>. QED BY <1>2, <1>6, <1>7, <1>8

\* Those others are asked to stop and nothing else, by the main thread.
LEMMA OtherFits ==
    ASSUME Post(box, answers), NEW a \in Actors, a \notin {"mixer", "audio", "core"},
           NEW m \in Range(box[a]), NEW x \in {"core", "mixer"}
    PROVE  m.from # x
<1>1. FitsOther(m)
  BY DEF Post, Fits
<1>. QED BY <1>1, NamesAssumption DEF FitsOther, StopFrom, Askers

LEMMA OtherStops ==
    ASSUME IInv, NEW a \in Actors, a \notin {"mixer", "audio", "core"}, Handles(a, "stop"), Stops(a),
           box' = [box EXCEPT ![a] = << >>], main' = main, mixerVars' = mixerVars, core' = core,
           IsWeb'
    PROVE  IInv'
<1>0. Post(box, answers) /\ {"mixer", "audio", "core"} \subseteq Actors /\ {"core", "mixer"} \subseteq Askers
  BY DEF IInv, StaffInv, Mail, Actors, Askers
<1>1. /\ StaffInv'
      /\ \A b \in {"mixer", "audio", "core"} : status'[b] = status[b] /\ box'[b] = box[b]
      /\ answers'["core"] = answers["core"] /\ answers'["mixer"] = answers["mixer"]
  BY <1>0, StopsStaff, OtherFits DEF IInv
<1>2. MixerView' = MixerView
  BY <1>1 DEF MixerView, mixerVars
<1>3. MixerInv' /\ CoreInv'
  BY <1>1, <1>2, Aside
<1>4. TypeInv'
  BY DEF IInv, TypeInv, IsMixer, IsCore, mixerVars
<1>. QED BY <1>1, <1>3, <1>4 DEF IInv

LEMMA BackendStep ==
    ASSUME IInv, BackendThread
    PROVE  IInv'
<1>1. PICK b \in Backends : BackendStops(b)
  BY DEF BackendThread
<1>2. /\ Handles(b, "stop") /\ Stops(b) /\ box' = [box EXCEPT ![b] = << >>] /\ main' = main
      /\ mixerVars' = mixerVars /\ core' = core /\ web' = web /\ scripts' = scripts
  BY <1>1 DEF BackendThread, BackendStops, serverVars, coreVars, httpVars
<1>3. b \in Actors /\ b \notin {"mixer", "audio", "core"}
  BY NamesAssumption DEF Actors
<1>4. IsWeb'
  BY <1>2, WebKept DEF IInv, TypeInv
<1>. QED BY <1>2, <1>3, <1>4, OtherStops

LEMMA HttpStep ==
    ASSUME IInv, HttpThread
    PROVE  IInv'
<1>0. /\ IsWeb /\ DOMAIN web = {"state", "callbacks", "clients", "job", "left"}
      /\ StaffInv /\ Mail(box, answers) /\ Post(box, answers)
      /\ DOMAIN box = Actors /\ DOMAIN answers = Askers /\ DOMAIN status = Actors
      /\ "http" \in Actors /\ {"mixer", "audio", "core"} \subseteq Actors
  BY DEF IInv, StaffInv, TypeInv, IsWeb, Mail, Post, Actors, IsMain
<1>1. main' = main /\ mixerVars' = mixerVars /\ core' = core
  BY DEF HttpThread, serverVars, coreVars
<1>2. DOMAIN web' = DOMAIN web /\ web'.job = web.job /\ scripts' = scripts
  BY <1>0 DEF HttpThread, HttpActs, HttpStarts, HttpHearsEvent, HttpStops
<1>3. IsWeb'
  BY <1>0, <1>2, WebKept
<1>4. TypeInv'
  BY <1>1, <1>3 DEF IInv, TypeInv, IsMixer, IsCore, mixerVars
<1>5. CASE HttpStarts
  <2>1. /\ status["http"] = "starting" /\ status' = [status EXCEPT !["http"] = "running"]
        /\ box' = box /\ answers' = answers
    BY <1>5 DEF HttpStarts
  <2>2. \A b \in Actors : ~IsUp(b) => box'[b] = << >>
    BY <1>0, <2>1 DEF Mail, NobodyThere
  <2>3. StaffInv'
    BY <1>0, <1>1, <2>1, <2>2, StatusStaff
  <2>4. MixerView' = MixerView
    BY <1>0, <1>1, <2>1 DEF MixerView, mixerVars
  <2>5. MixerInv' /\ CoreInv'
    BY <1>1, <2>1, <2>4, Aside
  <2>. QED BY <1>4, <2>3, <2>5 DEF IInv
<1>6. CASE HttpHearsEvent
  <2>1. /\ Handles("http", "changed") /\ status' = status
        /\ box' = Taken("http") /\ answers' = answers
    BY <1>6 DEF HttpHearsEvent
  <2>2. Mail(box', answers')
    BY <1>0, <2>1, HandlesFacts, MailHandled
  <2>3. StaffInv'
    BY <1>0, <1>1, <2>1, <2>2, SameStaff
  <2>4. \A b \in {"mixer", "audio", "core"} : box'[b] = box[b]
    BY <1>0, <2>1, TakenBox
  <2>5. MixerView' = MixerView
    BY <1>1, <2>1, <2>4 DEF MixerView, mixerVars
  <2>6. MixerInv' /\ CoreInv'
    BY <1>1, <2>1, <2>4, <2>5, Aside
  <2>. QED BY <1>4, <2>3, <2>6 DEF IInv
<1>7. CASE HttpStops
  BY <1>0, <1>1, <1>3, <1>7, OtherStops DEF HttpStops
<1>. QED BY <1>5, <1>6, <1>7 DEF HttpThread, HttpActs

-----------------------------------------------------------------------------
(* The mixer. *)

LEMMA Facts ==
    ASSUME IInv
    PROVE  /\ StaffInv /\ Mail(box, answers) /\ Post(box, answers)
           /\ DOMAIN box = Actors /\ DOMAIN answers = Askers /\ DOMAIN status = Actors
           /\ {"mixer", "audio", "core", "http"} \subseteq Actors
           /\ {"mixer", "core"} \subseteq Askers
           /\ IsSeq(box["mixer"]) /\ IsSeq(box["audio"]) /\ IsSeq(box["core"])
           /\ IsMixer /\ IsCore /\ IsWeb /\ MixerWaits /\ CoreInv
BY DEF IInv, StaffInv, TypeInv, MixerInv, Mail, Post, IsMain, Actors, Askers

\* No message from x when x does not wait.
LEMMA NoQuestions ==
    ASSUME Post(box, answers), NEW x \in Askers, answers[x] # Waits, NEW a \in Actors
    PROVE  \A m \in Range(box[a]) : m.from # x
BY NothingUnderWay DEF NoneFrom

\* The mixer is at work with what is not set yet.
LEMMA LevelFacts ==
    ASSUME NEW p, NEW level
    PROVE  LET m == SetLevel(p, level)
           IN  /\ Fits("audio", m) /\ m.from = None /\ m.type = "set"
               /\ m.arg.property = p /\ m.arg.level = level
<1>. DEFINE m == SetLevel(p, level)
<1>1. /\ m.type = "set" /\ m.from = None /\ m.arg = Level(p, level)
      /\ m = Message(m.type, m.from, m.arg)
  BY MessageFacts DEF SetLevel
<1>. HIDE DEF m
<1>2. m.arg.property = p /\ m.arg.level = level
  BY <1>1 DEF Level
<1>3. Fits("audio", m)
  BY <1>1 DEF Fits, FitsAudio
<1>. QED BY <1>1, <1>2, <1>3 DEF m

\* What the mixer and audio leave as it is.
LEMMA TypeKept ==
    ASSUME IInv, web' = web, scripts' = scripts, core' = core, IsMixer'
    PROVE  TypeInv'
<1>1. IsWeb'
  BY WebKept DEF IInv, TypeInv
<1>. QED BY <1>1 DEF IInv, TypeInv, IsCore

LEMMA MixerSetupStep ==
    ASSUME IInv, MixerSetup, UNCHANGED <<serverVars, coreVars, httpVars, appVars>>
    PROVE  IInv'
<1>. DEFINE b == box["audio"]
            volume == mixer.initial["volume"]
            mute == mixer.initial["mute"]
            one == SetLevel("volume", volume)
            two == SetLevel("mute", mute)
            rest == Taken("mixer")
            with == IF volume = None THEN rest ELSE Put(rest, "audio", one)
            b1 == with["audio"]
<1>0. /\ Mail(box, answers) /\ Post(box, answers) /\ DOMAIN box = Actors
      /\ "mixer" \in Actors /\ "audio" \in Actors /\ "core" \in Actors
      /\ IsSeq(box["mixer"]) /\ IsSeq(b) /\ IsMixer /\ MixerWaits /\ CoreInv /\ StaffInv
  BY Facts
<1>1. /\ Handles("mixer", "adapter") /\ mixer' = [mixer EXCEPT !.setup = TRUE]
      /\ status' = status /\ answers' = answers /\ element' = element /\ wanted' = wanted
      /\ box' = (IF mute = None THEN with ELSE Put(with, "audio", two))
      /\ main' = main /\ core' = core /\ web' = web /\ scripts' = scripts
  BY DEF MixerSetup, serverVars, coreVars, httpVars
<1>2. /\ box["mixer"] # << >> /\ Head(box["mixer"]).type = "adapter" /\ IsFree("mixer")
      /\ answers["mixer"] # Waits /\ "mixer" \in Askers
  BY <1>0, <1>1, HandlesFacts DEF Askers
<1>3. /\ Fits("audio", one) /\ one.from = None /\ one.type = "set" /\ one.arg.property = "volume" /\ one.arg.level = volume
      /\ Fits("audio", two) /\ two.from = None /\ two.type = "set" /\ two.arg.property = "mute" /\ two.arg.level = mute
  BY LevelFacts
<1>4. Mail(rest, answers)
  BY <1>0, <1>2, MailHandled
<1>5. /\ rest["mixer"] = Tail(box["mixer"]) /\ rest["audio"] = b /\ rest["core"] = box["core"]
      /\ DOMAIN rest = Actors
  BY <1>0, TakenBox
<1>. HIDE DEF one, two, rest
<1>6. Mail(with, answers)
  BY <1>0, <1>3, <1>4, MailPut
<1>7. /\ DOMAIN with = Actors /\ with["mixer"] = Tail(box["mixer"]) /\ with["core"] = box["core"]
      /\ with["audio"] = (IF volume # None /\ IsUp("audio") THEN Append(b, one) ELSE b)
  BY <1>0, <1>5, PutBox
<1>. HIDE DEF with
<1>8. Mail(box', answers')
  BY <1>0, <1>1, <1>3, <1>6, MailPut
<1>9. /\ box'["mixer"] = Tail(box["mixer"]) /\ box'["core"] = box["core"]
      /\ box'["audio"] = (IF mute # None /\ IsUp("audio") THEN Append(b1, two) ELSE b1)
      /\ b1 = (IF volume # None /\ IsUp("audio") THEN Append(b, one) ELSE b)
  <2>1. /\ Put(with, "audio", two)["audio"]
                 = (IF IsUp("audio") THEN Append(with["audio"], two) ELSE with["audio"])
        /\ \A a \in Actors : a # "audio" => Put(with, "audio", two)[a] = with[a]
    <3>1. DOMAIN with = Actors /\ "audio" \in Actors
      BY <1>0, <1>7
    <3>. QED BY <3>1, PutBox
  <2>. QED BY <1>0, <1>1, <1>7, <2>1
<1>. HIDE DEF b1
<1>10. IsSeq(b1)
  BY <1>0, <1>9, AppendFacts
<1>11. StaffInv'
  BY <1>0, <1>1, <1>8, SameStaff
<1>12. TypeInv'
  <2>1. IsMixer'
    BY <1>0, <1>1 DEF IsMixer
  <2>. QED BY <1>1, <2>1, TypeKept
<1>13. MixerWaits'
  <2>1. \A m \in Range(b) : m.from # "mixer"
    BY <1>0, <1>2, NoQuestions
  <2>2. \A m \in Range(b1) : m.from # "mixer"
    BY <1>0, <1>3, <1>9, <2>1, AppendFacts, NamesAssumption DEF Askers
  <2>3. \A m \in Range(box'["audio"]) : m.from # "mixer"
    BY <1>3, <1>9, <1>10, <2>2, AppendFacts, NamesAssumption DEF Askers
  <2>4. AsksAfterSets(box'["audio"], "mixer")
    BY <2>3 DEF AsksAfterSets, Range
  <2>. QED BY <1>1, <1>2, <2>3, <2>4 DEF MixerWaits, IsFree
<1>14. Undisturbed' <=> Undisturbed
  <2>1. Lacks(box'["audio"], "stop") <=> Lacks(b, "stop")
    BY <1>0, <1>3, <1>9, <1>10, LacksFacts
  <2>2. Lacks(box'["mixer"], "stop") <=> Lacks(box["mixer"], "stop")
    BY <1>0, <1>2, <1>9, LacksFacts
  <2>. QED BY <1>1, <2>1, <2>2 DEF Undisturbed
<1>15. ASSUME Undisturbed PROVE SetsArrive' /\ ~mixer.setup
  <2>1. /\ SetsArrive /\ ~mixer.setup /\ status["audio"] = "running" /\ status["mixer"] = "running"
        /\ Lacks(b, "set") /\ mixer.initial["volume"] = wanted["volume"] /\ mixer.initial["mute"] = wanted["mute"]
    <3>1. SetsArrive
      BY <1>15 DEF IInv, MixerInv
    <3>2. ~Lacks(box["mixer"], "adapter")
      BY <1>0, <1>2, LacksFacts
    <3>3. status["mixer"] = "running"
      BY <1>1 DEF Handles
    <3>. QED BY <3>1, <3>2, <3>3 DEF SetsArrive, Properties
  <2>2. IsUp("audio")
    BY <2>1 DEF IsUp
  <2>3. /\ OneAdapter(box'["mixer"]) /\ Lacks(box'["mixer"], "teardown") /\ Lacks(box'["mixer"], "adapter")
    BY <1>0, <1>2, <1>9, <2>1, LacksFacts, AdapterTail DEF SetsArrive
  <2>4. Heard(box'["audio"], "volume", element["volume"], wanted["volume"])
    <3>1. Heard(b1, "volume", element["volume"], wanted["volume"])
      BY <1>0, <1>3, <1>9, <2>1, <2>2, HeardAppend, HeardIfNone DEF Sets
    <3>2. ~Sets(two, "volume")
      BY <1>3 DEF Sets
    <3>. QED BY <1>9, <1>10, <3>1, <3>2, HeardAppend
  <2>5. Heard(box'["audio"], "mute", element["mute"], wanted["mute"])
    <3>1. CASE mute = None
      <4>1. Heard(b, "mute", element["mute"], wanted["mute"])
        BY <1>0, <2>1, <3>1, HeardIfNone
      <4>2. ~Sets(one, "mute")
        BY <1>3 DEF Sets
      <4>. QED BY <1>0, <1>9, <3>1, <4>1, <4>2, HeardAppend
    <3>2. CASE mute # None
      <4>1. Sets(two, "mute") /\ two.arg.level = wanted["mute"]
        BY <1>3, <2>1 DEF Sets
      <4>. QED BY <1>9, <1>10, <2>2, <3>2, <4>1, HeardAppend
    <3>. QED BY <3>1, <3>2
  <2>6. mixer'.setup /\ status'["audio"] = "running" /\ status'["mixer"] = "running"
    BY <1>0, <1>1, <2>1 DEF IsMixer
  <2>7. \A p \in Properties : Heard(box'["audio"], p, element'[p], wanted'[p])
    BY <1>1, <2>4, <2>5 DEF Properties
  <2>. QED BY <2>1, <2>3, <2>6, <2>7 DEF SetsArrive
<1>16. MixerInv'
  BY <1>1, <1>13, <1>14, <1>15 DEF IInv, MixerInv, StopsInTurn
<1>17. CoreInv'
  <2>1. IsFree("core") => IsFree("core")'
    BY <1>1 DEF IsFree
  <2>2. ~(ToldWhatHolds /\ Undisturbed)
    BY <1>15 DEF ToldWhatHolds
  <2>. QED BY <1>0, <1>1, <1>9, <1>14, <2>1, <2>2, CoreFrame
<1>. QED BY <1>11, <1>12, <1>16, <1>17 DEF IInv

\* One takes a message and sends another.
LEMMA SentBox ==
    ASSUME DOMAIN box = Actors, NEW a \in Actors, NEW c \in Actors, a # c, NEW m
    PROVE  LET b2 == Put(Taken(a), c, m)
           IN  /\ b2[a] = Tail(box[a])
               /\ b2[c] = IF IsUp(c) THEN Append(box[c], m) ELSE box[c]
               /\ \A b \in Actors : b # a /\ b # c => b2[b] = box[b]
<1>. DEFINE rest == Taken(a)
<1>1. /\ DOMAIN rest = Actors /\ rest[a] = Tail(box[a])
      /\ \A b \in Actors : b # a => rest[b] = box[b]
  BY TakenBox
<1>. HIDE DEF rest
<1>2. /\ Put(rest, c, m)[c] = (IF IsUp(c) THEN Append(rest[c], m) ELSE rest[c])
      /\ \A b \in Actors : b # c => Put(rest, c, m)[b] = rest[b]
  BY <1>1, PutBox
<1>3. /\ Put(rest, c, m)[a] = Tail(box[a])
      /\ Put(rest, c, m)[c] = (IF IsUp(c) THEN Append(box[c], m) ELSE box[c])
      /\ \A b \in Actors : b # a /\ b # c => Put(rest, c, m)[b] = box[b]
  BY <1>1, <1>2
<1>. QED BY <1>3 DEF rest

\* The answer goes to the asker, if there is one.
LEMMA AnsweredFacts ==
    ASSUME DOMAIN answers = Askers, NEW m, NEW v, NEW x \in Askers
    PROVE  Answered(m, v)[x] = IF m.from = x THEN Value(v) ELSE answers[x]
BY NamesAssumption DEF Answered

\* Whom the mixer answers.
LEMMA AnsweredCore ==
    ASSUME IInv, NEW a \in {"mixer", "audio"}, box[a] # << >>, NEW v,
           answers' = answers \/ answers' = Answered(Head(box[a]), v)
    PROVE  /\ IsFree("core") => IsFree("core")'
           /\ Head(box[a]).from # "core" => answers'["core"] = answers["core"]
           /\ Head(box[a]).from # "mixer" => answers'["mixer"] = answers["mixer"]
<1>0. /\ Post(box, answers) /\ DOMAIN answers = Askers /\ a \in Actors
      /\ "core" \in Askers /\ "mixer" \in Askers /\ IsSeq(box[a])
  BY Facts
<1>1. \A x \in {"core", "mixer"} : Head(box[a]).from # x => answers'[x] = answers[x]
  BY <1>0, AnsweredFacts
<1>2. ASSUME Head(box[a]).from = "core" PROVE ~IsFree("core")
  <2>1. Head(box[a]) \in Range(box[a])
    BY <1>0, SeqFacts
  <2>2. answers["core"] = Waits
    BY <1>0, <1>2, <2>1, NoQuestions
  <2>. QED BY <2>2 DEF IsFree, Waits
<1>3. IsFree("core") => IsFree("core")'
  BY <1>1, <1>2 DEF IsFree
<1>. QED BY <1>1, <1>3

LEMMA MixerSetStep ==
    ASSUME IInv, MixerSet, UNCHANGED <<serverVars, coreVars, httpVars, appVars>>
    PROVE  IInv'
<1>. DEFINE b == box["audio"]
            bm == box["mixer"]
            m == Head(bm)
            p == m.arg.property
            level == m.arg.level
            n == SetLevel(p, level)
<1>0. /\ Mail(box, answers) /\ Post(box, answers) /\ DOMAIN box = Actors
      /\ "mixer" \in Actors /\ "audio" \in Actors /\ "core" \in Actors
      /\ IsSeq(bm) /\ IsSeq(b) /\ IsMixer /\ MixerWaits /\ CoreInv /\ StaffInv
  BY Facts
<1>1. /\ Handles("mixer", "set")
      /\ mixer' = (IF mixer.setup THEN mixer ELSE [mixer EXCEPT !.initial[p] = level])
      /\ status' = status /\ element' = element
      /\ wanted' = [wanted EXCEPT ![p] = level]
      /\ answers' = Answered(m, Bool(mixer.setup))
      /\ box' = (IF mixer.setup THEN Put(Taken("mixer"), "audio", n) ELSE Taken("mixer"))
      /\ main' = main /\ core' = core /\ web' = web /\ scripts' = scripts
  BY DEF MixerSet, serverVars, coreVars, httpVars
<1>2. /\ bm # << >> /\ m.type = "set" /\ IsFree("mixer") /\ m.from \in {None, "core"}
      /\ answers["mixer"] # Waits /\ "mixer" \in Askers
  <2>1. /\ bm # << >> /\ m.type = "set" /\ IsFree("mixer") /\ answers["mixer"] # Waits
        /\ "mixer" \in Askers /\ Fits("mixer", m)
    BY <1>0, <1>1, HandlesFacts DEF Askers
  <2>. HIDE DEF m
  <2>2. FitsMixer(m)
    BY <2>1 DEF Fits
  <2>. QED BY <2>1, <2>2 DEF FitsMixer, StopFrom
<1>3. /\ Fits("audio", n) /\ n.from = None /\ n.type = "set" /\ n.arg.property = p /\ n.arg.level = level
  BY LevelFacts
<1>4. Mail(box', answers')
  <2>1. Mail(Taken("mixer"), answers')
    BY <1>0, <1>1, <1>2, MailHandled
  <2>. QED BY <1>0, <1>1, <1>3, <2>1, MailPut
<1>5. /\ box'["mixer"] = Tail(bm) /\ box'["core"] = box["core"]
      /\ box'["audio"] = (IF mixer.setup /\ IsUp("audio") THEN Append(b, n) ELSE b)
  BY <1>0, <1>1, SentBox, TakenBox
<1>6. /\ IsFree("core") => IsFree("core")'
      /\ m.from = None => answers'["core"] = answers["core"]
      /\ answers'["mixer"] = answers["mixer"]
  BY <1>1, <1>2, AnsweredCore, NamesAssumption DEF Askers
<1>. HIDE DEF n, m, p, level
<1>7. StaffInv'
  BY <1>0, <1>1, <1>4, SameStaff
<1>8. TypeInv'
  <2>1. IsMixer'
    BY <1>0, <1>1 DEF IsMixer
  <2>. QED BY <1>1, <2>1, TypeKept
<1>9. MixerWaits'
  <2>1. \A k \in Range(b) : k.from # "mixer"
    BY <1>0, <1>2, NoQuestions
  <2>2. \A k \in Range(box'["audio"]) : k.from # "mixer"
    BY <1>0, <1>3, <1>5, <2>1, AppendFacts, NamesAssumption DEF Askers
  <2>3. AsksAfterSets(box'["audio"], "mixer")
    BY <2>2 DEF AsksAfterSets, Range
  <2>. QED BY <1>2, <1>6, <2>2, <2>3 DEF MixerWaits, IsFree
<1>10. Undisturbed' <=> Undisturbed
  <2>1. Lacks(box'["audio"], "stop") <=> Lacks(b, "stop")
    BY <1>0, <1>3, <1>5, LacksFacts
  <2>2. Lacks(box'["mixer"], "stop") <=> Lacks(bm, "stop")
    BY <1>0, <1>2, <1>5, LacksFacts DEF m
  <2>. QED BY <1>1, <2>1, <2>2 DEF Undisturbed
<1>11. ASSUME Undisturbed PROVE SetsArrive'
  <2>0. SetsArrive
    BY <1>11 DEF IInv, MixerInv
  <2>1. /\ mixer'.setup = mixer.setup /\ status'["audio"] = status["audio"] /\ status'["mixer"] = status["mixer"]
    BY <1>0, <1>1 DEF IsMixer
  <2>2. /\ OneAdapter(box'["mixer"]) /\ Lacks(box'["mixer"], "teardown")
        /\ Lacks(bm, "adapter") => Lacks(box'["mixer"], "adapter")
    BY <1>0, <1>2, <1>5, <2>0, LacksFacts, AdapterTail DEF SetsArrive, m
  <2>3. ~mixer.setup => Lacks(box'["audio"], "set")
    BY <1>5, <2>0 DEF SetsArrive
  <2>4. ASSUME NEW q \in Properties, mixer.setup
        PROVE  Heard(box'["audio"], q, element'[q], wanted'[q])
    <3>1. IsUp("audio") /\ Heard(b, q, element[q], wanted[q])
      BY <2>0, <2>4 DEF SetsArrive, IsUp
    <3>2. box'["audio"] = Append(b, n)
      BY <1>5, <2>4, <3>1
    <3>3. CASE q = p
      <4>1. Sets(n, q) /\ n.arg.level = wanted'[q]
        BY <1>0, <1>1, <1>3, <3>3 DEF Sets, IsMixer
      <4>. QED BY <1>0, <3>2, <4>1, HeardAppend
    <3>4. CASE q # p
      <4>1. ~Sets(n, q) /\ wanted'[q] = wanted[q] /\ element'[q] = element[q]
        BY <1>0, <1>1, <1>3, <3>4 DEF Sets, IsMixer
      <4>. QED BY <1>0, <3>1, <3>2, <4>1, HeardAppend
    <3>. QED BY <3>3, <3>4
  <2>5. ASSUME NEW q \in Properties, ~mixer.setup
        PROVE  mixer'.initial[q] = wanted'[q]
    <3>1. mixer'.initial = [mixer.initial EXCEPT ![p] = level] /\ mixer.initial[q] = wanted[q]
      BY <1>0, <1>1, <2>0, <2>5 DEF IsMixer, SetsArrive
    <3>. QED BY <1>0, <1>1, <3>1 DEF IsMixer
  <2>. QED BY <2>0, <2>1, <2>2, <2>3, <2>4, <2>5 DEF SetsArrive
<1>12. MixerInv'
  BY <1>1, <1>9, <1>10, <1>11 DEF IInv, MixerInv, StopsInTurn
<1>13. ASSUME ToldWhatHolds PROVE ToldWhatHolds'
  <2>1. ~Lacks(bm, "set")
    BY <1>0, <1>2, LacksFacts DEF m
  <2>2. core.got = << >> /\ (answers["core"].state = "none" \/ answers["core"] = Waits)
    BY <1>13, <2>1 DEF ToldWhatHolds
  <2>3. m.from = None
    <3>1. m \in Range(bm)
      BY <1>0, <1>2, SeqFacts DEF m
    <3>. QED BY <1>2, <1>13, <3>1 DEF ToldWhatHolds
  <2>4. Len(core'.got) = 0 /\ core' = core
    BY <1>1, <2>2
  <2>5. /\ AsksAfterSets(box'["mixer"], "core")
        /\ Range(box'["mixer"]) \subseteq Range(bm)
    BY <1>0, <1>2, <1>5, <1>13, AsksTail, TailFacts DEF ToldWhatHolds
  <2>6. \A k \in Range(box'["mixer"]) :
          k.from = "core" => k.type = "get" /\ k.arg.property = Asked(Len(core'.got))
    BY <1>13, <2>4, <2>5 DEF ToldWhatHolds
  <2>7. mixer'.setup
    BY <1>1, <1>13 DEF ToldWhatHolds
  <2>8. answers'["core"] = answers["core"] /\ answers'["mixer"].state = "none"
    BY <1>2, <1>6, <2>3 DEF IsFree
  <2>9. \A k \in Range(box'["audio"]) : k.from # "core"
    BY <1>0, <1>3, <1>5, <1>13, AppendFacts, NamesAssumption DEF ToldWhatHolds, Askers
  <2>. QED BY <2>2, <2>4, <2>5, <2>6, <2>7, <2>8, <2>9 DEF ToldWhatHolds
<1>14. CoreInv'
  BY <1>0, <1>1, <1>5, <1>6, <1>10, <1>13, CoreFrame
<1>. QED BY <1>7, <1>8, <1>12, <1>14 DEF IInv

\* The mixer takes a message that sets nothing, and leaves audio alone.
LEMMA MixerTakes ==
    ASSUME IInv, box["mixer"] # << >>, answers["mixer"] # Waits, IsFree("mixer")', box'["mixer"] = Tail(box["mixer"]),
           box'["audio"] = box["audio"],
           status' = status, mixer' = mixer, element' = element, wanted' = wanted, main' = main,
           Head(box["mixer"]).type \notin {"stop", "set"}
    PROVE  /\ MixerInv' /\ (Undisturbed' <=> Undisturbed)
           /\ core' = core /\ answers'["core"] = answers["core"] /\ ToldWhatHolds => ToldWhatHolds'
<1>. DEFINE bm == box["mixer"]
<1>0. /\ Post(box, answers) /\ IsSeq(bm) /\ MixerWaits /\ "mixer" \in Askers /\ "audio" \in Actors
  BY Facts
<1>1. MixerWaits'
  <2>1. \A k \in Range(box["audio"]) : k.from # "mixer"
    BY <1>0, NoQuestions
  <2>. QED BY <1>0, <2>1 DEF MixerWaits, IsFree
<1>2. Undisturbed' <=> Undisturbed
  <2>1. Lacks(box'["mixer"], "stop") <=> Lacks(bm, "stop")
    BY <1>0, LacksFacts
  <2>. QED BY <2>1 DEF Undisturbed
<1>3. SetsArrive => SetsArrive'
  <2>. SUFFICES ASSUME SetsArrive PROVE SetsArrive'
    OBVIOUS
  <2>1. /\ OneAdapter(box'["mixer"]) /\ Lacks(box'["mixer"], "teardown")
        /\ Lacks(bm, "adapter") => Lacks(box'["mixer"], "adapter")
    BY <1>0, LacksFacts, AdapterTail DEF SetsArrive
  <2>. QED BY <2>1 DEF SetsArrive
<1>4. MixerInv'
  BY <1>1, <1>2, <1>3 DEF IInv, MixerInv, StopsInTurn
<1>5. ASSUME core' = core, answers'["core"] = answers["core"], ToldWhatHolds PROVE ToldWhatHolds'
  <2>1. /\ AsksAfterSets(box'["mixer"], "core")
        /\ Range(box'["mixer"]) \subseteq Range(bm)
        /\ Lacks(bm, "set") => Lacks(box'["mixer"], "set")
    BY <1>0, <1>5, AsksTail, TailFacts, LacksFacts DEF ToldWhatHolds
  <2>2. \A v, q : Right(v, q)' <=> Right(v, q)
    BY DEF Right
  <2>3. answers'["mixer"].state = "none"
    BY DEF IsFree
  <2>. QED BY <1>5, <2>1, <2>2, <2>3 DEF ToldWhatHolds, IsFree, Right
<1>. QED BY <1>2, <1>4, <1>5

LEMMA MixerTellsStep ==
    ASSUME IInv, MixerTells, UNCHANGED <<serverVars, coreVars, httpVars, appVars>>
    PROVE  IInv'
<1>. DEFINE m == Head(box["mixer"])
<1>0. /\ Mail(box, answers) /\ Post(box, answers) /\ DOMAIN box = Actors
      /\ "mixer" \in Actors /\ "audio" \in Actors /\ "core" \in Actors
      /\ IsMixer /\ CoreInv /\ StaffInv
  BY Facts
<1>1. /\ Handles("mixer", "changed") /\ box' = Put(Taken("mixer"), "core", m)
      /\ status' = status /\ answers' = answers /\ mixer' = mixer /\ element' = element
      /\ wanted' = wanted /\ main' = main /\ core' = core /\ web' = web /\ scripts' = scripts
  BY DEF MixerTells, mixerVars, serverVars, coreVars, httpVars
<1>2. /\ box["mixer"] # << >> /\ m.type = "changed" /\ Fits("mixer", m)
      /\ answers["mixer"] # Waits /\ IsFree("mixer")'
  <2>1. /\ box["mixer"] # << >> /\ m.type = "changed" /\ Fits("mixer", m)
        /\ answers["mixer"] # Waits /\ IsFree("mixer")
    BY <1>0, <1>1, HandlesFacts DEF Askers
  <2>. QED BY <1>1, <2>1 DEF IsFree
<1>3. Fits("core", m) /\ m.from = None
  <2>. HIDE DEF m
  <2>1. m.from = None /\ m = Message(m.type, m.from, m.arg)
    BY <1>2 DEF Fits, FitsMixer, StopFrom
  <2>. QED BY <1>2, <2>1 DEF Fits, FitsCore
<1>4. Mail(box', answers')
  <2>1. Mail(Taken("mixer"), answers)
    BY <1>0, <1>2, MailHandled
  <2>. QED BY <1>0, <1>1, <1>3, <2>1, MailPut
<1>5. /\ box'["mixer"] = Tail(box["mixer"]) /\ box'["audio"] = box["audio"]
      /\ box'["core"] = box["core"] \/ box'["core"] = Append(box["core"], m)
  <2>. HIDE DEF m
  <2>1. LET b2 == Put(Taken("mixer"), "core", m)
        IN  /\ b2["mixer"] = Tail(box["mixer"])
            /\ b2["core"] = IF IsUp("core") THEN Append(box["core"], m) ELSE box["core"]
            /\ \A b \in Actors : b # "mixer" /\ b # "core" => b2[b] = box[b]
    BY <1>0, SentBox
  <2>. QED BY <1>0, <1>1, <2>1
<1>6. StaffInv'
  BY <1>0, <1>1, <1>4, SameStaff
<1>7. TypeInv'
  <2>1. IsMixer'
    BY <1>0, <1>1 DEF IsMixer
  <2>. QED BY <1>1, <2>1, TypeKept
<1>8. MixerInv' /\ (Undisturbed' <=> Undisturbed) /\ (ToldWhatHolds => ToldWhatHolds')
  BY <1>1, <1>2, <1>5, MixerTakes
<1>9. CoreInv'
  <2>1. IsFree("core") => IsFree("core")'
    BY <1>1 DEF IsFree
  <2>2. m.type # "teardown"
    BY <1>2
  <2>. QED BY <1>0, <1>1, <1>5, <1>8, <2>1, <2>2, CoreFrame
<1>. QED BY <1>6, <1>7, <1>8, <1>9 DEF IInv

\* The adapter of audio is gone: only when audio has been asked to stop.
LEMMA MixerTeardownStep ==
    ASSUME IInv, MixerTeardown, UNCHANGED <<serverVars, coreVars, httpVars, appVars>>
    PROVE  IInv'
<1>. DEFINE bm == box["mixer"]
<1>0. /\ Mail(box, answers) /\ Post(box, answers) /\ DOMAIN box = Actors
      /\ "mixer" \in Actors /\ "audio" \in Actors /\ "core" \in Actors /\ "mixer" \in Askers
      /\ IsMixer /\ MixerWaits /\ CoreInv /\ StaffInv /\ IsSeq(bm)
  BY Facts
<1>1. /\ Handles("mixer", "teardown") /\ box' = Taken("mixer")
      /\ status' = status /\ answers' = answers /\ mixer' = [mixer EXCEPT !.setup = FALSE]
      /\ element' = element
      /\ wanted' = wanted /\ main' = main /\ core' = core /\ web' = web /\ scripts' = scripts
  BY DEF MixerTeardown, serverVars, coreVars, httpVars
<1>2. bm # << >> /\ Head(bm).type = "teardown" /\ IsFree("mixer") /\ answers["mixer"] # Waits
  BY <1>0, <1>1, HandlesFacts
<1>3. Mail(box', answers')
  BY <1>0, <1>1, <1>2, MailHandled
<1>4. box'["mixer"] = Tail(bm) /\ box'["audio"] = box["audio"] /\ box'["core"] = box["core"]
  BY <1>0, <1>1, TakenBox
<1>5. StaffInv'
  BY <1>0, <1>1, <1>3, SameStaff
<1>6. TypeInv'
  <2>1. IsMixer'
    BY <1>0, <1>1 DEF IsMixer
  <2>. QED BY <1>1, <2>1, TypeKept
<1>7. MixerWaits'
  <2>1. \A k \in Range(box["audio"]) : k.from # "mixer"
    BY <1>0, <1>2, NoQuestions
  <2>. QED BY <1>0, <1>1, <1>2, <1>4, <2>1 DEF MixerWaits, IsFree
<1>8. Undisturbed' <=> Undisturbed
  <2>1. Lacks(box'["mixer"], "stop") <=> Lacks(bm, "stop")
    BY <1>0, <1>2, <1>4, LacksFacts
  <2>. QED BY <1>1, <1>4, <2>1 DEF Undisturbed
<1>9. ~Undisturbed
  <2>1. ~Lacks(bm, "teardown")
    BY <1>0, <1>2, LacksFacts
  <2>. QED BY <2>1 DEF IInv, MixerInv, SetsArrive
<1>10. MixerInv'
  BY <1>1, <1>7, <1>8, <1>9 DEF IInv, MixerInv, StopsInTurn
<1>11. CoreInv'
  <2>1. IsFree("core") => IsFree("core")'
    BY <1>1 DEF IsFree
  <2>. QED BY <1>0, <1>1, <1>4, <1>9, <2>1, CoreFrame
<1>. QED BY <1>5, <1>6, <1>10, <1>11 DEF IInv

\* Mixer or audio ends: it has been asked to stop.
LEMMA MixerStopsStep ==
    ASSUME IInv, MixerStops, UNCHANGED <<serverVars, coreVars, httpVars, appVars>>
    PROVE  IInv'
<1>. DEFINE bm == box["mixer"]
<1>0. /\ Mail(box, answers) /\ Post(box, answers) /\ DOMAIN box = Actors /\ DOMAIN answers = Askers
      /\ "mixer" \in Actors /\ "audio" \in Actors /\ "core" \in Actors /\ "mixer" \in Askers /\ "core" \in Askers
      /\ IsMixer /\ MixerWaits /\ CoreInv /\ StaffInv /\ IsSeq(bm)
  BY Facts
<1>1. /\ Handles("mixer", "stop") /\ Stops("mixer") /\ box' = [box EXCEPT !["mixer"] = << >>]
      /\ mixer' = mixer /\ element' = element
      /\ wanted' = wanted /\ main' = main /\ core' = core /\ web' = web /\ scripts' = scripts
  BY DEF MixerStops, mixerVars, serverVars, coreVars, httpVars
<1>2. /\ bm # << >> /\ Head(bm).type = "stop" /\ IsFree("mixer") /\ answers["mixer"] # Waits
      /\ Head(bm) \in Range(bm)
  BY <1>0, <1>1, HandlesFacts
<1>3. /\ StaffInv' /\ status'["mixer"] = "stopped" /\ box'["mixer"] = << >>
      /\ box'["audio"] = box["audio"] /\ box'["core"] = box["core"]
      /\ \A x \in Askers : (\A m \in Range(bm) : m.from # x) => answers'[x] = answers[x]
  BY <1>0, <1>1, StopsStaff
<1>4. answers'["mixer"] = answers["mixer"] /\ (IsFree("core") => IsFree("core")')
  <2>1. \A x \in {"core", "mixer"} : answers[x] # Waits => answers'[x] = answers[x]
    BY <1>0, <1>3, NoQuestions
  <2>2. IsFree("core") => answers["core"] # Waits
    BY DEF IsFree, Waits
  <2>. QED BY <1>2, <2>1, <2>2 DEF IsFree
<1>5. TypeInv'
  <2>1. IsMixer'
    BY <1>0, <1>1 DEF IsMixer
  <2>. QED BY <1>1, <2>1, TypeKept
<1>6. MixerWaits'
  <2>1. \A k \in Range(box["audio"]) : k.from # "mixer"
    BY <1>0, <1>2, NoQuestions
  <2>. QED BY <1>0, <1>2, <1>3, <1>4, <2>1 DEF MixerWaits, IsFree
<1>7. ~Undisturbed /\ ~Undisturbed'
  BY <1>2, <1>3 DEF Undisturbed, Lacks
<1>8. MixerInv'
  BY <1>1, <1>6, <1>7 DEF IInv, MixerInv, StopsInTurn
<1>9. CoreInv'
  BY <1>0, <1>1, <1>3, <1>4, <1>7, CoreFrame
<1>. QED BY <1>3, <1>5, <1>8, <1>9 DEF IInv

\* A message for audio that sets nothing.
LEMMA AudioAppends ==
    ASSUME NEW b, IsSeq(b), NEW m, m.type \notin {"set", "stop"}
    PROVE  /\ Lacks(Append(b, m), "set") <=> Lacks(b, "set")
           /\ Lacks(Append(b, m), "stop") <=> Lacks(b, "stop")
           /\ \A p, now, want : Heard(b, p, now, want) => Heard(Append(b, m), p, now, want)
<1>1. \A p : ~Sets(m, p)
  BY DEF Sets
<1>2. ASSUME NEW p, NEW now, NEW want, Heard(b, p, now, want)
      PROVE  Heard(Append(b, m), p, now, want)
  BY <1>1, <1>2, HeardAppend
<1>. QED BY <1>2, LacksFacts

LEMMA AudioTakes ==
    ASSUME NEW b, IsSeq(b), b # << >>, Head(b).type \notin {"set", "stop"}
    PROVE  /\ Lacks(Tail(b), "set") <=> Lacks(b, "set")
           /\ Lacks(Tail(b), "stop") <=> Lacks(b, "stop")
           /\ \A p, now, want : Heard(b, p, now, want) => Heard(Tail(b), p, now, want)
<1>1. \A p : ~Sets(Head(b), p)
  BY DEF Sets
<1>2. ASSUME NEW p, NEW now, NEW want, Heard(b, p, now, want)
      PROVE  Heard(Tail(b), p, now, want)
  BY <1>1, <1>2, HeardTail
<1>. QED BY <1>2, LacksFacts

LEMMA MixerGetStep ==
    ASSUME IInv, MixerGet, UNCHANGED <<serverVars, coreVars, httpVars, appVars>>
    PROVE  IInv'
<1>. DEFINE bm == box["mixer"]
            b == box["audio"]
            m == Head(bm)
            q == Message("get", "mixer", m.arg)
<1>0. /\ Mail(box, answers) /\ Post(box, answers) /\ DOMAIN box = Actors /\ DOMAIN answers = Askers
      /\ "mixer" \in Actors /\ "audio" \in Actors /\ "core" \in Actors /\ "mixer" \in Askers
      /\ "core" \in Askers
      /\ IsMixer /\ MixerWaits /\ CoreInv /\ StaffInv /\ IsSeq(bm) /\ IsSeq(b)
  BY Facts
<1>1. /\ Handles("mixer", "get")
      /\ status' = status /\ mixer' = mixer /\ element' = element
      /\ wanted' = wanted /\ main' = main /\ core' = core /\ web' = web /\ scripts' = scripts
      /\ mixer.setup => box' = Put(box, "audio", q) /\ answers' = Asking("mixer", "audio")
      /\ ~mixer.setup => box' = Taken("mixer") /\ answers' = Answered(m, None)
  BY DEF MixerGet, mixerVars, serverVars, coreVars, httpVars
<1>2. /\ bm # << >> /\ m.type = "get" /\ Fits("mixer", m) /\ IsFree("mixer") /\ answers["mixer"] # Waits
  BY <1>0, <1>1, HandlesFacts
<1>3. m.from = "core"
  <2>. HIDE DEF m
  <2>. QED BY <1>2 DEF Fits, FitsMixer, StopFrom
<1>4. TypeInv'
  <2>1. IsMixer'
    BY <1>0, <1>1 DEF IsMixer
  <2>. QED BY <1>1, <2>1, TypeKept
<1>5. CASE mixer.setup
  <2>0. q.type = "get" /\ q.from = "mixer" /\ q.arg = m.arg /\ Fits("audio", q)
    <3>1. q.type = "get" /\ q.from = "mixer" /\ q.arg = m.arg /\ q = Message(q.type, q.from, q.arg)
      BY MessageFacts
    <3>. HIDE DEF q
    <3>. QED BY <3>1 DEF Fits, FitsAudio
  <2>. HIDE DEF q
  <2>1. Mail(box', answers')
    BY <1>0, <1>1, <1>2, <1>5, <2>0, MailAsk
  <2>2. StaffInv'
    BY <1>0, <1>1, <2>1, SameStaff
  <2>3. /\ box'["mixer"] = bm /\ box'["core"] = box["core"]
        /\ box'["audio"] = (IF IsUp("audio") THEN Append(b, q) ELSE b)
    BY <1>0, <1>1, <1>5, PutBox
  <2>4. /\ answers'["mixer"] = (IF IsUp("audio") THEN Waits ELSE Died)
        /\ answers'["core"] = answers["core"]
    BY <1>0, <1>1, <1>5 DEF Asking
  <2>5. MixerWaits'
    <3>1. \A k \in Range(b) : k.from # "mixer"
      BY <1>0, <1>2, NoQuestions
    <3>2. \A k \in Range(box'["audio"]) : k.from = "mixer" => k.arg = Head(bm).arg
      BY <1>0, <2>0, <2>3, <3>1, AppendFacts
    <3>3. AsksAfterSets(box'["audio"], "mixer")
      BY <1>0, <2>0, <2>3, AsksAppend DEF MixerWaits
    <3>. QED BY <1>2, <2>3, <3>2, <3>3 DEF MixerWaits
  <2>6. Undisturbed' <=> Undisturbed
    BY <1>0, <1>1, <2>0, <2>3, AudioAppends DEF Undisturbed
  <2>7. SetsArrive => SetsArrive'
    BY <1>0, <1>1, <2>0, <2>3, AudioAppends DEF SetsArrive
  <2>8. MixerInv'
    BY <1>1, <2>5, <2>6, <2>7 DEF IInv, MixerInv, StopsInTurn
  <2>9. ASSUME ToldWhatHolds, Undisturbed PROVE ToldWhatHolds'
    <3>1. answers'["mixer"] = Waits
      <4>1. status["audio"] = "running"
        BY <1>5, <2>9 DEF IInv, MixerInv, SetsArrive
      <4>. QED BY <2>4, <4>1 DEF IsUp
    <3>2. \A v, p : Right(v, p)' <=> Right(v, p)
      BY <1>1 DEF Right
    <3>3. \A k \in Range(box'["audio"]) : k.from # "core"
      BY <1>0, <2>0, <2>3, <2>9, AppendFacts DEF ToldWhatHolds
    <3>. QED BY <1>1, <2>3, <2>4, <2>9, <3>1, <3>2, <3>3 DEF ToldWhatHolds, IsFree, Right
  <2>10. CoreInv'
    <3>1. IsFree("core") => IsFree("core")'
      BY <2>4 DEF IsFree
    <3>. QED BY <1>0, <1>1, <2>3, <2>6, <2>9, <3>1, CoreFrame
  <2>. QED BY <1>4, <2>2, <2>8, <2>10 DEF IInv
<1>6. CASE ~mixer.setup
  <2>1. Mail(box', answers')
    BY <1>0, <1>1, <1>2, <1>6, MailHandled
  <2>2. StaffInv'
    BY <1>0, <1>1, <2>1, SameStaff
  <2>3. /\ box'["mixer"] = Tail(bm) /\ box'["core"] = box["core"] /\ box'["audio"] = b
    BY <1>0, <1>1, <1>6, TakenBox
  <2>4. /\ IsFree("core") => IsFree("core")'
        /\ answers'["mixer"] = answers["mixer"]
    BY <1>1, <1>2, <1>3, <1>6, AnsweredCore
  <2>5. MixerInv' /\ (Undisturbed' <=> Undisturbed)
    <3>1. IsFree("mixer")'
      BY <1>2, <2>4 DEF IsFree
    <3>. QED BY <1>1, <1>2, <2>3, <3>1, MixerTakes
  <2>6. CoreInv'
    <3>1. ~ToldWhatHolds
      BY <1>6 DEF ToldWhatHolds
    <3>. QED BY <1>0, <1>1, <2>3, <2>4, <2>5, <3>1, CoreFrame
  <2>. QED BY <1>4, <2>2, <2>5, <2>6 DEF IInv
<1>. QED BY <1>5, <1>6

LEMMA TakenFrom ==
    ASSUME NEW an, Post(box, an), box["mixer"] # << >>, "mixer" \in Actors, DOMAIN answers' = Askers,
           \A x \in Askers : x # Head(box["mixer"]).from => answers'[x] = an[x]
    PROVE  Post(Taken("mixer"), answers')
<1>1. Post([box EXCEPT !["mixer"] = Tail(@)], answers')
  BY TakePost
<1>. QED BY <1>1 DEF Taken

LEMMA MixerGetsStep ==
    ASSUME IInv, MixerGets, UNCHANGED <<serverVars, coreVars, httpVars, appVars>>
    PROVE  IInv'
<1>. DEFINE bm == box["mixer"]
            m == Head(bm)
            an == [answers EXCEPT !["mixer"] = NoAnswer]
<1>0. /\ Mail(box, answers) /\ Post(box, answers) /\ DOMAIN box = Actors /\ DOMAIN answers = Askers
      /\ "mixer" \in Actors /\ "audio" \in Actors /\ "core" \in Actors /\ "mixer" \in Askers
      /\ "core" \in Askers
      /\ IsMixer /\ MixerWaits /\ CoreInv /\ StaffInv /\ IsSeq(bm)
  BY Facts
<1>1. /\ IsAnswered("mixer") /\ box' = Taken("mixer")
      /\ status' = status /\ mixer' = mixer /\ element' = element
      /\ wanted' = wanted /\ main' = main /\ core' = core /\ web' = web /\ scripts' = scripts
      /\ answers' = [answers EXCEPT !["mixer"] = NoAnswer, ![m.from] = answers["mixer"]]
  BY DEF MixerGets, mixerVars, serverVars, coreVars, httpVars
<1>2. /\ answers["mixer"] # Waits /\ answers["mixer"].state # "none" /\ bm # << >> /\ m.type = "get"
      /\ m \in Range(bm)
  <2>1. ~IsFree("mixer") /\ answers["mixer"] # Waits /\ answers["mixer"].state # "none"
    BY <1>0, <1>1, NotWaiting DEF IsFree, IsAnswered
  <2>2. bm # << >> /\ m.type = "get"
    BY <1>0, <2>1 DEF MixerWaits
  <2>. QED BY <1>0, <2>1, <2>2, SeqFacts
<1>3. m.from = "core" /\ answers["core"] = Waits
  <2>1. Fits("mixer", m)
    BY <1>0, <1>2 DEF Post
  <2>2. m.from = "core"
    <3>. HIDE DEF m
    <3>. QED BY <1>2, <2>1 DEF Fits, FitsMixer, StopFrom
  <2>. QED BY <1>0, <1>2, <2>2, NoQuestions
<1>4. /\ answers'["mixer"] = NoAnswer /\ answers'["core"] = answers["mixer"]
      /\ answers' = [an EXCEPT !["core"] = answers["mixer"]]
      /\ DOMAIN an = Askers
  BY <1>0, <1>1, <1>3
<1>5. Mail(box', answers')
  <2>1. Post(box, an)
    BY <1>0, <1>2, MailGets DEF Mail
  <2>2. DOMAIN answers' = Askers /\ \A x \in Askers : x # m.from => answers'[x] = an[x]
    BY <1>3, <1>4
  <2>. HIDE DEF an
  <2>3. Post(Taken("mixer"), answers')
    BY <1>0, <1>2, <2>1, <2>2, TakenFrom
  <2>. QED BY <1>0, <1>1, <1>2, <2>3, MailTaken
<1>6. StaffInv'
  BY <1>0, <1>1, <1>5, SameStaff
<1>7. TypeInv'
  <2>1. IsMixer'
    BY <1>0, <1>1 DEF IsMixer
  <2>. QED BY <1>1, <2>1, TypeKept
<1>8. /\ box'["mixer"] = Tail(bm) /\ box'["core"] = box["core"] /\ box'["audio"] = box["audio"]
  BY <1>0, <1>1, TakenBox
<1>9. MixerInv' /\ (Undisturbed' <=> Undisturbed)
  <2>1. IsFree("mixer")'
    BY <1>4 DEF IsFree, NoAnswer
  <2>. QED BY <1>1, <1>2, <1>8, <2>1, MixerTakes
<1>10. ASSUME ToldWhatHolds PROVE ToldWhatHolds'
  <2>0. \A k \in Range(box'["audio"]) : k.from # "core"
    BY <1>8, <1>10 DEF ToldWhatHolds
  <2>1. /\ answers["mixer"].state = "value"
        /\ Right(answers["mixer"].value, m.arg.property)
        /\ m.arg.property = Asked(Len(core.got)) /\ Len(core.got) # 2
    BY <1>2, <1>3, <1>10 DEF ToldWhatHolds, IsFree, Waits
  <2>2. /\ AsksAfterSets(box'["mixer"], "core") /\ Lacks(box'["mixer"], "set")
        /\ Range(box'["mixer"]) \subseteq Range(bm)
    BY <1>0, <1>2, <1>3, <1>8, <1>10, AsksTail, TailFacts DEF ToldWhatHolds
  <2>3. answers'["core"].state = "value" /\ Right(answers'["core"].value, Asked(Len(core.got)))
    BY <1>4, <2>1
  <2>4. answers'["mixer"].state = "none"
    BY <1>4 DEF NoAnswer
  <2>5. \A v, p : Right(v, p)' <=> Right(v, p)
    BY <1>1 DEF Right
  <2>. QED BY <1>1, <1>10, <2>0, <2>1, <2>2, <2>3, <2>4, <2>5 DEF ToldWhatHolds, Right
<1>11. CoreInv'
  <2>1. ~IsFree("core")
    BY <1>3 DEF IsFree, Waits
  <2>. QED BY <1>0, <1>1, <1>8, <1>9, <1>10, <2>1, CoreFrame
<1>. QED BY <1>6, <1>7, <1>9, <1>11 DEF IInv

-----------------------------------------------------------------------------
(* Audio. *)

\* The mixer hears something while it is at whatever it is at.
LEMMA WaitsKept ==
    ASSUME IInv, IsFree("mixer") => IsFree("mixer")',
           box'["mixer"] = box["mixer"] \/ \E n : box'["mixer"] = Append(box["mixer"], n),
           Range(box'["audio"]) \subseteq Range(box["audio"]),
           AsksAfterSets(box'["audio"], "mixer")
    PROVE  MixerWaits'
<1>0. Post(box, answers) /\ IsSeq(box["mixer"]) /\ MixerWaits /\ "mixer" \in Askers /\ "audio" \in Actors
  BY Facts
<1>1. box["mixer"] # << >> => box'["mixer"] # << >> /\ Head(box'["mixer"]) = Head(box["mixer"])
  <2>1. CASE box'["mixer"] = box["mixer"]
    BY <2>1
  <2>2. CASE \E n : box'["mixer"] = Append(box["mixer"], n)
    <3>1. PICK n : box'["mixer"] = Append(box["mixer"], n)
      BY <2>2
    <3>. QED BY <1>0, <3>1, AppendFacts, HeadOfAppend
  <2>. QED BY <2>1, <2>2
<1>2. ASSUME NEW k \in Range(box'["audio"]), k.from = "mixer" PROVE k.arg = Head(box'["mixer"]).arg
  <2>1. k \in Range(box["audio"])
    BY <1>2
  <2>2. answers["mixer"] = Waits
    BY <1>0, <1>2, <2>1, NoQuestions
  <2>3. box["mixer"] # << >>
    BY <1>0, <2>2 DEF MixerWaits, IsFree, Waits
  <2>. QED BY <1>0, <1>1, <1>2, <2>1, <2>3 DEF MixerWaits
<1>3. ~IsFree("mixer")' => box'["mixer"] # << >> /\ Head(box'["mixer"]).type = "get"
  BY <1>0, <1>1 DEF MixerWaits
<1>. QED BY <1>2, <1>3 DEF MixerWaits

\* What core was told is not touched by what the mixer hears.
LEMMA ToldKept ==
    ASSUME IInv, ToldWhatHolds,
           \/ box'["mixer"] = box["mixer"]
           \/ \E n : /\ box'["mixer"] = Append(box["mixer"], n)
                     /\ n.type # "set" /\ n.from # "core",
           Range(box'["audio"]) \subseteq Range(box["audio"]),
           mixer' = mixer, wanted' = wanted, core' = core, answers'["core"] = answers["core"],
           answers'["mixer"] = answers["mixer"]
    PROVE  ToldWhatHolds'
<1>0. Post(box, answers) /\ IsSeq(box["mixer"]) /\ MixerWaits
  BY Facts
<1>1. /\ box["mixer"] # << >> => Head(box'["mixer"]) = Head(box["mixer"])
      /\ Lacks(box["mixer"], "set") => Lacks(box'["mixer"], "set")
      /\ AsksAfterSets(box'["mixer"], "core")
      /\ \A k \in Range(box'["mixer"]) : k.from = "core" => k \in Range(box["mixer"])
  <2>1. CASE box'["mixer"] = box["mixer"]
    BY <2>1 DEF ToldWhatHolds
  <2>2. CASE \E n : /\ box'["mixer"] = Append(box["mixer"], n)
                    /\ n.type # "set" /\ n.from # "core"
    <3>1. PICK n : /\ box'["mixer"] = Append(box["mixer"], n)
                   /\ n.type # "set" /\ n.from # "core"
      BY <2>2
    <3>2. AsksAfterSets(box'["mixer"], "core")
      BY <1>0, <3>1, AsksAppend DEF ToldWhatHolds
    <3>3. /\ Range(Append(box["mixer"], n)) = Range(box["mixer"]) \union {n}
          /\ box["mixer"] # << >> => Head(Append(box["mixer"], n)) = Head(box["mixer"])
          /\ Lacks(box["mixer"], "set") => Lacks(Append(box["mixer"], n), "set")
      <4>1. Range(Append(box["mixer"], n)) = Range(box["mixer"]) \union {n}
        BY <1>0, AppendFacts
      <4>2. box["mixer"] # << >> => Head(Append(box["mixer"], n)) = Head(box["mixer"])
        BY <1>0, HeadOfAppend
      <4>. QED BY <3>1, <4>1, <4>2 DEF Lacks
    <3>. QED BY <3>1, <3>2, <3>3
  <2>. QED BY <2>1, <2>2
<1>2. \A v, p : Right(v, p)' <=> Right(v, p)
  BY DEF Right
<1>3. answers["mixer"].state # "none" => Head(box'["mixer"]) = Head(box["mixer"])
  BY <1>0, <1>1 DEF MixerWaits, IsFree
<1>. QED BY <1>1, <1>2, <1>3 DEF ToldWhatHolds, IsFree, Right

\* The mixer is told of something.
LEMMA ChangedFits ==
    ASSUME NEW p, NEW level
    PROVE  LET n == Changed(p, level)
           IN  Fits("mixer", n) /\ n.from = None /\ n.type = "changed" /\ n.from # "core"
<1>. DEFINE n == Changed(p, level)
<1>1. n.type = "changed" /\ n.from = None /\ n = Message(n.type, n.from, n.arg)
  BY MessageFacts DEF Changed
<1>. HIDE DEF n
<1>2. Fits("mixer", n)
  BY <1>1 DEF Fits, FitsMixer
<1>. QED BY <1>1, <1>2, NamesAssumption DEF n, Askers

\* A message for the mixer that asks for nothing.
LEMMA MixerAppends ==
    ASSUME NEW b, IsSeq(b), NEW m, m.type \in {"changed", "set", "get"}
    PROVE  /\ Lacks(Append(b, m), "stop") <=> Lacks(b, "stop")
           /\ Lacks(Append(b, m), "teardown") <=> Lacks(b, "teardown")
           /\ Lacks(Append(b, m), "adapter") <=> Lacks(b, "adapter")
           /\ OneAdapter(b) => OneAdapter(Append(b, m))
<1>1. m.type \notin {"stop", "teardown", "adapter"}
  OBVIOUS
<1>2. OneAdapter(b) => OneAdapter(Append(b, m))
  BY <1>1, AdapterAppend
<1>. QED BY <1>1, <1>2, LacksFacts

\* Audio takes a message and tells the mixer something, or not.
LEMMA AudioTakesOne ==
    ASSUME IInv, NEW type, Handles("audio", type), type # "stop",
           NEW n, n.type = "changed", n.from = None, Fits("mixer", n),
           box' = Taken("audio") \/ box' = Put(Taken("audio"), "mixer", n),
           NEW v, answers' = answers \/ answers' = Answered(Head(box["audio"]), v),
           status' = status, mixer' = mixer, wanted' = wanted, DOMAIN element' = DOMAIN element,
           main' = main, core' = core, web' = web, scripts' = scripts,
           SetsArrive => /\ type = "set" => mixer.setup
                         /\ mixer.setup =>
                               \A p \in Properties :
                                   Heard(Tail(box["audio"]), p, element'[p], wanted[p]),
           ToldWhatHolds /\ Undisturbed => ToldWhatHolds'
    PROVE  IInv'
<1>. DEFINE bm == box["mixer"]
            b == box["audio"]
            m == Head(b)
<1>0. /\ Mail(box, answers) /\ Post(box, answers) /\ DOMAIN box = Actors /\ DOMAIN answers = Askers
      /\ "mixer" \in Actors /\ "audio" \in Actors /\ "core" \in Actors /\ "mixer" \in Askers
      /\ "core" \in Askers
      /\ IsMixer /\ MixerWaits /\ CoreInv /\ StaffInv /\ IsSeq(bm) /\ IsSeq(b)
  BY Facts
<1>1. b # << >> /\ m.type = type /\ IsUp("audio")
  BY <1>0, HandlesFacts
<1>2. Mail(box', answers')
  <2>1. Mail(Taken("audio"), answers')
    BY <1>0, <1>1, MailHandled
  <2>. QED BY <1>0, <2>1, MailPut
<1>3. StaffInv'
  BY <1>0, <1>2, SameStaff
<1>4. TypeInv'
  <2>1. IsMixer'
    BY <1>0 DEF IsMixer
  <2>. QED BY <2>1, TypeKept
<1>5. /\ box'["audio"] = Tail(b) /\ box'["core"] = box["core"]
      /\ box'["mixer"] = bm \/ box'["mixer"] = Append(bm, n)
  <2>1. CASE box' = Taken("audio")
    BY <1>0, <2>1, TakenBox
  <2>2. CASE box' = Put(Taken("audio"), "mixer", n)
    <3>1. LET b2 == Put(Taken("audio"), "mixer", n)
          IN  /\ b2["audio"] = Tail(box["audio"])
              /\ b2["mixer"] = IF IsUp("mixer") THEN Append(box["mixer"], n) ELSE box["mixer"]
              /\ \A c \in Actors : c # "audio" /\ c # "mixer" => b2[c] = box[c]
      BY <1>0, SentBox
    <3>. QED BY <1>0, <2>2, <3>1
  <2>. QED BY <2>1, <2>2
<1>6. Range(box'["audio"]) \subseteq Range(b) /\ AsksAfterSets(box'["audio"], "mixer")
  BY <1>0, <1>1, <1>5, TailFacts, AsksTail DEF MixerWaits
<1>7. /\ IsFree("core") => IsFree("core")'
      /\ IsFree("mixer") => IsFree("mixer")'
  <2>1. IsFree("core") => IsFree("core")'
    BY <1>1, AnsweredCore
  <2>2. IsFree("mixer") => m.from # "mixer"
    <3>1. m \in Range(b)
      BY <1>0, <1>1, SeqFacts
    <3>2. IsFree("mixer") => answers["mixer"] # Waits
      BY DEF IsFree, Waits
    <3>. QED BY <1>0, <3>1, <3>2, NoQuestions
  <2>3. m.from # "mixer" => answers'["mixer"] = answers["mixer"]
    BY <1>1, AnsweredCore
  <2>. QED BY <2>1, <2>2, <2>3 DEF IsFree
<1>8. MixerWaits'
  BY <1>5, <1>6, <1>7, WaitsKept
<1>9. /\ Lacks(Append(bm, n), "stop") <=> Lacks(bm, "stop")
      /\ Lacks(Append(bm, n), "teardown") <=> Lacks(bm, "teardown")
      /\ Lacks(Append(bm, n), "adapter") <=> Lacks(bm, "adapter")
      /\ OneAdapter(bm) => OneAdapter(Append(bm, n))
  <2>1. n.type \in {"changed", "set", "get"} /\ IsSeq(bm)
    BY <1>0
  <2>. QED BY <2>1, MixerAppends
<1>10. Undisturbed' <=> Undisturbed
  <2>1. Lacks(box'["mixer"], "stop") <=> Lacks(bm, "stop")
    BY <1>5, <1>9
  <2>2. Lacks(box'["audio"], "stop") <=> Lacks(b, "stop")
    BY <1>0, <1>1, <1>5, LacksFacts
  <2>. QED BY <2>1, <2>2 DEF Undisturbed
<1>11. ASSUME SetsArrive PROVE SetsArrive'
  <2>1. /\ OneAdapter(box'["mixer"]) /\ Lacks(box'["mixer"], "teardown")
        /\ Lacks(bm, "adapter") => Lacks(box'["mixer"], "adapter")
    BY <1>5, <1>11, <1>9 DEF SetsArrive
  <2>2. ~mixer.setup => Lacks(box'["audio"], "set")
    BY <1>0, <1>1, <1>5, <1>11, LacksFacts DEF SetsArrive
  <2>. QED BY <1>5, <1>11, <2>1, <2>2 DEF SetsArrive
<1>12. MixerInv'
  BY <1>8, <1>10, <1>11 DEF IInv, MixerInv, StopsInTurn
<1>13. CoreInv'
  BY <1>0, <1>5, <1>7, <1>10, CoreFrame
<1>. QED BY <1>3, <1>4, <1>12, <1>13 DEF IInv

LEMMA AudioSetsStep ==
    ASSUME IInv, AudioSets, UNCHANGED <<serverVars, coreVars, httpVars, appVars>>
    PROVE  IInv'
<1>. DEFINE b == box["audio"]
            m == Head(b)
            p == m.arg.property
            n == Changed(p, m.arg.level)
<1>0. /\ Post(box, answers) /\ "audio" \in Actors /\ IsSeq(b) /\ IsMixer
  BY Facts
<1>1. /\ Handles("audio", "set") /\ element' = [element EXCEPT ![p] = m.arg.level]
      /\ box' = Put(Taken("audio"), "mixer", n)
      /\ status' = status /\ answers' = answers /\ mixer' = mixer /\ wanted' = wanted
      /\ main' = main /\ core' = core /\ web' = web /\ scripts' = scripts
  BY DEF AudioSets, serverVars, coreVars, httpVars
<1>2. b # << >> /\ m.type = "set"
  BY <1>0, <1>1, HandlesFacts
<1>3. n.type = "changed" /\ n.from = None /\ Fits("mixer", n) /\ n.from # "core"
  BY ChangedFits
<1>. HIDE DEF n, m, p
<1>4. ASSUME SetsArrive
      PROVE  mixer.setup /\ \A q \in Properties : Heard(Tail(b), q, element'[q], wanted[q])
  <2>1. mixer.setup
    BY <1>0, <1>2, <1>4, LacksFacts DEF SetsArrive, m
  <2>2. ASSUME NEW q \in Properties PROVE Heard(Tail(b), q, element'[q], wanted[q])
    <3>1. Heard(b, q, element[q], wanted[q])
      BY <1>4, <2>1 DEF SetsArrive
    <3>2. CASE q = p
      <4>1. Sets(m, q) /\ element'[q] = m.arg.level
        BY <1>0, <1>1, <1>2, <3>2 DEF Sets, p, IsMixer
      <4>. QED BY <1>0, <1>2, <3>1, <4>1, HeardTail DEF m
    <3>3. CASE q # p
      <4>1. ~Sets(m, q) /\ element'[q] = element[q]
        BY <1>0, <1>1, <3>3 DEF Sets, p, IsMixer
      <4>. QED BY <1>0, <1>2, <3>1, <4>1, HeardTail DEF m
    <3>. QED BY <3>2, <3>3
  <2>. QED BY <2>1, <2>2
<1>5. DOMAIN element' = DOMAIN element
  BY <1>1
<1>6. ToldWhatHolds => ToldWhatHolds'
  <2>1. /\ box'["audio"] = Tail(b)
        /\ box'["mixer"] = box["mixer"] \/ box'["mixer"] = Append(box["mixer"], n)
    <3>1. LET b2 == Put(Taken("audio"), "mixer", n)
          IN  /\ b2["audio"] = Tail(box["audio"])
              /\ b2["mixer"] = IF IsUp("mixer") THEN Append(box["mixer"], n) ELSE box["mixer"]
              /\ \A c \in Actors : c # "audio" /\ c # "mixer" => b2[c] = box[c]
      BY Facts, SentBox
    <3>. QED BY <1>1, <3>1
  <2>2. Range(box'["audio"]) \subseteq Range(b)
    BY <1>0, <1>2, <2>1, TailFacts
  <2>3. n.type # "set" /\ n.from # "core"
    BY <1>3
  <2>. QED BY <1>1, <2>1, <2>2, <2>3, ToldKept
<1>. QED BY <1>1, <1>3, <1>4, <1>5, <1>6, AudioTakesOne

LEMMA AudioGetsStep ==
    ASSUME IInv, AudioGets, UNCHANGED <<serverVars, coreVars, httpVars, appVars>>
    PROVE  IInv'
<1>. DEFINE b == box["audio"]
            bm == box["mixer"]
            m == Head(b)
            p == m.arg.property
            n == Changed("volume", None)
<1>0. /\ Post(box, answers) /\ "audio" \in Actors /\ "mixer" \in Actors /\ IsSeq(b) /\ IsSeq(bm) /\ IsMixer /\ MixerWaits
      /\ DOMAIN box = Actors /\ "mixer" \in Askers /\ "core" \in Askers /\ DOMAIN answers = Askers
  BY Facts
<1>1. /\ Handles("audio", "get") /\ answers' = Answered(m, element[p])
      /\ box' = Taken("audio")
      /\ status' = status /\ mixer' = mixer /\ wanted' = wanted /\ element' = element
      /\ main' = main /\ core' = core /\ web' = web /\ scripts' = scripts
  BY DEF AudioGets, mixerVars, serverVars, coreVars, httpVars
<1>2. b # << >> /\ m.type = "get" /\ m \in Range(b) /\ Fits("audio", m)
  BY <1>0, <1>1, HandlesFacts
<1>3. m.from = "mixer"
  <2>. HIDE DEF m
  <2>. QED BY <1>2 DEF Fits, FitsAudio, StopFrom
<1>4. n.type = "changed" /\ n.from = None /\ Fits("mixer", n)
  BY ChangedFits
<1>5. ASSUME SetsArrive, mixer.setup
      PROVE  \A q \in Properties : Heard(Tail(b), q, element'[q], wanted[q])
  BY <1>0, <1>1, <1>2, <1>5, AudioTakes DEF SetsArrive
<1>6. ASSUME ToldWhatHolds, Undisturbed PROVE ToldWhatHolds'
  <2>1. answers["mixer"] = Waits /\ bm # << >> /\ Head(bm).type = "get" /\ m.arg = Head(bm).arg
    <3>1. answers["mixer"] = Waits
      BY <1>0, <1>2, <1>3, NoQuestions
    <3>. QED BY <1>0, <1>2, <1>3, <3>1 DEF MixerWaits, IsFree, Waits
  <2>2. Head(bm).from = "core"
    <3>1. Fits("mixer", Head(bm))
      BY <1>0, <2>1, SeqFacts DEF Post
    <3>. QED BY <2>1, <3>1 DEF Fits, FitsMixer, StopFrom
  <2>3. p = Asked(Len(core.got)) /\ p \in Properties
    <3>1. Head(bm) \in Range(bm)
      BY <1>0, <2>1, SeqFacts
    <3>. QED BY <1>6, <2>1, <2>2, <3>1 DEF ToldWhatHolds, Asked, Properties
  <2>4. Right(element[p], p)
    <3>1. Lacks(b, "set")
      BY <1>0, <1>2, <1>3, LacksFacts, AsksTail DEF MixerWaits
    <3>2. Heard(b, p, element[p], wanted[p])
      BY <1>6, <2>3 DEF IInv, MixerInv, SetsArrive, ToldWhatHolds
    <3>. QED BY <1>0, <3>1, <3>2, HeardIfNone DEF Right
  <2>5. /\ answers'["mixer"] = Value(element[p]) /\ answers'["core"] = answers["core"]
    BY <1>0, <1>1, <1>3, AnsweredFacts
  <2>6. /\ box'["mixer"] = bm /\ box'["audio"] = Tail(b)
    BY <1>0, <1>1, TakenBox
  <2>7. \A k \in Range(box'["audio"]) : k.from # "core"
    BY <1>0, <1>2, <1>6, <2>6, TailFacts DEF ToldWhatHolds
  <2>8. \A v, q : Right(v, q)' <=> Right(v, q)
    BY <1>1 DEF Right
  <2>9. /\ answers'["mixer"].state = "value"
        /\ Right(answers'["mixer"].value, Head(box'["mixer"]).arg.property)
    BY <2>1, <2>4, <2>5, <2>6 DEF Value
  <2>. HIDE DEF p, m
  <2>. QED BY <1>1, <1>6, <2>5, <2>6, <2>7, <2>8, <2>9 DEF ToldWhatHolds, IsFree, Right
<1>. HIDE DEF n
<1>. QED BY <1>1, <1>4, <1>5, <1>6, AudioTakesOne

LEMMA AudioSetsUriStep ==
    ASSUME IInv, AudioSetsUri(main.mixer), UNCHANGED <<serverVars, coreVars, httpVars, appVars>>
    PROVE  IInv'
<1>. DEFINE b == box["audio"]
            m == Head(b)
            n == Changed("volume", element["volume"])
<1>0. /\ Post(box, answers) /\ "audio" \in Actors /\ IsSeq(b) /\ IsMixer
      /\ DOMAIN box = Actors /\ "mixer" \in Askers /\ DOMAIN answers = Askers
  BY Facts
<1>1. /\ Handles("audio", "set_uri") /\ answers' = Answered(m, None)
      /\ box' = Taken("audio") \/ box' = Put(Taken("audio"), "mixer", n)
      /\ status' = status /\ mixer' = mixer /\ wanted' = wanted /\ element' = element
      /\ main' = main /\ core' = core /\ web' = web /\ scripts' = scripts
  BY DEF AudioSetsUri, mixerVars, serverVars, coreVars, httpVars
<1>2. b # << >> /\ m.type = "set_uri" /\ m \in Range(b) /\ Fits("audio", m)
  BY <1>0, <1>1, HandlesFacts
<1>3. m.from = "core"
  <2>. HIDE DEF m
  <2>. QED BY <1>2 DEF Fits, FitsAudio, StopFrom
<1>4. n.type = "changed" /\ n.from = None /\ Fits("mixer", n)
  BY ChangedFits
<1>5. ASSUME SetsArrive, mixer.setup
      PROVE  \A q \in Properties : Heard(Tail(b), q, element'[q], wanted[q])
  BY <1>0, <1>1, <1>2, <1>5, AudioTakes DEF SetsArrive
<1>6. ~ToldWhatHolds
  BY <1>2, <1>3 DEF ToldWhatHolds
<1>. HIDE DEF n
<1>. QED BY <1>1, <1>4, <1>5, <1>6, AudioTakesOne

\* Audio ends when it has been asked to stop, and tells the mixer.
LEMMA AudioStopsStep ==
    ASSUME IInv, AudioStops(main.mixer), UNCHANGED <<serverVars, coreVars, httpVars, appVars>>
    PROVE  IInv'
<1>. DEFINE b == box["audio"]
            bm == box["mixer"]
            n == Message("teardown", None, None)
            rest == [box EXCEPT !["audio"] = << >>]
<1>0. /\ Post(box, answers) /\ "audio" \in Actors /\ "mixer" \in Actors /\ IsSeq(b) /\ IsSeq(bm)
      /\ DOMAIN box = Actors /\ "mixer" \in Askers /\ "core" \in Askers /\ DOMAIN answers = Askers
      /\ "core" \in Actors /\ StaffInv /\ IsMixer /\ CoreInv
  BY Facts
<1>1. /\ Handles("audio", "stop") /\ Stops("audio")
      /\ box' = rest \/ box' = Put(rest, "mixer", n)
      /\ mixer' = mixer /\ wanted' = wanted /\ element' = element
      /\ main' = main /\ core' = core /\ web' = web /\ scripts' = scripts
  BY DEF AudioStops, mixerVars, serverVars, coreVars, httpVars
<1>2. /\ b # << >> /\ Head(b).type = "stop" /\ Head(b) \in Range(b) /\ status["audio"] # "none"
  BY <1>0, <1>1, HandlesFacts
<1>3. n.type = "teardown" /\ n.from = None /\ Fits("mixer", n) /\ n.from # "main"
  <2>1. n.type = "teardown" /\ n.from = None /\ n = Message(n.type, n.from, n.arg)
    BY MessageFacts
  <2>. HIDE DEF n
  <2>. QED BY <2>1, NamesAssumption DEF Fits, FitsMixer, Askers
<1>. HIDE DEF n
<1>4. /\ status' = [status EXCEPT !["audio"] = "stopped"] /\ answers' = Ended("audio")
  BY <1>1 DEF Stops
<1>5. /\ Post(rest, answers') /\ DOMAIN rest = Actors /\ rest["audio"] = << >>
      /\ \A a \in Actors : a # "audio" => rest[a] = box[a]
  BY <1>0, <1>2, <1>4, StopsPost
<1>6. NoneFrom(box, "main") => NoneFrom(rest, "main")
  BY <1>0, <1>5, NoneAfterStop
<1>. HIDE DEF rest
<1>7. Post(Put(rest, "mixer", n), answers') /\ (NoneFrom(rest, "main") => NoneFrom(Put(rest, "mixer", n), "main"))
  BY <1>0, <1>3, <1>5, PutFits, NoneAfterPut
<1>8. /\ box'["audio"] = << >>
      /\ box'["mixer"] = (IF IsUp("mixer") THEN Append(bm, n) ELSE bm) \/ box'["mixer"] = bm
      /\ \A a \in Actors : a \notin {"audio", "mixer"} => box'[a] = box[a]
  <2>1. /\ Put(rest, "mixer", n)["mixer"] = (IF IsUp("mixer") THEN Append(rest["mixer"], n) ELSE rest["mixer"])
        /\ \A a \in Actors : a # "mixer" => Put(rest, "mixer", n)[a] = rest[a]
    BY <1>0, <1>5, PutBox
  <2>. QED BY <1>0, <1>1, <1>5, <2>1
<1>9. StaffInv'
  <2>1. Post(box', answers') /\ (NoneFrom(box, "main") => NoneFrom(box', "main"))
    BY <1>1, <1>5, <1>6, <1>7
  <2>2. \A a \in Actors : a # "audio" /\ ~IsUp(a) => box'[a] = << >>
    BY <1>0, <1>8 DEF StaffInv, Mail, NobodyThere
  <2>. QED BY <1>0, <1>1, <1>2, <1>4, <1>8, <2>1, <2>2, StatusStaff
<1>10. TypeInv'
  <2>1. IsMixer'
    BY <1>0, <1>1 DEF IsMixer
  <2>. QED BY <1>1, <2>1, TypeKept
<1>11. /\ IsFree("core") => IsFree("core")'
       /\ IsFree("mixer") => IsFree("mixer")'
  <2>1. ASSUME NEW x \in {"core", "mixer"}, IsFree(x) PROVE answers'[x] = answers[x]
    <3>1. answers[x] # Waits
      BY <2>1 DEF IsFree, Waits
    <3>2. \A k \in Range(b) : k.from # x
      BY <1>0, <3>1, NoQuestions
    <3>3. \A i \in 2 .. Len(b) : b[i] \in Range(b)
      BY <1>0, SeqFacts DEF Range
    <3>. QED BY <1>0, <1>2, <1>4, <3>2, <3>3 DEF Ended
  <2>. QED BY <2>1 DEF IsFree
<1>12. MixerWaits'
  <2>1. Range(box'["audio"]) \subseteq Range(b) /\ AsksAfterSets(box'["audio"], "mixer")
    BY <1>8, EmptyFacts, EmptyLacks
  <2>. QED BY <1>8, <1>11, <2>1, WaitsKept
<1>13. ~Undisturbed /\ ~Undisturbed'
  <2>1. ~Lacks(b, "stop")
    BY <1>2 DEF Lacks
  <2>2. status'["audio"] = "stopped"
    BY <1>0, <1>4 DEF StaffInv, IsMain
  <2>. QED BY <2>1, <2>2 DEF Undisturbed
<1>14. MixerInv'
  BY <1>1, <1>12, <1>13 DEF IInv, MixerInv, StopsInTurn
<1>15. CoreInv'
  BY <1>0, <1>1, <1>8, <1>11, <1>13, CoreFrame
<1>. QED BY <1>9, <1>10, <1>14, <1>15 DEF IInv

\* Audio is ready, and tells the mixer, if there is one.
LEMMA AudioStartsStep ==
    ASSUME IInv, AudioStarts(main.mixer), UNCHANGED <<serverVars, coreVars, httpVars, appVars>>
    PROVE  IInv'
<1>. DEFINE b == box["audio"]
            bm == box["mixer"]
            n == Message("adapter", None, None)
<1>0. /\ Post(box, answers) /\ "audio" \in Actors /\ "mixer" \in Actors /\ IsSeq(b) /\ IsSeq(bm)
      /\ DOMAIN box = Actors /\ "mixer" \in Askers /\ "core" \in Askers /\ DOMAIN answers = Askers
      /\ "core" \in Actors /\ StaffInv /\ IsMixer /\ CoreInv /\ DOMAIN status = Actors /\ MixerWaits
  BY Facts
<1>1. /\ status["audio"] = "starting" /\ status' = [status EXCEPT !["audio"] = "running"]
      /\ box' = box \/ box' = Put(box, "mixer", n)
      /\ answers' = answers
      /\ mixer' = mixer /\ wanted' = wanted /\ element' = element
      /\ main' = main /\ core' = core /\ web' = web /\ scripts' = scripts
  BY DEF AudioStarts, mixerVars, serverVars, coreVars, httpVars
<1>2. n.type = "adapter" /\ n.from = None /\ Fits("mixer", n) /\ n.from # "main" /\ n.from # "core"
  <2>1. n.type = "adapter" /\ n.from = None /\ n = Message(n.type, n.from, n.arg)
    BY MessageFacts
  <2>. HIDE DEF n
  <2>. QED BY <2>1, NamesAssumption DEF Fits, FitsMixer, Askers
<1>. HIDE DEF n
<1>3. Post(box', answers') /\ (NoneFrom(box, "main") => NoneFrom(box', "main"))
  BY <1>0, <1>1, <1>2, PutFits, NoneAfterPut
<1>4. /\ box'["mixer"] = (IF IsUp("mixer") THEN Append(bm, n) ELSE bm) \/ box'["mixer"] = bm
      /\ \A a \in Actors : a # "mixer" => box'[a] = box[a]
  <2>1. /\ Put(box, "mixer", n)["mixer"] = (IF IsUp("mixer") THEN Append(bm, n) ELSE bm)
        /\ \A a \in Actors : a # "mixer" => Put(box, "mixer", n)[a] = box[a]
    BY <1>0, PutBox
  <2>. QED BY <1>0, <1>1, <2>1
<1>5. StaffInv'
  <2>1. \A a \in Actors : a # "audio" /\ ~IsUp(a) => box'[a] = << >>
    BY <1>0, <1>4 DEF StaffInv, Mail, NobodyThere
  <2>. QED BY <1>0, <1>1, <1>3, <2>1, StatusStaff
<1>6. TypeInv'
  <2>1. IsMixer'
    BY <1>0, <1>1 DEF IsMixer
  <2>. QED BY <1>1, <2>1, TypeKept
<1>7. MixerWaits'
  <2>1. Range(box'["audio"]) \subseteq Range(b) /\ AsksAfterSets(box'["audio"], "mixer")
    BY <1>0, <1>4 DEF MixerWaits
  <2>2. IsFree("mixer") => IsFree("mixer")'
    BY <1>1 DEF IsFree
  <2>. QED BY <1>4, <2>1, <2>2, WaitsKept
<1>8. status'["audio"] = "running" /\ status'["mixer"] = status["mixer"] /\ box'["audio"] = b /\ box'["core"] = box["core"]
  BY <1>0, <1>1, <1>4
<1>9. /\ Lacks(Append(bm, n), "stop") <=> Lacks(bm, "stop")
      /\ Lacks(Append(bm, n), "teardown") <=> Lacks(bm, "teardown")
      /\ OneAdapter(bm) /\ Lacks(bm, "adapter") => OneAdapter(Append(bm, n))
  BY <1>0, <1>2, LacksFacts, AdapterAppend
<1>10. Undisturbed' <=> Undisturbed
  BY <1>1, <1>4, <1>8, <1>9 DEF Undisturbed
<1>11. ASSUME SetsArrive PROVE SetsArrive' /\ ~mixer.setup
  <2>1. ~mixer.setup /\ Lacks(bm, "adapter")
    BY <1>1, <1>11 DEF SetsArrive
  <2>2. OneAdapter(box'["mixer"]) /\ Lacks(box'["mixer"], "teardown")
    BY <1>4, <1>9, <1>11, <2>1 DEF SetsArrive
  <2>. QED BY <1>1, <1>8, <1>11, <2>1, <2>2 DEF SetsArrive
<1>12. MixerInv'
  BY <1>1, <1>7, <1>10, <1>11 DEF IInv, MixerInv, StopsInTurn
<1>13. CoreInv'
  <2>1. ~(ToldWhatHolds /\ Undisturbed)
    BY <1>11 DEF IInv, MixerInv, ToldWhatHolds
  <2>2. IsFree("core") => IsFree("core")'
    BY <1>1 DEF IsFree
  <2>. QED BY <1>0, <1>1, <1>8, <1>10, <2>1, <2>2, CoreFrame
<1>. QED BY <1>5, <1>6, <1>12, <1>13 DEF IInv

-----------------------------------------------------------------------------
(* An interrupt. *)

\* The main thread is forgotten as the asker, and nothing else.
LEMMA ForgottenKeeps ==
    ASSUME Post(box, answers), NEW a \in Actors, box' = box \/ box' = Forgotten
    PROVE  /\ box[a] = << >> => box'[a] = << >>
           /\ box[a] # << >> => /\ box'[a] # << >>
                                /\ Head(box'[a]).type = Head(box[a]).type
                                /\ Head(box'[a]).arg = Head(box[a]).arg
           /\ \A k \in Range(box'[a]) :
                 \E j \in Range(box[a]) :
                    /\ j.type = k.type /\ j.arg = k.arg
                    /\ k.from \in {"core", "mixer"} => j.from = k.from
           /\ OneAdapter(box[a]) => OneAdapter(box'[a])
           /\ \A type : Lacks(box'[a], type) <=> Lacks(box[a], type)
           /\ \A x \in {"core", "mixer"} :
                 AsksAfterSets(box[a], x) => AsksAfterSets(box'[a], x)
           /\ \A p, now, want : Heard(box[a], p, now, want) => Heard(box'[a], p, now, want)
<1>1. CASE box' = box
  <2>1. \A k \in Range(box'[a]) :
           \E j \in Range(box[a]) :
              /\ j.type = k.type /\ j.arg = k.arg
              /\ k.from \in {"core", "mixer"} => j.from = k.from
    BY <1>1
  <2>. QED BY <1>1, <2>1
<1>2. CASE box' = Forgotten
  <2>0. {"core", "mixer"} \subseteq Askers /\ "main" \notin {"core", "mixer"} /\ None \notin {"core", "mixer"}
    BY NamesAssumption DEF Askers
  <2>1. ASSUME NEW k \in Range(Forgotten[a])
        PROVE  \E j \in Range(box[a]) :
                  /\ j.type = k.type /\ j.arg = k.arg
                  /\ k.from \in {"core", "mixer"} => j.from = k.from
    <3>1. PICK i \in DOMAIN box[a] : k = Forgotten[a][i]
      BY ForgottenFacts DEF Range
    <3>2. box[a][i] \in Range(box[a])
      BY DEF Range
    <3>3. /\ box[a][i].type = k.type /\ box[a][i].arg = k.arg
          /\ k.from = (IF box[a][i].from = "main" THEN None ELSE box[a][i].from)
      BY <3>1, ForgottenFacts
    <3>. QED BY <2>0, <3>2, <3>3
  <2>2. /\ box[a] = << >> => Forgotten[a] = << >>
        /\ box[a] # << >> => /\ Forgotten[a] # << >>
                             /\ Head(Forgotten[a]).type = Head(box[a]).type
                             /\ Head(Forgotten[a]).arg = Head(box[a]).arg
    BY ForgottenFacts
  <2>3. OneAdapter(box[a]) => OneAdapter(Forgotten[a])
    BY AdapterForgotten
  <2>4. \A type : Lacks(Forgotten[a], type) <=> Lacks(box[a], type)
    BY LacksForgotten
  <2>5. \A x \in {"core", "mixer"} : AsksAfterSets(box[a], x) => AsksAfterSets(Forgotten[a], x)
    BY <2>0, AsksForgotten
  <2>6. ASSUME NEW p, NEW now, NEW want, Heard(box[a], p, now, want)
        PROVE  Heard(Forgotten[a], p, now, want)
    BY <2>6, HeardForgotten
  <2>. QED BY <1>2, <2>1, <2>2, <2>3, <2>4, <2>5, <2>6
<1>. QED BY <1>1, <1>2

LEMMA InterruptedFacts ==
    ASSUME IsMain, main' = Interrupted
    PROVE  /\ main' \in MainType /\ main'.mixer = main.mixer
           /\ main' # main => main'.at \in {"ended", "aborted", "stop_frontends"}
           /\ main'.at = "stop_frontends" => main.at \in Starting
           /\ main'.at = "aborted" <=> main.at \in Stopping \union {"aborted"}
           /\ main' = main => main.at \in {"ended", "aborted"}
<1>1. main \in MainType
  BY DEF IsMain
<1>2. ASSUME NEW at \in {"ended", "aborted", "stop_frontends"}
      PROVE  Go(at) \in MainType /\ Go(at).mixer = main.mixer /\ Go(at).at = at
  BY <1>1 DEF Go, MainType, Stopping
<1>3. main.at \in Starting \union Stopping \union {"config", "aborted", "ended"}
  BY <1>1 DEF MainType
<1>4. CASE main.at = "config"
  <2>1. main' = Go("ended")
    BY <1>4 DEF Interrupted, Starting, Stopping
  <2>. QED BY <1>2, <1>4, <2>1 DEF Stopping
<1>5. CASE main.at \in Starting
  <2>1. main' = Go("stop_frontends")
    BY <1>5 DEF Interrupted, Starting, Stopping
  <2>. QED BY <1>2, <1>5, <2>1 DEF Stopping, Starting
<1>6. CASE main.at \in Stopping
  <2>1. main' = Go("aborted")
    BY <1>6 DEF Interrupted, Starting, Stopping
  <2>. QED BY <1>2, <1>6, <2>1 DEF Stopping, Starting
<1>7. CASE main.at \in {"aborted", "ended"}
  <2>1. main' = main
    BY <1>7 DEF Interrupted, Starting, Stopping
  <2>. QED BY <1>1, <1>7, <2>1 DEF Stopping, Starting
<1>. QED BY <1>3, <1>4, <1>5, <1>6, <1>7

LEMMA InterruptedStep ==
    ASSUME IInv, main' = Interrupted,
           \/ main' = main /\ box' = box /\ answers' = answers
           \/ box' = Forgotten /\ answers' = NoLongerWaiting,
           \/ status' = status
           \/ status["audio"] = "starting" /\ status' = [status EXCEPT !["audio"] = "running"],
           mixerVars' = mixerVars, core' = core, web' = web, scripts' = scripts
    PROVE  IInv'
<1>0. /\ Post(box, answers) /\ {"mixer", "audio", "core"} \subseteq Actors
      /\ DOMAIN box = Actors /\ {"mixer", "core"} \subseteq Askers /\ DOMAIN answers = Askers
      /\ StaffInv /\ IsMixer /\ CoreInv /\ DOMAIN status = Actors /\ MixerWaits /\ IsMain
      /\ mixer' = mixer /\ element' = element /\ wanted' = wanted
      /\ status \in [Actors -> Statuses]
  BY Facts DEF StaffInv, IsMain, mixerVars
<1>1. /\ main' \in MainType /\ main'.mixer = main.mixer
      /\ main' # main => main'.at \in {"ended", "aborted", "stop_frontends"}
      /\ main'.at = "stop_frontends" => main.at \in Starting
      /\ main'.at = "aborted" <=> main.at \in Stopping \union {"aborted"}
      /\ main' = main => main.at \in {"ended", "aborted"}
  BY <1>0, InterruptedFacts
<1>2. /\ status' \in [Actors -> Statuses]
      /\ \A a \in Actors : IsUp(a)' <=> IsUp(a)
      /\ \A a \in Actors : status'[a] = status[a] \/ (status[a] = "starting" /\ status'[a] = "running")
  BY <1>0 DEF IsUp, Statuses
<1>3. answers'["mixer"] = answers["mixer"] /\ answers'["core"] = answers["core"]
  BY <1>0 DEF NoLongerWaiting
<1>4. box' = box \/ box' = Forgotten
  OBVIOUS
<1>5. StaffInv'
  <2>1. Post(box', answers') /\ ((box' = box /\ main' = main) \/ NoneFrom(box', "main"))
    BY <1>0, ForgottenPost DEF NoneFrom
  <2>2. NobodyThere(box)'
    <3>1. \A a \in Actors : box[a] = << >> => box'[a] = << >>
      BY <1>0, <1>4, ForgottenKeeps
    <3>. QED BY <1>0, <1>2, <3>1 DEF StaffInv, Mail, NobodyThere
  <2>3. MainAsks(box)'
    BY <1>0, <2>1 DEF StaffInv, Mail, MainAsks
  <2>4. NotStarted' /\ IsMain'
    <3>1. Backends \subseteq Actors
      BY DEF Actors
    <3>. QED BY <1>0, <1>1, <1>2, <3>1 DEF NotStarted, IsMain, Early
  <2>. QED BY <2>1, <2>2, <2>3, <2>4 DEF StaffInv, Mail
<1>6. TypeInv'
  <2>1. IsMixer'
    BY <1>0 DEF IsMixer
  <2>. QED BY <2>1, TypeKept
<1>7. /\ box["mixer"] # << >> => /\ box'["mixer"] # << >>
                                 /\ Head(box'["mixer"]).type = Head(box["mixer"]).type
                                 /\ Head(box'["mixer"]).arg = Head(box["mixer"]).arg
      /\ \A k \in Range(box'["mixer"]) :
           \E j \in Range(box["mixer"]) :
              /\ j.type = k.type /\ j.arg = k.arg
              /\ k.from \in {"core", "mixer"} => j.from = k.from
      /\ OneAdapter(box["mixer"]) => OneAdapter(box'["mixer"])
      /\ \A type : Lacks(box'["mixer"], type) <=> Lacks(box["mixer"], type)
      /\ AsksAfterSets(box["mixer"], "core") => AsksAfterSets(box'["mixer"], "core")
  BY <1>0, <1>4, ForgottenKeeps
<1>8. /\ \A k \in Range(box'["audio"]) :
           \E j \in Range(box["audio"]) :
              /\ j.type = k.type /\ j.arg = k.arg
              /\ k.from \in {"core", "mixer"} => j.from = k.from
      /\ \A type : Lacks(box'["audio"], type) <=> Lacks(box["audio"], type)
      /\ AsksAfterSets(box["audio"], "mixer") => AsksAfterSets(box'["audio"], "mixer")
      /\ \A p, now, want : Heard(box["audio"], p, now, want) => Heard(box'["audio"], p, now, want)
  BY <1>0, <1>4, ForgottenKeeps
<1>9. /\ box["core"] # << >> => /\ box'["core"] # << >>
                                /\ Head(box'["core"]).type = Head(box["core"]).type
                                /\ Head(box'["core"]).arg = Head(box["core"]).arg
      /\ box["core"] = << >> => box'["core"] = << >>
      /\ \A k \in Range(box'["core"]) : \E j \in Range(box["core"]) : j.type = k.type
  BY <1>0, <1>4, ForgottenKeeps
<1>10. MixerWaits'
  <2>1. ~IsFree("mixer") => box["mixer"] # << >> /\ Head(box["mixer"]).type = "get"
    BY <1>0 DEF MixerWaits
  <2>2. ASSUME NEW k \in Range(box'["audio"]), k.from = "mixer" PROVE k.arg = Head(box'["mixer"]).arg
    <3>1. PICK j \in Range(box["audio"]) : j.arg = k.arg /\ j.from = "mixer"
      BY <1>8, <2>2
    <3>2. ~IsFree("mixer")
      BY <1>0, <3>1, NoQuestions DEF IsFree, Waits
    <3>. QED BY <1>0, <1>7, <2>1, <3>1, <3>2 DEF MixerWaits
  <2>3. IsFree("mixer")' <=> IsFree("mixer")
    BY <1>3 DEF IsFree
  <2>. QED BY <1>0, <1>7, <1>8, <2>1, <2>2, <2>3 DEF MixerWaits
<1>11. Undisturbed' <=> Undisturbed
  BY <1>0, <1>2, <1>7, <1>8 DEF Undisturbed
<1>12. SetsArrive => SetsArrive'
  BY <1>0, <1>2, <1>7, <1>8 DEF SetsArrive
<1>13. StopsInTurn'
  BY <1>1, <1>11 DEF IInv, MixerInv, StopsInTurn, Starting
<1>14. CoreBusy'
  <2>1. IsFree("core")' <=> IsFree("core")
    BY <1>3 DEF IsFree
  <2>. QED BY <1>0, <1>9, <2>1 DEF CoreInv, CoreBusy, IsBad
<1>15. TeardownInTurn'
  <2>. SUFFICES ASSUME NEW k \in Range(box'["core"]), k.type = "teardown"
                PROVE  Undisturbed' /\ main'.at = "aborted"
    BY DEF TeardownInTurn
  <2>1. Undisturbed /\ main.at \in {"teardown", "aborted"}
    BY <1>0, <1>9 DEF CoreInv, TeardownInTurn
  <2>. QED BY <1>1, <1>11, <2>1 DEF Stopping
<1>16. SavesRight'
  <2>. SUFFICES ASSUME IsSaving' PROVE ToldWhatHolds'
    BY DEF SavesRight
  <2>1. IsSaving
    BY <1>1, <1>3, <1>9 DEF IsSaving, IsFree
  <2>2. ToldWhatHolds
    BY <1>0, <2>1 DEF CoreInv, SavesRight
  <2>3. /\ \A k \in Range(box'["mixer"]) : k.from = "core" =>
              k.type = "get" /\ k.arg.property = Asked(Len(core.got))
        /\ \A k \in Range(box'["audio"]) : k.from # "core"
    BY <1>7, <1>8, <2>2 DEF ToldWhatHolds
  <2>4. \A v, p : Right(v, p)' <=> Right(v, p)
    BY <1>0 DEF Right
  <2>5. answers["mixer"].state # "none" => Head(box'["mixer"]).arg = Head(box["mixer"]).arg
    BY <1>0, <1>7 DEF MixerWaits, IsFree
  <2>6. /\ Lacks(box["mixer"], "set") => Lacks(box'["mixer"], "set")
        /\ AsksAfterSets(box'["mixer"], "core")
    BY <1>7, <2>2 DEF ToldWhatHolds
  <2>. QED BY <1>0, <1>3, <2>2, <2>3, <2>4, <2>5, <2>6 DEF ToldWhatHolds, IsFree, Right
<1>. QED BY <1>5, <1>6, <1>10, <1>11, <1>12, <1>13, <1>14, <1>15, <1>16 DEF IInv, MixerInv, CoreInv

-----------------------------------------------------------------------------
(* The mixer and audio, whatever they do. *)

LEMMA MixerStep ==
    ASSUME IInv, MixerThread
    PROVE  IInv'
<1>1. UNCHANGED <<serverVars, coreVars, httpVars, appVars>>
  BY DEF MixerThread
<1>. QED
  BY <1>1, MixerSetupStep, MixerSetStep, MixerGetStep, MixerGetsStep, MixerTellsStep,
     MixerTeardownStep, MixerStopsStep
  DEF MixerThread, MixerActs

LEMMA AudioStep ==
    ASSUME IInv, AudioThread
    PROVE  IInv'
<1>1. UNCHANGED <<coreVars, httpVars, appVars>>
  BY DEF AudioThread
<1>2. CASE AudioFails
  <2>1. /\ status["audio"] = "starting" /\ status' = [status EXCEPT !["audio"] = "running"]
        /\ main' = Interrupted /\ mixerVars' = mixerVars
        /\ \/ main' = main /\ box' = box /\ answers' = answers
           \/ box' = Forgotten /\ answers' = NoLongerWaiting
    BY <1>2 DEF AudioFails
  <2>. QED BY <1>1, <2>1, InterruptedStep DEF coreVars, httpVars
<1>3. CASE AudioStartsWell
  BY <1>1, <1>3, AudioStartsStep DEF AudioStartsWell
<1>4. CASE AudioActs(main.mixer) /\ UNCHANGED serverVars
  BY <1>1, <1>4, AudioSetsStep, AudioGetsStep, AudioSetsUriStep, AudioStopsStep DEF AudioActs
<1>. QED BY <1>2, <1>3, <1>4 DEF AudioThread

LEMMA InterruptStep ==
    ASSUME IInv, Interrupt, UNCHANGED <<mixerVars, coreVars, httpVars, appVars>>
    PROVE  IInv'
<1>1. /\ main' = Interrupted /\ box' = Forgotten /\ answers' = NoLongerWaiting /\ status' = status
      /\ mixerVars' = mixerVars /\ core' = core /\ web' = web /\ scripts' = scripts
  BY DEF Interrupt, coreVars, httpVars
<1>. QED BY <1>1, InterruptedStep

-----------------------------------------------------------------------------
(* Core. *)

LEMMA HasAJob ==
    ASSUME IInv, IsAJob
    PROVE  /\ box["core"] # << >> /\ Job.type \in {"setup", "teardown", "request"}
           /\ IsFree("core") /\ answers["core"] # Waits
           /\ Job \in Range(box["core"]) /\ Fits("core", Job) /\ FitsCore(Job) /\ IsUp("core")
<1>0. Post(box, answers) /\ "core" \in Actors /\ "core" \in Askers
  BY Facts DEF Askers
<1>1. PICK type \in {"setup", "teardown", "request"} : Handles("core", type)
  BY DEF IsAJob, CoreHandles
<1>2. /\ box["core"] # << >> /\ Job.type = type /\ Job \in Range(box["core"]) /\ Fits("core", Job)
      /\ IsFree("core") /\ answers["core"] # Waits /\ IsUp("core")
  BY <1>0, <1>1, HandlesFacts DEF Job
<1>3. FitsCore(Job)
  BY <1>2 DEF Fits
<1>. QED BY <1>2, <1>3

LEMMA CoreIdle ==
    ASSUME IInv, NEW type \in {"changed", "stop"}, Handles("core", type)
    PROVE  /\ core.got = << >> /\ IsFree("core")
           /\ box["core"] # << >> /\ Job.type = type /\ Fits("core", Job) /\ answers["core"] # Waits
<1>0. Post(box, answers) /\ "core" \in Actors /\ "core" \in Askers /\ CoreInv
  BY Facts DEF Askers
<1>1. /\ box["core"] # << >> /\ Job.type = type /\ Fits("core", Job)
      /\ IsFree("core") /\ answers["core"] # Waits
  BY <1>0, HandlesFacts DEF Job
<1>2. core.got = << >>
  BY <1>0, <1>1 DEF CoreInv, CoreBusy, Job
<1>. QED BY <1>1, <1>2

\* Core is done with the head of its mailbox.
LEMMA CoreTakes ==
    ASSUME IInv, Mail(box', answers'), box["core"] # << >>,
           box'["mixer"] = box["mixer"], box'["audio"] = box["audio"],
           box'["core"] = Tail(box["core"]),
           answers'["mixer"] = answers["mixer"], IsFree("core")', core'.got = << >>,
           IsCore', status' = status, main' = main, mixerVars' = mixerVars,
           web' = web, scripts' = scripts
    PROVE  IInv'
<1>0. /\ StaffInv /\ IsSeq(box["core"]) /\ CoreInv /\ IsMixer
  BY Facts
<1>1. StaffInv'
  BY <1>0, SameStaff
<1>2. TypeInv'
  <2>1. IsWeb'
    BY WebKept DEF IInv, TypeInv
  <2>. QED BY <1>0, <2>1 DEF TypeInv, IsMixer, mixerVars
<1>3. MixerView' = MixerView
  BY DEF MixerView, mixerVars
<1>4. MixerInv'
  BY <1>3, MixerSame DEF IInv, MixerInv, StopsInTurn
<1>5. Range(box'["core"]) \subseteq Range(box["core"])
  BY <1>0, TailFacts
<1>6. CoreBusy' /\ SavesRight'
  BY DEF CoreBusy, SavesRight, IsSaving
<1>7. TeardownInTurn'
  <2>1. Undisturbed' <=> Undisturbed
    BY <1>3, MixerSame
  <2>. QED BY <1>0, <1>5, <2>1 DEF CoreInv, TeardownInTurn
<1>. QED BY <1>1, <1>2, <1>4, <1>6, <1>7 DEF IInv, CoreInv

LEMMA CoreLoadsStep ==
    ASSUME IInv, NEW restore, CoreLoads(restore), UNCHANGED <<serverVars, httpVars, appVars>>
    PROVE  IInv'
<1>0. /\ Mail(box, answers) /\ Post(box, answers) /\ "core" \in Actors
      /\ IsMixer /\ IsCore /\ CoreInv /\ StaffInv
  BY Facts
<1>1. /\ Handles("core", "setup") /\ core' = [core EXCEPT !.loaded = file]
      /\ status' = status /\ box' = box /\ answers' = answers /\ main' = main /\ mixer' = mixer
      /\ element' = element /\ wanted' = wanted /\ web' = web /\ scripts' = scripts
  BY DEF CoreLoads, actorVars, mixerVars, serverVars, httpVars
<1>2. Head(box["core"]).type = "setup"
  BY <1>0, <1>1, HandlesFacts
<1>3. core'.got = core.got /\ core'.ready = core.ready /\ IsCore'
  BY <1>0, <1>1 DEF IsCore
<1>4. StaffInv'
  BY <1>0, <1>1, SameStaff
<1>5. TypeInv'
  <2>1. IsWeb'
    BY <1>1, WebKept DEF IInv, TypeInv
  <2>2. IsMixer'
    BY <1>0, <1>1 DEF IsMixer
  <2>. QED BY <1>3, <2>1, <2>2 DEF TypeInv
<1>6. MixerInv' /\ (Undisturbed' <=> Undisturbed)
  <2>1. MixerView' = MixerView
    BY <1>1 DEF MixerView
  <2>. QED BY <1>1, <2>1, MixerSame DEF IInv, MixerInv, StopsInTurn
<1>7. CoreBusy'
  BY <1>0, <1>1, <1>3 DEF CoreInv, CoreBusy, IsFree
<1>8. TeardownInTurn'
  BY <1>0, <1>1, <1>6 DEF CoreInv, TeardownInTurn
<1>9. SavesRight'
  BY <1>1, <1>2 DEF SavesRight, IsSaving
<1>. QED BY <1>4, <1>5, <1>6, <1>7, <1>8, <1>9 DEF IInv, CoreInv

\* Nobody waits for core but the main thread and the web server.
LEMMA AnswersByCore ==
    ASSUME IInv, box["core"] # << >>, IsFree("core"), NEW an, DOMAIN answers = Askers,
           \A x \in Askers : x # Job.from => an[x] = answers[x]
    PROVE  an["mixer"] = answers["mixer"] /\ an["core"] = answers["core"]
<1>0. Post(box, answers) /\ "core" \in Actors /\ {"mixer", "core"} \subseteq Askers
  BY Facts
<1>1. Job \in Range(box["core"]) /\ Fits("core", Job)
  BY <1>0, SeqFacts DEF Post, Job
<1>2. Job.from \in {None, "main", "web"}
  <2>. HIDE DEF Job
  <2>. QED BY <1>1 DEF Fits, FitsCore, StopFrom
<1>. QED BY <1>0, <1>2, NamesAssumption

LEMMA CoreFinishesStep ==
    ASSUME IInv, NEW restore, CoreFinishes(restore), UNCHANGED <<serverVars, httpVars, appVars>>
    PROVE  IInv'
<1>. DEFINE v == IF Job.type = "request" THEN core.got[1] ELSE None
<1>0. /\ Mail(box, answers) /\ DOMAIN box = Actors /\ DOMAIN answers = Askers
      /\ {"mixer", "audio", "core", "http"} \subseteq Actors /\ IsCore
  BY Facts
<1>1. /\ IsAJob /\ core' = [core EXCEPT !.got = << >>] /\ answers' = Answered(Job, v)
      /\ box' = Taken("core") /\ status' = status /\ main' = main /\ mixerVars' = mixerVars
      /\ web' = web /\ scripts' = scripts
  BY DEF CoreFinishes, mixerVars, serverVars, httpVars
<1>. HIDE DEF v
<1>2. box["core"] # << >> /\ IsFree("core")
  BY <1>1, HasAJob
<1>3. Mail(box', answers')
  BY <1>0, <1>1, <1>2, MailHandled DEF Job
<1>4. answers'["mixer"] = answers["mixer"] /\ answers'["core"] = answers["core"]
  <2>1. \A x \in Askers : x # Job.from => answers'[x] = answers[x]
    BY <1>0, <1>1, AnsweredFacts
  <2>. QED BY <1>0, <1>2, <2>1, AnswersByCore
<1>5. IsFree("core")'
  BY <1>2, <1>4 DEF IsFree
<1>6. core'.got = << >> /\ IsCore'
  BY <1>0, <1>1, EmptyFacts DEF IsCore
<1>7. /\ box'["mixer"] = box["mixer"] /\ box'["audio"] = box["audio"]
      /\ box'["core"] = Tail(box["core"])
  BY <1>0, <1>1, TakenBox
<1>. QED BY <1>1, <1>2, <1>3, <1>4, <1>5, <1>6, <1>7, CoreTakes

LEMMA CoreRefusesStep ==
    ASSUME IInv, CoreRefuses, UNCHANGED <<serverVars, httpVars, appVars>>
    PROVE  IInv'
<1>0. /\ Mail(box, answers) /\ DOMAIN box = Actors /\ DOMAIN answers = Askers
      /\ {"mixer", "audio", "core", "http"} \subseteq Actors /\ IsCore /\ CoreInv /\ Post(box, answers)
  BY Facts
<1>1. /\ IsAJob /\ IsBad(Job) /\ core' = core
      /\ answers' = (IF Job.from = None THEN answers ELSE [answers EXCEPT ![Job.from] = Raised])
      /\ box' = Taken("core") /\ status' = status /\ main' = main /\ mixerVars' = mixerVars
      /\ web' = web /\ scripts' = scripts
  BY DEF CoreRefuses, mixerVars, coreVars, serverVars, httpVars
<1>2. box["core"] # << >> /\ IsFree("core") /\ core.got = << >>
  <2>1. box["core"] # << >> /\ IsFree("core")
    BY <1>1, HasAJob
  <2>. QED BY <1>0, <1>1, <2>1 DEF CoreInv, CoreBusy, Job
<1>3. DOMAIN answers' = Askers /\ \A x \in Askers : x # Job.from => answers'[x] = answers[x]
  BY <1>0, <1>1
<1>4. Mail(box', answers')
  <2>1. Post(Taken("core"), answers')
    BY <1>0, <1>2, <1>3, TakenFits DEF Job
  <2>. QED BY <1>0, <1>1, <1>2, <2>1, MailTaken
<1>5. answers'["mixer"] = answers["mixer"] /\ answers'["core"] = answers["core"]
  BY <1>0, <1>2, <1>3, AnswersByCore
<1>6. IsFree("core")' /\ IsCore' /\ core'.got = << >>
  BY <1>0, <1>1, <1>2, <1>5 DEF IsFree, IsCore
<1>7. /\ box'["mixer"] = box["mixer"] /\ box'["audio"] = box["audio"]
      /\ box'["core"] = Tail(box["core"])
  BY <1>0, <1>1, TakenBox
<1>. QED BY <1>1, <1>2, <1>4, <1>5, <1>6, <1>7, CoreTakes

LEMMA CoreForwardsStep ==
    ASSUME IInv, CoreForwards, UNCHANGED <<serverVars, httpVars, appVars>>
    PROVE  IInv'
<1>0. /\ Mail(box, answers) /\ DOMAIN box = Actors /\ DOMAIN answers = Askers
      /\ {"mixer", "audio", "core", "http"} \subseteq Actors /\ IsCore
  BY Facts
<1>1. /\ Handles("core", "changed") /\ core' = core
      /\ answers' = answers
      /\ box' = Put(Taken("core"), "http", Job) /\ status' = status /\ main' = main
      /\ mixerVars' = mixerVars /\ web' = web /\ scripts' = scripts
  BY DEF CoreForwards, mixerVars, coreVars, serverVars, httpVars
<1>2. box["core"] # << >> /\ IsFree("core") /\ core.got = << >> /\ Job.type = "changed" /\ Fits("core", Job)
  BY <1>1, CoreIdle
<1>3. Fits("http", Job) /\ Job.from = None
  <2>1. "http" \notin {"mixer", "audio", "core"}
    OBVIOUS
  <2>. HIDE DEF Job
  <2>. QED BY <1>2, <2>1 DEF Fits, FitsCore, FitsOther, StopFrom
<1>4. Mail(box', answers')
  <2>1. Mail(Taken("core"), answers)
    BY <1>0, <1>2, MailHandled
  <2>2. Mail(Put(Taken("core"), "http", Job), answers)
    BY <1>0, <1>3, <2>1, MailPut
  <2>. QED BY <1>1, <2>2
<1>5. IsFree("core")' /\ IsCore' /\ core'.got = << >>
  BY <1>0, <1>1, <1>2 DEF IsFree, IsCore
<1>6. /\ box'["mixer"] = box["mixer"] /\ box'["audio"] = box["audio"]
      /\ box'["core"] = Tail(box["core"])
  BY <1>0, <1>1, SentBox
<1>. QED BY <1>1, <1>2, <1>4, <1>5, <1>6, CoreTakes

LEMMA CoreStopsStep ==
    ASSUME IInv, CoreStops, UNCHANGED <<serverVars, httpVars, appVars>>
    PROVE  IInv'
<1>0. /\ Mail(box, answers) /\ DOMAIN box = Actors /\ DOMAIN answers = Askers
      /\ {"mixer", "audio", "core", "http"} \subseteq Actors /\ IsCore /\ IsMixer /\ StaffInv
      /\ Post(box, answers) /\ {"mixer", "core"} \subseteq Askers /\ CoreInv
  BY Facts
<1>1. /\ Handles("core", "stop") /\ Stops("core") /\ box' = [box EXCEPT !["core"] = << >>]
      /\ core' = core /\ main' = main /\ mixerVars' = mixerVars /\ web' = web /\ scripts' = scripts
  BY DEF CoreStops, mixerVars, coreVars, serverVars, httpVars
<1>2. IsFree("core") /\ core.got = << >>
  BY <1>1, CoreIdle
<1>3. /\ StaffInv' /\ box'["core"] = << >>
      /\ \A b \in Actors : b # "core" => status'[b] = status[b] /\ box'[b] = box[b]
      /\ \A x \in Askers : (\A m \in Range(box["core"]) : m.from # x) => answers'[x] = answers[x]
  BY <1>0, <1>1, StopsStaff
<1>4. ASSUME NEW m \in Range(box["core"]) PROVE m.from \notin {"core", "mixer"}
  <2>1. Fits("core", m)
    BY <1>0 DEF Post
  <2>. QED BY <2>1, NamesAssumption DEF Fits, FitsCore, StopFrom, Askers
<1>5. answers'["mixer"] = answers["mixer"] /\ answers'["core"] = answers["core"]
  BY <1>0, <1>3, <1>4
<1>6. TypeInv'
  <2>1. IsWeb'
    BY <1>1, WebKept DEF IInv, TypeInv
  <2>. QED BY <1>0, <1>1, <2>1 DEF TypeInv, IsMixer, IsCore, mixerVars
<1>7. MixerInv'
  <2>1. MixerView' = MixerView
    BY <1>0, <1>1, <1>3, <1>5 DEF MixerView, mixerVars
  <2>. QED BY <1>1, <2>1, MixerSame DEF IInv, MixerInv, StopsInTurn
<1>8. CoreInv'
  BY <1>1, <1>2, <1>3, <1>5, EmptyFacts
  DEF CoreInv, CoreBusy, TeardownInTurn, SavesRight, IsSaving, IsFree
<1>. QED BY <1>3, <1>6, <1>7, <1>8 DEF IInv

\* What core is told is added to what it was told before.
LEMMA CoreGetsStep ==
    ASSUME IInv, NEW restore, CoreGets(restore), UNCHANGED <<serverVars, httpVars, appVars>>
    PROVE  IInv'
<1>. DEFINE v == IF answers["core"].state = "value" THEN answers["core"].value
                 ELSE Unknown(Head(Left(restore)))
<1>0. /\ Mail(box, answers) /\ Post(box, answers) /\ DOMAIN answers = Askers /\ "mixer" \in Actors
      /\ {"mixer", "core"} \subseteq Askers /\ IsCore /\ IsMixer /\ CoreInv /\ StaffInv
  BY Facts
<1>1. /\ IsAnswered("core") /\ core' = [core EXCEPT !.got = Append(@, v)]
      /\ answers' = [answers EXCEPT !["core"] = NoAnswer]
      /\ status' = status /\ box' = box /\ main' = main /\ mixer' = mixer
      /\ element' = element /\ wanted' = wanted /\ web' = web /\ scripts' = scripts
  BY DEF CoreGets, mixerVars, serverVars, httpVars
<1>2. answers["core"] # Waits /\ answers["core"].state # "none" /\ ~IsFree("core")
  BY <1>0, <1>1, NotWaiting DEF IsFree, IsAnswered
<1>3. /\ IsSeq(core.got) /\ core'.got = Append(core.got, v) /\ core'.ready = core.ready
      /\ DOMAIN core' = DOMAIN core
  BY <1>0, <1>1 DEF IsCore
<1>4. /\ IsSeq(core'.got) /\ Len(core.got) \in Nat /\ Len(core'.got) = Len(core.got) + 1
      /\ core'.got[Len(core.got) + 1] = v
      /\ \A i \in 1 .. Len(core.got) : core'.got[i] = core.got[i]
  BY <1>3, AppendFacts
<1>5. /\ answers'["core"] = NoAnswer /\ answers'["mixer"] = answers["mixer"]
  BY <1>0, <1>1
<1>6. StaffInv'
  <2>1. Mail(box', answers')
    BY <1>0, <1>1, <1>2, MailGets
  <2>. QED BY <1>0, <1>1, <2>1, SameStaff
<1>7. TypeInv'
  <2>1. IsWeb'
    BY <1>1, WebKept DEF IInv, TypeInv
  <2>2. IsMixer' /\ IsCore'
    BY <1>0, <1>1, <1>3, <1>4 DEF IsMixer, IsCore
  <2>. QED BY <2>1, <2>2 DEF TypeInv
<1>8. MixerInv' /\ (Undisturbed' <=> Undisturbed)
  <2>1. MixerView' = MixerView
    BY <1>1, <1>5 DEF MixerView
  <2>. QED BY <1>1, <2>1, MixerSame DEF IInv, MixerInv, StopsInTurn
<1>9. CoreBusy'
  BY <1>0, <1>1, <1>2 DEF CoreInv, CoreBusy
<1>10. TeardownInTurn'
  BY <1>0, <1>1, <1>8 DEF CoreInv, TeardownInTurn
<1>11. ASSUME ToldWhatHolds PROVE ToldWhatHolds'
  <2>1. Len(core.got) \in {0, 1}
    <3>1. Len(core.got) <= 2 /\ Len(core.got) # 2
      BY <1>2, <1>11 DEF ToldWhatHolds
    <3>2. Len(core.got) \in Nat
      BY <1>4
    <3>3. \A n \in Nat : n <= 2 /\ n # 2 => n \in {0, 1}
      OBVIOUS
    <3>. QED BY <3>1, <3>2, <3>3
  <2>2. v = answers["core"].value /\ Right(v, Asked(Len(core.got))) /\ Lacks(box["mixer"], "set")
    BY <1>2, <1>11 DEF ToldWhatHolds
  <2>. HIDE DEF v
  <2>3. \A u, p : Right(u, p)' <=> Right(u, p)
    BY <1>1 DEF Right
  <2>4. /\ Right(core'.got[1], "volume")
        /\ Len(core'.got) = 2 => Right(core'.got[2], "mute")
    <3>1. CASE Len(core.got) = 0
      BY <1>4, <2>1, <2>2, <3>1 DEF Asked
    <3>2. CASE Len(core.got) = 1
      <4>1. Right(core.got[1], "volume") /\ Right(v, "mute")
        BY <1>11, <2>2, <3>2 DEF Asked, ToldWhatHolds
      <4>. QED BY <1>4, <3>2, <4>1
    <3>. QED BY <2>1, <3>1, <3>2
  <2>5. answers'["core"].state = "none"
    BY <1>5 DEF NoAnswer
  <2>6. \A k \in Range(box["mixer"]) : k.from # "core"
    BY <1>0, <1>2, NoQuestions
  <2>. QED BY <1>1, <1>4, <1>5, <1>11, <2>1, <2>3, <2>4, <2>5, <2>6, <2>2 DEF ToldWhatHolds, IsFree, Right
<1>12. SavesRight'
  BY <1>0, <1>1, <1>2, <1>3, <1>11 DEF CoreInv, SavesRight, IsSaving
<1>. QED BY <1>6, <1>7, <1>8, <1>9, <1>10, <1>12 DEF IInv, CoreInv

\* What is left to ask is fit to be asked.
Asks(call) ==
    /\ call.to \in {"mixer", "audio"} /\ Fits(call.to, Message(call.type, "core", call.arg))
    /\ call.to = "mixer" => call.type \in {"set", "get"}
    /\ call.to = "audio" => call.type = "set_uri"
    /\ Job.type = "teardown" => /\ call.to = "mixer" /\ call.type = "get" /\ Len(core.got) \in {0, 1}
                                /\ call.arg.property = Asked(Len(core.got))

LEMMA AsksIf ==
    ASSUME NEW to, NEW type, NEW arg,
           (to = "mixer" /\ type \in {"set", "get"}) \/ (to = "audio" /\ type = "set_uri"),
           Job.type # "teardown"
    PROVE  Asks(Call(to, type, arg))
<1>. DEFINE c == Call(to, type, arg)
            m == Message(type, "core", arg)
<1>1. c.to = to /\ c.type = type /\ c.arg = arg
  BY DEF Call
<1>2. m.type = type /\ m.from = "core" /\ m.arg = arg /\ m = Message(m.type, m.from, m.arg)
  BY MessageFacts
<1>. HIDE DEF m
<1>3. Fits(to, m)
  BY <1>2 DEF Fits, FitsMixer, FitsAudio
<1>. HIDE DEF c
<1>4. Asks(c)
  BY <1>1, <1>3 DEF Asks, m
<1>. QED BY <1>4 DEF c

LEMMA AsksAtTeardown ==
    ASSUME Job.type = "teardown", Len(core.got) \in {0, 1}
    PROVE  Asks(Call("mixer", "get", Level(Asked(Len(core.got)), None)))
<1>. DEFINE a == Level(Asked(Len(core.got)), None)
            c == Call("mixer", "get", a)
            m == Message("get", "core", a)
<1>1. c.to = "mixer" /\ c.type = "get" /\ c.arg = a
  BY DEF Call
<1>2. m.type = "get" /\ m.from = "core" /\ m.arg = a /\ m = Message(m.type, m.from, m.arg)
  BY MessageFacts
<1>3. a.property = Asked(Len(core.got))
  BY DEF Level
<1>. HIDE DEF a
<1>. HIDE DEF m
<1>4. Fits("mixer", m)
  BY <1>2 DEF Fits, FitsMixer
<1>. HIDE DEF c
<1>5. Asks(c)
  BY <1>1, <1>3, <1>4 DEF Asks, m
<1>. QED BY <1>5 DEF c, a

LEMMA LeftFacts ==
    ASSUME NEW restore, Left(restore) # << >>, IsSeq(core.got), FitsCore(Job),
           Job.type \in {"setup", "teardown", "request"}
    PROVE  Asks(Head(Left(restore)))
<1>. DEFINE n == Len(core.got) + 1
            c == Calls(Job)
<1>1. n \in Nat \ {0}
  BY SeqFacts
<1>. HIDE DEF n
<1>2. Left(restore) = SubSeq(c, n, Len(c))
  BY DEF Left, n
<1>3. ASSUME NEW S, c \in Seq(S)
      PROVE  n \in 1 .. Len(c) /\ Head(Left(restore)) = c[n]
  <2>1. Len(c) \in Nat
    BY <1>3, LenProperties
  <2>. HIDE DEF c
  <2>2. n <= Len(c)
    BY <1>1, <1>2, <2>1, SubSeqEmpty
  <2>3. n \in 1 .. Len(c) /\ Len(c) \in n .. Len(c)
    BY <1>1, <2>1, <2>2
  <2>4. Head(SubSeq(c, n, Len(c))) = c[n]
    BY <1>3, <2>3, HeadTailOfSubSeq
  <2>. QED BY <1>2, <2>3, <2>4
<1>4. CASE Job.type = "setup"
  <2>. DEFINE S == {Call("mixer", "set", a) : a \in {Level(p, core.loaded[p]) : p \in Properties}}
  <2>1. ASSUME NEW p \in Properties PROVE SetCalls(core.loaded, p) \in Seq(S)
    <3>1. Call("mixer", "set", Level(p, core.loaded[p])) \in S
      OBVIOUS
    <3>. HIDE DEF S
    <3>. QED BY <3>1 DEF SetCalls
  <2>. HIDE DEF S
  <2>2. c = SetCalls(core.loaded, "mute") \o SetCalls(core.loaded, "volume")
    BY <1>4 DEF Calls
  <2>3. c \in Seq(S)
    BY <2>1, <2>2, ConcatProperties DEF Properties
  <2>4. c[n] \in S
    BY <1>3, <2>3, LenProperties
  <2>5. PICK a \in {Level(p, core.loaded[p]) : p \in Properties} : c[n] = Call("mixer", "set", a)
    BY <2>4 DEF S
  <2>6. Asks(Call("mixer", "set", a))
    <3>1. Job.type # "teardown"
      BY <1>4
    <3>. QED BY <3>1, AsksIf
  <2>. QED BY <1>3, <2>3, <2>5, <2>6
<1>5. CASE Job.type = "teardown"
  <2>. DEFINE g(p) == Call("mixer", "get", Level(p, None))
  <2>1. c = <<g("volume"), g("mute")>>
    BY <1>5 DEF Calls
  <2>. HIDE DEF g
  <2>2. c \in Seq({g("volume"), g("mute")}) /\ Len(c) = 2 /\ c[1] = g("volume") /\ c[2] = g("mute")
    BY <2>1
  <2>3. n \in {1, 2} /\ Head(Left(restore)) = c[n]
    <3>1. n \in 1 .. Len(c) /\ Head(Left(restore)) = c[n]
      BY <1>3, <2>2
    <3>. QED BY <1>1, <2>2, <3>1
  <2>4. Len(core.got) \in {0, 1} /\ c[n] = g(Asked(Len(core.got)))
    <3>1. Len(core.got) = n - 1
      BY SeqFacts DEF n
    <3>. QED BY <2>2, <2>3, <3>1 DEF Asked
  <2>. QED BY <1>5, <2>3, <2>4, AsksAtTeardown DEF g
<1>6. CASE Job.type = "request"
  <2>. DEFINE to == IF Job.arg.method = "set_uri" THEN "audio" ELSE "mixer"
              a == Level(Job.arg.property, Job.arg.level)
              g == Call(to, Job.arg.method, a)
  <2>1. c = <<g>>
    BY <1>6 DEF Calls
  <2>2. Job.arg.method \in {"get", "set", "set_uri"}
    BY <1>6 DEF FitsCore, StopFrom, Methods
  <2>3. Asks(g)
    <3>1. /\ (to = "mixer" /\ Job.arg.method \in {"set", "get"})
             \/ (to = "audio" /\ Job.arg.method = "set_uri")
          /\ Job.type # "teardown"
      BY <1>6, <2>2
    <3>. HIDE DEF to, a
    <3>. QED BY <3>1, AsksIf
  <2>. HIDE DEF g
  <2>4. c \in Seq({g}) /\ Len(c) = 1 /\ c[1] = g
    BY <2>1
  <2>5. n \in 1 .. Len(c) /\ Head(Left(restore)) = c[n]
    BY <1>3, <2>4
  <2>6. n = 1
    BY <2>4, <2>5
  <2>. QED BY <2>3, <2>4, <2>5, <2>6
<1>. QED BY <1>4, <1>5, <1>6

\* Without a mixer core knows the answer.
LEMMA CoreKnowsStep ==
    ASSUME IInv, IsAJob, ~IsBad(Job), ~main.mixer, NEW v, NEW ready \in BOOLEAN,
           core' = [[core EXCEPT !.ready = ready] EXCEPT !.got = Append(@, v)],
           actorVars' = actorVars, main' = main, mixerVars' = mixerVars, web' = web, scripts' = scripts
    PROVE  IInv'
<1>0. /\ Mail(box, answers) /\ IsCore /\ IsMixer /\ CoreInv /\ StaffInv
  BY Facts
<1>1. /\ status' = status /\ box' = box /\ answers' = answers /\ mixer' = mixer
      /\ element' = element /\ wanted' = wanted
  BY DEF actorVars, mixerVars
<1>2. IsSeq(core.got) /\ core'.got = Append(core.got, v) /\ core'.ready = ready /\ DOMAIN core' = DOMAIN core
  BY <1>0 DEF IsCore
<1>3. IsSeq(core'.got)
  BY <1>2, AppendFacts
<1>4. StaffInv'
  BY <1>0, <1>1, SameStaff
<1>5. TypeInv'
  <2>1. IsWeb'
    BY WebKept DEF IInv, TypeInv
  <2>2. IsMixer' /\ IsCore'
    BY <1>0, <1>1, <1>2, <1>3 DEF IsMixer, IsCore
  <2>. QED BY <2>1, <2>2 DEF TypeInv
<1>6. MixerInv' /\ (Undisturbed' <=> Undisturbed)
  <2>1. MixerView' = MixerView
    BY <1>1 DEF MixerView
  <2>. QED BY <2>1, MixerSame DEF IInv, MixerInv, StopsInTurn
<1>7. CoreBusy'
  <2>1. box["core"] # << >> /\ Job.type \in {"setup", "teardown", "request"}
    BY HasAJob
  <2>. QED BY <1>1, <2>1 DEF CoreBusy, Job
<1>8. TeardownInTurn'
  BY <1>0, <1>1, <1>6 DEF CoreInv, TeardownInTurn
<1>9. SavesRight'
  BY DEF SavesRight, IsSaving
<1>. QED BY <1>4, <1>5, <1>6, <1>7, <1>8, <1>9 DEF IInv, CoreInv

\* A message of core for one of the two leaves the mail of the mixer in order.
LEMMA MixerHearsCore ==
    ASSUME IInv, NEW to \in {"mixer", "audio"}, NEW m, m.from = "core",
           to = "mixer" => m.type \in {"set", "get"}, to = "audio" => m.type = "set_uri",
           box' = Put(box, to, m), answers'["mixer"] = answers["mixer"],
           status' = status, mixerVars' = mixerVars, main' = main
    PROVE  MixerInv' /\ (Undisturbed' <=> Undisturbed) /\ box'["core"] = box["core"]
<1>0. /\ DOMAIN box = Actors /\ {"mixer", "audio", "core", "http"} \subseteq Actors /\ MixerWaits
      /\ Post(box, answers) /\ IsSeq(box["mixer"]) /\ IsSeq(box["audio"]) /\ IsMixer
      /\ "mixer" \in Askers
  BY Facts
<1>1. mixer' = mixer /\ element' = element /\ wanted' = wanted
  BY DEF mixerVars
<1>2. /\ \A a \in Actors : a # to => box'[a] = box[a]
      /\ box'[to] = box[to] \/ box'[to] = Append(box[to], m)
  <2>1. to \in Actors
    BY <1>0
  <2>2. /\ \A a \in Actors : a # to => Put(box, to, m)[a] = box[a]
        /\ Put(box, to, m)[to] = (IF IsUp(to) THEN Append(box[to], m) ELSE box[to])
    BY <1>0, <2>1, PutBox
  <2>. QED BY <2>2
<1>3. IsFree("mixer")' <=> IsFree("mixer")
  BY DEF IsFree
<1>4. CASE to = "mixer"
  <2>1. box'["audio"] = box["audio"]
    BY <1>0, <1>2, <1>4
  <2>2. box'["mixer"] = box["mixer"] \/ box'["mixer"] = Append(box["mixer"], m)
    BY <1>2, <1>4
  <2>3. MixerWaits'
    <3>1. AsksAfterSets(box'["audio"], "mixer") /\ Range(box'["audio"]) \subseteq Range(box["audio"])
      BY <1>0, <2>1 DEF MixerWaits
    <3>. QED BY <1>3, <2>2, <3>1, WaitsKept
  <2>4. /\ Lacks(box'["mixer"], "stop") <=> Lacks(box["mixer"], "stop")
        /\ Lacks(box'["mixer"], "teardown") <=> Lacks(box["mixer"], "teardown")
        /\ Lacks(box'["mixer"], "adapter") <=> Lacks(box["mixer"], "adapter")
        /\ OneAdapter(box["mixer"]) => OneAdapter(box'["mixer"])
    <3>1. m.type \in {"changed", "set", "get"}
      BY <1>4
    <3>2. CASE box'["mixer"] = box["mixer"]
      BY <3>2
    <3>3. CASE box'["mixer"] = Append(box["mixer"], m)
      BY <1>0, <3>1, <3>3, MixerAppends
    <3>. QED BY <2>2, <3>2, <3>3
  <2>5. Undisturbed' <=> Undisturbed
    BY <2>1, <2>4 DEF Undisturbed
  <2>6. SetsArrive => SetsArrive'
    BY <1>1, <2>1, <2>4 DEF SetsArrive
  <2>. QED BY <1>0, <1>2, <1>4, <2>3, <2>5, <2>6 DEF IInv, MixerInv, StopsInTurn
<1>5. CASE to = "audio"
  <2>1. box'["mixer"] = box["mixer"]
    BY <1>0, <1>2, <1>5
  <2>2. box'["audio"] = box["audio"] \/ box'["audio"] = Append(box["audio"], m)
    BY <1>2, <1>5
  <2>3. MixerWaits'
    <3>1. AsksAfterSets(box'["audio"], "mixer")
      <4>1. AsksAfterSets(box["audio"], "mixer") /\ m.type # "set"
        BY <1>0, <1>5 DEF MixerWaits
      <4>. QED BY <1>0, <2>2, <4>1, AsksAppend
    <3>2. \A k \in Range(box'["audio"]) : k.from = "mixer" => k \in Range(box["audio"])
      <4>1. Range(Append(box["audio"], m)) = Range(box["audio"]) \union {m}
        BY <1>0, AppendFacts
      <4>. QED BY <2>2, <4>1
    <3>. QED BY <1>0, <1>3, <2>1, <3>1, <3>2 DEF MixerWaits
  <2>4. /\ Lacks(box'["audio"], "set") <=> Lacks(box["audio"], "set")
        /\ Lacks(box'["audio"], "stop") <=> Lacks(box["audio"], "stop")
        /\ \A p, now, want : Heard(box["audio"], p, now, want) => Heard(box'["audio"], p, now, want)
    <3>1. m.type \notin {"set", "stop"}
      BY <1>5
    <3>2. CASE box'["audio"] = box["audio"]
      BY <3>2
    <3>3. CASE box'["audio"] = Append(box["audio"], m)
      BY <1>0, <3>1, <3>3, AudioAppends
    <3>. QED BY <2>2, <3>2, <3>3
  <2>5. Undisturbed' <=> Undisturbed
    BY <2>1, <2>4 DEF Undisturbed
  <2>6. SetsArrive => SetsArrive'
    BY <1>1, <2>1, <2>4 DEF SetsArrive
  <2>. QED BY <1>0, <1>2, <1>5, <2>3, <2>5, <2>6 DEF IInv, MixerInv, StopsInTurn
<1>. QED BY <1>4, <1>5

\* Core asks the mixer what it is to save.
LEMMA CoreAsksRight ==
    ASSUME IInv, IsAJob, IsSaving', NEW m, m.type = "get", m.from = "core",
           Len(core.got) \in {0, 1}, m.arg.property = Asked(Len(core.got)),
           box' = Put(box, "mixer", m), answers' = Asking("core", "mixer"),
           core'.got = core.got, core'.ready = (IF core.got = << >> THEN mixer.setup ELSE core.ready),
           status' = status, mixer' = mixer, wanted' = wanted, main' = main
    PROVE  ToldWhatHolds'
<1>0. /\ DOMAIN box = Actors /\ {"mixer", "audio", "core", "http"} \subseteq Actors /\ MixerWaits
      /\ Post(box, answers) /\ IsSeq(box["mixer"]) /\ CoreInv /\ IsCore
      /\ {"core", "mixer"} \subseteq Askers /\ DOMAIN answers = Askers
  BY Facts
<1>1. /\ box["core"] # << >> /\ IsFree("core") /\ answers["core"] # Waits /\ Job \in Range(box["core"])
  BY HasAJob
<1>2. /\ box'["core"] = box["core"] /\ box'["audio"] = box["audio"]
      /\ box'["mixer"] = (IF IsUp("mixer") THEN Append(box["mixer"], m) ELSE box["mixer"])
  BY <1>0, PutBox
<1>3. Undisturbed /\ SetsArrive
  <2>1. Job.type = "teardown"
    BY <1>2 DEF IsSaving, Job
  <2>2. Undisturbed
    BY <1>0, <1>1, <2>1 DEF CoreInv, TeardownInTurn
  <2>. QED BY <2>2 DEF IInv, MixerInv
<1>4. core.got # << >> => ToldWhatHolds
  <2>1. core.got # << >> => IsSaving
    BY <1>2 DEF IsSaving
  <2>. QED BY <1>0, <2>1 DEF CoreInv, SavesRight
<1>5. mixer.setup
  <2>1. core'.ready
    BY DEF IsSaving
  <2>. QED BY <1>4, <2>1 DEF ToldWhatHolds
<1>6. IsUp("mixer")
  BY <1>3, <1>5 DEF SetsArrive, IsUp
<1>7. answers'["core"] = Waits /\ answers'["mixer"] = answers["mixer"]
  BY <1>0, <1>6 DEF Asking
<1>8. \A a \in {"mixer", "audio"} : \A k \in Range(box[a]) : k.from # "core"
  BY <1>0, <1>1, NoQuestions
<1>9. answers["mixer"].state = "none"
  <2>. SUFFICES ASSUME ~IsFree("mixer") PROVE FALSE
    BY DEF IsFree
  <2>1. box["mixer"] # << >> /\ Head(box["mixer"]).type = "get"
    BY <1>0 DEF MixerWaits
  <2>2. Head(box["mixer"]) \in Range(box["mixer"])
    BY <1>0, <2>1, SeqFacts
  <2>3. FitsMixer(Head(box["mixer"]))
    BY <1>0, <2>2 DEF Post, Fits
  <2>4. Head(box["mixer"]).from = "core"
    BY <2>1, <2>3 DEF FitsMixer, StopFrom
  <2>. QED BY <1>8, <2>2, <2>4
<1>10. /\ box'["mixer"] = Append(box["mixer"], m)
       /\ Range(box'["mixer"]) = Range(box["mixer"]) \union {m}
  <2>1. box'["mixer"] = Append(box["mixer"], m)
    BY <1>2, <1>6
  <2>2. Range(Append(box["mixer"], m)) = Range(box["mixer"]) \union {m}
    BY <1>0, AppendFacts
  <2>. QED BY <2>1, <2>2
<1>11. \A k \in Range(box'["mixer"]) : k.from = "core" => k = m
  BY <1>8, <1>10
<1>12. AsksAfterSets(box'["mixer"], "core")
  <2>1. AsksAfterSets(box["mixer"], "core")
    BY <1>8 DEF AsksAfterSets, Range
  <2>. QED BY <1>0, <1>10, <2>1, AsksAppend
<1>13. core.got # << >> => Lacks(box'["mixer"], "set") /\ Right(core.got[1], "volume")
  <2>1. core.got # << >> => Len(core.got) # 0
    BY <1>0, SeqFacts DEF IsCore
  <2>2. core.got # << >> => Lacks(box["mixer"], "set") /\ Right(core.got[1], "volume")
    BY <1>4, <2>1 DEF ToldWhatHolds
  <2>3. Lacks(box["mixer"], "set") => Lacks(box'["mixer"], "set")
    BY <1>10 DEF Lacks
  <2>. QED BY <2>2, <2>3
<1>14. /\ Len(core'.got) <= 2 /\ Len(core'.got) # 2
       /\ Len(core'.got) >= 1 => Right(core.got[1], "volume")'
  <2>1. Len(core.got) >= 1 => core.got # << >>
    BY EmptySeq
  <2>2. \A n \in {0, 1} : n <= 2 /\ n # 2
    OBVIOUS
  <2>3. Len(core.got) <= 2 /\ Len(core.got) # 2
    BY <2>2
  <2>4. Right(core.got[1], "volume")' <=> Right(core.got[1], "volume")
    BY DEF Right
  <2>. QED BY <1>13, <2>1, <2>3, <2>4
<1>15. /\ \A k \in Range(box'["audio"]) : k.from # "core"
       /\ \A k \in Range(box'["mixer"]) :
             k.from = "core" => k.type = "get" /\ k.arg.property = Asked(Len(core'.got))
       /\ core'.got # << >> => Lacks(box'["mixer"], "set")
  BY <1>2, <1>8, <1>11, <1>13
<1>16. mixer'.setup /\ answers'["core"] = Waits /\ answers'["mixer"].state = "none"
  BY <1>5, <1>7, <1>9
<1>17. /\ answers'["core"].state # "none" /\ answers'["core"] # Waits => FALSE
       /\ answers'["mixer"].state # "none" /\ answers'["mixer"] # Waits => FALSE
  BY <1>16
<1>. QED BY <1>12, <1>14, <1>15, <1>16, <1>17 DEF ToldWhatHolds

LEMMA CoreAsksStep ==
    ASSUME IInv, NEW restore, CoreAsks(restore, main.mixer), UNCHANGED <<serverVars, httpVars, appVars>>
    PROVE  IInv'
<1>. DEFINE call == Head(Left(restore))
            ready == IF core.got = << >> THEN mixer.setup ELSE core.ready
            at == [core EXCEPT !.ready = IF core.got = << >> THEN mixer.setup ELSE @]
            m == Message(call.type, "core", call.arg)
<1>0. /\ Mail(box, answers) /\ Post(box, answers) /\ DOMAIN box = Actors /\ DOMAIN answers = Askers
      /\ {"mixer", "audio", "core", "http"} \subseteq Actors /\ IsCore /\ IsMixer /\ CoreInv /\ StaffInv
      /\ {"mixer", "core"} \subseteq Askers
  BY Facts
<1>1. /\ IsAJob /\ ~IsBad(Job) /\ Left(restore) # << >>
      /\ mixerVars' = mixerVars /\ main' = main /\ web' = web /\ scripts' = scripts
      /\ \/ /\ call.to = "mixer" /\ ~main.mixer
            /\ core' = [at EXCEPT !.got = Append(@, Unknown(call))]
            /\ actorVars' = actorVars
         \/ /\ core' = at /\ box' = Put(box, call.to, m)
            /\ answers' = Asking("core", call.to) /\ status' = status
  BY DEF CoreAsks, serverVars, httpVars, mixerVars, actorVars
<1>2. at = [core EXCEPT !.ready = ready] /\ ready \in BOOLEAN
  BY <1>0 DEF IsCore, IsMixer
<1>3. /\ box["core"] # << >> /\ Job.type \in {"setup", "teardown", "request"}
      /\ IsFree("core") /\ answers["core"] # Waits /\ FitsCore(Job)
  BY <1>1, HasAJob
<1>4. Asks(call)
  BY <1>0, <1>1, <1>3, LeftFacts DEF IsCore
<1>5. m.type = call.type /\ m.from = "core" /\ m.arg = call.arg
  BY MessageFacts
<1>. HIDE DEF call
<1>6. CASE call.to = "mixer" /\ ~main.mixer /\ core' = [at EXCEPT !.got = Append(@, Unknown(call))]
           /\ actorVars' = actorVars
  <2>. HIDE DEF ready
  <2>1. core' = [[core EXCEPT !.ready = ready] EXCEPT !.got = Append(@, Unknown(call))]
    BY <1>2, <1>6
  <2>. QED BY <1>1, <1>2, <1>6, <2>1, CoreKnowsStep
<1>7. CASE /\ core' = at /\ box' = Put(box, call.to, m)
           /\ answers' = Asking("core", call.to) /\ status' = status
  <2>1. /\ call.to \in {"mixer", "audio"} /\ call.to \in Actors /\ Fits(call.to, m)
        /\ call.to = "mixer" => m.type \in {"set", "get"}
        /\ call.to = "audio" => m.type = "set_uri"
        /\ Job.type = "teardown" => /\ call.to = "mixer" /\ m.type = "get" /\ Len(core.got) \in {0, 1}
                                    /\ m.arg.property = Asked(Len(core.got))
    BY <1>0, <1>4, <1>5 DEF Asks
  <2>2. /\ core'.got = core.got /\ core'.ready = ready /\ DOMAIN core' = DOMAIN core
    BY <1>0, <1>2, <1>7 DEF IsCore
  <2>. HIDE DEF m, at
  <2>3. StaffInv'
    <3>1. Mail(box', answers')
      BY <1>0, <1>3, <1>5, <1>7, <2>1, MailAsk, NamesAssumption
    <3>. QED BY <1>0, <1>1, <1>7, <3>1, SameStaff
  <2>4. answers'["mixer"] = answers["mixer"]
    BY <1>0, <1>7 DEF Asking
  <2>5. MixerInv' /\ (Undisturbed' <=> Undisturbed) /\ box'["core"] = box["core"]
    BY <1>1, <1>5, <1>7, <2>1, <2>4, MixerHearsCore
  <2>6. TypeInv'
    <3>1. IsWeb'
      BY <1>1, WebKept DEF IInv, TypeInv
    <3>2. IsMixer' /\ IsCore'
      BY <1>0, <1>1, <1>2, <2>2 DEF IsMixer, IsCore, mixerVars
    <3>. QED BY <3>1, <3>2 DEF TypeInv
  <2>7. CoreBusy'
    BY <1>1, <1>3, <2>5 DEF CoreBusy, Job
  <2>8. TeardownInTurn'
    BY <1>0, <1>1, <2>5 DEF CoreInv, TeardownInTurn
  <2>9. SavesRight'
    <3>. SUFFICES ASSUME IsSaving' PROVE ToldWhatHolds'
      BY DEF SavesRight
    <3>1. Job.type = "teardown"
      BY <2>5 DEF IsSaving, Job
    <3>2. mixer' = mixer /\ wanted' = wanted
      BY <1>1 DEF mixerVars
    <3>3. /\ box' = Put(box, "mixer", m) /\ answers' = Asking("core", "mixer")
      BY <1>7, <2>1, <3>1
    <3>. QED BY <1>1, <1>5, <1>7, <2>1, <2>2, <3>1, <3>2, <3>3, CoreAsksRight
  <2>. QED BY <2>3, <2>5, <2>6, <2>7, <2>8, <2>9 DEF IInv, CoreInv
<1>. QED BY <1>1, <1>6, <1>7

LEMMA CoreStep ==
    ASSUME IInv, CoreThread
    PROVE  IInv'
<1>1. CoreActs(Restores, main.mixer) /\ UNCHANGED <<serverVars, httpVars, appVars>>
  BY DEF CoreThread
<1>. QED
  BY <1>1, CoreLoadsStep, CoreAsksStep, CoreGetsStep, CoreFinishesStep, CoreRefusesStep,
     CoreForwardsStep, CoreStopsStep
  DEF CoreActs

-----------------------------------------------------------------------------
(* The main thread. *)

\* Where the main thread is, it has asked nothing.
LEMMA MainFacts ==
    ASSUME IInv
    PROVE  /\ main \in MainType /\ status \in [Actors -> Statuses] /\ NotStarted
           /\ NobodyThere(box) /\ "main" \in Askers
           /\ main.at \notin Stopping /\ main.at # "setup" => NoneFrom(box, "main")
           /\ main.at # "setup" /\ ~main.asked => NoneFrom(box, "main")
           /\ IsAnswered("main") => NoneFrom(box, "main")
           /\ main.at \notin {"teardown", "aborted"} => Lacks(box["core"], "teardown")
           /\ NoneFrom(box, "main") /\ main.at # "aborted" => Lacks(box["core"], "teardown")
<1>0. Mail(box, answers) /\ Post(box, answers) /\ "core" \in Actors /\ CoreInv
  BY Facts
<1>1. "main" \in Askers /\ NotStarted /\ main \in MainType /\ status \in [Actors -> Statuses]
  BY DEF Askers, IInv, StaffInv, IsMain
<1>2. IsAnswered("main") => NoneFrom(box, "main")
  BY <1>0, <1>1, NotWaiting, NothingUnderWay
<1>3. \A m \in Range(box["core"]) :
         m.type = "teardown" => /\ main.at \in {"teardown", "aborted"}
                                /\ main.at = "teardown" => m.from = "main"
  BY <1>0 DEF CoreInv, TeardownInTurn
<1>4. main.at \notin {"teardown", "aborted"} => Lacks(box["core"], "teardown")
  BY <1>3 DEF Lacks
<1>5. NoneFrom(box, "main") /\ main.at # "aborted" => Lacks(box["core"], "teardown")
  BY <1>0, <1>3 DEF Lacks, NoneFrom
<1>. QED BY <1>0, <1>1, <1>2, <1>4, <1>5 DEF Mail, MainAsks

\* What the main thread does elsewhere leaves what is heard and saved as it is.
LEMMA MainMoves ==
    ASSUME IInv, MixerView' = MixerView, box'["core"] = box["core"],
           answers'["core"] = answers["core"], core' = core, main'.mixer = main.mixer,
           main'.at \in Starting \union {"config", "stop_frontends", "teardown", "stop_core", "stop_backends"}
              => main.at \in Starting \union {"config", "stop_frontends", "teardown", "stop_core", "stop_backends"},
           Lacks(box["core"], "teardown")
    PROVE  MixerInv' /\ CoreInv'
<1>0. CoreInv /\ IsSeq(box["core"])
  BY Facts
<1>1. MixerInv'
  BY MixerSame DEF IInv, MixerInv, StopsInTurn
<1>2. CoreBusy' /\ TeardownInTurn'
  BY <1>0 DEF CoreInv, CoreBusy, TeardownInTurn, IsFree, Lacks
<1>3. SavesRight'
  <2>1. box["core"] # << >> => Head(box["core"]).type # "teardown"
    BY <1>0, SeqFacts DEF Lacks
  <2>. QED BY <2>1 DEF SavesRight, IsSaving
<1>. QED BY <1>1, <1>2, <1>3 DEF CoreInv

LEMMA MainTypes ==
    ASSUME IInv, mixerVars' = mixerVars, core' = core, web' = web, scripts' = scripts
    PROVE  TypeInv'
<1>1. IsMixer'
  BY Facts DEF IsMixer, mixerVars
<1>. QED BY <1>1, TypeKept

\* It goes on when nothing that it has asked is under way.
LEMMA MainGoes ==
    ASSUME IInv, NoneFrom(box, "main"), main.at # "aborted",
           status' = status, box' = box, answers' = answers \/ answers' = NoLongerWaiting,
           main' \in MainType, main'.mixer = main.mixer, main'.at # "config",
           main'.at \in {"mixer", "audio", "backends", "core"} => main.at = "config" /\ main'.at = "mixer",
           main'.at \in Starting \union {"config", "stop_frontends", "teardown", "stop_core", "stop_backends"}
              => main.at \in Starting \union {"config", "stop_frontends", "teardown", "stop_core", "stop_backends"},
           mixerVars' = mixerVars, core' = core, web' = web, scripts' = scripts
    PROVE  IInv'
<1>0. /\ Post(box, answers) /\ DOMAIN answers = Askers /\ {"core", "mixer"} \subseteq Askers
      /\ NobodyThere(box) /\ NotStarted /\ Lacks(box["core"], "teardown") /\ status \in [Actors -> Statuses]
  BY Facts, MainFacts
<1>1. DOMAIN answers' = Askers /\ \A x \in Askers : x # "main" => answers'[x] = answers[x]
  BY <1>0 DEF NoLongerWaiting
<1>2. Post(box', answers')
  <2>1. \A x \in Askers : NoneFrom(box, x) \/ answers'[x] = answers[x]
    BY <1>1
  <2>. QED BY <1>0, <1>1, <2>1, AnswersPost
<1>3. NobodyThere(box)' /\ MainAsks(box)'
  BY <1>0 DEF NobodyThere, IsUp, MainAsks, NoneFrom
<1>4. NotStarted' /\ IsMain'
  BY <1>0 DEF NotStarted, Early, IsMain
<1>5. MixerInv' /\ CoreInv'
  <2>1. MixerView' = MixerView
    BY <1>0, <1>1 DEF MixerView, mixerVars
  <2>. QED BY <1>0, <1>1, <2>1, MainMoves
<1>6. TypeInv'
  BY MainTypes
<1>. QED BY <1>2, <1>3, <1>4, <1>5, <1>6 DEF IInv, StaffInv, Mail

LEMMA GoFacts ==
    ASSUME main \in MainType,
           NEW at \in Starting \union Stopping \union {"config", "aborted", "ended"}
    PROVE  /\ Go(at) \in MainType /\ Go(at).at = at /\ Go(at).mixer = main.mixer
           /\ DOMAIN Go(at) = DOMAIN main
BY DEF MainType, Go

LEMMA ConfigureStep ==
    ASSUME IInv, Configure
    PROVE  IInv'
<1>1. /\ main.at = "config"
      /\ main' = Go("ended") \/ main' = Go("mixer")
      /\ status' = status /\ box' = box /\ answers' = answers /\ mixerVars' = mixerVars
      /\ core' = core /\ web' = web /\ scripts' = scripts
  BY DEF Configure, actorVars, coreVars, httpVars
<1>2. NoneFrom(box, "main") /\ main \in MainType
  BY <1>1, MainFacts DEF Stopping
<1>3. main' \in MainType /\ main'.mixer = main.mixer /\ main'.at \in {"ended", "mixer"}
  BY <1>1, <1>2, GoFacts DEF Starting
<1>4. /\ main.at # "aborted" /\ main'.at # "config"
      /\ main'.at \in {"mixer", "audio", "backends", "core"} => main.at = "config" /\ main'.at = "mixer"
  BY <1>1, <1>3
<1>. QED BY <1>1, <1>2, <1>3, <1>4, MainGoes

\* Before core is started nobody has asked it anything.
LEMMA BeforeCore ==
    ASSUME IInv, main.at \in {"mixer", "audio", "backends", "core"}
    PROVE  /\ status["core"] = "none" /\ box["core"] = << >> /\ core.got = << >> /\ IsFree("core")
           /\ NoneFrom(box, "main")
<1>0. /\ {"mixer", "audio", "core", "http"} \subseteq Actors /\ CoreInv /\ NotStarted /\ NobodyThere(box)
  BY Facts, MainFacts
<1>1. status["core"] = "none"
  BY <1>0 DEF NotStarted, Early
<1>2. box["core"] = << >>
  BY <1>0, <1>1 DEF NobodyThere, IsUp
<1>3. NoneFrom(box, "main")
  BY MainFacts DEF Stopping
<1>. QED BY <1>0, <1>1, <1>2, <1>3 DEF CoreInv, CoreBusy

LEMMA CoreIsNot ==
    ASSUME box'["core"] = << >>, core'.got = << >>, IsFree("core")'
    PROVE  CoreInv'
BY EmptyFacts DEF CoreInv, CoreBusy, TeardownInTurn, SavesRight, IsSaving

LEMMA StartMixerStep ==
    ASSUME IInv, NEW configured, NEW volume, NEW fails, StartMixer(configured, volume, fails),
           mixerVars' = mixerVars, core' = core, web' = web, scripts' = scripts
    PROVE  IInv'
<1>. DEFINE m == Message("set", None, [property |-> "volume", level |-> volume])
            started == configured /\ "mixer" \notin fails
<1>0. /\ Mail(box, answers) /\ Post(box, answers) /\ DOMAIN box = Actors /\ DOMAIN answers = Askers
      /\ {"mixer", "audio", "core", "http"} \subseteq Actors /\ MixerWaits
      /\ NotStarted /\ NobodyThere(box) /\ status \in [Actors -> Statuses] /\ main \in MainType
  BY Facts, MainFacts
<1>1. /\ main.at = "mixer" /\ answers' = answers
      /\ main' = [Go("audio") EXCEPT !.mixer = started, !.failed = @ \union ({"mixer"} \intersect fails)]
      /\ status' = [status EXCEPT !["mixer"] = IF started THEN "running" ELSE @]
      /\ box' = [box EXCEPT !["mixer"] = IF started /\ volume # None THEN <<m>> ELSE @]
  BY DEF StartMixer
<1>2. /\ box["core"] = << >> /\ core.got = << >> /\ IsFree("core") /\ NoneFrom(box, "main")
  BY <1>1, BeforeCore
<1>3. /\ status["mixer"] = "none" /\ status["audio"] = "none"
      /\ box["mixer"] = << >> /\ box["audio"] = << >>
  <2>1. status["mixer"] = "none" /\ status["audio"] = "none"
    BY <1>1, <1>0 DEF NotStarted, Early
  <2>. QED BY <1>0, <2>1 DEF NobodyThere, IsUp
<1>4. Fits("mixer", m) /\ m.type = "set" /\ m.from = None
  <2>1. m.type = "set" /\ m.from = None /\ m = Message(m.type, m.from, m.arg)
    BY MessageFacts
  <2>. HIDE DEF m
  <2>. QED BY <2>1 DEF Fits, FitsMixer
<1>. HIDE DEF m, started
<1>5. /\ main' \in MainType /\ main'.at = "audio" /\ main'.mixer = started
  <2>1. started \in BOOLEAN
    BY DEF started
  <2>2. {"mixer"} \intersect fails \subseteq Actors
    BY <1>0
  <2>. QED BY <1>0, <1>1, <2>1, <2>2 DEF MainType, Go, Starting
<1>6. /\ box'["mixer"] = << >> \/ box'["mixer"] = <<m>>
      /\ \A a \in Actors : a # "mixer" => box'[a] = box[a] /\ status'[a] = status[a]
      /\ status'["mixer"] \in {"none", "running"}
      /\ box'["mixer"] = << >> \/ status'["mixer"] = "running"
      /\ status' \in [Actors -> Statuses] /\ DOMAIN box' = Actors
  BY <1>0, <1>1, <1>3 DEF Statuses
<1>7. Post(box', answers')
  <2>1. CASE box'["mixer"] = << >>
    <3>1. \A a \in Actors : box'[a] = box[a]
      BY <1>3, <1>6, <2>1
    <3>. QED BY <1>0, <1>1, <1>6, <3>1, SamePost
  <2>2. CASE box'["mixer"] = <<m>>
    <3>. DEFINE bx == [box EXCEPT !["mixer"] = Append(@, m)]
    <3>1. /\ DOMAIN bx = Actors /\ bx["mixer"] = <<m>>
          /\ \A a \in Actors : a # "mixer" => bx[a] = box[a]
      BY <1>0, <1>3
    <3>2. m.from \notin Askers
      BY <1>4, NamesAssumption
    <3>3. Post(bx, answers)
      BY <1>0, <1>4, <3>2, PutPost
    <3>. HIDE DEF bx
    <3>4. \A a \in Actors : box'[a] = bx[a]
      BY <1>6, <2>2, <3>1
    <3>5. Post(box', answers)
      BY <1>6, <3>3, <3>4, SamePost
    <3>. QED BY <1>1, <3>5
  <2>. QED BY <1>6, <2>1, <2>2
<1>8. NobodyThere(box)'
  BY <1>0, <1>6 DEF NobodyThere, IsUp
<1>9. MainAsks(box)'
  <2>1. \A k \in Range(box'["mixer"]) : k.from # "main"
    <3>1. m.from # "main"
      BY <1>4, NamesAssumption DEF Askers
    <3>2. Range(box'["mixer"]) \subseteq {m}
      BY <1>6, EmptyFacts, OneFacts
    <3>. QED BY <3>1, <3>2
  <2>. QED BY <1>2, <1>6, <2>1 DEF MainAsks, NoneFrom
<1>10. NotStarted' /\ IsMain'
  <2>1. Backends \subseteq Actors /\ "mixer" \notin Backends
    BY NamesAssumption DEF Actors
  <2>. QED BY <1>0, <1>1, <1>5, <1>6, <2>1 DEF NotStarted, Early, IsMain
<1>11. TypeInv'
  BY MainTypes
<1>12. MixerInv'
  <2>1. box'["audio"] = << >> /\ status'["audio"] = "none"
    BY <1>0, <1>3, <1>6
  <2>2. IsFree("mixer")'
    BY <1>0, <1>1, <1>3 DEF MixerWaits, IsFree
  <2>3. MixerWaits'
    BY <2>1, <2>2, EmptyFacts, EmptyLacks DEF MixerWaits
  <2>4. \A type \in {"stop", "adapter", "teardown"} : Lacks(box'["mixer"], type)
    <3>1. Range(box'["mixer"]) \subseteq {m}
      BY <1>6, EmptyFacts, OneFacts
    <3>. QED BY <1>4, <3>1 DEF Lacks
  <2>5. OneAdapter(box'["mixer"])
    BY <1>6, EmptyFacts, OneFacts DEF OneAdapter
  <2>6. Undisturbed'
    BY <1>6, <2>1, <2>4, EmptyLacks DEF Undisturbed
  <2>7. Undisturbed
    BY <1>3, EmptyLacks DEF Undisturbed
  <2>8. SetsArrive
    BY <2>7 DEF IInv, MixerInv
  <2>9. ~mixer.setup
    BY <1>3, <2>8 DEF SetsArrive
  <2>10. SetsArrive'
    BY <2>1, <2>4, <2>5, <2>8, <2>9, EmptyLacks DEF SetsArrive, mixerVars
  <2>. QED BY <2>3, <2>6, <2>10 DEF MixerInv, StopsInTurn
<1>13. CoreInv'
  <2>1. box'["core"] = << >> /\ IsFree("core")' /\ core'.got = << >>
    BY <1>0, <1>1, <1>2, <1>6 DEF IsFree
  <2>. QED BY <2>1, CoreIsNot
<1>. QED BY <1>7, <1>8, <1>9, <1>10, <1>11, <1>12, <1>13 DEF IInv, StaffInv, Mail

LEMMA StartAudioStep ==
    ASSUME IInv, StartAudio,
           mixerVars' = mixerVars, core' = core, web' = web, scripts' = scripts
    PROVE  IInv'
<1>0. /\ Mail(box, answers) /\ Post(box, answers)
      /\ {"mixer", "audio", "core", "http"} \subseteq Actors /\ MixerWaits
      /\ NotStarted /\ NobodyThere(box) /\ status \in [Actors -> Statuses] /\ main \in MainType
  BY Facts, MainFacts
<1>1. /\ main.at = "audio" /\ answers' = answers /\ box' = box
      /\ main' = [Go("backends") EXCEPT !.audio = TRUE]
      /\ status' = [status EXCEPT !["audio"] = "starting"]
  BY DEF StartAudio
<1>2. /\ box["core"] = << >> /\ core.got = << >> /\ IsFree("core") /\ NoneFrom(box, "main")
  BY <1>1, BeforeCore
<1>3. status["audio"] = "none" /\ box["audio"] = << >>
  <2>1. status["audio"] = "none"
    BY <1>1, <1>0 DEF NotStarted, Early
  <2>. QED BY <1>0, <2>1 DEF NobodyThere, IsUp
<1>4. main' \in MainType /\ main'.at = "backends"
  BY <1>0, <1>1 DEF MainType, Go, Starting
<1>5. /\ \A a \in Actors : a # "audio" => status'[a] = status[a]
      /\ status'["audio"] = "starting" /\ status' \in [Actors -> Statuses]
  BY <1>0, <1>1 DEF Statuses
<1>6. Mail(box, answers)'
  BY <1>0, <1>1, <1>2, <1>3, <1>5 DEF Mail, NobodyThere, IsUp, MainAsks, NoneFrom
<1>7. NotStarted' /\ IsMain'
  <2>1. Backends \subseteq Actors /\ "audio" \notin Backends
    BY NamesAssumption DEF Actors
  <2>. QED BY <1>0, <1>1, <1>4, <1>5, <2>1 DEF NotStarted, Early, IsMain
<1>8. TypeInv'
  BY MainTypes
<1>9. MixerInv'
  <2>1. MixerWaits'
    BY <1>0, <1>1 DEF MixerWaits, IsFree
  <2>2. Undisturbed' <=> Undisturbed
    BY <1>0, <1>1, <1>3, <1>5 DEF Undisturbed
  <2>3. SetsArrive => SetsArrive'
    BY <1>1, <1>3 DEF SetsArrive, mixerVars
  <2>. QED BY <1>1, <2>1, <2>2, <2>3 DEF IInv, MixerInv, StopsInTurn, Starting
<1>10. CoreInv'
  <2>1. box'["core"] = << >> /\ IsFree("core")' /\ core'.got = << >>
    BY <1>1, <1>2 DEF IsFree
  <2>. QED BY <2>1, CoreIsNot
<1>. QED BY <1>6, <1>7, <1>8, <1>9, <1>10 DEF IInv, StaffInv

LEMMA StartBackendsStep ==
    ASSUME IInv, NEW registered \in SUBSET Backends, NEW fails, NEW dies,
           StartBackends(registered, fails, dies),
           mixerVars' = mixerVars, core' = core, web' = web, scripts' = scripts
    PROVE  IInv'
<1>. DEFINE started == registered \ fails
<1>0. /\ Mail(box, answers) /\ Post(box, answers)
      /\ {"mixer", "audio", "core", "http"} \subseteq Actors /\ MixerWaits
      /\ NotStarted /\ NobodyThere(box) /\ status \in [Actors -> Statuses] /\ main \in MainType
  BY Facts, MainFacts
<1>1. /\ main.at = "backends" /\ answers' = answers /\ box' = box
      /\ main' = [Go("core") EXCEPT !.backends = started \ dies,
                                    !.failed = @ \union (registered \intersect fails)]
      /\ status' = [a \in Actors |-> IF a \notin started THEN status[a]
                                     ELSE IF a \in dies THEN "stopped" ELSE "running"]
  BY DEF StartBackends
<1>2. /\ box["core"] = << >> /\ core.got = << >> /\ IsFree("core") /\ NoneFrom(box, "main")
  BY <1>1, BeforeCore
<1>3. Backends \subseteq Actors /\ Backends \intersect {"mixer", "audio", "core", "http"} = {}
  BY NamesAssumption DEF Actors
<1>4. main' \in MainType /\ main'.at = "core" /\ main'.mixer = main.mixer
  <2>1. started \ dies \subseteq Backends /\ registered \intersect fails \subseteq Actors
    BY <1>3
  <2>. HIDE DEF started
  <2>. QED BY <1>0, <1>1, <2>1 DEF MainType, Go, Starting
<1>5. /\ \A a \in Actors : a \notin Backends => status'[a] = status[a]
      /\ status' \in [Actors -> Statuses]
  BY <1>0, <1>1 DEF Statuses
<1>6. \A b \in Backends : box[b] = << >>
  <2>1. \A b \in Backends : status[b] = "none"
    BY <1>0, <1>1 DEF NotStarted, Early
  <2>. QED BY <1>0, <1>3, <2>1 DEF NobodyThere, IsUp
<1>. HIDE DEF started
<1>7. Mail(box, answers)'
  BY <1>0, <1>1, <1>2, <1>5, <1>6 DEF Mail, NobodyThere, IsUp, MainAsks, NoneFrom
<1>8. NotStarted' /\ IsMain'
  BY <1>0, <1>1, <1>3, <1>4, <1>5 DEF NotStarted, Early, IsMain
<1>9. TypeInv'
  BY MainTypes
<1>10. MixerInv' /\ CoreInv'
  <2>1. MixerView' = MixerView
    BY <1>0, <1>1, <1>3, <1>5 DEF MixerView, mixerVars
  <2>2. Lacks(box["core"], "teardown")
    BY <1>2, EmptyLacks
  <2>3. main.at \in Starting
    BY <1>1 DEF Starting
  <2>4. box'["core"] = box["core"] /\ answers'["core"] = answers["core"]
    BY <1>1
  <2>. QED BY <1>4, <2>1, <2>2, <2>3, <2>4, MainMoves
<1>. QED BY <1>7, <1>8, <1>9, <1>10 DEF IInv, StaffInv

LEMMA StartCoreStep ==
    ASSUME IInv, NEW schemes, StartCore(schemes),
           mixerVars' = mixerVars, core' = core, web' = web, scripts' = scripts
    PROVE  IInv'
<1>. DEFINE m == Message("setup", "main", None)
<1>0. /\ Mail(box, answers) /\ Post(box, answers) /\ DOMAIN box = Actors /\ DOMAIN answers = Askers
      /\ {"mixer", "audio", "core", "http"} \subseteq Actors /\ {"mixer", "core", "main"} \subseteq Askers
      /\ NotStarted /\ NobodyThere(box) /\ status \in [Actors -> Statuses] /\ main \in MainType
  BY Facts, MainFacts
<1>1. /\ main.at = "core"
      /\ \/ main' = Go("stop_frontends") /\ status' = status /\ box' = box /\ answers' = answers
         \/ /\ main' = Go("setup") /\ status' = [status EXCEPT !["core"] = "running"]
            /\ box' = [box EXCEPT !["core"] = <<m>>]
            /\ answers' = [answers EXCEPT !["main"] = Waits]
  BY DEF StartCore, actorVars
<1>2. /\ box["core"] = << >> /\ core.got = << >> /\ IsFree("core") /\ NoneFrom(box, "main")
  BY <1>1, BeforeCore
<1>3. main.at \in Starting
  BY <1>1 DEF Starting
<1>4. CASE main' = Go("stop_frontends") /\ status' = status /\ box' = box /\ answers' = answers
  <2>1. main' \in MainType /\ main'.at = "stop_frontends" /\ main'.mixer = main.mixer
    BY <1>0, <1>4, GoFacts DEF Stopping
  <2>2. main.at # "aborted"
    BY <1>1
  <2>. QED BY <1>2, <1>3, <1>4, <2>1, <2>2, MainGoes
<1>5. CASE /\ main' = Go("setup") /\ status' = [status EXCEPT !["core"] = "running"]
           /\ box' = [box EXCEPT !["core"] = <<m>>]
           /\ answers' = [answers EXCEPT !["main"] = Waits]
  <2>1. m.type = "setup" /\ m.from = "main" /\ Fits("core", m)
    <3>1. m.type = "setup" /\ m.from = "main" /\ m = Message(m.type, m.from, m.arg)
      BY MessageFacts
    <3>. HIDE DEF m
    <3>. QED BY <3>1 DEF Fits, FitsCore
  <2>. HIDE DEF m
  <2>2. main' \in MainType /\ main'.at = "setup" /\ main'.mixer = main.mixer
    BY <1>0, <1>5, GoFacts DEF Starting
  <2>3. /\ DOMAIN box' = Actors /\ box'["core"] = <<m>>
        /\ \A a \in Actors : a # "core" => box'[a] = box[a] /\ status'[a] = status[a]
        /\ status'["core"] = "running" /\ status' \in [Actors -> Statuses]
        /\ answers'["main"] = Waits /\ DOMAIN answers' = Askers
        /\ \A x \in Askers : x # "main" => answers'[x] = answers[x]
    BY <1>0, <1>5 DEF Statuses
  <2>4. Post(box', answers')
    <3>. DEFINE bx == [box EXCEPT !["core"] = Append(@, m)]
    <3>1. /\ DOMAIN bx = Actors /\ bx["core"] = <<m>>
          /\ \A a \in Actors : a # "core" => bx[a] = box[a]
      BY <1>0, <1>2
    <3>2. /\ \A x \in Askers : x # m.from => answers'[x] = answers[x]
          /\ m.from \in Askers => NoneFrom(box, m.from) /\ answers'[m.from] = Waits
      BY <1>2, <2>1, <2>3
    <3>3. Post(bx, answers')
      <4>1. /\ Post(box, answers) /\ "core" \in Actors /\ Fits("core", m)
            /\ DOMAIN answers' = Askers
        BY <1>0, <2>1, <2>3
      <4>. QED BY <3>2, <4>1, PutPost
    <3>. HIDE DEF bx
    <3>4. \A a \in Actors : box'[a] = bx[a]
      BY <2>3, <3>1
    <3>. QED BY <2>3, <3>4, <3>3, SamePost
  <2>5. Mail(box, answers)'
    <3>1. NobodyThere(box)'
      BY <1>0, <2>3 DEF NobodyThere, IsUp
    <3>. QED BY <2>2, <2>4, <3>1 DEF Mail, MainAsks
  <2>6. NotStarted' /\ IsMain'
    BY <2>2, <2>3 DEF NotStarted, Early, IsMain
  <2>7. TypeInv'
    BY MainTypes
  <2>8. MixerInv'
    <3>1. MixerView' = MixerView
      BY <1>0, <2>3 DEF MixerView, mixerVars
    <3>. QED BY <1>3, <3>1, MixerSame DEF IInv, MixerInv, StopsInTurn
  <2>9. CoreInv'
    <3>1. core'.got = << >> /\ IsFree("core")'
      BY <1>0, <1>2, <2>3 DEF IsFree
    <3>2. Head(box'["core"]) = m /\ Range(box'["core"]) = {m}
      BY <2>3, OneFacts
    <3>. QED BY <2>1, <3>1, <3>2 DEF CoreInv, CoreBusy, TeardownInTurn, SavesRight, IsSaving
  <2>. QED BY <2>5, <2>6, <2>7, <2>8, <2>9 DEF IInv, StaffInv
<1>. QED BY <1>1, <1>4, <1>5

LEMMA CoreSetUpStep ==
    ASSUME IInv, CoreSetUp,
           mixerVars' = mixerVars, core' = core, web' = web, scripts' = scripts
    PROVE  IInv'
<1>1. /\ main.at = "setup" /\ IsAnswered("main") /\ status' = status /\ box' = box
      /\ main' = [Go("frontends") EXCEPT !.core = TRUE] /\ answers' = NoLongerWaiting
  BY DEF CoreSetUp, NoLongerWaiting
<1>2. NoneFrom(box, "main") /\ main \in MainType
  BY <1>1, MainFacts
<1>3. main' \in MainType /\ main'.at = "frontends" /\ main'.mixer = main.mixer
  BY <1>1, <1>2 DEF MainType, Go, Starting
<1>4. main.at \in Starting /\ main.at # "aborted"
  BY <1>1 DEF Starting
<1>. QED BY <1>1, <1>2, <1>3, <1>4, MainGoes

LEMMA StartFrontendsStep ==
    ASSUME IInv, NEW configured, NEW fails, StartFrontends(configured, fails),
           mixerVars' = mixerVars, core' = core, web' = web, scripts' = scripts
    PROVE  IInv'
<1>0. /\ Mail(box, answers) /\ Post(box, answers) /\ {"mixer", "audio", "core", "http"} \subseteq Actors
      /\ NotStarted /\ NobodyThere(box) /\ status \in [Actors -> Statuses] /\ main \in MainType
  BY Facts, MainFacts
<1>1. /\ main.at = "frontends" /\ answers' = answers /\ box' = box
      /\ status' = [status EXCEPT !["http"] =
                       IF configured /\ "http" \notin fails THEN "starting" ELSE @]
      /\ main' = [Go("loop") EXCEPT !.failed =
                       @ \union (IF configured THEN {"http"} \intersect fails ELSE {})]
  BY DEF StartFrontends
<1>2. NoneFrom(box, "main") /\ Lacks(box["core"], "teardown")
  BY <1>1, MainFacts DEF Stopping
<1>3. main' \in MainType /\ main'.at = "loop" /\ main'.mixer = main.mixer
  BY <1>0, <1>1 DEF MainType, Go, Starting
<1>4. /\ \A a \in Actors : a # "http" => status'[a] = status[a]
      /\ status'["http"] \in {status["http"], "starting"} /\ status' \in [Actors -> Statuses]
  BY <1>0, <1>1 DEF Statuses
<1>5. Mail(box, answers)'
  <2>1. NobodyThere(box)'
    BY <1>0, <1>1, <1>4 DEF NobodyThere, IsUp
  <2>. QED BY <1>0, <1>1, <1>2, <2>1 DEF Mail, MainAsks, NoneFrom
<1>6. NotStarted' /\ IsMain'
  BY <1>3, <1>4 DEF NotStarted, Early, IsMain
<1>7. TypeInv'
  BY MainTypes
<1>8. MixerInv' /\ CoreInv'
  <2>1. MixerView' = MixerView
    BY <1>0, <1>1, <1>4 DEF MixerView, mixerVars
  <2>2. box'["core"] = box["core"] /\ answers'["core"] = answers["core"]
    BY <1>1
  <2>3. main.at \in Starting
    BY <1>1 DEF Starting
  <2>. QED BY <1>2, <1>3, <2>1, <2>2, <2>3, MainMoves
<1>. QED BY <1>5, <1>6, <1>7, <1>8 DEF IInv, StaffInv

LEMMA TerminateStep ==
    ASSUME IInv, Terminate,
           mixerVars' = mixerVars, core' = core, web' = web, scripts' = scripts
    PROVE  IInv'
<1>1. /\ main.at = "loop" /\ main' = Go("stop_frontends")
      /\ status' = status /\ box' = box /\ answers' = answers
  BY DEF Terminate, actorVars
<1>2. NoneFrom(box, "main") /\ main \in MainType
  BY <1>1, MainFacts DEF Stopping
<1>3. main' \in MainType /\ main'.at = "stop_frontends" /\ main'.mixer = main.mixer
  BY <1>1, <1>2, GoFacts DEF Stopping
<1>4. main.at \in Starting /\ main.at # "aborted"
  BY <1>1 DEF Starting
<1>. QED BY <1>1, <1>2, <1>3, <1>4, MainGoes

-----------------------------------------------------------------------------
(* The end. *)

\* A request to stop for one of the two comes when nothing is to be saved any more.
LEMMA AskedToStop ==
    ASSUME IInv, NEW a \in {"mixer", "audio"}, NEW m, m.type = "stop", m.from = "main", IsUp(a),
           main.at \in {"stop_audio", "stop_mixer", "stop_remaining"}, box' = Put(box, a, m),
           answers'["mixer"] = answers["mixer"], answers'["core"] = answers["core"],
           status' = status, main'.at = main.at, core' = core, mixerVars' = mixerVars
    PROVE  MixerInv' /\ CoreInv'
<1>0. /\ DOMAIN box = Actors /\ {"mixer", "audio", "core", "http"} \subseteq Actors /\ MixerWaits
      /\ Post(box, answers) /\ IsSeq(box["mixer"]) /\ IsSeq(box["audio"]) /\ IsSeq(box["core"])
      /\ CoreInv
  BY Facts
<1>1. /\ \A b \in Actors : b # a => box'[b] = box[b]
      /\ box'[a] = Append(box[a], m)
  <2>1. a \in Actors
    BY <1>0
  <2>2. Put(box, a, m) = [box EXCEPT ![a] = Append(@, m)]
    BY DEF Put
  <2>. QED BY <1>0, <2>1, <2>2
<1>2. ~Undisturbed'
  <2>1. IsSeq(box[a])
    BY <1>0
  <2>2. ~Lacks(Append(box[a], m), "stop")
    BY <2>1, LacksFacts
  <2>3. ~Lacks(box'["mixer"], "stop") \/ ~Lacks(box'["audio"], "stop")
    BY <1>1, <2>2
  <2>. QED BY <2>3 DEF Undisturbed
<1>3. MixerWaits'
  <2>1. CASE a = "mixer"
    <3>1. box'["mixer"] = Append(box["mixer"], m) /\ box'["audio"] = box["audio"]
      BY <1>0, <1>1, <2>1
    <3>2. IsFree("mixer") => IsFree("mixer")'
      BY DEF IsFree
    <3>3. AsksAfterSets(box'["audio"], "mixer") /\ Range(box'["audio"]) \subseteq Range(box["audio"])
      BY <1>0, <3>1 DEF MixerWaits
    <3>. QED BY <3>1, <3>2, <3>3, WaitsKept
  <2>2. CASE a = "audio"
    <3>1. box'["audio"] = Append(box["audio"], m) /\ box'["mixer"] = box["mixer"]
      BY <1>0, <1>1, <2>2
    <3>2. AsksAfterSets(Append(box["audio"], m), "mixer")
      <4>1. AsksAfterSets(box["audio"], "mixer")
        BY <1>0 DEF MixerWaits
      <4>. QED BY <1>0, <4>1, AsksAppend
    <3>3. Range(Append(box["audio"], m)) = Range(box["audio"]) \union {m}
      BY <1>0, AppendFacts
    <3>4. \A k \in Range(box'["audio"]) : k.from = "mixer" => k \in Range(box["audio"])
      BY <3>1, <3>3
    <3>. QED BY <1>0, <3>1, <3>2, <3>4 DEF MixerWaits, IsFree
  <2>. QED BY <2>1, <2>2
<1>4. MixerInv'
  BY <1>2, <1>3 DEF MixerInv, StopsInTurn, Starting
<1>5. CoreInv'
  <2>1. box'["core"] = box["core"]
    BY <1>0, <1>1
  <2>2. Lacks(box["core"], "teardown")
    BY MainFacts
  <2>3. box["core"] # << >> => Head(box["core"]).type # "teardown"
    BY <1>0, <2>2, SeqFacts DEF Lacks
  <2>. QED BY <1>0, <2>1, <2>2, <2>3
       DEF CoreInv, CoreBusy, TeardownInTurn, SavesRight, IsSaving, Lacks, IsFree
<1>. QED BY <1>4, <1>5

\* Core is asked to save its state.
LEMMA AskedToSave ==
    ASSUME IInv, NEW m, m.type = "teardown", m.from = "main", main.at = "teardown",
           MixerView' = MixerView, answers'["core"] = answers["core"], core' = core,
           box'["core"] = box["core"] \/ box'["core"] = Append(box["core"], m),
           main'.at = main.at, main'.mixer = main.mixer
    PROVE  CoreInv'
<1>0. IsSeq(box["core"]) /\ CoreInv
  BY Facts
<1>1. Undisturbed' <=> Undisturbed
  BY MixerSame
<1>2. Undisturbed
  BY DEF IInv, MixerInv, StopsInTurn
<1>3. /\ box["core"] # << >> => box'["core"] # << >> /\ Head(box'["core"]) = Head(box["core"])
      /\ \A k \in Range(box'["core"]) : k = m \/ k \in Range(box["core"])
  <2>1. /\ Append(box["core"], m) # << >> /\ Range(Append(box["core"], m)) = Range(box["core"]) \union {m}
        /\ box["core"] # << >> => Head(Append(box["core"], m)) = Head(box["core"])
    BY <1>0, AppendFacts, HeadOfAppend
  <2>. QED BY <2>1
<1>4. CoreBusy'
  BY <1>0, <1>3 DEF CoreInv, CoreBusy, IsFree
<1>5. TeardownInTurn'
  BY <1>0, <1>1, <1>2, <1>3 DEF CoreInv, TeardownInTurn
<1>6. SavesRight'
  <2>1. IsSaving' => IsSaving
    BY <1>0, <1>3 DEF CoreInv, CoreBusy, IsSaving, IsFree
  <2>. QED BY <1>0, <2>1, ToldSame DEF CoreInv, SavesRight
<1>. QED BY <1>4, <1>5, <1>6 DEF CoreInv

LEMMA MainAsksStep ==
    ASSUME IInv, main.at \in Stopping, ~main.asked, NEW a \in Actors, NEW m, m.from = "main",
           Fits(a, m), box' = Put(box, a, m), answers' = Asking("main", a),
           main' = [main EXCEPT !.asked = TRUE], status' = status,
           \/ /\ m.type = "stop" /\ IsUp(a)
              /\ a \in {"mixer", "audio"} => main.at \in {"stop_audio", "stop_mixer", "stop_remaining"}
           \/ m.type = "teardown" /\ a = "core" /\ main.at = "teardown",
           mixerVars' = mixerVars, core' = core, web' = web, scripts' = scripts
    PROVE  IInv'
<1>0. /\ Mail(box, answers) /\ Post(box, answers) /\ DOMAIN box = Actors /\ DOMAIN answers = Askers
      /\ {"mixer", "audio", "core", "http"} \subseteq Actors /\ {"mixer", "core", "main"} \subseteq Askers
      /\ NotStarted /\ NobodyThere(box) /\ status \in [Actors -> Statuses] /\ main \in MainType
      /\ CoreInv
  BY Facts, MainFacts
<1>1. NoneFrom(box, "main")
  <2>1. main.at # "setup"
    BY DEF Stopping
  <2>. QED BY <2>1, MainFacts
<1>2. main' \in MainType /\ main'.at = main.at /\ main'.mixer = main.mixer /\ main'.asked
  BY <1>0 DEF MainType
<1>3. Post(box', answers')
  BY <1>0, <1>1, AskFits
<1>4. /\ \A b \in Actors : b # a => box'[b] = box[b]
      /\ box'[a] = (IF IsUp(a) THEN Append(box[a], m) ELSE box[a])
  <2>1. DOMAIN box = Actors
    BY <1>0
  <2>2. /\ Put(box, a, m)[a] = (IF IsUp(a) THEN Append(box[a], m) ELSE box[a])
        /\ \A b \in Actors : b # a => Put(box, a, m)[b] = box[b]
    BY <2>1, PutBox
  <2>. QED BY <2>2
<1>5. Mail(box, answers)'
  <2>1. NobodyThere(box)'
    BY <1>0, <1>4 DEF NobodyThere, IsUp
  <2>. QED BY <1>2, <1>3, <2>1 DEF Mail, MainAsks
<1>6. NotStarted' /\ IsMain'
  <2>1. main.at \notin {"config", "mixer", "audio", "backends", "core"}
    BY DEF Stopping
  <2>. QED BY <1>0, <1>2, <2>1 DEF NotStarted, Early, IsMain
<1>7. TypeInv'
  BY MainTypes
<1>8. answers'["mixer"] = answers["mixer"] /\ answers'["core"] = answers["core"]
  BY <1>0 DEF Asking
<1>9. CASE a \in {"mixer", "audio"}
  <2>1. m.type = "stop" /\ IsUp(a) /\ main.at \in {"stop_audio", "stop_mixer", "stop_remaining"}
    BY <1>9
  <2>2. MixerInv' /\ CoreInv'
    BY <1>2, <1>8, <1>9, <2>1, AskedToStop
  <2>. QED BY <1>5, <1>6, <1>7, <2>2 DEF IInv, StaffInv
<1>10. CASE a \notin {"mixer", "audio"}
  <2>1. MixerView' = MixerView
    BY <1>0, <1>4, <1>8, <1>10 DEF MixerView, mixerVars
  <2>2. MixerInv'
    BY <1>2, <2>1, MixerSame DEF IInv, MixerInv, StopsInTurn
  <2>3. box'["core"] = box["core"] \/ box'["core"] = Append(box["core"], m)
    <3>1. CASE a = "core"
      BY <1>4, <3>1
    <3>2. CASE a # "core"
      BY <1>0, <1>4, <3>2
    <3>. QED BY <3>1, <3>2
  <2>4. CASE m.type = "stop"
    <3>1. IsFree("core") => IsFree("core")'
      BY <1>8 DEF IsFree
    <3>2. \/ box'["core"] = box["core"]
          \/ \E k : k.type # "teardown" /\ box'["core"] = Append(box["core"], k)
      BY <2>3, <2>4
    <3>3. Undisturbed => Undisturbed'
      BY <2>1, MixerSame
    <3>4. ToldWhatHolds => ToldWhatHolds'
      BY <1>8, <2>1, ToldSame
    <3>5. CoreInv'
      BY <1>0, <1>2, <3>1, <3>2, <3>3, <3>4, CoreFrame
    <3>. QED BY <1>5, <1>6, <1>7, <2>2, <3>5 DEF IInv, StaffInv
  <2>5. CASE m.type = "teardown"
    <3>1. main.at = "teardown"
      BY <2>5
    <3>2. CoreInv'
      BY <1>2, <1>8, <2>1, <2>3, <2>5, <3>1, AskedToSave
    <3>. QED BY <1>5, <1>6, <1>7, <2>2, <3>2 DEF IInv, StaffInv
  <2>. QED BY <2>4, <2>5
<1>. QED BY <1>9, <1>10

\* One that is asked to stop, or nothing that is left to stop.
LEMMA StopActorsStep ==
    ASSUME IInv, NEW actors \in SUBSET Actors, NEW next \in Stopping \union {"ended"},
           StopActors(actors, next), main.at \in Stopping,
           ~(actors \intersect {"mixer", "audio"} = {})
              => main.at \in {"stop_audio", "stop_mixer", "stop_remaining"},
           next \in {"stop_frontends", "teardown", "stop_core", "stop_backends"}
              => main.at \in {"stop_frontends", "teardown", "stop_core"},
           mixerVars' = mixerVars, core' = core, web' = web, scripts' = scripts
    PROVE  IInv'
<1>. DEFINE left == {a \in actors : IsUp(a)}
            m == Message("stop", "main", None)
<1>0. main \in MainType /\ DOMAIN answers = Askers
  BY Facts, MainFacts
<1>1. CASE ~main.asked /\ left # {}
  <2>1. PICK a \in left : /\ main' = [main EXCEPT !.asked = TRUE] /\ box' = Put(box, a, m)
                          /\ answers' = [answers EXCEPT !["main"] = Waits] /\ status' = status
    BY <1>1 DEF StopActors
  <2>2. a \in actors /\ a \in Actors /\ IsUp(a)
    OBVIOUS
  <2>3. m.type = "stop" /\ m.from = "main" /\ m = Message(m.type, m.from, m.arg)
    BY MessageFacts
  <2>. HIDE DEF m, left
  <2>4. Fits(a, m)
    BY <2>3 DEF Fits, FitsMixer, FitsAudio, FitsCore, FitsOther, StopFrom
  <2>5. answers' = Asking("main", a)
    BY <2>1, <2>2 DEF Asking
  <2>6. a \in {"mixer", "audio"} => main.at \in {"stop_audio", "stop_mixer", "stop_remaining"}
    BY <2>2
  <2>. QED BY <1>1, <2>1, <2>2, <2>3, <2>4, <2>5, <2>6, MainAsksStep
<1>2. CASE ~(~main.asked /\ left # {})
  <2>1. /\ main.asked => IsAnswered("main")
        /\ answers' = NoLongerWaiting /\ status' = status /\ box' = box
        /\ main' = Go(next) \/ main' = [main EXCEPT !.asked = FALSE]
    BY <1>2 DEF StopActors
  <2>2. main.at # "setup" /\ main.at # "aborted" /\ main.at # "config"
    BY DEF Stopping
  <2>3. NoneFrom(box, "main")
    BY <2>1, <2>2, MainFacts
  <2>4. /\ main' \in MainType /\ main'.mixer = main.mixer
        /\ main'.at = next \/ main'.at = main.at
    <3>1. CASE main' = Go(next)
      BY <1>0, <3>1, GoFacts
    <3>2. CASE main' = [main EXCEPT !.asked = FALSE]
      BY <1>0, <3>2 DEF MainType
    <3>. QED BY <2>1, <3>1, <3>2
  <2>5. /\ main'.at # "config" /\ main'.at \notin {"mixer", "audio", "backends", "core"}
    BY <2>4 DEF Stopping
  <2>6. main'.at \in Starting \union {"config", "stop_frontends", "teardown", "stop_core", "stop_backends"}
          => main.at \in Starting \union {"config", "stop_frontends", "teardown", "stop_core", "stop_backends"}
    BY <2>4 DEF Starting, Stopping
  <2>. QED BY <2>1, <2>2, <2>3, <2>4, <2>5, <2>6, MainGoes
<1>. QED BY <1>1, <1>2

LEMMA TeardownStep ==
    ASSUME IInv, Teardown,
           mixerVars' = mixerVars, core' = core, web' = web, scripts' = scripts
    PROVE  IInv'
<1>. DEFINE m == Message("teardown", "main", None)
<1>0. main \in MainType /\ "core" \in Actors /\ main.at = "teardown" /\ main.at \in Stopping
  BY Facts, MainFacts DEF Teardown, Stopping
<1>1. CASE main.core /\ ~main.asked
  <2>1. /\ main' = [main EXCEPT !.asked = TRUE] /\ box' = Put(box, "core", m)
        /\ answers' = Asking("main", "core") /\ status' = status
    BY <1>1 DEF Teardown
  <2>2. m.type = "teardown" /\ m.from = "main" /\ m = Message(m.type, m.from, m.arg)
    BY MessageFacts
  <2>. HIDE DEF m
  <2>3. Fits("core", m)
    BY <2>2 DEF Fits, FitsCore
  <2>. QED BY <1>0, <1>1, <2>1, <2>2, <2>3, MainAsksStep
<1>2. CASE ~(main.core /\ ~main.asked)
  <2>1. /\ main.asked => IsAnswered("main")
        /\ answers' = NoLongerWaiting /\ status' = status /\ box' = box /\ main' = Go("stop_core")
    BY <1>2 DEF Teardown
  <2>2. NoneFrom(box, "main")
    BY <1>0, <2>1, MainFacts
  <2>3. main' \in MainType /\ main'.mixer = main.mixer /\ main'.at = "stop_core"
    BY <1>0, <2>1, GoFacts DEF Stopping
  <2>4. main.at # "aborted" /\ main.at # "config"
    BY <1>0
  <2>. QED BY <1>0, <2>1, <2>2, <2>3, <2>4, MainGoes
<1>. QED BY <1>1, <1>2

LEMMA MainStep ==
    ASSUME IInv, MainActs
    PROVE  IInv'
<1>1. mixerVars' = mixerVars /\ core' = core /\ web' = web /\ scripts' = scripts
  BY DEF MainActs, coreVars, httpVars
<1>2. CASE MainStarts
  <2>1. Enabled(conf.statuses) \intersect Backends \in SUBSET Backends
    OBVIOUS
  <2>. QED
    BY <1>1, <1>2, <2>1, StartMixerStep, StartAudioStep, StartBackendsStep, StartCoreStep,
       CoreSetUpStep, StartFrontendsStep
    DEF MainStarts
<1>3. ASSUME NEW actors \in SUBSET Actors, NEW next \in Stopping \union {"ended"},
             StopActors(actors, next), main.at \in Stopping,
             ~(actors \intersect {"mixer", "audio"} = {})
                => main.at \in {"stop_audio", "stop_mixer", "stop_remaining"},
             next \in {"stop_frontends", "teardown", "stop_core", "stop_backends"}
                => main.at \in {"stop_frontends", "teardown", "stop_core"}
      PROVE  IInv'
  BY <1>1, <1>3, StopActorsStep
<1>4. CASE MainStops
  <2>0. /\ {"mixer", "audio", "core", "http"} \subseteq Actors /\ Backends \subseteq Actors
        /\ Backends \intersect {"mixer", "audio"} = {}
        /\ Stopping = {"stop_frontends", "teardown", "stop_core", "stop_backends", "stop_audio",
                       "stop_mixer", "stop_remaining"}
    BY NamesAssumption DEF Actors, Stopping
  <2>1. CASE StopFrontends
    <3>1. main.at = "stop_frontends" /\ StopActors({"http"}, "teardown")
      BY <2>1 DEF StopFrontends
    <3>. QED BY <1>3, <2>0, <3>1
  <2>2. CASE Teardown
    BY <1>1, <2>2, TeardownStep
  <2>3. CASE StopCore
    <3>1. main.at = "stop_core" /\ StopActors({"core"}, "stop_backends")
      BY <2>3 DEF StopCore
    <3>. QED BY <1>3, <2>0, <3>1
  <2>4. CASE StopBackends
    <3>1. main.at = "stop_backends" /\ StopActors(Backends, "stop_audio")
      BY <2>4 DEF StopBackends
    <3>. QED BY <1>3, <2>0, <3>1
  <2>5. CASE StopAudio
    <3>1. /\ main.at = "stop_audio"
          /\ StopActors(IF main.audio THEN {"audio"} ELSE {}, "stop_mixer")
      BY <2>5 DEF StopAudio
    <3>2. (IF main.audio THEN {"audio"} ELSE {}) \in SUBSET Actors
      BY <2>0
    <3>. QED BY <1>3, <2>0, <3>1, <3>2
  <2>6. CASE StopMixer
    <3>1. main.at = "stop_mixer" /\ StopActors({"mixer"}, "stop_remaining")
      BY <2>6 DEF StopMixer
    <3>. QED BY <1>3, <2>0, <3>1
  <2>7. CASE StopRemaining
    <3>1. main.at = "stop_remaining" /\ StopActors(Actors, "ended")
      BY <2>7 DEF StopRemaining
    <3>2. Actors \in SUBSET Actors
      OBVIOUS
    <3>. QED BY <1>3, <2>0, <3>1, <3>2
  <2>. QED BY <1>4, <2>1, <2>2, <2>3, <2>4, <2>5, <2>6, <2>7 DEF MainStops
<1>. QED BY <1>2, <1>4 DEF MainActs

-----------------------------------------------------------------------------
(* The process. *)

\* A step of nobody.
LEMMA StutterStep ==
    ASSUME IInv, UNCHANGED vars
    PROVE  IInv'
<1>1. /\ status' = status /\ box' = box /\ answers' = answers /\ main' = main
      /\ mixerVars' = mixerVars /\ core' = core /\ web' = web /\ scripts' = scripts
  BY DEF vars, actorVars, serverVars, coreVars, httpVars
<1>. QED BY <1>1, WebStep, WebKept DEF IInv, TypeInv, actorVars

\* Every step keeps the invariant.
LEMMA NextKeepsIInv ==
    ASSUME IInv, [Next]_vars
    PROVE  IInv'
<1>1. CASE Signals /\ UNCHANGED <<mixerVars, coreVars, httpVars, appVars>>
  BY <1>1, InterruptStep, TerminateStep DEF Signals, coreVars, httpVars
<1>2. CASE Over
  BY <1>2, StutterStep DEF Over
<1>3. CASE UNCHANGED vars
  BY <1>3, StutterStep
<1>. QED
  BY <1>1, <1>2, <1>3, ConfigureStep, MainStep, AudioStep, MixerStep, CoreStep, BackendStep,
     HttpStep, WebThreadStep
  DEF Next

LEMMA InitGivesIInv == Init => IInv
<1>. SUFFICES ASSUME Init PROVE IInv
  OBVIOUS
<1>0. /\ {"mixer", "audio", "core", "http"} \subseteq Actors /\ Backends \subseteq Actors
      /\ "mixer" \in Askers /\ "core" \in Askers /\ Askers = {"main", "web", "core", "mixer"}
  BY DEF Actors, Askers
<1>1. /\ status = [a \in Actors |-> "none"] /\ box = [a \in Actors |-> << >>]
      /\ answers = [x \in Askers |-> NoAnswer] /\ main.at = "config" /\ main.mixer = FALSE
      /\ main \in MainType
  BY DEF Init, ActorsInit, ServerInit, MainType
<1>2. StaffInv
  <2>1. Post(box, answers)
    BY <1>1, EmptyFacts DEF Post, Questions, OneFrom
  <2>2. NobodyThere(box) /\ MainAsks(box)
    BY <1>1, EmptyFacts DEF NobodyThere, MainAsks, NoneFrom
  <2>3. NotStarted /\ IsMain
    BY <1>0, <1>1 DEF NotStarted, Early, IsMain, Statuses
  <2>. QED BY <2>1, <2>2, <2>3 DEF StaffInv, Mail
<1>3. TypeInv
  <2>1. IsWeb
    <3>1. /\ DOMAIN web = {"state", "callbacks", "clients", "job", "left"} /\ web.job = NoJob
          /\ scripts = setting.script
      BY DEF Init, HttpInit
    <3>2. /\ DOMAIN setting.script = Clients
          /\ \A c \in Clients :
                /\ IsSeq(setting.script[c])
                /\ \A step \in Range(setting.script[c]) :
                      step.do \in {"send", "post"} => IsCallable(step.message)
      BY ScriptsAssumption DEF Init, IsSeq
    <3>. QED BY <3>1, <3>2, GarbageFacts DEF IsWeb
  <2>2. IsMixer
    BY DEF Init, MixerInit, IsMixer, Unset
  <2>3. IsCore
    BY EmptyFacts DEF Init, CoreInit, IsCore
  <2>. QED BY <2>1, <2>2, <2>3 DEF TypeInv
<1>4. MixerInv
  <2>1. \A a \in Actors : box[a] = << >> /\ status[a] = "none"
    BY <1>1
  <2>2. MixerWaits
    BY <1>0, <1>1, <2>1, EmptyFacts, EmptyLacks DEF MixerWaits, IsFree, NoAnswer
  <2>3. Undisturbed
    BY <1>0, <2>1, EmptyLacks DEF Undisturbed
  <2>4. SetsArrive
    <3>1. ~mixer.setup /\ \A p \in Properties : mixer.initial[p] = wanted[p]
      BY DEF Init, MixerInit, Unset
    <3>. QED BY <1>0, <2>1, <3>1, EmptyLacks DEF SetsArrive
  <2>. QED BY <2>2, <2>3, <2>4 DEF MixerInv, StopsInTurn
<1>5. CoreInv
  <2>1. box["core"] = << >> /\ IsFree("core") /\ core.got = << >>
    BY <1>0, <1>1 DEF Init, CoreInit, IsFree, NoAnswer
  <2>. QED BY <2>1, EmptyFacts DEF CoreInv, CoreBusy, TeardownInTurn, SavesRight, IsSaving
<1>. QED BY <1>2, <1>3, <1>4, <1>5 DEF IInv

\* The invariant holds whatever happens: who sends what to whom, what is not
\* set yet, and what core was told.
LEMMA AlwaysIInv == Spec => []IInv
<1>. QED BY InitGivesIInv, NextKeepsIInv, PTL DEF Spec

\* Once all is quiet, the volume and mute that the mixer was last asked for is
\* what is heard: those of the configuration, of the restored state and of
\* clients, also when they come before audio is ready, in whatever order the
\* actors start and handle their messages (SoftwareMixer.setup, set_volume,
\* set_mute).
THEOREM AppHearsLastSet == Spec => []LastSetIsHeard
<1>1. ASSUME IInv PROVE LastSetIsHeard
  <2>. SUFFICES ASSUME IsQuiet, mixer.setup, NEW p \in Properties, wanted[p] # None
                PROVE  element[p] = wanted[p]
    BY DEF LastSetIsHeard
  <2>1. main.at = "loop" /\ box["audio"] = << >>
    BY Facts, <1>1 DEF IsQuiet
  <2>2. Undisturbed
    BY <1>1, <2>1 DEF IInv, MixerInv, StopsInTurn, Starting
  <2>3. Heard(box["audio"], p, element[p], wanted[p])
    BY <1>1, <2>2 DEF IInv, MixerInv, SetsArrive
  <2>. QED BY <2>1, <2>3, EmptyFacts, EmptyLacks, HeardIfNone
<1>. QED BY <1>1, AlwaysIInv, PTL

\* A state that is saved at the end has what was last set: when core is done
\* with its questions, both answers hold, and nothing has been set meanwhile.
LEMMA CoreSavesRight ==
    ASSUME IInv, NEW restore, CoreFinishes(restore), file' # file, main.mixer, core.ready,
           NEW p \in Properties, wanted[p] # None
    PROVE  file'[p] = wanted[p]
<1>0. IsSeq(core.got) /\ CoreInv
  BY Facts DEF IsCore
<1>1. /\ IsAJob /\ Left(restore) = << >> /\ restore /\ Job.type = "teardown"
      /\ file' = [Unset EXCEPT !["volume"] = core.got[1], !["mute"] = core.got[2]]
  BY DEF CoreFinishes
<1>2. box["core"] # << >>
  BY <1>1, HasAJob
<1>3. Len(core.got) \in Nat /\ Len(core.got) # 0 /\ Len(core.got) # 1
  <2>. DEFINE g(q) == Call("mixer", "get", Level(q, None))
              c == Calls(Job)
              n == Len(core.got) + 1
  <2>1. c = <<g("volume"), g("mute")>>
    BY <1>1 DEF Calls
  <2>. HIDE DEF g
  <2>2. c \in Seq({g("volume"), g("mute")}) /\ Len(c) = 2
    BY <2>1
  <2>3. Left(restore) = SubSeq(c, n, Len(c))
    BY <1>1 DEF Left
  <2>. HIDE DEF c
  <2>4. Len(core.got) \in Nat
    BY <1>0, SeqFacts
  <2>5. n \in Int /\ Len(SubSeq(c, n, 2)) = IF n <= 2 THEN 2 - n + 1 ELSE 0
    <3>1. n \in Nat \ {0} /\ \A i \in n .. 2 : i \in 1 .. 2
      BY <2>4
    <3>. HIDE DEF n
    <3>2. \A i \in n .. 2 : c[i] \in {g("volume"), g("mute")}
      BY <2>2, <3>1
    <3>. QED BY <3>1, <3>2, SubSeqProperties
  <2>6. SubSeq(c, n, 2) = << >>
    BY <1>1, <2>2, <2>3
  <2>7. ~(n <= 2)
    <3>1. \A k \in Int : k <= 2 => 2 - k + 1 # 0
      OBVIOUS
    <3>2. Len(<< >>) = 0
      OBVIOUS
    <3>. HIDE DEF n
    <3>. QED BY <2>5, <2>6, <3>1, <3>2
  <2>8. \A k \in Nat : ~(k + 1 <= 2) => k # 0 /\ k # 1
    OBVIOUS
  <2>. QED BY <2>4, <2>7, <2>8
<1>4. IsSaving
  <2>1. core.got # << >>
    BY <1>3
  <2>. QED BY <1>1, <1>2, <2>1 DEF IsSaving, Job
<1>5. ToldWhatHolds
  BY <1>0, <1>4 DEF CoreInv, SavesRight
<1>6. Len(core.got) = 2
  <2>1. Len(core.got) <= 2
    BY <1>5 DEF ToldWhatHolds
  <2>2. \A k \in Nat : k <= 2 /\ k # 0 /\ k # 1 => k = 2
    OBVIOUS
  <2>. QED BY <1>3, <2>1, <2>2
<1>7. Right(core.got[1], "volume") /\ Right(core.got[2], "mute")
  BY <1>5, <1>6 DEF ToldWhatHolds
<1>8. file'["volume"] = core.got[1] /\ file'["mute"] = core.got[2]
  BY <1>1 DEF Unset, Properties
<1>. QED BY <1>7, <1>8 DEF Right, Properties

\* The state that is saved at the end has the volume and mute that were last
\* asked for, if the mixer was ready: core asks for the one after the other, and
\* mixer and audio may still have something to set when it does
\* (MixerController._save_state).
THEOREM AppSavesWhatWasSet == Spec => SavesWhatWasSet
<1>1. ASSUME IInv, [Next]_vars, file' # file, file' # None, main.mixer, core.ready,
             NEW p \in Properties, wanted[p] # None
      PROVE  file'[p] = wanted[p]
  <2>1. CoreActs(Restores, main.mixer)
    <3>1. file' = file \/ CoreThread
      BY <1>1 DEF Next, vars, Configure, MainActs, coreVars, AudioThread, MixerThread, CoreThread,
                  BackendThread, HttpThread, WebThread, ClientsAct, Over
    <3>. QED BY <1>1, <3>1 DEF CoreThread
  <2>2. CoreFinishes(Restores)
    BY <1>1, <2>1 DEF CoreActs, CoreLoads, CoreAsks, CoreGets, CoreRefuses, CoreForwards, CoreStops, coreVars
  <2>. QED BY <1>1, <2>2, CoreSavesRight
<1>2. ASSUME IInv, [Next]_vars
      PROVE  [file' # file /\ file' # None /\ main.mixer /\ core.ready
                => \A p \in Properties : wanted[p] # None => file'[p] = wanted[p]]_vars
  BY <1>1, <1>2
<1>. QED BY <1>2, AlwaysIInv, PTL DEF Spec, SavesWhatWasSet
=============================================================================
