------------------------------- MODULE WebProofs -------------------------------
(***************************************************************************)
(* Proofs about the clients: in the end each with a WebSocket knows what   *)
(* is real, whenever it came and whatever was set meanwhile, and each      *)
(* message is answered in full and with what holds.                        *)
(***************************************************************************)
EXTENDS AppProofs, SeqLemmas, FiniteSetTheorems

-----------------------------------------------------------------------------
(* What is under way about a property. *)

TellsOf(m, p) == m.type = "changed" /\ m.arg.property = p

\* The last that is told of p is that it has that level.
LastTold(b, p, level) ==
    \E i \in DOMAIN b :
        /\ TellsOf(b[i], p) /\ b[i].arg.level = level
        /\ \A j \in DOMAIN b : j > i => ~TellsOf(b[j], p)

NoneTold(b, p) == \A i \in DOMAIN b : ~TellsOf(b[i], p)

\* From the mixer by core to the frontend.
IsUnderWay(bx, p, level) ==
    \/ LastTold(bx["mixer"], p, level)
    \/ NoneTold(bx["mixer"], p) /\ LastTold(bx["core"], p, level)
    \/ NoneTold(bx["mixer"], p) /\ NoneTold(bx["core"], p) /\ LastTold(bx["http"], p, level)

NoneUnderWay(bx, p) ==
    NoneTold(bx["mixer"], p) /\ NoneTold(bx["core"], p) /\ NoneTold(bx["http"], p)

\* The same of callbacks for client c.
IsFor(callback, c, p) == callback = <<c, p, callback[3]>>

LastCall(calls, c, p, level) ==
    \E i \in DOMAIN calls :
        /\ IsFor(calls[i], c, p) /\ calls[i][3] = level
        /\ \A j \in DOMAIN calls : j > i => ~IsFor(calls[j], c, p)

NoCall(calls, c, p) == \A i \in DOMAIN calls : ~IsFor(calls[i], c, p)

\* After all callbacks, c is told that p has that level.
EndsWith(calls, c, p, now, level) ==
    LastCall(calls, c, p, level) \/ (NoCall(calls, c, p) /\ now = level)

LEMMA ToldAppend ==
    ASSUME NEW b, IsSeq(b), NEW m, NEW p, NEW level
    PROVE  /\ TellsOf(m, p) /\ m.arg.level = level => LastTold(Append(b, m), p, level)
           /\ ~TellsOf(m, p) => /\ LastTold(b, p, level) => LastTold(Append(b, m), p, level)
                                /\ NoneTold(b, p) => NoneTold(Append(b, m), p)
<1>. DEFINE t == Append(b, m)
            n == Len(b) + 1
<1>1. /\ DOMAIN b = 1 .. Len(b) /\ DOMAIN t = 1 .. n /\ t[n] = m /\ Len(b) \in Nat
      /\ \A i \in 1 .. Len(b) : t[i] = b[i]
  BY AppendFacts
<1>. HIDE DEF t
<1>2. \A i \in DOMAIN t : (i \in DOMAIN b /\ t[i] = b[i]) \/ (i = n /\ t[i] = m)
  BY <1>1
<1>3. n \in DOMAIN t /\ \A j \in DOMAIN t : ~(j > n)
  BY <1>1
<1>4. \A i \in DOMAIN b : i \in DOMAIN t /\ t[i] = b[i]
  BY <1>1
<1>5. TellsOf(m, p) /\ m.arg.level = level => LastTold(t, p, level)
  BY <1>1, <1>3 DEF LastTold
<1>6. ASSUME ~TellsOf(m, p), LastTold(b, p, level) PROVE LastTold(t, p, level)
  <2>1. PICK i \in DOMAIN b : /\ TellsOf(b[i], p) /\ b[i].arg.level = level
                              /\ \A j \in DOMAIN b : j > i => ~TellsOf(b[j], p)
    BY <1>6 DEF LastTold
  <2>2. \A j \in DOMAIN t : j > i => ~TellsOf(t[j], p)
    BY <1>2, <1>6, <2>1
  <2>3. i \in DOMAIN t /\ TellsOf(t[i], p) /\ t[i].arg.level = level
    BY <1>4, <2>1
  <2>. QED BY <2>2, <2>3 DEF LastTold
<1>7. ~TellsOf(m, p) /\ NoneTold(b, p) => NoneTold(t, p)
  BY <1>2 DEF NoneTold
<1>. QED BY <1>5, <1>6, <1>7 DEF t

LEMMA ToldTail ==
    ASSUME NEW b, IsSeq(b), b # << >>, NEW p, NEW level
    PROVE  /\ LastTold(b, p, level) =>
                 \/ LastTold(Tail(b), p, level)
                 \/ NoneTold(Tail(b), p) /\ TellsOf(Head(b), p) /\ Head(b).arg.level = level
           /\ NoneTold(b, p) => NoneTold(Tail(b), p) /\ ~TellsOf(Head(b), p)
<1>. DEFINE t == Tail(b)
<1>1. /\ Head(b) = b[1] /\ Len(b) \in Nat \ {0} /\ DOMAIN b = 1 .. Len(b)
      /\ DOMAIN t = 1 .. Len(b) - 1 /\ \A i \in 1 .. Len(b) - 1 : t[i] = b[i + 1]
  BY TailFacts
<1>. HIDE DEF t
<1>2. \A i \in DOMAIN t : i \in Int /\ i + 1 \in DOMAIN b /\ i + 1 > 1 /\ t[i] = b[i + 1]
  BY <1>1
<1>3. 1 \in DOMAIN b /\ \A i \in DOMAIN b : i # 1 => i - 1 \in DOMAIN t /\ b[i] = t[i - 1]
  BY <1>1
<1>4. ASSUME LastTold(b, p, level)
      PROVE  \/ LastTold(t, p, level)
             \/ NoneTold(t, p) /\ TellsOf(Head(b), p) /\ Head(b).arg.level = level
  <2>1. PICK i \in DOMAIN b : /\ TellsOf(b[i], p) /\ b[i].arg.level = level
                              /\ \A j \in DOMAIN b : j > i => ~TellsOf(b[j], p)
    BY <1>4 DEF LastTold
  <2>2. CASE i = 1
    <3>1. \A j \in DOMAIN t : ~TellsOf(t[j], p)
      BY <1>2, <2>1, <2>2
    <3>. QED BY <1>1, <2>1, <2>2, <3>1 DEF NoneTold
  <2>3. CASE i # 1
    <3>1. i - 1 \in DOMAIN t /\ TellsOf(t[i - 1], p) /\ t[i - 1].arg.level = level /\ i \in Int
      BY <1>1, <1>3, <2>1, <2>3
    <3>2. \A j \in DOMAIN t : j > i - 1 => ~TellsOf(t[j], p)
      BY <1>2, <2>1, <3>1
    <3>. QED BY <3>1, <3>2 DEF LastTold
  <2>. QED BY <2>2, <2>3
<1>5. ASSUME NoneTold(b, p) PROVE NoneTold(t, p) /\ ~TellsOf(Head(b), p)
  BY <1>1, <1>2, <1>3, <1>5 DEF NoneTold
<1>. QED BY <1>4, <1>5 DEF t

\* Callbacks, which are handled from the head, and added several at a time.
LEMMA CallTail ==
    ASSUME NEW b, IsSeq(b), b # << >>, NEW c, NEW p, NEW level
    PROVE  /\ LastCall(b, c, p, level) =>
                 \/ LastCall(Tail(b), c, p, level)
                 \/ NoCall(Tail(b), c, p) /\ IsFor(Head(b), c, p) /\ Head(b)[3] = level
           /\ NoCall(b, c, p) => NoCall(Tail(b), c, p) /\ ~IsFor(Head(b), c, p)
<1>. DEFINE t == Tail(b)
<1>1. /\ Head(b) = b[1] /\ Len(b) \in Nat \ {0} /\ DOMAIN b = 1 .. Len(b)
      /\ DOMAIN t = 1 .. Len(b) - 1 /\ \A i \in 1 .. Len(b) - 1 : t[i] = b[i + 1]
  BY TailFacts
<1>. HIDE DEF t
<1>2. \A i \in DOMAIN t : i \in Int /\ i + 1 \in DOMAIN b /\ i + 1 > 1 /\ t[i] = b[i + 1]
  BY <1>1
<1>3. 1 \in DOMAIN b /\ \A i \in DOMAIN b : i # 1 => i - 1 \in DOMAIN t /\ b[i] = t[i - 1]
  BY <1>1
<1>4. ASSUME LastCall(b, c, p, level)
      PROVE  \/ LastCall(t, c, p, level)
             \/ NoCall(t, c, p) /\ IsFor(Head(b), c, p) /\ Head(b)[3] = level
  <2>1. PICK i \in DOMAIN b : /\ IsFor(b[i], c, p) /\ b[i][3] = level
                              /\ \A j \in DOMAIN b : j > i => ~IsFor(b[j], c, p)
    BY <1>4 DEF LastCall
  <2>2. CASE i = 1
    <3>1. \A j \in DOMAIN t : ~IsFor(t[j], c, p)
      BY <1>2, <2>1, <2>2
    <3>. QED BY <1>1, <2>1, <2>2, <3>1 DEF NoCall
  <2>3. CASE i # 1
    <3>1. i - 1 \in DOMAIN t /\ IsFor(t[i - 1], c, p) /\ t[i - 1][3] = level /\ i \in Int
      BY <1>1, <1>3, <2>1, <2>3
    <3>2. \A j \in DOMAIN t : j > i - 1 => ~IsFor(t[j], c, p)
      BY <1>2, <2>1, <3>1
    <3>. QED BY <3>1, <3>2 DEF LastCall
  <2>. QED BY <2>2, <2>3
<1>5. ASSUME NoCall(b, c, p) PROVE NoCall(t, c, p) /\ ~IsFor(Head(b), c, p)
  BY <1>1, <1>2, <1>3, <1>5 DEF NoCall
<1>. QED BY <1>4, <1>5 DEF t

\* Of some callbacks that are for c and p one is the last.
LEMMA LastCallExists ==
    ASSUME NEW b, IsSeq(b), NEW c, NEW p, ~NoCall(b, c, p)
    PROVE  \E i \in DOMAIN b : /\ IsFor(b[i], c, p)
                               /\ \A j \in DOMAIN b : j > i => ~IsFor(b[j], c, p)
<1>. DEFINE n == Len(b)
            J == {n - i : i \in {k \in 1 .. n : IsFor(b[k], c, p)}}
<1>1. n \in Nat /\ DOMAIN b = 1 .. n
  BY SeqFacts
<1>. HIDE DEF n
<1>2. J \subseteq Nat
  BY <1>1
<1>3. J # {}
  BY <1>1 DEF NoCall
<1>4. PICK d \in J : \A k \in J : d <= k
  BY <1>2, <1>3, LeastExists
<1>5. PICK i \in 1 .. n : IsFor(b[i], c, p) /\ d = n - i
  BY <1>4
<1>6. ASSUME NEW j \in 1 .. n, j > i PROVE ~IsFor(b[j], c, p)
  <2>1. n - j < n - i
    BY <1>1, <1>6
  <2>2. ~(d <= n - j)
    BY <1>1, <1>5, <2>1
  <2>3. n - j \notin J
    BY <1>4, <2>2
  <2>. QED BY <2>3
<1>. QED BY <1>1, <1>5, <1>6

\* More callbacks, all with the same level.
LEMMA CallsAdded ==
    ASSUME NEW b, IsSeq(b), NEW d, IsSeq(d), NEW c, NEW p, NEW level,
           \A x \in Range(d) : IsFor(x, c, p) => x[3] = level, NEW t, t = b \o d
    PROVE  /\ IsSeq(t) /\ Range(t) = Range(b) \union Range(d)
           /\ ~NoCall(d, c, p) => LastCall(t, c, p, level)
           /\ NoCall(d, c, p) => /\ \A l : LastCall(b, c, p, l) => LastCall(t, c, p, l)
                                 /\ NoCall(b, c, p) => NoCall(t, c, p)
<1>. DEFINE n == Len(b)
            k == Len(d)
            X == Range(b) \union Range(d)
<1>1. /\ t \in Seq(X) /\ Len(t) = n + k /\ n \in Nat /\ k \in Nat
      /\ DOMAIN b = 1 .. n /\ DOMAIN d = 1 .. k /\ DOMAIN t = 1 .. n + k
      /\ \A i \in 1 .. n + k : t[i] = IF i <= n THEN b[i] ELSE d[i - n]
  <2>1. b \in Seq(X) /\ d \in Seq(X)
    BY SeqMonotonic DEF IsSeq
  <2>. HIDE DEF X
  <2>2. t \in Seq(X) /\ Len(t) = n + k /\ \A i \in 1 .. n + k : t[i] = IF i <= n THEN b[i] ELSE d[i - n]
    BY <2>1, ConcatProperties
  <2>. QED BY <2>1, <2>2, LenProperties
<1>. HIDE DEF n, k
<1>2. /\ \A i \in 1 .. n : i \in 1 .. n + k /\ t[i] = b[i]
      /\ \A i \in 1 .. k : n + i \in 1 .. n + k /\ t[n + i] = d[i]
      /\ \A i \in 1 .. n + k : i \in 1 .. n \/ (i - n \in 1 .. k /\ i = n + (i - n))
  BY <1>1
<1>3. IsSeq(t)
  BY <1>1, IsSeqIn
<1>4. Range(t) = X
  <2>1. ASSUME NEW x \in X PROVE x \in Range(t)
    <3>1. CASE x \in Range(b)
      <4>1. PICK i \in 1 .. n : x = b[i]
        BY <1>1, <3>1 DEF Range
      <4>. QED BY <1>1, <1>2, <4>1 DEF Range
    <3>2. CASE x \in Range(d)
      <4>1. PICK i \in 1 .. k : x = d[i]
        BY <1>1, <3>2 DEF Range
      <4>2. n + i \in DOMAIN t /\ t[n + i] = x
        BY <1>1, <1>2, <4>1
      <4>. QED BY <4>2 DEF Range
    <3>. QED BY <3>1, <3>2
  <2>2. ASSUME NEW x \in Range(t) PROVE x \in X
    BY <1>1, <1>2 DEF Range
  <2>. QED BY <2>1, <2>2
<1>5. ASSUME ~NoCall(d, c, p) PROVE LastCall(t, c, p, level)
  <2>1. PICK i \in 1 .. k : /\ IsFor(d[i], c, p)
                            /\ \A j \in 1 .. k : j > i => ~IsFor(d[j], c, p)
    BY <1>1, <1>5, LastCallExists
  <2>2. d[i][3] = level
    BY <1>1, <2>1 DEF Range
  <2>3. ASSUME NEW j \in 1 .. n + k, j > n + i PROVE ~IsFor(t[j], c, p)
    <3>1. j - n \in 1 .. k /\ j - n > i /\ t[j] = d[j - n]
      BY <1>1, <2>3
    <3>. QED BY <2>1, <3>1
  <2>4. n + i \in 1 .. n + k /\ t[n + i] = d[i]
    BY <1>2
  <2>. QED BY <1>1, <2>1, <2>2, <2>3, <2>4 DEF LastCall
<1>6. ASSUME NoCall(d, c, p), NEW l, LastCall(b, c, p, l) PROVE LastCall(t, c, p, l)
  <2>1. PICK i \in 1 .. n : /\ IsFor(b[i], c, p) /\ b[i][3] = l
                            /\ \A j \in 1 .. n : j > i => ~IsFor(b[j], c, p)
    BY <1>1, <1>6 DEF LastCall
  <2>2. ASSUME NEW j \in 1 .. n + k, j > i PROVE ~IsFor(t[j], c, p)
    <3>1. CASE j \in 1 .. n
      BY <1>2, <2>1, <2>2, <3>1
    <3>2. CASE j - n \in 1 .. k /\ j = n + (j - n)
      <4>1. t[n + (j - n)] = d[j - n]
        BY <1>2, <3>2
      <4>2. ~IsFor(d[j - n], c, p)
        BY <1>1, <1>6, <3>2 DEF NoCall
      <4>. QED BY <3>2, <4>1, <4>2
    <3>. QED BY <1>2, <3>1, <3>2
  <2>. QED BY <1>1, <1>2, <2>1, <2>2 DEF LastCall
<1>7. ASSUME NoCall(d, c, p), NoCall(b, c, p) PROVE NoCall(t, c, p)
  BY <1>1, <1>2, <1>7 DEF NoCall
<1>. QED BY <1>3, <1>4, <1>5, <1>6, <1>7

\* A finite set as a sequence.
LEMMA SetInSeq ==
    ASSUME NEW S, IsFiniteSet(S)
    PROVE  IsSeq(SetToSeq(S)) /\ Range(SetToSeq(S)) = S
<1>. DEFINE n == Cardinality(S)
            f == SetToSeq(S)
<1>1. n \in Nat /\ ExistsBijection(1 .. n, S)
  BY FS_CardinalityType
<1>2. \E g \in [1 .. n -> S] : IsInjective(g)
  BY <1>1 DEF ExistsBijection, Bijection, Injection
<1>3. f \in [1 .. n -> S] /\ IsInjective(f)
  BY <1>2, Zenon DEF SetToSeq
<1>. HIDE DEF f
<1>4. f \in Injection(1 .. n, S)
  BY <1>3 DEF Injection
<1>5. IsFiniteSet(1 .. n) /\ Cardinality(1 .. n) = n
  BY <1>1, FS_Interval
<1>6. f \in Surjection(1 .. n, S)
  BY <1>4, <1>5, FS_Injection
<1>7. Range(f) = S
  BY <1>3, <1>6 DEF Surjection, Range
<1>8. f \in Seq(S)
  BY <1>1, <1>3, SeqDef
<1>. QED BY <1>7, <1>8, IsSeqIn DEF f
-----------------------------------------------------------------------------
(* The invariant: what is real is on its way to each client, or told. *)

BeforeStop == main.at \in Starting \union {"config"}

\* Core and the frontend are there to hand on what is told, once clients listen.
StaysUp ==
    /\ \A a \in {"core", "http"} : status[a] # "stopped" /\ Lacks(box[a], "stop")
    /\ main.at \in {"setup", "frontends", "loop"} => status["core"] = "running"
    /\ status["http"] # "none" => main.at = "loop"
    /\ web.state \in {"none", "starting", "serving"}
    /\ web.state # "none" => status["http"] = "running"

Listeners ==
    /\ web.clients = open /\ open \subseteq Clients /\ IsFiniteSet(open)
    /\ open # {} => web.state = "serving"
    /\ IsSeq(web.callbacks) /\ \A x \in Range(web.callbacks) : x = <<x[1], x[2], x[3]>>
    /\ DOMAIN told = Clients

IsLevels(f) == f = [p \in Properties |-> f[p]]

\* Nothing is under way to a client that is still to open.
Openings ==
    \A c \in Clients :
        /\ OpensOnce(scripts[c])
        /\ (\E i \in DOMAIN scripts[c] : scripts[c][i].do = "open") =>
              c \notin open /\ \A p \in Properties : NoCall(web.callbacks, c, p)

IsTold(c, p) ==
    \/ IsUnderWay(box, p, element[p])
    \/ NoneUnderWay(box, p) /\ EndsWith(web.callbacks, c, p, told[c][p], element[p])

ToldInTheEnd ==
    /\ IsLevels(element) /\ \A c \in Clients : IsLevels(told[c])
    /\ \A p \in Properties :
          /\ IsUnderWay(box, p, element[p]) \/ NoneUnderWay(box, p)
          /\ \A c \in open : IsTold(c, p)

TellInv == BeforeStop => StaysUp /\ Listeners /\ Openings /\ ToldInTheEnd

-----------------------------------------------------------------------------
(* Messages that tell nothing. *)

SameTold(b, d) ==
    \A p : /\ NoneTold(b, p) => NoneTold(d, p)
           /\ \A level : LastTold(b, p, level) => LastTold(d, p, level)

\* Mailbox b becomes d.
Quietly(b, d) == SameTold(b, d) /\ (Lacks(b, "stop") => Lacks(d, "stop"))

LEMMA QuietSame ==
    ASSUME NEW b
    PROVE  Quietly(b, b)
BY DEF Quietly, SameTold

LEMMA QuietAppend ==
    ASSUME NEW b, IsSeq(b), NEW m, m.type \notin {"changed", "stop"}
    PROVE  Quietly(b, Append(b, m))
<1>1. Lacks(b, "stop") => Lacks(Append(b, m), "stop")
  BY LacksFacts
<1>2. \A p : ~TellsOf(m, p)
  BY DEF TellsOf
<1>3. SameTold(b, Append(b, m))
  BY <1>2, ToldAppend DEF SameTold
<1>. QED BY <1>1, <1>3 DEF Quietly

LEMMA QuietTail ==
    ASSUME NEW b, IsSeq(b), b # << >>, Head(b).type # "changed"
    PROVE  Quietly(b, Tail(b))
<1>1. Lacks(b, "stop") => Lacks(Tail(b), "stop")
  BY LacksFacts
<1>2. \A p : ~TellsOf(Head(b), p)
  BY DEF TellsOf
<1>3. SameTold(b, Tail(b))
  BY <1>2, ToldTail DEF SameTold
<1>. QED BY <1>1, <1>3 DEF Quietly

LEMMA NothingTold ==
    ASSUME NEW p
    PROVE  NoneTold(<< >>, p) /\ \A level : ~LastTold(<< >>, p, level)
BY EmptyFacts DEF NoneTold, LastTold

LEMMA QuietFirst ==
    ASSUME NEW m, m.type \notin {"changed", "stop"}, NEW b, b = << >>, NEW d, d = <<m>>
    PROVE  Quietly(b, d)
<1>1. \A p : NoneTold(d, p)
  BY OneFacts DEF NoneTold, TellsOf
<1>2. Lacks(d, "stop")
  BY OneFacts DEF Lacks
<1>. QED BY <1>1, <1>2, NothingTold DEF Quietly, SameTold

LEMMA QuietPut ==
    ASSUME Post(box, answers), NEW a \in Actors, NEW m, m.type \notin {"changed", "stop"},
           NEW b \in Actors
    PROVE  Quietly(box[b], Put(box, a, m)[b])
<1>1. DOMAIN box = Actors /\ IsSeq(box[b])
  BY DEF Post
<1>2. Put(box, a, m)[b] = box[b] \/ Put(box, a, m)[b] = Append(box[b], m)
  BY <1>1 DEF Put
<1>. QED BY <1>1, <1>2, QuietSame, QuietAppend

LEMMA QuietTaken ==
    ASSUME Post(box, answers), NEW a \in Actors, box[a] # << >>, Head(box[a]).type # "changed",
           NEW b \in Actors
    PROVE  Quietly(box[b], Taken(a)[b])
<1>1. DOMAIN box = Actors /\ IsSeq(box[b])
  BY DEF Post
<1>2. Taken(a)[b] = IF b = a THEN Tail(box[b]) ELSE box[b]
  BY <1>1, TakenBox
<1>. QED BY <1>1, <1>2, QuietSame, QuietTail

Relays == {"mixer", "core", "http"}

LEMMA RelaysAreActors == Relays \subseteq Actors /\ "audio" \in Actors /\ "audio" \notin Relays
BY DEF Relays, Actors

LEMMA UnderWayKept ==
    ASSUME \A a \in Relays : SameTold(box[a], box'[a]), NEW p
    PROVE  /\ NoneUnderWay(box, p) => NoneUnderWay(box', p)
           /\ \A level : IsUnderWay(box, p, level) => IsUnderWay(box', p, level)
BY DEF SameTold, Relays, NoneUnderWay, IsUnderWay

\* What stays as it is for the clients.
ClientView == <<web.state, web.clients, web.callbacks, scripts, open, told, element>>

LEMMA ListenersSame ==
    ASSUME Listeners, Openings, UNCHANGED ClientView
    PROVE  Listeners' /\ Openings'
BY DEF Listeners, Openings, ClientView

LEMMA PathKept ==
    ASSUME ToldInTheEnd, UNCHANGED ClientView,
           \A p \in Properties :
              /\ NoneUnderWay(box, p) => NoneUnderWay(box', p)
              /\ IsUnderWay(box, p, element[p]) =>
                    IsUnderWay(box', p, element[p]) \/ (open = {} /\ NoneUnderWay(box', p))
    PROVE  ToldInTheEnd'
<1>. USE DEF ClientView
<1>1. IsLevels(element)' /\ \A c \in Clients : IsLevels(told[c])'
  BY DEF ToldInTheEnd, IsLevels
<1>2. ASSUME NEW p \in Properties
      PROVE  (IsUnderWay(box, p, element[p]) \/ NoneUnderWay(box, p))'
  BY <1>2 DEF ToldInTheEnd
<1>3. ASSUME NEW p \in Properties, NEW c \in open PROVE IsTold(c, p)'
  BY <1>3 DEF ToldInTheEnd, IsTold
<1>. QED BY <1>1, <1>2, <1>3 DEF ToldInTheEnd

LEMMA StaysUpKept ==
    ASSUME StaysUp, main' = main, web'.state = web.state,
           \A a \in {"core", "http"} :
              status'[a] = status[a] /\ (Lacks(box[a], "stop") => Lacks(box'[a], "stop"))
    PROVE  StaysUp'
BY DEF StaysUp

\* A step of the actors that tells nothing of the levels.
LEMMA QuietStep ==
    ASSUME TellInv, main' = main, UNCHANGED ClientView,
           \A a \in {"core", "http"} : status'[a] = status[a],
           \A a \in Relays : Quietly(box[a], box'[a])
    PROVE  TellInv'
<1>. SUFFICES ASSUME BeforeStop PROVE StaysUp' /\ Listeners' /\ Openings' /\ ToldInTheEnd'
  BY DEF TellInv, BeforeStop
<1>1. web'.state = web.state
  BY DEF ClientView
<1>2. StaysUp'
  BY <1>1, StaysUpKept DEF TellInv, Quietly, Relays
<1>3. ToldInTheEnd'
  BY UnderWayKept, PathKept DEF TellInv, Quietly
<1>. QED BY <1>2, <1>3, ListenersSame DEF TellInv
-----------------------------------------------------------------------------
(* What is told of a level goes on to the next mailbox. *)

LEMMA Handover ==
    ASSUME NEW b, IsSeq(b), b # << >>, NEW d, IsSeq(d), NEW p, NEW level
    PROVE  /\ LastTold(b, p, level) \/ (NoneTold(b, p) /\ LastTold(d, p, level)) =>
                 \/ LastTold(Tail(b), p, level)
                 \/ NoneTold(Tail(b), p) /\ LastTold(Append(d, Head(b)), p, level)
           /\ NoneTold(b, p) =>
                 NoneTold(Tail(b), p) /\ (NoneTold(d, p) => NoneTold(Append(d, Head(b)), p))
<1>. DEFINE h == Head(b)
            t == Tail(b)
            e == Append(d, h)
<1>1. /\ LastTold(b, p, level) =>
            LastTold(t, p, level) \/ (NoneTold(t, p) /\ TellsOf(h, p) /\ h.arg.level = level)
      /\ NoneTold(b, p) => NoneTold(t, p) /\ ~TellsOf(h, p)
  BY ToldTail
<1>2. /\ TellsOf(h, p) /\ h.arg.level = level => LastTold(e, p, level)
      /\ ~TellsOf(h, p) => /\ LastTold(d, p, level) => LastTold(e, p, level)
                           /\ NoneTold(d, p) => NoneTold(e, p)
  BY ToldAppend
<1>. HIDE DEF h, t, e
<1>3. /\ LastTold(b, p, level) \/ (NoneTold(b, p) /\ LastTold(d, p, level)) =>
            LastTold(t, p, level) \/ (NoneTold(t, p) /\ LastTold(e, p, level))
      /\ NoneTold(b, p) => NoneTold(t, p) /\ (NoneTold(d, p) => NoneTold(e, p))
  BY <1>1, <1>2
<1>. QED BY <1>3 DEF h, t, e

\* Who is not up yet has nobody listening behind it.
LEMMA NobodyListens ==
    ASSUME StaffInv, StaysUp, Listeners, NEW a \in {"core", "http"}, ~IsUp(a)
    PROVE  open = {} /\ box[a] = << >> /\ box["http"] = << >>
<1>1. {"core", "http"} \subseteq Actors
  BY DEF Actors
<1>2. status["http"] # "running" /\ ~IsUp("http")
  BY DEF StaysUp, IsUp
<1>. QED BY <1>1, <1>2 DEF Listeners, StaysUp, StaffInv, Mail, NobodyThere

LEMMA MixerTellsOn ==
    ASSUME IInv, TellInv, MixerTells, main' = main, httpVars' = httpVars
    PROVE  TellInv'
<1>. SUFFICES ASSUME BeforeStop PROVE StaysUp' /\ Listeners' /\ Openings' /\ ToldInTheEnd'
  BY DEF TellInv, BeforeStop
<1>0. /\ StaffInv /\ Post(box, answers) /\ DOMAIN box = Actors /\ Relays \subseteq Actors
      /\ IsSeq(box["mixer"]) /\ IsSeq(box["core"])
      /\ StaysUp /\ Listeners /\ Openings /\ ToldInTheEnd
  BY RelaysAreActors DEF IInv, StaffInv, Mail, Post, TellInv, Relays
<1>. DEFINE b == box["mixer"]
            d == box["core"]
<1>1. b # << >> /\ Head(b).type = "changed" /\ "mixer" \in Actors /\ "core" \in Actors /\ "http" \in Actors
  BY <1>0, HandlesFacts DEF MixerTells, Relays
<1>2. /\ UNCHANGED ClientView /\ web' = web /\ status' = status
      /\ box' = Put(Taken("mixer"), "core", Head(b))
  BY DEF MixerTells, ClientView, httpVars, mixerVars
<1>3. DOMAIN Taken("mixer") = Actors
  BY <1>0, <1>1, TakenBox
<1>4. /\ box'["mixer"] = Tail(b) /\ box'["http"] = box["http"]
      /\ box'["core"] = IF IsUp("core") THEN Append(d, Head(b)) ELSE d
  BY <1>0, <1>1, <1>2, <1>3, PutBox, TakenBox
<1>5. StaysUp'
  <2>1. Lacks(d, "stop") => Lacks(Append(d, Head(b)), "stop")
    BY <1>0, <1>1, LacksFacts
  <2>. QED BY <1>0, <1>2, <1>4, <2>1, StaysUpKept
<1>6. ASSUME NEW p \in Properties
      PROVE  /\ NoneUnderWay(box, p) => NoneUnderWay(box', p)
             /\ IsUnderWay(box, p, element[p]) =>
                   IsUnderWay(box', p, element[p]) \/ (open = {} /\ NoneUnderWay(box', p))
  <2>. DEFINE l == element[p]
              e == Append(d, Head(b))
              t == Tail(b)
  <2>1. /\ LastTold(b, p, l) \/ (NoneTold(b, p) /\ LastTold(d, p, l)) =>
              LastTold(t, p, l) \/ (NoneTold(t, p) /\ LastTold(e, p, l))
        /\ NoneTold(b, p) => NoneTold(t, p) /\ (NoneTold(d, p) => NoneTold(e, p))
    BY <1>0, <1>1, Handover
  <2>2. CASE IsUp("core")
    <3>1. box'["mixer"] = t /\ box'["core"] = e /\ box'["http"] = box["http"]
      BY <1>4, <2>2
    <3>. HIDE DEF b, d, e, t, l
    <3>2. /\ NoneUnderWay(box, p) => NoneUnderWay(box', p)
          /\ IsUnderWay(box, p, l) => IsUnderWay(box', p, l)
      BY <2>1, <3>1 DEF NoneUnderWay, IsUnderWay, b, d
    <3>. QED BY <3>2 DEF l
  <2>3. CASE ~IsUp("core")
    <3>1. box'["mixer"] = t /\ box'["core"] = << >> /\ box'["http"] = << >> /\ open = {}
          /\ d = << >> /\ box["http"] = << >>
      BY <1>0, <1>4, <2>3, NobodyListens
    <3>2. /\ LastTold(b, p, l) => LastTold(t, p, l) \/ NoneTold(t, p)
      BY <1>0, <1>1, ToldTail
    <3>. HIDE DEF b, d, t, l
    <3>3. /\ NoneUnderWay(box, p) => NoneUnderWay(box', p)
          /\ IsUnderWay(box, p, l) => IsUnderWay(box', p, l) \/ NoneUnderWay(box', p)
      BY <2>1, <3>1, <3>2, NothingTold DEF NoneUnderWay, IsUnderWay, b, d
    <3>. QED BY <3>1, <3>3 DEF l
  <2>. QED BY <2>2, <2>3
<1>7. ToldInTheEnd'
  BY <1>0, <1>2, <1>6, PathKept
<1>. QED BY <1>0, <1>2, <1>5, <1>7, ListenersSame

LEMMA CoreTellsOn ==
    ASSUME IInv, TellInv, CoreForwards, main' = main, httpVars' = httpVars
    PROVE  TellInv'
<1>. SUFFICES ASSUME BeforeStop PROVE StaysUp' /\ Listeners' /\ Openings' /\ ToldInTheEnd'
  BY DEF TellInv, BeforeStop
<1>0. /\ StaffInv /\ Post(box, answers) /\ DOMAIN box = Actors /\ Relays \subseteq Actors
      /\ IsSeq(box["http"]) /\ IsSeq(box["core"])
      /\ StaysUp /\ Listeners /\ Openings /\ ToldInTheEnd
  BY RelaysAreActors DEF IInv, StaffInv, Mail, Post, TellInv, Relays
<1>. DEFINE b == box["core"]
            d == box["http"]
<1>1. b # << >> /\ Head(b).type = "changed" /\ "mixer" \in Actors /\ "core" \in Actors /\ "http" \in Actors
  BY <1>0, HandlesFacts DEF CoreForwards, Relays
<1>2. /\ UNCHANGED ClientView /\ web' = web /\ status' = status
      /\ box' = Put(Taken("core"), "http", Head(b))
  BY DEF CoreForwards, ClientView, httpVars, mixerVars, Job
<1>3. DOMAIN Taken("core") = Actors
  BY <1>0, <1>1, TakenBox
<1>4. /\ box'["core"] = Tail(b) /\ box'["mixer"] = box["mixer"]
      /\ box'["http"] = IF IsUp("http") THEN Append(d, Head(b)) ELSE d
  BY <1>0, <1>1, <1>2, <1>3, PutBox, TakenBox
<1>5. StaysUp'
  <2>1. Lacks(d, "stop") => Lacks(Append(d, Head(b)), "stop")
    BY <1>0, <1>1, LacksFacts
  <2>2. Lacks(b, "stop") => Lacks(Tail(b), "stop")
    BY <1>0, <1>1, LacksFacts
  <2>. QED BY <1>0, <1>2, <1>4, <2>1, <2>2, StaysUpKept
<1>6. ASSUME NEW p \in Properties
      PROVE  /\ NoneUnderWay(box, p) => NoneUnderWay(box', p)
             /\ IsUnderWay(box, p, element[p]) =>
                   IsUnderWay(box', p, element[p]) \/ (open = {} /\ NoneUnderWay(box', p))
  <2>. DEFINE l == element[p]
              e == Append(d, Head(b))
              t == Tail(b)
  <2>1. /\ LastTold(b, p, l) \/ (NoneTold(b, p) /\ LastTold(d, p, l)) =>
              LastTold(t, p, l) \/ (NoneTold(t, p) /\ LastTold(e, p, l))
        /\ NoneTold(b, p) => NoneTold(t, p) /\ (NoneTold(d, p) => NoneTold(e, p))
    BY <1>0, <1>1, Handover
  <2>2. CASE IsUp("http")
    <3>1. box'["core"] = t /\ box'["http"] = e /\ box'["mixer"] = box["mixer"]
      BY <1>4, <2>2
    <3>. HIDE DEF b, d, e, t, l
    <3>2. /\ NoneUnderWay(box, p) => NoneUnderWay(box', p)
          /\ IsUnderWay(box, p, l) => IsUnderWay(box', p, l)
      BY <2>1, <3>1 DEF NoneUnderWay, IsUnderWay, b, d
    <3>. QED BY <3>2 DEF l
  <2>3. CASE ~IsUp("http")
    <3>1. box'["core"] = t /\ box'["mixer"] = box["mixer"] /\ box'["http"] = << >> /\ open = {}
          /\ d = << >>
      BY <1>0, <1>4, <2>3, NobodyListens
    <3>2. /\ LastTold(b, p, l) => LastTold(t, p, l) \/ NoneTold(t, p)
      BY <1>0, <1>1, ToldTail
    <3>. HIDE DEF b, d, t, l
    <3>3. /\ NoneUnderWay(box, p) => NoneUnderWay(box', p)
          /\ IsUnderWay(box, p, l) => IsUnderWay(box', p, l) \/ NoneUnderWay(box', p)
      BY <2>1, <3>1, <3>2, NothingTold DEF NoneUnderWay, IsUnderWay, b, d
    <3>. QED BY <3>1, <3>3 DEF l
  <2>. QED BY <2>2, <2>3
<1>7. ToldInTheEnd'
  BY <1>0, <1>2, <1>6, PathKept
<1>. QED BY <1>0, <1>2, <1>5, <1>7, ListenersSame

\* The frontend leaves a callback for each client.
CallsTo(listeners, q, v) == {<<c, q, v>> : c \in listeners}

LEMMA FiniteCalls ==
    ASSUME NEW C, IsFiniteSet(C), NEW q, NEW v
    PROVE  IsFiniteSet(CallsTo(C, q, v))
<1>. DEFINE f == [c \in C |-> <<c, q, v>>]
<1>1. f \in Surjection(C, CallsTo(C, q, v))
  BY DEF Surjection, CallsTo
<1>. HIDE DEF f
<1>. QED BY <1>1, FS_Surjection

LEMMA CallFacts ==
    ASSUME NEW e, NEW q, NEW v, NEW c, NEW p
    PROVE  LET x == <<e, q, v>>
           IN  /\ x # StopLoop /\ x = <<x[1], x[2], x[3]>> /\ x[3] = v
               /\ IsFor(x, c, p) <=> c = e /\ p = q
BY DEF StopLoop, IsFor

LEMMA BroadcastFacts ==
    ASSUME Listeners, NEW arg
    PROVE  LET d == Broadcasts(arg)
           IN  /\ IsSeq(d) /\ \A x \in Range(d) : x = <<x[1], x[2], x[3]>>
               /\ \A c, p : \A x \in Range(d) : IsFor(x, c, p) => x[3] = arg.level
               /\ \A c, p : NoCall(d, c, p) <=> c \notin open \/ p # arg.property
<1>. DEFINE q == arg.property
            v == arg.level
            T == CallsTo(web.clients, q, v)
            d == SetToSeq(T)
<1>1. Broadcasts(arg) = d /\ web.clients = open /\ IsFiniteSet(open)
  BY DEF Broadcasts, Listeners, CallsTo
<1>2. IsFiniteSet(T)
  BY <1>1, FiniteCalls
<1>3. IsSeq(d) /\ Range(d) = T
  <2>. HIDE DEF T
  <2>. QED BY <1>2, SetInSeq
<1>. HIDE DEF d
<1>4. \A x \in T : /\ x = <<x[1], x[2], x[3]>> /\ x[3] = v
                   /\ \A c, p : IsFor(x, c, p) <=> c = x[1] /\ p = q
  BY CallFacts DEF CallsTo
<1>5. \A c \in open : <<c, q, v>> \in T /\ IsFor(<<c, q, v>>, c, q)
  BY <1>1, CallFacts DEF CallsTo
<1>6. \A x \in T : x[1] \in open
  BY <1>1 DEF CallsTo
<1>. HIDE DEF T
<1>7. ASSUME NEW c, NEW p, NoCall(d, c, p), c \in open PROVE p # q
  <2>1. \A x \in T : ~IsFor(x, c, p)
    BY <1>3, <1>7 DEF NoCall, Range
  <2>. QED BY <1>5, <1>7, <2>1
<1>8. ASSUME NEW c, NEW p, c \notin open \/ p # q PROVE NoCall(d, c, p)
  <2>1. \A x \in T : ~IsFor(x, c, p)
    BY <1>4, <1>6, <1>8
  <2>. QED BY <1>3, <2>1 DEF NoCall, Range
<1>. HIDE DEF q, v
<1>9. /\ IsSeq(d) /\ \A x \in Range(d) : x = <<x[1], x[2], x[3]>>
      /\ \A c, p : \A x \in Range(d) : IsFor(x, c, p) => x[3] = v
      /\ \A c, p : NoCall(d, c, p) <=> c \notin open \/ p # q
  BY <1>3, <1>4, <1>7, <1>8
<1>. QED BY <1>1, <1>9 DEF q, v

\* The callbacks of an event follow those that wait.
LEMMA CallbacksAdded ==
    ASSUME Listeners, Openings, NEW arg,
           web'.callbacks = web.callbacks \o Broadcasts(arg), web'.clients = web.clients,
           web'.state = web.state, UNCHANGED <<scripts, open, told>>
    PROVE  /\ Listeners' /\ Openings'
           /\ \A c \in open : \A p, now, level :
                 \/ p = arg.property /\ level = arg.level
                 \/ p # arg.property /\ EndsWith(web.callbacks, c, p, now, level)
                 => EndsWith(web'.callbacks, c, p, now, level)
<1>. DEFINE d == Broadcasts(arg)
            b == web.callbacks
            t == b \o d
<1>1. /\ IsSeq(d) /\ \A x \in Range(d) : x = <<x[1], x[2], x[3]>>
      /\ \A c, p : \A x \in Range(d) : IsFor(x, c, p) => x[3] = arg.level
      /\ \A c, p : NoCall(d, c, p) <=> c \notin open \/ p # arg.property
  BY BroadcastFacts
<1>2. IsSeq(b) /\ \A x \in Range(b) : x = <<x[1], x[2], x[3]>>
  BY DEF Listeners
<1>0. t = b \o d /\ web'.callbacks = t
  OBVIOUS
<1>. HIDE DEF d, b, t
<1>3. \A c, p :
         /\ IsSeq(t) /\ Range(t) = Range(b) \union Range(d)
         /\ ~NoCall(d, c, p) => LastCall(t, c, p, arg.level)
         /\ NoCall(d, c, p) => /\ \A l : LastCall(b, c, p, l) => LastCall(t, c, p, l)
                               /\ NoCall(b, c, p) => NoCall(t, c, p)
  <2>. SUFFICES ASSUME NEW c, NEW p
                PROVE  /\ IsSeq(t) /\ Range(t) = Range(b) \union Range(d)
                       /\ ~NoCall(d, c, p) => LastCall(t, c, p, arg.level)
                       /\ NoCall(d, c, p) =>
                             /\ \A l : LastCall(b, c, p, l) => LastCall(t, c, p, l)
                             /\ NoCall(b, c, p) => NoCall(t, c, p)
    OBVIOUS
  <2>1. \A x \in Range(d) : IsFor(x, c, p) => x[3] = arg.level
    BY <1>1
  <2>. QED BY <1>0, <1>1, <1>2, <2>1, CallsAdded
<1>5. Listeners'
  BY <1>0, <1>1, <1>2, <1>3 DEF Listeners
<1>6. Openings'
  BY <1>0, <1>1, <1>3 DEF Openings, b
<1>7. ASSUME NEW c \in open, NEW p, NEW now, NEW level,
             \/ p = arg.property /\ level = arg.level
             \/ p # arg.property /\ EndsWith(b, c, p, now, level)
      PROVE  EndsWith(t, c, p, now, level)
  BY <1>1, <1>3, <1>7 DEF EndsWith
<1>. QED BY <1>0, <1>5, <1>6, <1>7 DEF b

LEMMA HttpHears ==
    ASSUME IInv, TellInv, HttpHearsEvent, main' = main, mixerVars' = mixerVars
    PROVE  TellInv'
<1>. SUFFICES ASSUME BeforeStop PROVE StaysUp' /\ Listeners' /\ Openings' /\ ToldInTheEnd'
  BY DEF TellInv, BeforeStop
<1>0. /\ StaffInv /\ Post(box, answers) /\ DOMAIN box = Actors /\ Relays \subseteq Actors
      /\ IsSeq(box["http"]) /\ DOMAIN web = {"state", "callbacks", "clients", "job", "left"}
      /\ StaysUp /\ Listeners /\ Openings /\ ToldInTheEnd
  BY RelaysAreActors DEF IInv, StaffInv, TypeInv, IsWeb, Mail, Post, TellInv, Relays
<1>. DEFINE b == box["http"]
            t == Tail(b)
            arg == Head(b).arg
<1>1. /\ b # << >> /\ Head(b).type = "changed"
      /\ "mixer" \in Actors /\ "core" \in Actors /\ "http" \in Actors
  BY <1>0, HandlesFacts DEF HttpHearsEvent, Relays
<1>2. /\ box' = Taken("http") /\ status' = status /\ element' = element
      /\ UNCHANGED <<scripts, open, told>>
      /\ web' = [web EXCEPT !.callbacks = IF HasLoop THEN @ \o Broadcasts(Head(box["http"]).arg) ELSE @]
  BY DEF HttpHearsEvent, mixerVars
<1>3. box'["http"] = t /\ box'["mixer"] = box["mixer"] /\ box'["core"] = box["core"]
  BY <1>0, <1>1, <1>2, TakenBox
<1>4. web'.state = web.state /\ web'.clients = web.clients
  BY <1>0, <1>2
<1>5. StaysUp'
  <2>1. Lacks(b, "stop") => Lacks(t, "stop")
    BY <1>0, <1>1, LacksFacts
  <2>. QED BY <1>0, <1>2, <1>3, <1>4, <2>1, StaysUpKept
<1>6. ASSUME NEW p, NEW l
      PROVE  /\ LastTold(b, p, l) =>
                   \/ LastTold(t, p, l)
                   \/ NoneTold(t, p) /\ TellsOf(Head(b), p) /\ arg.level = l
             /\ NoneTold(b, p) => NoneTold(t, p) /\ ~TellsOf(Head(b), p)
  BY <1>0, <1>1, ToldTail
<1>7. \A p : TellsOf(Head(b), p) <=> p = arg.property
  BY <1>1 DEF TellsOf
<1>. HIDE DEF b, t, arg
<1>8. ASSUME NEW p
      PROVE  /\ NoneUnderWay(box, p) => NoneUnderWay(box', p) /\ p # arg.property
             /\ \A l : IsUnderWay(box, p, l) =>
                   \/ IsUnderWay(box', p, l)
                   \/ NoneUnderWay(box', p) /\ p = arg.property /\ arg.level = l
  BY <1>3, <1>6, <1>7 DEF NoneUnderWay, IsUnderWay, b
<1>9. CASE HasLoop
  <2>1. web'.callbacks = web.callbacks \o Broadcasts(arg)
    BY <1>0, <1>2, <1>9 DEF arg, b
  <2>2. /\ Listeners' /\ Openings'
        /\ \A c \in open : \A p, now, level :
              \/ p = arg.property /\ level = arg.level
              \/ p # arg.property /\ EndsWith(web.callbacks, c, p, now, level)
              => EndsWith(web'.callbacks, c, p, now, level)
    BY <1>0, <1>2, <1>4, <2>1, CallbacksAdded
  <2>3. IsLevels(element)' /\ \A c \in Clients : IsLevels(told[c])'
    BY <1>0, <1>2 DEF ToldInTheEnd, IsLevels
  <2>4. ASSUME NEW p \in Properties
        PROVE  (IsUnderWay(box, p, element[p]) \/ NoneUnderWay(box, p))'
    BY <1>0, <1>2, <1>8 DEF ToldInTheEnd
  <2>5. ASSUME NEW p \in Properties, NEW c \in open PROVE IsTold(c, p)'
    <3>1. IsTold(c, p)
      BY <1>0, <2>5 DEF ToldInTheEnd
    <3>2. CASE IsUnderWay(box', p, element[p])
      BY <1>2, <3>2 DEF IsTold
    <3>3. CASE IsUnderWay(box, p, element[p]) /\ ~IsUnderWay(box', p, element[p])
      <4>1. NoneUnderWay(box', p) /\ p = arg.property /\ arg.level = element[p]
        BY <1>8, <3>3
      <4>2. EndsWith(web'.callbacks, c, p, told[c][p], element[p])
        BY <2>2, <4>1
      <4>. QED BY <1>2, <4>1, <4>2 DEF IsTold
    <3>4. CASE NoneUnderWay(box, p) /\ EndsWith(web.callbacks, c, p, told[c][p], element[p])
      <4>1. NoneUnderWay(box', p) /\ p # arg.property
        BY <1>8, <3>4
      <4>2. EndsWith(web'.callbacks, c, p, told[c][p], element[p])
        BY <2>2, <3>4, <4>1
      <4>. QED BY <1>2, <4>1, <4>2 DEF IsTold
    <3>. QED BY <3>1, <3>2, <3>3, <3>4 DEF IsTold
  <2>6. ToldInTheEnd'
    BY <1>2, <2>3, <2>4, <2>5 DEF ToldInTheEnd
  <2>. QED BY <1>5, <2>2, <2>6
<1>10. CASE ~HasLoop
  <2>1. web'.callbacks = web.callbacks
    BY <1>0, <1>2, <1>10
  <2>2. open = {}
    BY <1>0, <1>10 DEF HasLoop, Listeners
  <2>3. UNCHANGED ClientView
    BY <1>2, <1>4, <2>1 DEF ClientView
  <2>4. ToldInTheEnd'
    BY <1>0, <1>8, <2>2, <2>3, PathKept
  <2>. QED BY <1>0, <1>5, <2>3, <2>4, ListenersSame
<1>. QED BY <1>9, <1>10

\* The element changes, and the mixer is told.
LEMMA AudioTells ==
    ASSUME IInv, TellInv, main' = main, httpVars' = httpVars, NEW q, NEW v,
           status' = status, element' = [element EXCEPT ![q] = v],
           box'["mixer"] = Append(box["mixer"], Changed(q, v)),
           box'["core"] = box["core"], box'["http"] = box["http"]
    PROVE  TellInv'
<1>. SUFFICES ASSUME BeforeStop PROVE StaysUp' /\ Listeners' /\ Openings' /\ ToldInTheEnd'
  BY DEF TellInv, BeforeStop
<1>0. /\ IsSeq(box["mixer"]) /\ StaysUp /\ Listeners /\ Openings /\ ToldInTheEnd
  BY RelaysAreActors DEF IInv, StaffInv, Mail, Post, TellInv, Relays
<1>. DEFINE m == Changed(q, v)
            b == box["mixer"]
            e == Append(b, m)
<1>1. m.type = "changed" /\ m.arg.property = q /\ m.arg.level = v
  BY DEF Changed, Message, Level
<1>2. UNCHANGED <<web, scripts, open, told>>
  BY DEF httpVars
<1>3. StaysUp'
  BY <1>0, <1>2, StaysUpKept
<1>4. Listeners' /\ Openings'
  BY <1>0, <1>2 DEF Listeners, Openings
<1>5. ASSUME NEW p
      PROVE  /\ p = q => LastTold(e, p, v)
             /\ p # q => /\ \A l : LastTold(b, p, l) => LastTold(e, p, l)
                         /\ NoneTold(b, p) => NoneTold(e, p)
  BY <1>0, <1>1, ToldAppend DEF TellsOf
<1>6. ASSUME NEW p \in Properties
      PROVE  \/ IsUnderWay(box', p, element'[p])
             \/ /\ p # q /\ element'[p] = element[p]
                /\ NoneUnderWay(box, p) => NoneUnderWay(box', p)
                /\ IsUnderWay(box, p, element[p]) => IsUnderWay(box', p, element[p])
  <2>1. element = [r \in Properties |-> element[r]]
    BY <1>0 DEF ToldInTheEnd, IsLevels
  <2>2. CASE p = q
    <3>1. element'[p] = v
      BY <2>1, <2>2
    <3>. QED BY <1>5, <2>2, <3>1 DEF IsUnderWay
  <2>3. CASE p # q
    <3>1. element'[p] = element[p]
      BY <2>1, <2>3
    <3>. HIDE DEF b, e, m
    <3>2. box'["mixer"] = e /\ box["mixer"] = b
      BY DEF e, b, m
    <3>. QED BY <1>5, <2>3, <3>1, <3>2 DEF NoneUnderWay, IsUnderWay
  <2>. QED BY <2>2, <2>3
<1>7. IsLevels(element)' /\ \A c \in Clients : IsLevels(told[c])'
  BY <1>0, <1>2 DEF ToldInTheEnd, IsLevels
<1>8. ASSUME NEW p \in Properties
      PROVE  (IsUnderWay(box, p, element[p]) \/ NoneUnderWay(box, p))'
  BY <1>0, <1>6 DEF ToldInTheEnd
<1>9. ASSUME NEW p \in Properties, NEW c \in open PROVE IsTold(c, p)'
  BY <1>0, <1>2, <1>6 DEF ToldInTheEnd, IsTold
<1>10. ToldInTheEnd'
  BY <1>2, <1>7, <1>8, <1>9 DEF ToldInTheEnd
<1>. QED BY <1>3, <1>4, <1>10

-----------------------------------------------------------------------------
(* The web server and the clients. *)

LEMMA CallIsMade ==
    ASSUME IInv, TellInv, WebCallsBack, UNCHANGED <<actorVars, main, mixerVars>>
    PROVE  TellInv'
<1>. SUFFICES ASSUME BeforeStop PROVE StaysUp' /\ Listeners' /\ Openings' /\ ToldInTheEnd'
  BY DEF TellInv, BeforeStop
<1>0. /\ DOMAIN web = {"state", "callbacks", "clients", "job", "left"}
      /\ StaysUp /\ Listeners /\ Openings /\ ToldInTheEnd
  BY DEF IInv, TypeInv, IsWeb, TellInv
<1>. DEFINE b == web.callbacks
            x == Head(b)
            t == Tail(b)
<1>1. b # << >> /\ IsSeq(b) /\ \A y \in Range(b) : y = <<y[1], y[2], y[3]>>
  BY <1>0 DEF WebCallsBack, Listeners
<1>2. x = <<x[1], x[2], x[3]>> /\ IsSeq(t) /\ Range(t) \subseteq Range(b)
  BY <1>1, TailFacts
<1>3. x # StopLoop
  BY <1>2, CallFacts
<1>4. /\ web' = [web EXCEPT !.callbacks = t] /\ UNCHANGED <<scripts, open>>
      /\ told' = IF x[1] \in open THEN [told EXCEPT ![x[1]][x[2]] = x[3]] ELSE told
  BY <1>3 DEF WebCallsBack
<1>5. web'.callbacks = t /\ web'.clients = web.clients /\ web'.state = web.state
  BY <1>0, <1>4
<1>6. \A c, p : IsFor(x, c, p) <=> c = x[1] /\ p = x[2]
  BY <1>2, CallFacts
<1>7. ASSUME NEW c, NEW p, NEW l
      PROVE  /\ LastCall(b, c, p, l) =>
                   LastCall(t, c, p, l) \/ (NoCall(t, c, p) /\ IsFor(x, c, p) /\ x[3] = l)
             /\ NoCall(b, c, p) => NoCall(t, c, p) /\ ~IsFor(x, c, p)
  BY <1>1, CallTail
<1>8. /\ UNCHANGED <<status, box, element, main>>
  BY DEF actorVars, mixerVars
<1>. HIDE DEF b, x, t
<1>9. StaysUp'
  BY <1>0, <1>5, <1>8 DEF StaysUp
<1>10. DOMAIN told' = Clients /\ \A c \in Clients : IsLevels(told'[c])
  <2>1. DOMAIN told = Clients /\ \A c \in Clients : IsLevels(told[c])
    BY <1>0 DEF Listeners, ToldInTheEnd
  <2>2. ASSUME NEW c \in Clients PROVE IsLevels(told'[c])
    <3>1. told'[c] = told[c] \/ told'[c] = [told[c] EXCEPT ![x[2]] = x[3]]
      BY <1>4, <2>1
    <3>2. told[c] = [p \in Properties |-> told[c][p]]
      BY <2>1 DEF IsLevels
    <3>. QED BY <2>1, <3>1, <3>2 DEF IsLevels
  <2>. QED BY <1>4, <2>1, <2>2
<1>11. Listeners'
  BY <1>0, <1>1, <1>2, <1>4, <1>5, <1>10 DEF Listeners
<1>12. Openings'
  BY <1>0, <1>4, <1>5, <1>7 DEF Openings, b
<1>13. ASSUME NEW c \in open, NEW p \in Properties, NEW l,
              EndsWith(b, c, p, told[c][p], l)
       PROVE  EndsWith(t, c, p, told'[c][p], l)
  <2>1. c \in Clients /\ DOMAIN told = Clients /\ told[c] = [r \in Properties |-> told[c][r]]
    BY <1>0, <1>13 DEF Listeners, ToldInTheEnd, IsLevels
  <2>2. CASE IsFor(x, c, p)
    <3>1. x[1] = c /\ x[2] = p
      BY <1>6, <2>2
    <3>2. told'[c][p] = x[3]
      BY <1>4, <1>13, <2>1, <3>1
    <3>. QED BY <1>7, <1>13, <2>2, <3>2 DEF EndsWith
  <2>3. CASE ~IsFor(x, c, p)
    <3>1. x[1] # c \/ x[2] # p
      BY <1>6, <2>3
    <3>2. told'[c][p] = told[c][p]
      BY <1>4, <2>1, <3>1
    <3>. QED BY <1>7, <1>13, <2>3, <3>2 DEF EndsWith
  <2>. QED BY <2>2, <2>3
<1>14. ToldInTheEnd'
  BY <1>0, <1>4, <1>5, <1>8, <1>10, <1>13 DEF ToldInTheEnd, IsTold, IsLevels, b
<1>. QED BY <1>9, <1>11, <1>12, <1>14

LEMMA OpensTail ==
    ASSUME NEW s, IsSeq(s), s # << >>, OpensOnce(s)
    PROVE  /\ OpensOnce(Tail(s))
           /\ (\E i \in DOMAIN Tail(s) : Tail(s)[i].do = "open") =>
                 Head(s).do # "open" /\ \E i \in DOMAIN s : s[i].do = "open"
           /\ Head(s).do = "open" => \E i \in DOMAIN s : s[i].do = "open"
<1>. DEFINE t == Tail(s)
<1>1. /\ Head(s) = s[1] /\ Len(s) \in Nat \ {0} /\ DOMAIN s = 1 .. Len(s)
      /\ DOMAIN t = 1 .. Len(s) - 1 /\ \A i \in 1 .. Len(s) - 1 : t[i] = s[i + 1]
  BY TailFacts
<1>. HIDE DEF t
<1>2. \A i \in DOMAIN t : i \in Int /\ i + 1 \in DOMAIN s /\ i + 1 # 1 /\ t[i] = s[i + 1]
  BY <1>1
<1>3. 1 \in DOMAIN s
  BY <1>1
<1>4. OpensOnce(t)
  <2>. SUFFICES ASSUME NEW i \in DOMAIN t, NEW j \in DOMAIN t, t[i].do = "open", t[j].do = "open"
                PROVE  i = j
    BY DEF OpensOnce
  <2>1. i + 1 = j + 1
    BY <1>2 DEF OpensOnce
  <2>. QED BY <1>2, <2>1
<1>5. ASSUME NEW i \in DOMAIN t, t[i].do = "open"
      PROVE  Head(s).do # "open" /\ \E j \in DOMAIN s : s[j].do = "open"
  BY <1>1, <1>2, <1>3, <1>5 DEF OpensOnce
<1>6. Head(s).do = "open" => \E i \in DOMAIN s : s[i].do = "open"
  BY <1>1, <1>3
<1>. QED BY <1>4, <1>5, <1>6 DEF t

\* A client does what is next.
LEMMA OpeningsKept ==
    ASSUME IsWeb, Openings, NEW c \in Clients, NEW what, Does(c, what),
           web'.callbacks = web.callbacks,
           open' \subseteq open \union (IF what = "open" THEN {c} ELSE {})
    PROVE  /\ Openings'
           /\ what = "open" => c \notin open /\ \A p \in Properties : NoCall(web.callbacks, c, p)
<1>1. /\ IsSeq(scripts[c]) /\ scripts[c] # << >> /\ Head(scripts[c]).do = what
      /\ scripts' = [scripts EXCEPT ![c] = Tail(@)] /\ DOMAIN scripts = Clients
      /\ OpensOnce(scripts[c])
  BY DEF IsWeb, Does, Openings
<1>2. /\ OpensOnce(Tail(scripts[c]))
      /\ (\E i \in DOMAIN Tail(scripts[c]) : Tail(scripts[c])[i].do = "open") =>
            Head(scripts[c]).do # "open" /\ \E i \in DOMAIN scripts[c] : scripts[c][i].do = "open"
      /\ Head(scripts[c]).do = "open" => \E i \in DOMAIN scripts[c] : scripts[c][i].do = "open"
  BY <1>1, OpensTail
<1>3. ASSUME NEW e \in Clients
      PROVE  /\ OpensOnce(scripts'[e])
             /\ (\E i \in DOMAIN scripts'[e] : scripts'[e][i].do = "open") =>
                   e \notin open' /\ \A p \in Properties : NoCall(web'.callbacks, e, p)
  <2>1. CASE e = c
    <3>1. scripts'[e] = Tail(scripts[c])
      BY <1>1, <2>1
    <3>2. ASSUME \E i \in DOMAIN Tail(scripts[c]) : Tail(scripts[c])[i].do = "open"
          PROVE  what # "open" /\ c \notin open /\ \A p \in Properties : NoCall(web.callbacks, c, p)
      BY <1>1, <1>2, <3>2 DEF Openings
    <3>. QED BY <1>2, <2>1, <3>1, <3>2
  <2>2. CASE e # c
    <3>1. scripts'[e] = scripts[e]
      BY <1>1, <2>2
    <3>2. e \in open' => e \in open
      BY <2>2
    <3>. QED BY <3>1, <3>2 DEF Openings
  <2>. QED BY <2>1, <2>2
<1>4. what = "open" => c \notin open /\ \A p \in Properties : NoCall(web.callbacks, c, p)
  BY <1>1, <1>2 DEF Openings
<1>. QED BY <1>3, <1>4 DEF Openings

\* WebSockets are opened, used and closed.
LEMMA OpenChanges ==
    ASSUME IInv, TellInv, UNCHANGED <<actorVars, main, mixerVars>>, BeforeStop,
           web'.callbacks = web.callbacks, web'.state = web.state, web'.clients = open',
           IsFiniteSet(open'), open' \subseteq Clients, open' # {} => web.state = "serving",
           Openings', DOMAIN told' = Clients,
           \A c \in Clients : told'[c] = told[c] \/ told'[c] = element,
           \A c \in open' :
              \/ c \in open /\ told'[c] = told[c]
              \/ told'[c] = element /\ \A p \in Properties : NoCall(web.callbacks, c, p)
    PROVE  TellInv'
<1>1. StaysUp /\ Listeners /\ ToldInTheEnd
  BY DEF TellInv
<1>2. UNCHANGED <<status, box, element, main>>
  BY DEF actorVars, mixerVars
<1>3. StaysUp'
  BY <1>1, <1>2 DEF StaysUp
<1>4. Listeners'
  BY <1>1 DEF Listeners
<1>5. \A c \in Clients : IsLevels(told'[c])
  BY <1>1 DEF ToldInTheEnd
<1>6. ASSUME NEW p \in Properties, NEW c \in open' PROVE IsTold(c, p)'
  <2>1. CASE c \in open /\ told'[c] = told[c]
    BY <1>1, <1>2, <1>6, <2>1 DEF ToldInTheEnd, IsTold
  <2>2. CASE told'[c] = element /\ NoCall(web.callbacks, c, p)
    BY <1>1, <1>2, <1>6, <2>2 DEF ToldInTheEnd, IsTold, EndsWith
  <2>. QED BY <1>6, <2>1, <2>2
<1>7. ToldInTheEnd'
  BY <1>1, <1>2, <1>5, <1>6 DEF ToldInTheEnd, IsLevels
<1>. QED BY <1>3, <1>4, <1>7 DEF TellInv

LEMMA ClientsKeep ==
    ASSUME IInv, TellInv, ClientsAct
    PROVE  TellInv'
<1>0. /\ IsWeb /\ DOMAIN web = {"state", "callbacks", "clients", "job", "left"}
      /\ main' = main /\ mixerVars' = mixerVars
  BY DEF IInv, TypeInv, IsWeb, ClientsAct, serverVars
<1>. SUFFICES ASSUME BeforeStop PROVE TellInv'
  BY <1>0 DEF TellInv, BeforeStop
<1>1. Listeners /\ Openings /\ ToldInTheEnd /\ StaysUp
  BY DEF TellInv
<1>2. PICK c \in Clients : WebOpens(c, Protected) \/ WebCloses(c) \/ WebReceives(c) \/ WebGetsPost(c, Protected)
  BY DEF ClientsAct, ClientActs
<1>3. CASE WebReceives(c) \/ WebGetsPost(c, Protected)
  <2>1. \E what \in {"send", "post"} : Does(c, what)
    BY <1>3 DEF WebReceives, WebGetsPost
  <2>2. /\ UNCHANGED <<actorVars, open, told>>
        /\ web'.callbacks = web.callbacks /\ web'.state = web.state /\ web'.clients = web.clients
    BY <1>0, <1>3 DEF WebReceives, WebGetsPost
  <2>3. Openings'
    BY <1>0, <1>1, <2>1, <2>2, OpeningsKept
  <2>. QED BY <1>0, <1>1, <2>2, <2>3, OpenChanges DEF Listeners
<1>4. CASE WebCloses(c)
  <2>1. /\ Does(c, "close") /\ UNCHANGED <<actorVars, told>> /\ open' = open \ {c}
        /\ web'.callbacks = web.callbacks /\ web'.state = web.state /\ web'.clients = web.clients \ {c}
    BY <1>0, <1>4 DEF WebCloses
  <2>2. Openings'
    BY <1>0, <1>1, <2>1, OpeningsKept
  <2>3. IsFiniteSet(open')
    BY <1>1, <2>1, FS_Subset DEF Listeners
  <2>. QED BY <1>0, <1>1, <2>1, <2>2, <2>3, OpenChanges DEF Listeners
<1>5. CASE WebOpens(c, Protected)
  <2>1. Does(c, "open") /\ actorVars' = actorVars /\ web.state = "serving"
    BY <1>5 DEF WebOpens, Does, IsIdle
  <2>2. CASE UNCHANGED <<web, open, told>>
    <3>1. Openings'
      BY <1>0, <1>1, <2>1, <2>2, OpeningsKept
    <3>. QED BY <1>0, <1>1, <2>1, <2>2, <3>1, OpenChanges DEF Listeners
  <2>3. CASE /\ web' = [web EXCEPT !.clients = @ \union {c}]
             /\ open' = open \union {c}
             /\ told' = [told EXCEPT ![c] = element]
    <3>1. web'.callbacks = web.callbacks /\ web'.state = web.state /\ web'.clients = open'
      BY <1>0, <1>1, <2>3 DEF Listeners
    <3>2. Openings' /\ \A p \in Properties : NoCall(web.callbacks, c, p)
      BY <1>0, <1>1, <2>1, <2>3, <3>1, OpeningsKept
    <3>3. IsFiniteSet(open')
      BY <1>1, <2>3, FS_AddElement DEF Listeners
    <3>4. DOMAIN told = Clients /\ open \subseteq Clients
      BY <1>1 DEF Listeners
    <3>. QED BY <1>0, <1>1, <2>1, <2>3, <3>1, <3>2, <3>3, <3>4, OpenChanges
  <2>. QED BY <1>5, <2>2, <2>3 DEF WebOpens
<1>. QED BY <1>2, <1>3, <1>4, <1>5

LEMMA WebKeeps ==
    ASSUME IInv, TellInv, WebThread
    PROVE  TellInv'
<1>0. /\ IsWeb /\ DOMAIN web = {"state", "callbacks", "clients", "job", "left"}
      /\ main' = main /\ mixerVars' = mixerVars
      /\ Post(box, answers) /\ Relays \subseteq Actors /\ "core" \in Actors
  BY RelaysAreActors DEF IInv, TypeInv, StaffInv, Mail, IsWeb, WebThread, serverVars, Actors
<1>. SUFFICES ASSUME BeforeStop PROVE TellInv'
  BY <1>0 DEF TellInv, BeforeStop
<1>1. Listeners /\ Openings /\ ToldInTheEnd /\ StaysUp
  BY DEF TellInv
<1>2. CASE WebServes
  <2>1. /\ UNCHANGED <<actorVars, scripts, open, told>> /\ web.state = "starting"
        /\ web'.state = "serving" /\ web'.callbacks = web.callbacks /\ web'.clients = web.clients
    BY <1>0, <1>2 DEF WebServes
  <2>2. StaysUp'
    BY <1>0, <1>1, <2>1 DEF StaysUp, actorVars
  <2>3. Listeners' /\ Openings'
    BY <1>1, <2>1 DEF Listeners, Openings
  <2>4. ToldInTheEnd'
    BY <1>0, <1>1, <2>1 DEF ToldInTheEnd, IsTold, IsLevels, actorVars, mixerVars
  <2>. QED BY <2>2, <2>3, <2>4 DEF TellInv
<1>3. CASE WebCallsBack
  BY <1>0, <1>3, CallIsMade DEF WebCallsBack
<1>4. CASE WebRefuses \/ WebGets \/ WebReplies
  <2>1. /\ UNCHANGED <<status, box, scripts, open, told>>
        /\ web'.state = web.state /\ web'.callbacks = web.callbacks /\ web'.clients = web.clients
    BY <1>0, <1>4 DEF WebRefuses, WebGets, WebReplies, actorVars
  <2>2. UNCHANGED ClientView
    BY <1>0, <2>1 DEF ClientView, mixerVars
  <2>. QED BY <1>0, <2>1, <2>2, QuietSame, QuietStep
<1>5. CASE WebAsks
  <2>1. /\ UNCHANGED <<status, scripts, open, told>>
        /\ web'.state = web.state /\ web'.callbacks = web.callbacks /\ web'.clients = web.clients
    BY <1>0, <1>5 DEF WebAsks
  <2>2. UNCHANGED ClientView
    BY <1>0, <2>1 DEF ClientView, mixerVars
  <2>3. \E x \in {None, "web"} : box' = Put(box, "core", Message("request", x, Current.call))
    BY <1>5 DEF WebAsks
  <2>4. PICK m : box' = Put(box, "core", m) /\ m.type = "request"
    BY <2>3, MessageFacts
  <2>5. \A a \in Relays : Quietly(box[a], box'[a])
    BY <1>0, <2>4, QuietPut
  <2>. QED BY <1>0, <2>1, <2>2, <2>5, QuietStep
<1>6. CASE WebBreaks
  <2>1. /\ UNCHANGED <<actorVars, scripts, told>> /\ open' \subseteq open
        /\ web' = [web EXCEPT !.clients = @ \intersect open', !.job = NoJob]
    BY <1>6 DEF WebBreaks
  <2>2. web'.state = web.state /\ web'.callbacks = web.callbacks /\ web'.clients = open'
    BY <1>0, <1>1, <2>1 DEF Listeners
  <2>3. Openings'
    BY <1>1, <2>1, <2>2 DEF Openings
  <2>4. IsFiniteSet(open')
    BY <1>1, <2>1, FS_Subset DEF Listeners
  <2>. QED BY <1>0, <1>1, <2>1, <2>2, <2>3, <2>4, OpenChanges DEF Listeners
<1>. QED BY <1>2, <1>3, <1>4, <1>5, <1>6 DEF WebThread, WebActs
-----------------------------------------------------------------------------
(* Where the main thread gets. *)

LEMMA InterruptedPlace ==
    ASSUME IsMain, main' = Interrupted
    PROVE  /\ BeforeStop => main'.at \in {"ended", "stop_frontends"}
           /\ ~BeforeStop => main'.at \notin Starting \union {"config"}
<1>1. main \in MainType
  BY DEF IsMain
<1>2. ASSUME NEW at \in {"ended", "aborted", "stop_frontends"} PROVE Go(at).at = at
  BY <1>1, GoFacts DEF Stopping
<1>3. main.at \in Starting \union Stopping \union {"config", "aborted", "ended"}
  BY <1>1 DEF MainType
<1>4. CASE main.at = "config"
  BY <1>2, <1>4 DEF Interrupted, BeforeStop, Starting, Stopping
<1>5. CASE main.at \in Starting
  BY <1>2, <1>5 DEF Interrupted, BeforeStop, Starting, Stopping
<1>6. CASE main.at \in Stopping
  BY <1>2, <1>6 DEF Interrupted, BeforeStop, Starting, Stopping
<1>7. CASE main.at \in {"aborted", "ended"}
  BY <1>7 DEF Interrupted, BeforeStop, Starting, Stopping
<1>. QED BY <1>3, <1>4, <1>5, <1>6, <1>7

\* Once the process stops, it does not start again.
LEMMA StopsStay ==
    ASSUME IInv, MainStops
    PROVE  ~BeforeStop'
<1>1. main \in MainType
  BY MainFacts
<1>2. ASSUME NEW actors, NEW next \in Stopping \union {"ended"}, StopActors(actors, next), main.at \in Stopping
      PROVE  main'.at \in Stopping \union {"ended"}
  <2>1. main' = [main EXCEPT !.asked = TRUE] \/ main' = [main EXCEPT !.asked = FALSE] \/ main' = Go(next)
    BY <1>2 DEF StopActors
  <2>2. Go(next).at = next
    BY <1>1, GoFacts
  <2>. QED BY <1>1, <1>2, <2>1, <2>2 DEF MainType
<1>3. Teardown => main'.at \in Stopping \union {"ended"}
  BY <1>1, GoFacts DEF Teardown, MainType, Stopping
<1>4. main'.at \in Stopping \union {"ended"}
  <2>. USE DEF Stopping
  <2>1. CASE StopFrontends BY <1>2, <2>1 DEF StopFrontends
  <2>2. CASE StopCore BY <1>2, <2>2 DEF StopCore
  <2>3. CASE StopBackends BY <1>2, <2>3 DEF StopBackends
  <2>4. CASE StopAudio BY <1>2, <2>4 DEF StopAudio
  <2>5. CASE StopMixer BY <1>2, <2>5 DEF StopMixer
  <2>6. CASE StopRemaining BY <1>2, <2>6 DEF StopRemaining
  <2>. QED BY <1>3, <2>1, <2>2, <2>3, <2>4, <2>5, <2>6 DEF MainStops
<1>. QED BY <1>4 DEF BeforeStop, Starting, Stopping

LEMMA BeforeAtStart ==
    ASSUME Configure \/ MainStarts
    PROVE  BeforeStop
BY DEF Configure, MainStarts, StartMixer, StartAudio, StartBackends, StartCore, CoreSetUp,
       StartFrontends, BeforeStop, Starting
-----------------------------------------------------------------------------
(* The actors. *)

\* What the process still has before it stops.
LEMMA BeforeFacts ==
    ASSUME IInv, TellInv, BeforeStop
    PROVE  /\ StaffInv /\ Mail(box, answers) /\ Post(box, answers) /\ DOMAIN box = Actors
           /\ DOMAIN status = Actors /\ Relays \subseteq Actors
           /\ {"mixer", "audio", "core", "http"} \subseteq Actors
           /\ "audio" \notin Relays /\ Undisturbed /\ SetsArrive /\ MixerWaits
           /\ StaysUp /\ Listeners /\ Openings /\ ToldInTheEnd
<1>1. Undisturbed
  BY DEF IInv, MixerInv, StopsInTurn, BeforeStop
<1>. QED BY <1>1, RelaysAreActors DEF IInv, StaffInv, IsMain, MixerInv, Mail, Post, TellInv, Actors

\* None of them is asked to stop.
LEMMA NoStop ==
    ASSUME IInv, TellInv, BeforeStop, NEW a \in {"mixer", "audio", "core", "http"}, Handles(a, "stop")
    PROVE  FALSE
<1>1. Lacks(box[a], "stop")
  BY BeforeFacts DEF Undisturbed, StaysUp
<1>2. Head(box[a]) \in Range(box[a]) /\ Head(box[a]).type = "stop"
  BY BeforeFacts, HandlesFacts
<1>. QED BY <1>1, <1>2 DEF Lacks

LEMMA MixerKeeps ==
    ASSUME IInv, TellInv, MixerThread
    PROVE  TellInv'
<1>0. main' = main /\ httpVars' = httpVars
  BY DEF MixerThread, serverVars
<1>. SUFFICES ASSUME BeforeStop PROVE TellInv'
  BY <1>0 DEF TellInv, BeforeStop
<1>1. /\ Post(box, answers) /\ DOMAIN box = Actors /\ Relays \subseteq Actors
      /\ {"mixer", "audio", "core", "http"} \subseteq Actors /\ "audio" \notin Relays /\ MixerWaits
  BY BeforeFacts
<1>2. CASE MixerTells
  BY <1>0, <1>2, MixerTellsOn
<1>3. CASE MixerStops
  BY <1>3, NoStop DEF MixerStops
<1>4. ASSUME element' = element, status' = status, box["mixer"] # << >>,
             Head(box["mixer"]).type # "changed",
             \A a \in Relays : box'[a] = box[a] \/ box'[a] = Taken("mixer")[a]
      PROVE  TellInv'
  <2>1. UNCHANGED ClientView
    BY <1>0, <1>4 DEF ClientView, httpVars
  <2>2. \A a \in Relays : Quietly(box[a], box'[a])
    BY <1>1, <1>4, QuietSame, QuietTaken
  <2>. QED BY <1>0, <1>4, <2>1, <2>2, QuietStep
<1>5. ASSUME NEW bx, DOMAIN bx = Actors, NEW m
      PROVE  DOMAIN Put(bx, "audio", m) = Actors /\ \A a \in Relays : Put(bx, "audio", m)[a] = bx[a]
  BY <1>1, <1>5, PutBox
<1>6. DOMAIN Taken("mixer") = Actors
  BY <1>1, TakenBox
<1>7. ASSUME NEW type, Handles("mixer", type)
      PROVE  box["mixer"] # << >> /\ Head(box["mixer"]).type = type
  BY <1>1, <1>7, HandlesFacts
<1>8. CASE MixerSetup
  <2>. DEFINE rest == Taken("mixer")
              volume == mixer.initial["volume"]
              mute == mixer.initial["mute"]
              with == IF volume = None THEN rest ELSE Put(rest, "audio", SetLevel("volume", volume))
              both == IF mute = None THEN with ELSE Put(with, "audio", SetLevel("mute", mute))
  <2>1. Handles("mixer", "adapter") /\ element' = element /\ status' = status /\ box' = both
    BY <1>8 DEF MixerSetup
  <2>. HIDE DEF volume, mute
  <2>2. DOMAIN with = Actors /\ \A a \in Relays : with[a] = rest[a]
    BY <1>5, <1>6
  <2>. HIDE DEF with
  <2>3. \A a \in Relays : both[a] = rest[a]
    BY <1>5, <2>2
  <2>. QED BY <1>4, <1>7, <2>1, <2>3
<1>9. CASE MixerSet
  <2>1. /\ Handles("mixer", "set") /\ element' = element /\ status' = status
        /\ box' = Taken("mixer") \/ \E m : box' = Put(Taken("mixer"), "audio", m)
    BY <1>9 DEF MixerSet
  <2>2. \A a \in Relays : box'[a] = Taken("mixer")[a]
    BY <1>5, <1>6, <2>1
  <2>. QED BY <1>4, <1>7, <2>1, <2>2
<1>10. CASE MixerGet
  <2>1. /\ Handles("mixer", "get") /\ element' = element /\ status' = status
        /\ box' = Taken("mixer") \/ \E m : box' = Put(box, "audio", m)
    BY <1>10 DEF MixerGet, mixerVars
  <2>2. \A a \in Relays : box'[a] = box[a] \/ box'[a] = Taken("mixer")[a]
    BY <1>1, <1>5, <2>1
  <2>. QED BY <1>4, <1>7, <2>1, <2>2
<1>11. CASE MixerGets
  <2>1. ~IsFree("mixer") /\ box' = Taken("mixer") /\ element' = element /\ status' = status
    BY <1>11 DEF MixerGets, IsAnswered, IsFree, mixerVars
  <2>2. box["mixer"] # << >> /\ Head(box["mixer"]).type = "get"
    BY <1>1, <2>1 DEF MixerWaits
  <2>. QED BY <1>4, <2>1, <2>2
<1>12. CASE MixerTeardown
  <2>1. Handles("mixer", "teardown") /\ box' = Taken("mixer") /\ element' = element /\ status' = status
    BY <1>12 DEF MixerTeardown
  <2>. QED BY <1>4, <1>7, <2>1
<1>. QED BY <1>2, <1>3, <1>8, <1>9, <1>10, <1>11, <1>12 DEF MixerThread, MixerActs

LEMMA AudioKeeps ==
    ASSUME IInv, TellInv, AudioThread
    PROVE  TellInv'
<1>1. CASE AudioFails
  <2>1. IsMain /\ main' = Interrupted
    BY <1>1 DEF AudioFails, IInv, StaffInv
  <2>2. ~BeforeStop'
    <3>1. BeforeStop => main'.at \in {"ended", "stop_frontends"}
      BY <2>1, InterruptedPlace
    <3>2. ~BeforeStop => main'.at \notin Starting \union {"config"}
      BY <2>1, InterruptedPlace
    <3>. QED BY <3>1, <3>2 DEF BeforeStop, Starting
  <2>. QED BY <2>2 DEF TellInv
<1>2. CASE ~AudioFails
  <2>0. main' = main /\ httpVars' = httpVars
    BY <1>2 DEF AudioThread, AudioStartsWell, serverVars
  <2>. SUFFICES ASSUME BeforeStop PROVE TellInv'
    BY <2>0 DEF TellInv, BeforeStop
  <2>1. /\ Post(box, answers) /\ DOMAIN box = Actors /\ Relays \subseteq Actors
        /\ {"mixer", "audio", "core", "http"} \subseteq Actors /\ "audio" \notin Relays
        /\ Undisturbed /\ SetsArrive /\ DOMAIN status = Actors /\ ToldInTheEnd
    BY BeforeFacts
  <2>2. ASSUME element' = element, \A a \in {"core", "http"} : status'[a] = status[a],
               \A a \in Relays : Quietly(box[a], box'[a])
        PROVE  TellInv'
    <3>1. UNCHANGED ClientView
      BY <2>0, <2>2 DEF ClientView, httpVars
    <3>. QED BY <2>0, <2>2, <3>1, QuietStep
  <2>3. DOMAIN Taken("audio") = Actors /\ \A a \in Relays : Taken("audio")[a] = box[a]
    BY <2>1, TakenBox
  <2>4. ASSUME NEW m, IsUp("mixer"), box' = Put(Taken("audio"), "mixer", m)
        PROVE  box'["mixer"] = Append(box["mixer"], m) /\ box'["core"] = box["core"] /\ box'["http"] = box["http"]
    BY <2>1, <2>3, <2>4 DEF Put, Relays
  <2>5. CASE AudioStartsWell
    <3>1. /\ element' = element /\ status' = [status EXCEPT !["audio"] = "running"]
          /\ box' = box \/ box' = Put(box, "mixer", Message("adapter", None, None))
      BY <2>5 DEF AudioStartsWell, AudioStarts, mixerVars
    <3>2. \A a \in Relays : Quietly(box[a], box'[a])
      BY <2>1, <3>1, QuietSame, QuietPut, MessageFacts
    <3>. QED BY <2>1, <2>2, <3>1, <3>2
  <2>6. CASE AudioSets
    <3>1. /\ Handles("audio", "set") /\ status' = status
          /\ \E q, v : /\ element' = [element EXCEPT ![q] = v]
                       /\ box' = Put(Taken("audio"), "mixer", Changed(q, v))
      BY <2>6 DEF AudioSets
    <3>2. IsUp("mixer")
      <4>1. Head(box["audio"]) \in Range(box["audio"]) /\ Head(box["audio"]).type = "set"
        BY <2>1, <3>1, HandlesFacts
      <4>. QED BY <2>1, <4>1 DEF SetsArrive, Lacks, IsUp
    <3>. QED BY <2>0, <2>4, <3>1, <3>2, AudioTells
  <2>7. CASE AudioGets
    <3>1. box' = Taken("audio") /\ status' = status /\ element' = element
      BY <2>7 DEF AudioGets, mixerVars
    <3>. QED BY <2>2, <2>3, <3>1, QuietSame
  <2>8. CASE AudioSetsUri(main.mixer)
    <3>1. /\ status' = status /\ element' = element
          /\ \/ box' = Taken("audio")
             \/ box' = Put(Taken("audio"), "mixer", Changed("volume", element["volume"]))
      BY <2>8 DEF AudioSetsUri, mixerVars
    <3>2. CASE box' = Taken("audio")
      BY <2>2, <2>3, <3>1, <3>2, QuietSame
    <3>3. CASE box' = Put(Taken("audio"), "mixer", Changed("volume", element["volume"])) /\ ~IsUp("mixer")
      <4>1. box' = Taken("audio")
        BY <3>3 DEF Put
      <4>. QED BY <3>2, <4>1
    <3>4. CASE box' = Put(Taken("audio"), "mixer", Changed("volume", element["volume"])) /\ IsUp("mixer")
      <4>1. element = [p \in Properties |-> element[p]]
        BY <2>1 DEF ToldInTheEnd, IsLevels
      <4>2. element' = [element EXCEPT !["volume"] = element["volume"]]
        BY <3>1, <4>1
      <4>3. /\ box'["mixer"] = Append(box["mixer"], Changed("volume", element["volume"]))
            /\ box'["core"] = box["core"] /\ box'["http"] = box["http"]
        BY <2>4, <3>4
      <4>. QED BY <2>0, <3>1, <4>2, <4>3, AudioTells
    <3>. QED BY <3>1, <3>2, <3>3, <3>4
  <2>9. CASE AudioStops(main.mixer)
    BY <2>9, NoStop DEF AudioStops
  <2>. QED BY <1>2, <2>5, <2>6, <2>7, <2>8, <2>9 DEF AudioThread, AudioActs
<1>. QED BY <1>1, <1>2

LEMMA CoreKeeps ==
    ASSUME IInv, TellInv, CoreThread
    PROVE  TellInv'
<1>0. main' = main /\ httpVars' = httpVars
  BY DEF CoreThread, serverVars
<1>. SUFFICES ASSUME BeforeStop PROVE TellInv'
  BY <1>0 DEF TellInv, BeforeStop
<1>1. /\ Post(box, answers) /\ DOMAIN box = Actors /\ Relays \subseteq Actors
      /\ {"mixer", "audio", "core", "http"} \subseteq Actors
  BY BeforeFacts
<1>2. ASSUME UNCHANGED <<element, status>>, \A a \in Relays : Quietly(box[a], box'[a])
      PROVE  TellInv'
  <2>1. UNCHANGED ClientView
    BY <1>0, <1>2 DEF ClientView, httpVars
  <2>. QED BY <1>0, <1>2, <2>1, QuietStep
<1>3. ASSUME IsAJob
      PROVE  box["core"] # << >> /\ Job.type \in {"setup", "teardown", "request"} /\ FitsCore(Job)
  BY <1>3, HasAJob
<1>4. CASE CoreLoads(Restores) \/ CoreGets(Restores)
  <2>1. UNCHANGED <<element, status, box>>
    BY <1>4 DEF CoreLoads, CoreGets, actorVars, mixerVars
  <2>. QED BY <1>2, <2>1, QuietSame
<1>5. CASE CoreFinishes(Restores) \/ CoreRefuses
  <2>1. IsAJob /\ UNCHANGED <<element, status>> /\ box' = Taken("core")
    BY <1>5 DEF CoreFinishes, CoreRefuses, mixerVars
  <2>2. box["core"] # << >> /\ Head(box["core"]).type # "changed"
    BY <1>3, <2>1 DEF Job
  <2>. QED BY <1>1, <1>2, <2>1, <2>2, QuietTaken
<1>6. CASE CoreAsks(Restores, main.mixer)
  <2>. DEFINE call == Head(Left(Restores))
              m == Message(call.type, "core", call.arg)
  <2>1. /\ IsAJob /\ Left(Restores) # << >> /\ UNCHANGED <<element, status>>
        /\ box' = box \/ box' = Put(box, call.to, m)
    BY <1>6 DEF CoreAsks, actorVars, mixerVars
  <2>2. IsSeq(core.got)
    BY DEF IInv, TypeInv, IsCore
  <2>3. Asks(call)
    BY <1>3, <2>1, <2>2, LeftFacts
  <2>4. m.type = call.type
    BY MessageFacts
  <2>. HIDE DEF call, m
  <2>5. call.to \in Actors /\ m.type \notin {"changed", "stop"}
    BY <1>1, <2>3, <2>4 DEF Asks
  <2>. QED BY <1>1, <1>2, <2>1, <2>5, QuietSame, QuietPut
<1>7. CASE CoreForwards
  BY <1>0, <1>7, CoreTellsOn
<1>8. CASE CoreStops
  BY <1>8, NoStop DEF CoreStops
<1>. QED BY <1>4, <1>5, <1>6, <1>7, <1>8 DEF CoreThread, CoreActs

LEMMA OthersKeep ==
    ASSUME IInv, TellInv, BackendThread \/ HttpThread
    PROVE  TellInv'
<1>0. main' = main /\ mixerVars' = mixerVars
  BY DEF BackendThread, BackendStops, HttpThread, serverVars
<1>. SUFFICES ASSUME BeforeStop PROVE TellInv'
  BY <1>0 DEF TellInv, BeforeStop
<1>1. /\ Post(box, answers) /\ DOMAIN box = Actors /\ Relays \subseteq Actors /\ DOMAIN status = Actors
      /\ {"mixer", "audio", "core", "http"} \subseteq Actors
      /\ StaysUp /\ Listeners /\ Openings /\ ToldInTheEnd
  BY BeforeFacts
<1>2. CASE BackendThread
  <2>1. PICK a \in Backends : BackendStops(a) /\ httpVars' = httpVars
    BY <1>2 DEF BackendThread
  <2>2. a \in Actors /\ a \notin {"mixer", "audio", "core", "http"}
    BY NamesAssumption DEF Actors
  <2>3. \A b \in {"core", "http"} : status'[b] = status[b]
    BY <1>1, <2>1, <2>2 DEF BackendStops, Stops
  <2>4. \A b \in Relays : box'[b] = box[b]
    BY <1>1, <2>1, <2>2 DEF BackendStops, Relays
  <2>5. UNCHANGED ClientView
    BY <1>0, <2>1 DEF ClientView, httpVars, mixerVars
  <2>. QED BY <1>0, <2>3, <2>4, <2>5, QuietSame, QuietStep
<1>3. CASE HttpStarts
  <2>0. DOMAIN web = {"state", "callbacks", "clients", "job", "left"}
    BY DEF IInv, TypeInv, IsWeb
  <2>1. /\ status["http"] = "starting" /\ status' = [status EXCEPT !["http"] = "running"]
        /\ box' = box /\ UNCHANGED <<scripts, open, told>>
        /\ web'.state = "starting" /\ web'.callbacks = web.callbacks /\ web'.clients = web.clients
    BY <1>3, <2>0 DEF HttpStarts
  <2>2. StaysUp'
    BY <1>0, <1>1, <2>1 DEF StaysUp
  <2>3. open = {}
    BY <1>1, <2>1 DEF StaysUp, Listeners
  <2>4. Listeners' /\ Openings'
    BY <1>1, <2>1, <2>3 DEF Listeners, Openings
  <2>5. ToldInTheEnd'
    BY <1>0, <1>1, <2>1 DEF ToldInTheEnd, IsTold, IsLevels, mixerVars
  <2>. QED BY <2>2, <2>4, <2>5 DEF TellInv
<1>4. CASE HttpHearsEvent
  BY <1>0, <1>4, HttpHears
<1>5. CASE HttpStops
  BY <1>5, NoStop DEF HttpStops
<1>. QED BY <1>2, <1>3, <1>4, <1>5 DEF HttpThread, HttpActs

-----------------------------------------------------------------------------
(* The main thread. *)

LEMMA MainAtKept ==
    ASSUME TellInv, BeforeStop, UNCHANGED ClientView, StaysUp',
           \A a \in Relays : Quietly(box[a], box'[a])
    PROVE  TellInv'
<1>1. ToldInTheEnd'
  BY UnderWayKept, PathKept DEF TellInv, Quietly
<1>. QED BY <1>1, ListenersSame DEF TellInv

LEMMA MainKeeps ==
    ASSUME IInv, TellInv, Configure \/ MainActs
    PROVE  TellInv'
<1>1. UNCHANGED ClientView /\ web' = web
  BY DEF Configure, MainActs, ClientView, httpVars, mixerVars
<1>2. main \in MainType /\ status \in [Actors -> Statuses] /\ NotStarted /\ NobodyThere(box)
  BY MainFacts
<1>3. CASE ~BeforeStop'
  BY <1>3 DEF TellInv
<1>4. CASE MainStops
  BY <1>4, StopsStay, <1>3
<1>5. CASE BeforeStop /\ BeforeStop' /\ ~MainStops
  <2>1. /\ Post(box, answers) /\ DOMAIN box = Actors /\ Relays \subseteq Actors
        /\ {"mixer", "audio", "core", "http"} \subseteq Actors /\ DOMAIN status = Actors /\ StaysUp
    BY <1>5, BeforeFacts
  <2>2. CASE box' = box /\ StaysUp'
    BY <1>1, <1>5, <2>2, MainAtKept, QuietSame
  <2>3. CASE Configure
    <3>1. main.at = "config" /\ main'.at = "mixer" /\ status' = status /\ box' = box
      BY <1>2, <1>5, <2>3, GoFacts DEF Configure, actorVars, BeforeStop, Starting
    <3>2. StaysUp'
      BY <1>1, <2>1, <3>1 DEF StaysUp
    <3>. QED BY <2>2, <3>1, <3>2
  <2>4. CASE \E configured, volume, fails : StartMixer(configured, volume, fails)
    <3>1. PICK configured, volume, fails : StartMixer(configured, volume, fails)
      BY <2>4
    <3>2. /\ main.at = "mixer" /\ main'.at = "audio"
          /\ \A a \in {"core", "http"} : status'[a] = status[a] /\ box'[a] = box[a]
          /\ \/ box'["mixer"] = box["mixer"]
             \/ \E arg : box'["mixer"] = <<Message("set", None, arg)>>
      BY <1>2, <2>1, <3>1 DEF StartMixer, Go, MainType
    <3>3. box["mixer"] = << >>
      BY <1>2, <2>1, <3>2 DEF NotStarted, Early, NobodyThere, IsUp
    <3>4. Quietly(box["mixer"], box'["mixer"])
      <4>1. CASE box'["mixer"] = box["mixer"]
        BY <4>1, QuietSame
      <4>2. ASSUME NEW arg, box'["mixer"] = <<Message("set", None, arg)>>
            PROVE  Quietly(box["mixer"], box'["mixer"])
        <5>1. Message("set", None, arg).type \notin {"changed", "stop"}
          BY DEF Message
        <5>. QED BY <3>3, <4>2, <5>1, QuietFirst
      <4>. QED BY <3>2, <4>1, <4>2
    <3>5. \A a \in Relays : Quietly(box[a], box'[a])
      BY <3>2, <3>4, QuietSame DEF Relays
    <3>6. StaysUp'
      BY <1>1, <2>1, <3>2 DEF StaysUp
    <3>. QED BY <1>1, <1>5, <3>5, <3>6, MainAtKept
  <2>5. CASE StartAudio
    <3>1. main.at = "audio" /\ main'.at = "backends" /\ box' = box
          /\ \A a \in {"core", "http"} : status'[a] = status[a]
      BY <1>2, <2>1, <2>5 DEF StartAudio, Go, MainType
    <3>2. StaysUp'
      BY <1>1, <2>1, <3>1 DEF StaysUp
    <3>. QED BY <2>2, <3>1, <3>2
  <2>6. CASE \E registered \in SUBSET Backends : \E fails, dies : StartBackends(registered, fails, dies)
    <3>0. "core" \notin Backends /\ "http" \notin Backends
      BY NamesAssumption
    <3>1. main.at = "backends" /\ main'.at = "core" /\ box' = box
          /\ \A a \in {"core", "http"} : status'[a] = status[a]
      BY <1>2, <2>1, <2>6, <3>0 DEF StartBackends, Go, MainType
    <3>2. StaysUp'
      BY <1>1, <2>1, <3>1 DEF StaysUp
    <3>. QED BY <2>2, <3>1, <3>2
  <2>7. CASE \E schemes : StartCore(schemes)
    <3>1. /\ main.at = "core" /\ main'.at = "setup" /\ status' = [status EXCEPT !["core"] = "running"]
          /\ box' = [box EXCEPT !["core"] = <<Message("setup", "main", None)>>]
      BY <1>2, <1>5, <2>7, GoFacts DEF StartCore, BeforeStop, Starting, Stopping
    <3>2. box["core"] = << >>
      BY <1>2, <2>1, <3>1 DEF NotStarted, Early, NobodyThere, IsUp
    <3>3. Quietly(box["core"], box'["core"])
      BY <2>1, <3>1, <3>2, QuietFirst, MessageFacts
    <3>4. \A a \in Relays : Quietly(box[a], box'[a])
      BY <2>1, <3>1, <3>3, QuietSame
    <3>5. StaysUp'
      BY <1>1, <2>1, <3>1, <3>3 DEF StaysUp, Quietly
    <3>. QED BY <1>1, <1>5, <3>4, <3>5, MainAtKept
  <2>8. CASE CoreSetUp
    <3>1. main.at = "setup" /\ main'.at = "frontends" /\ status' = status /\ box' = box
      BY <1>2, <2>8 DEF CoreSetUp, Go, MainType
    <3>2. StaysUp'
      BY <1>1, <2>1, <3>1 DEF StaysUp
    <3>. QED BY <2>2, <3>1, <3>2
  <2>9. CASE \E configured, fails : StartFrontends(configured, fails)
    <3>1. /\ main.at = "frontends" /\ main'.at = "loop" /\ box' = box
          /\ status'["core"] = status["core"] /\ status'["http"] \in {status["http"], "starting"}
      BY <1>2, <2>1, <2>9 DEF StartFrontends, Go, MainType
    <3>2. status["http"] = "none" /\ web.state = "none"
      BY <2>1, <3>1 DEF StaysUp
    <3>3. StaysUp'
      BY <1>1, <2>1, <3>1, <3>2 DEF StaysUp
    <3>. QED BY <2>2, <3>1, <3>3
  <2>10. Enabled(conf.statuses) \intersect Backends \in SUBSET Backends
    OBVIOUS
  <2>. QED BY <1>5, <2>3, <2>4, <2>5, <2>6, <2>7, <2>8, <2>9, <2>10 DEF MainActs, MainStarts
<1>. QED BY <1>3, <1>4, <1>5, BeforeAtStart DEF MainActs
-----------------------------------------------------------------------------
(* Every step. *)

LEMMA NextKeepsTellInv ==
    ASSUME IInv, TellInv, [Next]_vars
    PROVE  TellInv'
<1>1. CASE Signals
  <2>1. ~BeforeStop'
    <3>1. CASE Interrupt
      <4>1. IsMain /\ main' = Interrupted
        BY <3>1 DEF IInv, StaffInv, Interrupt
      <4>2. BeforeStop => main'.at \in {"ended", "stop_frontends"}
        BY <4>1, InterruptedPlace
      <4>3. ~BeforeStop => main'.at \notin Starting \union {"config"}
        BY <4>1, InterruptedPlace
      <4>. QED BY <4>2, <4>3 DEF BeforeStop, Starting
    <3>2. CASE Terminate
      BY <3>2, MainFacts, GoFacts DEF Terminate, BeforeStop, Starting, Stopping
    <3>. QED BY <1>1, <3>1, <3>2 DEF Signals
  <2>. QED BY <2>1 DEF TellInv
<1>2. CASE UNCHANGED vars
  <2>1. UNCHANGED <<main, status, box, web, scripts, open, told, element>>
    BY <1>2 DEF vars, actorVars, serverVars, mixerVars, httpVars
  <2>. QED BY <2>1 DEF TellInv, BeforeStop, StaysUp, Listeners, Openings, ToldInTheEnd, IsTold, IsLevels
<1>. QED BY <1>1, <1>2, MainKeeps, AudioKeeps, MixerKeeps, CoreKeeps, OthersKeep, WebKeeps, ClientsKeep
         DEF Next, Over

LEMMA InitGivesTellInv ==
    ASSUME Init
    PROVE  TellInv
<1>1. /\ setting \in Settings /\ main.at = "config" /\ status = [a \in Actors |-> "none"]
      /\ box = [a \in Actors |-> << >>] /\ element = Unset
      /\ web.state = "none" /\ web.callbacks = << >> /\ web.clients = {}
      /\ scripts = setting.script /\ open = {} /\ told = [c \in Clients |-> Unset]
  BY DEF Init, ActorsInit, ServerInit, MixerInit, HttpInit
<1>2. {"mixer", "core", "http"} \subseteq Actors
  BY RelaysAreActors DEF Relays
<1>3. /\ IsSeq(<< >>) /\ Range(<< >>) = {} /\ DOMAIN << >> = {}
      /\ \A type : Lacks(<< >>, type)
  BY EmptyFacts, EmptyLacks
<1>4. StaysUp
  BY <1>1, <1>2, <1>3 DEF StaysUp, Starting
<1>5. Listeners
  BY <1>1, <1>3, FS_EmptySet DEF Listeners
<1>6. Openings
  BY <1>1, <1>3, OpeningsAssumption DEF Openings, NoCall
<1>7. \A p : NoneUnderWay(box, p)
  BY <1>1, <1>2, <1>3 DEF NoneUnderWay, NoneTold
<1>8. ToldInTheEnd
  BY <1>1, <1>7 DEF ToldInTheEnd, IsLevels, Unset
<1>. QED BY <1>4, <1>5, <1>6, <1>8 DEF TellInv

\* Once all is quiet, nothing is under way, so each client was told of the last.
LEMMA QuietGivesReal ==
    ASSUME TellInv, IsQuiet, NEW c \in open
    PROVE  told[c] = element
<1>1. BeforeStop
  BY DEF IsQuiet, BeforeStop, Starting
<1>2. Listeners /\ ToldInTheEnd
  BY <1>1 DEF TellInv
<1>3. /\ \A a \in Actors : box[a] = << >>
      /\ web.callbacks = << >> /\ DOMAIN << >> = {} /\ Relays \subseteq Actors
  BY EmptyFacts, RelaysAreActors DEF IsQuiet
<1>4. ASSUME NEW p \in Properties PROVE told[c][p] = element[p]
  <2>1. \A level : ~IsUnderWay(box, p, level)
    BY <1>3 DEF IsUnderWay, LastTold, Relays
  <2>2. EndsWith(web.callbacks, c, p, told[c][p], element[p])
    BY <1>2, <1>4, <2>1 DEF ToldInTheEnd, IsTold
  <2>. QED BY <1>3, <2>2 DEF EndsWith, LastCall
<1>5. c \in Clients /\ IsLevels(told[c]) /\ IsLevels(element)
  BY <1>2 DEF Listeners, ToldInTheEnd
<1>. QED BY <1>4, <1>5 DEF IsLevels

\* Once all is quiet, every client with a WebSocket knows the volume and mute
\* it would be told if it asked, whenever it opened the WebSocket, and whatever
\* was set meanwhile by whom (WebSocketHandler.broadcast, HttpFrontend.on_event).
THEOREM AppTellsWhatIsReal == Spec => []ToldIsReal
<1>1. Init => TellInv
  BY InitGivesTellInv
<1>2. IInv /\ TellInv /\ [Next]_vars => TellInv'
  BY NextKeepsTellInv
<1>3. TellInv => ToldIsReal
  BY QuietGivesReal DEF ToldIsReal
<1>. QED BY <1>1, <1>2, <1>3, AlwaysIInv, PTL DEF Spec

-----------------------------------------------------------------------------
(* What is answered.                                                       *)

\* A message is answered request by request.
IdOf(request) == IF IsInvalid(request) THEN None ELSE request.id

Answerable(requests) == {r \in Range(requests) : IsInvalid(r) \/ ~IsNotification(r)}

InTheirOrder(responses, requests) ==
    /\ Len(responses) = Len(requests)
    /\ \A i \in 1 .. Len(requests) : responses[i].id = IdOf(requests[i])

JobInv ==
    web.job # NoJob =>
        LET requests == web.job.message.requests
            done == SubSeq(requests, 1, web.job.at - 1)
        IN  /\ web.job.at \in 1 .. Len(requests) + 1
            /\ \A i \in 1 .. web.job.at - 1 : ~Raises(requests[i])
            /\ IsSeq(web.job.responses)
            /\ InTheirOrder(web.job.responses, Chosen(done, Answerable(requests)))

\* The thread waits for core only with a request that is called and answered.
AsksToAnswer ==
    ~IsFree("web") => HasMoreRequests /\ CanBeCalled /\ ~IsNotification(Current)

ReplyIsFull ==
    reply # NoReply =>
        IF \E i \in DOMAIN reply.message.requests : Raises(reply.message.requests[i])
        THEN reply.isLost /\ reply.responses = << >>
        ELSE [i \in DOMAIN reply.responses |-> reply.responses[i].id]
                 = AnsweredIds(reply.message)

ReplyInv == JobInv /\ AsksToAnswer /\ ReplyIsFull

LEMMA AnswerFacts ==
    ASSUME NEW request, NEW result
    PROVE  IF IsInvalid(request) \/ ~IsNotification(request)
           THEN \E x : x.id = IdOf(request) /\ Answer(request, result) = <<x>>
           ELSE Answer(request, result) = << >>
<1>1. ASSUME IsInvalid(request)
      PROVE  \E x : x.id = IdOf(request) /\ Answer(request, result) = <<x>>
  <2>. DEFINE x == Response(None, Failed("invalid_request"))
  <2>1. x.id = None
    BY DEF Response
  <2>. HIDE DEF x
  <2>2. IdOf(request) = None
    BY <1>1 DEF IdOf
  <2>3. Answer(request, result) = <<x>>
    BY <1>1 DEF Answer, x
  <2>. QED BY <2>1, <2>2, <2>3
<1>2. ASSUME ~IsInvalid(request), ~IsNotification(request)
      PROVE  \E x : x.id = IdOf(request) /\ Answer(request, result) = <<x>>
  <2>. DEFINE x == Response(request.id, result)
  <2>1. x.id = request.id
    BY DEF Response
  <2>. HIDE DEF x
  <2>2. IdOf(request) = request.id
    BY <1>2 DEF IdOf
  <2>3. Answer(request, result) = <<x>>
    BY <1>2 DEF Answer, x
  <2>. QED BY <2>1, <2>2, <2>3
<1>3. ~IsInvalid(request) /\ IsNotification(request) => Answer(request, result) = << >>
  BY DEF Answer
<1>. QED BY <1>1, <1>2, <1>3

LEMMA NextInSeq ==
    ASSUME NEW X, NEW s \in Seq(X), NEW n \in Nat, n < Len(s)
    PROVE  /\ SubSeq(s, 1, n) \in Seq(X) /\ s[n + 1] \in X
           /\ SubSeq(s, 1, n + 1) = Append(SubSeq(s, 1, n), s[n + 1])
<1>1. Len(s) \in Nat /\ \A i \in 1 .. Len(s) : s[i] \in X
  OBVIOUS
<1>2. SubSeq(s, 1, n) \in Seq(X) /\ s[n + 1] \in X
  <2>1. n \in Int /\ 1 \in Int /\ \A i \in 1 .. n : s[i] \in X
    BY <1>1
  <2>. QED BY <1>1, <2>1, SubSeqProperties
<1>3. SubSeq(s, 1, n + 1) = SubSeq(s, 1, (n + 1) - 1) \o <<s[n + 1]>>
  <2>1. 1 \in 1 .. Len(s) /\ n + 1 \in 1 .. Len(s)
    BY <1>1
  <2>. QED BY <2>1, SubSeqRecursiveSecond
<1>4. (n + 1) - 1 = n
  OBVIOUS
<1>5. Append(SubSeq(s, 1, n), s[n + 1]) = SubSeq(s, 1, n) \o <<s[n + 1]>>
  BY <1>2, AppendIsConcat
<1>. QED BY <1>2, <1>3, <1>4, <1>5

\* One more request is answered, or needs no answer.
LEMMA OneMoreAnswered ==
    ASSUME NEW requests, IsSeq(requests), NEW n \in Nat, n < Len(requests),
           NEW responses, IsSeq(responses),
           InTheirOrder(responses, Chosen(SubSeq(requests, 1, n), Answerable(requests))),
           NEW result, NEW more, more = responses \o Answer(requests[n + 1], result)
    PROVE  /\ IsSeq(more)
           /\ InTheirOrder(more, Chosen(SubSeq(requests, 1, n + 1), Answerable(requests)))
<1>. DEFINE X == Range(requests)
            S == Answerable(requests)
            done == SubSeq(requests, 1, n)
            now == requests[n + 1]
            chosen == Chosen(done, S)
<1>1. done \in Seq(X) /\ now \in X /\ SubSeq(requests, 1, n + 1) = Append(done, now)
  BY NextInSeq DEF IsSeq
<1>2. chosen \in Seq(X)
  BY <1>1, ChosenType
<1>3. Chosen(Append(done, now), S) = IF now \in S THEN Append(chosen, now) ELSE chosen
  <2>. HIDE DEF X, S, done, now
  <2>. QED BY <1>1, ChosenOfAppend
<1>4. now \in S <=> IsInvalid(now) \/ ~IsNotification(now)
  BY <1>1 DEF Answerable
<1>5. InTheirOrder(responses, chosen) /\ more = responses \o Answer(now, result)
  OBVIOUS
<1>. HIDE DEF X, S, done, now, chosen
<1>6. CASE now \in S
  <2>1. PICK x : x.id = IdOf(now) /\ Answer(now, result) = <<x>>
    BY <1>4, <1>6, AnswerFacts
  <2>2. more = Append(responses, x)
    BY <1>5, <2>1 DEF IsSeq
  <2>. DEFINE full == Append(chosen, now)
  <2>3. IsSeq(chosen)
    BY <1>2, IsSeqIn
  <2>4. /\ IsSeq(more) /\ Len(more) = Len(responses) + 1 /\ more[Len(responses) + 1] = x
        /\ Len(responses) \in Nat
        /\ \A i \in 1 .. Len(responses) : more[i] = responses[i]
    BY <2>2, AppendFacts
  <2>5. /\ Len(full) = Len(chosen) + 1 /\ full[Len(chosen) + 1] = now
        /\ \A i \in 1 .. Len(chosen) : full[i] = chosen[i]
    BY <2>3, AppendFacts
  <2>. HIDE DEF full
  <2>6. InTheirOrder(more, full)
    BY <1>5, <2>1, <2>4, <2>5 DEF InTheirOrder
  <2>. QED BY <1>1, <1>3, <1>6, <2>4, <2>6 DEF full, done, S
<1>7. CASE now \notin S
  <2>1. Answer(now, result) = << >>
    BY <1>4, <1>7, AnswerFacts
  <2>2. more = responses
    BY <1>5, <2>1 DEF IsSeq
  <2>. QED BY <1>1, <1>3, <1>5, <1>7, <2>2 DEF done, S
<1>. QED BY <1>6, <1>7

LEMMA JobGoesOn ==
    ASSUME IsWeb, JobInv, HasMoreRequests, ~Raises(Current), NEW r, web'.job = WithAnswer(r)
    PROVE  JobInv'
<1>. DEFINE requests == web.job.message.requests
            n == web.job.at - 1
<1>1. /\ web.job # NoJob /\ web.job.at <= Len(requests)
      /\ requests \in Seq(Range(requests)) /\ web.job.at \in Nat \ {0}
      /\ DOMAIN web.job = {"client", "socket", "message", "at", "responses"}
  BY DEF HasMoreRequests, IsWeb, IsCallable
<1>2. /\ web'.job.message = web.job.message /\ web'.job.at = web.job.at + 1
      /\ web'.job.responses = web.job.responses \o Answer(Current, r)
  BY <1>1 DEF WithAnswer
<1>3. /\ IsSeq(web.job.responses)
      /\ InTheirOrder(web.job.responses, Chosen(SubSeq(requests, 1, n), Answerable(requests)))
      /\ \A i \in 1 .. n : ~Raises(requests[i])
  BY <1>1 DEF JobInv
<1>4. /\ n \in Nat /\ n < Len(requests) /\ Len(requests) \in Nat
      /\ web.job.at = n + 1 /\ web'.job.at - 1 = n + 1
  BY <1>1, <1>2
<1>5. Current = requests[n + 1]
  BY <1>4 DEF Current
<1>. DEFINE more == web'.job.responses
<1>6. more = web.job.responses \o Answer(requests[n + 1], r) /\ IsSeq(requests)
  BY <1>1, <1>2, <1>5 DEF IsSeq
<1>. HIDE DEF n
<1>7. /\ IsSeq(more)
      /\ InTheirOrder(more, Chosen(SubSeq(requests, 1, n + 1), Answerable(requests)))
  <2>. HIDE DEF requests, more
  <2>. QED BY <1>3, <1>4, <1>6, OneMoreAnswered DEF requests
<1>8. \A i \in 1 .. n + 1 : ~Raises(requests[i])
  BY <1>3, <1>4, <1>5
<1>9. web'.job.at \in 1 .. Len(requests) + 1
  BY <1>1, <1>2
<1>. QED BY <1>2, <1>4, <1>7, <1>8, <1>9 DEF JobInv

-----------------------------------------------------------------------------
(* Core is gone before the mixer and audio are, and is set up before the web
   server serves. *)

CoreDown ==
    /\ main.at \in {"stop_backends", "stop_audio", "stop_mixer", "stop_remaining"} => ~IsUp("core")
    /\ ~Undisturbed => ~IsUp("core")

BeforeWeb == main.at \in {"config", "mixer", "audio", "backends", "core", "setup", "frontends"}

SetUpFirst ==
    /\ web.state # "serving" => web.job = NoJob
    /\ status["http"] \in {"none", "starting"} => web.state = "none"
    /\ BeforeWeb \/ ~Lacks(box["core"], "setup") => status["http"] = "none"
    /\ main.at = "setup" => \A m \in Range(box["core"]) : m.type = "setup" => m.from = "main"
    /\ main.at = "frontends" => Lacks(box["core"], "setup")

\* What nobody asked for is not set, nor will be.
LevelsWanted ==
    \A p \in Properties : wanted[p] = None =>
        /\ element[p] = None /\ mixer.initial[p] = None
        /\ \A m \in Range(box["audio"]) : ~Sets(m, p)

IsGet(m) == m.type = "request" /\ m.arg.method = "get"

WellAsked ==
    /\ \A m \in Range(box["mixer"]) :
          /\ m.type = "set" => m.arg.level # None
          /\ m.type = "get" => m.arg.property \in Properties
    /\ \A m \in Range(box["core"]) : IsGet(m) => m.arg.property \in Properties

MixerTold ==
    /\ AsksAfterSets(box["mixer"], "core")
    /\ ~IsFree("mixer") => mixer.setup
    /\ answers["mixer"].state = "value" =>
          answers["mixer"].value \in {None, wanted[Head(box["mixer"]).arg.property]}

\* A value that is answered holds, and goes on to, as nothing more is set.
Holds(value, level, b) == value = None \/ (value = level /\ Lacks(b, "set"))

CoreTold ==
    box["core"] # << >> /\ IsGet(Job) =>
        LET p == Job.arg.property
        IN  /\ \A m \in Range(box["mixer"]) :
                  m.from = "core" => m.type = "get" /\ m.arg.property = p
            /\ answers["core"].state = "value" => Holds(answers["core"].value, wanted[p], box["mixer"])
            /\ core.got # << >> =>
                  Len(core.got) = 1 /\ Holds(core.got[1], wanted[p], box["mixer"]) /\ IsFree("core")

NoneAfter(b, x, type) ==
    \A i, j \in DOMAIN b : b[i].from = x /\ j > i => b[j].type # type

\* No request is in the mailbox after that of the web server.
WebTold ==
    ~IsFree("web") =>
        /\ NoneAfter(box["core"], "web", "request")
        /\ \A m \in Range(box["core"]) : m.from = "web" => m.arg = Current.call
        /\ IsAnswered("web") => Lacks(box["core"], "request")
        /\ answers["web"].state = "value" /\ Current.call.method = "get" =>
              Holds(answers["web"].value, wanted[Current.call.property], box["mixer"])

LevelInv == LevelsWanted /\ WellAsked /\ MixerTold /\ CoreTold
TrueInv == ReplyInv /\ CoreDown /\ SetUpFirst /\ LevelInv /\ WebTold
-----------------------------------------------------------------------------
(* Mailboxes that nobody puts a request, a question or a level in. *)

IsNews(m) == m.type \in {"changed", "adapter", "teardown", "stop"} /\ m.from \in {None, "main"}

\* Mailbox b with the requests of the main thread forgotten.
Renamed(b, d) ==
    /\ DOMAIN d = DOMAIN b
    /\ \A i \in DOMAIN b :
          /\ d[i].type = b[i].type /\ d[i].arg = b[i].arg
          /\ d[i].from = IF b[i].from = "main" THEN None ELSE b[i].from

\* Mailbox b becomes d.
Forward(b, d) ==
    /\ IsSeq(b) /\ IsSeq(d)
    /\ \/ d = b \/ d = << >> \/ (b # << >> /\ d = Tail(b))
       \/ \E m : IsNews(m) /\ d = Append(b, m)

Onward(b, d) == Forward(b, d) \/ (IsSeq(b) /\ IsSeq(d) /\ Renamed(b, d))

LEMMA ForwardMessages ==
    ASSUME NEW b, NEW d, Forward(b, d), NEW m \in Range(d)
    PROVE  IsNews(m) \/ m \in Range(b)
<1>1. CASE d = b \/ d = << >>
  BY <1>1, EmptyFacts
<1>2. CASE b # << >> /\ d = Tail(b)
  BY <1>2, TailFacts DEF Forward
<1>3. CASE \E k : IsNews(k) /\ d = Append(b, k)
  BY <1>3, AppendFacts DEF Forward
<1>. QED BY <1>1, <1>2, <1>3 DEF Forward

LEMMA OnwardMessages ==
    ASSUME NEW b, NEW d, Onward(b, d), NEW m \in Range(d)
    PROVE  \/ IsNews(m)
           \/ \E k \in Range(b) : /\ k.type = m.type /\ k.arg = m.arg
                                  /\ m.from \notin {None, "main"} => k.from = m.from
<1>1. CASE Forward(b, d)
  BY <1>1, ForwardMessages
<1>2. CASE Renamed(b, d)
  <2>1. PICK i \in DOMAIN d : m = d[i]
    BY DEF Range
  <2>2. b[i] \in Range(b)
    BY <1>2, <2>1 DEF Renamed, Range
  <2>. QED BY <1>2, <2>1, <2>2 DEF Renamed
<1>. QED BY <1>1, <1>2 DEF Onward

LEMMA OnwardLacks ==
    ASSUME NEW b, NEW d, Onward(b, d), NEW type \in {"set", "get", "request", "setup"}, Lacks(b, type)
    PROVE  Lacks(d, type)
<1>1. SUFFICES ASSUME NEW m \in Range(d) PROVE m.type # type
  BY DEF Lacks
<1>. QED BY OnwardMessages DEF Lacks, IsNews

LEMMA OnwardOrder ==
    ASSUME NEW b, NEW d, Onward(b, d), NEW x \in {"core", "web"}, NEW type \in {"set", "request"},
           NoneAfter(b, x, type)
    PROVE  NoneAfter(d, x, type)
<1>1. CASE d = b \/ d = << >>
  BY <1>1, EmptyFacts DEF NoneAfter
<1>2. CASE b # << >> /\ d = Tail(b)
  <2>1. /\ Len(b) \in Nat /\ DOMAIN b = 1 .. Len(b) /\ DOMAIN d = 1 .. Len(b) - 1
        /\ \A i \in 1 .. Len(b) - 1 : d[i] = b[i + 1]
    BY <1>2, TailFacts DEF Onward, Forward
  <2>2. ASSUME NEW i \in DOMAIN d, NEW j \in DOMAIN d, d[i].from = x, j > i
        PROVE  d[j].type # type
    <3>1. i + 1 \in DOMAIN b /\ j + 1 \in DOMAIN b /\ j + 1 > i + 1
      BY <2>1, <2>2
    <3>. QED BY <2>1, <2>2, <3>1 DEF NoneAfter
  <2>. QED BY <2>2 DEF NoneAfter
<1>3. CASE Renamed(b, d)
  <2>1. None # x
    BY NamesAssumption DEF Askers
  <2>. QED BY <1>3, <2>1 DEF Renamed, NoneAfter
<1>4. CASE \E m : IsNews(m) /\ d = Append(b, m)
  <2>1. PICK m : IsNews(m) /\ d = Append(b, m)
    BY <1>4
  <2>2. /\ Len(b) \in Nat /\ DOMAIN b = 1 .. Len(b) /\ DOMAIN d = 1 .. Len(b) + 1
        /\ d[Len(b) + 1] = m /\ \A i \in 1 .. Len(b) : d[i] = b[i]
    BY <2>1, AppendFacts DEF Onward, Forward
  <2>3. m.type # type
    BY <2>1 DEF IsNews
  <2>4. ASSUME NEW i \in DOMAIN d, NEW j \in DOMAIN d, d[i].from = x, j > i
        PROVE  d[j].type # type
    <3>1. i \in DOMAIN b
      BY <2>2, <2>4
    <3>2. CASE j = Len(b) + 1
      BY <2>2, <2>3, <3>2
    <3>3. CASE j # Len(b) + 1
      <4>1. j \in DOMAIN b
        BY <2>2, <3>3
      <4>. QED BY <2>2, <2>4, <3>1, <4>1 DEF NoneAfter
    <3>. QED BY <3>2, <3>3
  <2>. QED BY <2>4 DEF NoneAfter
<1>. QED BY <1>1, <1>2, <1>3, <1>4 DEF Onward, Forward

LEMMA OnwardAsks ==
    ASSUME NEW b, NEW d, Onward(b, d), AsksAfterSets(b, "core")
    PROVE  AsksAfterSets(d, "core")
<1>1. NoneAfter(b, "core", "set")
  BY DEF AsksAfterSets, NoneAfter
<1>2. NoneAfter(d, "core", "set")
  BY <1>1, OnwardOrder
<1>. QED BY <1>2 DEF AsksAfterSets, NoneAfter
-----------------------------------------------------------------------------
(* What a step leaves as it is. *)

NothingSet == Lacks(box["mixer"], "set") => Lacks(box'["mixer"], "set") /\ wanted' = wanted

LEMMA HoldsOn ==
    ASSUME NothingSet, NEW value, NEW p, Holds(value, wanted[p], box["mixer"])
    PROVE  Holds(value, wanted'[p], box'["mixer"])
BY DEF NothingSet, Holds

LEMMA LevelsKept ==
    ASSUME LevelsWanted, Onward(box["audio"], box'["audio"]), wanted' = wanted, element' = element,
           mixer'.initial = mixer.initial
    PROVE  LevelsWanted'
<1>1. ASSUME NEW p \in Properties, wanted[p] = None, NEW m \in Range(box'["audio"])
      PROVE  ~Sets(m, p)
  BY <1>1, OnwardMessages DEF LevelsWanted, Sets, IsNews
<1>. QED BY <1>1 DEF LevelsWanted

LEMMA AskedKept ==
    ASSUME WellAsked, Onward(box["mixer"], box'["mixer"]), Onward(box["core"], box'["core"])
    PROVE  WellAsked'
<1>1. ASSUME NEW m \in Range(box'["mixer"])
      PROVE  /\ m.type = "set" => m.arg.level # None
             /\ m.type = "get" => m.arg.property \in Properties
  BY OnwardMessages DEF WellAsked, IsNews
<1>2. ASSUME NEW m \in Range(box'["core"]), IsGet(m)
      PROVE  m.arg.property \in Properties
  BY <1>2, OnwardMessages DEF WellAsked, IsNews, IsGet
<1>. QED BY <1>1, <1>2 DEF WellAsked

LEMMA MixerToldKept ==
    ASSUME MixerTold, Onward(box["mixer"], box'["mixer"]), ~IsFree("mixer")' => mixer'.setup,
           answers'["mixer"].state = "value" =>
              /\ answers'["mixer"] = answers["mixer"] /\ wanted' = wanted
              /\ Head(box'["mixer"]).arg = Head(box["mixer"]).arg
    PROVE  MixerTold'
BY OnwardAsks DEF MixerTold

LEMMA CoreToldKept ==
    ASSUME CoreTold, Onward(box["mixer"], box'["mixer"]), NothingSet,
           box'["core"] # << >> /\ IsGet(Job)' =>
              box["core"] # << >> /\ IsGet(Job) /\ Job'.arg = Job.arg,
           core'.got = core.got, IsFree("core") => IsFree("core")',
           box["core"] # << >> /\ IsGet(Job) /\ answers'["core"].state = "value" =>
              \/ answers'["core"] = answers["core"]
              \/ Holds(answers'["core"].value, wanted'[Job.arg.property], box'["mixer"])
    PROVE  CoreTold'
<1>. SUFFICES ASSUME box'["core"] # << >>, IsGet(Job)' PROVE CoreTold'
  BY DEF CoreTold
<1>. DEFINE p == Job.arg.property
<1>1. /\ Job'.arg.property = p
      /\ \A m \in Range(box["mixer"]) : m.from = "core" => m.type = "get" /\ m.arg.property = p
      /\ answers["core"].state = "value" => Holds(answers["core"].value, wanted[p], box["mixer"])
      /\ core.got # << >> =>
            Len(core.got) = 1 /\ Holds(core.got[1], wanted[p], box["mixer"]) /\ IsFree("core")
      /\ answers'["core"].state = "value" =>
            \/ answers'["core"] = answers["core"]
            \/ Holds(answers'["core"].value, wanted'[p], box'["mixer"])
  BY DEF CoreTold
<1>. HIDE DEF p
<1>2. \A m \in Range(box'["mixer"]) : m.from = "core" => m.type = "get" /\ m.arg.property = p
  BY <1>1, OnwardMessages, NamesAssumption DEF IsNews, Askers
<1>3. \A value : Holds(value, wanted[p], box["mixer"]) => Holds(value, wanted'[p], box'["mixer"])
  BY HoldsOn
<1>4. answers'["core"].state = "value" => Holds(answers'["core"].value, wanted'[p], box'["mixer"])
  BY <1>1, <1>3
<1>5. core'.got # << >> =>
         Len(core'.got) = 1 /\ Holds(core'.got[1], wanted'[p], box'["mixer"]) /\ IsFree("core")'
  BY <1>1, <1>3
<1>. QED BY <1>1, <1>2, <1>4, <1>5 DEF CoreTold

\* The message that core handles stays the same when others are added.
LEMMA JobStays ==
    ASSUME IsSeq(box["core"]),
           \/ box'["core"] = box["core"] \/ box'["core"] = << >> \/ Renamed(box["core"], box'["core"])
           \/ \E m : IsNews(m) /\ box'["core"] = Append(box["core"], m),
           IsSeq(box'["core"]), box'["core"] # << >>, IsGet(Job)'
    PROVE  box["core"] # << >> /\ IsGet(Job) /\ Job'.arg = Job.arg
<1>1. CASE box'["core"] = box["core"]
  BY <1>1 DEF Job, IsGet
<1>2. CASE Renamed(box["core"], box'["core"])
  <2>1. 1 \in DOMAIN box'["core"] /\ Head(box'["core"]) = box'["core"][1]
    BY SeqFacts
  <2>2. 1 \in DOMAIN box["core"] /\ box["core"] # << >>
    BY <1>2, <2>1, EmptyFacts DEF Renamed
  <2>3. Head(box["core"]) = box["core"][1]
    BY <2>2, SeqFacts
  <2>. QED BY <1>2, <2>1, <2>2, <2>3 DEF Renamed, Job, IsGet
<1>3. ASSUME NEW m, IsNews(m), box'["core"] = Append(box["core"], m)
      PROVE  box["core"] # << >> /\ IsGet(Job) /\ Job'.arg = Job.arg
  BY <1>3, HeadOfAppend DEF Job, IsGet, IsNews
<1>. QED BY <1>1, <1>2, <1>3

\* Core has nothing asked of it, or nothing asked yet.
LEMMA CoreToldIdle ==
    ASSUME IInv', core'.got = << >>, IsFree("core")'
    PROVE  CoreTold'
<1>1. Post(box', answers') /\ "core" \in Askers /\ "mixer" \in Actors
  BY DEF IInv, StaffInv, Mail, Askers, Actors
<1>2. answers'["core"] # Waits /\ answers'["core"].state # "value"
  BY DEF IsFree, Waits
<1>3. NoneFrom(box', "core")
  BY <1>1, <1>2, NothingUnderWay
<1>. QED BY <1>1, <1>2, <1>3 DEF CoreTold, NoneFrom

LEMMA WebToldKept ==
    ASSUME WebTold, Onward(box["core"], box'["core"]), NothingSet, web'.job = web.job,
           answers'["web"] = answers["web"]
    PROVE  WebTold'
<1>. SUFFICES ASSUME ~IsFree("web") PROVE WebTold'
  BY DEF WebTold, IsFree
<1>1. Current' = Current
  BY DEF Current
<1>2. NoneAfter(box'["core"], "web", "request")
  BY OnwardOrder DEF WebTold
<1>3. \A m \in Range(box'["core"]) : m.from = "web" => m.arg = Current.call
  BY OnwardMessages, NamesAssumption DEF WebTold, IsNews, Askers
<1>4. IsAnswered("web") => Lacks(box'["core"], "request")
  BY OnwardLacks DEF WebTold
<1>5. answers["web"].state = "value" /\ Current.call.method = "get" =>
         Holds(answers["web"].value, wanted'[Current.call.property], box'["mixer"])
  BY HoldsOn DEF WebTold
<1>. QED BY <1>1, <1>2, <1>3, <1>4, <1>5 DEF WebTold, IsAnswered

LEMMA DownKept ==
    ASSUME CoreDown, main'.at = main.at, Undisturbed => Undisturbed', IsUp("core")' => IsUp("core")
    PROVE  CoreDown'
BY DEF CoreDown

LEMMA SetUpKept ==
    ASSUME SetUpFirst, main'.at = main.at, web'.state = web.state, web'.job = web.job,
           status'["http"] = status["http"], Forward(box["core"], box'["core"])
    PROVE  SetUpFirst'
<1>1. \A m \in Range(box'["core"]) : m.type = "setup" => m \in Range(box["core"])
  BY ForwardMessages DEF IsNews
<1>. QED BY <1>1 DEF SetUpFirst, BeforeWeb, Lacks

LEMMA ReplyKept ==
    ASSUME ReplyInv, web'.job = web.job, reply' = reply, IsFree("web") => IsFree("web")'
    PROVE  ReplyInv'
<1>1. JobInv'
  BY DEF ReplyInv, JobInv
<1>2. AsksToAnswer'
  BY DEF ReplyInv, AsksToAnswer, HasMoreRequests, CanBeCalled, Current
<1>3. ReplyIsFull'
  BY DEF ReplyInv, ReplyIsFull
<1>. QED BY <1>1, <1>2, <1>3 DEF ReplyInv

\* What a step of an actor leaves as it is, when it neither answers the web
\* server nor sets what was answered.
LEMMA ActorStep ==
    ASSUME TrueInv, main' = main, web'.state = web.state, web'.job = web.job, reply' = reply,
           answers'["web"] = answers["web"], Forward(box["core"], box'["core"]), NothingSet,
           status'["http"] = status["http"], IsUp("core")' => IsUp("core"),
           Undisturbed => Undisturbed'
    PROVE  ReplyInv' /\ CoreDown' /\ SetUpFirst' /\ WebTold'
<1>1. ReplyInv'
  BY ReplyKept DEF TrueInv, IsFree
<1>2. CoreDown'
  BY DownKept DEF TrueInv
<1>3. SetUpFirst'
  BY SetUpKept DEF TrueInv
<1>4. WebTold'
  BY WebToldKept DEF TrueInv, Onward
<1>. QED BY <1>1, <1>2, <1>3, <1>4

\* Only core is asked by the web server.
LEMMA WebAsksCore ==
    ASSUME Post(box, answers), NEW a \in Actors, a # "core", NEW m \in Range(box[a])
    PROVE  m.from # "web"
<1>1. Fits(a, m)
  BY DEF Post
<1>2. None # "web"
  BY NamesAssumption DEF Askers
<1>. QED BY <1>1, <1>2 DEF Fits, FitsMixer, FitsAudio, FitsOther, StopFrom

LEMMA EndedFacts ==
    ASSUME NEW a \in Actors, NEW x \in Askers, Head(box[a]).from # x
    PROVE  Ended(a)[x] \in {Died, answers[x]}
BY DEF Ended

LEMMA StopFromMain ==
    ASSUME Post(box, answers), NEW a \in Actors, Handles(a, "stop")
    PROVE  Head(box[a]).from \in {None, "main"} /\ ~Lacks(box[a], "stop")
<1>1. Fits(a, Head(box[a])) /\ Head(box[a]).type = "stop" /\ Head(box[a]) \in Range(box[a])
  BY HandlesFacts
<1>2. Head(box[a]).from \in {None, "main"}
  BY <1>1 DEF Fits, FitsMixer, FitsAudio, FitsCore, FitsOther, StopFrom
<1>. QED BY <1>1, <1>2 DEF Lacks

LEMMA SameForward ==
    ASSUME NEW b, IsSeq(b)
    PROVE  /\ Forward(b, b) /\ Forward(b, << >>)
           /\ b # << >> => Forward(b, Tail(b))
           /\ \A m : IsNews(m) => Forward(b, Append(b, m))
<1>1. IsSeq(<< >>)
  BY EmptyFacts
<1>2. b # << >> => IsSeq(Tail(b))
  BY TailFacts
<1>3. \A m : IsSeq(Append(b, m))
  BY AppendFacts
<1>. QED BY <1>1, <1>2, <1>3 DEF Forward

-----------------------------------------------------------------------------
(* The mixer. *)

LEMMA MixerMoves ==
    ASSUME IInv, MixerThread
    PROVE  /\ main' = main /\ core' = core /\ web' = web /\ reply' = reply /\ element' = element
           /\ Forward(box["mixer"], box'["mixer"]) /\ Forward(box["core"], box'["core"])
           /\ answers'["web"] = answers["web"] /\ NothingSet
           /\ status'["http"] = status["http"] /\ status'["core"] = status["core"]
           /\ Undisturbed => Undisturbed'
<1>0. main' = main /\ core' = core /\ web' = web /\ reply' = reply /\ element' = element
  BY DEF MixerThread, MixerActs, serverVars, coreVars, httpVars, mixerVars, MixerSetup, MixerSet,
         MixerGet, MixerGets, MixerTells, MixerTeardown, MixerStops
<1>1. /\ Post(box, answers) /\ DOMAIN box = Actors /\ DOMAIN answers = Askers /\ DOMAIN status = Actors
      /\ {"mixer", "audio", "core", "http"} \subseteq Actors /\ "web" \in Askers /\ MixerWaits
      /\ IsSeq(box["mixer"]) /\ IsSeq(box["audio"]) /\ IsSeq(box["core"])
  BY Facts DEF Askers
<1>. DEFINE b == box["mixer"]
            d == box'["mixer"]
            SameStatus == status' = status
<1>2. ASSUME b # << >>, d = Tail(b) \/ d = b, SameStatus,
             Lacks(box["audio"], "stop") => Lacks(box'["audio"], "stop"),
             wanted' = wanted \/ ~Lacks(b, "set"),
             \/ box'["core"] = box["core"]
             \/ \E m : IsNews(m) /\ box'["core"] = Append(box["core"], m),
             answers'["web"] = answers["web"]
      PROVE  /\ Forward(b, d) /\ Forward(box["core"], box'["core"]) /\ NothingSet
             /\ Undisturbed => Undisturbed'
  <2>1. Forward(b, d)
    BY <1>1, <1>2, SameForward
  <2>2. Forward(box["core"], box'["core"])
    BY <1>1, <1>2, SameForward
  <2>3. (Lacks(b, "set") => Lacks(d, "set")) /\ (Lacks(b, "stop") => Lacks(d, "stop"))
    <3>1. IsSeq(b)
      BY <1>1
    <3>. HIDE DEF b, d
    <3>2. \A type : Lacks(b, type) => Lacks(Tail(b), type)
      BY <1>2, <3>1, LacksFacts
    <3>. QED BY <1>2, <3>2
  <2>. QED BY <1>2, <2>1, <2>2, <2>3 DEF NothingSet, Undisturbed
<1>3. ASSUME NEW m \in Range(b), NEW v
      PROVE  Answered(m, v)["web"] = answers["web"]
  BY <1>1, <1>3, WebAsksCore, AnsweredFacts
<1>4. ASSUME NEW bx, DOMAIN bx = Actors, NEW p, NEW level,
             Lacks(box["audio"], "stop") => Lacks(bx["audio"], "stop"), IsSeq(bx["audio"])
      PROVE  LET b2 == Put(bx, "audio", SetLevel(p, level))
             IN  /\ DOMAIN b2 = Actors /\ b2["mixer"] = bx["mixer"] /\ b2["core"] = bx["core"]
                 /\ Lacks(box["audio"], "stop") => Lacks(b2["audio"], "stop")
                 /\ IsSeq(b2["audio"])
  <2>. DEFINE m == SetLevel(p, level)
              b2 == Put(bx, "audio", m)
  <2>1. m.type = "set"
    BY DEF SetLevel, Message
  <2>. HIDE DEF m
  <2>2. /\ DOMAIN b2 = Actors /\ b2["mixer"] = bx["mixer"] /\ b2["core"] = bx["core"]
        /\ b2["audio"] = bx["audio"] \/ b2["audio"] = Append(bx["audio"], m)
    <3>1. "audio" \in Actors
      BY <1>1
    <3>. QED BY <1>4, <3>1 DEF Put
  <2>3. Lacks(bx["audio"], "stop") => Lacks(Append(bx["audio"], m), "stop")
    BY <1>4, <2>1, LacksFacts
  <2>4. IsSeq(Append(bx["audio"], m))
    BY <1>4, AppendFacts
  <2>. HIDE DEF b2
  <2>5. /\ DOMAIN b2 = Actors /\ b2["mixer"] = bx["mixer"] /\ b2["core"] = bx["core"]
        /\ Lacks(box["audio"], "stop") => Lacks(b2["audio"], "stop")
        /\ IsSeq(b2["audio"])
    BY <1>4, <2>2, <2>3, <2>4
  <2>. QED BY <2>5 DEF b2, m
<1>5. LET t == Taken("mixer")
      IN  /\ DOMAIN t = Actors /\ t["mixer"] = Tail(b) /\ t["audio"] = box["audio"] /\ t["core"] = box["core"]
  BY <1>1, TakenBox
<1>6. ASSUME NEW type, Handles("mixer", type)
      PROVE  b # << >> /\ Head(b).type = type /\ Head(b) \in Range(b)
  BY <1>1, <1>6, HandlesFacts
<1>7. CASE MixerSetup
  <2>. DEFINE rest == Taken("mixer")
              volume == mixer.initial["volume"]
              mute == mixer.initial["mute"]
              with == IF volume = None THEN rest ELSE Put(rest, "audio", SetLevel("volume", volume))
              both == IF mute = None THEN with ELSE Put(with, "audio", SetLevel("mute", mute))
  <2>1. Handles("mixer", "adapter") /\ wanted' = wanted /\ SameStatus /\ answers' = answers /\ box' = both
    BY <1>7 DEF MixerSetup
  <2>. HIDE DEF volume, mute
  <2>2. /\ DOMAIN with = Actors /\ with["mixer"] = Tail(b) /\ with["core"] = box["core"]
        /\ Lacks(box["audio"], "stop") => Lacks(with["audio"], "stop")
        /\ IsSeq(with["audio"])
    BY <1>1, <1>4, <1>5
  <2>. HIDE DEF with
  <2>3. /\ both["mixer"] = Tail(b) /\ both["core"] = box["core"]
        /\ Lacks(box["audio"], "stop") => Lacks(both["audio"], "stop")
    BY <1>4, <2>2
  <2>. QED BY <1>0, <1>2, <1>6, <2>1, <2>3
<1>8. CASE MixerSet
  <2>1. /\ Handles("mixer", "set") /\ SameStatus
        /\ box' = Taken("mixer") \/ \E p, level : box' = Put(Taken("mixer"), "audio", SetLevel(p, level))
        /\ \E v : answers' = Answered(Head(b), v)
    BY <1>8 DEF MixerSet
  <2>2. /\ d = Tail(b) /\ box'["core"] = box["core"]
        /\ Lacks(box["audio"], "stop") => Lacks(box'["audio"], "stop")
    BY <1>1, <1>4, <1>5, <2>1
  <2>3. ~Lacks(b, "set")
    BY <1>6, <2>1 DEF Lacks
  <2>. QED BY <1>0, <1>2, <1>3, <1>6, <2>1, <2>2, <2>3
<1>9. CASE MixerGet
  <2>1. /\ Handles("mixer", "get") /\ SameStatus /\ wanted' = wanted
        /\ \/ /\ \E arg : box' = Put(box, "audio", Message("get", "mixer", arg))
              /\ answers' = Asking("mixer", "audio")
           \/ box' = Taken("mixer") /\ answers' = Answered(Head(b), None)
    BY <1>9 DEF MixerGet, mixerVars
  <2>2. CASE box' = Taken("mixer") /\ answers' = Answered(Head(b), None)
    BY <1>0, <1>2, <1>3, <1>5, <1>6, <2>1, <2>2
  <2>3. ASSUME NEW arg, box' = Put(box, "audio", Message("get", "mixer", arg)),
               answers' = Asking("mixer", "audio")
        PROVE  /\ d = b /\ box'["core"] = box["core"] /\ answers'["web"] = answers["web"]
               /\ Lacks(box["audio"], "stop") => Lacks(box'["audio"], "stop")
    <3>. DEFINE m == Message("get", "mixer", arg)
    <3>1. m.type = "get"
      BY MessageFacts
    <3>. HIDE DEF m
    <3>2. /\ d = b /\ box'["core"] = box["core"]
          /\ box'["audio"] = box["audio"] \/ box'["audio"] = Append(box["audio"], m)
      BY <1>1, <2>3 DEF Put, m
    <3>3. Lacks(box["audio"], "stop") => Lacks(Append(box["audio"], m), "stop")
      BY <1>1, <3>1, LacksFacts
    <3>4. answers'["web"] = answers["web"]
      BY <1>1, <2>3 DEF Asking
    <3>. QED BY <3>2, <3>3, <3>4
  <2>4. CASE \E arg : box' = Put(box, "audio", Message("get", "mixer", arg))
             /\ answers' = Asking("mixer", "audio")
    BY <1>0, <1>2, <1>6, <2>1, <2>3, <2>4
  <2>. QED BY <2>1, <2>2, <2>4
<1>10. CASE MixerGets
  <2>1. ~IsFree("mixer") /\ box' = Taken("mixer") /\ SameStatus /\ wanted' = wanted
        /\ answers' = [answers EXCEPT !["mixer"] = NoAnswer, ![Head(b).from] = answers["mixer"]]
    BY <1>10 DEF MixerGets, IsAnswered, IsFree, mixerVars
  <2>2. b # << >> /\ Head(b).type = "get" /\ Head(b) \in Range(b)
    BY <1>1, <2>1, SeqFacts DEF MixerWaits
  <2>3. Head(b).from # "web"
    BY <1>1, <2>2, WebAsksCore
  <2>4. answers'["web"] = answers["web"]
    BY <1>1, <2>1, <2>3
  <2>. QED BY <1>0, <1>2, <1>5, <2>1, <2>2, <2>4
<1>11. CASE MixerTells
  <2>1. /\ Handles("mixer", "changed") /\ SameStatus /\ wanted' = wanted /\ answers' = answers
        /\ box' = Put(Taken("mixer"), "core", Head(b))
    BY <1>11 DEF MixerTells, mixerVars
  <2>2. /\ d = Tail(b) /\ box'["audio"] = box["audio"]
        /\ box'["core"] = box["core"] \/ box'["core"] = Append(box["core"], Head(b))
    BY <1>1, <2>1 DEF Put, Taken
  <2>3. Fits("mixer", Head(b)) /\ Head(b).type = "changed"
    BY <1>1, <2>1, HandlesFacts
  <2>4. IsNews(Head(b))
    BY <2>3 DEF IsNews, Fits, FitsMixer, StopFrom
  <2>. QED BY <1>0, <1>2, <1>6, <2>1, <2>2, <2>4
<1>12. CASE MixerTeardown
  <2>1. /\ Handles("mixer", "teardown") /\ SameStatus /\ wanted' = wanted /\ answers' = answers
        /\ box' = Taken("mixer")
    BY <1>12 DEF MixerTeardown
  <2>. QED BY <1>0, <1>2, <1>5, <1>6, <2>1
<1>13. CASE MixerStops
  <2>1. Handles("mixer", "stop") /\ Stops("mixer") /\ wanted' = wanted
        /\ box' = [box EXCEPT !["mixer"] = << >>]
    BY <1>13 DEF MixerStops, mixerVars
  <2>2. /\ d = << >> /\ box'["core"] = box["core"]
        /\ status'["http"] = status["http"] /\ status'["core"] = status["core"]
    BY <1>1, <2>1 DEF Stops
  <2>3. ~Undisturbed
    BY <1>1, <2>1, StopFromMain DEF Undisturbed
  <2>4. NothingSet
    BY <2>1, <2>2, EmptyLacks DEF NothingSet
  <2>5. \A m \in Range(b) : m.from # "web"
    BY <1>1, WebAsksCore
  <2>6. answers'["web"] = answers["web"]
    <3>1. StaffInv /\ "mixer" \in Actors /\ "web" \in Askers
      BY <1>1 DEF IInv
    <3>. QED BY <1>0, <2>1, <2>5, <3>1, StopsStaff
  <2>. QED BY <1>0, <1>1, <2>2, <2>3, <2>4, <2>6, SameForward
<1>. QED BY <1>0, <1>7, <1>8, <1>9, <1>10, <1>11, <1>12, <1>13 DEF MixerThread, MixerActs

LEMMA Appended ==
    ASSUME NEW b, IsSeq(b), NEW m, NEW d, d = b \/ d = Append(b, m)
    PROVE  IsSeq(d) /\ \A k \in Range(d) : k \in Range(b) \/ k = m
<1>1. CASE d = b
  BY <1>1
<1>2. CASE d = Append(b, m)
  BY <1>2, AppendFacts
<1>. QED BY <1>1, <1>2

LEMMA MixerLevels ==
    ASSUME IInv, IInv', LevelInv, MixerThread
    PROVE  LevelInv'
<1>0. /\ Post(box, answers) /\ DOMAIN box = Actors /\ DOMAIN answers = Askers /\ MixerWaits
      /\ {"mixer", "audio", "core"} \subseteq Actors /\ {"mixer", "core"} \subseteq Askers
      /\ IsSeq(box["mixer"]) /\ IsSeq(box["audio"]) /\ IsSeq(box["core"]) /\ IsMixer
  BY Facts
<1>1. /\ core' = core /\ element' = element /\ NothingSet
      /\ Onward(box["mixer"], box'["mixer"]) /\ Onward(box["core"], box'["core"])
  BY MixerMoves DEF Onward
<1>2. WellAsked'
  BY <1>1, AskedKept DEF LevelInv
<1>3. AsksAfterSets(box'["mixer"], "core")
  BY <1>1, OnwardAsks DEF LevelInv, MixerTold
<1>4. IsFree("mixer") => \A m \in Range(box["mixer"]) : m.from # "mixer"
  BY <1>0, NoQuestions DEF IsFree, Waits
<1>5. ASSUME IsFree("mixer")' PROVE MixerTold'
  BY <1>3, <1>5 DEF MixerTold, IsFree
<1>6. ASSUME NEW type, Handles("mixer", type)
      PROVE  /\ box["mixer"] # << >> /\ Head(box["mixer"]).type = type /\ IsFree("mixer")
             /\ Head(box["mixer"]) \in Range(box["mixer"]) /\ Fits("mixer", Head(box["mixer"]))
  BY <1>0, <1>6, HandlesFacts
<1>7. ASSUME mixer'.initial = mixer.initial, wanted' = wanted, box'["audio"] = box["audio"]
      PROVE  LevelsWanted'
  BY <1>1, <1>7 DEF LevelInv, LevelsWanted
<1>8. ASSUME box'["core"] = box["core"], IsFree("core") => IsFree("core")',
             box["core"] # << >> /\ IsGet(Job) /\ answers'["core"].state = "value" =>
                \/ answers'["core"] = answers["core"]
                \/ Holds(answers'["core"].value, wanted'[Job.arg.property], box'["mixer"])
      PROVE  CoreTold'
  BY <1>0, <1>1, <1>8, JobStays, CoreToldKept DEF LevelInv
<1>9. LET t == Taken("mixer")
      IN  DOMAIN t = Actors /\ t["audio"] = box["audio"] /\ t["core"] = box["core"]
          /\ t["mixer"] = Tail(box["mixer"])
  BY <1>0, TakenBox
<1>10. ASSUME NEW m \in Range(box["mixer"]), NEW v, IsFree("mixer"), answers' = Answered(m, v)
       PROVE  /\ IsFree("mixer")' /\ (IsFree("core") => IsFree("core")')
              /\ m.from # "core" => answers'["core"] = answers["core"]
              /\ m.from = "core" => answers'["core"] = Value(v)
  <2>1. m.from # "mixer" /\ \A x \in Askers : answers'[x] = IF m.from = x THEN Value(v) ELSE answers[x]
    BY <1>0, <1>4, <1>10, AnsweredFacts
  <2>2. IsFree("core") => m.from # "core"
    BY <1>0, <1>10, NoQuestions DEF IsFree, Waits
  <2>. QED BY <1>0, <1>10, <2>1, <2>2 DEF IsFree
<1>11. CASE MixerSetup
  <2>. DEFINE rest == Taken("mixer")
              volume == mixer.initial["volume"]
              mute == mixer.initial["mute"]
              with == IF volume = None THEN rest ELSE Put(rest, "audio", SetLevel("volume", volume))
              both == IF mute = None THEN with ELSE Put(with, "audio", SetLevel("mute", mute))
  <2>1. /\ Handles("mixer", "adapter") /\ wanted' = wanted /\ answers' = answers /\ box' = both
        /\ mixer'.initial = mixer.initial
    BY <1>0, <1>11 DEF MixerSetup, IsMixer
  <2>2. \A p, level : LET m == SetLevel(p, level) IN \A q : Sets(m, q) => q = p
    BY LevelFacts DEF Sets
  <2>3. /\ DOMAIN with = Actors /\ IsSeq(with["audio"]) /\ with["core"] = box["core"]
        /\ \A m \in Range(with["audio"]) : \A q \in Properties :
              Sets(m, q) /\ mixer.initial[q] = None => m \in Range(box["audio"])
    <3>1. CASE volume = None
      BY <1>0, <1>9, <3>1
    <3>2. CASE volume # None
      <4>. DEFINE n == SetLevel("volume", volume)
      <4>1. \A q : Sets(n, q) => q = "volume"
        BY <2>2
      <4>. HIDE DEF n
      <4>2. /\ DOMAIN with = Actors /\ with["core"] = box["core"]
            /\ with["audio"] = box["audio"] \/ with["audio"] = Append(box["audio"], n)
        BY <1>0, <1>9, <3>2 DEF Put, n
      <4>3. IsSeq(with["audio"]) /\ \A m \in Range(with["audio"]) : m \in Range(box["audio"]) \/ m = n
        BY <1>0, <4>2, Appended
      <4>. QED BY <3>2, <4>1, <4>2, <4>3
    <3>. QED BY <3>1, <3>2
  <2>. HIDE DEF with
  <2>4. /\ both["core"] = box["core"]
        /\ \A m \in Range(both["audio"]) : \A q \in Properties :
              Sets(m, q) /\ mixer.initial[q] = None => m \in Range(box["audio"])
    <3>1. CASE mute = None
      BY <2>3, <3>1
    <3>2. CASE mute # None
      <4>. DEFINE n == SetLevel("mute", mute)
      <4>1. \A q : Sets(n, q) => q = "mute"
        BY <2>2
      <4>. HIDE DEF n
      <4>2. /\ both["core"] = box["core"]
            /\ both["audio"] = with["audio"] \/ both["audio"] = Append(with["audio"], n)
        BY <1>0, <2>3, <3>2 DEF Put, n
      <4>3. \A m \in Range(both["audio"]) : m \in Range(with["audio"]) \/ m = n
        BY <2>3, <4>2, Appended
      <4>. QED BY <2>3, <3>2, <4>1, <4>2, <4>3
    <3>. QED BY <3>1, <3>2
  <2>5. LevelsWanted'
    BY <1>1, <2>1, <2>4 DEF LevelInv, LevelsWanted
  <2>6. IsFree("mixer")' /\ (IsFree("core") => IsFree("core")')
    BY <1>6, <2>1 DEF IsFree
  <2>7. CoreTold'
    BY <1>8, <2>1, <2>4, <2>6
  <2>. QED BY <1>2, <1>5, <2>5, <2>6, <2>7 DEF LevelInv
<1>12. CASE MixerSet
  <2>. DEFINE m == Head(box["mixer"])
              p == m.arg.property
              level == m.arg.level
              n == SetLevel(p, level)
  <2>1. /\ Handles("mixer", "set")
        /\ mixer'.initial = mixer.initial \/ mixer'.initial = [mixer.initial EXCEPT ![p] = level]
        /\ box' = Taken("mixer") \/ box' = Put(Taken("mixer"), "audio", n)
        /\ wanted' = [wanted EXCEPT ![p] = level]
        /\ answers' = Answered(m, Bool(mixer.setup))
    BY <1>0, <1>12 DEF MixerSet, IsMixer
  <2>2. m \in Range(box["mixer"]) /\ m.type = "set" /\ IsFree("mixer")
    BY <1>6, <2>1
  <2>3. level # None
    BY <2>2 DEF LevelInv, WellAsked
  <2>4. \A q : Sets(n, q) => q = p
    BY LevelFacts DEF Sets
  <2>. HIDE DEF m, p, level, n
  <2>5. /\ box'["core"] = box["core"]
        /\ box'["audio"] = box["audio"] \/ box'["audio"] = Append(box["audio"], n)
    BY <1>0, <1>9, <2>1 DEF Put
  <2>6. \A k \in Range(box'["audio"]) : k \in Range(box["audio"]) \/ k = n
    BY <1>0, <2>5, Appended
  <2>7. \A q \in Properties : wanted'[q] = None =>
           q # p /\ wanted[q] = None /\ mixer'.initial[q] = mixer.initial[q]
    BY <1>0, <2>1, <2>3 DEF IsMixer
  <2>8. LevelsWanted'
    BY <1>1, <2>4, <2>6, <2>7 DEF LevelInv, LevelsWanted
  <2>9. /\ IsFree("mixer")' /\ (IsFree("core") => IsFree("core")')
        /\ m.from # "core" => answers'["core"] = answers["core"]
    BY <1>10, <2>1, <2>2
  <2>10. box["core"] # << >> /\ IsGet(Job) => m.from # "core"
    BY <2>2 DEF LevelInv, CoreTold
  <2>11. CoreTold'
    BY <1>8, <2>5, <2>9, <2>10
  <2>. QED BY <1>2, <1>5, <2>8, <2>9, <2>11 DEF LevelInv
<1>13. CASE MixerGet
  <2>. DEFINE m == Head(box["mixer"])
              n == Message("get", "mixer", m.arg)
  <2>1. Handles("mixer", "get") /\ wanted' = wanted /\ mixer' = mixer
    BY <1>13 DEF MixerGet, mixerVars
  <2>2. m \in Range(box["mixer"]) /\ IsFree("mixer")
    BY <1>6, <2>1
  <2>3. CASE mixer.setup
    <3>1. box' = Put(box, "audio", n) /\ answers' = Asking("mixer", "audio")
      BY <1>13, <2>3 DEF MixerGet
    <3>2. n.type = "get"
      BY MessageFacts
    <3>. HIDE DEF m, n
    <3>3. /\ box'["core"] = box["core"]
          /\ box'["audio"] = box["audio"] \/ box'["audio"] = Append(box["audio"], n)
      BY <1>0, <3>1 DEF Put
    <3>4. \A k \in Range(box'["audio"]) : k \in Range(box["audio"]) \/ k = n
      BY <1>0, <3>3, Appended
    <3>5. LevelsWanted'
      BY <1>1, <2>1, <3>2, <3>4 DEF LevelInv, LevelsWanted, Sets
    <3>6. answers'["mixer"] \in {Waits, Died} /\ answers'["core"] = answers["core"]
      BY <1>0, <3>1 DEF Asking
    <3>7. MixerTold'
      BY <1>3, <2>1, <2>3, <3>6 DEF MixerTold, Waits, Died
    <3>8. CoreTold'
      BY <1>8, <3>3, <3>6 DEF IsFree
    <3>. QED BY <1>2, <3>5, <3>7, <3>8 DEF LevelInv
  <2>4. CASE ~mixer.setup
    <3>1. box' = Taken("mixer") /\ answers' = Answered(m, None)
      BY <1>13, <2>4 DEF MixerGet
    <3>. HIDE DEF m
    <3>2. /\ IsFree("mixer")' /\ (IsFree("core") => IsFree("core")')
          /\ answers'["core"] = answers["core"] \/ answers'["core"] = Value(None)
      BY <1>10, <2>2, <3>1
    <3>3. \A level, b : Holds(Value(None).value, level, b)
      BY DEF Holds, Value
    <3>4. CoreTold'
      BY <1>8, <1>9, <3>1, <3>2, <3>3
    <3>. QED BY <1>2, <1>5, <1>7, <1>9, <2>1, <3>1, <3>2, <3>4 DEF LevelInv
  <2>. QED BY <2>3, <2>4
<1>14. CASE MixerGets
  <2>. DEFINE m == Head(box["mixer"])
              p == m.arg.property
  <2>1. /\ ~IsFree("mixer") /\ box' = Taken("mixer") /\ wanted' = wanted /\ mixer' = mixer
        /\ answers' = [answers EXCEPT !["mixer"] = NoAnswer, ![m.from] = answers["mixer"]]
    BY <1>14 DEF MixerGets, IsAnswered, IsFree, mixerVars
  <2>2. box["mixer"] # << >> /\ m.type = "get" /\ m \in Range(box["mixer"])
    BY <1>0, <2>1, SeqFacts DEF MixerWaits
  <2>3. Fits("mixer", m)
    BY <1>0, <2>2 DEF Post
  <2>4. m.from = "core"
    BY <2>2, <2>3 DEF Fits, FitsMixer, StopFrom
  <2>5. answers'["core"] = answers["mixer"] /\ IsFree("mixer")' /\ ~IsFree("core")
    <3>1. answers["core"] = Waits
      BY <1>0, <2>2, <2>4 DEF Post, Questions
    <3>. QED BY <1>0, <2>1, <2>4, <3>1 DEF NoAnswer, IsFree, Waits
  <2>6. Lacks(Tail(box["mixer"]), "set")
    BY <1>0, <2>2, <2>4, AsksTail DEF LevelInv, MixerTold
  <2>7. answers["mixer"].state = "value" => answers["mixer"].value \in {None, wanted[p]}
    BY DEF LevelInv, MixerTold
  <2>8. box["core"] # << >> /\ IsGet(Job) => p = Job.arg.property
    BY <2>2, <2>4 DEF LevelInv, CoreTold
  <2>9. box["core"] # << >> /\ IsGet(Job) /\ answers'["core"].state = "value" =>
           Holds(answers'["core"].value, wanted'[Job.arg.property], box'["mixer"])
    BY <1>9, <2>1, <2>5, <2>6, <2>7, <2>8 DEF Holds
  <2>10. CoreTold'
    BY <1>8, <1>9, <2>1, <2>5, <2>9
  <2>. QED BY <1>2, <1>5, <1>7, <1>9, <2>1, <2>5, <2>10 DEF LevelInv
<1>15. CASE MixerTells
  <2>. DEFINE m == Head(box["mixer"])
  <2>1. /\ Handles("mixer", "changed") /\ wanted' = wanted /\ mixer' = mixer /\ answers' = answers
        /\ box' = Put(Taken("mixer"), "core", m)
    BY <1>15 DEF MixerTells, mixerVars
  <2>2. IsFree("mixer") /\ m.type = "changed" /\ Fits("mixer", m)
    BY <1>6, <2>1
  <2>3. IsNews(m)
    BY <2>2 DEF IsNews, Fits, FitsMixer, StopFrom
  <2>. HIDE DEF m
  <2>4. /\ box'["audio"] = box["audio"]
        /\ box'["core"] = box["core"] \/ box'["core"] = Append(box["core"], m)
    BY <1>0, <1>9, <2>1 DEF Put
  <2>5. IsSeq(box'["core"])
    BY <1>0, <2>4, Appended
  <2>6. box'["core"] # << >> /\ IsGet(Job)' => box["core"] # << >> /\ IsGet(Job) /\ Job'.arg = Job.arg
    BY <1>0, <2>3, <2>4, <2>5, JobStays
  <2>7. CoreTold'
    BY <1>1, <2>1, <2>6, CoreToldKept DEF LevelInv, IsFree
  <2>8. IsFree("mixer")'
    BY <2>1, <2>2 DEF IsFree
  <2>. QED BY <1>2, <1>5, <1>7, <2>1, <2>4, <2>7, <2>8 DEF LevelInv
<1>16. CASE MixerTeardown
  <2>1. /\ Handles("mixer", "teardown") /\ wanted' = wanted /\ mixer'.initial = mixer.initial
        /\ answers' = answers /\ box' = Taken("mixer")
    BY <1>0, <1>16 DEF MixerTeardown, IsMixer
  <2>2. IsFree("mixer")' /\ (IsFree("core") => IsFree("core")')
    BY <1>6, <2>1 DEF IsFree
  <2>. QED BY <1>2, <1>5, <1>7, <1>8, <1>9, <2>1, <2>2 DEF LevelInv
<1>17. CASE MixerStops
  <2>1. /\ Handles("mixer", "stop") /\ Stops("mixer") /\ wanted' = wanted /\ mixer' = mixer
        /\ box' = [box EXCEPT !["mixer"] = << >>]
    BY <1>17 DEF MixerStops, mixerVars
  <2>2. IsFree("mixer") /\ Head(box["mixer"]).from \in {None, "main"}
    BY <1>0, <1>6, <2>1, StopFromMain
  <2>3. box'["audio"] = box["audio"] /\ box'["core"] = box["core"]
    BY <1>0, <2>1
  <2>4. \A x \in Askers : (\A m \in Range(box["mixer"]) : m.from # x) => answers'[x] = answers[x]
    <3>1. StaffInv /\ main' = main
      BY MixerMoves DEF IInv
    <3>. QED BY <1>0, <2>1, <3>1, StopsStaff
  <2>5. IsFree("mixer")' /\ (IsFree("core") => IsFree("core")')
    <3>1. IsFree("core") => \A m \in Range(box["mixer"]) : m.from # "core"
      BY <1>0, NoQuestions DEF IsFree, Waits
    <3>. QED BY <1>0, <1>4, <2>2, <2>4, <3>1 DEF IsFree
  <2>6. answers'["core"] \in {Died, answers["core"]}
    BY <1>0, <2>1, <2>2, EndedFacts, NamesAssumption DEF Stops, Askers
  <2>7. CoreTold'
    BY <1>8, <2>3, <2>5, <2>6 DEF Died
  <2>. QED BY <1>2, <1>5, <1>7, <2>1, <2>3, <2>5, <2>7 DEF LevelInv
<1>. QED BY <1>11, <1>12, <1>13, <1>14, <1>15, <1>16, <1>17 DEF MixerThread, MixerActs
-----------------------------------------------------------------------------
(* Audio. *)

\* What audio tells the mixer is the level that was last asked for, or none.
LEMMA AudioAnswersRight ==
    ASSUME IInv, LevelInv, CoreDown, Handles("audio", "get")
    PROVE  LET m == Head(box["audio"])
           IN  /\ m.from = "mixer" /\ m.arg = Head(box["mixer"]).arg /\ mixer.setup
               /\ element[m.arg.property] \in {None, wanted[m.arg.property]}
<1>. DEFINE m == Head(box["audio"])
            q == m.arg.property
<1>1. /\ Post(box, answers) /\ NobodyThere(box) /\ MixerWaits /\ CoreBusy
      /\ {"mixer", "audio", "core"} \subseteq Actors /\ {"mixer", "core"} \subseteq Askers
      /\ IsSeq(box["mixer"]) /\ IsSeq(box["audio"])
  BY Facts DEF Mail, CoreInv
<1>2. /\ box["audio"] # << >> /\ m.type = "get" /\ m \in Range(box["audio"]) /\ Fits("audio", m)
  BY <1>1, HandlesFacts
<1>3. m.from = "mixer"
  BY <1>2 DEF Fits, FitsAudio, StopFrom
<1>4. answers["mixer"] = Waits /\ m.arg = Head(box["mixer"]).arg
  BY <1>1, <1>2, <1>3 DEF Post, Questions, MixerWaits
<1>5. /\ ~IsFree("mixer") /\ mixer.setup
      /\ box["mixer"] # << >> /\ Head(box["mixer"]).type = "get"
      /\ Head(box["mixer"]) \in Range(box["mixer"])
  BY <1>1, <1>4, SeqFacts DEF IsFree, Waits, LevelInv, MixerTold, MixerWaits
<1>6. q \in Properties
  BY <1>4, <1>5 DEF LevelInv, WellAsked
<1>7. Fits("mixer", Head(box["mixer"]))
  BY <1>1, <1>5 DEF Post
<1>8. Head(box["mixer"]).from = "core"
  BY <1>5, <1>7 DEF Fits, FitsMixer, StopFrom
<1>9. answers["core"] = Waits
  BY <1>1, <1>5, <1>8 DEF Post, Questions
<1>10. IsUp("core")
  BY <1>1, <1>9 DEF CoreBusy, IsFree, Waits, NobodyThere
<1>11. Heard(box["audio"], q, element[q], wanted[q])
  BY <1>5, <1>6, <1>10 DEF CoreDown, IInv, MixerInv, SetsArrive
<1>12. \A i \in DOMAIN box["audio"] : ~Sets(box["audio"][i], q)
  <2>1. /\ Len(box["audio"]) \in Nat /\ DOMAIN box["audio"] = 1 .. Len(box["audio"])
        /\ 1 \in DOMAIN box["audio"] /\ box["audio"][1] = m
    BY <1>1, <1>2, SeqFacts
  <2>2. ASSUME NEW i \in DOMAIN box["audio"] PROVE box["audio"][i].type # "set"
    <3>1. CASE i = 1
      BY <1>2, <2>1, <3>1
    <3>2. CASE i # 1
      <4>1. i > 1
        BY <2>1, <3>2
      <4>. QED BY <1>1, <1>3, <2>1, <4>1 DEF MixerWaits, AsksAfterSets
    <3>. QED BY <3>1, <3>2
  <2>. QED BY <2>2 DEF Sets
<1>13. wanted[q] # None => element[q] = wanted[q]
  BY <1>11, <1>12 DEF Heard
<1>14. wanted[q] = None => element[q] = None
  BY <1>6 DEF LevelInv, LevelsWanted
<1>. QED BY <1>3, <1>4, <1>5, <1>13, <1>14

\* What audio does to the mailboxes, but for the answers.
AudioGoesOn ==
    /\ main' = main /\ core' = core /\ web' = web /\ reply' = reply
    /\ mixer' = mixer /\ wanted' = wanted
    /\ box'["core"] = box["core"]
    /\ \/ box'["mixer"] = box["mixer"]
       \/ \E m : IsNews(m) /\ m.type # "stop" /\ box'["mixer"] = Append(box["mixer"], m)
    /\ \/ box'["audio"] = box["audio"]
       \/ box["audio"] # << >> /\ box'["audio"] = Tail(box["audio"])
       \/ box'["audio"] = << >> /\ ~Undisturbed
    /\ \A a \in {"http", "core", "mixer"} : status'[a] = status[a]
    /\ status'["audio"] # "stopped" \/ ~Undisturbed \/ status'["audio"] = status["audio"]

LEMMA AudioGoesOnKeeps ==
    ASSUME IInv, TrueInv, AudioGoesOn, answers'["web"] = answers["web"],
           \/ element' = element
           \/ \E p : /\ p \in Properties => wanted[p] # None
                     /\ \A q \in Properties : q # p => element'[q] = element[q],
           \/ answers'["mixer"] = answers["mixer"]
           \/ /\ ~IsFree("mixer")
              /\ answers'["mixer"].state = "value" => element' = element /\
                    answers'["mixer"].value \in {None, wanted[Head(box["mixer"]).arg.property]},
           \/ answers'["core"] = answers["core"]
           \/ ~IsFree("core") /\ (answers'["core"].state = "value" => answers'["core"].value = None)
    PROVE  TrueInv'
<1>0. /\ Post(box, answers) /\ IsSeq(box["mixer"]) /\ IsSeq(box["audio"]) /\ IsSeq(box["core"])
      /\ MixerWaits
  BY Facts
<1>1. /\ Forward(box["core"], box'["core"]) /\ Forward(box["mixer"], box'["mixer"])
      /\ Forward(box["audio"], box'["audio"])
  <2>1. Forward(box["core"], box'["core"])
    BY <1>0 DEF AudioGoesOn, Forward
  <2>2. Forward(box["mixer"], box'["mixer"])
    <3>1. CASE box'["mixer"] = box["mixer"]
      BY <1>0, <3>1, SameForward
    <3>2. ASSUME NEW m, IsNews(m), box'["mixer"] = Append(box["mixer"], m)
          PROVE  Forward(box["mixer"], box'["mixer"])
      BY <1>0, <3>2, SameForward
    <3>. QED BY <3>1, <3>2 DEF AudioGoesOn
  <2>3. Forward(box["audio"], box'["audio"])
    <3>1. CASE box'["audio"] = box["audio"] \/ box'["audio"] = << >>
      BY <1>0, <3>1, SameForward
    <3>2. CASE box["audio"] # << >> /\ box'["audio"] = Tail(box["audio"])
      BY <1>0, <3>2, SameForward
    <3>. QED BY <3>1, <3>2 DEF AudioGoesOn
  <2>. QED BY <2>1, <2>2, <2>3
<1>2. (Lacks(box["mixer"], "stop") => Lacks(box'["mixer"], "stop")) /\ NothingSet
  <2>1. \A m : IsNews(m) /\ m.type # "stop" =>
           /\ Lacks(box["mixer"], "stop") => Lacks(Append(box["mixer"], m), "stop")
           /\ Lacks(box["mixer"], "set") => Lacks(Append(box["mixer"], m), "set")
    BY <1>0, LacksFacts DEF IsNews
  <2>. QED BY <2>1 DEF AudioGoesOn, NothingSet
<1>3. Undisturbed => Undisturbed'
  <2>1. Undisturbed => Lacks(box'["audio"], "stop")
    BY <1>0, LacksFacts DEF AudioGoesOn, Undisturbed
  <2>. QED BY <1>2, <2>1 DEF AudioGoesOn, Undisturbed
<1>4. ReplyInv' /\ CoreDown' /\ SetUpFirst' /\ WebTold'
  <2>1. /\ main' = main /\ web'.state = web.state /\ web'.job = web.job /\ reply' = reply
        /\ status'["http"] = status["http"] /\ (IsUp("core")' => IsUp("core"))
    BY DEF AudioGoesOn, IsUp
  <2>. QED BY <1>1, <1>2, <1>3, <2>1, ActorStep
<1>5. LevelsWanted'
  <2>1. \A p \in Properties : wanted[p] = None =>
           \A m \in Range(box'["audio"]) : ~Sets(m, p)
    BY <1>1, ForwardMessages DEF TrueInv, LevelInv, LevelsWanted, Sets, IsNews
  <2>2. \A p \in Properties : wanted[p] = None => element'[p] = None
    BY DEF TrueInv, LevelInv, LevelsWanted
  <2>. QED BY <2>1, <2>2 DEF AudioGoesOn, TrueInv, LevelInv, LevelsWanted
<1>6. WellAsked'
  BY <1>1, AskedKept DEF TrueInv, LevelInv, Onward
<1>7. MixerTold'
  <2>1. ~IsFree("mixer") => Head(box'["mixer"]) = Head(box["mixer"]) /\ mixer'.setup
    <3>1. \A m : box["mixer"] # << >> => Head(Append(box["mixer"], m)) = Head(box["mixer"])
      BY <1>0, HeadOfAppend
    <3>. QED BY <1>0, <3>1 DEF AudioGoesOn, MixerWaits, TrueInv, LevelInv, MixerTold
  <2>2. AsksAfterSets(box'["mixer"], "core")
    BY <1>1, OnwardAsks DEF TrueInv, LevelInv, MixerTold, Onward
  <2>3. answers["mixer"].state = "value" =>
           answers["mixer"].value \in {None, wanted[Head(box["mixer"]).arg.property]}
    BY DEF TrueInv, LevelInv, MixerTold
  <2>4. wanted' = wanted
    BY DEF AudioGoesOn
  <2>. QED BY <2>1, <2>2, <2>3, <2>4 DEF MixerTold, IsFree
<1>8. CoreTold'
  <2>1. box'["core"] # << >> /\ IsGet(Job)' => box["core"] # << >> /\ IsGet(Job) /\ Job'.arg = Job.arg
    BY DEF AudioGoesOn, Job, IsGet
  <2>2. \A level, b : Holds(None, level, b)
    BY DEF Holds
  <2>. QED BY <1>1, <1>2, <2>1, <2>2, CoreToldKept DEF TrueInv, LevelInv, AudioGoesOn, Onward, IsFree
<1>. QED BY <1>4, <1>5, <1>6, <1>7, <1>8 DEF TrueInv, LevelInv

LEMMA AudioKeepsTrue ==
    ASSUME IInv, TrueInv, AudioThread, ~AudioFails
    PROVE  TrueInv'
<1>0. /\ Post(box, answers) /\ DOMAIN box = Actors /\ DOMAIN answers = Askers /\ DOMAIN status = Actors
      /\ {"mixer", "audio", "core", "http"} \subseteq Actors /\ {"mixer", "core", "web"} \subseteq Askers
      /\ IsSeq(box["mixer"]) /\ IsSeq(box["audio"]) /\ IsSeq(box["core"]) /\ IsMixer /\ StaffInv
  BY Facts DEF Askers
<1>1. main' = main /\ core' = core /\ web' = web /\ reply' = reply
  BY DEF AudioThread, AudioStartsWell, serverVars, coreVars, httpVars
<1>2. ASSUME NEW type, Handles("audio", type)
      PROVE  /\ box["audio"] # << >> /\ Head(box["audio"]).type = type
             /\ Head(box["audio"]) \in Range(box["audio"]) /\ Fits("audio", Head(box["audio"]))
  BY <1>0, <1>2, HandlesFacts
<1>3. ASSUME NEW m \in Range(box["audio"]), NEW v, answers' = Answered(m, v)
      PROVE  /\ answers'["web"] = answers["web"]
             /\ \A x \in {"mixer", "core"} :
                   IF m.from = x THEN ~IsFree(x) /\ answers'[x] = Value(v) ELSE answers'[x] = answers[x]
  <2>1. \A x \in Askers : answers'[x] = IF m.from = x THEN Value(v) ELSE answers[x]
    BY <1>0, <1>3, AnsweredFacts
  <2>2. \A x \in {"mixer", "core"} : m.from = x => answers[x] = Waits
    BY <1>0, <1>3 DEF Post, Questions
  <2>3. m.from # "web"
    BY <1>0, <1>3, WebAsksCore
  <2>. QED BY <1>0, <2>1, <2>2, <2>3 DEF IsFree, Waits
<1>4. ASSUME NEW m, m.type \in {"changed", "adapter", "teardown"}, m.from = None
      PROVE  IsNews(m) /\ m.type # "stop"
  BY <1>4 DEF IsNews
<1>5. CASE AudioStartsWell
  <2>. DEFINE m == Message("adapter", None, None)
  <2>1. /\ status' = [status EXCEPT !["audio"] = "running"] /\ UNCHANGED <<answers, mixer, element, wanted>>
        /\ box' = box \/ box' = Put(box, "mixer", m)
    BY <1>5 DEF AudioStartsWell, AudioStarts, mixerVars
  <2>2. IsNews(m) /\ m.type # "stop"
    BY <1>4, MessageFacts
  <2>. HIDE DEF m
  <2>3. /\ box'["core"] = box["core"] /\ box'["audio"] = box["audio"]
        /\ box'["mixer"] = box["mixer"] \/ box'["mixer"] = Append(box["mixer"], m)
    BY <1>0, <2>1 DEF Put
  <2>4. \A a \in {"http", "core", "mixer"} : status'[a] = status[a]
    BY <1>0, <2>1
  <2>5. status'["audio"] # "stopped"
    BY <1>0, <2>1
  <2>6. AudioGoesOn
    BY <1>1, <2>1, <2>2, <2>3, <2>4, <2>5 DEF AudioGoesOn
  <2>. QED BY <2>1, <2>6, AudioGoesOnKeeps
<1>6. CASE AudioSets
  <2>. DEFINE m == Head(box["audio"])
              n == Changed(m.arg.property, m.arg.level)
  <2>1. /\ Handles("audio", "set") /\ UNCHANGED <<status, answers, mixer, wanted>>
        /\ element' = [element EXCEPT ![m.arg.property] = m.arg.level]
        /\ box' = Put(Taken("audio"), "mixer", n)
    BY <1>6 DEF AudioSets
  <2>2. IsNews(n) /\ n.type # "stop"
    BY <1>4, ChangedFits
  <2>3. m \in Range(box["audio"]) /\ m.type = "set" /\ box["audio"] # << >>
    BY <1>2, <2>1
  <2>. HIDE DEF m, n
  <2>4. /\ box'["core"] = box["core"] /\ box'["audio"] = Tail(box["audio"])
        /\ box'["mixer"] = box["mixer"] \/ box'["mixer"] = Append(box["mixer"], n)
    BY <1>0, <2>1 DEF Put, Taken
  <2>5. m.arg.property \in Properties => wanted[m.arg.property] # None
    BY <2>3 DEF TrueInv, LevelInv, LevelsWanted, Sets
  <2>6. \A q \in Properties : q # m.arg.property => element'[q] = element[q]
    BY <1>0, <2>1 DEF IsMixer
  <2>7. AudioGoesOn
    BY <1>1, <2>1, <2>2, <2>3, <2>4 DEF AudioGoesOn
  <2>. QED BY <2>1, <2>5, <2>6, <2>7, AudioGoesOnKeeps
<1>7. CASE AudioGets
  <2>. DEFINE m == Head(box["audio"])
              v == element[m.arg.property]
  <2>1. /\ Handles("audio", "get") /\ UNCHANGED <<status, mixer, element, wanted>>
        /\ answers' = Answered(m, v) /\ box' = Taken("audio")
    BY <1>7 DEF AudioGets, mixerVars
  <2>2. /\ m.from = "mixer" /\ m.arg = Head(box["mixer"]).arg
        /\ v \in {None, wanted[m.arg.property]}
    BY <2>1, AudioAnswersRight DEF TrueInv
  <2>3. m \in Range(box["audio"]) /\ box["audio"] # << >>
    BY <1>2, <2>1
  <2>4. /\ answers'["web"] = answers["web"] /\ answers'["core"] = answers["core"]
        /\ ~IsFree("mixer") /\ answers'["mixer"] = Value(v)
    BY <1>3, <2>1, <2>2, <2>3
  <2>. HIDE DEF m, v
  <2>5. box'["core"] = box["core"] /\ box'["mixer"] = box["mixer"] /\ box'["audio"] = Tail(box["audio"])
    BY <1>0, <2>1, TakenBox
  <2>6. AudioGoesOn
    BY <1>1, <2>1, <2>3, <2>5 DEF AudioGoesOn
  <2>7. answers'["mixer"].value \in {None, wanted[Head(box["mixer"]).arg.property]}
    BY <2>2, <2>4 DEF Value
  <2>. QED BY <2>1, <2>4, <2>6, <2>7, AudioGoesOnKeeps
<1>8. CASE AudioSetsUri(main.mixer)
  <2>. DEFINE m == Head(box["audio"])
              n == Changed("volume", element["volume"])
  <2>1. /\ Handles("audio", "set_uri") /\ UNCHANGED <<status, mixer, element, wanted>>
        /\ answers' = Answered(m, None)
        /\ box' = Taken("audio") \/ box' = Put(Taken("audio"), "mixer", n)
    BY <1>8 DEF AudioSetsUri, mixerVars
  <2>2. IsNews(n) /\ n.type # "stop"
    BY <1>4, ChangedFits
  <2>3. m \in Range(box["audio"]) /\ box["audio"] # << >> /\ m.type = "set_uri" /\ Fits("audio", m)
    BY <1>2, <2>1
  <2>4. m.from = "core"
    BY <2>3 DEF Fits, FitsAudio, StopFrom
  <2>5. /\ answers'["web"] = answers["web"] /\ answers'["mixer"] = answers["mixer"]
        /\ ~IsFree("core") /\ answers'["core"] = Value(None)
    BY <1>3, <2>1, <2>3, <2>4
  <2>. HIDE DEF m, n
  <2>6. /\ box'["core"] = box["core"] /\ box'["audio"] = Tail(box["audio"])
        /\ box'["mixer"] = box["mixer"] \/ box'["mixer"] = Append(box["mixer"], n)
    BY <1>0, <2>1 DEF Put, Taken
  <2>7. AudioGoesOn
    BY <1>1, <2>1, <2>2, <2>3, <2>6 DEF AudioGoesOn
  <2>8. answers'["core"].value = None
    BY <2>5 DEF Value
  <2>. QED BY <2>1, <2>5, <2>7, <2>8, AudioGoesOnKeeps
<1>9. CASE AudioStops(main.mixer)
  <2>. DEFINE n == Message("teardown", None, None)
              rest == [box EXCEPT !["audio"] = << >>]
  <2>1. /\ Handles("audio", "stop") /\ Stops("audio") /\ UNCHANGED <<mixer, element, wanted>>
        /\ box' = rest \/ box' = Put(rest, "mixer", n)
    BY <1>9 DEF AudioStops, mixerVars
  <2>2. IsNews(n) /\ n.type # "stop"
    BY <1>4, MessageFacts
  <2>3. Head(box["audio"]).from \in {None, "main"} /\ ~Undisturbed
    BY <1>0, <2>1, StopFromMain DEF Undisturbed
  <2>. HIDE DEF n
  <2>4. /\ box'["core"] = box["core"] /\ box'["audio"] = << >>
        /\ box'["mixer"] = box["mixer"] \/ box'["mixer"] = Append(box["mixer"], n)
    BY <1>0, <2>1 DEF Put
  <2>5. \A a \in {"http", "core", "mixer"} : status'[a] = status[a]
    BY <1>0, <2>1 DEF Stops
  <2>6. AudioGoesOn
    BY <1>1, <2>1, <2>2, <2>3, <2>4, <2>5 DEF AudioGoesOn
  <2>7. answers' = Ended("audio")
    BY <2>1 DEF Stops
  <2>8. \A x \in {"mixer", "core"} : answers'[x] = answers[x] \/ (~IsFree(x) /\ answers'[x] = Died)
    <3>1. ASSUME NEW x \in {"mixer", "core"} PROVE answers'[x] = answers[x] \/ (~IsFree(x) /\ answers'[x] = Died)
      <4>1. answers'[x] \in {Died, answers[x]} /\ Head(box["audio"]).from # x
        BY <1>0, <2>3, <2>7, <3>1, EndedFacts, NamesAssumption DEF Askers
      <4>2. IsFree(x) => \A m \in Range(box["audio"]) : m.from # x
        BY <1>0, <3>1, NoQuestions DEF IsFree, Waits
      <4>3. IsFree(x) => answers'[x] = answers[x]
        <5>1. Len(box["audio"]) \in Nat /\ DOMAIN box["audio"] = 1 .. Len(box["audio"])
          BY <1>0, SeqFacts
        <5>2. \A i \in 2 .. Len(box["audio"]) : box["audio"][i] \in Range(box["audio"])
          BY <5>1 DEF Range
        <5>. QED BY <1>0, <2>7, <3>1, <4>1, <4>2, <5>2 DEF Ended
      <4>. QED BY <4>1, <4>3
    <3>. QED BY <3>1
  <2>9. answers'["web"] = answers["web"]
    <3>1. \A m \in Range(box["audio"]) : m.from # "web"
      BY <1>0, WebAsksCore
    <3>2. Len(box["audio"]) \in Nat /\ DOMAIN box["audio"] = 1 .. Len(box["audio"])
      BY <1>0, SeqFacts
    <3>3. \A i \in 2 .. Len(box["audio"]) : box["audio"][i] \in Range(box["audio"])
      BY <3>2 DEF Range
    <3>4. Head(box["audio"]).from # "web"
      BY <1>0, <2>3, NamesAssumption DEF Askers
    <3>. QED BY <1>0, <2>7, <3>1, <3>3, <3>4 DEF Ended
  <2>10. \A x \in {"mixer", "core"} : answers'[x] = Died => answers'[x].state # "value"
    BY DEF Died
  <2>. QED BY <2>1, <2>6, <2>8, <2>9, <2>10, AudioGoesOnKeeps
<1>. QED BY <1>5, <1>6, <1>7, <1>8, <1>9 DEF AudioThread, AudioActs

LEMMA MixerKeepsTrue ==
    ASSUME IInv, IInv', TrueInv, MixerThread
    PROVE  TrueInv'
<1>1. /\ main' = main /\ web' = web /\ reply' = reply
      /\ Forward(box["core"], box'["core"]) /\ answers'["web"] = answers["web"] /\ NothingSet
      /\ status'["http"] = status["http"] /\ status'["core"] = status["core"]
      /\ Undisturbed => Undisturbed'
  BY MixerMoves
<1>2. IsUp("core")' => IsUp("core")
  BY <1>1 DEF IsUp
<1>3. ReplyInv' /\ CoreDown' /\ SetUpFirst' /\ WebTold'
  BY <1>1, <1>2, ActorStep
<1>4. LevelInv'
  BY MixerLevels DEF TrueInv
<1>. QED BY <1>3, <1>4 DEF TrueInv

-----------------------------------------------------------------------------
(* Core. *)

\* What core is to ask for next.
LEMMA NextLeft ==
    ASSUME NEW restore, Left(restore) # << >>, IsSeq(core.got), NEW S, Calls(Job) \in Seq(S)
    PROVE  /\ Len(core.got) + 1 \in 1 .. Len(Calls(Job)) /\ Head(Left(restore)) \in S
           /\ Head(Left(restore)) = Calls(Job)[Len(core.got) + 1]
<1>. DEFINE n == Len(core.got) + 1
            c == Calls(Job)
<1>1. n \in Nat \ {0} /\ Len(c) \in Nat
  BY SeqFacts
<1>. HIDE DEF n
<1>2. Left(restore) = SubSeq(c, n, Len(c))
  BY DEF Left, n
<1>. HIDE DEF c
<1>3. n <= Len(c)
  BY <1>1, <1>2, SubSeqEmpty
<1>4. n \in 1 .. Len(c) /\ Len(c) \in n .. Len(c)
  BY <1>1, <1>3
<1>5. Head(SubSeq(c, n, Len(c))) = c[n]
  BY <1>4, HeadTailOfSubSeq DEF c
<1>6. c[n] \in S
  BY <1>4, ElementOfSeq DEF c
<1>. QED BY <1>2, <1>4, <1>5, <1>6 DEF c, n

\* What core asks for suits what it handles.
Suits(call) ==
    /\ call.type = "set" => call.arg.level # None /\ Job.type \in {"setup", "request"}
    /\ call.type = "get" => call.arg.property \in Properties
    /\ IsGet(Job) => /\ core.got = << >> /\ call.to = "mixer" /\ call.type = "get"
                     /\ call.arg.property = Job.arg.property

LEMMA LeftSuits ==
    ASSUME NEW restore, Left(restore) # << >>, IsSeq(core.got), FitsCore(Job), ~IsBad(Job),
           Job.type \in {"setup", "teardown", "request"},
           IsGet(Job) => Job.arg.property \in Properties
    PROVE  Suits(Head(Left(restore)))
<1>1. CASE Job.type = "setup"
  <2>. DEFINE S == {c \in {Call("mixer", "set", Level(p, core.loaded[p])) : p \in Properties} :
                       c.arg.level # None}
  <2>1. ASSUME NEW p \in Properties PROVE SetCalls(core.loaded, p) \in Seq(S)
    <3>1. CASE core.loaded[p] = None
      BY <3>1 DEF SetCalls
    <3>2. CASE core.loaded[p] # None
      <4>. DEFINE c == Call("mixer", "set", Level(p, core.loaded[p]))
      <4>1. c.arg.level # None
        BY <3>2 DEF Call, Level
      <4>2. c \in S
        BY <4>1
      <4>3. SetCalls(core.loaded, p) = <<c>>
        BY <3>2 DEF SetCalls
      <4>. HIDE DEF c, S
      <4>. QED BY <4>2, <4>3
    <3>. QED BY <3>1, <3>2
  <2>2. \A c \in S : c.type = "set" /\ c.arg.level # None
    BY DEF Call
  <2>. HIDE DEF S
  <2>3. Calls(Job) = SetCalls(core.loaded, "mute") \o SetCalls(core.loaded, "volume")
    BY <1>1 DEF Calls
  <2>4. Calls(Job) \in Seq(S)
    BY <2>1, <2>3, ConcatProperties DEF Properties
  <2>5. Head(Left(restore)) \in S
    BY <2>4, NextLeft
  <2>. QED BY <1>1, <2>2, <2>5 DEF Suits, IsGet
<1>2. CASE Job.type = "teardown"
  <2>. DEFINE g(p) == Call("mixer", "get", Level(p, None))
              S == {g(p) : p \in Properties}
  <2>1. Calls(Job) = <<g("volume"), g("mute")>>
    BY <1>2 DEF Calls
  <2>2. g("volume") \in S /\ g("mute") \in S
    BY DEF Properties
  <2>3. \A c \in S : c.type = "get" /\ c.arg.property \in Properties
    BY DEF Call, Level
  <2>. HIDE DEF g, S
  <2>4. Calls(Job) \in Seq(S)
    BY <2>1, <2>2
  <2>5. Head(Left(restore)) \in S
    BY <2>4, NextLeft
  <2>. QED BY <1>2, <2>3, <2>5 DEF Suits, IsGet
<1>3. CASE Job.type = "request"
  <2>. DEFINE to == IF Job.arg.method = "set_uri" THEN "audio" ELSE "mixer"
              a == Level(Job.arg.property, Job.arg.level)
              g == Call(to, Job.arg.method, a)
  <2>1. Calls(Job) = <<g>>
    BY <1>3 DEF Calls
  <2>2. g.to = to /\ g.type = Job.arg.method /\ g.arg.property = Job.arg.property /\ g.arg.level = Job.arg.level
    BY DEF Call, Level
  <2>. HIDE DEF g
  <2>3. Calls(Job) \in Seq({g}) /\ Len(Calls(Job)) = 1
    BY <2>1
  <2>4. Len(core.got) + 1 \in 1 .. 1 /\ Head(Left(restore)) = g
    BY <2>3, NextLeft
  <2>5. core.got = << >>
    <3>1. Len(core.got) = 0
      BY <2>4, SeqFacts
    <3>. QED BY <3>1, SeqFacts
  <2>6. g.type = "set" => g.arg.level # None
    BY <1>3, <2>2, LevelsAssumption DEF IsBad, Levels
  <2>7. g.type = "get" => IsGet(Job) /\ g.arg.property \in Properties
    BY <1>3, <2>2 DEF IsGet
  <2>8. IsGet(Job) => g.to = "mixer" /\ g.type = "get"
    BY <2>2 DEF IsGet
  <2>. QED BY <1>3, <2>2, <2>4, <2>5, <2>6, <2>7, <2>8 DEF Suits
<1>. QED BY <1>1, <1>2, <1>3

\* A request is answered with what core was told.
LEMMA LeftOfRequest ==
    ASSUME NEW restore, Left(restore) = << >>, Job.type = "request"
    PROVE  core.got # << >>
<1>. SUFFICES ASSUME core.got = << >> PROVE FALSE
  OBVIOUS
<1>. DEFINE g == Call(IF Job.arg.method = "set_uri" THEN "audio" ELSE "mixer",
                      Job.arg.method, Level(Job.arg.property, Job.arg.level))
<1>1. Calls(Job) = <<g>> /\ Left(restore) = SubSeq(Calls(Job), Len(core.got) + 1, Len(Calls(Job)))
  BY DEF Calls, Left
<1>. HIDE DEF g
<1>2. Left(restore) = SubSeq(<<g>>, 1, 1)
  BY <1>1
<1>3. SubSeq(<<g>>, 1, 1) # << >>
  BY SubSeqProperties
<1>. QED BY <1>2, <1>3

\* What a step leaves as it is, when it may answer the web server.
LEMMA RestKept ==
    ASSUME TrueInv, main' = main, web' = web, reply' = reply,
           IsFree("web") => IsFree("web")', Forward(box["core"], box'["core"]),
           status'["http"] = status["http"], IsUp("core")' => IsUp("core"),
           Undisturbed => Undisturbed'
    PROVE  ReplyInv' /\ CoreDown' /\ SetUpFirst'
<1>1. ReplyInv'
  BY ReplyKept DEF TrueInv
<1>2. CoreDown'
  BY DownKept DEF TrueInv
<1>3. SetUpFirst'
  BY SetUpKept DEF TrueInv
<1>. QED BY <1>1, <1>2, <1>3

LEMMA LevelFrame ==
    ASSUME LevelInv, box'["mixer"] = box["mixer"], box'["audio"] = box["audio"],
           mixer' = mixer, element' = element, wanted' = wanted, answers'["mixer"] = answers["mixer"],
           \A m \in Range(box'["core"]) : IsGet(m) => m.arg.property \in Properties,
           CoreTold'
    PROVE  LevelInv'
<1>1. LevelsWanted'
  BY DEF LevelInv, LevelsWanted
<1>2. WellAsked'
  BY DEF LevelInv, WellAsked
<1>3. MixerTold'
  BY DEF LevelInv, MixerTold, IsFree
<1>. QED BY <1>1, <1>2, <1>3 DEF LevelInv

\* When the web server is answered, core does not set it up, nor serves anyone.
LEMMA AnsweredLacks ==
    ASSUME TrueInv, IsAnswered("web")
    PROVE  Lacks(box["core"], "request") /\ Lacks(box["core"], "setup")
<1>1. ~IsFree("web") /\ web.job # NoJob
  BY DEF IsAnswered, IsFree, TrueInv, ReplyInv, AsksToAnswer, HasMoreRequests
<1>2. web.state # "none" /\ status["http"] # "none"
  BY <1>1 DEF TrueInv, SetUpFirst
<1>. QED BY <1>1, <1>2 DEF TrueInv, SetUpFirst, WebTold

LEMMA CoreSends ==
    ASSUME IInv, TrueInv, IsAJob, NEW to \in {"mixer", "audio"}, NEW m, m.from = "core",
           to = "mixer" => m.type \in {"set", "get"}, to = "audio" => m.type = "set_uri",
           m.type = "set" => m.arg.level # None /\ Job.type \in {"setup", "request"},
           m.type = "get" => m.arg.property \in Properties,
           IsGet(Job) => /\ core.got = << >> /\ to = "mixer" /\ m.type = "get"
                         /\ m.arg.property = Job.arg.property,
           box' = Put(box, to, m), answers' = Asking("core", to), status' = status,
           core'.got = core.got, mixerVars' = mixerVars, main' = main, web' = web, reply' = reply
    PROVE  TrueInv'
<1>0. /\ DOMAIN box = Actors /\ {"mixer", "audio", "core", "http"} \subseteq Actors /\ MixerWaits
      /\ Post(box, answers) /\ IsSeq(box["mixer"]) /\ IsSeq(box["audio"]) /\ IsSeq(box["core"])
      /\ {"core", "mixer", "web"} \subseteq Askers /\ DOMAIN answers = Askers
  BY Facts DEF Askers
<1>1. mixer' = mixer /\ element' = element /\ wanted' = wanted
  BY DEF mixerVars
<1>2. /\ answers'["mixer"] = answers["mixer"] /\ answers'["web"] = answers["web"]
      /\ answers'["core"] \in {Waits, Died}
  BY <1>0 DEF Asking
<1>3. (Undisturbed' <=> Undisturbed) /\ box'["core"] = box["core"]
  BY <1>2, MixerHearsCore
<1>4. /\ to # "mixer" => box'["mixer"] = box["mixer"]
      /\ to # "audio" => box'["audio"] = box["audio"]
      /\ box'[to] = box[to] \/ box'[to] = Append(box[to], m)
  BY <1>0 DEF Put
<1>5. /\ Job \in Range(box["core"]) /\ box["core"] # << >> /\ answers["core"] # Waits
      /\ Job.type \in {"setup", "teardown", "request"}
  BY HasAJob
<1>6. \A k \in Range(box["mixer"]) : k.from # "core"
  BY <1>0, <1>5, NoQuestions
<1>7. /\ \A k \in Range(box'["mixer"]) : k \in Range(box["mixer"]) \/ (k = m /\ to = "mixer")
      /\ \A k \in Range(box'["audio"]) : k \in Range(box["audio"]) \/ (k = m /\ to = "audio")
  BY <1>0, <1>4, Appended
<1>8. IsAnswered("web") => m.type # "set"
  BY <1>5, AnsweredLacks DEF Lacks
<1>9. m.type # "set" => NothingSet
  BY <1>1, <1>7 DEF NothingSet, Lacks
<1>10. ReplyInv' /\ CoreDown' /\ SetUpFirst'
  <2>1. Forward(box["core"], box'["core"])
    BY <1>0, <1>3, SameForward
  <2>. QED BY <1>2, <1>3, <2>1, RestKept DEF IsUp, IsFree
<1>11. WebTold'
  <2>1. CASE IsAnswered("web")
    <3>1. Onward(box["core"], box'["core"])
      BY <1>0, <1>3, SameForward DEF Onward
    <3>. QED BY <1>2, <1>8, <1>9, <2>1, <3>1, WebToldKept DEF TrueInv
  <2>2. CASE ~IsAnswered("web")
    <3>1. answers'["web"].state # "value" /\ ~IsAnswered("web")'
      BY <1>2, <2>2 DEF IsAnswered
    <3>. QED BY <1>2, <1>3, <3>1 DEF TrueInv, WebTold, IsFree, Current
  <2>. QED BY <2>1, <2>2
<1>12. LevelsWanted'
  BY <1>1, <1>7 DEF TrueInv, LevelInv, LevelsWanted, Sets
<1>13. WellAsked'
  BY <1>3, <1>7 DEF TrueInv, LevelInv, WellAsked
<1>14. MixerTold'
  <2>1. AsksAfterSets(box["mixer"], "core")
    BY DEF TrueInv, LevelInv, MixerTold
  <2>2. AsksAfterSets(Append(box["mixer"], m), "core")
    BY <1>0, <1>6, <2>1, AsksAppend
  <2>3. AsksAfterSets(box'["mixer"], "core")
    BY <1>4, <2>1, <2>2
  <2>4. box["mixer"] # << >> => Head(box'["mixer"]) = Head(box["mixer"])
    BY <1>0, <1>4, HeadOfAppend
  <2>5. ~IsFree("mixer") => box["mixer"] # << >>
    BY <1>0 DEF MixerWaits
  <2>6. answers["mixer"].state = "value" => ~IsFree("mixer")
    BY DEF IsFree
  <2>. QED BY <1>1, <1>2, <2>3, <2>4, <2>5, <2>6 DEF TrueInv, LevelInv, MixerTold, IsFree
<1>15. CoreTold'
  <2>1. answers'["core"].state # "value"
    BY <1>2 DEF Waits, Died
  <2>2. IsGet(Job)' => IsGet(Job) /\ Job' = Job
    BY <1>3 DEF Job
  <2>. QED BY <1>6, <1>7, <2>1, <2>2 DEF CoreTold
<1>. QED BY <1>10, <1>11, <1>12, <1>13, <1>14, <1>15 DEF TrueInv, LevelInv

\* Core learns something, or knows it.
LEMMA CoreLearns ==
    ASSUME IInv, TrueInv, box["core"] # << >>, answers["core"] # Waits,
           NEW v, core'.got = Append(core.got, v),
           IsGet(Job) => /\ core.got = << >>
                         /\ Holds(v, wanted[Job.arg.property], box["mixer"]),
           answers'["core"].state = "none", answers'["web"] = answers["web"],
           answers'["mixer"] = answers["mixer"], box' = box, status' = status,
           mixerVars' = mixerVars, main' = main, web' = web, reply' = reply
    PROVE  TrueInv'
<1>0. /\ Post(box, answers) /\ {"mixer", "audio"} \subseteq Actors /\ "core" \in Askers
      /\ IsSeq(box["core"])
  BY Facts
<1>1. mixer' = mixer /\ element' = element /\ wanted' = wanted
  BY DEF mixerVars
<1>2. ReplyInv' /\ CoreDown' /\ SetUpFirst' /\ WebTold'
  <2>1. Forward(box["core"], box'["core"]) /\ NothingSet
    BY <1>0, <1>1, SameForward DEF NothingSet
  <2>2. Undisturbed => Undisturbed'
    BY DEF Undisturbed
  <2>. QED BY <2>1, <2>2, ActorStep DEF IsUp
<1>3. \A k \in Range(box["mixer"]) : k.from # "core"
  BY <1>0, NoQuestions
<1>4. ASSUME core.got = << >> PROVE Len(core'.got) = 1 /\ core'.got[1] = v
  BY <1>4
<1>5. CoreTold'
  BY <1>1, <1>3, <1>4 DEF CoreTold, IsGet, Job, IsFree
<1>6. LevelInv'
  BY <1>1, <1>5, LevelFrame DEF TrueInv, LevelInv, WellAsked
<1>. QED BY <1>2, <1>6 DEF TrueInv

\* Core is done with what it handles, and tells who asked for it.
LEMMA CoreEnds ==
    ASSUME IInv, IInv', TrueInv, IsAJob, box' = Taken("core"), core'.got = << >>,
           DOMAIN answers' = Askers, \A x \in Askers : x # Job.from => answers'[x] = answers[x],
           NEW v, Job.from \in Askers => answers'[Job.from] = v,
           v.state # "none",
           v.state = "value" /\ Job.type = "request" => core.got # << >> /\ v.value = core.got[1],
           status' = status, mixerVars' = mixerVars, main' = main, web' = web, reply' = reply
    PROVE  TrueInv'
<1>0. /\ DOMAIN box = Actors /\ {"mixer", "audio", "core", "http"} \subseteq Actors
      /\ Post(box, answers) /\ IsSeq(box["core"]) /\ DOMAIN answers = Askers
      /\ {"core", "mixer", "web"} \subseteq Askers
  BY Facts DEF Askers
<1>1. mixer' = mixer /\ element' = element /\ wanted' = wanted
  BY DEF mixerVars
<1>2. /\ Job \in Range(box["core"]) /\ box["core"] # << >> /\ IsFree("core") /\ FitsCore(Job)
  BY HasAJob
<1>3. answers'["mixer"] = answers["mixer"] /\ answers'["core"] = answers["core"]
  BY <1>0, <1>2, AnswersByCore
<1>4. /\ box'["core"] = Tail(box["core"])
      /\ \A a \in Actors : a # "core" => box'[a] = box[a]
  BY <1>0, TakenBox
<1>5. box'["mixer"] = box["mixer"] /\ box'["audio"] = box["audio"] /\ NothingSet
  BY <1>0, <1>1, <1>4 DEF NothingSet
<1>6. /\ Forward(box["core"], box'["core"]) /\ IsSeq(Tail(box["core"]))
      /\ \A k \in Range(box'["core"]) : k \in Range(box["core"])
  <2>1. Forward(box["core"], box'["core"])
    BY <1>0, <1>2, <1>4, SameForward
  <2>2. /\ IsSeq(Tail(box["core"]))
        /\ Range(box["core"]) = Range(Tail(box["core"])) \union {Head(box["core"])}
    BY <1>0, <1>2, TailFacts
  <2>. QED BY <1>4, <2>1, <2>2
<1>7. CoreTold'
  BY <1>2, <1>3, CoreToldIdle DEF IsFree
<1>8. LevelInv'
  BY <1>1, <1>3, <1>5, <1>6, <1>7, LevelFrame DEF TrueInv, LevelInv, WellAsked
<1>9. Job.from = "web" => answers["web"] = Waits
  BY <1>0, <1>2 DEF Post, Questions
<1>10. ReplyInv' /\ CoreDown' /\ SetUpFirst'
  <2>1. IsFree("web") => IsFree("web")'
    BY <1>0, <1>9 DEF IsFree, Waits
  <2>2. Undisturbed => Undisturbed'
    BY <1>5 DEF Undisturbed
  <2>. QED BY <1>6, <2>1, <2>2, RestKept DEF IsUp
<1>11. CASE Job.from # "web"
  <2>1. answers'["web"] = answers["web"]
    BY <1>0, <1>11
  <2>2. WebTold'
    BY <1>5, <1>6, <2>1, WebToldKept DEF TrueInv, Onward
  <2>. QED BY <1>8, <1>10, <2>2 DEF TrueInv
<1>12. CASE Job.from = "web"
  <2>1. /\ NoneAfter(box["core"], "web", "request")
        /\ \A m \in Range(box["core"]) : m.from = "web" => m.arg = Current.call
    BY <1>9, <1>12 DEF TrueInv, WebTold, IsFree, Waits
  <2>2. answers'["web"] = v /\ Current' = Current
    BY <1>0, <1>12 DEF Current
  <2>3. Job.type = "request" /\ Job.arg = Current.call
    BY <1>2, <1>12, <2>1, NamesAssumption DEF FitsCore, StopFrom, Askers
  <2>4. NoneAfter(box'["core"], "web", "request")
    BY <1>6, <2>1, OnwardOrder DEF Onward
  <2>5. Lacks(box'["core"], "request")
    <3>1. /\ Job = box["core"][1] /\ Len(box["core"]) \in Nat \ {0} /\ DOMAIN box["core"] = 1 .. Len(box["core"])
          /\ DOMAIN Tail(box["core"]) = 1 .. Len(box["core"]) - 1
          /\ \A i \in 1 .. Len(box["core"]) - 1 : Tail(box["core"])[i] = box["core"][i + 1]
      BY <1>0, <1>2, TailFacts DEF Job
    <3>2. ASSUME NEW i \in DOMAIN Tail(box["core"]) PROVE Tail(box["core"])[i].type # "request"
      <4>1. 1 \in DOMAIN box["core"] /\ i + 1 \in DOMAIN box["core"] /\ i + 1 > 1
        BY <3>1
      <4>. QED BY <1>12, <2>1, <3>1, <4>1 DEF NoneAfter
    <3>. DEFINE rest == Tail(box["core"])
    <3>3. \A i \in DOMAIN rest : rest[i].type # "request"
      BY <3>2
    <3>4. box'["core"] = rest
      BY <1>4
    <3>. HIDE DEF rest
    <3>5. Lacks(rest, "request")
      BY <3>3 DEF Lacks, Range
    <3>. QED BY <3>4, <3>5
  <2>6. v.state = "value" /\ Current.call.method = "get" =>
           Holds(v.value, wanted[Current.call.property], box["mixer"])
    BY <1>2, <2>3 DEF TrueInv, LevelInv, CoreTold, IsGet
  <2>7. WebTold'
    BY <1>1, <1>5, <1>6, <2>1, <2>2, <2>4, <2>5, <2>6 DEF WebTold
  <2>. QED BY <1>8, <1>10, <2>7 DEF TrueInv
<1>. QED BY <1>11, <1>12

LEMMA CoreKeepsTrue ==
    ASSUME IInv, IInv', TrueInv, CoreThread
    PROVE  TrueInv'
<1>0. /\ Post(box, answers) /\ DOMAIN box = Actors /\ DOMAIN answers = Askers /\ DOMAIN status = Actors
      /\ {"mixer", "audio", "core", "http"} \subseteq Actors /\ {"mixer", "core", "web"} \subseteq Askers
      /\ IsSeq(box["mixer"]) /\ IsSeq(box["audio"]) /\ IsSeq(box["core"]) /\ IsCore /\ CoreInv
      /\ IsSeq(core.got) /\ StaffInv
  BY Facts DEF Askers, IsCore
<1>1. main' = main /\ web' = web /\ reply' = reply
  BY DEF CoreThread, serverVars, httpVars
<1>2. \A m \in Range(box["core"]) : IsGet(m) => m.arg.property \in Properties
  BY DEF TrueInv, LevelInv, WellAsked
<1>3. ASSUME NEW restore, CoreLoads(restore) PROVE TrueInv'
  <2>1. /\ core'.got = core.got /\ box' = box /\ answers' = answers /\ status' = status
        /\ mixer' = mixer /\ element' = element /\ wanted' = wanted
    BY <1>0, <1>3 DEF CoreLoads, actorVars, mixerVars, IsCore
  <2>2. Forward(box["core"], box'["core"]) /\ NothingSet
    BY <1>0, <2>1, SameForward DEF NothingSet
  <2>3. Undisturbed => Undisturbed'
    BY <2>1 DEF Undisturbed
  <2>4. ReplyInv' /\ CoreDown' /\ SetUpFirst' /\ WebTold'
    BY <1>1, <2>1, <2>2, <2>3, ActorStep DEF IsUp
  <2>5. CoreTold'
    BY <2>1 DEF TrueInv, LevelInv, CoreTold, IsGet, Job, IsFree
  <2>6. LevelInv'
    BY <1>2, <2>1, <2>5, LevelFrame DEF TrueInv
  <2>. QED BY <2>4, <2>6 DEF TrueInv
<1>4. ASSUME NEW restore, CoreAsks(restore, main.mixer) PROVE TrueInv'
  <2>. DEFINE call == Head(Left(restore))
              m == Message(call.type, "core", call.arg)
  <2>1. /\ IsAJob /\ ~IsBad(Job) /\ Left(restore) # << >> /\ mixerVars' = mixerVars
    BY <1>4 DEF CoreAsks
  <2>2. /\ Job.type \in {"setup", "teardown", "request"} /\ FitsCore(Job) /\ Job \in Range(box["core"])
        /\ box["core"] # << >> /\ IsFree("core") /\ answers["core"] # Waits
    BY <2>1, HasAJob
  <2>3. Suits(call) /\ Asks(call)
    BY <1>0, <1>2, <2>1, <2>2, LeftSuits, LeftFacts
  <2>4. CASE call.to = "mixer" /\ ~main.mixer
    <3>1. core'.got = Append(core.got, Unknown(call)) /\ UNCHANGED actorVars
      BY <1>0, <1>4, <2>4 DEF CoreAsks, IsCore
    <3>2. IsGet(Job) => core.got = << >> /\ Unknown(call) = None
      BY <2>3 DEF Suits, Unknown
    <3>. HIDE DEF call
    <3>3. answers'["core"].state = "none"
      BY <2>2, <3>1 DEF IsFree, actorVars
    <3>. QED BY <1>1, <2>1, <2>2, <3>1, <3>2, <3>3, CoreLearns DEF actorVars, Holds
  <2>5. CASE ~(call.to = "mixer" /\ ~main.mixer)
    <3>1. /\ core'.got = core.got /\ box' = Put(box, call.to, m) /\ answers' = Asking("core", call.to)
          /\ status' = status
      BY <1>0, <1>4, <2>5 DEF CoreAsks, IsCore
    <3>2. m.type = call.type /\ m.from = "core" /\ m.arg = call.arg
      BY MessageFacts
    <3>. HIDE DEF call, m
    <3>3. /\ call.to \in {"mixer", "audio"}
          /\ call.to = "mixer" => m.type \in {"set", "get"}
          /\ call.to = "audio" => m.type = "set_uri"
      BY <2>3, <3>2 DEF Asks
    <3>4. /\ m.type = "set" => m.arg.level # None /\ Job.type \in {"setup", "request"}
          /\ m.type = "get" => m.arg.property \in Properties
          /\ IsGet(Job) => /\ core.got = << >> /\ call.to = "mixer" /\ m.type = "get"
                           /\ m.arg.property = Job.arg.property
      BY <2>3, <3>2 DEF Suits
    <3>. QED BY <1>1, <2>1, <3>1, <3>2, <3>3, <3>4, CoreSends
  <2>. QED BY <2>4, <2>5
<1>5. ASSUME NEW restore, CoreGets(restore) PROVE TrueInv'
  <2>. DEFINE v == IF answers["core"].state = "value" THEN answers["core"].value
                   ELSE Unknown(Head(Left(restore)))
  <2>1. /\ IsAnswered("core") /\ core'.got = Append(core.got, v)
        /\ answers' = [answers EXCEPT !["core"] = NoAnswer] /\ status' = status /\ box' = box
        /\ mixerVars' = mixerVars
    BY <1>0, <1>5 DEF CoreGets, IsCore, mixerVars
  <2>2. ~IsFree("core") /\ answers["core"] # Waits
    BY <2>1 DEF IsAnswered, IsFree, Waits
  <2>3. /\ box["core"] # << >> /\ Job.type \in {"setup", "teardown", "request"} /\ ~IsBad(Job)
    BY <1>0, <2>2 DEF CoreInv, CoreBusy, Job
  <2>4. Job \in Range(box["core"])
    BY <1>0, <2>3, SeqFacts DEF Job
  <2>5. FitsCore(Job)
    BY <1>0, <2>4 DEF Post, Fits
  <2>6. ASSUME IsGet(Job)
        PROVE  core.got = << >> /\ Holds(v, wanted[Job.arg.property], box["mixer"])
    <3>1. /\ core.got = << >>
          /\ answers["core"].state = "value" =>
                Holds(answers["core"].value, wanted[Job.arg.property], box["mixer"])
      BY <2>2, <2>3, <2>6 DEF TrueInv, LevelInv, CoreTold
    <3>2. Left(restore) # << >>
      BY <2>6, <3>1, LeftOfRequest DEF IsGet
    <3>3. Suits(Head(Left(restore)))
      BY <1>0, <1>2, <2>3, <2>4, <2>5, <3>2, LeftSuits
    <3>4. Unknown(Head(Left(restore))) = None
      BY <2>6, <3>3 DEF Suits, Unknown
    <3>. QED BY <3>1, <3>4 DEF Holds
  <2>. HIDE DEF v
  <2>7. /\ answers'["core"].state = "none" /\ answers'["web"] = answers["web"]
        /\ answers'["mixer"] = answers["mixer"]
    BY <1>0, <2>1 DEF NoAnswer
  <2>. QED BY <1>1, <2>1, <2>2, <2>3, <2>6, <2>7, CoreLearns
<1>6. ASSUME NEW restore, CoreFinishes(restore) PROVE TrueInv'
  <2>. DEFINE u == IF Job.type = "request" THEN core.got[1] ELSE None
              v == Value(u)
  <2>1. /\ IsAJob /\ Left(restore) = << >> /\ core'.got = << >> /\ answers' = Answered(Job, u)
        /\ box' = Taken("core") /\ status' = status /\ mixerVars' = mixerVars
    BY <1>0, <1>6 DEF CoreFinishes, IsCore
  <2>2. \A x \in Askers : answers'[x] = IF Job.from = x THEN v ELSE answers[x]
    BY <1>0, <2>1, AnsweredFacts
  <2>3. v.state = "value" /\ v.value = u
    BY DEF Value
  <2>4. Job.type = "request" => core.got # << >> /\ u = core.got[1]
    BY <2>1, LeftOfRequest
  <2>5. DOMAIN answers' = Askers
    BY <1>0, <2>1 DEF Answered
  <2>. HIDE DEF u, v
  <2>. QED BY <1>1, <2>1, <2>2, <2>3, <2>4, <2>5, CoreEnds
<1>7. CASE CoreRefuses
  <2>1. /\ IsAJob /\ IsBad(Job) /\ core' = core
        /\ answers' = (IF Job.from = None THEN answers ELSE [answers EXCEPT ![Job.from] = Raised])
        /\ box' = Taken("core") /\ status' = status /\ mixerVars' = mixerVars
    BY <1>7 DEF CoreRefuses, coreVars, mixerVars
  <2>2. core.got = << >>
    <3>1. box["core"] # << >>
      BY <2>1, HasAJob
    <3>. QED BY <1>0, <2>1, <3>1 DEF CoreInv, CoreBusy, Job
  <2>3. /\ DOMAIN answers' = Askers /\ (\A x \in Askers : x # Job.from => answers'[x] = answers[x])
        /\ Job.from \in Askers => answers'[Job.from] = Raised
    BY <1>0, <2>1, NamesAssumption
  <2>4. Raised.state = "raised"
    BY DEF Raised
  <2>. QED BY <1>1, <2>1, <2>2, <2>3, <2>4, CoreEnds
<1>8. CASE CoreForwards
  <2>1. /\ Handles("core", "changed") /\ core' = core /\ answers' = answers
        /\ box' = Put(Taken("core"), "http", Job) /\ status' = status
        /\ mixer' = mixer /\ element' = element /\ wanted' = wanted
    BY <1>8 DEF CoreForwards, mixerVars, coreVars
  <2>2. box["core"] # << >> /\ IsFree("core") /\ core.got = << >>
    BY <2>1, CoreIdle
  <2>3. /\ box'["mixer"] = box["mixer"] /\ box'["audio"] = box["audio"]
        /\ box'["core"] = Tail(box["core"])
    BY <1>0, <2>1, SentBox
  <2>4. /\ Forward(box["core"], box'["core"])
        /\ \A k \in Range(box'["core"]) : k \in Range(box["core"])
    BY <1>0, <2>2, <2>3, SameForward, TailFacts
  <2>5. NothingSet /\ (Undisturbed => Undisturbed')
    BY <2>1, <2>3 DEF NothingSet, Undisturbed
  <2>6. ReplyInv' /\ CoreDown' /\ SetUpFirst' /\ WebTold'
    BY <1>1, <2>1, <2>4, <2>5, ActorStep DEF IsUp
  <2>7. CoreTold'
    BY <2>1, <2>2, CoreToldIdle DEF IsFree
  <2>8. LevelInv'
    BY <1>2, <2>1, <2>3, <2>4, <2>7, LevelFrame DEF TrueInv
  <2>. QED BY <2>6, <2>8 DEF TrueInv
<1>9. CASE CoreStops
  <2>1. /\ Handles("core", "stop") /\ Stops("core") /\ box' = [box EXCEPT !["core"] = << >>]
        /\ core' = core /\ mixer' = mixer /\ element' = element /\ wanted' = wanted
    BY <1>9 DEF CoreStops, mixerVars, coreVars
  <2>2. IsFree("core") /\ core.got = << >> /\ Head(box["core"]).from \in {None, "main"}
    BY <1>0, <2>1, CoreIdle, StopFromMain
  <2>3. /\ box'["core"] = << >> /\ status'["core"] = "stopped"
        /\ \A b \in Actors : b # "core" => status'[b] = status[b] /\ box'[b] = box[b]
        /\ \A x \in Askers : (\A m \in Range(box["core"]) : m.from # x) => answers'[x] = answers[x]
    BY <1>0, <1>1, <2>1, StopsStaff
  <2>4. ASSUME NEW m \in Range(box["core"]) PROVE m.from \notin {"core", "mixer"}
    <3>1. Fits("core", m)
      BY <1>0 DEF Post
    <3>. QED BY <3>1, NamesAssumption DEF Fits, FitsCore, StopFrom, Askers
  <2>5. answers'["mixer"] = answers["mixer"] /\ answers'["core"] = answers["core"]
    BY <1>0, <2>3, <2>4
  <2>6. answers'["web"] \in {Died, answers["web"]}
    BY <1>0, <2>1, <2>2, EndedFacts, NamesAssumption DEF Stops, Askers
  <2>7. IsFree("web") => IsFree("web")'
    <3>1. IsFree("web") => \A m \in Range(box["core"]) : m.from # "web"
      BY <1>0, NoQuestions DEF IsFree, Waits
    <3>. QED BY <1>0, <2>3, <3>1 DEF IsFree
  <2>8. box'["mixer"] = box["mixer"] /\ box'["audio"] = box["audio"]
    BY <1>0, <2>3
  <2>9. NothingSet /\ (Undisturbed => Undisturbed') /\ Forward(box["core"], box'["core"])
    BY <1>0, <2>1, <2>3, <2>8, SameForward DEF NothingSet, Undisturbed
  <2>10. ReplyInv' /\ CoreDown' /\ SetUpFirst'
    <3>1. status'["http"] = status["http"] /\ ~IsUp("core")'
      BY <1>0, <2>3 DEF IsUp
    <3>. QED BY <1>1, <2>7, <2>9, <3>1, RestKept
  <2>11. CoreTold'
    BY <2>1, <2>2, <2>5, CoreToldIdle DEF IsFree
  <2>12. LevelInv'
    BY <2>1, <2>3, <2>5, <2>8, <2>11, EmptyFacts, LevelFrame DEF TrueInv
  <2>13. WebTold'
    <3>. SUFFICES ASSUME ~IsFree("web")' PROVE WebTold'
      BY DEF WebTold
    <3>1. ~IsFree("web") /\ Current' = Current
      BY <1>1, <2>7 DEF Current
    <3>2. /\ NoneAfter(box'["core"], "web", "request") /\ Lacks(box'["core"], "request")
          /\ \A m \in Range(box'["core"]) : FALSE
      BY <2>3, EmptyFacts, EmptyLacks DEF NoneAfter
    <3>3. answers'["web"].state = "value" => answers'["web"] = answers["web"]
      BY <2>6 DEF Died
    <3>. QED BY <2>1, <2>8, <3>1, <3>2, <3>3 DEF TrueInv, WebTold
  <2>. QED BY <2>10, <2>12, <2>13 DEF TrueInv
<1>. QED BY <1>3, <1>4, <1>5, <1>6, <1>7, <1>8, <1>9 DEF CoreThread, CoreActs
-----------------------------------------------------------------------------
(* The backends, the frontend, the web server and its clients. *)

\* Nothing changes for the mixer and audio, and core has one message more at most.
LEMMA AsideKeeps ==
    ASSUME IInv, IInv', TrueInv, main' = main, core' = core,
           mixer' = mixer, element' = element, wanted' = wanted,
           \A a \in {"mixer", "audio", "core"} : status'[a] = status[a],
           box'["mixer"] = box["mixer"], box'["audio"] = box["audio"],
           answers'["core"] = answers["core"], answers'["mixer"] = answers["mixer"],
           \/ box'["core"] = box["core"]
           \/ \E m : /\ IsGet(m) => m.arg.property \in Properties
                     /\ box'["core"] = Append(box["core"], m)
    PROVE  CoreDown' /\ LevelInv' /\ NothingSet
<1>0. IsSeq(box["core"]) /\ CoreInv
  BY Facts
<1>1. CoreDown' /\ NothingSet
  <2>1. (Undisturbed => Undisturbed') /\ (IsUp("core")' => IsUp("core"))
    BY DEF Undisturbed, IsUp
  <2>. QED BY <2>1, DownKept DEF TrueInv, NothingSet
<1>2. \A k \in Range(box'["core"]) : IsGet(k) => k.arg.property \in Properties
  <2>1. PICK m : /\ IsGet(m) => m.arg.property \in Properties
                 /\ box'["core"] = box["core"] \/ box'["core"] = Append(box["core"], m)
    <3>1. CASE box'["core"] = box["core"]
      <4>1. PICK m : m = [type |-> "stop"]
        OBVIOUS
      <4>2. ~IsGet(m)
        BY <4>1 DEF IsGet
      <4>. QED BY <3>1, <4>2
    <3>. QED BY <3>1
  <2>2. \A k \in Range(box'["core"]) : k \in Range(box["core"]) \/ k = m
    BY <1>0, <2>1, Appended
  <2>. QED BY <2>1, <2>2 DEF TrueInv, LevelInv, WellAsked
<1>3. CASE box["core"] = << >>
  <2>1. core'.got = << >> /\ IsFree("core")'
    BY <1>0, <1>3 DEF CoreInv, CoreBusy, IsFree
  <2>2. CoreTold'
    BY <2>1, CoreToldIdle
  <2>. QED BY <1>1, <1>2, <2>2, LevelFrame DEF TrueInv
<1>4. CASE box["core"] # << >>
  <2>1. Job' = Job
    BY <1>0, <1>4, HeadOfAppend DEF Job
  <2>2. CoreTold'
    BY <1>4, <2>1 DEF TrueInv, LevelInv, CoreTold, IsFree, IsGet
  <2>. QED BY <1>1, <1>2, <2>2, LevelFrame DEF TrueInv
<1>. QED BY <1>3, <1>4

LEMMA BackendKeepsTrue ==
    ASSUME IInv, IInv', TrueInv, BackendThread
    PROVE  TrueInv'
<1>0. /\ Post(box, answers) /\ {"mixer", "audio", "core", "http"} \subseteq Actors
      /\ {"mixer", "core", "web"} \subseteq Askers /\ StaffInv /\ IsSeq(box["core"])
  BY Facts DEF Askers
<1>1. PICK b \in Backends : BackendStops(b)
  BY DEF BackendThread
<1>2. /\ Handles(b, "stop") /\ Stops(b) /\ box' = [box EXCEPT ![b] = << >>] /\ main' = main
      /\ mixer' = mixer /\ element' = element /\ wanted' = wanted
      /\ core' = core /\ web' = web /\ reply' = reply
  BY <1>1 DEF BackendThread, BackendStops, serverVars, coreVars, httpVars, mixerVars
<1>3. b \in Actors /\ b \notin {"mixer", "audio", "core", "http"}
  BY NamesAssumption DEF Actors
<1>4. /\ \A a \in Actors : a # b => status'[a] = status[a] /\ box'[a] = box[a]
      /\ \A x \in Askers : (\A m \in Range(box[b]) : m.from # x) => answers'[x] = answers[x]
  BY <1>0, <1>2, <1>3, StopsStaff
<1>5. \A x \in {"mixer", "core", "web"} : answers'[x] = answers[x]
  BY <1>0, <1>3, <1>4, OtherFits, WebAsksCore
<1>6. CoreDown' /\ LevelInv' /\ NothingSet
  BY <1>0, <1>2, <1>3, <1>4, <1>5, AsideKeeps
<1>7. ReplyInv' /\ SetUpFirst' /\ WebTold'
  <2>1. Forward(box["core"], box'["core"])
    BY <1>0, <1>3, <1>4, SameForward
  <2>2. Undisturbed => Undisturbed'
    BY <1>0, <1>3, <1>4 DEF Undisturbed
  <2>. QED BY <1>0, <1>2, <1>3, <1>4, <1>5, <1>6, <2>1, <2>2, ActorStep DEF IsUp
<1>. QED BY <1>6, <1>7 DEF TrueInv

LEMMA HttpKeepsTrue ==
    ASSUME IInv, IInv', TrueInv, HttpThread
    PROVE  TrueInv'
<1>0. /\ Post(box, answers) /\ {"mixer", "audio", "core", "http"} \subseteq Actors
      /\ DOMAIN box = Actors /\ DOMAIN status = Actors /\ IsWeb
      /\ {"mixer", "core", "web"} \subseteq Askers /\ StaffInv /\ IsSeq(box["core"])
  BY Facts DEF Askers
<1>1. /\ main' = main /\ mixer' = mixer /\ element' = element /\ wanted' = wanted
      /\ core' = core /\ reply' = reply
  BY DEF HttpThread, HttpActs, HttpStarts, HttpHearsEvent, HttpStops, serverVars, mixerVars, coreVars
<1>2. web'.job = web.job
  BY <1>0 DEF HttpThread, HttpActs, HttpStarts, HttpHearsEvent, HttpStops, IsWeb
<1>3. /\ \A a \in {"mixer", "audio", "core"} : status'[a] = status[a] /\ box'[a] = box[a]
      /\ \A x \in {"mixer", "core", "web"} : answers'[x] = answers[x]
  <2>1. CASE HttpStarts
    BY <1>0, <2>1 DEF HttpStarts
  <2>2. CASE HttpHearsEvent
    BY <1>0, <2>2, TakenBox DEF HttpHearsEvent
  <2>3. CASE HttpStops
    <3>1. Handles("http", "stop") /\ Stops("http") /\ box' = [box EXCEPT !["http"] = << >>]
      BY <2>3 DEF HttpStops
    <3>2. /\ \A a \in Actors : a # "http" => status'[a] = status[a] /\ box'[a] = box[a]
          /\ \A x \in Askers : (\A m \in Range(box["http"]) : m.from # x) => answers'[x] = answers[x]
      BY <1>0, <1>1, <3>1, StopsStaff
    <3>. QED BY <1>0, <3>2, OtherFits, WebAsksCore
  <2>. QED BY <2>1, <2>2, <2>3 DEF HttpThread, HttpActs
<1>4. CoreDown' /\ LevelInv' /\ NothingSet
  BY <1>1, <1>3, AsideKeeps
<1>5. ReplyInv'
  BY <1>1, <1>2, <1>3, ReplyKept DEF TrueInv, IsFree
<1>6. WebTold'
  <2>1. Onward(box["core"], box'["core"])
    BY <1>0, <1>3, SameForward DEF Onward
  <2>. QED BY <1>2, <1>3, <1>4, <2>1, WebToldKept DEF TrueInv
<1>7. SetUpFirst'
  <2>1. CASE HttpStarts
    <3>1. status["http"] = "starting" /\ status'["http"] = "running" /\ web'.state = "starting"
      BY <1>0, <2>1 DEF HttpStarts, IsWeb
    <3>2. ~BeforeWeb /\ Lacks(box["core"], "setup") /\ web.state # "serving"
      BY <3>1 DEF TrueInv, SetUpFirst
    <3>. QED BY <1>1, <1>2, <1>3, <3>1, <3>2 DEF TrueInv, SetUpFirst, BeforeWeb
  <2>2. CASE HttpHearsEvent
    <3>1. status' = status /\ web'.state = web.state
      BY <1>0, <2>2 DEF HttpHearsEvent, IsWeb
    <3>. QED BY <1>1, <1>2, <1>3, <3>1 DEF TrueInv, SetUpFirst, BeforeWeb
  <2>3. CASE HttpStops
    <3>1. status["http"] = "running" /\ status'["http"] = "stopped" /\ web'.state = web.state
      BY <1>0, <2>3 DEF HttpStops, Stops, Handles, IsWeb
    <3>2. ~BeforeWeb /\ Lacks(box["core"], "setup")
      BY <3>1 DEF TrueInv, SetUpFirst
    <3>. QED BY <1>1, <1>2, <1>3, <3>1, <3>2 DEF TrueInv, SetUpFirst, BeforeWeb
  <2>. QED BY <2>1, <2>2, <2>3 DEF HttpThread, HttpActs
<1>. QED BY <1>4, <1>5, <1>6, <1>7 DEF TrueInv

\* The web server's thread does something, or a client.
LEMMA WebMoves ==
    ASSUME IInv, IInv', TrueInv, main' = main, mixerVars' = mixerVars, core' = core,
           status' = status, box'["mixer"] = box["mixer"], box'["audio"] = box["audio"],
           answers'["core"] = answers["core"], answers'["mixer"] = answers["mixer"],
           \/ box'["core"] = box["core"]
           \/ \E m : /\ m.type = "request" /\ (IsGet(m) => m.arg.property \in Properties)
                     /\ box'["core"] = Append(box["core"], m),
           JobInv', AsksToAnswer', ReplyIsFull', WebTold',
           web'.state # "serving" => web'.job = NoJob,
           web'.state = web.state \/ web.state # "none"
    PROVE  TrueInv'
<1>0. IsSeq(box["core"])
  BY Facts
<1>1. mixer' = mixer /\ element' = element /\ wanted' = wanted
  BY DEF mixerVars
<1>2. CoreDown' /\ LevelInv'
  BY <1>1, AsideKeeps
<1>3. SetUpFirst'
  <2>1. \A m \in Range(box'["core"]) : m.type = "setup" => m \in Range(box["core"])
    <3>1. CASE box'["core"] = box["core"]
      BY <3>1
    <3>2. ASSUME NEW m, m.type = "request", box'["core"] = Append(box["core"], m)
          PROVE  \A k \in Range(box'["core"]) : k.type = "setup" => k \in Range(box["core"])
      BY <1>0, <3>2, Appended
    <3>. QED BY <3>1, <3>2
  <2>2. status["http"] \in {"none", "starting"} => web'.state = "none"
    BY DEF TrueInv, SetUpFirst
  <2>. QED BY <2>1, <2>2 DEF TrueInv, SetUpFirst, BeforeWeb, Lacks
<1>. QED BY <1>2, <1>3 DEF TrueInv, ReplyInv

\* Meanwhile the thread does not wait for core.
LEMMA WebAlone ==
    ASSUME IInv, IInv', TrueInv, main' = main, mixerVars' = mixerVars, core' = core,
           actorVars' = actorVars, IsFree("web"), JobInv', ReplyIsFull',
           web'.state # "serving" => web'.job = NoJob,
           web'.state = web.state \/ web.state # "none"
    PROVE  TrueInv'
<1>1. status' = status /\ box' = box /\ answers' = answers
  BY DEF actorVars
<1>2. IsFree("web")'
  BY <1>1 DEF IsFree
<1>3. AsksToAnswer' /\ WebTold'
  BY <1>2 DEF AsksToAnswer, WebTold
<1>. QED BY <1>1, <1>3, WebMoves

\* Who has no message, or none left, or is at one that is not called, does not wait.
LEMMA WebIsFree ==
    ASSUME AsksToAnswer, ~HasMoreRequests \/ ~CanBeCalled
    PROVE  IsFree("web")
BY DEF AsksToAnswer

LEMMA JobBegins ==
    ASSUME NEW message, IsCallable(message), web'.job.message = message, web'.job.at = 1,
           web'.job.responses = << >>
    PROVE  JobInv'
<1>. DEFINE requests == message.requests
            S == Answerable(requests)
            done == SubSeq(requests, 1, 0)
<1>1. requests \in Seq(Range(requests)) /\ Len(requests) \in Nat
  <2>1. requests \in Seq(Range(requests))
    BY DEF IsCallable
  <2>. QED BY <2>1, LenProperties
<1>2. done = << >>
  BY SubSeqEmpty
<1>3. Chosen(<< >>, S) = << >>
  <2>. HIDE DEF S
  <2>. QED BY <1>1, ChosenType
<1>4. IsSeq(<< >>) /\ InTheirOrder(<< >>, << >>)
  BY EmptyFacts DEF InTheirOrder
<1>5. 1 \in 1 .. Len(requests) + 1 /\ 1 - 1 = 0 /\ \A i \in 1 .. 0 : FALSE
  BY <1>1
<1>. HIDE DEF requests, S, done
<1>6. InTheirOrder(<< >>, Chosen(done, S))
  BY <1>2, <1>3, <1>4
<1>. QED BY <1>4, <1>5, <1>6 DEF JobInv, requests, S, done

LEMMA JobEnds == (web'.job = NoJob \/ (web'.job = web.job /\ JobInv)) => JobInv'
BY DEF JobInv

\* All requests are answered, each in its turn.
LEMMA ReplyGiven ==
    ASSUME IsWeb, JobInv, WebReplies
    PROVE  ReplyIsFull'
<1>. DEFINE message == web.job.message
            requests == message.requests
            responses == web.job.responses
            first == FirstResponse(message)
            S == Answerable(requests)
            answered == Chosen(requests, S)
<1>1. /\ web.job # NoJob /\ web.job.at \in Nat /\ ~(web.job.at <= Len(requests))
      /\ reply'.message = message /\ reply'.responses = first \o responses
  BY DEF WebReplies, HasMoreRequests, IsWeb, NoReply
<1>2. IsCallable(message) /\ requests \in Seq(Range(requests)) /\ Len(requests) \in Nat
  <2>1. IsCallable(message) /\ requests \in Seq(Range(requests))
    BY DEF IsWeb, IsCallable
  <2>. QED BY <2>1, LenProperties
<1>3. /\ web.job.at \in 1 .. Len(requests) + 1
      /\ \A i \in 1 .. web.job.at - 1 : ~Raises(requests[i])
      /\ IsSeq(responses)
      /\ InTheirOrder(responses, Chosen(SubSeq(requests, 1, web.job.at - 1), S))
  BY <1>1 DEF JobInv
<1>4. web.job.at - 1 = Len(requests)
  BY <1>1, <1>2, <1>3
<1>5. SubSeq(requests, 1, Len(requests)) = requests /\ DOMAIN requests = 1 .. Len(requests)
  BY <1>2, SubSeqFull
<1>6. /\ InTheirOrder(responses, answered)
      /\ \A i \in DOMAIN requests : ~Raises(requests[i])
  BY <1>3, <1>4, <1>5
<1>7. Len(responses) \in Nat /\ DOMAIN responses = 1 .. Len(responses)
  BY <1>3, SeqFacts
<1>8. CASE requests = << >>
  <2>1. \E x : x.id = None /\ first = <<x>>
    <3>1. \A x : Response(None, x).id = None
      BY DEF Response
    <3>2. message.kind = "garbage" \/ message.kind = "batch"
      BY <1>2, <1>8 DEF IsCallable
    <3>. QED BY <1>8, <3>1, <3>2 DEF FirstResponse
  <2>2. PICK x : x.id = None /\ first = <<x>>
    BY <2>1
  <2>3. answered = << >>
    <3>. HIDE DEF S
    <3>. QED BY <1>2, <1>8, ChosenType
  <2>4. responses = << >>
    <3>1. Len(responses) = 0
      BY <1>6, <2>3 DEF InTheirOrder
    <3>. QED BY <1>3, <3>1, SeqFacts
  <2>5. reply'.responses = <<x>>
    BY <1>1, <2>2, <2>4
  <2>6. AnsweredIds(message) = <<None>>
    BY <1>8 DEF AnsweredIds
  <2>7. [i \in DOMAIN <<x>> |-> <<x>>[i].id] = <<None>>
    BY <2>2
  <2>. QED BY <1>1, <1>6, <2>5, <2>6, <2>7 DEF ReplyIsFull
<1>9. CASE requests # << >>
  <2>1. first = << >>
    BY <1>2, <1>9 DEF FirstResponse, IsCallable
  <2>2. reply'.responses = responses
    BY <1>1, <1>3, <2>1 DEF IsSeq
  <2>3. AnsweredIds(message) = [i \in 1 .. Len(answered) |-> IdOf(answered[i])]
    BY <1>9 DEF AnsweredIds, IdOf, Answerable
  <2>. HIDE DEF answered, responses
  <2>4. [i \in DOMAIN responses |-> responses[i].id] = [i \in 1 .. Len(answered) |-> IdOf(answered[i])]
    BY <1>6, <1>7 DEF InTheirOrder
  <2>. QED BY <1>1, <1>6, <2>2, <2>3, <2>4 DEF ReplyIsFull
<1>. QED BY <1>8, <1>9

\* What is asked of core on behalf of a client.
LEMMA RequestGets ==
    ASSUME IsWeb, HasMoreRequests, CanBeCalled, NEW x
    PROVE  LET m == Message("request", x, Current.call)
           IN  /\ m.type = "request" /\ m.from = x /\ m.arg = Current.call
               /\ IsGet(m) => m.arg.property \in Properties
<1>. DEFINE m == Message("request", x, Current.call)
<1>1. m.type = "request" /\ m.from = x /\ m.arg = Current.call
  BY MessageFacts
<1>. HIDE DEF m
<1>2. IsGet(m) => m.arg.property \in Properties
  BY <1>1, CurrentFacts DEF IsGet
<1>. QED BY <1>1, <1>2 DEF m

LEMMA WebAsksTrue ==
    ASSUME IInv, IInv', TrueInv, WebAsks, main' = main, mixerVars' = mixerVars, core' = core, reply' = reply
    PROVE  TrueInv'
<1>0. /\ Post(box, answers) /\ DOMAIN box = Actors /\ DOMAIN answers = Askers /\ NobodyThere(box)
      /\ {"mixer", "audio", "core", "http"} \subseteq Actors /\ {"mixer", "core", "web"} \subseteq Askers
      /\ IsSeq(box["core"]) /\ IsWeb
  BY Facts DEF Askers, Mail
<1>1. HasMoreRequests /\ IsFree("web") /\ CanBeCalled /\ ~Raises(Current) /\ status' = status
  BY DEF WebAsks, CanBeCalled
<1>2. web.job # NoJob /\ web.state = "serving"
  BY <1>1 DEF HasMoreRequests, TrueInv, SetUpFirst
<1>3. ReplyIsFull'
  BY DEF TrueInv, ReplyInv, ReplyIsFull
<1>4. CASE IsNotification(Current)
  <2>. DEFINE m == Message("request", None, Current.call)
  <2>1. box' = Put(box, "core", m) /\ answers' = answers /\ web' = [web EXCEPT !.job = WithAnswer(None)]
    BY <1>4 DEF WebAsks
  <2>2. m.type = "request" /\ (IsGet(m) => m.arg.property \in Properties)
    BY <1>0, <1>1, RequestGets
  <2>. HIDE DEF m
  <2>3. /\ box'["mixer"] = box["mixer"] /\ box'["audio"] = box["audio"]
        /\ box'["core"] = box["core"] \/ box'["core"] = Append(box["core"], m)
    BY <1>0, <2>1 DEF Put
  <2>4. web'.job = WithAnswer(None) /\ web'.state = web.state
    BY <1>0, <2>1 DEF IsWeb
  <2>5. JobInv'
    BY <1>0, <1>1, <2>4, JobGoesOn DEF TrueInv, ReplyInv
  <2>6. IsFree("web")'
    BY <1>1, <2>1 DEF IsFree
  <2>7. AsksToAnswer' /\ WebTold'
    BY <2>6 DEF AsksToAnswer, WebTold
  <2>. QED BY <1>1, <1>2, <1>3, <2>1, <2>2, <2>3, <2>4, <2>5, <2>7, WebMoves
<1>5. CASE ~IsNotification(Current)
  <2>. DEFINE m == Message("request", "web", Current.call)
  <2>1. box' = Put(box, "core", m) /\ answers' = Asking("web", "core") /\ web' = web
    BY <1>5 DEF WebAsks
  <2>2. /\ m.type = "request" /\ (IsGet(m) => m.arg.property \in Properties)
        /\ m.arg = Current.call
    BY <1>0, <1>1, RequestGets
  <2>. HIDE DEF m
  <2>3. /\ box'["mixer"] = box["mixer"] /\ box'["audio"] = box["audio"]
        /\ box'["core"] = IF IsUp("core") THEN Append(box["core"], m) ELSE box["core"]
    BY <1>0, <2>1 DEF Put
  <2>4. /\ answers'["core"] = answers["core"] /\ answers'["mixer"] = answers["mixer"]
        /\ answers'["web"] = IF IsUp("core") THEN Waits ELSE Died
    BY <1>0, <2>1 DEF Asking
  <2>5. JobInv' /\ AsksToAnswer'
    BY <1>1, <1>5, <2>1 DEF TrueInv, ReplyInv, JobInv, AsksToAnswer, HasMoreRequests, CanBeCalled, Current
  <2>6. \A k \in Range(box["core"]) : k.from # "web"
    BY <1>0, <1>1, NoQuestions DEF IsFree, Waits
  <2>7. answers'["web"].state # "value" /\ Current' = Current
    BY <2>1, <2>4 DEF Waits, Died, Current
  <2>8. WebTold'
    <3>1. CASE IsUp("core")
      <4>1. box'["core"] = Append(box["core"], m) /\ ~IsAnswered("web")'
        BY <2>3, <2>4, <3>1 DEF IsAnswered, Waits
      <4>2. /\ Len(box["core"]) \in Nat /\ DOMAIN box'["core"] = 1 .. Len(box["core"]) + 1
            /\ \A i \in 1 .. Len(box["core"]) : box'["core"][i] = box["core"][i] /\ box["core"][i] \in Range(box["core"])
            /\ \A k \in Range(box'["core"]) : k \in Range(box["core"]) \/ k = m
        BY <1>0, <4>1, AppendFacts DEF Range
      <4>3. NoneAfter(box'["core"], "web", "request")
        <5>1. ASSUME NEW i \in DOMAIN box'["core"], NEW j \in DOMAIN box'["core"],
                     box'["core"][i].from = "web", j > i
              PROVE  FALSE
          <6>1. i \in 1 .. Len(box["core"])
            BY <4>2, <5>1
          <6>. QED BY <2>6, <4>2, <5>1, <6>1
        <5>. QED BY <5>1 DEF NoneAfter
      <4>. QED BY <2>2, <2>6, <2>7, <4>1, <4>2, <4>3 DEF WebTold
    <3>2. CASE ~IsUp("core")
      <4>1. box'["core"] = << >>
        BY <1>0, <2>3, <3>2 DEF NobodyThere
      <4>2. /\ NoneAfter(box'["core"], "web", "request") /\ Lacks(box'["core"], "request")
            /\ \A k \in Range(box'["core"]) : FALSE
        BY <4>1, EmptyFacts, EmptyLacks DEF NoneAfter
      <4>. QED BY <2>7, <4>2 DEF WebTold
    <3>. QED BY <3>1, <3>2
  <2>9. box'["core"] = box["core"] \/ box'["core"] = Append(box["core"], m)
    BY <2>3
  <2>. QED BY <1>1, <1>2, <1>3, <2>1, <2>2, <2>3, <2>4, <2>5, <2>8, <2>9, WebMoves
<1>. QED BY <1>4, <1>5

LEMMA WebKeepsTrue ==
    ASSUME IInv, IInv', TrueInv, WebThread
    PROVE  TrueInv'
<1>0. /\ Post(box, answers) /\ DOMAIN answers = Askers /\ {"mixer", "core", "web"} \subseteq Askers
      /\ IsSeq(box["core"]) /\ IsWeb /\ JobInv /\ AsksToAnswer /\ ReplyIsFull
  BY Facts DEF Askers, TrueInv, ReplyInv
<1>1. main' = main /\ mixerVars' = mixerVars /\ core' = core
  BY DEF WebThread, serverVars, coreVars
<1>2. ASSUME reply' = reply PROVE ReplyIsFull'
  BY <1>0, <1>2 DEF ReplyIsFull
<1>3. web.job # NoJob => web.state = "serving"
  BY DEF TrueInv, SetUpFirst
<1>4. CASE WebServes
  <2>1. /\ web.state = "starting" /\ web'.job = web.job /\ web'.state = "serving"
        /\ reply' = reply /\ actorVars' = actorVars
    BY <1>0, <1>4 DEF WebServes, IsWeb
  <2>2. IsFree("web")
    BY <1>0, <1>3, <2>1, WebIsFree DEF HasMoreRequests
  <2>3. JobInv'
    BY <1>0, <2>1, JobEnds
  <2>. QED BY <1>1, <1>2, <2>1, <2>2, <2>3, WebAlone
<1>5. CASE WebCallsBack
  <2>1. /\ IsIdle /\ web'.job = web.job /\ web'.state \in {web.state, "ended"}
        /\ reply' = reply /\ actorVars' = actorVars
    BY <1>0, <1>5 DEF WebCallsBack, IsWeb
  <2>2. IsFree("web") /\ web.job = NoJob /\ web.state = "serving"
    BY <1>0, <2>1, WebIsFree DEF HasMoreRequests, IsIdle
  <2>3. JobInv'
    BY <1>0, <2>1, JobEnds
  <2>. QED BY <1>1, <1>2, <2>1, <2>2, <2>3, WebAlone
<1>6. CASE WebRefuses
  <2>1. /\ HasMoreRequests /\ IsFree("web") /\ ~Raises(Current)
        /\ web'.job = WithAnswer(Failed("method_not_found")) /\ web'.state = web.state
        /\ reply' = reply /\ actorVars' = actorVars
    BY <1>0, <1>6 DEF WebRefuses, IsWeb, IsInvalid, Raises
  <2>2. JobInv'
    BY <1>0, <2>1, JobGoesOn
  <2>3. web'.state = "serving"
    BY <1>3, <2>1 DEF HasMoreRequests
  <2>. QED BY <1>1, <1>2, <2>1, <2>2, <2>3, WebAlone
<1>7. CASE WebAsks
  <2>1. reply' = reply
    BY <1>7 DEF WebAsks
  <2>. QED BY <1>1, <1>7, <2>1, WebAsksTrue
<1>8. CASE WebGets
  <2>1. /\ IsAnswered("web") /\ web'.job = WithAnswer(answers["web"]) /\ web'.state = web.state
        /\ answers' = [answers EXCEPT !["web"] = NoAnswer] /\ status' = status /\ box' = box
        /\ reply' = reply
    BY <1>0, <1>8 DEF WebGets, IsWeb
  <2>2. HasMoreRequests /\ ~Raises(Current)
    BY <1>0, <2>1 DEF AsksToAnswer, IsAnswered, IsFree, CanBeCalled
  <2>3. JobInv'
    BY <1>0, <2>1, <2>2, JobGoesOn
  <2>4. /\ IsFree("web")' /\ answers'["core"] = answers["core"] /\ answers'["mixer"] = answers["mixer"]
    BY <1>0, <2>1 DEF IsFree, NoAnswer
  <2>5. AsksToAnswer' /\ WebTold'
    BY <2>4 DEF AsksToAnswer, WebTold
  <2>6. web'.state = "serving"
    BY <1>3, <2>1, <2>2 DEF HasMoreRequests
  <2>. QED BY <1>1, <1>2, <2>1, <2>3, <2>4, <2>5, <2>6, WebMoves
<1>9. CASE WebBreaks
  <2>1. /\ HasMoreRequests /\ IsFree("web") /\ Raises(Current) /\ actorVars' = actorVars
        /\ web'.job = NoJob /\ web'.state = web.state
        /\ reply' = [NoReply EXCEPT !.message = web.job.message, !.isLost = TRUE]
    BY <1>0, <1>9 DEF WebBreaks, IsWeb
  <2>2. reply'.message = web.job.message /\ reply'.isLost /\ reply'.responses = << >>
    BY <2>1 DEF NoReply
  <2>3. web.job.at \in DOMAIN web.job.message.requests
    <3>1. /\ web.job.message.requests \in Seq(Range(web.job.message.requests))
          /\ web.job.at \in Nat \ {0} /\ web.job.at <= Len(web.job.message.requests)
      BY <1>0, <2>1 DEF IsWeb, IsCallable, HasMoreRequests
    <3>. QED BY <3>1
  <2>4. ReplyIsFull'
    <3>1. Raises(web.job.message.requests[web.job.at])
      BY <2>1 DEF Current
    <3>2. \E i \in DOMAIN reply'.message.requests : Raises(reply'.message.requests[i])
      BY <2>2, <2>3, <3>1
    <3>3. (IF \E i \in DOMAIN reply'.message.requests : Raises(reply'.message.requests[i])
           THEN reply'.isLost /\ reply'.responses = << >>
           ELSE [i \in DOMAIN reply'.responses |-> reply'.responses[i].id]
                    = AnsweredIds(reply'.message)) = TRUE
      BY ONLY <2>2, <3>2, Zenon
    <3>. QED BY <3>3, Zenon DEF ReplyIsFull
  <2>5. JobInv'
    BY <2>1, JobEnds
  <2>. QED BY <1>1, <2>1, <2>4, <2>5, WebAlone
<1>10. CASE WebReplies
  <2>1. /\ ~HasMoreRequests /\ actorVars' = actorVars /\ web'.job = NoJob /\ web'.state = web.state
    BY <1>0, <1>10 DEF WebReplies, IsWeb
  <2>2. ReplyIsFull'
    BY <1>0, <1>10, ReplyGiven
  <2>3. JobInv' /\ IsFree("web")
    BY <1>0, <2>1, JobEnds, WebIsFree
  <2>. QED BY <1>1, <2>1, <2>2, <2>3, WebAlone
<1>. QED BY <1>4, <1>5, <1>6, <1>7, <1>8, <1>9, <1>10 DEF WebThread, WebActs

LEMMA ClientsKeepTrue ==
    ASSUME IInv, IInv', TrueInv, ClientsAct
    PROVE  TrueInv'
<1>0. IsWeb /\ JobInv /\ AsksToAnswer /\ ReplyIsFull
  BY Facts DEF TrueInv, ReplyInv
<1>1. /\ main' = main /\ mixerVars' = mixerVars /\ core' = core /\ reply' = reply
      /\ actorVars' = actorVars
  BY DEF ClientsAct, ClientActs, WebOpens, WebCloses, WebReceives, WebGetsPost, serverVars, coreVars
<1>2. ReplyIsFull'
  BY <1>0, <1>1 DEF ReplyIsFull
<1>3. PICK c \in Clients :
         WebOpens(c, Protected) \/ WebCloses(c) \/ WebReceives(c) \/ WebGetsPost(c, Protected)
  BY DEF ClientsAct, ClientActs
<1>4. IsIdle /\ web'.state = web.state
  BY <1>0, <1>3 DEF WebOpens, WebCloses, WebReceives, WebGetsPost, Does, IsWeb
<1>5. web.job = NoJob /\ web.state = "serving" /\ IsFree("web")
  BY <1>0, <1>4, WebIsFree DEF IsIdle, HasMoreRequests
<1>6. JobInv'
  <2>1. \/ web'.job = web.job
        \/ /\ \E what \in {"send", "post"} : Does(c, what)
           /\ web'.job.at = 1 /\ web'.job.message = Head(scripts[c]).message
           /\ web'.job.responses = << >>
    <3>. DEFINE message == Head(scripts[c]).message
    <3>1. CASE WebOpens(c, Protected) \/ WebCloses(c)
      BY <1>0, <3>1 DEF WebOpens, WebCloses, IsWeb
    <3>2. CASE WebReceives(c)
      <4>. DEFINE job == [NoJob EXCEPT !.client = c, !.socket = TRUE, !.message = message,
                                       !.at = 1]
      <4>1. job.at = 1 /\ job.message = message /\ job.responses = << >>
        BY DEF NoJob
      <4>2. /\ Does(c, "send")
            /\ web' = web \/ web' = [web EXCEPT !.job = job]
        BY <3>2 DEF WebReceives
      <4>. HIDE DEF job
      <4>. QED BY <1>0, <4>1, <4>2 DEF IsWeb
    <3>3. CASE WebGetsPost(c, Protected)
      <4>. DEFINE job == [NoJob EXCEPT !.client = c, !.message = message, !.at = 1]
      <4>1. job.at = 1 /\ job.message = message /\ job.responses = << >>
        BY DEF NoJob
      <4>2. /\ Does(c, "post")
            /\ web' = web \/ web' = [web EXCEPT !.job = job]
        BY <3>3 DEF WebGetsPost
      <4>. HIDE DEF job
      <4>. QED BY <1>0, <4>1, <4>2 DEF IsWeb
    <3>. QED BY <1>3, <3>1, <3>2, <3>3
  <2>2. CASE web'.job = web.job
    BY <1>0, <2>2, JobEnds
  <2>3. ASSUME NEW what \in {"send", "post"}, Does(c, what),
               web'.job.at = 1, web'.job.message = Head(scripts[c]).message,
               web'.job.responses = << >>
        PROVE  JobInv'
    <3>1. IsSeq(scripts[c]) /\ scripts[c] # << >> /\ Head(scripts[c]).do = what
      BY <1>0, <2>3 DEF IsWeb, Does
    <3>2. Head(scripts[c]) \in Range(scripts[c])
      BY <3>1, SeqFacts
    <3>3. IsCallable(Head(scripts[c]).message)
      BY <1>0, <3>1, <3>2 DEF IsWeb
    <3>. QED BY <2>3, <3>3, JobBegins
  <2>. QED BY <2>1, <2>2, <2>3
<1>. QED BY <1>1, <1>2, <1>4, <1>5, <1>6, WebAlone
-----------------------------------------------------------------------------
(* The main thread. *)

\* Mailbox b becomes d: as it is, renamed, or with news.
Kept(b, d) == d = b \/ Renamed(b, d) \/ \E m : IsNews(m) /\ d = Append(b, m)

LEMMA KeptFacts ==
    ASSUME NEW b, NEW d, IsSeq(b), IsSeq(d), Kept(b, d)
    PROVE  /\ Onward(b, d)
           /\ b # << >> => Head(d).arg = Head(b).arg
<1>1. Onward(b, d)
  BY DEF Kept, Onward, Forward
<1>2. ASSUME b # << >> PROVE Head(d).arg = Head(b).arg
  <2>1. Head(b) = b[1] /\ 1 \in DOMAIN b
    BY <1>2, SeqFacts
  <2>2. CASE Renamed(b, d)
    <3>1. d # << >>
      BY <2>1, <2>2, EmptyFacts DEF Renamed
    <3>. QED BY <2>1, <2>2, <3>1, SeqFacts DEF Renamed
  <2>3. ASSUME NEW m, d = Append(b, m) PROVE Head(d).arg = Head(b).arg
    BY <1>2, <2>3, HeadOfAppend
  <2>. QED BY <2>2, <2>3 DEF Kept
<1>. QED BY <1>1, <1>2

\* What the main thread leaves as it is.
LEMMA MainLeaves ==
    ASSUME IInv, IInv', TrueInv, mixerVars' = mixerVars, core' = core, web' = web, reply' = reply,
           \A x \in {"mixer", "core", "web"} : answers'[x] = answers[x],
           \A a \in {"mixer", "audio", "core"} : Kept(box[a], box'[a]),
           CoreDown', SetUpFirst'
    PROVE  TrueInv'
<1>0. /\ \A a \in {"mixer", "audio", "core"} : IsSeq(box[a]) /\ IsSeq(box'[a])
      /\ MixerWaits /\ mixer' = mixer /\ element' = element /\ wanted' = wanted
      /\ LevelInv /\ ReplyInv /\ WebTold /\ \A x \in {"mixer", "core", "web"} : IsFree(x)' <=> IsFree(x)
  BY Facts DEF IInv, StaffInv, Mail, Post, Actors, mixerVars, TrueInv, IsFree
<1>1. \A a \in {"mixer", "audio", "core"} : Onward(box[a], box'[a])
  BY <1>0, KeptFacts
<1>2. NothingSet
  BY <1>0, <1>1, OnwardLacks DEF NothingSet
<1>3. ReplyInv'
  BY <1>0, ReplyKept
<1>4. LevelsWanted' /\ WellAsked'
  BY <1>0, <1>1, LevelsKept, AskedKept DEF LevelInv
<1>5. MixerTold'
  <2>1. answers["mixer"].state = "value" => Head(box'["mixer"]).arg = Head(box["mixer"]).arg
    BY <1>0, KeptFacts DEF MixerWaits, IsFree
  <2>. QED BY <1>0, <1>1, <2>1, MixerToldKept DEF LevelInv, MixerTold
<1>6. CoreTold'
  <2>1. Kept(box["core"], box'["core"])
    OBVIOUS
  <2>2. box'["core"] # << >> /\ IsGet(Job)' =>
           box["core"] # << >> /\ IsGet(Job) /\ Job'.arg = Job.arg
    BY <1>0, <2>1, JobStays DEF Kept
  <2>. QED BY <1>0, <1>1, <1>2, <2>2, CoreToldKept DEF LevelInv
<1>7. WebTold'
  BY <1>0, <1>1, <1>2, WebToldKept
<1>. QED BY <1>3, <1>4, <1>5, <1>6, <1>7 DEF TrueInv, LevelInv

LEMMA SetUpStays ==
    ASSUME SetUpFirst, web' = web, status'["http"] = status["http"],
           IsSeq(box["core"]), IsSeq(box'["core"]), Kept(box["core"], box'["core"]),
           BeforeWeb' => BeforeWeb, main'.at \notin {"setup", "frontends"}
    PROVE  SetUpFirst'
<1>1. Lacks(box["core"], "setup") => Lacks(box'["core"], "setup")
  BY KeptFacts, OnwardLacks
<1>. QED BY <1>1 DEF SetUpFirst

\* Before the web server is there, nothing is asked of it.
LEMMA NoWebYet ==
    ASSUME TrueInv, BeforeWeb
    PROVE  status["http"] = "none" /\ web.state = "none" /\ web.job = NoJob /\ IsFree("web")
<1>1. status["http"] = "none" /\ web.state = "none" /\ web.job = NoJob
  BY DEF TrueInv, SetUpFirst
<1>. QED BY <1>1, WebIsFree DEF TrueInv, ReplyInv, HasMoreRequests

LEMMA InterruptedKeepsTrue ==
    ASSUME IInv, TrueInv, main' = Interrupted,
           \/ main' = main /\ box' = box /\ answers' = answers
           \/ box' = Forgotten /\ answers' = NoLongerWaiting,
           \/ status' = status
           \/ status["audio"] = "starting" /\ status' = [status EXCEPT !["audio"] = "running"],
           mixerVars' = mixerVars, core' = core, web' = web, scripts' = scripts, reply' = reply
    PROVE  TrueInv'
<1>0. /\ Post(box, answers) /\ {"mixer", "audio", "core", "http"} \subseteq Actors
      /\ DOMAIN answers = Askers /\ {"mixer", "core", "web"} \subseteq Askers /\ IsMain
      /\ DOMAIN status = Actors /\ SetUpFirst /\ CoreDown
  BY Facts DEF Askers, IInv, StaffInv, IsMain, TrueInv
<1>1. IInv'
  BY InterruptedStep
<1>2. /\ main' # main => main'.at \in {"ended", "aborted", "stop_frontends"}
      /\ main' = main => main.at \in {"ended", "aborted"}
  BY <1>0, InterruptedFacts
<1>3. \A x \in {"mixer", "core", "web"} : answers'[x] = answers[x]
  BY <1>0 DEF NoLongerWaiting
<1>4. ASSUME NEW a \in {"mixer", "audio", "core"}
      PROVE  /\ Kept(box[a], box'[a]) /\ IsSeq(box[a]) /\ IsSeq(box'[a])
             /\ Lacks(box'[a], "stop") <=> Lacks(box[a], "stop")
  <2>1. a \in Actors /\ IsSeq(box[a])
    BY <1>0 DEF Post
  <2>2. CASE box' = box
    BY <2>1, <2>2 DEF Kept
  <2>3. CASE box' = Forgotten
    <3>1. IsSeq(box'[a]) /\ Renamed(box[a], box'[a])
      BY <1>0, <2>1, <2>3, ForgottenFacts DEF Renamed
    <3>2. Lacks(box'[a], "stop") <=> Lacks(box[a], "stop")
      BY <1>0, <2>1, <2>3, LacksForgotten
    <3>. QED BY <2>1, <3>1, <3>2 DEF Kept
  <2>. QED BY <2>2, <2>3
<1>5. /\ status'["http"] = status["http"] /\ IsUp("core")' <=> IsUp("core")
      /\ Undisturbed => Undisturbed'
  <2>1. \A a \in {"http", "core", "mixer"} : status'[a] = status[a]
    BY <1>0
  <2>2. status["audio"] # "stopped" => status'["audio"] # "stopped"
    BY <1>0
  <2>. QED BY <1>4, <2>1, <2>2 DEF IsUp, Undisturbed
<1>6. CoreDown'
  BY <1>0, <1>2, <1>5 DEF CoreDown
<1>7. SetUpFirst'
  BY <1>0, <1>2, <1>4, <1>5, SetUpStays DEF BeforeWeb
<1>. QED BY <1>1, <1>3, <1>4, <1>6, <1>7, MainLeaves

\* The main thread goes on, and tells nobody but the actors that it stops.
LEMMA MainPasses ==
    ASSUME IInv, IInv', TrueInv, mixerVars' = mixerVars, core' = core, web' = web, reply' = reply,
           answers' = answers \/ answers' = NoLongerWaiting, box' = box,
           status'["http"] = status["http"], BeforeWeb' => BeforeWeb,
           main'.at \notin {"setup", "frontends"}, CoreDown'
    PROVE  TrueInv'
<1>0. /\ \A a \in {"mixer", "audio", "core"} : IsSeq(box[a]) /\ Kept(box[a], box'[a])
      /\ DOMAIN answers = Askers /\ {"mixer", "core", "web"} \subseteq Askers
  BY Facts DEF Kept, Askers
<1>1. \A x \in {"mixer", "core", "web"} : answers'[x] = answers[x]
  BY <1>0 DEF NoLongerWaiting
<1>2. SetUpFirst'
  BY <1>0, SetUpStays DEF TrueInv
<1>. QED BY <1>0, <1>1, <1>2, MainLeaves

LEMMA ConfigureKeepsTrue ==
    ASSUME IInv, IInv', TrueInv, Configure
    PROVE  TrueInv'
<1>0. main \in MainType /\ main.at = "config" /\ NotStarted /\ "core" \in Actors
  BY MainFacts, Facts DEF Configure
<1>1. /\ main' = Go("ended") \/ main' = Go("mixer")
      /\ actorVars' = actorVars /\ mixerVars' = mixerVars /\ core' = core /\ web' = web
      /\ reply' = reply
  BY DEF Configure, coreVars, httpVars
<1>2. main'.at \in {"ended", "mixer"}
  BY <1>0, <1>1, GoFacts DEF Starting
<1>3. ~IsUp("core")'
  BY <1>0, <1>1 DEF NotStarted, Early, IsUp, actorVars
<1>4. CoreDown' /\ BeforeWeb
  BY <1>0, <1>3 DEF CoreDown, BeforeWeb
<1>5. main'.at \notin {"setup", "frontends"}
  BY <1>2
<1>. QED BY <1>1, <1>4, <1>5, MainPasses DEF actorVars

LEMMA StartMixerKeepsTrue ==
    ASSUME IInv, IInv', TrueInv, NEW configured, NEW volume, NEW fails,
           StartMixer(configured, volume, fails),
           mixerVars' = mixerVars, core' = core, web' = web, reply' = reply
    PROVE  TrueInv'
<1>. DEFINE m == Message("set", None, [property |-> "volume", level |-> volume])
<1>0. /\ main \in MainType /\ NotStarted /\ NobodyThere(box) /\ MixerWaits /\ main.at = "mixer"
      /\ {"mixer", "audio", "core", "http"} \subseteq Actors /\ DOMAIN box = Actors
      /\ DOMAIN status = Actors /\ LevelsWanted /\ ReplyInv /\ SetUpFirst
      /\ mixer' = mixer /\ element' = element /\ wanted' = wanted
  BY MainFacts, Facts DEF StartMixer, TrueInv, LevelInv, mixerVars
<1>1. /\ main'.at = "audio" /\ answers' = answers
      /\ \A a \in Actors : a # "mixer" => box'[a] = box[a] /\ status'[a] = status[a]
      /\ box'["mixer"] = box["mixer"] \/ (volume # None /\ box'["mixer"] = <<m>>)
  BY <1>0 DEF StartMixer, Go, MainType
<1>2. box["mixer"] = << >> /\ box["core"] = << >> /\ core.got = << >>
  BY <1>0, BeforeCore DEF NotStarted, Early, NobodyThere, IsUp
<1>3. IsFree("mixer") /\ IsFree("web")
  BY <1>0, <1>2, NoWebYet DEF MixerWaits, BeforeWeb
<1>4. m.type = "set" /\ m.arg.level = volume
  BY DEF Message
<1>. HIDE DEF m
<1>5. \/ box'["mixer"] = << >> /\ Range(box'["mixer"]) = {} /\ DOMAIN box'["mixer"] = {}
      \/ Range(box'["mixer"]) = {m} /\ DOMAIN box'["mixer"] = {1} /\ volume # None
  BY <1>1, <1>2, EmptyFacts, OneFacts
<1>6. LevelsWanted'
  BY <1>0, <1>1 DEF LevelsWanted
<1>7. WellAsked' /\ MixerTold'
  <2>1. AsksAfterSets(box'["mixer"], "core")
    BY <1>5 DEF AsksAfterSets
  <2>2. IsFree("mixer")' /\ answers'["mixer"].state # "value"
    BY <1>1, <1>3 DEF IsFree
  <2>3. box'["core"] = << >>
    BY <1>0, <1>1, <1>2
  <2>. QED BY <1>4, <1>5, <2>1, <2>2, <2>3, EmptyFacts DEF WellAsked, MixerTold
<1>8. CoreTold'
  BY <1>0, <1>1, <1>2 DEF CoreTold
<1>9. IsFree("web")' /\ WebTold'
  BY <1>1, <1>3 DEF IsFree, WebTold
<1>10. ReplyInv'
  BY <1>0, <1>9, ReplyKept
<1>11. CoreDown'
  BY <1>1 DEF IInv, MixerInv, StopsInTurn, CoreDown, Starting
<1>12. SetUpFirst'
  BY <1>0, <1>1, <1>2, EmptyFacts, EmptyLacks DEF SetUpFirst, BeforeWeb
<1>. QED BY <1>6, <1>7, <1>8, <1>9, <1>10, <1>11, <1>12 DEF TrueInv, LevelInv

LEMMA StartCoreKeepsTrue ==
    ASSUME IInv, IInv', TrueInv, NEW schemes, StartCore(schemes),
           mixerVars' = mixerVars, core' = core, web' = web, reply' = reply
    PROVE  TrueInv'
<1>. DEFINE m == Message("setup", "main", None)
<1>0. /\ main \in MainType /\ main.at = "core"
      /\ {"mixer", "audio", "core", "http"} \subseteq Actors /\ DOMAIN box = Actors
      /\ DOMAIN status = Actors /\ DOMAIN answers = Askers /\ {"mixer", "core", "web"} \subseteq Askers
      /\ LevelInv /\ ReplyInv /\ SetUpFirst
      /\ mixer' = mixer /\ element' = element /\ wanted' = wanted
  BY MainFacts, Facts DEF StartCore, TrueInv, mixerVars, Askers
<1>1. CASE Clash(schemes)
  <2>1. main' = Go("stop_frontends") /\ actorVars' = actorVars
    BY <1>1 DEF StartCore
  <2>2. main'.at = "stop_frontends"
    BY <1>0, <2>1, GoFacts DEF Stopping
  <2>3. CoreDown'
    BY <2>2 DEF IInv, MixerInv, StopsInTurn, CoreDown, Starting
  <2>. QED BY <2>1, <2>2, <2>3, MainPasses DEF actorVars, BeforeWeb
<1>2. CASE ~Clash(schemes)
  <2>1. /\ status' = [status EXCEPT !["core"] = "running"] /\ box' = [box EXCEPT !["core"] = <<m>>]
        /\ answers' = [answers EXCEPT !["main"] = Waits] /\ main' = Go("setup")
    BY <1>2 DEF StartCore
  <2>2. m.type = "setup" /\ m.from = "main"
    BY DEF Message
  <2>. HIDE DEF m
  <2>3. /\ main'.at = "setup" /\ \A x \in {"mixer", "core", "web"} : answers'[x] = answers[x]
        /\ box'["core"] = <<m>> /\ box'["mixer"] = box["mixer"] /\ box'["audio"] = box["audio"]
        /\ status'["http"] = status["http"]
    BY <1>0, <2>1, GoFacts DEF Starting
  <2>4. Range(box'["core"]) = {m} /\ Head(box'["core"]) = m
    BY <2>3, OneFacts
  <2>5. IsFree("web") /\ status["http"] = "none" /\ web.state = "none" /\ web.job = NoJob
    BY <1>0, NoWebYet DEF BeforeWeb
  <2>6. LevelInv'
    <3>1. CoreTold'
      BY <2>2, <2>4 DEF CoreTold, IsGet, Job
    <3>2. \A k \in Range(box'["core"]) : IsGet(k) => k.arg.property \in Properties
      BY <2>2, <2>4 DEF IsGet
    <3>. QED BY <1>0, <2>3, <3>1, <3>2, LevelFrame
  <2>7. IsFree("web")' /\ WebTold'
    BY <2>3, <2>5 DEF IsFree, WebTold
  <2>8. ReplyInv'
    BY <1>0, <2>7, ReplyKept
  <2>9. CoreDown'
    BY <2>3 DEF IInv, MixerInv, StopsInTurn, CoreDown, Starting
  <2>10. SetUpFirst'
    BY <2>2, <2>3, <2>4, <2>5 DEF SetUpFirst
  <2>. QED BY <2>6, <2>7, <2>8, <2>9, <2>10 DEF TrueInv
<1>. QED BY <1>1, <1>2

LEMMA CoreSetUpKeepsTrue ==
    ASSUME IInv, IInv', TrueInv, CoreSetUp,
           mixerVars' = mixerVars, core' = core, web' = web, reply' = reply
    PROVE  TrueInv'
<1>0. /\ main \in MainType /\ main.at = "setup" /\ "core" \in Actors /\ SetUpFirst
      /\ IsAnswered("main") /\ NoneFrom(box, "main")
      /\ \A a \in {"mixer", "audio", "core"} : IsSeq(box[a]) /\ Kept(box[a], box[a])
      /\ DOMAIN answers = Askers /\ {"mixer", "core", "web"} \subseteq Askers
  BY MainFacts, Facts DEF CoreSetUp, TrueInv, Kept, Askers
<1>1. /\ main'.at = "frontends" /\ status' = status /\ box' = box
      /\ \A x \in {"mixer", "core", "web"} : answers'[x] = answers[x]
  BY <1>0 DEF CoreSetUp, Go, MainType
<1>2. Lacks(box["core"], "setup")
  BY <1>0 DEF SetUpFirst, NoneFrom, Lacks
<1>3. CoreDown'
  BY <1>1 DEF IInv, MixerInv, StopsInTurn, CoreDown, Starting
<1>4. SetUpFirst'
  BY <1>0, <1>1, <1>2 DEF SetUpFirst, BeforeWeb
<1>. QED BY <1>0, <1>1, <1>3, <1>4, MainLeaves

LEMMA StartFrontendsKeepsTrue ==
    ASSUME IInv, IInv', TrueInv, NEW configured, NEW fails, StartFrontends(configured, fails),
           mixerVars' = mixerVars, core' = core, web' = web, reply' = reply
    PROVE  TrueInv'
<1>0. /\ main \in MainType /\ main.at = "frontends" /\ "http" \in Actors /\ SetUpFirst
      /\ DOMAIN status = Actors
      /\ \A a \in {"mixer", "audio", "core"} : Kept(box[a], box[a])
  BY MainFacts, Facts DEF StartFrontends, TrueInv, Kept
<1>1. /\ main'.at = "loop" /\ box' = box /\ answers' = answers
      /\ status'["http"] \in {status["http"], "starting"}
  BY <1>0 DEF StartFrontends, Go, MainType
<1>2. CoreDown'
  BY <1>1 DEF IInv, MixerInv, StopsInTurn, CoreDown, Starting
<1>3. Lacks(box["core"], "setup") /\ web.state = "none" /\ web.job = NoJob
  BY <1>0, NoWebYet DEF SetUpFirst, BeforeWeb
<1>4. SetUpFirst'
  BY <1>1, <1>3 DEF SetUpFirst, BeforeWeb
<1>. QED BY <1>0, <1>1, <1>2, <1>4, MainLeaves

LEMMA StartKeepsTrue ==
    ASSUME IInv, IInv', TrueInv, MainStarts,
           mixerVars' = mixerVars, core' = core, web' = web, reply' = reply
    PROVE  TrueInv'
<1>0. /\ main \in MainType /\ "http" \in Actors /\ "http" # "audio" /\ "http" \notin Backends
      /\ DOMAIN status = Actors
  BY MainFacts, Facts, NamesAssumption
<1>1. CASE StartAudio
  <2>1. /\ main.at = "audio" /\ main'.at = "backends" /\ box' = box /\ answers' = answers
        /\ status'["http"] = status["http"]
    BY <1>0, <1>1 DEF StartAudio, Go, MainType
  <2>2. CoreDown'
    BY <2>1 DEF IInv, MixerInv, StopsInTurn, CoreDown, Starting
  <2>. QED BY <2>1, <2>2, MainPasses DEF BeforeWeb
<1>2. CASE \E registered \in SUBSET Backends : \E fails, dies : StartBackends(registered, fails, dies)
  <2>1. /\ main.at = "backends" /\ main'.at = "core" /\ box' = box /\ answers' = answers
        /\ status'["http"] = status["http"]
    BY <1>0, <1>2 DEF StartBackends, Go, MainType
  <2>2. CoreDown'
    BY <2>1 DEF IInv, MixerInv, StopsInTurn, CoreDown, Starting
  <2>. QED BY <2>1, <2>2, MainPasses DEF BeforeWeb
<1>3. Enabled(conf.statuses) \intersect Backends \in SUBSET Backends
  OBVIOUS
<1>. QED BY <1>1, <1>2, <1>3, StartMixerKeepsTrue, StartCoreKeepsTrue, CoreSetUpKeepsTrue,
            StartFrontendsKeepsTrue DEF MainStarts

\* Who is told to stop, or to save, has one more message.
LEMMA MainAsksKeepsTrue ==
    ASSUME IInv, IInv', TrueInv, NEW a \in Actors, NEW m, IsNews(m), box' = Put(box, a, m),
           answers' = [answers EXCEPT !["main"] = Waits] \/ answers' = Asking("main", a),
           main' = [main EXCEPT !.asked = TRUE], main.at \in Stopping, status' = status,
           mixerVars' = mixerVars, core' = core, web' = web, reply' = reply
    PROVE  TrueInv'
<1>0. /\ DOMAIN box = Actors /\ {"mixer", "audio", "core", "http"} \subseteq Actors
      /\ DOMAIN answers = Askers /\ {"mixer", "core", "web"} \subseteq Askers
      /\ \A x \in {"mixer", "audio", "core"} : IsSeq(box[x]) /\ IsSeq(box'[x])
      /\ main \in MainType /\ CoreDown /\ SetUpFirst
  BY MainFacts, Facts DEF IInv, StaffInv, Mail, Post, Actors, Askers, TrueInv
<1>1. main'.at = main.at
  BY <1>0 DEF MainType
<1>2. \A x \in {"mixer", "core", "web"} : answers'[x] = answers[x]
  BY <1>0 DEF Asking
<1>3. ASSUME NEW x \in {"mixer", "audio", "core"} PROVE Kept(box[x], box'[x])
  <2>1. box'[x] = box[x] \/ box'[x] = Append(box[x], m)
    <3>1. x \in Actors
      BY <1>0
    <3>2. /\ Put(box, a, m)[a] = (IF IsUp(a) THEN Append(box[a], m) ELSE box[a])
          /\ \A b \in Actors : b # a => Put(box, a, m)[b] = box[b]
      BY <1>0, PutBox
    <3>. QED BY <3>1, <3>2
  <2>. QED BY <2>1 DEF Kept
<1>4. CoreDown'
  <2>1. CASE main.at \in {"stop_backends", "stop_audio", "stop_mixer", "stop_remaining"}
    BY <1>0, <1>1, <2>1 DEF CoreDown, IsUp
  <2>2. CASE main.at \notin {"stop_backends", "stop_audio", "stop_mixer", "stop_remaining"}
    BY <1>1, <2>2 DEF IInv, MixerInv, StopsInTurn, CoreDown, Stopping
  <2>. QED BY <2>1, <2>2
<1>5. SetUpFirst'
  <2>1. BeforeWeb' => BeforeWeb
    BY <1>1 DEF BeforeWeb
  <2>2. main'.at \notin {"setup", "frontends"}
    BY <1>1 DEF Stopping
  <2>. QED BY <1>0, <1>3, <2>1, <2>2, SetUpStays
<1>. QED BY <1>2, <1>3, <1>4, <1>5, MainLeaves

LEMMA StopKeepsTrue ==
    ASSUME IInv, IInv', TrueInv, NEW actors \in SUBSET Actors, NEW next \in Stopping \union {"ended"},
           StopActors(actors, next), main.at \in Stopping,
           next \in {"teardown", "stop_core"} => main.at \in {"stop_frontends", "teardown"},
           next \notin {"teardown", "stop_core"} =>
              \/ main.at \in {"stop_backends", "stop_audio", "stop_mixer", "stop_remaining"}
              \/ "core" \in actors,
           next # "stop_frontends",
           mixerVars' = mixerVars, core' = core, web' = web, reply' = reply
    PROVE  TrueInv'
<1>. DEFINE left == {a \in actors : IsUp(a)}
            m == Message("stop", "main", None)
<1>0. main \in MainType /\ DOMAIN answers = Askers /\ CoreDown
  BY Facts, MainFacts DEF TrueInv
<1>1. CASE ~main.asked /\ left # {}
  <2>1. PICK a \in left : /\ main' = [main EXCEPT !.asked = TRUE] /\ box' = Put(box, a, m)
                          /\ answers' = [answers EXCEPT !["main"] = Waits] /\ status' = status
    BY <1>1 DEF StopActors
  <2>2. a \in Actors
    OBVIOUS
  <2>3. IsNews(m)
    BY DEF Message, IsNews
  <2>. HIDE DEF m, left
  <2>. QED BY <2>1, <2>2, <2>3, MainAsksKeepsTrue
<1>2. CASE ~(~main.asked /\ left # {})
  <2>1. /\ answers' = NoLongerWaiting /\ status' = status /\ box' = box
        /\ main' = IF left = {} THEN Go(next) ELSE [main EXCEPT !.asked = FALSE]
    BY <1>2 DEF StopActors
  <2>2. main'.at = IF left = {} THEN next ELSE main.at
    BY <1>0, <2>1, GoFacts DEF MainType
  <2>3. CoreDown'
    <3>1. CASE main.at \in {"stop_backends", "stop_audio", "stop_mixer", "stop_remaining"}
      <4>1. ~IsUp("core")
        BY <1>0, <3>1 DEF CoreDown
      <4>. QED BY <2>1, <4>1 DEF CoreDown, IsUp
    <3>2. CASE left = {} /\ "core" \in actors
      <4>1. ~IsUp("core")
        BY <3>2
      <4>. QED BY <2>1, <4>1 DEF CoreDown, IsUp
    <3>3. CASE main'.at \in {"stop_frontends", "teardown", "stop_core"}
      BY <3>3 DEF IInv, MixerInv, StopsInTurn, CoreDown
    <3>. QED BY <2>2, <3>1, <3>2, <3>3 DEF Stopping
  <2>4. (BeforeWeb' => BeforeWeb) /\ main'.at \notin {"setup", "frontends"}
    BY <2>2 DEF BeforeWeb, Stopping
  <2>. QED BY <2>1, <2>3, <2>4, MainPasses
<1>. QED BY <1>1, <1>2

LEMMA TeardownKeepsTrue ==
    ASSUME IInv, IInv', TrueInv, Teardown,
           mixerVars' = mixerVars, core' = core, web' = web, reply' = reply
    PROVE  TrueInv'
<1>. DEFINE m == Message("teardown", "main", None)
<1>0. main \in MainType /\ "core" \in Actors /\ main.at = "teardown" /\ main.at \in Stopping
  BY Facts, MainFacts DEF Teardown, Stopping
<1>1. CASE main.core /\ ~main.asked
  <2>1. /\ main' = [main EXCEPT !.asked = TRUE] /\ box' = Put(box, "core", m)
        /\ answers' = Asking("main", "core") /\ status' = status
    BY <1>1 DEF Teardown
  <2>2. IsNews(m)
    BY DEF Message, IsNews
  <2>. HIDE DEF m
  <2>. QED BY <1>0, <2>1, <2>2, MainAsksKeepsTrue
<1>2. CASE ~(main.core /\ ~main.asked)
  <2>1. answers' = NoLongerWaiting /\ status' = status /\ box' = box /\ main' = Go("stop_core")
    BY <1>2 DEF Teardown
  <2>2. main'.at = "stop_core"
    BY <1>0, <2>1, GoFacts DEF Stopping
  <2>3. CoreDown'
    BY <2>2 DEF IInv, MixerInv, StopsInTurn, CoreDown
  <2>. QED BY <2>1, <2>2, <2>3, MainPasses DEF BeforeWeb
<1>. QED BY <1>1, <1>2

LEMMA MainKeepsTrue ==
    ASSUME IInv, IInv', TrueInv, MainActs
    PROVE  TrueInv'
<1>1. mixerVars' = mixerVars /\ core' = core /\ web' = web /\ reply' = reply
  BY DEF MainActs, coreVars, httpVars
<1>2. CASE MainStarts
  BY <1>1, <1>2, StartKeepsTrue
<1>3. ASSUME NEW actors \in SUBSET Actors, NEW next \in Stopping \union {"ended"},
             StopActors(actors, next), main.at \in Stopping, next # "stop_frontends",
             next \in {"teardown", "stop_core"} => main.at \in {"stop_frontends", "teardown"},
             next \notin {"teardown", "stop_core"} =>
                \/ main.at \in {"stop_backends", "stop_audio", "stop_mixer", "stop_remaining"}
                \/ "core" \in actors
      PROVE  TrueInv'
  BY <1>1, <1>3, StopKeepsTrue
<1>4. CASE MainStops
  <2>0. /\ {"mixer", "audio", "core", "http"} \subseteq Actors /\ Backends \subseteq Actors
        /\ Stopping = {"stop_frontends", "teardown", "stop_core", "stop_backends", "stop_audio",
                       "stop_mixer", "stop_remaining"}
    BY DEF Actors, Stopping
  <2>1. CASE StopFrontends
    <3>1. main.at = "stop_frontends" /\ StopActors({"http"}, "teardown")
      BY <2>1 DEF StopFrontends
    <3>. QED BY <1>3, <2>0, <3>1
  <2>2. CASE Teardown
    BY <1>1, <2>2, TeardownKeepsTrue
  <2>3. CASE StopCore
    <3>1. main.at = "stop_core" /\ StopActors({"core"}, "stop_backends")
      BY <2>3 DEF StopCore
    <3>. QED BY <1>3, <2>0, <3>1
  <2>4. CASE StopBackends
    <3>1. main.at = "stop_backends" /\ StopActors(Backends, "stop_audio")
      BY <2>4 DEF StopBackends
    <3>. QED BY <1>3, <2>0, <3>1
  <2>5. CASE StopAudio
    <3>1. /\ main.at = "stop_audio"
          /\ StopActors(IF main.audio THEN {"audio"} ELSE {}, "stop_mixer")
      BY <2>5 DEF StopAudio
    <3>2. (IF main.audio THEN {"audio"} ELSE {}) \in SUBSET Actors
      BY <2>0
    <3>. QED BY <1>3, <2>0, <3>1, <3>2
  <2>6. CASE StopMixer
    <3>1. main.at = "stop_mixer" /\ StopActors({"mixer"}, "stop_remaining")
      BY <2>6 DEF StopMixer
    <3>. QED BY <1>3, <2>0, <3>1
  <2>7. CASE StopRemaining
    <3>1. main.at = "stop_remaining" /\ StopActors(Actors, "ended")
      BY <2>7 DEF StopRemaining
    <3>2. Actors \in SUBSET Actors
      OBVIOUS
    <3>. QED BY <1>3, <2>0, <3>1, <3>2
  <2>. QED BY <1>4, <2>1, <2>2, <2>3, <2>4, <2>5, <2>6, <2>7 DEF MainStops
<1>. QED BY <1>2, <1>4 DEF MainActs

LEMMA SignalsKeepTrue ==
    ASSUME IInv, IInv', TrueInv, Signals, UNCHANGED <<mixerVars, coreVars, httpVars, appVars>>
    PROVE  TrueInv'
<1>1. /\ mixerVars' = mixerVars /\ core' = core /\ web' = web /\ scripts' = scripts
      /\ reply' = reply
  BY DEF coreVars, httpVars
<1>2. CASE Interrupt
  <2>1. main' = Interrupted /\ box' = Forgotten /\ answers' = NoLongerWaiting /\ status' = status
    BY <1>2 DEF Interrupt
  <2>. QED BY <1>1, <2>1, InterruptedKeepsTrue
<1>3. CASE Terminate
  <2>1. main' = Go("stop_frontends") /\ actorVars' = actorVars /\ main \in MainType
    BY <1>3, MainFacts DEF Terminate
  <2>2. main'.at = "stop_frontends"
    BY <2>1, GoFacts DEF Stopping
  <2>3. CoreDown'
    BY <2>2 DEF IInv, MixerInv, StopsInTurn, CoreDown
  <2>. QED BY <1>1, <2>1, <2>2, <2>3, MainPasses DEF actorVars, BeforeWeb
<1>. QED BY <1>2, <1>3 DEF Signals

LEMMA AudioFailingKeepsTrue ==
    ASSUME IInv, TrueInv, AudioFails, UNCHANGED <<coreVars, httpVars, appVars>>
    PROVE  TrueInv'
<1>1. /\ status["audio"] = "starting" /\ status' = [status EXCEPT !["audio"] = "running"]
      /\ main' = Interrupted /\ mixerVars' = mixerVars
      /\ \/ main' = main /\ box' = box /\ answers' = answers
         \/ box' = Forgotten /\ answers' = NoLongerWaiting
  BY DEF AudioFails
<1>2. core' = core /\ web' = web /\ scripts' = scripts /\ reply' = reply
  BY DEF coreVars, httpVars
<1>. QED BY <1>1, <1>2, InterruptedKeepsTrue
-----------------------------------------------------------------------------
(* Every step. *)

LEMMA NextKeepsTrueInv ==
    ASSUME IInv, TrueInv, [Next]_vars
    PROVE  TrueInv'
<1>1. IInv'
  BY NextKeepsIInv
<1>2. CASE Signals /\ UNCHANGED <<mixerVars, coreVars, httpVars, appVars>>
  BY <1>1, <1>2, SignalsKeepTrue
<1>3. CASE AudioThread
  BY <1>3, AudioKeepsTrue, AudioFailingKeepsTrue DEF AudioThread
<1>4. CASE UNCHANGED vars
  <2>1. UNCHANGED <<main, signals, core, actorVars, mixerVars, web, scripts, reply>>
    BY <1>4 DEF vars, serverVars, coreVars, httpVars
  <2>2. CoreDown' /\ SetUpFirst'
    BY <2>1 DEF TrueInv, CoreDown, SetUpFirst, BeforeWeb, IsUp, Undisturbed, actorVars, Lacks
  <2>3. \A a \in {"mixer", "audio", "core"} : Kept(box[a], box'[a])
    BY <2>1 DEF Kept, actorVars
  <2>. QED BY <1>1, <2>1, <2>2, <2>3, MainLeaves DEF actorVars
<1>. QED
  BY <1>1, <1>2, <1>3, <1>4, ConfigureKeepsTrue, MainKeepsTrue, MixerKeepsTrue, CoreKeepsTrue,
     BackendKeepsTrue, HttpKeepsTrue, WebKeepsTrue, ClientsKeepTrue
  DEF Next, Over

LEMMA InitGivesTrueInv ==
    ASSUME Init
    PROVE  TrueInv
<1>0. {"mixer", "audio", "core", "http"} \subseteq Actors /\ {"mixer", "core", "web"} \subseteq Askers
  BY DEF Actors, Askers
<1>1. /\ main.at = "config" /\ \A a \in Actors : status[a] = "none" /\ box[a] = << >>
      /\ \A x \in Askers : answers[x] = NoAnswer
      /\ web.state = "none" /\ web.job = NoJob /\ reply = NoReply /\ core.got = << >>
      /\ element = Unset /\ mixer.initial = Unset
  BY DEF Init, ActorsInit, ServerInit, MixerInit, CoreInit, HttpInit
<1>2. /\ \A a \in Actors : Range(box[a]) = {} /\ DOMAIN box[a] = {} /\ \A type : Lacks(box[a], type)
      /\ \A x \in Askers : IsFree(x) /\ answers[x].state # "value"
  BY <1>1, EmptyFacts, EmptyLacks DEF IsFree, NoAnswer
<1>3. JobInv /\ AsksToAnswer /\ ReplyIsFull
  BY <1>0, <1>1, <1>2 DEF JobInv, AsksToAnswer, ReplyIsFull
<1>4. CoreDown /\ SetUpFirst
  BY <1>0, <1>1, <1>2 DEF CoreDown, SetUpFirst, BeforeWeb, IsUp
<1>5. LevelsWanted
  BY <1>0, <1>1, <1>2 DEF LevelsWanted, Unset
<1>6. WellAsked /\ MixerTold /\ CoreTold /\ WebTold
  BY <1>0, <1>1, <1>2 DEF WellAsked, MixerTold, CoreTold, WebTold, AsksAfterSets
<1>. QED BY <1>3, <1>4, <1>5, <1>6 DEF TrueInv, ReplyInv, LevelInv

\* Every message is answered in full, in its order and with its ids, or, if
\* pydantic raises, not at all; and the volume or mute that is answered is the
\* one last asked for, by whomever, also when nobody waited for that
\* (Wrapper.handle_json, CoreController, MixerController, SoftwareMixer).
THEOREM AppAnswersTruly == Spec => []AnswersAreTrue
<1>1. Init => TrueInv
  BY InitGivesTrueInv
<1>2. IInv /\ TrueInv /\ [Next]_vars => TrueInv'
  BY NextKeepsTrueInv
<1>3. TrueInv => AnswersAreTrue
  <2>. SUFFICES ASSUME TrueInv PROVE AnswersAreTrue
    OBVIOUS
  <2>1. ReplyIsFull /\ WebTold
    BY DEF TrueInv, ReplyInv
  <2>2. ASSUME answers["web"].state = "value", Current.call.method = "get"
        PROVE  answers["web"].value \in {None, wanted[Current.call.property]}
    BY <2>1, <2>2 DEF WebTold, IsFree, Holds
  <2>. QED BY <2>1, <2>2 DEF AnswersAreTrue, ReplyIsFull
<1>. QED BY <1>1, <1>2, <1>3, AlwaysIInv, PTL DEF Spec
=============================================================================
