------------------------ MODULE GstAudioPipelineProofs ------------------------
(***************************************************************************)
(* The actor and GStreamer implement Pipeline, what core takes audio for.  *)
(* The events of the bus are those the messages in the mailbox will bring; *)
(* what a state_changed brings depends on the state asked for when its turn*)
(* comes, so on the calls in front of it.                                  *)
(***************************************************************************)
EXTENDS GstAudioProofs, SeqLemmas

Kinds == CoreEvents \union {"tags_changed", "about_to_finish", "none"}

-----------------------------------------------------------------------------
(* The bus. *)

AskedIn(messages, i) == UNION {TargetOf(messages[j]) : j \in 1 .. i}

Either(asked, target) == IF asked = {} THEN target ELSE CHOOSE state \in asked : TRUE

\* TargetAfter, of any messages.
After(messages, target, i) == Either(AskedIn(messages, i), target)

\* EventOf, of a message that is handled when this is the state asked for.
KindOf(m, target) ==
    CASE m.type = "stream_start"  -> "stream_changed"
      [] m.type = "end_of_stream" -> "reached_end_of_stream"
      [] m.type = "state_changed" ->
            IF IsTold(m, target) /\ StateOf(m) = "NULL" THEN "stream_changed" ELSE "none"
      [] OTHER -> "none"

KindsOf(messages, target) ==
    [i \in 1 .. Len(messages) |-> KindOf(messages[i], After(messages, target, i))]

BusOf(messages, target) == EventsOf(KindsOf(messages, target))

LEMMA KindType ==
    ASSUME NEW m, NEW target
    PROVE  KindOf(m, target) \in Kinds
BY DEF KindOf, Kinds, CoreEvents

LEMMA KindsType ==
    ASSUME NEW messages \in Seq(Msgs), NEW target
    PROVE  /\ KindsOf(messages, target) \in Seq(Kinds)
           /\ Len(KindsOf(messages, target)) = Len(messages)
           /\ BusOf(messages, target) \in Seq(Kinds)
           /\ BusOf(<< >>, target) = << >>
<1>1. Len(messages) \in Nat
  OBVIOUS
<1>2. KindsOf(messages, target) \in Seq(Kinds) /\ Len(KindsOf(messages, target)) = Len(messages)
  <2>1. \A i \in 1 .. Len(messages) : KindOf(messages[i], After(messages, target, i)) \in Kinds
    BY KindType
  <2>. QED BY <1>1, <2>1 DEF KindsOf
<1>3. KindsOf(<< >>, target) = << >>
  BY DEF KindsOf
<1>. QED BY <1>2, <1>3, ChosenType DEF BusOf, EventsOf

LEMMA SeenBusIs ==
    /\ TypeOK => SeenBus = BusOf(mailbox, audio.target)
    /\ TypeOK' => SeenBus' = BusOf(mailbox', audio'.target)
<1>1. ASSUME TypeOK PROVE SeenBus = BusOf(mailbox, audio.target)
  <2>1. DOMAIN mailbox = 1 .. Len(mailbox)
    BY <1>1 DEF TypeOK
  <2>. QED BY <2>1 DEF SeenBus, BusOf, KindsOf, KindOf, EventOf, TargetAfter, After, AskedIn, Either
<1>2. ASSUME TypeOK' PROVE SeenBus' = BusOf(mailbox', audio'.target)
  <2>1. DOMAIN mailbox' = 1 .. Len(mailbox')
    BY <1>2 DEF TypeOK
  <2>. QED BY <2>1 DEF SeenBus, BusOf, KindsOf, KindOf, EventOf, TargetAfter, After, AskedIn, Either
<1>. QED BY <1>1, <1>2

\* Only calls ask for a state.
LEMMA TargetOfCall ==
    ASSUME NEW m
    PROVE  /\ TargetOf(m) = {} \/ \E state : TargetOf(m) = {state}
           /\ TargetOf(m) # {} => m.type \in CallTypes
           /\ m.type \in CallTypes => \A target : KindOf(m, target) = "none"
BY DEF TargetOf, CallTypes, KindOf

LEMMA AfterNone ==
    ASSUME NEW messages, NEW target, NEW i, \A j \in 1 .. i : TargetOf(messages[j]) = {}
    PROVE  After(messages, target, i) = target
BY DEF After, AskedIn, Either

LEMMA AfterOne ==
    ASSUME NEW messages \in Seq(Msgs), OneCall(messages), NEW target,
           NEW i \in 0 .. Len(messages), NEW j \in 1 .. i, NEW state,
           TargetOf(messages[j]) = {state}
    PROVE  After(messages, target, i) = state
<1>1. \A k \in 1 .. i : TargetOf(messages[k]) = {} \/ k = j
  <2>1. \A k \in 1 .. i : TargetOf(messages[k]) # {} => messages[k].type \in CallTypes
    BY TargetOfCall
  <2>2. 1 .. i \subseteq 1 .. Len(messages)
    OBVIOUS
  <2>. QED BY <2>1, <2>2 DEF OneCall
<1>2. AskedIn(messages, i) = {state}
  BY <1>1 DEF AskedIn
<1>. QED BY <1>2 DEF After, Either

\* The i first messages ask for that state.
Asks(messages, i, state) ==
    /\ messages \in Seq(Msgs) /\ OneCall(messages) /\ i \in 0 .. Len(messages)
    /\ \E j \in 1 .. i : TargetOf(messages[j]) = {state}

LEMMA AfterAsked ==
    ASSUME NEW messages, NEW target, NEW i, NEW state, Asks(messages, i, state)
    PROVE  After(messages, target, i) = state
<1>1. PICK j \in 1 .. i : TargetOf(messages[j]) = {state}
  BY DEF Asks
<1>. QED BY <1>1, AfterOne DEF Asks

LEMMA BusOfTail ==
    ASSUME NEW messages \in Seq(Msgs), messages # << >>, OneCall(messages), NEW target, NEW new,
           \/ TargetOf(Head(messages)) = {} /\ new = target
           \/ TargetOf(Head(messages)) = {new}
    PROVE  LET kind == KindOf(Head(messages), new)
               rest == BusOf(Tail(messages), new)
           IN  /\ kind \notin CoreEvents => BusOf(messages, target) = rest
               /\ kind \in CoreEvents =>
                     /\ BusOf(messages, target) # << >>
                     /\ Head(BusOf(messages, target)) = kind
                     /\ Tail(BusOf(messages, target)) = rest
<1>. DEFINE tail == Tail(messages)
            kinds == KindsOf(messages, target)
<1>1. /\ Len(messages) \in Nat \ {0} /\ Len(tail) = Len(messages) - 1 /\ Len(tail) \in Nat
      /\ Head(messages) = messages[1] /\ tail \in Seq(Msgs)
      /\ \A i \in 1 .. Len(tail) : tail[i] = messages[i + 1]
  BY HeadTailProperties, EmptySeq
<1>. HIDE DEF tail
<1>2. OneCall(tail) /\ (messages[1].type \in CallTypes => NoCall(tail))
  BY <1>1, CallsOfTail DEF tail
<1>3. After(messages, target, 1) = new
  <2>1. 1 \in 0 .. Len(messages) /\ 1 \in 1 .. 1 /\ \A j \in 1 .. 1 : j = 1
    BY <1>1
  <2>2. CASE TargetOf(messages[1]) = {new}
    BY <2>1, <2>2, AfterOne
  <2>3. CASE TargetOf(messages[1]) = {} /\ new = target
    BY <2>1, <2>3, AfterNone
  <2>. QED BY <1>1, <2>2, <2>3
<1>4. ASSUME NEW i \in 1 .. Len(tail)
      PROVE  After(messages, target, i + 1) = After(tail, new, i)
  <2>. DEFINE k == i + 1
  <2>1. k \in 0 .. Len(messages) /\ 1 \in 1 .. k
    BY <1>1
  <2>2. i \in 0 .. Len(tail) /\ \A j \in 1 .. i : j \in 1 .. Len(tail)
    BY <1>1
  <2>3. \A j \in 1 .. i : \E l \in 1 .. k : messages[l] = tail[j]
    <3>1. \A j \in 1 .. i : j + 1 \in 1 .. k /\ tail[j] = messages[j + 1]
      BY <1>1
    <3>. QED BY <3>1
  <2>4. \A l \in 1 .. k : l = 1 \/ \E j \in 1 .. i : messages[l] = tail[j]
    <3>1. \A l \in 1 .. k : l = 1 \/ (l - 1 \in 1 .. i /\ messages[l] = tail[l - 1])
      BY <1>1
    <3>. QED BY <3>1
  <2>. HIDE DEF k
  <2>5. CASE TargetOf(messages[1]) = {new}
    <3>1. messages[1].type \in CallTypes
      BY <2>5, TargetOfCall
    <3>2. \A j \in 1 .. i : TargetOf(tail[j]) = {}
      BY <1>2, <2>2, <3>1, TargetOfCall DEF NoCall
    <3>3. After(messages, target, k) = new
      BY <2>1, <2>5, AfterOne
    <3>4. After(tail, new, i) = new
      BY <3>2, AfterNone
    <3>. QED BY <3>3, <3>4 DEF k
  <2>6. CASE TargetOf(messages[1]) = {} /\ new = target
    <3>1. CASE \A j \in 1 .. i : TargetOf(tail[j]) = {}
      <4>1. \A l \in 1 .. k : TargetOf(messages[l]) = {}
        BY <2>4, <2>6, <3>1
      <4>2. After(messages, target, k) = target
        BY <4>1, AfterNone
      <4>3. After(tail, new, i) = new
        BY <3>1, AfterNone
      <4>. QED BY <2>6, <4>2, <4>3 DEF k
    <3>2. ASSUME NEW j \in 1 .. i, TargetOf(tail[j]) # {}
          PROVE  After(messages, target, i + 1) = After(tail, new, i)
      <4>1. PICK state : TargetOf(tail[j]) = {state}
        BY <3>2, TargetOfCall
      <4>2. Asks(tail, i, state)
        BY <1>1, <1>2, <2>2, <4>1 DEF Asks
      <4>3. PICK l \in 1 .. k : messages[l] = tail[j]
        BY <2>3
      <4>4. Asks(messages, k, state)
        BY <2>1, <4>1, <4>3 DEF Asks
      <4>5. After(tail, new, i) = state
        BY <4>2, AfterAsked, Zenon
      <4>6. After(messages, target, k) = state
        BY <4>4, AfterAsked, Zenon
      <4>. QED BY <4>5, <4>6 DEF k
    <3>. QED BY <3>1, <3>2
  <2>. QED BY <1>1, <2>5, <2>6
<1>5. kinds \in Seq(Kinds) /\ kinds # << >> /\ Head(kinds) = KindOf(messages[1], new)
  <2>1. kinds \in Seq(Kinds) /\ Len(kinds) = Len(messages)
    BY KindsType
  <2>2. kinds[1] = KindOf(messages[1], new)
    BY <1>1, <1>3 DEF KindsOf
  <2>. QED BY <1>1, <2>1, <2>2, EmptySeq
<1>6. Tail(kinds) = KindsOf(tail, new)
  <2>1. KindsOf(tail, new) \in Seq(Kinds) /\ Len(KindsOf(tail, new)) = Len(tail)
    BY <1>1, KindsType
  <2>2. /\ Tail(kinds) \in Seq(Kinds) /\ Len(Tail(kinds)) = Len(tail)
        /\ \A i \in 1 .. Len(tail) : Tail(kinds)[i] = kinds[i + 1]
    <3>1. kinds \in Seq(Kinds) /\ Len(kinds) = Len(messages)
      BY KindsType
    <3>. HIDE DEF kinds
    <3>. QED BY <1>1, <1>5, <3>1, HeadTailProperties
  <2>3. ASSUME NEW i \in 1 .. Len(tail)
        PROVE  kinds[i + 1] = KindsOf(tail, new)[i]
    <3>1. i + 1 \in 1 .. Len(messages) /\ tail[i] = messages[i + 1]
      BY <1>1
    <3>. QED BY <1>4, <3>1 DEF KindsOf
  <2>. HIDE DEF kinds
  <2>. QED BY <2>1, <2>2, <2>3, SeqEqual
<1>7. BusOf(messages, target) = Chosen(kinds, CoreEvents)
  BY DEF BusOf, EventsOf
<1>8. BusOf(tail, new) = Chosen(Tail(kinds), CoreEvents)
  BY <1>6 DEF BusOf, EventsOf
<1>. HIDE DEF kinds
<1>9. /\ Head(kinds) \notin CoreEvents => Chosen(kinds, CoreEvents) = Chosen(Tail(kinds), CoreEvents)
      /\ Head(kinds) \in CoreEvents =>
            /\ Chosen(kinds, CoreEvents) # << >>
            /\ Head(Chosen(kinds, CoreEvents)) = Head(kinds)
            /\ Tail(Chosen(kinds, CoreEvents)) = Chosen(Tail(kinds), CoreEvents)
  BY <1>5, ChosenOfTail
<1>. QED BY <1>1, <1>5, <1>7, <1>8, <1>9, Zenon DEF tail

LEMMA BusOfStaled ==
    ASSUME NEW messages \in Seq(Msgs), NEW target
    PROVE  BusOf(Staled(messages), target) = BusOf(messages, target)
<1>1. /\ Len(Staled(messages)) = Len(messages) /\ Len(messages) \in Nat
      /\ \A i \in 1 .. Len(messages) :
            /\ Staled(messages)[i].type = messages[i].type
            /\ messages[i].type # "buffering" => Staled(messages)[i] = messages[i]
  BY StaledType DEF Staled
<1>2. \A i \in 1 .. Len(messages) : TargetOf(Staled(messages)[i]) = TargetOf(messages[i])
  BY <1>1 DEF TargetOf
<1>3. \A i \in 1 .. Len(messages) : After(Staled(messages), target, i) = After(messages, target, i)
  <2>1. ASSUME NEW i \in 1 .. Len(messages)
        PROVE  AskedIn(Staled(messages), i) = AskedIn(messages, i)
    <3>1. 1 .. i \subseteq 1 .. Len(messages)
      BY <1>1
    <3>. QED BY <1>2, <3>1 DEF AskedIn
  <2>. QED BY <2>1 DEF After
<1>4. ASSUME NEW i \in 1 .. Len(messages), NEW state
      PROVE  KindOf(Staled(messages)[i], state) = KindOf(messages[i], state)
  <2>1. CASE messages[i].type = "buffering"
    BY <1>1, <2>1 DEF KindOf
  <2>2. CASE messages[i].type # "buffering"
    BY <1>1, <2>2
  <2>. QED BY <2>1, <2>2
<1>5. KindsOf(Staled(messages), target) = KindsOf(messages, target)
  BY <1>1, <1>3, <1>4 DEF KindsOf
<1>. QED BY <1>5 DEF BusOf

\* What is posted is told of when the calls in front of it are handled.
LEMMA BusOfConcat ==
    ASSUME NEW messages \in Seq(Msgs), NEW more \in Seq(Msgs), NEW target,
           OneCall(messages), NoCall(more)
    PROVE  LET last == After(messages, target, Len(messages))
           IN  BusOf(messages \o more, target) = BusOf(messages, target) \o BusOf(more, last)
<1>. DEFINE both == messages \o more
            n == Len(messages)
            last == After(messages, target, n)
            front == KindsOf(messages, target)
            back == KindsOf(more, last)
<1>1. /\ Len(both) = n + Len(more) /\ n \in Nat /\ Len(more) \in Nat /\ both \in Seq(Msgs)
      /\ \A i \in 1 .. n : both[i] = messages[i]
      /\ \A i \in 1 .. Len(more) : both[n + i] = more[i]
  BY ConcatProperties
<1>2. OneCall(both)
  BY CallsOfConcat
<1>. HIDE DEF both
<1>3. ASSUME NEW i \in 0 .. n
      PROVE  After(both, target, i) = After(messages, target, i)
  <2>1. \A j \in 1 .. i : both[j] = messages[j]
    BY <1>1
  <2>2. AskedIn(both, i) = AskedIn(messages, i)
    BY <2>1 DEF AskedIn
  <2>. QED BY <2>2 DEF After
<1>4. ASSUME NEW i \in 1 .. Len(more)
      PROVE  After(both, target, n + i) = last /\ After(more, last, i) = last
  <2>1. \A j \in 1 .. Len(more) : TargetOf(more[j]) = {}
    BY TargetOfCall DEF NoCall
  <2>2. \A j \in 1 .. n + i : j \in 1 .. n \/ \E l \in 1 .. Len(more) : both[j] = more[l]
    <3>. TAKE j \in 1 .. n + i
    <3>1. CASE j <= n
      BY <1>1, <3>1
    <3>2. CASE j > n
      <4>1. j - n \in 1 .. Len(more) /\ n + (j - n) = j
        BY <1>1, <3>2
      <4>. QED BY <1>1, <4>1
    <3>. QED BY <1>1, <3>1, <3>2
  <2>3. \A j \in 1 .. n + i : j \in 1 .. n \/ TargetOf(both[j]) = {}
    BY <2>1, <2>2
  <2>4. \A j \in 1 .. n : j \in 1 .. n + i /\ both[j] = messages[j]
    BY <1>1
  <2>5. AskedIn(both, n + i) = AskedIn(messages, n)
    BY <2>3, <2>4 DEF AskedIn
  <2>6. \A j \in 1 .. i : TargetOf(more[j]) = {}
    <3>1. \A j \in 1 .. i : j \in 1 .. Len(more)
      BY <1>1
    <3>. QED BY <2>1, <3>1
  <2>7. After(more, last, i) = last
    BY <2>6, AfterNone
  <2>8. After(both, target, n + i) = last
    BY <2>5 DEF After
  <2>. QED BY <2>7, <2>8
<1>5. KindsOf(both, target) = front \o back
  <2>1. front \in Seq(Kinds) /\ Len(front) = n /\ back \in Seq(Kinds) /\ Len(back) = Len(more)
    BY KindsType
  <2>2. KindsOf(both, target) \in Seq(Kinds) /\ Len(KindsOf(both, target)) = Len(both)
    BY <1>1, KindsType
  <2>3. ASSUME NEW i \in 1 .. n
        PROVE  KindsOf(both, target)[i] = front[i]
    BY <1>1, <1>3 DEF KindsOf
  <2>4. ASSUME NEW i \in 1 .. Len(more)
        PROVE  KindsOf(both, target)[n + i] = back[i]
    <3>1. n + i \in 1 .. Len(both)
      BY <1>1
    <3>. QED BY <1>1, <1>4, <3>1 DEF KindsOf
  <2>. HIDE DEF front, back
  <2>5. /\ front \o back \in Seq(Kinds) /\ Len(front \o back) = Len(front) + Len(back)
        /\ \A i \in 1 .. Len(front) + Len(back) :
              (front \o back)[i] = IF i <= Len(front) THEN front[i] ELSE back[i - Len(front)]
    BY <2>1, ConcatProperties
  <2>6. ASSUME NEW i \in 1 .. Len(both)
        PROVE  KindsOf(both, target)[i] = (front \o back)[i]
    <3>1. i \in 1 .. Len(front) + Len(back)
      BY <1>1, <2>1
    <3>2. CASE i <= n
      <4>1. i \in 1 .. n
        BY <3>2
      <4>. QED BY <2>1, <2>3, <2>5, <3>1, <3>2, <4>1
    <3>3. CASE i > n
      <4>. DEFINE l == i - n
      <4>1. l \in 1 .. Len(more) /\ i = n + l
        BY <1>1, <3>3
      <4>2. KindsOf(both, target)[i] = back[l]
        BY <2>4, <4>1
      <4>3. (front \o back)[i] = back[l]
        BY <1>1, <2>1, <2>5, <3>1, <3>3
      <4>. QED BY <4>2, <4>3
    <3>4. i <= n \/ i > n
      BY <1>1
    <3>. QED BY <3>2, <3>3, <3>4
  <2>7. Len(front \o back) = Len(both)
    BY <1>1, <2>1, <2>5
  <2>. QED BY <2>2, <2>5, <2>6, <2>7, SeqEqual
<1>6. front \in Seq(Kinds) /\ back \in Seq(Kinds)
  BY KindsType
<1>. HIDE DEF front, back
<1>7. Chosen(front \o back, CoreEvents) = Chosen(front, CoreEvents) \o Chosen(back, CoreEvents)
  BY <1>6, ChosenOfConcat
<1>. QED BY <1>5, <1>7, Zenon DEF BusOf, EventsOf, front, back, both

\* A call that is added tells nothing.
LEMMA BusOfCall ==
    ASSUME NEW messages \in Seq(Msgs), NEW call \in CallType, NEW target
    PROVE  BusOf(Append(messages, call), target) = BusOf(messages, target)
<1>. DEFINE more == Append(messages, call)
            n == Len(messages)
            front == KindsOf(messages, target)
<1>1. /\ Len(more) = n + 1 /\ n \in Nat /\ more \in Seq(Msgs)
      /\ \A i \in 1 .. n : more[i] = messages[i]
      /\ more[n + 1] = call
  <2>1. call \in Msgs
    BY DEF Msgs
  <2>. QED BY <2>1, AppendProperties
<1>. HIDE DEF more
<1>2. \A target2 : KindOf(call, target2) = "none"
  BY DEF KindOf, CallType
<1>3. ASSUME NEW i \in 1 .. n
      PROVE  After(more, target, i) = After(messages, target, i)
  <2>1. \A j \in 1 .. i : more[j] = messages[j]
    BY <1>1
  <2>2. AskedIn(more, i) = AskedIn(messages, i)
    BY <2>1 DEF AskedIn
  <2>. QED BY <2>2 DEF After
<1>4. KindsOf(more, target) = Append(front, "none")
  <2>1. /\ front \in Seq(Kinds) /\ Len(front) = n /\ "none" \in Kinds
        /\ KindsOf(more, target) \in Seq(Kinds) /\ Len(KindsOf(more, target)) = n + 1
    BY <1>1, KindsType DEF Kinds
  <2>2. \A i \in 1 .. n : KindsOf(more, target)[i] = front[i]
    BY <1>1, <1>3 DEF KindsOf
  <2>3. KindsOf(more, target)[n + 1] = "none"
    BY <1>1, <1>2 DEF KindsOf
  <2>. HIDE DEF front
  <2>4. /\ Append(front, "none") \in Seq(Kinds) /\ Len(Append(front, "none")) = n + 1
        /\ \A i \in 1 .. n : Append(front, "none")[i] = front[i]
        /\ Append(front, "none")[n + 1] = "none"
    BY <2>1, AppendProperties
  <2>5. \A i \in 1 .. n + 1 : KindsOf(more, target)[i] = Append(front, "none")[i]
    <3>1. \A i \in 1 .. n + 1 : i \in 1 .. n \/ i = n + 1
      BY <1>1
    <3>. QED BY <2>2, <2>3, <2>4, <3>1
  <2>. QED BY <2>1, <2>4, <2>5, SeqEqual
<1>5. "none" \notin CoreEvents /\ front \in Seq(Kinds) /\ "none" \in Kinds
  BY KindsType DEF CoreEvents, Kinds
<1>. HIDE DEF front
<1>6. Chosen(Append(front, "none"), CoreEvents) = Chosen(front, CoreEvents)
  BY <1>5, ChosenOfAppend
<1>. QED BY <1>4, <1>6, Zenon DEF BusOf, EventsOf, front, more

LEMMA BusOfOne ==
    ASSUME NEW m, m.type \notin CallTypes, NEW target
    PROVE  BusOf(<<m>>, target) = IF KindOf(m, target) \in CoreEvents
                                  THEN <<KindOf(m, target)>> ELSE << >>
<1>1. TargetOf(m) = {}
  BY TargetOfCall
<1>2. After(<<m>>, target, 1) = target
  <2>1. \A j \in 1 .. 1 : TargetOf(<<m>>[j]) = {}
    BY <1>1
  <2>. QED BY <2>1, AfterNone
<1>3. KindsOf(<<m>>, target) = <<KindOf(m, target)>>
  BY <1>2 DEF KindsOf
<1>. QED BY <1>3, ChosenOfOne DEF BusOf, EventsOf

LEMMA BusOfTwo ==
    ASSUME NEW m, NEW o, m.type \notin CallTypes, o.type \notin CallTypes, NEW target
    PROVE  BusOf(<<m, o>>, target) = BusOf(<<m>>, target) \o BusOf(<<o>>, target)
<1>1. TargetOf(m) = {} /\ TargetOf(o) = {}
  BY TargetOfCall
<1>2. /\ After(<<m>>, target, 1) = target /\ After(<<o>>, target, 1) = target
      /\ After(<<m, o>>, target, 1) = target /\ After(<<m, o>>, target, 2) = target
  <2>1. /\ \A j \in 1 .. 1 : TargetOf(<<m>>[j]) = {} /\ TargetOf(<<o>>[j]) = {}
        /\ \A j \in 1 .. 1 : TargetOf(<<m, o>>[j]) = {}
        /\ \A j \in 1 .. 2 : TargetOf(<<m, o>>[j]) = {}
    BY <1>1
  <2>. QED BY <2>1, AfterNone
<1>3. /\ KindsOf(<<m>>, target) = <<KindOf(m, target)>>
      /\ KindsOf(<<o>>, target) = <<KindOf(o, target)>>
      /\ KindsOf(<<m, o>>, target) = <<KindOf(m, target), KindOf(o, target)>>
  BY <1>2 DEF KindsOf
<1>. QED BY <1>3, ChosenOfTwo DEF BusOf, EventsOf

LEMMA BusOfStateChanged ==
    ASSUME NEW new, NEW pending, NEW target
    PROVE  LET m == StateChanged(new, pending)
           IN  BusOf(<<m>>, target) = IF \/ new = "READY" /\ pending = "NULL" /\ target # "READY"
                                         \/ new = "NULL" /\ target # "READY"
                                      THEN <<"stream_changed">> ELSE << >>
<1>. DEFINE m == StateChanged(new, pending)
<1>1. m.type = "state_changed" /\ m.new = new /\ m.pending = pending
  BY DEF StateChanged
<1>. HIDE DEF m
<1>2. m.type \notin CallTypes
  BY <1>1 DEF CallTypes
<1>3. StateOf(m) = "NULL" <=> (new = "READY" /\ pending = "NULL") \/ new = "NULL"
  BY <1>1 DEF StateOf
<1>4. KindOf(m, target) = IF StateOf(m) = "NULL" /\ target # "READY" THEN "stream_changed" ELSE "none"
  BY <1>1 DEF KindOf, IsTold, IsState
<1>5. "stream_changed" \in CoreEvents /\ "none" \notin CoreEvents
  BY DEF CoreEvents
<1>6. BusOf(<<m>>, target) = IF KindOf(m, target) \in CoreEvents THEN <<KindOf(m, target)>> ELSE << >>
  BY <1>2, BusOfOne
<1>. QED BY <1>3, <1>4, <1>5, <1>6 DEF m

\* What set_state leaves on the bus.
LEMMA BusOfSetDown ==
    ASSUME TypeOK, NEW state \in {"NULL", "READY"}, NEW rest \in Seq(Msgs), NEW target,
           OneCall(rest), SetDown(state, rest)
    PROVE  BusOf(mailbox', target) =
              BusOf(rest, target)
                \o IF state = "NULL" /\ IsRolling /\ After(rest, target, Len(rest)) # "READY"
                   THEN <<"stream_changed">> ELSE << >>
<1>. DEFINE posted == PostedOnTheWayTo(state)
            staled == Staled(rest)
            last == After(staled, target, Len(staled))
            tells == state = "NULL" /\ IsRolling /\ last # "READY"
<1>1. posted \in Seq(Msgs) /\ NoCall(posted)
  BY PostedType, MessagesAreNoCalls
<1>2. staled \in Seq(Msgs) /\ OneCall(staled) /\ BusOf(staled, target) = BusOf(rest, target)
  BY StaledType, CallsOfStaled, BusOfStaled
<1>3. last = After(rest, target, Len(rest))
  <2>1. /\ Len(staled) = Len(rest) /\ Len(rest) \in Nat
        /\ \A i \in 1 .. Len(rest) : staled[i].type = rest[i].type
    BY StaledType
  <2>2. \A i \in 1 .. Len(rest) : TargetOf(staled[i]) = TargetOf(rest[i])
    BY <2>1 DEF TargetOf
  <2>. HIDE DEF staled
  <2>3. AskedIn(staled, Len(rest)) = AskedIn(rest, Len(rest))
    BY <2>2 DEF AskedIn
  <2>. QED BY <2>1, <2>3 DEF After
<1>. HIDE DEF staled, last
<1>4. BusOf(posted, last) = IF tells THEN <<"stream_changed">> ELSE << >>
  <2>. DEFINE way == StateChanged("PAUSED", state)
              end == StateChanged("READY", IF state = "NULL" THEN "NULL" ELSE None)
  <2>1. way.type \notin CallTypes /\ end.type \notin CallTypes
    BY DEF StateChanged, CallTypes
  <2>2. BusOf(<<way>>, last) = << >>
    BY BusOfStateChanged
  <2>3. BusOf(<<end>>, last) = IF state = "NULL" /\ last # "READY" THEN <<"stream_changed">> ELSE << >>
    <3>1. CASE state = "NULL"
      BY <3>1, BusOfStateChanged
    <3>2. CASE state = "READY"
      <4>1. BusOf(<<StateChanged("READY", None)>>, last) = << >>
        BY VoidPendingAssumption, BusOfStateChanged DEF GstStates
      <4>. QED BY <3>2, <4>1
    <3>. QED BY <3>1, <3>2
  <2>4. posted \in {<< >>, <<end>>, <<way, end>>} /\ (posted # << >> <=> IsRolling)
    <3>. HIDE DEF way, end
    <3>1. posted = (IF playbin.state = "PLAYING" THEN <<way>> ELSE << >>)
                     \o (IF IsRolling THEN <<end>> ELSE << >>)
      BY DEF PostedOnTheWayTo, way, end
    <3>2. << >> \o << >> = << >> /\ << >> \o <<end>> = <<end>> /\ <<way>> \o <<end>> = <<way, end>>
      BY ConcatOfShort
    <3>3. playbin.state = "PLAYING" => IsRolling
      BY DEF IsRolling
    <3>4. <<end>> # << >> /\ <<way, end>> # << >>
      BY ConcatOfShort
    <3>. HIDE DEF posted
    <3>. QED BY <3>1, <3>2, <3>3, <3>4
  <2>. HIDE DEF posted, way, end
  <2>5. CASE posted = << >>
    BY <2>4, <2>5, KindsType, EmptySeq
  <2>6. CASE posted = <<end>>
    BY <2>3, <2>4, <2>6
  <2>7. CASE posted = <<way, end>>
    <3>1. BusOf(<<way, end>>, last) = BusOf(<<way>>, last) \o BusOf(<<end>>, last)
      BY <2>1, BusOfTwo
    <3>2. << >> \o << >> = << >> /\ << >> \o <<"stream_changed">> = <<"stream_changed">>
      BY ConcatOfShort
    <3>. QED BY <2>2, <2>3, <2>4, <2>7, <3>1, <3>2
  <2>. QED BY <2>4, <2>5, <2>6, <2>7
<1>5. mailbox' = staled \o posted
  BY DEF SetDown, staled
<1>. HIDE DEF posted
<1>6. BusOf(staled \o posted, target) = BusOf(staled, target) \o BusOf(posted, last)
  BY <1>1, <1>2, BusOfConcat DEF last
<1>. QED BY <1>2, <1>3, <1>4, <1>5, <1>6

LEMMA BusOfSetUp ==
    ASSUME TypeOK, NEW state \in Rolls, NEW rest \in Seq(Msgs), NEW target,
           OneCall(rest), SetUp(state, rest)
    PROVE  BusOf(mailbox', target) = BusOf(rest, target)
<1>. DEFINE m == StateChanged(state, None)
            last == After(rest, target, Len(rest))
<1>1. <<m>> \in Seq(MessageType)
  BY DEF StateChanged, MessageType, GstStates, Rolls
<1>2. <<m>> \in Seq(Msgs) /\ NoCall(<<m>>)
  BY <1>1, MessagesAreNoCalls
<1>3. BusOf(<<m>>, last) = << >>
  BY BusOfStateChanged DEF Rolls
<1>4. mailbox' = rest \/ mailbox' = Append(rest, m)
  BY DEF SetUp
<1>5. m \in Msgs
  BY <1>1 DEF Msgs
<1>. HIDE DEF m, last
<1>6. Append(rest, m) = rest \o <<m>>
  BY <1>5, AppendIsConcat
<1>7. BusOf(rest \o <<m>>, target) = BusOf(rest, target) \o << >>
  <2>. DEFINE one == <<m>>
  <2>1. one \in Seq(Msgs) /\ NoCall(one) /\ BusOf(one, last) = << >>
    BY <1>2, <1>3
  <2>. HIDE DEF one
  <2>2. BusOf(rest \o one, target) = BusOf(rest, target) \o BusOf(one, last)
    BY <2>1, BusOfConcat DEF last
  <2>. QED BY <2>1, <2>2 DEF one
<1>8. BusOf(rest, target) \o << >> = BusOf(rest, target)
  BY KindsType, ConcatEmptySeq
<1>. QED BY <1>4, <1>6, <1>7, <1>8, Zenon

-----------------------------------------------------------------------------
(* An error, and the end of the stream that may come too late to be told. *)

StopsTold(m) == m.type = "state_changed" /\ StateOf(m) = "NULL"

\* Behind an error only the stop that core asked for last is told.
TooLate(messages, target) ==
    \A i, k \in 1 .. Len(messages) :
        messages[i].type = "error" /\ i < k /\ StopsTold(messages[k]) =>
            /\ target = "NULL"
            /\ \A j \in 1 .. k : messages[j].type \notin CallTypes

PipelineInv ==
    /\ IsRolling => playbin.state = playbin.goal
    /\ TooLate(mailbox, audio.target)

LEMMA TooLateIf ==
    ASSUME NEW messages \in Seq(Msgs), NEW target,
           NoneIs(messages, "error") \/ (target = "NULL" /\ NoCall(messages))
    PROVE  TooLate(messages, target)
<1>1. CASE NoneIs(messages, "error")
  BY <1>1 DEF TooLate, NoneIs
<1>2. CASE target = "NULL" /\ NoCall(messages)
  <2>1. \A k \in 1 .. Len(messages) : \A j \in 1 .. k : j \in 1 .. Len(messages)
    OBVIOUS
  <2>. QED BY <1>2, <2>1 DEF TooLate, NoCall
<1>. QED BY <1>1, <1>2

LEMMA TooLateOfTail ==
    ASSUME NEW messages \in Seq(Msgs), messages # << >>, NEW target, TooLate(messages, target)
    PROVE  /\ TooLate(Tail(messages), target)
           /\ Head(messages).type \in CallTypes => \A other : TooLate(Tail(messages), other)
<1>. DEFINE tail == Tail(messages)
<1>1. /\ Len(messages) \in Nat \ {0} /\ Len(tail) = Len(messages) - 1 /\ Len(tail) \in Nat
      /\ Head(messages) = messages[1]
  BY HeadTailProperties, EmptySeq
<1>2. \A i \in 1 .. Len(tail) : tail[i] = messages[i + 1] /\ i + 1 \in 1 .. Len(messages)
  BY HeadTailProperties, EmptySeq
<1>. HIDE DEF tail
<1>3. ASSUME NEW i \in 1 .. Len(tail), NEW k \in 1 .. Len(tail),
             tail[i].type = "error", i < k, StopsTold(tail[k])
      PROVE  /\ target = "NULL" /\ Head(messages).type \notin CallTypes
             /\ \A j \in 1 .. k : tail[j].type \notin CallTypes
  <2>1. /\ i + 1 \in 1 .. Len(messages) /\ k + 1 \in 1 .. Len(messages) /\ i + 1 < k + 1
        /\ messages[i + 1].type = "error" /\ StopsTold(messages[k + 1])
    BY <1>2, <1>3
  <2>2. target = "NULL" /\ \A j \in 1 .. k + 1 : messages[j].type \notin CallTypes
    BY <2>1 DEF TooLate
  <2>3. 1 \in 1 .. k + 1
    BY <1>1
  <2>4. \A j \in 1 .. k : j + 1 \in 1 .. k + 1 /\ tail[j] = messages[j + 1]
    BY <1>1, <1>2
  <2>. QED BY <1>1, <2>2, <2>3, <2>4
<1>4. TooLate(tail, target)
  BY <1>3 DEF TooLate
<1>5. Head(messages).type \in CallTypes => \A other : TooLate(tail, other)
  BY <1>3 DEF TooLate
<1>. QED BY <1>4, <1>5 DEF tail

LEMMA TooLateOfStaled ==
    ASSUME NEW messages \in Seq(Msgs), NEW target, TooLate(messages, target)
    PROVE  TooLate(Staled(messages), target)
<1>1. Len(Staled(messages)) = Len(messages) /\ Len(messages) \in Nat
  BY StaledType
<1>2. \A i \in 1 .. Len(messages) :
         /\ Staled(messages)[i].type = messages[i].type
         /\ messages[i].type = "state_changed" => Staled(messages)[i] = messages[i]
  BY StaledType DEF Staled
<1>3. \A i \in 1 .. Len(messages) : StopsTold(Staled(messages)[i]) => StopsTold(messages[i])
  BY <1>2 DEF StopsTold
<1>4. \A k \in 1 .. Len(messages) : \A j \in 1 .. k : j \in 1 .. Len(messages)
  BY <1>1
<1>. QED BY <1>1, <1>2, <1>3, <1>4 DEF TooLate

LEMMA TooLateOfConcat ==
    ASSUME NEW messages \in Seq(Msgs), NEW more \in Seq(Msgs), NEW target,
           TooLate(messages, target), \A i \in 1 .. Len(more) : ~StopsTold(more[i])
    PROVE  TooLate(messages \o more, target)
<1>. DEFINE both == messages \o more
            n == Len(messages)
<1>1. Len(both) = n + Len(more) /\ n \in Nat /\ Len(more) \in Nat
  BY ConcatProperties
<1>2. \A i \in 1 .. Len(both) : i > n => i - n \in 1 .. Len(more) /\ both[i] = more[i - n]
  BY ConcatProperties, <1>1
<1>3. \A i \in 1 .. n : both[i] = messages[i]
  BY ConcatProperties, <1>1
<1>. HIDE DEF both
<1>4. ASSUME NEW i \in 1 .. Len(both), NEW k \in 1 .. Len(both),
             both[i].type = "error", i < k, StopsTold(both[k])
      PROVE  target = "NULL" /\ \A j \in 1 .. k : both[j].type \notin CallTypes
  <2>1. k \in 1 .. n
    BY <1>1, <1>2, <1>4
  <2>2. i \in 1 .. n /\ \A j \in 1 .. k : j \in 1 .. n
    BY <1>1, <1>4, <2>1
  <2>3. messages[i].type = "error" /\ StopsTold(messages[k])
    BY <1>3, <1>4, <2>1, <2>2
  <2>4. target = "NULL" /\ \A j \in 1 .. k : messages[j].type \notin CallTypes
    BY <1>4, <2>1, <2>2, <2>3 DEF TooLate
  <2>. QED BY <1>3, <2>2, <2>4
<1>. QED BY <1>4 DEF TooLate, both

LEMMA TooLateOfAppend ==
    ASSUME NEW messages \in Seq(Msgs), NEW m \in Msgs, NEW target,
           TooLate(messages, target), ~StopsTold(m)
    PROVE  TooLate(Append(messages, m), target)
<1>1. <<m>> \in Seq(Msgs) /\ Append(messages, m) = messages \o <<m>>
  BY AppendIsConcat
<1>2. \A i \in 1 .. Len(<<m>>) : ~StopsTold(<<m>>[i])
  OBVIOUS
<1>. QED BY <1>1, <1>2, TooLateOfConcat

\* An error stops the pipeline: what it tells does not change what messages tell that
\* were there.
LEMMA BusAfterError ==
    ASSUME NEW messages \in Seq(Msgs), messages # << >>, NEW target,
           TooLate(messages, target), Head(messages).type = "error"
    PROVE  BusOf(Tail(messages), "NULL") = BusOf(Tail(messages), target)
<1>. DEFINE tail == Tail(messages)
<1>1. /\ Len(messages) \in Nat \ {0} /\ Len(tail) = Len(messages) - 1
      /\ Head(messages) = messages[1]
      /\ \A i \in 1 .. Len(tail) : tail[i] = messages[i + 1]
  BY HeadTailProperties, EmptySeq
<1>. HIDE DEF tail
<1>2. CASE target = "NULL"
  BY <1>2
<1>3. CASE target # "NULL"
  <2>1. ASSUME NEW i \in 1 .. Len(tail)
        PROVE  ~StopsTold(tail[i])
    <3>1. 1 \in 1 .. Len(messages) /\ i + 1 \in 1 .. Len(messages) /\ 1 < i + 1
          /\ tail[i] = messages[i + 1]
      BY <1>1
    <3>. QED BY <1>1, <1>3, <3>1 DEF TooLate
  <2>2. ASSUME NEW i \in 1 .. Len(tail), NEW a, NEW b
        PROVE  KindOf(tail[i], a) = KindOf(tail[i], b)
    BY <2>1 DEF KindOf, StopsTold
  <2>3. KindsOf(tail, "NULL") = KindsOf(tail, target)
    BY <2>2 DEF KindsOf
  <2>. QED BY <2>3 DEF BusOf, tail
<1>. QED BY <1>2, <1>3

\* A change that starts a stream, one on the way, and what is no state_changed.
LEMMA StopsNothing ==
    /\ \A new \in GstStates, pending \in GstStates \union {None} :
          new # "NULL" /\ (new = "READY" => pending # "NULL") => ~StopsTold(StateChanged(new, pending))
    /\ \A m : m.type # "state_changed" => ~StopsTold(m)
BY DEF StopsTold, StateOf, StateChanged

LEMMA SetUpKeeps ==
    ASSUME TypeOK, NEW state \in Rolls, NEW rest \in Seq(Msgs),
           TooLate(rest, audio'.target), SetUp(state, rest)
    PROVE  PipelineInv'
<1>1. IsRolling' => playbin'.state = playbin'.goal
  BY DEF SetUp, IsRolling, TypeOK, PipelineType
<1>2. StateChanged(state, None) \in Msgs /\ ~StopsTold(StateChanged(state, None))
  <2>1. StateChanged(state, None) \in Msgs
    BY DEF StateChanged, Msgs, MessageType, GstStates, Rolls
  <2>. QED BY <2>1, StopsNothing DEF GstStates, Rolls
<1>3. TooLate(mailbox', audio'.target)
  BY <1>2, TooLateOfAppend DEF SetUp
<1>. QED BY <1>1, <1>3 DEF PipelineInv

LEMMA TakenKeeps ==
    ASSUME TypeOK, PipelineInv, mailbox # << >>, mailbox' = Tail(mailbox),
           audio'.target = audio.target, playbin'.state = playbin.state,
           playbin'.goal = playbin.goal
    PROVE  PipelineInv'
<1>1. mailbox \in Seq(Msgs)
  BY DEF TypeOK, Msgs
<1>2. TooLate(mailbox', audio'.target)
  BY <1>1, TooLateOfTail DEF PipelineInv
<1>. QED BY <1>2 DEF PipelineInv, IsRolling

LEMMA SetDownKeeps ==
    ASSUME TypeOK, NEW state \in {"NULL", "READY"}, NEW rest \in Seq(Msgs),
           SetDown(state, rest), audio'.target = state,
           \/ NoCall(rest) /\ (state = "READY" => TooLate(rest, state))
           \/ NoneIs(rest, "error") /\ ErrorIsLast(rest)
    PROVE  PipelineInv'
<1>. DEFINE posted == PostedOnTheWayTo(state)
            staled == Staled(rest)
<1>1. ~IsRolling'
  <2>1. playbin'.state = state
    BY DEF SetDown, InitPipeline
  <2>. QED BY <2>1 DEF IsRolling
<1>2. posted \in Seq(Msgs) /\ NoCall(posted) /\ staled \in Seq(Msgs)
  BY PostedType, MessagesAreNoCalls, StaledType
<1>3. mailbox' = staled \o posted
  BY DEF SetDown
<1>4. NoneIs(posted, "error") /\ NoneIs(posted, "buffering")
  BY DEF PostedOnTheWayTo, StateChanged, NoneIs
<1>. HIDE DEF staled
<1>5. CASE NoneIs(rest, "error") /\ ErrorIsLast(rest)
  <2>1. NoneIs(staled, "error") /\ ErrorIsLast(staled)
    BY <1>5, BufferOfStaled DEF staled
  <2>. HIDE DEF posted
  <2>2. NoneIs(staled \o posted, "error") /\ staled \o posted \in Seq(Msgs)
    BY <1>2, <1>4, <2>1, BufferOfConcat, ConcatProperties
  <2>3. TooLate(staled \o posted, state)
    BY <2>2, TooLateIf
  <2>. QED BY <1>1, <1>3, <2>3 DEF PipelineInv
<1>6. CASE state = "NULL" /\ NoCall(rest)
  <2>1. NoCall(staled)
    BY <1>6, CallsOfStaled DEF staled
  <2>. HIDE DEF posted
  <2>2. NoCall(staled \o posted) /\ staled \o posted \in Seq(Msgs)
    BY <1>2, <2>1, CallsOfConcat, ConcatProperties
  <2>3. TooLate(staled \o posted, state)
    BY <1>6, <2>2, TooLateIf
  <2>. QED BY <1>1, <1>3, <2>3 DEF PipelineInv
<1>7. CASE state = "READY" /\ TooLate(rest, state)
  <2>1. TooLate(staled, state)
    BY <1>7, TooLateOfStaled DEF staled
  <2>2. \A i \in 1 .. Len(posted) : ~StopsTold(posted[i])
    <3>1. ~StopsTold(StateChanged("PAUSED", "READY")) /\ ~StopsTold(StateChanged("READY", None))
      BY StopsNothing, VoidPendingAssumption DEF GstStates
    <3>2. \A i \in 1 .. Len(posted) :
             posted[i] \in {StateChanged("PAUSED", "READY"), StateChanged("READY", None)}
      BY <1>7 DEF PostedOnTheWayTo
    <3>. QED BY <3>1, <3>2
  <2>. HIDE DEF posted
  <2>3. TooLate(staled \o posted, state)
    BY <1>2, <2>1, <2>2, TooLateOfConcat
  <2>. QED BY <1>1, <1>3, <2>3 DEF PipelineInv
<1>. QED BY <1>5, <1>6, <1>7

LEMMA HandlersKeepPipeline ==
    ASSUME IInv, BufferInv, PipelineInv,
           \/ OnStateChanged \/ OnBuffering \/ OnEndOfStream
           \/ OnError \/ OnTag \/ OnStreamStart
    PROVE  PipelineInv'
<1>. DEFINE rest == Tail(mailbox)
<1>. USE DEF IInv
<1>0. mailbox # << >> /\ mailbox \in Seq(Msgs) /\ rest \in Seq(Msgs)
  BY Received DEF OnStateChanged, OnBuffering, OnEndOfStream, OnError, OnTag, OnStreamStart,
                  ReceiveOnly, Receive, TypeOK, Msgs
<1>1. TooLate(rest, audio.target)
  BY <1>0, TooLateOfTail DEF PipelineInv
<1>2. CASE OnStateChanged \/ OnEndOfStream \/ OnTag \/ OnStreamStart
  <2>1. mailbox' = rest /\ playbin' = playbin /\ audio'.target = audio.target
    BY <1>2, HandlersLeave
  <2>. QED BY <1>0, <2>1, TakenKeeps
<1>3. CASE OnBuffering
  <2>1. audio'.target = audio.target
    <3>1. audio' \in {audio, [audio EXCEPT !.buffering = TRUE], [audio EXCEPT !.buffering = FALSE]}
      BY <1>3 DEF OnBuffering
    <3>. QED BY <3>1 DEF TypeOK, AudioType
  <2>2. \/ mailbox' = rest /\ playbin' = playbin
        \/ \E state \in Rolls : SetUp(state, rest)
    BY <1>3 DEF OnBuffering, Rolls
  <2>3. CASE mailbox' = rest /\ playbin' = playbin
    BY <1>0, <2>1, <2>3, TakenKeeps
  <2>4. CASE \E state \in Rolls : SetUp(state, rest)
    BY <1>0, <1>1, <2>1, <2>4, SetUpKeeps
  <2>. QED BY <2>2, <2>3, <2>4
<1>4. CASE OnError
  <2>1. SetDown("NULL", rest) /\ audio' = Stopped /\ Head(mailbox).type = "error"
    BY <1>4 DEF OnError, Receive
  <2>2. audio'.target = "NULL"
    BY <2>1 DEF Stopped, TypeOK, AudioType
  <2>3. NoneIs(rest, "error") /\ ErrorIsLast(rest)
    BY <1>0, <2>1, BufferOfTail DEF BufferInv
  <2>. QED BY <1>0, <2>1, <2>2, <2>3, SetDownKeeps
<1>. QED BY <1>2, <1>3, <1>4

LEMMA CallsKeepPipeline ==
    ASSUME IInv, PipelineInv, Calls
    PROVE  PipelineInv'
<1>. DEFINE rest == Tail(mailbox)
<1>. USE DEF IInv
<1>0. /\ mailbox # << >> /\ mailbox \in Seq(Msgs) /\ rest \in Seq(Msgs) /\ NoCall(rest)
      /\ audio \in AudioType
  BY IsCall DEF TypeOK, Msgs
<1>1. \A target : TooLate(rest, target)
  BY <1>0, IsCall, TooLateOfTail DEF PipelineInv
<1>2. CASE PrepareChangeCall \/ StopPlaybackCall
  <2>1. PICK state \in {"NULL", "READY"} : SetDown(state, rest) /\ audio'.target = state
    BY <1>0, <1>2 DEF PrepareChangeCall, StopPlaybackCall, Stopped, AudioType
  <2>. QED BY <1>0, <1>1, <2>1, SetDownKeeps
<1>3. CASE StartPlaybackCall \/ PausePlaybackCall
  <2>1. PICK state \in Rolls : SetUp(state, rest)
    BY <1>3 DEF StartPlaybackCall, PausePlaybackCall, Rolls
  <2>. QED BY <1>0, <1>1, <2>1, SetUpKeeps
<1>4. CASE SetUriCall \/ SetPositionCall \/ GetCurrentTagsCall
  <2>1. mailbox' = rest
    BY <1>4 DEF SetUriCall, SetPositionCall, GetCurrentTagsCall
  <2>2. playbin'.goal = playbin.goal /\ playbin'.state = playbin.state
    <3>1. CASE SetUriCall
      BY <3>1 DEF SetUriCall, TypeOK, PipelineType
    <3>2. CASE SetPositionCall \/ GetCurrentTagsCall
      BY <3>2 DEF SetPositionCall, GetCurrentTagsCall, TypeOK, PipelineType
    <3>. QED BY <1>4, <3>1, <3>2
  <2>3. audio'.target = audio.target
    BY <1>0, <1>4 DEF SetUriCall, SetPositionCall, GetCurrentTagsCall, AudioType
  <2>. QED BY <1>0, <2>1, <2>2, <2>3, TakenKeeps
<1>. QED BY <1>2, <1>3, <1>4 DEF Calls

LEMMA CoreKeepsPipeline ==
    ASSUME IInv, PipelineInv, CoreActs \/ ClientCalls
    PROVE  PipelineInv'
<1>. USE DEF IInv
<1>1. playbin' = playbin /\ audio' = audio
  BY DEF CoreActs, CoreAsks, CoreHears, CoreAnswersCallback, CallbackReturns, ClientCalls
<1>2. CASE CoreAsks
  <2>. DEFINE call == Head(core.plan)
  <2>1. core.plan \in Seq(CallType) /\ core.plan # << >> /\ mailbox \in Seq(Msgs)
    BY <1>2 DEF CoreAsks, Idle, TypeOK, Msgs
  <2>2. call \in CallType
    BY <2>1, HeadTailProperties
  <2>3. call \in Msgs /\ ~StopsTold(call)
    <3>1. call \in Msgs /\ call.type # "state_changed"
      BY <2>2 DEF Msgs, CallType
    <3>. QED BY <3>1, StopsNothing
  <2>4. mailbox' = Append(mailbox, call)
    BY <1>2 DEF CoreAsks
  <2>. HIDE DEF call
  <2>5. TooLate(mailbox', audio.target)
    BY <2>1, <2>3, <2>4, TooLateOfAppend DEF PipelineInv
  <2>. QED BY <1>1, <2>5 DEF PipelineInv, IsRolling
<1>3. CASE mailbox' = mailbox
  BY <1>1, <1>3 DEF PipelineInv, IsRolling
<1>. QED BY <1>2, <1>3 DEF CoreActs, CoreHears, CoreAnswersCallback, CallbackReturns, ClientCalls

\* What GStreamer posts by itself, but for the messages of a start.
LEMMA OnePosted ==
    ASSUME IInv, NextSourceStarts \/ SourceEnds \/ FindTag \/ BufferRunsLow \/ BufferFills
                 \/ ElementFails
    PROVE  \E m \in MessageType :
              /\ mailbox' = mailbox \o <<m>> /\ m.type # "state_changed"
              /\ NextSourceStarts => m.type = "stream_start"
              /\ SourceEnds => m.type = "end_of_stream"
              /\ FindTag \/ BufferRunsLow \/ BufferFills \/ ElementFails =>
                    m.type \in {"tag", "buffering", "error"}
<1>. USE DEF IInv
<1>1. CASE NextSourceStarts
  <2>. DEFINE m == StreamStart(playbin.queued)
  <2>1. playbin.queued \in Uris
    BY <1>1 DEF NextSourceStarts, StreamsAreKnown
  <2>2. m \in MessageType /\ m.type = "stream_start" /\ mailbox' = mailbox \o <<m>>
    BY <1>1, <2>1 DEF StreamStart, MessageType, NextSourceStarts, Post
  <2>3. ~SourceEnds /\ ~FindTag /\ ~BufferRunsLow /\ ~BufferFills /\ ~ElementFails
    <3>1. playbin' # playbin /\ playbin.queued # None
      BY <1>1 DEF NextSourceStarts, AtEnd, TypeOK, PipelineType
    <3>. QED BY <3>1 DEF SourceEnds, FindTag, BufferRunsLow, BufferFills, Buffering, ElementFails
  <2>. QED BY <2>2, <2>3
<1>2. CASE SourceEnds
  <2>. DEFINE m == [type |-> "end_of_stream"]
  <2>1. m \in MessageType /\ m.type = "end_of_stream" /\ mailbox' = mailbox \o <<m>>
    BY <1>2 DEF MessageType, SourceEnds, Post
  <2>2. ~NextSourceStarts /\ ~FindTag /\ ~BufferRunsLow /\ ~BufferFills /\ ~ElementFails
    <3>1. playbin' # playbin /\ playbin.queued = None
      BY <1>2 DEF SourceEnds, AtEnd, Plays, TypeOK, PipelineType
    <3>. QED BY <3>1 DEF NextSourceStarts, FindTag, BufferRunsLow, BufferFills, Buffering, ElementFails
  <2>. QED BY <2>1, <2>2
<1>3. CASE FindTag \/ BufferRunsLow \/ BufferFills \/ ElementFails
  <2>1. StreamOf(playbin) \in Uris /\ playbin' = playbin
    BY <1>3, StreamOfType DEF FindTag, BufferRunsLow, BufferFills, Buffering, ElementFails
  <2>2. ~NextSourceStarts /\ ~SourceEnds
    <3>0. playbin \in PipelineType
      BY DEF TypeOK
    <3>1. ASSUME NextSourceStarts PROVE FALSE
      <4>1. playbin.finishing /\ playbin'.finishing = FALSE
        BY <3>0, <3>1 DEF NextSourceStarts, AtEnd, PipelineType
      <4>. QED BY <2>1, <4>1
    <3>2. ASSUME SourceEnds PROVE FALSE
      <4>1. ~playbin.ended /\ playbin'.ended = TRUE
        BY <3>0, <3>2 DEF SourceEnds, AtEnd, Plays, PipelineType
      <4>. QED BY <2>1, <4>1
    <3>. QED BY <3>1, <3>2
  <2>3. \E m \in MessageType : /\ mailbox' = mailbox \o <<m>>
                               /\ m.type \in {"tag", "buffering", "error"}
    <3>1. CASE FindTag
      <4>1. [type |-> "tag", of |-> StreamOf(playbin)] \in MessageType
        BY <2>1 DEF MessageType
      <4>. QED BY <3>1, <4>1 DEF FindTag, Post
    <3>2. CASE BufferRunsLow \/ BufferFills
      <4>1. PICK percent \in {0, 100} : Buffering(percent)
        BY <3>2 DEF BufferRunsLow, BufferFills
      <4>2. [type |-> "buffering", percent |-> percent, live |-> StreamOf(playbin) \in Live,
             stale |-> FALSE] \in MessageType
        BY <4>1 DEF MessageType
      <4>. QED BY <4>1, <4>2 DEF Buffering, Post
    <3>3. CASE ElementFails
      <4>1. [type |-> "error"] \in MessageType
        BY DEF MessageType
      <4>. QED BY <3>3, <4>1 DEF ElementFails, Post
    <3>. QED BY <1>3, <3>1, <3>2, <3>3
  <2>. QED BY <2>2, <2>3
<1>. QED BY <1>1, <1>2, <1>3

LEMMA PrerollPosts ==
    ASSUME IInv, Preroll
    PROVE  LET first == StreamStart(playbin.uri)
               second == StateChanged(playbin.goal, None)
           IN  /\ first \in MessageType /\ second \in MessageType
               /\ first.type = "stream_start" /\ second.type = "state_changed"
               /\ mailbox' = mailbox \o <<first, second>>
               /\ playbin.goal \in Rolls
<1>1. playbin.goal \in Rolls
  BY DEF Preroll, Starting, Rolls
<1>2. playbin.uri \in Uris
  BY <1>1 DEF IInv, StreamsAreKnown
<1>3. StreamStart(playbin.uri) \in MessageType /\ StateChanged(playbin.goal, None) \in MessageType
  BY <1>1, <1>2 DEF StreamStart, StateChanged, MessageType, GstStates, Rolls
<1>. QED BY <1>1, <1>3 DEF Preroll, Post, StreamStart, StateChanged

LEMMA GStreamerKeepsPipeline ==
    ASSUME IInv, PipelineInv, GStreamer
    PROVE  PipelineInv'
<1>. USE DEF IInv
<1>0. mailbox \in Seq(Msgs) /\ audio' = audio
  BY DEF TypeOK, Msgs, GStreamer, Preroll, SegmentPasses, SourceFinishes, NextSourceStarts,
         SourceEnds, FindTag, BufferRunsLow, BufferFills, Buffering, ElementFails
<1>1. CASE Preroll
  <2>. DEFINE first == StreamStart(playbin.uri)
              second == StateChanged(playbin.goal, None)
              posted == <<first, second>>
  <2>1. /\ first \in MessageType /\ second \in MessageType /\ first.type = "stream_start"
        /\ mailbox' = mailbox \o posted /\ playbin.goal \in Rolls
    BY <1>1, PrerollPosts
  <2>2. playbin'.state = playbin'.goal
    BY <1>1 DEF Preroll, TypeOK, PipelineType
  <2>3. ~StopsTold(first) /\ ~StopsTold(second)
    BY <2>1, StopsNothing DEF GstStates, Rolls
  <2>. HIDE DEF first, second
  <2>4. posted \in Seq(Msgs) /\ \A i \in 1 .. Len(posted) : ~StopsTold(posted[i])
    BY <2>1, <2>3 DEF Msgs
  <2>. HIDE DEF posted
  <2>5. TooLate(mailbox', audio.target)
    BY <1>0, <2>1, <2>4, TooLateOfConcat DEF PipelineInv
  <2>. QED BY <1>0, <2>2, <2>5 DEF PipelineInv
<1>2. CASE SegmentPasses \/ SourceFinishes
  <2>1. playbin'.goal = playbin.goal /\ playbin'.state = playbin.state /\ mailbox' = mailbox
    BY <1>2 DEF SegmentPasses, SourceFinishes, TypeOK, PipelineType
  <2>. QED BY <1>0, <2>1 DEF PipelineInv, IsRolling
<1>3. CASE NextSourceStarts \/ SourceEnds \/ FindTag \/ BufferRunsLow \/ BufferFills
           \/ ElementFails
  <2>1. PICK m \in MessageType : mailbox' = mailbox \o <<m>> /\ m.type # "state_changed"
    BY <1>3, OnePosted
  <2>2. playbin'.goal = playbin.goal /\ playbin'.state = playbin.state
    <3>1. CASE NextSourceStarts \/ SourceEnds
      BY <3>1 DEF NextSourceStarts, SourceEnds, TypeOK, PipelineType
    <3>2. CASE FindTag \/ BufferRunsLow \/ BufferFills \/ ElementFails
      BY <3>2 DEF FindTag, BufferRunsLow, BufferFills, Buffering, ElementFails
    <3>. QED BY <1>3, <3>1, <3>2
  <2>3. m \in Msgs /\ ~StopsTold(m)
    BY <2>1, StopsNothing DEF Msgs
  <2>4. mailbox' = Append(mailbox, m)
    BY <1>0, <2>1, <2>3, AppendIsConcat
  <2>5. TooLate(mailbox', audio.target)
    BY <1>0, <2>3, <2>4, TooLateOfAppend DEF PipelineInv
  <2>. QED BY <1>0, <2>2, <2>5 DEF PipelineInv, IsRolling
<1>. QED BY <1>1, <1>2, <1>3 DEF GStreamer

-----------------------------------------------------------------------------
(* The inbox. *)

TypesOf(events) == [i \in 1 .. Len(events) |-> events[i].type]

InboxOf(events) == EventsOf(TypesOf(events))

LEMMA TypesOfType ==
    ASSUME NEW events \in Seq(EventType)
    PROVE  /\ TypesOf(events) \in Seq(Kinds) /\ Len(TypesOf(events)) = Len(events)
           /\ InboxOf(events) \in Seq(Kinds) /\ InboxOf(<< >>) = << >>
<1>1. \A i \in 1 .. Len(events) : events[i].type \in Kinds
  BY DEF EventType, Kinds, CoreEvents
<1>2. TypesOf(events) \in Seq(Kinds) /\ Len(TypesOf(events)) = Len(events)
  BY <1>1 DEF TypesOf
<1>3. TypesOf(<< >>) = << >>
  BY DEF TypesOf
<1>. QED BY <1>2, <1>3, ChosenType DEF InboxOf, EventsOf

LEMMA SeenInboxIs ==
    /\ TypeOK => SeenInbox = InboxOf(inbox)
    /\ TypeOK' => SeenInbox' = InboxOf(inbox')
<1>1. ASSUME TypeOK PROVE SeenInbox = InboxOf(inbox)
  <2>1. DOMAIN inbox = 1 .. Len(inbox)
    BY <1>1 DEF TypeOK
  <2>. QED BY <2>1 DEF SeenInbox, InboxOf, TypesOf
<1>2. ASSUME TypeOK' PROVE SeenInbox' = InboxOf(inbox')
  <2>1. DOMAIN inbox' = 1 .. Len(inbox')
    BY <1>2 DEF TypeOK
  <2>. QED BY <2>1 DEF SeenInbox, InboxOf, TypesOf
<1>. QED BY <1>1, <1>2

LEMMA InboxOfConcat ==
    ASSUME NEW events \in Seq(EventType), NEW more \in Seq(EventType)
    PROVE  InboxOf(events \o more) = InboxOf(events) \o InboxOf(more)
<1>. DEFINE both == events \o more
            front == TypesOf(events)
            back == TypesOf(more)
            n == Len(events)
<1>1. /\ Len(both) = n + Len(more) /\ n \in Nat /\ Len(more) \in Nat /\ both \in Seq(EventType)
      /\ \A i \in 1 .. n + Len(more) : both[i] = IF i <= n THEN events[i] ELSE more[i - n]
  BY ConcatProperties
<1>. HIDE DEF both
<1>2. /\ front \in Seq(Kinds) /\ Len(front) = n /\ back \in Seq(Kinds) /\ Len(back) = Len(more)
      /\ TypesOf(both) \in Seq(Kinds) /\ Len(TypesOf(both)) = n + Len(more)
  BY <1>1, TypesOfType
<1>3. \A i \in 1 .. n + Len(more) : TypesOf(both)[i] = IF i <= n THEN front[i] ELSE back[i - n]
  <2>. TAKE i \in 1 .. n + Len(more)
  <2>1. TypesOf(both)[i] = both[i].type
    BY <1>1 DEF TypesOf
  <2>2. CASE i <= n
    <3>1. i \in 1 .. n
      BY <1>1, <2>2
    <3>. QED BY <1>1, <2>1, <2>2, <3>1 DEF TypesOf
  <2>3. CASE i > n
    <3>1. i - n \in 1 .. Len(more) /\ ~(i <= n)
      BY <1>1, <2>3
    <3>. QED BY <1>1, <2>1, <3>1 DEF TypesOf
  <2>. QED BY <1>1, <2>2, <2>3
<1>. HIDE DEF front, back
<1>4. TypesOf(both) = front \o back
  <2>1. /\ front \o back \in Seq(Kinds) /\ Len(front \o back) = n + Len(more)
        /\ \A i \in 1 .. n + Len(more) : (front \o back)[i] = IF i <= n THEN front[i] ELSE back[i - n]
    BY <1>2, ConcatProperties
  <2>2. \A i \in 1 .. n + Len(more) : TypesOf(both)[i] = (front \o back)[i]
    BY <1>3, <2>1, Zenon
  <2>. QED BY <1>2, <2>1, <2>2, SeqEqual
<1>5. Chosen(front \o back, CoreEvents) = Chosen(front, CoreEvents) \o Chosen(back, CoreEvents)
  BY <1>2, ChosenOfConcat
<1>. QED BY <1>4, <1>5, Zenon DEF InboxOf, EventsOf, front, back, both

LEMMA InboxOfOne ==
    ASSUME NEW e
    PROVE  InboxOf(<<e>>) = IF e.type \in CoreEvents THEN <<e.type>> ELSE << >>
<1>1. TypesOf(<<e>>) = <<e.type>>
  BY DEF TypesOf
<1>. QED BY <1>1, ChosenOfOne DEF InboxOf, EventsOf

LEMMA InboxOfTail ==
    ASSUME NEW events \in Seq(EventType), events # << >>
    PROVE  /\ Head(events).type \notin CoreEvents => InboxOf(Tail(events)) = InboxOf(events)
           /\ Head(events).type \in CoreEvents =>
                 InboxOf(events) # << >> /\ InboxOf(Tail(events)) = Tail(InboxOf(events))
<1>. DEFINE types == TypesOf(events)
            tail == Tail(events)
<1>1. /\ Len(events) \in Nat \ {0} /\ Len(tail) = Len(events) - 1 /\ tail \in Seq(EventType)
      /\ Head(events) = events[1]
      /\ \A i \in 1 .. Len(tail) : tail[i] = events[i + 1]
  BY HeadTailProperties, EmptySeq
<1>. HIDE DEF tail
<1>2. types \in Seq(Kinds) /\ Len(types) = Len(events)
  BY TypesOfType
<1>3. types[1] = Head(events).type /\ \A i \in 1 .. Len(tail) : types[i + 1] = tail[i].type
  <2>1. \A i \in 1 .. Len(tail) : i + 1 \in 1 .. Len(events)
    BY <1>1
  <2>. QED BY <1>1, <2>1 DEF TypesOf
<1>. HIDE DEF types
<1>4. types # << >> /\ Head(types) = Head(events).type
  BY <1>1, <1>2, <1>3, EmptySeq
<1>5. Tail(types) = TypesOf(tail)
  <2>1. /\ Tail(types) \in Seq(Kinds) /\ Len(Tail(types)) = Len(tail)
        /\ \A i \in 1 .. Len(tail) : Tail(types)[i] = types[i + 1]
    BY <1>1, <1>2, <1>4, HeadTailProperties
  <2>2. /\ TypesOf(tail) \in Seq(Kinds) /\ Len(TypesOf(tail)) = Len(tail)
        /\ \A i \in 1 .. Len(tail) : TypesOf(tail)[i] = tail[i].type
    BY <1>1, TypesOfType DEF TypesOf
  <2>. QED BY <1>3, <2>1, <2>2, SeqEqual
<1>6. /\ Head(types) \notin CoreEvents => Chosen(types, CoreEvents) = Chosen(Tail(types), CoreEvents)
      /\ Head(types) \in CoreEvents =>
            /\ Chosen(types, CoreEvents) # << >>
            /\ Tail(Chosen(types, CoreEvents)) = Chosen(Tail(types), CoreEvents)
  BY <1>2, <1>4, ChosenOfTail
<1>. QED BY <1>4, <1>5, <1>6, Zenon DEF InboxOf, EventsOf, types, tail

-----------------------------------------------------------------------------
(* The abstract state, and its steps as facts on it. *)

PInv == IInv /\ BufferInv /\ PipelineInv

\* The pipeline as core sees it, when core asked for `target`.
GstOf(pipeline, target) ==
    [state |-> IF pipeline.state \in Rolls THEN target ELSE pipeline.state, goal |-> target,
     uri |-> pipeline.uri, source |-> pipeline.source, queued |-> pipeline.queued,
     at |-> pipeline.at, finishing |-> pipeline.finishing, ended |-> pipeline.ended,
     segment |-> pipeline.segment]

LEMMA SeenGstIs ==
    /\ TypeOK => SeenGst = GstOf(playbin, audio.target)
    /\ TypeOK' => SeenGst' = GstOf(playbin', audio'.target)
<1>1. ASSUME NEW p \in PipelineType, NEW target, NEW seen,
             seen = [p EXCEPT !.state = IF p.state \in Rolls THEN target ELSE p.state,
                              !.goal = target]
      PROVE  seen = GstOf(p, target)
  BY <1>1 DEF PipelineType, GstOf
<1>2. ASSUME TypeOK PROVE SeenGst = GstOf(playbin, audio.target)
  <2>1. playbin \in PipelineType
    BY <1>2 DEF TypeOK
  <2>2. SeenGst = [playbin EXCEPT !.state = IF playbin.state \in Rolls THEN audio.target
                                            ELSE playbin.state,
                                  !.goal = audio.target]
    BY DEF SeenGst, IsRolling, Rolls
  <2>. QED BY <1>1, <2>1, <2>2, Zenon
<1>3. ASSUME TypeOK' PROVE SeenGst' = GstOf(playbin', audio'.target)
  <2>1. playbin' \in PipelineType
    BY <1>3 DEF TypeOK
  <2>2. SeenGst' = [playbin' EXCEPT !.state = IF playbin'.state \in Rolls THEN audio'.target
                                              ELSE playbin'.state,
                                    !.goal = audio'.target]
    BY DEF SeenGst, IsRolling, Rolls
  <2>. QED BY <1>1, <2>1, <2>2, Zenon
<1>. QED BY <1>2, <1>3

LEMMA SeenState ==
    ASSUME PInv
    PROVE  /\ SeenGst = GstOf(playbin, audio.target)
           /\ SeenBus = BusOf(mailbox, audio.target) /\ SeenBus \in Seq(Kinds)
           /\ SeenInbox = InboxOf(inbox) /\ SeenInbox \in Seq(Kinds)
           /\ mailbox \in Seq(Msgs) /\ inbox \in Seq(EventType) /\ OneCall(mailbox)
           /\ playbin \in PipelineType /\ audio \in AudioType
           /\ IsRolling => playbin.state = playbin.goal /\ audio.target \in Rolls
           /\ playbin.goal = "PLAYING" => audio.target = "PLAYING"
           /\ audio.target \in Rolls <=> playbin.goal \in Rolls
<1>. USE DEF PInv
<1>1. TypeOK /\ mailbox \in Seq(Msgs) /\ inbox \in Seq(EventType)
  BY DEF IInv, TypeOK, Msgs
<1>2. SeenGst = GstOf(playbin, audio.target)
  BY <1>1, SeenGstIs
<1>3. SeenBus = BusOf(mailbox, audio.target) /\ SeenBus \in Seq(Kinds)
  BY <1>1, SeenBusIs, KindsType
<1>4. SeenInbox = InboxOf(inbox) /\ SeenInbox \in Seq(Kinds)
  BY <1>1, SeenInboxIs, TypesOfType
<1>5. IsRolling => playbin.state = playbin.goal /\ audio.target \in Rolls
  BY DEF PipelineInv, BufferInv, IsRolling, Rolls
<1>6. OneCall(mailbox)
  BY DEF IInv, CallsWait
<1>. QED BY <1>1, <1>2, <1>3, <1>4, <1>5, <1>6 DEF IInv, TypeOK, PlaysWhatIsAsked, BufferInv

\* The next one: TypeOK is all that is needed of it.
LEMMA SeenNext ==
    ASSUME PInv'
    PROVE  /\ SeenGst' = GstOf(playbin', audio'.target)
           /\ SeenBus' = BusOf(mailbox', audio'.target)
           /\ SeenInbox' = InboxOf(inbox')
BY SeenGstIs, SeenBusIs, SeenInboxIs DEF PInv, IInv

\* Calls.
LEMMA FlushIsCalled ==
    ASSUME SeenInbox \in Seq(Kinds), SeenBus \in Seq(Kinds), NEW state \in {"NULL", "READY"},
           SeenGst' = [InitPipeline EXCEPT !.uri = SeenGst.uri, !.state = state, !.goal = state],
           SeenBus' = SeenBus \o IF state = "NULL" /\ SeenGst.state \in Rolls
                                 THEN <<"stream_changed">> ELSE << >>,
           SeenInbox' = SeenInbox
    PROVE  Seen!Called
<1>1. SeenInbox \o << >> = SeenInbox
  BY ConcatEmptySeq
<1>2. CASE state = "READY"
  <2>1. Seen!Answered(Seen!PrepareChange(Seen!Asking))
    BY <1>1, <1>2 DEF Seen!Answered, Seen!PrepareChange, Seen!Asking, Seen!Here, Seen!Become,
                      Seen!Flush, Seen!Ask, Seen!InitPipeline, InitPipeline
  <2>. QED BY <2>1 DEF Seen!Called
<1>3. CASE state = "NULL"
  <2>1. Seen!Answered(Seen!StopPlayback(Seen!Asking))
    BY <1>1, <1>3 DEF Seen!Answered, Seen!StopPlayback, Seen!Asking, Seen!Here, Seen!Become,
                      Seen!Flush, Seen!Ask, Seen!InitPipeline, InitPipeline, Seen!Rolling, Rolls
  <2>. QED BY <2>1 DEF Seen!Called
<1>. QED BY <1>2, <1>3

LEMMA SetUriIsCalled ==
    ASSUME SeenInbox \in Seq(Kinds), SeenBus \in Seq(Kinds), NEW uri \in Uris,
           SeenGst' = [SeenGst EXCEPT !.uri = uri,
                           !.queued = IF SeenGst.state \in Rolls THEN uri ELSE None],
           SeenBus' = SeenBus, SeenInbox' = SeenInbox
    PROVE  Seen!Called
<1>1. SeenInbox \o << >> = SeenInbox /\ SeenBus \o << >> = SeenBus
  BY ConcatEmptySeq
<1>2. Seen!Answered(Seen!SetUri(Seen!Asking, uri))
  BY <1>1 DEF Seen!Answered, Seen!SetUri, Seen!Asking, Seen!Here, Seen!Become, Seen!Ask,
              Seen!Rolling, Rolls
<1>. QED BY <1>2 DEF Seen!Called

LEMMA SetPipelineIsCalled ==
    ASSUME SeenInbox \in Seq(Kinds), SeenBus \in Seq(Kinds), NEW goal \in Rolls,
           SeenGst' = [SeenGst EXCEPT !.goal = goal,
                           !.state = IF SeenGst.state \in Rolls THEN goal ELSE @],
           SeenBus' = SeenBus, SeenInbox' = SeenInbox
    PROVE  Seen!Called
<1>1. SeenInbox \o << >> = SeenInbox /\ SeenBus \o << >> = SeenBus
  BY ConcatEmptySeq
<1>2. Seen!Answered(Seen!SetPipeline(Seen!Asking, goal))
  BY <1>1 DEF Seen!Answered, Seen!SetPipeline, Seen!Asking, Seen!Here, Seen!Become, Seen!Ask,
              Seen!Rolling, Rolls
<1>. QED BY <1>2 DEF Seen!Called, Rolls

LEMMA SetPositionIsCalled ==
    ASSUME SeenInbox \in Seq(Kinds), SeenBus \in Seq(Kinds), NEW pos \in TrackPositions,
           SeenGst' = IF SeenGst.state \in Rolls /\ SeenGst.source # None
                      THEN [SeenGst EXCEPT !.at = pos, !.segment = TRUE,
                                           !.ended = FALSE, !.finishing = FALSE]
                      ELSE SeenGst,
           SeenBus' = SeenBus, SeenInbox' = SeenInbox
    PROVE  Seen!Called
<1>1. SeenInbox \o << >> = SeenInbox /\ SeenBus \o << >> = SeenBus
  BY ConcatEmptySeq
<1>2. Seen!Answered(Seen!SetPosition(Seen!Asking, pos))
  BY <1>1 DEF Seen!Answered, Seen!SetPosition, Seen!CanSeek, Seen!Asking, Seen!Here, Seen!Become,
              Seen!Ask, Seen!Rolling, Rolls
<1>. QED BY <1>2 DEF Seen!Called, Seen!TrackPositions, TrackPositions

\* The bus when the first message is taken, and the state asked for is `new` then.
LEMMA BusWithoutFirst ==
    ASSUME PInv, mailbox # << >>, NEW new,
           \/ TargetOf(Head(mailbox)) = {} /\ new = audio.target
           \/ TargetOf(Head(mailbox)) = {new}
    PROVE  LET kind == KindOf(Head(mailbox), new)
               rest == BusOf(Tail(mailbox), new)
           IN  /\ Tail(mailbox) \in Seq(Msgs) /\ OneCall(Tail(mailbox))
               /\ kind \notin CoreEvents => SeenBus = rest
               /\ kind \in CoreEvents =>
                     SeenBus # << >> /\ Head(SeenBus) = kind /\ Tail(SeenBus) = rest
<1>1. SeenBus = BusOf(mailbox, audio.target) /\ mailbox \in Seq(Msgs) /\ OneCall(mailbox)
  BY SeenState
<1>2. Tail(mailbox) \in Seq(Msgs) /\ OneCall(Tail(mailbox))
  BY <1>1, CallsOfTail
<1>3. LET kind == KindOf(Head(mailbox), new)
          rest == BusOf(Tail(mailbox), new)
      IN  /\ kind \notin CoreEvents => BusOf(mailbox, audio.target) = rest
          /\ kind \in CoreEvents =>
                /\ BusOf(mailbox, audio.target) # << >>
                /\ Head(BusOf(mailbox, audio.target)) = kind
                /\ Tail(BusOf(mailbox, audio.target)) = rest
  BY <1>1, BusOfTail, SMTT(30)
<1>. QED BY <1>1, <1>2, <1>3, Zenon

LEMMA HeardIsRelayed ==
    ASSUME PInv, PInv', mailbox # << >>, mailbox' = Tail(mailbox), playbin' = playbin,
           audio'.target = audio.target, TargetOf(Head(mailbox)) = {},
           NEW events \in Seq(EventType), Tell(events),
           InboxOf(events) = IF KindOf(Head(mailbox), audio.target) \in CoreEvents
                             THEN <<KindOf(Head(mailbox), audio.target)>> ELSE << >>
    PROVE  Seen!Relays \/ UNCHANGED Seen!vars
<1>. DEFINE kind == KindOf(Head(mailbox), audio.target)
            rest == BusOf(Tail(mailbox), audio.target)
<1>1. /\ kind \notin CoreEvents => SeenBus = rest
      /\ kind \in CoreEvents => SeenBus # << >> /\ Head(SeenBus) = kind /\ Tail(SeenBus) = rest
  BY BusWithoutFirst
<1>2. SeenBus' = rest /\ SeenGst' = SeenGst
  BY SeenState, SeenNext
<1>3. SeenInbox' = SeenInbox \o InboxOf(events)
  <2>1. inbox \in Seq(EventType) /\ SeenInbox = InboxOf(inbox)
    BY SeenState
  <2>. QED BY <2>1, SeenNext, InboxOfConcat DEF Tell
<1>4. SeenInbox \in Seq(Kinds) /\ kind \in Kinds
  BY SeenState, KindType
<1>. HIDE DEF kind, rest
<1>5. SeenInbox \o << >> = SeenInbox /\ SeenInbox \o <<kind>> = Append(SeenInbox, kind)
  BY <1>4, ConcatEmptySeq, AppendIsConcat
<1>6. CASE kind \in CoreEvents
  <2>1. SeenInbox' = Append(SeenInbox, Head(SeenBus))
    BY <1>1, <1>3, <1>5, <1>6 DEF kind
  <2>. QED BY <1>1, <1>2, <1>6, <2>1 DEF Seen!Relays
<1>7. CASE kind \notin CoreEvents
  <2>1. SeenInbox' = SeenInbox
    BY <1>3, <1>5, <1>7 DEF kind
  <2>. QED BY <1>1, <1>2, <1>7, <2>1 DEF Seen!vars
<1>. QED BY <1>6, <1>7

LEMMA HandlersRelay ==
    ASSUME PInv, PInv', OnStateChanged \/ OnEndOfStream \/ OnTag \/ OnStreamStart
    PROVE  Seen!Relays \/ UNCHANGED Seen!vars
<1>. DEFINE m == Head(mailbox)
            kind == KindOf(m, audio.target)
            told == IF kind \in CoreEvents THEN <<kind>> ELSE << >>
<1>0. TypeOK
  BY DEF PInv, IInv
<1>1. /\ mailbox # << >> /\ mailbox' = Tail(mailbox) /\ playbin' = playbin
      /\ audio'.target = audio.target
  BY <1>0, HandlersLeave DEF OnStateChanged, OnEndOfStream, OnTag, OnStreamStart, ReceiveOnly, Receive
<1>2. m.type \in {"state_changed", "end_of_stream", "tag", "stream_start"}
  BY DEF OnStateChanged, OnEndOfStream, OnTag, OnStreamStart, ReceiveOnly, Receive
<1>3. TargetOf(m) = {}
  BY <1>2 DEF TargetOf
<1>. DEFINE changed(uri) == <<[type |-> "stream_changed", uri |-> uri]>>
            tags == <<[type |-> "tags_changed"]>>
            ended == <<[type |-> "reached_end_of_stream"]>>
<1>4. InboxOf(<< >>) = << >> /\ << >> \in Seq(EventType)
  <2>1. << >> \in Seq(EventType)
    OBVIOUS
  <2>. QED BY <2>1, TypesOfType
<1>5. /\ InboxOf(tags) = << >> /\ InboxOf(ended) = <<"reached_end_of_stream">>
      /\ \A uri : InboxOf(changed(uri)) = <<"stream_changed">>
  <2>1. InboxOf(tags) = << >>
    <3>1. InboxOf(tags) = IF "tags_changed" \in CoreEvents THEN <<"tags_changed">> ELSE << >>
      BY InboxOfOne
    <3>. QED BY <3>1 DEF CoreEvents
  <2>2. InboxOf(ended) = <<"reached_end_of_stream">>
    <3>1. InboxOf(ended) = IF "reached_end_of_stream" \in CoreEvents
                           THEN <<"reached_end_of_stream">> ELSE << >>
      BY InboxOfOne
    <3>. QED BY <3>1 DEF CoreEvents
  <2>3. ASSUME NEW uri PROVE InboxOf(changed(uri)) = <<"stream_changed">>
    <3>1. InboxOf(changed(uri)) = IF "stream_changed" \in CoreEvents
                                  THEN <<"stream_changed">> ELSE << >>
      BY InboxOfOne
    <3>. QED BY <3>1 DEF CoreEvents
  <2>. QED BY <2>1, <2>2, <2>3, Zenon
<1>6. tags \in Seq(EventType) /\ ended \in Seq(EventType)
      /\ \A uri \in Uris \union {None} : changed(uri) \in Seq(EventType)
  BY DEF EventType
<1>. HIDE DEF changed, tags, ended
<1>7. audio.pendingUri \in Uris \union {None}
  BY <1>0 DEF TypeOK, AudioType
<1>8. \E events \in Seq(EventType) : Tell(events) /\ InboxOf(events) = told
  <2>1. CASE OnStateChanged
    <3>1. m.type = "state_changed"
      BY <2>1 DEF OnStateChanged, ReceiveOnly, Receive
    <3>2. CASE IsTold(m, audio.target) /\ StateOf(m) = "NULL"
      <4>1. Tell(changed(None))
        BY <2>1, <3>2 DEF OnStateChanged, changed
      <4>2. told = <<"stream_changed">>
        BY <3>1, <3>2 DEF KindOf, CoreEvents
      <4>. QED BY <1>5, <1>6, <4>1, <4>2
    <3>3. CASE ~(IsTold(m, audio.target) /\ StateOf(m) = "NULL")
      <4>1. Tell(<< >>)
        BY <2>1, <3>3 DEF OnStateChanged
      <4>2. told = << >>
        BY <3>1, <3>3 DEF KindOf, CoreEvents
      <4>. QED BY <1>4, <4>1, <4>2
    <3>. QED BY <3>2, <3>3
  <2>2. CASE OnEndOfStream
    <3>1. m.type = "end_of_stream" /\ Tell(ended)
      BY <2>2 DEF OnEndOfStream, ReceiveOnly, Receive, ended
    <3>2. told = <<"reached_end_of_stream">>
      BY <3>1 DEF KindOf, CoreEvents
    <3>. QED BY <1>5, <1>6, <3>1, <3>2
  <2>3. CASE OnTag
    <3>1. m.type = "tag"
      BY <2>3 DEF OnTag, ReceiveOnly, Receive
    <3>2. told = << >>
      BY <3>1 DEF KindOf, CoreEvents
    <3>3. Tell(tags) \/ Tell(<< >>)
      <4>1. Tell(tags) \/ inbox' = inbox
        BY <2>3 DEF OnTag, tags
      <4>2. inbox \o << >> = inbox
        BY <1>0, ConcatEmptySeq DEF TypeOK
      <4>. QED BY <4>1, <4>2 DEF Tell
    <3>. QED BY <1>4, <1>5, <1>6, <3>2, <3>3
  <2>4. CASE OnStreamStart
    <3>. DEFINE c == changed(audio.pendingUri)
    <3>1. m.type = "stream_start"
      BY <2>4 DEF OnStreamStart, ReceiveOnly, Receive
    <3>2. told = <<"stream_changed">>
      BY <3>1 DEF KindOf, CoreEvents
    <3>3. Tell(c \o tags) \/ Tell(c \o << >>)
      BY <2>4 DEF OnStreamStart, tags, changed
    <3>4. c \in Seq(EventType) /\ InboxOf(c) = <<"stream_changed">>
      BY <1>5, <1>6, <1>7
    <3>. HIDE DEF c
    <3>5. /\ c \o tags \in Seq(EventType) /\ InboxOf(c \o tags) = InboxOf(c) \o << >>
          /\ c \o << >> \in Seq(EventType) /\ InboxOf(c \o << >>) = InboxOf(c) \o << >>
      BY <1>4, <1>5, <1>6, <3>4, InboxOfConcat, ConcatProperties
    <3>6. InboxOf(c) \o << >> = InboxOf(c)
      BY <3>4, TypesOfType, ConcatEmptySeq
    <3>. QED BY <3>2, <3>3, <3>4, <3>5, <3>6
  <2>. QED BY <2>1, <2>2, <2>3, <2>4
<1>. HIDE DEF told
<1>9. PICK events \in Seq(EventType) : Tell(events) /\ InboxOf(events) = told
  BY <1>8
<1>. QED BY <1>1, <1>3, <1>9, HeardIsRelayed DEF told

LEMMA SetUpIsSeen ==
    ASSUME PInv, PInv', mailbox # << >>, NEW state \in Rolls, SetUp(state, Tail(mailbox)),
           inbox' = inbox, KindOf(Head(mailbox), audio'.target) \notin CoreEvents,
           \/ TargetOf(Head(mailbox)) = {} /\ audio'.target = audio.target
           \/ TargetOf(Head(mailbox)) = {audio'.target}
    PROVE  /\ SeenGst' = [SeenGst EXCEPT !.goal = audio'.target,
                              !.state = IF SeenGst.state \in Rolls THEN audio'.target ELSE @]
           /\ SeenBus' = SeenBus /\ SeenInbox' = SeenInbox
<1>. DEFINE rest == Tail(mailbox)
            new == audio'.target
<1>1. rest \in Seq(Msgs) /\ OneCall(rest) /\ SeenBus = BusOf(rest, new)
  BY BusWithoutFirst
<1>2. SeenBus' = SeenBus
  <2>1. BusOf(mailbox', new) = BusOf(rest, new)
    BY <1>1, BusOfSetUp DEF PInv, IInv
  <2>. QED BY <1>1, <2>1, SeenNext
<1>3. SeenInbox' = SeenInbox
  BY SeenState, SeenNext
<1>4. /\ SeenGst = GstOf(playbin, audio.target) /\ SeenGst' = GstOf(playbin', new)
      /\ playbin \in PipelineType /\ (IsRolling => audio.target \in Rolls)
  BY SeenState, SeenNext
<1>5. playbin' = [playbin EXCEPT !.goal = state,
                      !.state = IF playbin.state \in Rolls THEN state ELSE @]
  BY DEF SetUp, IsRolling, Rolls
<1>6. SeenGst.state \in Rolls <=> playbin.state \in Rolls
  BY <1>4 DEF GstOf, IsRolling, Rolls
<1>7. ASSUME NEW seen, seen = [SeenGst EXCEPT !.goal = new,
                                  !.state = IF SeenGst.state \in Rolls THEN new ELSE @]
      PROVE  SeenGst' = seen
  BY <1>4, <1>5, <1>6, <1>7 DEF GstOf, PipelineType, Rolls
<1>. QED BY <1>2, <1>3, <1>7

LEMMA BufferingIsNotSeen ==
    ASSUME PInv, PInv', OnBuffering
    PROVE  UNCHANGED Seen!vars
<1>. DEFINE rest == Tail(mailbox)
            m == Head(mailbox)
<1>0. mailbox # << >> /\ m.type = "buffering" /\ inbox' = inbox
  BY DEF OnBuffering, Receive
<1>1. audio'.target = audio.target
  <2>1. audio' \in {audio, [audio EXCEPT !.buffering = TRUE], [audio EXCEPT !.buffering = FALSE]}
    BY DEF OnBuffering
  <2>. QED BY <2>1 DEF PInv, IInv, TypeOK, AudioType
<1>2. TargetOf(m) = {} /\ KindOf(m, audio.target) \notin CoreEvents
  BY <1>0 DEF TargetOf, KindOf, CoreEvents
<1>3. \/ mailbox' = rest /\ playbin' = playbin
      \/ \E state \in Rolls : SetUp(state, rest)
  BY DEF OnBuffering, Rolls
<1>4. CASE mailbox' = rest /\ playbin' = playbin
  <2>1. SeenBus' = SeenBus
    BY <1>0, <1>1, <1>2, <1>4, BusWithoutFirst, SeenNext
  <2>. QED BY <1>0, <1>1, <1>4, <2>1, SeenState, SeenNext DEF Seen!vars
<1>5. CASE \E state \in Rolls : SetUp(state, rest)
  <2>1. /\ SeenGst' = [SeenGst EXCEPT !.goal = audio.target,
                           !.state = IF SeenGst.state \in Rolls THEN audio.target ELSE @]
        /\ SeenBus' = SeenBus /\ SeenInbox' = SeenInbox
    BY <1>0, <1>1, <1>2, <1>5, SetUpIsSeen
  <2>2. SeenGst = GstOf(playbin, audio.target)
    BY SeenState
  <2>3. ASSUME NEW old, NEW new, old = GstOf(playbin, audio.target),
               new = [old EXCEPT !.goal = audio.target,
                          !.state = IF old.state \in Rolls THEN audio.target ELSE @]
        PROVE  new = old
    <3>. DEFINE state == IF playbin.state \in Rolls THEN audio.target ELSE playbin.state
                lit == [state |-> state, goal |-> audio.target, uri |-> playbin.uri,
                        source |-> playbin.source, queued |-> playbin.queued,
                        at |-> playbin.at, finishing |-> playbin.finishing,
                        ended |-> playbin.ended, segment |-> playbin.segment]
    <3>1. old = lit
      BY <2>3 DEF GstOf
    <3>2. (IF old.state \in Rolls THEN audio.target ELSE old.state) = state
      BY <3>1
    <3>. HIDE DEF state
    <3>3. new = [old EXCEPT !.goal = audio.target, !.state = state]
      BY <2>3, <3>2, Zenon
    <3>4. new = lit
      BY <3>1, <3>3
    <3>. QED BY <3>1, <3>4
  <2>4. SeenGst' = SeenGst
    BY <2>1, <2>2, <2>3
  <2>. QED BY <2>1, <2>4 DEF Seen!vars
<1>. QED BY <1>3, <1>4, <1>5

LEMMA SetDownIsSeen ==
    ASSUME TypeOK, NEW state \in {"NULL", "READY"}, NEW rest, SetDown(state, rest)
    PROVE  GstOf(playbin', state) = [InitPipeline EXCEPT !.uri = playbin.uri, !.state = state,
                                                         !.goal = state]
<1>1. ASSUME NEW down,
             down = [InitPipeline EXCEPT !.uri = playbin.uri, !.state = state, !.goal = state]
      PROVE  GstOf(down, state) = down
  BY <1>1 DEF GstOf, InitPipeline, Rolls
<1>. QED BY <1>1 DEF SetDown

LEMMA ErrorIsFailure ==
    ASSUME PInv, PInv', OnError
    PROVE  Seen!Moves
<1>. DEFINE rest == Tail(mailbox)
            m == Head(mailbox)
            failed == [InitPipeline EXCEPT !.uri = SeenGst.uri]
<1>0. mailbox # << >> /\ m.type = "error" /\ inbox' = inbox /\ SetDown("NULL", rest)
  BY DEF OnError, Receive
<1>1. audio'.target = "NULL"
  BY DEF OnError, Stopped, PInv, IInv, TypeOK, AudioType
<1>2. rest \in Seq(Msgs) /\ OneCall(rest) /\ SeenBus = BusOf(rest, "NULL")
  <2>1. TargetOf(m) = {} /\ KindOf(m, audio.target) \notin CoreEvents
    BY <1>0 DEF TargetOf, KindOf, CoreEvents
  <2>2. rest \in Seq(Msgs) /\ OneCall(rest) /\ SeenBus = BusOf(rest, audio.target)
    BY <1>0, <2>1, BusWithoutFirst
  <2>3. BusOf(rest, "NULL") = BusOf(rest, audio.target)
    BY <1>0, BusAfterError, SeenState DEF PInv, PipelineInv
  <2>. QED BY <2>2, <2>3
<1>3. SeenBus' = SeenBus \/ (IsRolling /\ SeenBus' = Append(SeenBus, "stream_changed"))
  <2>1. SeenBus' = SeenBus \o IF IsRolling /\ After(rest, "NULL", Len(rest)) # "READY"
                              THEN <<"stream_changed">> ELSE << >>
    BY <1>0, <1>1, <1>2, BusOfSetDown, SeenNext DEF PInv, IInv
  <2>2. "stream_changed" \in Kinds /\ SeenBus \in Seq(Kinds)
    BY SeenState DEF Kinds, CoreEvents
  <2>3. SeenBus \o << >> = SeenBus
        /\ SeenBus \o <<"stream_changed">> = Append(SeenBus, "stream_changed")
    BY <2>2, ConcatEmptySeq, AppendIsConcat
  <2>. QED BY <2>1, <2>3
<1>4. SeenInbox' = SeenInbox
  BY <1>0, SeenState, SeenNext
<1>5. SeenGst' = failed
  <2>1. SeenGst.uri = playbin.uri
    BY SeenState DEF GstOf
  <2>2. SeenGst' = [InitPipeline EXCEPT !.uri = playbin.uri, !.state = "NULL", !.goal = "NULL"]
    BY <1>0, <1>1, SeenNext, SetDownIsSeen DEF PInv, IInv
  <2>3. ASSUME NEW down, NEW stopped, stopped = [InitPipeline EXCEPT !.uri = playbin.uri],
               down = [InitPipeline EXCEPT !.uri = playbin.uri, !.state = "NULL", !.goal = "NULL"]
        PROVE  down = stopped
    <3>. DEFINE lit == [state |-> "NULL", goal |-> "NULL", uri |-> playbin.uri, source |-> None,
                        queued |-> None, at |-> 0, finishing |-> FALSE, ended |-> FALSE,
                        segment |-> FALSE]
    <3>1. down = lit
      BY <2>3 DEF InitPipeline
    <3>2. stopped = lit
      BY <2>3 DEF InitPipeline
    <3>. QED BY <3>1, <3>2
  <2>. QED BY <2>1, <2>2, <2>3
<1>6. IsRolling => Seen!Rolling(Seen!Here)
  BY SeenState DEF GstOf, IsRolling, Rolls, Seen!Rolling, Seen!Here
<1>. DEFINE world == [Seen!Here EXCEPT !.gst = failed]
            worldTold == [world EXCEPT !.bus = Append(@, "stream_changed")]
<1>7. world \in Seen!Failures(Seen!Here) /\ (IsRolling => worldTold \in Seen!Failures(Seen!Here))
  BY <1>6 DEF Seen!Failures, Seen!Here, Seen!InitPipeline, InitPipeline
<1>8. CASE SeenBus' = SeenBus
  <2>1. Seen!Become(world)
    BY <1>4, <1>5, <1>8 DEF Seen!Become, Seen!Here
  <2>. QED BY <1>7, <2>1 DEF Seen!Moves
<1>9. CASE IsRolling /\ SeenBus' = Append(SeenBus, "stream_changed")
  <2>1. Seen!Become(worldTold)
    BY <1>4, <1>5, <1>9 DEF Seen!Become, Seen!Here
  <2>. QED BY <1>7, <1>9, <2>1 DEF Seen!Moves
<1>. QED BY <1>3, <1>8, <1>9

LEMMA CallsAreCalled ==
    ASSUME PInv, PInv', Calls
    PROVE  Seen!Called \/ UNCHANGED Seen!vars
<1>. DEFINE rest == Tail(mailbox)
            m == Head(mailbox)
            new == audio'.target
<1>0. TypeOK /\ CallsWait /\ StreamsAreKnown
  BY DEF PInv, IInv
<1>1. /\ mailbox # << >> /\ m.type \in CallTypes /\ m \in CallType /\ inbox' = inbox
      /\ rest \in Seq(Msgs) /\ NoCall(rest) /\ audio \in AudioType
  <2>1. inbox' = inbox
    BY DEF Calls, PrepareChangeCall, StopPlaybackCall, StartPlaybackCall, PausePlaybackCall,
           SetUriCall, SetPositionCall, GetCurrentTagsCall
  <2>. QED BY <1>0, <2>1, IsCall DEF TypeOK
<1>2. \A target : KindOf(m, target) \notin CoreEvents
  BY <1>1, TargetOfCall DEF CoreEvents
<1>3. SeenInbox' = SeenInbox /\ SeenInbox \in Seq(Kinds) /\ SeenBus \in Seq(Kinds)
  BY <1>1, SeenState, SeenNext
<1>4. /\ SeenGst = GstOf(playbin, audio.target) /\ SeenGst' = GstOf(playbin', new)
      /\ playbin \in PipelineType /\ (IsRolling => audio.target \in Rolls)
  BY SeenState, SeenNext
<1>5. /\ SeenGst.state \in Rolls <=> IsRolling
      /\ SeenGst.uri = playbin.uri /\ SeenGst.source = playbin.source
  BY <1>4 DEF GstOf, IsRolling, Rolls
<1>6. CASE PrepareChangeCall \/ StopPlaybackCall
  <2>1. PICK state \in {"NULL", "READY"} :
           /\ SetDown(state, rest) /\ new = state /\ TargetOf(m) = {state}
    <3>1. CASE PrepareChangeCall
      BY <1>1, <3>1 DEF PrepareChangeCall, Receive, AudioType, TargetOf
    <3>2. CASE StopPlaybackCall
      BY <1>1, <3>2 DEF StopPlaybackCall, Stopped, Receive, AudioType, TargetOf
    <3>. QED BY <1>6, <3>1, <3>2
  <2>2. OneCall(rest) /\ SeenBus = BusOf(rest, state)
    BY <1>1, <1>2, <2>1, BusWithoutFirst
  <2>3. After(rest, state, Len(rest)) = state
    <3>1. \A j \in 1 .. Len(rest) : TargetOf(rest[j]) = {}
      BY <1>1, TargetOfCall DEF NoCall
    <3>. QED BY <3>1, AfterNone
  <2>4. SeenBus' = SeenBus \o IF state = "NULL" /\ SeenGst.state \in Rolls
                              THEN <<"stream_changed">> ELSE << >>
    <3>1. BusOf(mailbox', state) = BusOf(rest, state) \o
             IF state = "NULL" /\ IsRolling /\ After(rest, state, Len(rest)) # "READY"
             THEN <<"stream_changed">> ELSE << >>
      BY <1>0, <1>1, <2>1, <2>2, BusOfSetDown
    <3>2. (state = "NULL" /\ IsRolling /\ After(rest, state, Len(rest)) # "READY")
             <=> (state = "NULL" /\ SeenGst.state \in Rolls)
      BY <1>5, <2>3
    <3>3. SeenBus' = BusOf(mailbox', state)
      BY <2>1, SeenNext
    <3>. QED BY <2>2, <3>1, <3>2, <3>3
  <2>5. SeenGst' = [InitPipeline EXCEPT !.uri = SeenGst.uri, !.state = state, !.goal = state]
    BY <1>0, <1>4, <1>5, <2>1, SetDownIsSeen
  <2>. QED BY <1>3, <2>4, <2>5, FlushIsCalled
<1>7. CASE StartPlaybackCall \/ PausePlaybackCall
  <2>1. PICK state \in Rolls : SetUp(state, rest) /\ new = state /\ TargetOf(m) = {state}
    <3>1. CASE StartPlaybackCall
      BY <1>1, <3>1 DEF StartPlaybackCall, Receive, AudioType, TargetOf, Rolls
    <3>2. CASE PausePlaybackCall
      BY <1>1, <3>2 DEF PausePlaybackCall, Receive, AudioType, TargetOf, Rolls
    <3>. QED BY <1>7, <3>1, <3>2
  <2>2. /\ SeenGst' = [SeenGst EXCEPT !.goal = new,
                           !.state = IF SeenGst.state \in Rolls THEN new ELSE @]
        /\ SeenBus' = SeenBus
    BY <1>1, <1>2, <2>1, SetUpIsSeen
  <2>3. new \in Rolls
    BY <2>1
  <2>. QED BY <1>3, <2>2, <2>3, SetPipelineIsCalled
<1>8. CASE SetUriCall \/ SetPositionCall \/ GetCurrentTagsCall
  <2>1. new = audio.target /\ mailbox' = rest /\ TargetOf(m) = {}
    <3>1. mailbox' = rest /\ m.type \in {"set_uri", "set_position", "get_current_tags"}
      BY <1>8 DEF SetUriCall, SetPositionCall, GetCurrentTagsCall, Receive
    <3>2. new = audio.target
      BY <1>1, <1>8 DEF SetUriCall, SetPositionCall, GetCurrentTagsCall, AudioType
    <3>. QED BY <3>1, <3>2 DEF TargetOf
  <2>2. SeenBus' = SeenBus
    BY <1>1, <1>2, <2>1, BusWithoutFirst, SeenNext
  <2>3. CASE SetUriCall
    <3>1. m.uri \in Uris
      BY <1>1, <2>3 DEF SetUriCall, Receive, CallType
    <3>2. ASSUME NEW seen,
                 seen = [SeenGst EXCEPT !.uri = m.uri,
                             !.queued = IF SeenGst.state \in Rolls THEN m.uri ELSE None]
          PROVE  SeenGst' = seen
      <4>. DEFINE uri == m.uri
                  queued == IF IsRolling THEN uri ELSE None
      <4>1. playbin' = [playbin EXCEPT !.uri = uri, !.queued = queued]
        BY <2>3 DEF SetUriCall
      <4>2. seen = [SeenGst EXCEPT !.uri = uri, !.queued = queued]
        BY <1>5, <3>2
      <4>. HIDE DEF uri, queued
      <4>. QED BY <1>4, <2>1, <4>1, <4>2 DEF GstOf, PipelineType
    <3>3. SeenGst' = [SeenGst EXCEPT !.uri = m.uri,
                          !.queued = IF SeenGst.state \in Rolls THEN m.uri ELSE None]
      BY <3>2
    <3>. QED BY <1>3, <2>2, <3>1, <3>3, SetUriIsCalled
  <2>4. CASE SetPositionCall
    <3>1. m.pos \in TrackPositions
      BY <1>1, <2>4 DEF SetPositionCall, Receive, CallType
    <3>2. ASSUME NEW seen,
                 seen = [SeenGst EXCEPT !.at = m.pos, !.segment = TRUE,
                                        !.ended = FALSE, !.finishing = FALSE],
                 IsRolling /\ playbin.source # None
          PROVE  SeenGst' = seen
      <4>1. playbin' = [playbin EXCEPT !.at = m.pos, !.segment = TRUE,
                                       !.ended = FALSE, !.finishing = FALSE]
        BY <2>4, <3>2 DEF SetPositionCall
      <4>. QED BY <1>4, <1>5, <2>1, <3>2, <4>1 DEF GstOf, PipelineType
    <3>3. ~(IsRolling /\ playbin.source # None) => SeenGst' = SeenGst
      BY <1>4, <2>1, <2>4 DEF SetPositionCall
    <3>4. SeenGst' = IF SeenGst.state \in Rolls /\ SeenGst.source # None
                     THEN [SeenGst EXCEPT !.at = m.pos, !.segment = TRUE,
                                          !.ended = FALSE, !.finishing = FALSE]
                     ELSE SeenGst
      BY <1>5, <3>2, <3>3
    <3>. QED BY <1>3, <2>2, <3>1, <3>4, SetPositionIsCalled
  <2>5. CASE GetCurrentTagsCall
    <3>1. playbin' = playbin
      BY <2>5 DEF GetCurrentTagsCall
    <3>2. SeenGst' = SeenGst
      BY <1>4, <2>1, <3>1
    <3>. QED BY <1>3, <2>2, <3>2 DEF Seen!vars
  <2>. QED BY <1>8, <2>3, <2>4, <2>5
<1>. QED BY <1>6, <1>7, <1>8 DEF Calls

\* Core: only that it takes an event is seen.
LEMMA CoreTakes ==
    ASSUME PInv, PInv', CoreActs \/ ClientCalls
    PROVE  Seen!Taken \/ UNCHANGED Seen!vars
<1>1. playbin' = playbin /\ audio' = audio
  BY DEF CoreActs, CoreAsks, CoreHears, CoreAnswersCallback, CallbackReturns, ClientCalls
<1>2. SeenGst' = SeenGst
  BY <1>1, SeenState, SeenNext
<1>3. CASE CoreAsks
  <2>1. Head(core.plan) \in CallType /\ mailbox \in Seq(Msgs)
    <3>1. core.plan \in Seq(CallType) /\ core.plan # << >>
      BY <1>3 DEF CoreAsks, Idle, PInv, IInv, TypeOK
    <3>. QED BY <3>1, HeadTailProperties, SeenState
  <2>2. mailbox' = Append(mailbox, Head(core.plan)) /\ inbox' = inbox
    BY <1>3 DEF CoreAsks
  <2>3. BusOf(mailbox', audio.target) = BusOf(mailbox, audio.target)
    BY <2>1, <2>2, BusOfCall
  <2>4. SeenBus' = SeenBus /\ SeenInbox' = SeenInbox
    BY <1>1, <2>2, <2>3, SeenState, SeenNext
  <2>. QED BY <1>2, <2>4 DEF Seen!vars
<1>4. CASE CoreHears \/ CoreAnswersCallback
  <2>1. inbox # << >> /\ inbox' = Tail(inbox) /\ mailbox' = mailbox
    BY <1>4 DEF CoreHears, CoreAnswersCallback
  <2>2. SeenBus' = SeenBus
    BY <1>1, <2>1, SeenState, SeenNext
  <2>3. inbox \in Seq(EventType) /\ SeenInbox = InboxOf(inbox) /\ SeenInbox' = InboxOf(Tail(inbox))
    BY <2>1, SeenState, SeenNext
  <2>4. SeenInbox' = SeenInbox \/ (SeenInbox # << >> /\ SeenInbox' = Tail(SeenInbox))
    BY <2>1, <2>3, InboxOfTail
  <2>. QED BY <1>2, <2>2, <2>4 DEF Seen!vars, Seen!Taken
<1>5. CASE CallbackReturns \/ ClientCalls
  <2>1. mailbox' = mailbox /\ inbox' = inbox
    BY <1>5 DEF CallbackReturns, ClientCalls
  <2>. QED BY <1>1, <1>2, <2>1, SeenState, SeenNext DEF Seen!vars
<1>. QED BY <1>3, <1>4, <1>5 DEF CoreActs

\* What is posted by itself, and is no call, is told of after all that waits.
LEMMA BusOfPosted ==
    ASSUME PInv, PInv', audio' = audio, NEW posted \in Seq(MessageType),
           mailbox' = mailbox \o posted
    PROVE  \E last : SeenBus' = SeenBus \o BusOf(posted, last)
<1>1. posted \in Seq(Msgs) /\ NoCall(posted)
  BY MessagesAreNoCalls
<1>2. /\ SeenBus = BusOf(mailbox, audio.target) /\ mailbox \in Seq(Msgs) /\ OneCall(mailbox)
      /\ SeenBus' = BusOf(mailbox', audio.target)
  BY SeenState, SeenNext
<1>. DEFINE last == After(mailbox, audio.target, Len(mailbox))
<1>3. BusOf(mailbox \o posted, audio.target) = BusOf(mailbox, audio.target) \o BusOf(posted, last)
  BY <1>1, <1>2, BusOfConcat
<1>. HIDE DEF last
<1>. QED BY <1>2, <1>3

LEMMA BusOfOnePosted ==
    ASSUME PInv, PInv', audio' = audio, NEW m \in MessageType, mailbox' = mailbox \o <<m>>,
           m.type # "state_changed"
    PROVE  /\ m.type = "stream_start" => SeenBus' = Append(SeenBus, "stream_changed")
           /\ m.type = "end_of_stream" => SeenBus' = Append(SeenBus, "reached_end_of_stream")
           /\ m.type \in {"tag", "buffering", "error"} => SeenBus' = SeenBus
<1>. DEFINE posted == <<m>>
<1>1. posted \in Seq(MessageType) /\ m.type \notin CallTypes
  BY DEF MessageType, CallTypes
<1>2. \A last : BusOf(posted, last) = IF KindOf(m, last) \in CoreEvents
                                      THEN <<KindOf(m, last)>> ELSE << >>
  BY <1>1, BusOfOne
<1>3. PICK last : SeenBus' = SeenBus \o BusOf(posted, last)
  <2>1. mailbox' = mailbox \o posted
    OBVIOUS
  <2>. HIDE DEF posted
  <2>. QED BY <1>1, <2>1, BusOfPosted
<1>4. SeenBus \in Seq(Kinds) /\ "stream_changed" \in Kinds /\ "reached_end_of_stream" \in Kinds
  BY SeenState DEF Kinds, CoreEvents
<1>5. /\ SeenBus \o << >> = SeenBus
      /\ SeenBus \o <<"stream_changed">> = Append(SeenBus, "stream_changed")
      /\ SeenBus \o <<"reached_end_of_stream">> = Append(SeenBus, "reached_end_of_stream")
  BY <1>4, ConcatEmptySeq, AppendIsConcat
<1>6. /\ m.type = "stream_start" => KindOf(m, last) = "stream_changed"
      /\ m.type = "end_of_stream" => KindOf(m, last) = "reached_end_of_stream"
      /\ m.type \in {"tag", "buffering", "error"} => KindOf(m, last) = "none"
  BY DEF KindOf
<1>7. /\ "stream_changed" \in CoreEvents /\ "reached_end_of_stream" \in CoreEvents
      /\ "none" \notin CoreEvents
  BY DEF CoreEvents
<1>8. SeenBus' = SeenBus \o IF KindOf(m, last) \in CoreEvents THEN <<KindOf(m, last)>> ELSE << >>
  BY <1>2, <1>3
<1>. QED BY <1>5, <1>6, <1>7, <1>8

LEMMA PrerollIsSeen ==
    ASSUME PInv, PInv', Preroll
    PROVE  SeenBus' = Append(SeenBus, "stream_changed")
<1>. DEFINE first == StreamStart(playbin.uri)
            second == StateChanged(playbin.goal, None)
            posted == <<first, second>>
<1>1. /\ first \in MessageType /\ second \in MessageType
      /\ first.type = "stream_start" /\ second.type = "state_changed"
      /\ mailbox' = mailbox \o posted /\ playbin.goal \in Rolls
  BY PrerollPosts DEF PInv
<1>2. posted \in Seq(MessageType) /\ first.type \notin CallTypes /\ second.type \notin CallTypes
  BY <1>1 DEF CallTypes
<1>3. ASSUME NEW last PROVE BusOf(posted, last) = <<"stream_changed">>
  <2>1. BusOf(<<second>>, last) = << >>
    BY <1>1, BusOfStateChanged DEF Rolls
  <2>2. BusOf(<<first>>, last) = <<"stream_changed">>
    <3>1. KindOf(first, last) = "stream_changed" /\ "stream_changed" \in CoreEvents
      BY <1>1 DEF KindOf, CoreEvents
    <3>. HIDE DEF first
    <3>. QED BY <1>2, <3>1, BusOfOne
  <2>. HIDE DEF first, second
  <2>3. BusOf(<<first, second>>, last) = BusOf(<<first>>, last) \o BusOf(<<second>>, last)
    BY <1>2, BusOfTwo
  <2>. QED BY <2>1, <2>2, <2>3, ConcatOfShort DEF posted
<1>4. PICK last : SeenBus' = SeenBus \o BusOf(posted, last)
  <2>1. audio' = audio
    BY DEF Preroll
  <2>. HIDE DEF posted
  <2>. QED BY <1>1, <1>2, <2>1, BusOfPosted
<1>5. SeenBus \o <<"stream_changed">> = Append(SeenBus, "stream_changed")
  <2>1. SeenBus \in Seq(Kinds) /\ "stream_changed" \in Kinds
    BY SeenState DEF Kinds, CoreEvents
  <2>. QED BY <2>1, AppendIsConcat
<1>. HIDE DEF posted
<1>. QED BY <1>3, <1>4, <1>5

LEMMA GStreamerMoves ==
    ASSUME PInv, PInv', GStreamer
    PROVE  Seen!Moves \/ UNCHANGED Seen!vars
<1>0. audio' = audio /\ IInv
  BY DEF PInv, GStreamer, Preroll, SegmentPasses, SourceFinishes, NextSourceStarts,
         SourceEnds, FindTag, BufferRunsLow, BufferFills, Buffering, ElementFails
<1>1. /\ SeenGst = GstOf(playbin, audio.target) /\ SeenGst' = GstOf(playbin', audio.target)
      /\ playbin \in PipelineType /\ audio \in AudioType
      /\ IsRolling => playbin.state = playbin.goal /\ audio.target \in Rolls
      /\ playbin.goal = "PLAYING" => audio.target = "PLAYING"
      /\ audio.target \in Rolls <=> playbin.goal \in Rolls
  BY <1>0, SeenState, SeenNext
<1>2. inbox' = inbox => SeenInbox' = SeenInbox
  BY SeenState, SeenNext
<1>. DEFINE here == Seen!Here
<1>3. /\ here.gst = SeenGst /\ here.bus = SeenBus /\ here.inbox = SeenInbox
  BY DEF Seen!Here
<1>4. Plays => Seen!Sounds(here)
  <2>. SUFFICES ASSUME Plays PROVE Seen!Sounds(here)
    OBVIOUS
  <2>1. playbin.state = "PLAYING" /\ playbin.source # None /\ ~playbin.ended
    BY DEF Plays
  <2>2. IsRolling /\ audio.target = "PLAYING"
    BY <1>1, <2>1 DEF IsRolling
  <2>3. SeenGst.state = "PLAYING" /\ SeenGst.source # None /\ ~SeenGst.ended
    BY <1>1, <2>1, <2>2 DEF GstOf, IsRolling, Rolls
  <2>. QED BY <1>3, <2>3 DEF Seen!Sounds
<1>5. CASE Preroll
  <2>1. Seen!IsStarting(here)
    <3>1. playbin.goal \in Rolls /\ ~IsRolling
      BY <1>5 DEF Preroll, Starting, Rolls
    <3>2. SeenGst.goal \in Rolls /\ SeenGst.state \notin Rolls
      BY <1>1, <3>1 DEF GstOf, IsRolling, Rolls
    <3>. QED BY <1>3, <3>2 DEF Seen!IsStarting, Rolls
  <2>2. ASSUME NEW gst, gst = [SeenGst EXCEPT !.state = SeenGst.goal, !.source = SeenGst.uri,
                                              !.at = 0, !.segment = TRUE]
        PROVE  SeenGst' = gst
    <3>1. playbin.goal \in Rolls
      BY <1>5 DEF Preroll, Starting, Rolls
    <3>2. playbin' = [playbin EXCEPT !.state = playbin.goal, !.source = playbin.uri,
                                     !.at = 0, !.segment = TRUE]
      BY <1>5 DEF Preroll
    <3>. QED BY <1>1, <2>2, <3>1, <3>2 DEF GstOf, PipelineType
  <2>3. SeenBus' = Append(SeenBus, "stream_changed") /\ SeenInbox' = SeenInbox
    BY <1>2, <1>5, PrerollIsSeen DEF Preroll
  <2>4. Seen!Become(Seen!StreamStarted(here))
    BY <2>2, <2>3 DEF Seen!Become, Seen!StreamStarted, Seen!Here
  <2>. QED BY <2>1, <2>4 DEF Seen!Moves
<1>6. CASE SegmentPasses
  <2>1. SeenGst.segment
    BY <1>1, <1>6 DEF SegmentPasses, GstOf
  <2>2. ASSUME NEW gst, gst = [SeenGst EXCEPT !.segment = FALSE] PROVE SeenGst' = gst
    <3>1. playbin' = [playbin EXCEPT !.segment = FALSE]
      BY <1>6 DEF SegmentPasses
    <3>. QED BY <1>1, <2>2, <3>1 DEF GstOf, PipelineType
  <2>3. SeenBus' = SeenBus
    BY <1>0, <1>6, SeenState, SeenNext DEF SegmentPasses
  <2>4. SeenInbox' = Append(SeenInbox, "position_changed")
    <3>. DEFINE told == <<[type |-> "position_changed"]>>
    <3>1. told \in Seq(EventType) /\ inbox' = inbox \o told
      BY <1>6 DEF EventType, SegmentPasses, Tell
    <3>2. InboxOf(told) = <<"position_changed">>
      <4>1. InboxOf(told) = IF "position_changed" \in CoreEvents
                            THEN <<"position_changed">> ELSE << >>
        BY InboxOfOne
      <4>. QED BY <4>1 DEF CoreEvents
    <3>. HIDE DEF told
    <3>3. SeenInbox' = SeenInbox \o <<"position_changed">>
      BY <3>1, <3>2, InboxOfConcat, SeenState, SeenNext
    <3>4. SeenInbox \in Seq(Kinds) /\ "position_changed" \in Kinds
      BY SeenState DEF Kinds, CoreEvents
    <3>. QED BY <3>3, <3>4, AppendIsConcat
  <2>5. Seen!Become(Seen!SegmentPassed(here))
    BY <2>2, <2>3, <2>4 DEF Seen!Become, Seen!SegmentPassed, Seen!Here
  <2>. QED BY <2>1, <2>5 DEF Seen!Moves
<1>7. CASE SourceFinishes
  <2>1. Seen!Sounds(here) /\ ~SeenGst.finishing
    BY <1>1, <1>4, <1>7 DEF SourceFinishes, GstOf
  <2>2. ASSUME NEW gst, gst = [SeenGst EXCEPT !.finishing = TRUE] PROVE SeenGst' = gst
    <3>1. playbin' = [playbin EXCEPT !.finishing = TRUE]
      BY <1>7 DEF SourceFinishes
    <3>. QED BY <1>1, <2>2, <3>1 DEF GstOf, PipelineType
  <2>3. SeenBus' = SeenBus
    BY <1>0, <1>7, SeenState, SeenNext DEF SourceFinishes
  <2>4. SeenInbox' = SeenInbox
    <3>. DEFINE told == <<[type |-> "about_to_finish"]>>
    <3>1. told \in Seq(EventType) /\ inbox' = inbox \o told
      BY <1>7 DEF EventType, SourceFinishes, Tell
    <3>2. InboxOf(told) = << >>
      <4>1. InboxOf(told) = IF "about_to_finish" \in CoreEvents
                            THEN <<"about_to_finish">> ELSE << >>
        BY InboxOfOne
      <4>. QED BY <4>1 DEF CoreEvents
    <3>. HIDE DEF told
    <3>3. SeenInbox' = SeenInbox \o << >>
      BY <3>1, <3>2, InboxOfConcat, SeenState, SeenNext
    <3>. QED BY <3>3, SeenState, ConcatEmptySeq
  <2>5. Seen!Become([here EXCEPT !.gst.finishing = TRUE])
    BY <2>2, <2>3, <2>4 DEF Seen!Become, Seen!Here
  <2>. QED BY <2>1, <2>5 DEF Seen!Moves, Seen!Here
<1>8. CASE NextSourceStarts
  <2>1. PICK m \in MessageType : mailbox' = mailbox \o <<m>> /\ m.type = "stream_start"
    BY <1>0, <1>8, OnePosted
  <2>2. SeenBus' = Append(SeenBus, "stream_changed") /\ SeenInbox' = SeenInbox
    BY <1>0, <1>2, <1>8, <2>1, BusOfOnePosted DEF NextSourceStarts
  <2>3. Seen!IsAtEnd(here) /\ SeenGst.queued # None
    BY <1>1, <1>3, <1>4, <1>8 DEF NextSourceStarts, AtEnd, GstOf, Seen!IsAtEnd
  <2>4. ASSUME NEW gst, gst = [SeenGst EXCEPT !.source = SeenGst.queued, !.queued = None,
                                              !.at = 0, !.finishing = FALSE, !.segment = TRUE]
        PROVE  SeenGst' = gst
    <3>1. playbin' = [playbin EXCEPT !.source = playbin.queued, !.queued = None,
                                     !.at = 0, !.finishing = FALSE, !.segment = TRUE]
      BY <1>8 DEF NextSourceStarts
    <3>. QED BY <1>1, <2>4, <3>1 DEF GstOf, PipelineType
  <2>5. Seen!Become(Seen!NextSourceStarted(here))
    BY <2>2, <2>4 DEF Seen!Become, Seen!NextSourceStarted, Seen!Here
  <2>. QED BY <2>3, <2>5 DEF Seen!Moves
<1>9. CASE SourceEnds
  <2>1. PICK m \in MessageType : mailbox' = mailbox \o <<m>> /\ m.type = "end_of_stream"
    BY <1>0, <1>9, OnePosted
  <2>2. SeenBus' = Append(SeenBus, "reached_end_of_stream") /\ SeenInbox' = SeenInbox
    BY <1>0, <1>2, <1>9, <2>1, BusOfOnePosted DEF SourceEnds
  <2>3. Seen!IsAtEnd(here) /\ SeenGst.queued = None
    BY <1>1, <1>3, <1>4, <1>9 DEF SourceEnds, AtEnd, GstOf, Seen!IsAtEnd
  <2>4. ASSUME NEW gst, gst = [SeenGst EXCEPT !.ended = TRUE] PROVE SeenGst' = gst
    <3>1. playbin' = [playbin EXCEPT !.ended = TRUE]
      BY <1>9 DEF SourceEnds
    <3>. QED BY <1>1, <2>4, <3>1 DEF GstOf, PipelineType
  <2>5. Seen!Become(Seen!SourceEnded(here))
    BY <2>2, <2>4 DEF Seen!Become, Seen!SourceEnded, Seen!Here
  <2>. QED BY <2>3, <2>5 DEF Seen!Moves
<1>10. CASE FindTag \/ BufferRunsLow \/ BufferFills \/ ElementFails
  <2>1. PICK m \in MessageType : mailbox' = mailbox \o <<m>>
                                 /\ m.type \in {"tag", "buffering", "error"}
    BY <1>0, <1>10, OnePosted
  <2>2. SeenBus' = SeenBus
    BY <1>0, <2>1, BusOfOnePosted
  <2>3. playbin' = playbin /\ inbox' = inbox
    BY <1>10 DEF FindTag, BufferRunsLow, BufferFills, Buffering, ElementFails
  <2>. QED BY <1>1, <1>2, <2>2, <2>3 DEF Seen!vars
<1>. QED BY <1>5, <1>6, <1>7, <1>8, <1>9, <1>10 DEF GStreamer

LEMMA InitPInv == Init => PInv /\ Seen!Init
<1>. SUFFICES ASSUME Init PROVE PInv /\ Seen!Init
  OBVIOUS
<1>1. IInv /\ mailbox = << >> /\ inbox = << >> /\ playbin = InitPipeline /\ audio = InitAudio
  BY InitIInv DEF Init
<1>2. BufferInv
  BY <1>1 DEF InitPipeline, InitAudio, BufferInv, HoldsBack, ErrorIsLast, NoneIs, Rolls
<1>3. PipelineInv
  <2>1. ~IsRolling
    BY <1>1 DEF InitPipeline, IsRolling
  <2>2. TooLate(<< >>, audio.target)
    BY DEF TooLate
  <2>. QED BY <1>1, <2>1, <2>2 DEF PipelineInv
<1>4. PInv
  BY <1>1, <1>2, <1>3 DEF PInv
<1>5. SeenBus = << >>
  BY <1>1, <1>4, SeenState, KindsType
<1>6. SeenInbox = << >>
  BY <1>1, <1>4, SeenState, TypesOfType
<1>7. SeenGst = Seen!InitPipeline
  <2>1. SeenGst = GstOf(InitPipeline, "NULL")
    BY <1>1, <1>4, SeenState DEF InitAudio
  <2>. QED BY <2>1 DEF GstOf, InitPipeline, Seen!InitPipeline, Rolls
<1>. QED BY <1>4, <1>5, <1>6, <1>7 DEF Seen!Init

LEMMA NextPInv ==
    ASSUME PInv, [Next]_vars
    PROVE  PInv'
<1>1. IInv'
  BY NextIInv DEF PInv
<1>2. CASE Next
  <2>1. BufferInv'
    BY <1>2, HandlersHold, CallsHold, CoreHolds, GStreamerHolds
       DEF PInv, Next, Actor, Calls, GStreamer
  <2>2. PipelineInv'
    BY <1>2, HandlersKeepPipeline, CallsKeepPipeline, CoreKeepsPipeline, GStreamerKeepsPipeline
       DEF PInv, Next, Actor, Calls, GStreamer
  <2>. QED BY <1>1, <2>1, <2>2 DEF PInv
<1>3. CASE UNCHANGED vars
  BY <1>1, <1>3 DEF vars, PInv, BufferInv, NoStream, PipelineInv, IsRolling
<1>. QED BY <1>2, <1>3

LEMMA NextIsSeen ==
    ASSUME PInv, PInv', [Next]_vars
    PROVE  [Seen!Next]_Seen!vars
<1>1. CASE OnStateChanged \/ OnEndOfStream \/ OnTag \/ OnStreamStart
  BY <1>1, HandlersRelay DEF Seen!Next
<1>2. CASE OnBuffering
  BY <1>2, BufferingIsNotSeen
<1>3. CASE OnError
  BY <1>3, ErrorIsFailure DEF Seen!Next
<1>4. CASE Calls
  BY <1>4, CallsAreCalled DEF Seen!Next
<1>5. CASE CoreActs \/ ClientCalls
  BY <1>5, CoreTakes DEF Seen!Next
<1>6. CASE GStreamer
  BY <1>6, GStreamerMoves DEF Seen!Next
<1>7. CASE UNCHANGED vars
  BY <1>7, SeenState, SeenNext DEF vars, Seen!vars
<1>. QED BY <1>1, <1>2, <1>3, <1>4, <1>5, <1>6, <1>7 DEF Next, Actor, Calls, GStreamer

\* The actor and GStreamer, with all their messages, are the pipeline and the bus that
\* core's model runs on: every step is one of Pipeline's, or is not seen by core.
THEOREM ActorImplementsPipeline == Spec => ImplementsPipeline
<1>1. Init => PInv /\ Seen!Init
  BY InitPInv
<1>2. PInv /\ [Next]_vars => PInv'
  BY NextPInv
<1>3. PInv /\ PInv' /\ [Next]_vars => [Seen!Next]_Seen!vars
  BY NextIsSeen
<1>. QED BY <1>1, <1>2, <1>3, PTL DEF Spec, ImplementsPipeline, Seen!Spec
=============================================================================
