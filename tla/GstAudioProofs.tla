--------------------------- MODULE GstAudioProofs ---------------------------
(***************************************************************************)
(* Theorems of GstAudio for every set of streams and of positions, every   *)
(* kind of report and every bound of the model: the inductive invariant    *)
(* that types the state and ties what the pipeline is set to to what core  *)
(* asked for; then what messages may still wait in the mailbox, and what   *)
(* comes of them when their turn comes: which stream core is told of, what *)
(* a buffer holds up, whose tags are shown.  GstAudioPipelineProofs builds *)
(* on it.                                                                  *)
(***************************************************************************)
EXTENDS GstAudio, SequenceTheorems, TLAPS

Msgs == MessageType \union CallType

NoneIs(messages, type) == \A i \in 1 .. Len(messages) : messages[i].type # type

\* The calls that make the pipeline start.
Starts == {"start_playback", "pause_playback"}

-----------------------------------------------------------------------------
(* Types. *)

LEMMA Received ==
    ASSUME TypeOK, mailbox # << >>
    PROVE  Head(mailbox) \in Msgs /\ Tail(mailbox) \in Seq(Msgs)
BY HeadTailProperties DEF TypeOK, Msgs

LEMMA StaledType ==
    ASSUME NEW messages \in Seq(Msgs)
    PROVE  /\ Staled(messages) \in Seq(Msgs)
           /\ Len(Staled(messages)) = Len(messages)
           /\ \A i \in 1 .. Len(messages) : Staled(messages)[i].type = messages[i].type
<1>1. \A m \in Msgs : m.type = "buffering" =>
         /\ [m EXCEPT !.stale = TRUE] \in Msgs
         /\ [m EXCEPT !.stale = TRUE].type = m.type
  BY DEF Msgs, MessageType, CallType
<1>2. \A i \in 1 .. Len(messages) : Staled(messages)[i] \in Msgs
  BY <1>1 DEF Staled
<1>. QED BY <1>1, <1>2 DEF Staled

LEMMA PostedType ==
    ASSUME TypeOK, NEW state \in {"NULL", "READY"}
    PROVE  PostedOnTheWayTo(state) \in Seq(MessageType)
<1>1. /\ StateChanged("PAUSED", state) \in MessageType
      /\ StateChanged("READY", IF state = "NULL" THEN "NULL" ELSE None) \in MessageType
  BY DEF StateChanged, MessageType, GstStates
<1>. QED BY <1>1 DEF PostedOnTheWayTo

LEMMA SetDownType ==
    ASSUME TypeOK, NEW state \in {"NULL", "READY"}, NEW rest \in Seq(Msgs), SetDown(state, rest)
    PROVE  /\ playbin' \in PipelineType /\ low' \in BOOLEAN /\ broken' \in BOOLEAN
           /\ mailbox' \in Seq(Msgs)
           /\ playbin'.goal = state
<1>1. playbin' \in PipelineType /\ playbin'.goal = state
  <2>1. /\ playbin.uri \in TlidOrNone /\ None \in TlidOrNone /\ 0 \in TrackPositions
    BY DEF TypeOK, PipelineType, TlidOrNone, TrackPositions
  <2>2. playbin' = [state |-> state, goal |-> state, uri |-> playbin.uri, source |-> None,
                    queued |-> None, at |-> 0, finishing |-> FALSE, ended |-> FALSE,
                    segment |-> FALSE]
    BY DEF SetDown, InitPipeline
  <2>. QED BY <2>1, <2>2 DEF PipelineType
<1>2. mailbox' \in Seq(Msgs)
  <2>1. PostedOnTheWayTo(state) \in Seq(Msgs)
    BY PostedType, SeqMonotonic DEF Msgs
  <2>. QED BY <2>1, StaledType, ConcatProperties DEF SetDown
<1>. QED BY <1>1, <1>2 DEF SetDown

LEMMA SetUpType ==
    ASSUME TypeOK, NEW state \in {"PAUSED", "PLAYING"}, NEW rest \in Seq(Msgs), SetUp(state, rest)
    PROVE  /\ playbin' \in PipelineType /\ low' \in BOOLEAN /\ broken' \in BOOLEAN
           /\ mailbox' \in Seq(Msgs)
           /\ playbin'.goal = state
<1>1. playbin' \in PipelineType /\ playbin'.goal = state
  BY DEF SetUp, TypeOK, PipelineType
<1>2. StateChanged(state, None) \in Msgs
  BY DEF StateChanged, Msgs, MessageType, GstStates
<1>3. mailbox' \in Seq(Msgs)
  BY <1>2 DEF SetUp
<1>. QED BY <1>1, <1>3 DEF SetUp, TypeOK

LEMMA TellType ==
    ASSUME TypeOK, NEW events \in Seq(EventType), Tell(events)
    PROVE  inbox' \in Seq(EventType)
BY ConcatProperties DEF Tell, TypeOK

LEMMA AnswerType ==
    ASSUME TypeOK, core.plan # << >>, Answer
    PROVE  core' \in [plan : Seq(CallType), waits : BOOLEAN, title : Uris \union {None}]
<1>1. Tail(core.plan) \in Seq(CallType)
  BY HeadTailProperties DEF TypeOK
<1>. QED BY <1>1 DEF Answer, TypeOK

\* TypeOK, variable by variable.
StateType ==
    /\ playbin \in PipelineType /\ low \in BOOLEAN /\ broken \in BOOLEAN
    /\ callback \in {"none", "asked", "handled"}
    /\ audio \in AudioType
    /\ mailbox \in Seq(Msgs)
    /\ core \in [plan : Seq(CallType), waits : BOOLEAN, title : Uris \union {None}]
    /\ inbox \in Seq(EventType)
    /\ reports \in Reports
    /\ mixed \in BOOLEAN

LEMMA SameType == TypeOK <=> StateType
BY DEF TypeOK, StateType, Msgs

LEMMA SameTypeNext == TypeOK' <=> StateType'
BY DEF TypeOK, StateType, Msgs

\* Handlers of bus messages.
LEMMA HandlerTypes ==
    ASSUME TypeOK,
           \/ OnStateChanged \/ OnBuffering \/ OnEndOfStream
           \/ OnError \/ OnTag \/ OnStreamStart
    PROVE  TypeOK'
<1>. DEFINE m == Head(mailbox)
<1>. SUFFICES StateType'
  BY SameTypeNext
<1>. USE SameType
<1>0. mailbox # << >> /\ m \in Msgs /\ Tail(mailbox) \in Seq(Msgs)
  BY Received DEF OnStateChanged, OnBuffering, OnEndOfStream, OnError, OnTag, OnStreamStart,
                  ReceiveOnly, Receive
<1>1. CASE OnStateChanged
  <2>1. m.new \in GstStates /\ StateOf(m) \in GstStates
    BY <1>0, <1>1 DEF OnStateChanged, ReceiveOnly, Receive, Msgs, MessageType, CallType,
                      StateOf, GstStates
  <2>2. audio' \in AudioType
    BY <1>1, <2>1 DEF OnStateChanged, IsState, TypeOK, AudioType
  <2>3. inbox' \in Seq(EventType)
    <3>1. [type |-> "stream_changed", uri |-> None] \in EventType
      BY DEF EventType
    <3>2. Tell(<<[type |-> "stream_changed", uri |-> None]>>) \/ Tell(<< >>)
      BY <1>1 DEF OnStateChanged
    <3>3. /\ <<[type |-> "stream_changed", uri |-> None]>> \in Seq(EventType)
          /\ << >> \in Seq(EventType)
      BY <3>1
    <3>. QED BY <3>2, <3>3, TellType
  <2>. QED BY <1>0, <1>1, <2>2, <2>3 DEF OnStateChanged, ReceiveOnly, StateType
<1>2. CASE OnBuffering
  <2>1. audio' \in AudioType
    <3>1. audio' \in {audio, [audio EXCEPT !.buffering = TRUE], [audio EXCEPT !.buffering = FALSE]}
      BY <1>2 DEF OnBuffering
    <3>. QED BY <3>1 DEF TypeOK, AudioType
  <2>2. /\ playbin' \in PipelineType /\ low' \in BOOLEAN /\ broken' \in BOOLEAN
        /\ mailbox' \in Seq(Msgs)
    <3>1. \/ SetUp("PAUSED", Tail(mailbox)) \/ SetUp("PLAYING", Tail(mailbox))
          \/ mailbox' = Tail(mailbox) /\ UNCHANGED <<playbin, low, broken>>
      BY <1>2 DEF OnBuffering
    <3>. QED BY <1>0, <3>1, SetUpType DEF TypeOK
  <2>. QED BY <1>2, <2>1, <2>2 DEF OnBuffering, StateType
<1>3. CASE OnEndOfStream
  <2>1. inbox' \in Seq(EventType)
    <3>1. [type |-> "reached_end_of_stream"] \in EventType
      BY DEF EventType
    <3>2. <<[type |-> "reached_end_of_stream"]>> \in Seq(EventType)
      BY <3>1
    <3>3. Tell(<<[type |-> "reached_end_of_stream"]>>)
      BY <1>3 DEF OnEndOfStream
    <3>. QED BY <3>2, <3>3, TellType
  <2>2. audio' \in AudioType
    BY <1>3 DEF OnEndOfStream, TypeOK, AudioType
  <2>. QED BY <1>0, <1>3, <2>1, <2>2 DEF OnEndOfStream, ReceiveOnly, StateType
<1>4. CASE OnError
  <2>1. audio' \in AudioType
    BY <1>4 DEF OnError, Stopped, TypeOK, AudioType, GstStates
  <2>2. /\ playbin' \in PipelineType /\ low' \in BOOLEAN /\ broken' \in BOOLEAN
        /\ mailbox' \in Seq(Msgs)
    BY <1>0, <1>4, SetDownType DEF OnError
  <2>. QED BY <1>4, <2>1, <2>2 DEF OnError, StateType
<1>5. CASE OnTag
  <2>1. m.of \in Uris
    BY <1>0, <1>5 DEF OnTag, ReceiveOnly, Receive, Msgs, MessageType, CallType
  <2>2. audio' \in AudioType
    <3>1. audio' \in {audio, [audio EXCEPT !.pendingTags = {m.of}], [audio EXCEPT !.tags = {m.of}]}
      BY <1>5 DEF OnTag
    <3>2. {m.of} \in SUBSET Uris
      BY <2>1
    <3>. QED BY <3>1, <3>2 DEF TypeOK, AudioType
  <2>3. inbox' \in Seq(EventType)
    <3>1. [type |-> "tags_changed"] \in EventType
      BY DEF EventType
    <3>2. inbox' = inbox \/ Tell(<<[type |-> "tags_changed"]>>)
      BY <1>5 DEF OnTag
    <3>3. <<[type |-> "tags_changed"]>> \in Seq(EventType)
      BY <3>1
    <3>. QED BY <3>2, <3>3, TellType DEF TypeOK
  <2>. QED BY <1>0, <1>5, <2>2, <2>3 DEF OnTag, ReceiveOnly, StateType
<1>6. CASE OnStreamStart
  <2>1. audio' \in AudioType
    <3>. DEFINE tags == IF audio.pendingTags = None THEN {} ELSE audio.pendingTags
    <3>1. tags \in SUBSET Uris
      BY DEF TypeOK, AudioType
    <3>2. audio' = [audio EXCEPT !.pendingTags = None, !.tags = tags]
      BY <1>6 DEF OnStreamStart
    <3>. QED BY <3>1, <3>2 DEF TypeOK, AudioType
  <2>2. inbox' \in Seq(EventType)
    <3>1. /\ [type |-> "tags_changed"] \in EventType
          /\ [type |-> "stream_changed", uri |-> audio.pendingUri] \in EventType
      BY DEF EventType, TypeOK, AudioType
    <3>2. PICK events \in Seq(EventType) : Tell(events)
      <4>. DEFINE first == <<[type |-> "stream_changed", uri |-> audio.pendingUri]>>
                  then(tags) == IF tags # {} THEN <<[type |-> "tags_changed"]>> ELSE << >>
      <4>1. first \in Seq(EventType) /\ \A tags : then(tags) \in Seq(EventType)
        BY <3>1
      <4>2. \A tags : first \o then(tags) \in Seq(EventType)
        BY <4>1, ConcatProperties
      <4>. QED BY <1>6, <4>2 DEF OnStreamStart
    <3>. QED BY <3>2, TellType
  <2>. QED BY <1>0, <1>6, <2>1, <2>2 DEF OnStreamStart, ReceiveOnly, StateType
<1>. QED BY <1>1, <1>2, <1>3, <1>4, <1>5, <1>6

-----------------------------------------------------------------------------
(* Core has one call in the mailbox at most, and it waits for that one.  So *)
(* what a call finds of core's plan is there.                               *)

CallTypes ==
    {"prepare_change", "stop_playback", "start_playback", "pause_playback",
     "get_current_tags", "set_uri", "set_position"}

NoCall(messages) == \A i \in 1 .. Len(messages) : messages[i].type \notin CallTypes

OneCall(messages) ==
    \A i, j \in 1 .. Len(messages) :
        messages[i].type \in CallTypes /\ messages[j].type \in CallTypes => i = j

CallsAre(messages, type) ==
    \A i \in 1 .. Len(messages) : messages[i].type \in CallTypes => messages[i].type = type

CallsWait ==
    /\ core.waits => ~Idle
    /\ ~core.waits => NoCall(mailbox)
    /\ OneCall(mailbox)
    /\ CallsAre(mailbox, Head(core.plan).type)

LEMMA MessagesAreNoCalls ==
    ASSUME NEW messages \in Seq(MessageType)
    PROVE  messages \in Seq(Msgs) /\ NoCall(messages)
<1>1. \A m \in MessageType : m.type \notin CallTypes
  BY DEF MessageType, CallTypes
<1>. QED BY <1>1, SeqMonotonic DEF NoCall, Msgs

LEMMA CallsOfTail ==
    ASSUME NEW messages \in Seq(Msgs), messages # << >>, OneCall(messages)
    PROVE  /\ OneCall(Tail(messages))
           /\ NoCall(messages) \/ Head(messages).type \in CallTypes => NoCall(Tail(messages))
           /\ \A type : CallsAre(messages, type) => CallsAre(Tail(messages), type)
<1>1. /\ Len(messages) \in Nat \ {0}
      /\ Len(Tail(messages)) = Len(messages) - 1
      /\ Head(messages) = messages[1]
      /\ \A i \in 1 .. Len(Tail(messages)) : Tail(messages)[i] = messages[i + 1]
  BY HeadTailProperties, EmptySeq
<1>. QED BY <1>1 DEF OneCall, NoCall, CallsAre

LEMMA CallsOfStaled ==
    ASSUME NEW messages \in Seq(Msgs)
    PROVE  /\ OneCall(messages) => OneCall(Staled(messages))
           /\ NoCall(messages) => NoCall(Staled(messages))
           /\ \A type : CallsAre(messages, type) => CallsAre(Staled(messages), type)
BY StaledType DEF OneCall, NoCall, CallsAre

LEMMA CallsOfConcat ==
    ASSUME NEW messages \in Seq(Msgs), NEW more \in Seq(Msgs), NoCall(more)
    PROVE  /\ OneCall(messages) => OneCall(messages \o more)
           /\ NoCall(messages) => NoCall(messages \o more)
           /\ \A type : CallsAre(messages, type) => CallsAre(messages \o more, type)
<1>1. /\ Len(messages \o more) = Len(messages) + Len(more)
      /\ \A i \in 1 .. Len(messages) + Len(more) :
            (messages \o more)[i] = IF i <= Len(messages) THEN messages[i]
                                    ELSE more[i - Len(messages)]
  BY ConcatProperties
<1>2. \A i \in 1 .. Len(messages) + Len(more) : (messages \o more)[i].type \in CallTypes =>
         i \in 1 .. Len(messages) /\ messages[i].type \in CallTypes
  BY <1>1 DEF NoCall
<1>. QED BY <1>1, <1>2 DEF OneCall, NoCall, CallsAre

LEMMA CallsOfAppend ==
    ASSUME NEW messages \in Seq(Msgs), NEW m \in Msgs
    PROVE  /\ NoCall(messages) => OneCall(Append(messages, m))
           /\ NoCall(messages) /\ m \in MessageType => NoCall(Append(messages, m))
           /\ OneCall(messages) /\ m \in MessageType => OneCall(Append(messages, m))
           /\ \A type : CallsAre(messages, type) /\ (m \in MessageType \/ m.type = type) =>
                         CallsAre(Append(messages, m), type)
<1>1. /\ Len(Append(messages, m)) = Len(messages) + 1
      /\ \A i \in 1 .. Len(messages) : Append(messages, m)[i] = messages[i]
      /\ Append(messages, m)[Len(messages) + 1] = m
  BY AppendProperties
<1>2. m \in MessageType => m.type \notin CallTypes
  BY DEF MessageType, CallTypes
<1>. QED BY <1>1, <1>2 DEF OneCall, NoCall, CallsAre

\* What set_state leaves in the mailbox.
LEMMA CallsOfSetDown ==
    ASSUME TypeOK, NEW state \in {"NULL", "READY"}, NEW rest \in Seq(Msgs), SetDown(state, rest)
    PROVE  /\ OneCall(rest) => OneCall(mailbox')
           /\ NoCall(rest) => NoCall(mailbox')
           /\ \A type : CallsAre(rest, type) => CallsAre(mailbox', type)
<1>1. PostedOnTheWayTo(state) \in Seq(Msgs) /\ NoCall(PostedOnTheWayTo(state))
  BY PostedType, MessagesAreNoCalls
<1>2. Staled(rest) \in Seq(Msgs)
  BY StaledType
<1>. QED BY <1>1, <1>2, CallsOfStaled, CallsOfConcat DEF SetDown

LEMMA CallsOfSetUp ==
    ASSUME TypeOK, NEW state \in {"PAUSED", "PLAYING"}, NEW rest \in Seq(Msgs), SetUp(state, rest)
    PROVE  /\ OneCall(rest) => OneCall(mailbox')
           /\ NoCall(rest) => NoCall(mailbox')
           /\ \A type : CallsAre(rest, type) => CallsAre(mailbox', type)
<1>1. StateChanged(state, None) \in MessageType
  BY DEF StateChanged, MessageType, GstStates
<1>2. StateChanged(state, None) \in Msgs
  BY <1>1 DEF Msgs
<1>. QED BY <1>1, <1>2, CallsOfAppend DEF SetUp

\* What playbin is asked to play is a stream: nothing starts before a URI is set.
Rolls == {"PAUSED", "PLAYING"}

SetsUriFirst(plan) ==
    \A i \in 1 .. Len(plan) : plan[i].type \in Starts =>
        \E j \in 1 .. i - 1 : plan[j].type = "set_uri"

StreamsAreKnown ==
    /\ {playbin.uri, playbin.source, playbin.queued} \subseteq Uris \union {None}
    /\ playbin.goal \in Rolls \/ audio.target \in Rolls => playbin.uri # None
    /\ playbin.uri = None => SetsUriFirst(core.plan)

IInv == TypeOK /\ CallsWait /\ StreamsAreKnown /\ PlaysWhatIsAsked

LEMMA HandlersKeepCalls ==
    ASSUME IInv,
           \/ OnStateChanged \/ OnBuffering \/ OnEndOfStream
           \/ OnError \/ OnTag \/ OnStreamStart
    PROVE  CallsWait'
<1>0. /\ TypeOK /\ CallsWait /\ mailbox # << >> /\ Tail(mailbox) \in Seq(Msgs)
      /\ mailbox \in Seq(Msgs)
  BY Received DEF OnStateChanged, OnBuffering, OnEndOfStream, OnError, OnTag, OnStreamStart,
                  ReceiveOnly, Receive, IInv, TypeOK, Msgs
<1>1. /\ OneCall(Tail(mailbox)) /\ (NoCall(mailbox) => NoCall(Tail(mailbox)))
      /\ CallsAre(Tail(mailbox), Head(core.plan).type)
  BY <1>0, CallsOfTail DEF CallsWait
<1>2. core' = core
  BY DEF OnStateChanged, OnBuffering, OnEndOfStream, OnError, OnTag, OnStreamStart, ReceiveOnly
<1>3. /\ OneCall(mailbox') /\ (NoCall(mailbox) => NoCall(mailbox'))
      /\ CallsAre(mailbox', Head(core.plan).type)
  <2>1. \/ mailbox' = Tail(mailbox)
        \/ SetUp("PAUSED", Tail(mailbox)) \/ SetUp("PLAYING", Tail(mailbox))
        \/ SetDown("NULL", Tail(mailbox))
    BY DEF OnStateChanged, OnBuffering, OnEndOfStream, OnError, OnTag, OnStreamStart, ReceiveOnly
  <2>2. CASE mailbox' = Tail(mailbox)
    BY <1>1, <2>2
  <2>3. CASE SetUp("PAUSED", Tail(mailbox)) \/ SetUp("PLAYING", Tail(mailbox))
    BY <1>0, <1>1, <2>3, CallsOfSetUp
  <2>4. CASE SetDown("NULL", Tail(mailbox))
    BY <1>0, <1>1, <2>4, CallsOfSetDown
  <2>. QED BY <2>1, <2>2, <2>3, <2>4
<1>. QED BY <1>0, <1>2, <1>3 DEF CallsWait, Idle


-----------------------------------------------------------------------------
(* Calls. *)

LEMMA CallTaken ==
    ASSUME TypeOK, CallsWait, mailbox # << >>, Head(mailbox).type \in CallTypes
    PROVE  /\ core.waits /\ core.plan # << >>
           /\ Head(mailbox) \in CallType
           /\ Head(mailbox).type = Head(core.plan).type
           /\ Tail(mailbox) \in Seq(Msgs) /\ NoCall(Tail(mailbox))
<1>1. /\ mailbox \in Seq(Msgs) /\ Head(mailbox) \in Msgs /\ Tail(mailbox) \in Seq(Msgs)
  BY Received DEF TypeOK, Msgs
<1>2. 1 \in 1 .. Len(mailbox) /\ Head(mailbox) = mailbox[1]
  BY <1>1, EmptySeq
<1>3. ~NoCall(mailbox) /\ Head(mailbox).type = Head(core.plan).type
  BY <1>2 DEF NoCall, CallsWait, CallsAre
<1>4. NoCall(Tail(mailbox))
  BY <1>1, CallsOfTail DEF CallsWait
<1>5. Head(mailbox) \in CallType
  BY <1>1 DEF Msgs, MessageType, CallTypes
<1>. QED BY <1>1, <1>3, <1>4, <1>5 DEF CallsWait, Idle

\* When its call is answered, core has none in the mailbox.
LEMMA Answered ==
    ASSUME NoCall(mailbox'), core'.waits = FALSE
    PROVE  CallsWait'
BY DEF NoCall, CallsWait, OneCall, CallsAre

Calls ==
    \/ PrepareChangeCall \/ StopPlaybackCall \/ StartPlaybackCall \/ PausePlaybackCall
    \/ SetUriCall \/ SetPositionCall \/ GetCurrentTagsCall

LEMMA IsCall ==
    ASSUME TypeOK, CallsWait, Calls
    PROVE  /\ mailbox # << >> /\ Head(mailbox).type \in CallTypes
           /\ core.waits /\ core.plan # << >>
           /\ Head(mailbox) \in CallType
           /\ Head(mailbox).type = Head(core.plan).type
           /\ Tail(mailbox) \in Seq(Msgs) /\ NoCall(Tail(mailbox))
<1>1. mailbox # << >> /\ Head(mailbox).type \in CallTypes
  BY DEF Calls, PrepareChangeCall, StopPlaybackCall, StartPlaybackCall, PausePlaybackCall,
         SetUriCall, SetPositionCall, GetCurrentTagsCall, Receive, CallTypes
<1>. QED BY <1>1, CallTaken

LEMMA CallTypesKept ==
    ASSUME TypeOK, CallsWait, Calls
    PROVE  TypeOK' /\ CallsWait'
<1>. DEFINE m == Head(mailbox)
            rest == Tail(mailbox)
<1>0. /\ core.plan # << >> /\ m \in CallType /\ rest \in Seq(Msgs) /\ NoCall(rest)
  BY IsCall
<1>. SUFFICES StateType' /\ CallsWait'
  BY SameTypeNext
<1>. USE SameType
<1>1. ASSUME NEW state \in {"NULL", "READY"}, SetDown(state, rest), Answer,
             audio' \in AudioType, UNCHANGED <<callback, inbox, reports, mixed>>
      PROVE  StateType' /\ CallsWait'
  <2>1. /\ playbin' \in PipelineType /\ low' \in BOOLEAN /\ broken' \in BOOLEAN
        /\ mailbox' \in Seq(Msgs) /\ NoCall(mailbox')
    BY <1>0, <1>1, SetDownType, CallsOfSetDown
  <2>2. core' \in [plan : Seq(CallType), waits : BOOLEAN, title : Uris \union {None}]
    BY <1>0, <1>1, AnswerType
  <2>3. core'.waits = FALSE
    BY <1>1 DEF Answer, TypeOK
  <2>. QED BY <1>1, <2>1, <2>2, <2>3, Answered DEF StateType
<1>2. ASSUME NEW state \in {"PAUSED", "PLAYING"}, SetUp(state, rest), Answer,
             audio' \in AudioType, UNCHANGED <<callback, inbox, reports, mixed>>
      PROVE  StateType' /\ CallsWait'
  <2>1. /\ playbin' \in PipelineType /\ low' \in BOOLEAN /\ broken' \in BOOLEAN
        /\ mailbox' \in Seq(Msgs) /\ NoCall(mailbox')
    BY <1>0, <1>2, SetUpType, CallsOfSetUp
  <2>2. core' \in [plan : Seq(CallType), waits : BOOLEAN, title : Uris \union {None}]
    BY <1>0, <1>2, AnswerType
  <2>3. core'.waits = FALSE
    BY <1>2 DEF Answer, TypeOK
  <2>. QED BY <1>2, <2>1, <2>2, <2>3, Answered DEF StateType
<1>3. CASE PrepareChangeCall
  <2>1. audio' \in AudioType
    BY <1>3 DEF PrepareChangeCall, TypeOK, AudioType, GstStates
  <2>. QED BY <1>1, <1>3, <2>1 DEF PrepareChangeCall
<1>4. CASE StopPlaybackCall
  <2>1. audio' \in AudioType
    BY <1>4 DEF StopPlaybackCall, Stopped, TypeOK, AudioType, GstStates
  <2>. QED BY <1>1, <1>4, <2>1 DEF StopPlaybackCall
<1>5. CASE StartPlaybackCall
  <2>1. audio' \in AudioType
    BY <1>5 DEF StartPlaybackCall, TypeOK, AudioType, GstStates
  <2>. QED BY <1>2, <1>5, <2>1 DEF StartPlaybackCall
<1>6. CASE PausePlaybackCall
  <2>1. audio' \in AudioType
    BY <1>6 DEF PausePlaybackCall, TypeOK, AudioType, GstStates
  <2>. QED BY <1>2, <1>6, <2>1 DEF PausePlaybackCall
<1>7. CASE SetUriCall
  <2>1. m.uri \in Uris
    BY <1>0, <1>7 DEF SetUriCall, Receive, CallType
  <2>2. audio' \in AudioType
    <3>1. audio' = [audio EXCEPT !.pendingUri = m.uri, !.pendingTags = {}]
      BY <1>7 DEF SetUriCall
    <3>2. audio \in AudioType
      BY DEF TypeOK
    <3>. QED BY <2>1, <3>1, <3>2 DEF AudioType
  <2>3. playbin' \in PipelineType
    <3>1. m.uri \in TlidOrNone /\ None \in TlidOrNone
      BY <2>1, UrisAssumption DEF TlidOrNone
    <3>2. playbin' \in {[playbin EXCEPT !.uri = m.uri, !.queued = m.uri],
                        [playbin EXCEPT !.uri = m.uri, !.queued = None]}
      BY <1>7 DEF SetUriCall
    <3>3. playbin \in PipelineType
      BY DEF TypeOK
    <3>. QED BY <3>1, <3>2, <3>3 DEF PipelineType
  <2>4. core' \in [plan : Seq(CallType), waits : BOOLEAN, title : Uris \union {None}]
    BY <1>0, <1>7, AnswerType DEF SetUriCall
  <2>5. core'.waits = FALSE
    BY <1>7 DEF SetUriCall, Answer, TypeOK
  <2>6. mailbox' = rest /\ mixed' \in BOOLEAN
    BY <1>7 DEF SetUriCall
  <2>. QED BY <1>0, <1>7, <2>2, <2>3, <2>4, <2>5, <2>6, Answered DEF SetUriCall, StateType
<1>8. CASE SetPositionCall
  <2>1. m.pos \in TrackPositions
    BY <1>0, <1>8 DEF SetPositionCall, Receive, CallType
  <2>2. playbin' \in PipelineType
    <3>1. playbin' \in {playbin, [playbin EXCEPT !.at = m.pos, !.segment = TRUE,
                                                 !.ended = FALSE, !.finishing = FALSE]}
      BY <1>8 DEF SetPositionCall
    <3>2. playbin \in PipelineType
      BY DEF TypeOK
    <3>. QED BY <2>1, <3>1, <3>2 DEF PipelineType
  <2>3. core' \in [plan : Seq(CallType), waits : BOOLEAN, title : Uris \union {None}]
    BY <1>0, <1>8, AnswerType DEF SetPositionCall
  <2>4. core'.waits = FALSE /\ mailbox' = rest
    BY <1>8 DEF SetPositionCall, Answer, TypeOK
  <2>. QED BY <1>0, <1>8, <2>2, <2>3, <2>4, Answered DEF SetPositionCall, StateType
<1>9. CASE GetCurrentTagsCall
  <2>1. PICK title \in Uris \union {None} :
           core' = [core EXCEPT !.plan = Tail(@), !.waits = FALSE, !.title = title]
    <3>1. audio.tags # {} => (CHOOSE title \in audio.tags : TRUE) \in Uris
      BY DEF TypeOK, AudioType
    <3>2. core.title \in Uris \union {None}
      BY DEF TypeOK
    <3>. QED BY <1>9, <3>1, <3>2 DEF GetCurrentTagsCall
  <2>2. Tail(core.plan) \in Seq(CallType)
    BY <1>0, HeadTailProperties DEF TypeOK
  <2>3. /\ core' \in [plan : Seq(CallType), waits : BOOLEAN, title : Uris \union {None}]
        /\ core'.waits = FALSE
    BY <2>1, <2>2 DEF TypeOK
  <2>. QED BY <1>0, <1>9, <2>3, Answered DEF GetCurrentTagsCall, StateType
<1>. QED BY <1>3, <1>4, <1>5, <1>6, <1>7, <1>8, <1>9 DEF Calls


-----------------------------------------------------------------------------
(* Core. *)

LEMMA ChangesType ==
    ASSUME NEW plan \in Changes
    PROVE  plan \in Seq(CallType) /\ SetsUriFirst(plan)
<1>1. PICK uri \in Uris, start \in {"start_playback", "pause_playback"}, n \in 1 .. 3 :
         plan = SubSeq(<<CallOf("prepare_change"), SetUriOf(uri), CallOf(start)>>, 1, n)
  BY DEF Changes
<1>. DEFINE whole == <<CallOf("prepare_change"), SetUriOf(uri), CallOf(start)>>
<1>2. /\ CallOf("prepare_change") \in CallType /\ SetUriOf(uri) \in CallType
      /\ CallOf(start) \in CallType
  BY DEF CallOf, SetUriOf, CallType, Starts
<1>3. whole \in Seq(CallType) /\ Len(whole) = 3
  BY <1>2
<1>. HIDE DEF whole
<1>4. /\ plan \in Seq(CallType) /\ Len(plan) = n
      /\ \A i \in 1 .. n : plan[i] = whole[i]
  <2>1. \A i \in 1 .. n : whole[i] \in CallType
    BY <1>3
  <2>2. plan = SubSeq(whole, 1, n)
    BY <1>1 DEF whole
  <2>. QED BY <2>1, <2>2, SubSeqProperties
<1>5. whole[1].type \notin Starts /\ whole[2].type = "set_uri"
  BY DEF whole, CallOf, SetUriOf, Starts
<1>6. ASSUME NEW i \in 1 .. n, plan[i].type \in Starts
      PROVE  \E j \in 1 .. i - 1 : plan[j].type = "set_uri"
  <2>1. i = 3
    BY <1>4, <1>5, <1>6 DEF Starts
  <2>2. 2 \in 1 .. i - 1 /\ 2 \in 1 .. n
    BY <2>1
  <2>3. plan[2].type = "set_uri"
    BY <1>4, <1>5, <2>2
  <2>. QED BY <2>2, <2>3
<1>. QED BY <1>4, <1>6 DEF SetsUriFirst

LEMMA PlansType ==
    ASSUME NEW plan \in Plans
    PROVE  plan \in Seq(CallType)
<1>1. CASE plan \in Changes
  BY <1>1, ChangesType
<1>2. CASE \E type \in {"stop_playback", "start_playback", "pause_playback"} :
              plan = <<CallOf(type)>>
  BY <1>2 DEF CallOf, CallType
<1>3. CASE \E pos \in SeekTo : plan = <<[type |-> "set_position", pos |-> pos]>>
  <2>1. \A pos \in SeekTo : [type |-> "set_position", pos |-> pos] \in CallType
    BY SeekToAssumption DEF CallType
  <2>. QED BY <1>3, <2>1
<1>. QED BY <1>1, <1>2, <1>3 DEF Plans

\* Core and its clients: the plan is typed, and no call is on its way when a
\* new plan is made.
LEMMA NewPlan ==
    ASSUME TypeOK, CallsWait, Idle, mailbox' = mailbox,
           NEW plan \in Seq(CallType), core' = [core EXCEPT !.plan = plan]
    PROVE  /\ core' \in [plan : Seq(CallType), waits : BOOLEAN, title : Uris \union {None}]
           /\ CallsWait'
<1>1. core.waits = FALSE /\ NoCall(mailbox)
  BY DEF CallsWait, TypeOK
<1>2. core'.waits = FALSE /\ NoCall(mailbox')
  BY <1>1 DEF TypeOK
<1>3. core' \in [plan : Seq(CallType), waits : BOOLEAN, title : Uris \union {None}]
  BY DEF TypeOK
<1>. QED BY <1>2, <1>3, Answered

LEMMA CoreTypes ==
    ASSUME TypeOK, CallsWait, CoreActs \/ ClientCalls
    PROVE  TypeOK' /\ CallsWait'
<1>. SUFFICES StateType' /\ CallsWait'
  BY SameTypeNext
<1>. USE SameType
<1>1. CASE ClientCalls
  <2>1. PICK plan \in Seq(CallType) : core' = [core EXCEPT !.plan = plan]
    BY <1>1, ChangesType, PlansType DEF ClientCalls
  <2>. QED BY <1>1, <2>1, NewPlan DEF ClientCalls, StateType
<1>2. CASE CoreAsks
  <2>. DEFINE call == Head(core.plan)
  <2>1. call \in CallType /\ core.plan # << >>
    BY <1>2, HeadTailProperties DEF CoreAsks, Idle, TypeOK
  <2>2. mailbox \in Seq(Msgs) /\ call \in Msgs /\ mailbox' = Append(mailbox, call)
    BY <1>2, <2>1 DEF CoreAsks, Msgs, TypeOK
  <2>3. NoCall(mailbox) /\ CallsAre(mailbox, call.type)
    BY <1>2 DEF CoreAsks, CallsWait
  <2>4. mailbox' \in Seq(Msgs) /\ OneCall(mailbox') /\ CallsAre(mailbox', call.type)
    BY <2>2, <2>3, CallsOfAppend, AppendProperties
  <2>5. /\ core' \in [plan : Seq(CallType), waits : BOOLEAN, title : Uris \union {None}]
        /\ core'.waits = TRUE /\ core'.plan = core.plan
    BY <1>2 DEF CoreAsks, TypeOK
  <2>. QED BY <1>2, <2>1, <2>4, <2>5 DEF CoreAsks, StateType, CallsWait, Idle
<1>3. CASE CoreHears
  <2>1. PICK plan \in Seq(CallType), title \in Uris \union {None} :
           core' = [core EXCEPT !.plan = plan, !.title = title]
    <3>1. CallOf("get_current_tags") \in CallType
      BY DEF CallOf, CallType
    <3>2. core' \in {core, [core EXCEPT !.title = None],
                     [core EXCEPT !.plan = <<CallOf("get_current_tags")>>]}
      BY <1>3 DEF CoreHears
    <3>3. <<CallOf("get_current_tags")>> \in Seq(CallType)
      BY <3>1
    <3>4. /\ core = [core EXCEPT !.plan = core.plan, !.title = core.title]
          /\ [core EXCEPT !.title = None] = [core EXCEPT !.plan = core.plan, !.title = None]
          /\ [core EXCEPT !.plan = <<CallOf("get_current_tags")>>] =
                [core EXCEPT !.plan = <<CallOf("get_current_tags")>>, !.title = core.title]
      BY DEF TypeOK
    <3>5. /\ core.plan \in Seq(CallType)
          /\ core.title \in Uris \union {None} /\ None \in Uris \union {None}
      BY DEF TypeOK
    <3>6. CASE core' = core
      BY <3>4, <3>5, <3>6
    <3>7. CASE core' = [core EXCEPT !.title = None]
      BY <3>4, <3>5, <3>7
    <3>8. CASE core' = [core EXCEPT !.plan = <<CallOf("get_current_tags")>>]
      BY <3>3, <3>4, <3>5, <3>8
    <3>. QED BY <3>2, <3>6, <3>7, <3>8, Zenon
  <2>2. core.waits = FALSE /\ NoCall(mailbox)
    BY <1>3 DEF CoreHears, CallsWait, TypeOK
  <2>3. /\ core' \in [plan : Seq(CallType), waits : BOOLEAN, title : Uris \union {None}]
        /\ core'.waits = FALSE /\ NoCall(mailbox')
    BY <1>3, <2>1, <2>2 DEF CoreHears, TypeOK
  <2>4. inbox' \in Seq(EventType)
    BY <1>3, HeadTailProperties DEF CoreHears, TypeOK
  <2>. QED BY <1>3, <2>3, <2>4, Answered DEF CoreHears, StateType
<1>4. CASE CoreAnswersCallback
  <2>1. PICK plan \in Seq(CallType) : core' = [core EXCEPT !.plan = plan]
    <3>1. \A uri \in Uris : SetUriOf(uri) \in CallType
      BY DEF SetUriOf, CallType
    <3>2. \A uri \in Uris : <<SetUriOf(uri)>> \in Seq(CallType)
      BY <3>1
    <3>3. PICK plan \in {<< >>} \union {<<SetUriOf(uri)>> : uri \in Uris} :
             core' = [core EXCEPT !.plan = plan]
      BY <1>4 DEF CoreAnswersCallback
    <3>4. plan \in Seq(CallType)
      BY <3>2, <3>3, EmptySeq
    <3>. QED BY <3>3, <3>4
  <2>2. inbox' \in Seq(EventType)
    BY <1>4, HeadTailProperties DEF CoreAnswersCallback, TypeOK
  <2>. QED BY <1>4, <2>1, <2>2, NewPlan DEF CoreAnswersCallback, StateType
<1>5. CASE CallbackReturns
  <2>1. CallsWait'
    BY <1>5 DEF CallbackReturns, CallsWait, Idle
  <2>. QED BY <1>5, <2>1 DEF CallbackReturns, StateType
<1>. QED BY <1>1, <1>2, <1>3, <1>4, <1>5 DEF CoreActs

-----------------------------------------------------------------------------
(* GStreamer. *)

GStreamer ==
    \/ Preroll \/ SegmentPasses \/ SourceFinishes \/ NextSourceStarts \/ SourceEnds
    \/ FindTag \/ BufferRunsLow \/ BufferFills \/ ElementFails

LEMMA PostedCalls ==
    ASSUME TypeOK, CallsWait, NEW messages \in Seq(MessageType), Post(messages), core' = core
    PROVE  mailbox' \in Seq(Msgs) /\ CallsWait'
<1>1. mailbox \in Seq(Msgs) /\ messages \in Seq(Msgs) /\ NoCall(messages)
  BY MessagesAreNoCalls DEF TypeOK, Msgs
<1>2. mailbox' = mailbox \o messages
  BY DEF Post
<1>. QED BY <1>1, <1>2, CallsOfConcat, ConcatProperties DEF CallsWait, Idle

LEMMA StreamOfType ==
    ASSUME TypeOK, StreamsAreKnown, StreamOf(playbin) # None
    PROVE  StreamOf(playbin) \in Uris
BY DEF StreamsAreKnown, StreamOf

LEMMA ZeroAndNone == 0 \in TrackPositions /\ None \in TlidOrNone
BY DEF TrackPositions, TlidOrNone

LEMMA GStreamerTypes ==
    ASSUME TypeOK, CallsWait, StreamsAreKnown, GStreamer
    PROVE  TypeOK' /\ CallsWait'
<1>. SUFFICES StateType' /\ CallsWait'
  BY SameTypeNext
<1>. USE SameType
<1>1. CASE Preroll
  <2>1. playbin.uri \in Uris
    BY <1>1 DEF Preroll, Starting, StreamsAreKnown, Rolls
  <2>2. playbin' \in PipelineType
    BY <1>1, ZeroAndNone DEF Preroll, TypeOK, PipelineType
  <2>3. /\ StreamStart(playbin.uri) \in MessageType
        /\ StateChanged(playbin.goal, None) \in MessageType
    BY <1>1, <2>1 DEF Preroll, Starting, StreamStart, StateChanged, MessageType, GstStates
  <2>4. <<StreamStart(playbin.uri), StateChanged(playbin.goal, None)>> \in Seq(MessageType)
    BY <2>3
  <2>5. Post(<<StreamStart(playbin.uri), StateChanged(playbin.goal, None)>>) /\ core' = core
    BY <1>1 DEF Preroll
  <2>. QED BY <1>1, <2>2, <2>4, <2>5, PostedCalls DEF Preroll, StateType
<1>2. CASE SegmentPasses
  <2>1. playbin' \in PipelineType
    BY <1>2 DEF SegmentPasses, TypeOK, PipelineType
  <2>2. [type |-> "position_changed"] \in EventType
    BY DEF EventType
  <2>3. <<[type |-> "position_changed"]>> \in Seq(EventType)
    BY <2>2
  <2>4. Tell(<<[type |-> "position_changed"]>>)
    BY <1>2 DEF SegmentPasses
  <2>5. inbox' \in Seq(EventType)
    BY <2>3, <2>4, TellType
  <2>6. CallsWait'
    BY <1>2 DEF SegmentPasses, CallsWait, Idle
  <2>. QED BY <1>2, <2>1, <2>5, <2>6 DEF SegmentPasses, StateType
<1>3. CASE SourceFinishes
  <2>1. playbin' \in PipelineType
    BY <1>3 DEF SourceFinishes, TypeOK, PipelineType
  <2>2. [type |-> "about_to_finish"] \in EventType
    BY DEF EventType
  <2>3. <<[type |-> "about_to_finish"]>> \in Seq(EventType)
    BY <2>2
  <2>4. Tell(<<[type |-> "about_to_finish"]>>)
    BY <1>3 DEF SourceFinishes
  <2>5. inbox' \in Seq(EventType)
    BY <2>3, <2>4, TellType
  <2>6. CallsWait'
    BY <1>3 DEF SourceFinishes, CallsWait, Idle
  <2>. QED BY <1>3, <2>1, <2>5, <2>6 DEF SourceFinishes, StateType
<1>4. CASE NextSourceStarts
  <2>1. playbin.queued \in Uris
    BY <1>4 DEF NextSourceStarts, StreamsAreKnown
  <2>2. playbin' \in PipelineType
    BY <1>4, ZeroAndNone DEF NextSourceStarts, TypeOK, PipelineType
  <2>3. StreamStart(playbin.queued) \in MessageType
    BY <2>1 DEF StreamStart, MessageType
  <2>4. <<StreamStart(playbin.queued)>> \in Seq(MessageType)
    BY <2>3
  <2>5. Post(<<StreamStart(playbin.queued)>>) /\ core' = core
    BY <1>4 DEF NextSourceStarts
  <2>. QED BY <1>4, <2>2, <2>4, <2>5, PostedCalls DEF NextSourceStarts, StateType
<1>5. CASE SourceEnds
  <2>1. playbin' \in PipelineType
    BY <1>5 DEF SourceEnds, TypeOK, PipelineType
  <2>2. [type |-> "end_of_stream"] \in MessageType
    BY DEF MessageType
  <2>3. <<[type |-> "end_of_stream"]>> \in Seq(MessageType)
    BY <2>2
  <2>4. Post(<<[type |-> "end_of_stream"]>>) /\ core' = core
    BY <1>5 DEF SourceEnds
  <2>. QED BY <1>5, <2>1, <2>3, <2>4, PostedCalls DEF SourceEnds, StateType
<1>6. CASE FindTag
  <2>. DEFINE tag == [type |-> "tag", of |-> StreamOf(playbin)]
  <2>1. StreamOf(playbin) \in Uris
    BY <1>6, StreamOfType DEF FindTag
  <2>2. tag \in MessageType
    BY <2>1 DEF MessageType
  <2>3. <<tag>> \in Seq(MessageType)
    BY <2>2
  <2>4. Post(<<tag>>) /\ core' = core /\ mixed' \in BOOLEAN
    BY <1>6 DEF FindTag
  <2>5. mailbox' \in Seq(Msgs) /\ CallsWait'
    BY <2>3, <2>4, PostedCalls
  <2>. QED BY <1>6, <2>4, <2>5 DEF FindTag, StateType
<1>7. CASE BufferRunsLow \/ BufferFills
  <2>1. PICK percent \in {0, 100} : Buffering(percent)
    BY <1>7 DEF BufferRunsLow, BufferFills
  <2>. DEFINE message == [type |-> "buffering", percent |-> percent,
                          live |-> StreamOf(playbin) \in Live, stale |-> FALSE]
  <2>2. message \in MessageType
    BY <2>1 DEF MessageType
  <2>3. <<message>> \in Seq(MessageType)
    BY <2>2
  <2>4. Post(<<message>>) /\ core' = core
    BY <2>1 DEF Buffering
  <2>5. mailbox' \in Seq(Msgs) /\ CallsWait'
    BY <2>3, <2>4, PostedCalls
  <2>6. low' \in BOOLEAN
    BY <1>7 DEF BufferRunsLow, BufferFills
  <2>. QED BY <2>1, <2>5, <2>6 DEF Buffering, StateType
<1>8. CASE ElementFails
  <2>1. [type |-> "error"] \in MessageType
    BY DEF MessageType
  <2>2. <<[type |-> "error"]>> \in Seq(MessageType)
    BY <2>1
  <2>3. Post(<<[type |-> "error"]>>) /\ core' = core /\ broken' \in BOOLEAN
    BY <1>8 DEF ElementFails
  <2>4. mailbox' \in Seq(Msgs) /\ CallsWait'
    BY <2>2, <2>3, PostedCalls
  <2>. QED BY <1>8, <2>3, <2>4 DEF ElementFails, StateType
<1>. QED BY <1>1, <1>2, <1>3, <1>4, <1>5, <1>6, <1>7, <1>8 DEF GStreamer

-----------------------------------------------------------------------------
(* The streams, and what is asked. *)

LEMMA PlanWithoutFirst ==
    ASSUME NEW plan \in Seq(CallType), plan # << >>, SetsUriFirst(plan),
           Head(plan).type # "set_uri"
    PROVE  SetsUriFirst(Tail(plan)) /\ Head(plan).type \notin Starts
<1>1. /\ Len(plan) \in Nat \ {0} /\ Len(Tail(plan)) = Len(plan) - 1
      /\ Head(plan) = plan[1]
      /\ \A i \in 1 .. Len(Tail(plan)) : Tail(plan)[i] = plan[i + 1]
  BY HeadTailProperties, EmptySeq
<1>2. Head(plan).type \notin Starts
  BY <1>1 DEF SetsUriFirst
<1>3. ASSUME NEW i \in 1 .. Len(Tail(plan)), Tail(plan)[i].type \in Starts
      PROVE  \E j \in 1 .. i - 1 : Tail(plan)[j].type = "set_uri"
  <2>1. PICK j \in 1 .. i : plan[j].type = "set_uri"
    BY <1>1, <1>3 DEF SetsUriFirst
  <2>2. j - 1 \in 1 .. i - 1 /\ j - 1 \in 1 .. Len(Tail(plan)) /\ Tail(plan)[j - 1] = plan[j]
    BY <1>1, <1>3, <2>1
  <2>. QED BY <2>1, <2>2
<1>. QED BY <1>2, <1>3 DEF SetsUriFirst

\* set_state keeps the URI, and what it asks for is asked of a stream that is known.
LEMMA SetDownStreams ==
    ASSUME TypeOK, NEW state \in {"NULL", "READY"}, NEW rest, SetDown(state, rest)
    PROVE  /\ playbin'.goal = state /\ playbin'.uri = playbin.uri
           /\ playbin'.source = None /\ playbin'.queued = None
BY DEF SetDown, InitPipeline

LEMMA SetUpStreams ==
    ASSUME TypeOK, NEW state \in Rolls, NEW rest, SetUp(state, rest)
    PROVE  /\ playbin'.goal = state /\ playbin'.uri = playbin.uri
           /\ playbin'.source = playbin.source /\ playbin'.queued = playbin.queued
BY DEF SetUp, TypeOK, PipelineType

\* The handlers that only note what GStreamer tells, and pass it on.
LEMMA HandlersLeave ==
    ASSUME TypeOK, OnStateChanged \/ OnEndOfStream \/ OnTag \/ OnStreamStart
    PROVE  /\ UNCHANGED <<playbin, broken, callback, core>> /\ mailbox' = Tail(mailbox)
           /\ audio'.target = audio.target /\ audio'.buffering = audio.buffering
           /\ audio'.pendingUri = audio.pendingUri
<1>1. UNCHANGED <<playbin, broken, callback, core>> /\ mailbox' = Tail(mailbox)
  BY DEF OnStateChanged, OnEndOfStream, OnTag, OnStreamStart, ReceiveOnly
<1>2. CASE OnStateChanged
  BY <1>1, <1>2 DEF OnStateChanged, TypeOK, AudioType
<1>3. CASE OnEndOfStream
  BY <1>1, <1>3 DEF OnEndOfStream, TypeOK, AudioType
<1>4. CASE OnTag
  <2>1. PICK tags : audio' \in {audio, [audio EXCEPT !.pendingTags = tags],
                                [audio EXCEPT !.tags = tags]}
    BY <1>4 DEF OnTag
  <2>. QED BY <1>1, <2>1 DEF TypeOK, AudioType
<1>5. CASE OnStreamStart
  <2>1. PICK tags : audio' = [audio EXCEPT !.pendingTags = None, !.tags = tags]
    BY <1>5 DEF OnStreamStart
  <2>. QED BY <1>1, <2>1 DEF TypeOK, AudioType
<1>. QED BY <1>2, <1>3, <1>4, <1>5

LEMMA HandlersKeepStreams ==
    ASSUME TypeOK, StreamsAreKnown, PlaysWhatIsAsked,
           \/ OnStateChanged \/ OnBuffering \/ OnEndOfStream
           \/ OnError \/ OnTag \/ OnStreamStart
    PROVE  StreamsAreKnown' /\ PlaysWhatIsAsked'
<1>1. core' = core
  BY DEF OnStateChanged, OnBuffering, OnEndOfStream, OnError, OnTag, OnStreamStart, ReceiveOnly
<1>2. CASE OnStateChanged \/ OnEndOfStream \/ OnTag \/ OnStreamStart
  BY <1>2, HandlersLeave DEF StreamsAreKnown, PlaysWhatIsAsked
<1>3. CASE OnBuffering
  <2>. DEFINE m == Head(mailbox)
  <2>1. CASE Buffers(m) /\ m.percent < 10 /\ ~audio.buffering
    <3>1. SetUp("PAUSED", Tail(mailbox)) /\ audio' = [audio EXCEPT !.buffering = TRUE]
      BY <1>3, <2>1 DEF OnBuffering
    <3>2. audio'.target = audio.target /\ audio'.buffering = TRUE
      BY <3>1 DEF TypeOK, AudioType
    <3>3. playbin.uri # None
      BY <2>1 DEF Buffers, StreamsAreKnown, Rolls
    <3>. QED BY <1>1, <3>1, <3>2, <3>3, SetUpStreams
             DEF StreamsAreKnown, PlaysWhatIsAsked, Rolls
  <2>2. CASE ~(Buffers(m) /\ m.percent < 10 /\ ~audio.buffering) /\ Buffers(m) /\ m.percent = 100
    <3>1. audio' = [audio EXCEPT !.buffering = FALSE]
      BY <1>3, <2>2 DEF OnBuffering
    <3>2. audio'.target = audio.target /\ audio'.buffering = FALSE
      BY <3>1 DEF TypeOK, AudioType
    <3>3. playbin.uri # None
      BY <2>2 DEF Buffers, StreamsAreKnown, Rolls
    <3>4. CASE Resumes
      <4>1. SetUp("PLAYING", Tail(mailbox)) /\ audio.target = "PLAYING"
        BY <1>3, <2>2, <3>4 DEF OnBuffering, Resumes
      <4>. QED BY <1>1, <3>2, <3>3, <4>1, SetUpStreams
               DEF StreamsAreKnown, PlaysWhatIsAsked, Rolls
    <3>5. CASE ~Resumes
      <4>1. playbin' = playbin /\ audio.target # "PLAYING"
        BY <1>3, <2>2, <3>5 DEF OnBuffering, Resumes
      <4>. QED BY <1>1, <3>2, <4>1 DEF StreamsAreKnown, PlaysWhatIsAsked
    <3>. QED BY <3>4, <3>5
  <2>3. CASE /\ ~(Buffers(m) /\ m.percent < 10 /\ ~audio.buffering)
             /\ ~(Buffers(m) /\ m.percent = 100)
    <3>1. playbin' = playbin /\ audio' = audio
      BY <1>3, <2>3 DEF OnBuffering
    <3>. QED BY <1>1, <3>1 DEF StreamsAreKnown, PlaysWhatIsAsked
  <2>. QED BY <2>1, <2>2, <2>3
<1>4. CASE OnError
  <2>1. SetDown("NULL", Tail(mailbox)) /\ audio' = Stopped
    BY <1>4 DEF OnError
  <2>2. audio'.target = "NULL"
    BY <2>1 DEF Stopped, TypeOK, AudioType
  <2>. QED BY <1>1, <2>1, <2>2, SetDownStreams DEF StreamsAreKnown, PlaysWhatIsAsked, Rolls
<1>. QED BY <1>2, <1>3, <1>4

LEMMA CallsKeepStreams ==
    ASSUME IInv, Calls
    PROVE  StreamsAreKnown' /\ PlaysWhatIsAsked'
<1>. DEFINE m == Head(mailbox)
            rest == Tail(mailbox)
<1>. USE DEF IInv
<1>0. /\ core.plan \in Seq(CallType) /\ core.plan # << >> /\ m.type = Head(core.plan).type
      /\ audio \in AudioType
  BY IsCall DEF TypeOK
<1>1. core'.plan = Tail(core.plan)
  BY DEF Calls, PrepareChangeCall, StopPlaybackCall, StartPlaybackCall, PausePlaybackCall,
         SetUriCall, SetPositionCall, GetCurrentTagsCall, Answer, TypeOK
<1>2. m.type # "set_uri" /\ playbin.uri = None =>
         SetsUriFirst(core'.plan) /\ m.type \notin Starts
  BY <1>0, <1>1, PlanWithoutFirst DEF StreamsAreKnown
<1>3. CASE PrepareChangeCall \/ StopPlaybackCall
  <2>1. PICK state \in {"NULL", "READY"} : SetDown(state, rest) /\ audio'.target = state
    BY <1>0, <1>3 DEF PrepareChangeCall, StopPlaybackCall, Stopped, AudioType
  <2>2. m.type # "set_uri"
    BY <1>3 DEF PrepareChangeCall, StopPlaybackCall, Receive
  <2>. QED BY <1>2, <2>1, <2>2, SetDownStreams DEF StreamsAreKnown, PlaysWhatIsAsked, Rolls
<1>4. CASE StartPlaybackCall \/ PausePlaybackCall
  <2>1. PICK state \in Rolls : SetUp(state, rest) /\ audio'.target = state
    BY <1>0, <1>4 DEF StartPlaybackCall, PausePlaybackCall, AudioType, Rolls
  <2>2. m.type \in Starts /\ m.type # "set_uri"
    BY <1>4 DEF StartPlaybackCall, PausePlaybackCall, Receive, Starts
  <2>3. playbin.uri # None
    BY <1>2, <2>2
  <2>. QED BY <2>1, <2>3, SetUpStreams DEF StreamsAreKnown, PlaysWhatIsAsked
<1>5. CASE SetUriCall
  <2>1. m.uri \in Uris /\ m.uri # None
    BY <1>5, IsCall, UrisAssumption, NoneAssumption
       DEF SetUriCall, Receive, CallType, Tlid
  <2>2. playbin'.uri = m.uri /\ playbin'.queued \in {m.uri, None}
        /\ playbin'.source = playbin.source /\ playbin'.goal = playbin.goal
    BY <1>5 DEF SetUriCall, TypeOK, PipelineType
  <2>3. audio'.target = audio.target /\ audio'.buffering = audio.buffering
    BY <1>0, <1>5 DEF SetUriCall, AudioType
  <2>. QED BY <2>1, <2>2, <2>3 DEF StreamsAreKnown, PlaysWhatIsAsked
<1>6. CASE SetPositionCall \/ GetCurrentTagsCall
  <2>1. /\ playbin'.uri = playbin.uri /\ playbin'.queued = playbin.queued
        /\ playbin'.source = playbin.source /\ playbin'.goal = playbin.goal
        /\ audio' = audio
    BY <1>6 DEF SetPositionCall, GetCurrentTagsCall, TypeOK, PipelineType
  <2>2. m.type # "set_uri"
    BY <1>6 DEF SetPositionCall, GetCurrentTagsCall, Receive
  <2>. QED BY <1>2, <2>1, <2>2 DEF StreamsAreKnown, PlaysWhatIsAsked
<1>. QED BY <1>3, <1>4, <1>5, <1>6 DEF Calls

LEMMA CoreKeepsStreams ==
    ASSUME TypeOK, CallsWait, StreamsAreKnown, PlaysWhatIsAsked, CoreActs \/ ClientCalls
    PROVE  StreamsAreKnown' /\ PlaysWhatIsAsked'
<1>1. playbin' = playbin /\ audio' = audio
  BY DEF CoreActs, CoreAsks, CoreHears, CoreAnswersCallback, CallbackReturns, ClientCalls
<1>2. playbin.uri = None => SetsUriFirst(core'.plan)
  <2>1. CASE ClientCalls
    <3>1. ASSUME playbin.uri = None
          PROVE  \E plan \in Changes : core' = [core EXCEPT !.plan = plan]
      BY <2>1, <3>1 DEF ClientCalls
    <3>. QED BY <3>1, ChangesType DEF TypeOK
  <2>2. CASE CoreAsks \/ CallbackReturns
    <3>1. core'.plan = core.plan
      BY <2>2 DEF CoreAsks, CallbackReturns, TypeOK
    <3>. QED BY <3>1 DEF StreamsAreKnown
  <2>3. CASE CoreHears
    <3>1. \/ core'.plan = core.plan
          \/ core'.plan = <<CallOf("get_current_tags")>>
      <4>1. core' \in {core, [core EXCEPT !.title = None],
                       [core EXCEPT !.plan = <<CallOf("get_current_tags")>>]}
        BY <2>3 DEF CoreHears
      <4>. QED BY <4>1 DEF TypeOK
    <3>2. SetsUriFirst(<<CallOf("get_current_tags")>>)
      BY DEF SetsUriFirst, CallOf, Starts
    <3>. QED BY <3>1, <3>2 DEF StreamsAreKnown
  <2>4. CASE CoreAnswersCallback
    <3>1. PICK plan \in {<< >>} \union {<<SetUriOf(uri)>> : uri \in Uris} :
             core' = [core EXCEPT !.plan = plan]
      BY <2>4 DEF CoreAnswersCallback
    <3>2. core'.plan = plan
      BY <3>1 DEF TypeOK
    <3>3. SetsUriFirst(<< >>) /\ \A uri \in Uris : SetsUriFirst(<<SetUriOf(uri)>>)
      BY DEF SetsUriFirst, SetUriOf, Starts
    <3>. QED BY <3>1, <3>2, <3>3
  <2>. QED BY <2>1, <2>2, <2>3, <2>4 DEF CoreActs
<1>. QED BY <1>1, <1>2 DEF StreamsAreKnown, PlaysWhatIsAsked

LEMMA GStreamerKeepsStreams ==
    ASSUME TypeOK, StreamsAreKnown, PlaysWhatIsAsked, GStreamer
    PROVE  StreamsAreKnown' /\ PlaysWhatIsAsked'
<1>1. core' = core /\ audio' = audio
  BY DEF GStreamer, Preroll, SegmentPasses, SourceFinishes, NextSourceStarts, SourceEnds,
         FindTag, BufferRunsLow, BufferFills, Buffering, ElementFails
<1>2. /\ playbin'.goal = playbin.goal /\ playbin'.uri = playbin.uri
      /\ {playbin'.source, playbin'.queued}
            \subseteq {playbin.uri, playbin.source, playbin.queued, None}
  <2>1. CASE Preroll
    BY <2>1 DEF Preroll, TypeOK, PipelineType
  <2>2. CASE SegmentPasses \/ SourceFinishes \/ SourceEnds
    BY <2>2 DEF SegmentPasses, SourceFinishes, SourceEnds, TypeOK, PipelineType
  <2>3. CASE NextSourceStarts
    BY <2>3 DEF NextSourceStarts, TypeOK, PipelineType
  <2>4. CASE FindTag \/ BufferRunsLow \/ BufferFills \/ ElementFails
    BY <2>4 DEF FindTag, BufferRunsLow, BufferFills, Buffering, ElementFails
  <2>. QED BY <2>1, <2>2, <2>3, <2>4 DEF GStreamer
<1>. QED BY <1>1, <1>2 DEF StreamsAreKnown, PlaysWhatIsAsked

-----------------------------------------------------------------------------

LEMMA InitIInv ==
    ASSUME Init
    PROVE  IInv
<1>1. playbin \in PipelineType
  BY ZeroAndNone DEF Init, InitPipeline, PipelineType
<1>2. audio \in AudioType
  BY DEF Init, InitAudio, AudioType, GstStates
<1>3. core \in [plan : Seq(CallType), waits : BOOLEAN, title : Uris \union {None}]
  BY EmptySeq DEF Init
<1>4. << >> \in Seq(Msgs) /\ << >> \in Seq(EventType)
  BY EmptySeq
<1>5. StateType
  BY <1>1, <1>2, <1>3, <1>4 DEF Init, StateType
<1>6. CallsWait
  BY DEF Init, CallsWait, NoCall, OneCall, CallsAre
<1>7. StreamsAreKnown /\ PlaysWhatIsAsked
  BY DEF Init, InitPipeline, InitAudio, StreamsAreKnown, PlaysWhatIsAsked, Rolls,
         SetsUriFirst
<1>8. TypeOK
  BY <1>5, SameType
<1>. QED BY <1>6, <1>7, <1>8 DEF IInv

LEMMA NextIInv ==
    ASSUME IInv, [Next]_vars
    PROVE  IInv'
<1>. USE DEF IInv
<1>1. CASE \/ OnStateChanged \/ OnBuffering \/ OnEndOfStream
           \/ OnError \/ OnTag \/ OnStreamStart
  BY <1>1, HandlerTypes, HandlersKeepCalls, HandlersKeepStreams
<1>2. CASE Calls
  BY <1>2, CallTypesKept, CallsKeepStreams
<1>3. CASE CoreActs \/ ClientCalls
  BY <1>3, CoreTypes, CoreKeepsStreams
<1>4. CASE GStreamer
  BY <1>4, GStreamerTypes, GStreamerKeepsStreams
<1>5. CASE UNCHANGED vars
  <2>1. TypeOK'
    BY <1>5, SameType, SameTypeNext DEF vars, StateType
  <2>2. CallsWait'
    BY <1>5 DEF vars, CallsWait, Idle
  <2>3. StreamsAreKnown' /\ PlaysWhatIsAsked'
    BY <1>5 DEF vars, StreamsAreKnown, PlaysWhatIsAsked
  <2>. QED BY <2>1, <2>2, <2>3
<1>. QED BY <1>1, <1>2, <1>3, <1>4, <1>5 DEF Next, Actor, Calls, GStreamer

\* The fields of the actor, what is in the mailbox, and what core waits for are
\* of their types.
THEOREM TypeCorrect == Spec => []TypeOK
<1>1. Init => IInv
  BY InitIInv
<1>2. IInv /\ [Next]_vars => IInv'
  BY NextIInv
<1>3. IInv => TypeOK
  BY DEF IInv
<1>. QED BY <1>1, <1>2, <1>3, PTL DEF Spec

\* However buffering messages, errors and the calls of core come together, sound
\* comes only from a pipeline that is to play, and one that is to play is only
\* held up to fill its buffer.
THEOREM AlwaysPlaysWhatIsAsked == Spec => []PlaysWhatIsAsked
<1>1. Init => IInv
  BY InitIInv
<1>2. IInv /\ [Next]_vars => IInv'
  BY NextIInv
<1>3. IInv => PlaysWhatIsAsked
  BY DEF IInv
<1>. QED BY <1>1, <1>2, <1>3, PTL DEF Spec


-----------------------------------------------------------------------------
(* What stream_changed tells.  A STREAM_START is of the URI set last, as it *)
(* cannot come behind a set_uri that still waits: core sets a URI when the  *)
(* pipeline is down, or while the callback keeps the next stream from       *)
(* starting.                                                                *)

SetsUriDown(plan) ==
    \A i \in 2 .. Len(plan) : plan[i].type = "set_uri" => plan[i - 1].type = "prepare_change"

SetsUri == core.plan # << >> /\ Head(core.plan).type = "set_uri"

\* Nothing can start.
IsHeld == callback # "none" \/ (playbin.goal \notin Rolls /\ audio.target \notin Rolls)

PipelineHeld ==
    /\ playbin.uri = audio.pendingUri
    /\ playbin.queued # None => playbin.queued = playbin.uri
    /\ IsRolling => playbin.goal \in Rolls
    /\ callback # "none" => IsRolling
    /\ SetsUriDown(core.plan)
    /\ SetsUri => IsHeld

\* Each STREAM_START in the mailbox is of this stream, and no set_uri is before it.
Told(messages, uri) ==
    \A i \in 1 .. Len(messages) : messages[i].type = "stream_start" =>
        /\ messages[i].of = uri
        /\ \A j \in 1 .. i : messages[j].type # "set_uri"

StreamInv == PipelineHeld /\ Told(mailbox, audio.pendingUri)

LEMMA ToldOfTail ==
    ASSUME NEW messages \in Seq(Msgs), messages # << >>, NEW uri, Told(messages, uri)
    PROVE  /\ Told(Tail(messages), uri)
           /\ Head(messages).type = "set_uri" => \A other : Told(Tail(messages), other)
           /\ Head(messages).type = "stream_start" => Head(messages).of = uri
<1>1. /\ Len(messages) \in Nat \ {0} /\ Len(Tail(messages)) = Len(messages) - 1
      /\ Head(messages) = messages[1]
      /\ \A i \in 1 .. Len(Tail(messages)) : Tail(messages)[i] = messages[i + 1]
  BY HeadTailProperties, EmptySeq
<1>2. Head(messages).type = "stream_start" => Head(messages).of = uri
  BY <1>1 DEF Told
<1>3. ASSUME NEW i \in 1 .. Len(Tail(messages)), Tail(messages)[i].type = "stream_start"
      PROVE  /\ Tail(messages)[i].of = uri /\ Head(messages).type # "set_uri"
             /\ \A j \in 1 .. i : Tail(messages)[j].type # "set_uri"
  <2>1. /\ i + 1 \in 1 .. Len(messages) /\ messages[i + 1].type = "stream_start"
        /\ messages[i + 1].of = Tail(messages)[i].of
    BY <1>1, <1>3
  <2>2. messages[i + 1].of = uri /\ \A j \in 1 .. i + 1 : messages[j].type # "set_uri"
    BY <2>1 DEF Told
  <2>3. \A j \in 1 .. i : j + 1 \in 1 .. i + 1 /\ Tail(messages)[j] = messages[j + 1]
    BY <1>1
  <2>. QED BY <1>1, <2>1, <2>2, <2>3
<1>. QED BY <1>2, <1>3 DEF Told

LEMMA ToldOfStaled ==
    ASSUME NEW messages \in Seq(Msgs), NEW uri, Told(messages, uri)
    PROVE  Told(Staled(messages), uri)
<1>1. /\ Len(Staled(messages)) = Len(messages)
      /\ \A i \in 1 .. Len(messages) :
            /\ Staled(messages)[i].type = messages[i].type
            /\ messages[i].type = "stream_start" => Staled(messages)[i] = messages[i]
  BY StaledType DEF Staled
<1>. QED BY <1>1 DEF Told

LEMMA ToldOfConcat ==
    ASSUME NEW messages \in Seq(Msgs), NEW more \in Seq(Msgs), NEW uri, Told(messages, uri),
           \/ NoneIs(more, "stream_start")
           \/ NoneIs(messages, "set_uri") /\ Told(more, uri)
    PROVE  Told(messages \o more, uri)
<1>. DEFINE both == messages \o more
            n == Len(messages)
<1>1. /\ Len(both) = n + Len(more) /\ n \in Nat /\ Len(more) \in Nat
      /\ \A i \in 1 .. n + Len(more) :
            both[i] = IF i <= n THEN messages[i] ELSE more[i - n]
  BY ConcatProperties
<1>. HIDE DEF both
<1>2. ASSUME NEW i \in 1 .. Len(both), both[i].type = "stream_start"
      PROVE  both[i].of = uri /\ \A j \in 1 .. i : both[j].type # "set_uri"
  <2>1. CASE i <= n
    <3>1. i \in 1 .. n /\ both[i] = messages[i]
      BY <1>1, <2>1
    <3>2. \A j \in 1 .. i : both[j] = messages[j]
      BY <1>1, <2>1
    <3>. QED BY <1>2, <3>1, <3>2 DEF Told
  <2>2. CASE i > n
    <3>1. i - n \in 1 .. Len(more) /\ both[i] = more[i - n]
      BY <1>1, <2>2
    <3>2. NoneIs(messages, "set_uri") /\ Told(more, uri)
      BY <1>2, <3>1 DEF NoneIs
    <3>3. more[i - n].of = uri /\ \A j \in 1 .. i - n : more[j].type # "set_uri"
      BY <1>2, <3>1, <3>2 DEF Told
    <3>4. ASSUME NEW j \in 1 .. i
          PROVE  both[j].type # "set_uri"
      <4>1. CASE j <= n
        BY <1>1, <3>2, <4>1 DEF NoneIs
      <4>2. CASE j > n
        <5>1. j - n \in 1 .. i - n /\ both[j] = more[j - n]
          BY <1>1, <4>2
        <5>. QED BY <3>3, <5>1
      <4>. QED BY <1>1, <4>1, <4>2
    <3>. QED BY <3>1, <3>3, <3>4
  <2>. QED BY <1>1, <2>1, <2>2
<1>. QED BY <1>2 DEF Told, both

LEMMA ToldOfAppend ==
    ASSUME NEW messages \in Seq(Msgs), NEW m \in Msgs, NEW uri, Told(messages, uri),
           m.type # "stream_start"
    PROVE  Told(Append(messages, m), uri)
<1>1. /\ Len(Append(messages, m)) = Len(messages) + 1 /\ Len(messages) \in Nat
      /\ \A i \in 1 .. Len(messages) : Append(messages, m)[i] = messages[i]
      /\ Append(messages, m)[Len(messages) + 1] = m
  BY AppendProperties
<1>. QED BY <1>1 DEF Told

LEMMA ToldOfSetDown ==
    ASSUME TypeOK, NEW state \in {"NULL", "READY"}, NEW rest \in Seq(Msgs), NEW uri,
           Told(rest, uri), SetDown(state, rest)
    PROVE  Told(mailbox', uri)
<1>1. PostedOnTheWayTo(state) \in Seq(Msgs)
  BY PostedType, MessagesAreNoCalls
<1>2. NoneIs(PostedOnTheWayTo(state), "stream_start")
  BY DEF PostedOnTheWayTo, StateChanged, NoneIs
<1>3. Staled(rest) \in Seq(Msgs) /\ Told(Staled(rest), uri)
  BY StaledType, ToldOfStaled
<1>4. mailbox' = Staled(rest) \o PostedOnTheWayTo(state)
  BY DEF SetDown
<1>. QED BY <1>1, <1>2, <1>3, <1>4, ToldOfConcat

LEMMA ToldOfSetUp ==
    ASSUME TypeOK, NEW state \in Rolls, NEW rest \in Seq(Msgs), NEW uri,
           Told(rest, uri), SetUp(state, rest)
    PROVE  Told(mailbox', uri)
<1>1. StateChanged(state, None) \in Msgs /\ StateChanged(state, None).type # "stream_start"
  BY DEF StateChanged, Msgs, MessageType, GstStates, Rolls
<1>. QED BY <1>1, ToldOfAppend DEF SetUp

LEMMA NoSetUriWaits ==
    ASSUME CallsWait, ~SetsUri
    PROVE  NoneIs(mailbox, "set_uri")
<1>1. "set_uri" \in CallTypes
  BY DEF CallTypes
<1>2. CASE core.waits
  BY <1>1, <1>2 DEF CallsWait, CallsAre, SetsUri, Idle, NoneIs
<1>3. CASE ~core.waits
  BY <1>1, <1>3 DEF CallsWait, NoCall, NoneIs
<1>. QED BY <1>2, <1>3

LEMMA ToldOfPost ==
    ASSUME TypeOK, CallsWait, StreamInv, audio' = audio,
           NEW messages \in Seq(MessageType), Post(messages),
           \/ NoneIs(messages, "stream_start")
           \/ ~SetsUri /\ Told(messages, audio.pendingUri)
    PROVE  Told(mailbox', audio'.pendingUri)
<1>1. messages \in Seq(Msgs) /\ mailbox \in Seq(Msgs)
  BY MessagesAreNoCalls DEF TypeOK, Msgs
<1>. QED BY <1>1, ToldOfConcat, NoSetUriWaits DEF Post, StreamInv

LEMMA SetDownHeld ==
    ASSUME TypeOK, PipelineHeld, callback = "none", callback' = callback,
           NEW state \in {"NULL", "READY"}, NEW rest, SetDown(state, rest),
           audio'.target = state, audio'.pendingUri = audio.pendingUri,
           SetsUriDown(core'.plan)
    PROVE  PipelineHeld'
<1>1. playbin'.state = state
  BY DEF SetDown, InitPipeline
<1>. QED BY <1>1, SetDownStreams DEF PipelineHeld, IsHeld, IsRolling, Rolls

LEMMA SetUpHeld ==
    ASSUME TypeOK, PipelineHeld, callback' = callback,
           NEW state \in Rolls, NEW rest, SetUp(state, rest),
           audio'.pendingUri = audio.pendingUri,
           SetsUriDown(core'.plan), SetsUri' => callback # "none"
    PROVE  PipelineHeld'
<1>1. playbin'.state = IF IsRolling THEN state ELSE playbin.state
  BY DEF SetUp, TypeOK, PipelineType
<1>2. IsRolling' <=> IsRolling
  BY <1>1 DEF IsRolling, Rolls
<1>. QED BY <1>2, SetUpStreams DEF PipelineHeld, IsHeld

LEMMA HandlersTell ==
    ASSUME IInv, StreamInv,
           \/ OnStateChanged \/ OnBuffering \/ OnEndOfStream
           \/ OnError \/ OnTag \/ OnStreamStart
    PROVE  StreamInv'
<1>. DEFINE m == Head(mailbox)
            rest == Tail(mailbox)
<1>. USE DEF IInv
<1>0. /\ mailbox # << >> /\ mailbox \in Seq(Msgs) /\ rest \in Seq(Msgs)
      /\ core' = core /\ callback' = callback
  BY Received DEF OnStateChanged, OnBuffering, OnEndOfStream, OnError, OnTag, OnStreamStart,
                  ReceiveOnly, Receive, TypeOK, Msgs
<1>1. Told(rest, audio.pendingUri)
  BY <1>0, ToldOfTail DEF StreamInv
<1>2. PipelineHeld /\ SetsUriDown(core'.plan) /\ (SetsUri' <=> SetsUri)
  BY <1>0 DEF StreamInv, PipelineHeld, SetsUri
<1>3. CASE OnStateChanged \/ OnEndOfStream \/ OnTag \/ OnStreamStart
  <2>1. /\ playbin' = playbin /\ mailbox' = rest
        /\ audio'.target = audio.target /\ audio'.pendingUri = audio.pendingUri
    BY <1>3, HandlersLeave
  <2>2. PipelineHeld'
    BY <1>0, <1>2, <2>1 DEF PipelineHeld, IsHeld, IsRolling
  <2>. QED BY <1>1, <2>1, <2>2 DEF StreamInv
<1>4. CASE OnBuffering
  <2>1. audio'.target = audio.target /\ audio'.pendingUri = audio.pendingUri
    <3>1. audio' \in {audio, [audio EXCEPT !.buffering = TRUE], [audio EXCEPT !.buffering = FALSE]}
      BY <1>4 DEF OnBuffering
    <3>. QED BY <3>1 DEF TypeOK, AudioType
  <2>2. \/ mailbox' = rest /\ playbin' = playbin
        \/ audio.target \in Rolls /\ \E state \in Rolls : SetUp(state, rest)
    BY <1>4 DEF OnBuffering, Buffers, Rolls
  <2>3. CASE mailbox' = rest /\ playbin' = playbin
    <3>1. PipelineHeld'
      BY <1>0, <1>2, <2>1, <2>3 DEF PipelineHeld, IsHeld, IsRolling
    <3>. QED BY <1>1, <2>1, <2>3, <3>1 DEF StreamInv
  <2>4. CASE audio.target \in Rolls /\ \E state \in Rolls : SetUp(state, rest)
    <3>1. PICK state \in Rolls : SetUp(state, rest)
      BY <2>4
    <3>2. SetsUri' => callback # "none"
      BY <1>2, <2>4 DEF PipelineHeld, IsHeld
    <3>3. PipelineHeld'
      BY <1>0, <1>2, <2>1, <3>1, <3>2, SetUpHeld
    <3>4. Told(mailbox', audio.pendingUri)
      BY <1>0, <1>1, <3>1, ToldOfSetUp
    <3>. QED BY <2>1, <3>3, <3>4 DEF StreamInv
  <2>. QED BY <2>2, <2>3, <2>4
<1>5. CASE OnError
  <2>1. SetDown("NULL", rest) /\ callback = "none" /\ audio' = Stopped
    BY <1>5 DEF OnError
  <2>2. audio'.target = "NULL" /\ audio'.pendingUri = audio.pendingUri
    BY <2>1 DEF Stopped, TypeOK, AudioType
  <2>3. PipelineHeld'
    BY <1>0, <1>2, <2>1, <2>2, SetDownHeld
  <2>4. Told(mailbox', audio.pendingUri)
    BY <1>0, <1>1, <2>1, ToldOfSetDown
  <2>. QED BY <2>2, <2>3, <2>4 DEF StreamInv
<1>. QED BY <1>3, <1>4, <1>5

LEMMA SetsUriAfter ==
    ASSUME NEW plan \in Seq(CallType), plan # << >>, SetsUriDown(plan)
    PROVE  /\ SetsUriDown(Tail(plan))
           /\ Tail(plan) # << >> /\ Head(Tail(plan)).type = "set_uri"
                 => Head(plan).type = "prepare_change"
<1>1. /\ Len(plan) \in Nat \ {0} /\ Len(Tail(plan)) = Len(plan) - 1
      /\ Head(plan) = plan[1] /\ Tail(plan) \in Seq(CallType)
      /\ \A i \in 1 .. Len(Tail(plan)) : Tail(plan)[i] = plan[i + 1]
  BY HeadTailProperties, EmptySeq
<1>2. Tail(plan) # << >> => /\ 1 \in 1 .. Len(Tail(plan)) /\ 2 \in 2 .. Len(plan)
                            /\ Head(Tail(plan)) = plan[2]
  BY <1>1, EmptySeq
<1>3. Tail(plan) # << >> /\ Head(Tail(plan)).type = "set_uri"
         => Head(plan).type = "prepare_change"
  BY <1>1, <1>2 DEF SetsUriDown
<1>4. ASSUME NEW i \in 2 .. Len(Tail(plan)), Tail(plan)[i].type = "set_uri"
      PROVE  Tail(plan)[i - 1].type = "prepare_change"
  <2>1. /\ i + 1 \in 2 .. Len(plan) /\ (i + 1) - 1 = i /\ plan[i + 1].type = "set_uri"
        /\ Tail(plan)[i - 1] = plan[i]
    BY <1>1, <1>4
  <2>2. plan[(i + 1) - 1].type = "prepare_change"
    BY <2>1 DEF SetsUriDown
  <2>. QED BY <2>1, <2>2
<1>. QED BY <1>3, <1>4 DEF SetsUriDown

LEMMA CallsTell ==
    ASSUME IInv, StreamInv, Calls
    PROVE  StreamInv'
<1>. DEFINE m == Head(mailbox)
            rest == Tail(mailbox)
<1>. USE DEF IInv
<1>0. /\ core.plan \in Seq(CallType) /\ core.plan # << >> /\ m.type = Head(core.plan).type
      /\ mailbox # << >> /\ mailbox \in Seq(Msgs) /\ rest \in Seq(Msgs)
      /\ audio \in AudioType
  BY IsCall DEF TypeOK, Msgs
<1>1. core'.plan = Tail(core.plan) /\ callback' = callback
  BY DEF Calls, PrepareChangeCall, StopPlaybackCall, StartPlaybackCall, PausePlaybackCall,
         SetUriCall, SetPositionCall, GetCurrentTagsCall, Answer, TypeOK
<1>2. SetsUriDown(core'.plan) /\ (SetsUri' => m.type = "prepare_change")
  BY <1>0, <1>1, SetsUriAfter DEF StreamInv, PipelineHeld, SetsUri
<1>3. PipelineHeld /\ Told(rest, audio.pendingUri)
  BY <1>0, ToldOfTail DEF StreamInv
<1>4. CASE PrepareChangeCall \/ StopPlaybackCall
  <2>1. PICK state \in {"NULL", "READY"} :
           SetDown(state, rest) /\ audio'.target = state /\ audio'.pendingUri = audio.pendingUri
    BY <1>0, <1>4 DEF PrepareChangeCall, StopPlaybackCall, Stopped, AudioType
  <2>2. callback = "none"
    BY <1>4 DEF PrepareChangeCall, StopPlaybackCall
  <2>3. PipelineHeld'
    BY <1>1, <1>2, <1>3, <2>1, <2>2, SetDownHeld
  <2>4. Told(mailbox', audio.pendingUri)
    BY <1>0, <1>3, <2>1, ToldOfSetDown
  <2>. QED BY <2>1, <2>3, <2>4 DEF StreamInv
<1>5. CASE StartPlaybackCall \/ PausePlaybackCall
  <2>1. PICK state \in Rolls : SetUp(state, rest) /\ audio'.pendingUri = audio.pendingUri
    BY <1>0, <1>5 DEF StartPlaybackCall, PausePlaybackCall, AudioType, Rolls
  <2>2. ~SetsUri'
    BY <1>2, <1>5 DEF StartPlaybackCall, PausePlaybackCall, Receive
  <2>3. PipelineHeld'
    BY <1>1, <1>2, <1>3, <2>1, <2>2, SetUpHeld
  <2>4. Told(mailbox', audio.pendingUri)
    BY <1>0, <1>3, <2>1, ToldOfSetUp
  <2>. QED BY <2>1, <2>3, <2>4 DEF StreamInv
<1>6. CASE SetUriCall
  <2>1. m.type = "set_uri" /\ mailbox' = rest
    BY <1>6 DEF SetUriCall, Receive
  <2>2. Told(mailbox', audio'.pendingUri)
    BY <1>0, <2>1, ToldOfTail DEF StreamInv
  <2>3. ~SetsUri'
    BY <1>2, <2>1
  <2>4. /\ playbin'.uri = m.uri /\ playbin'.queued \in {m.uri, None}
        /\ playbin'.goal = playbin.goal /\ playbin'.state = playbin.state
    BY <1>6 DEF SetUriCall, TypeOK, PipelineType
  <2>5. audio'.pendingUri = m.uri
    BY <1>0, <1>6 DEF SetUriCall, AudioType
  <2>6. PipelineHeld'
    BY <1>1, <1>2, <1>3, <2>3, <2>4, <2>5 DEF PipelineHeld, IsRolling
  <2>. QED BY <2>2, <2>6 DEF StreamInv
<1>7. CASE SetPositionCall \/ GetCurrentTagsCall
  <2>1. /\ playbin'.uri = playbin.uri /\ playbin'.queued = playbin.queued
        /\ playbin'.goal = playbin.goal /\ playbin'.state = playbin.state
        /\ audio' = audio /\ mailbox' = rest
    BY <1>7 DEF SetPositionCall, GetCurrentTagsCall, TypeOK, PipelineType
  <2>2. ~SetsUri'
    BY <1>2, <1>7 DEF SetPositionCall, GetCurrentTagsCall, Receive
  <2>3. PipelineHeld'
    BY <1>1, <1>2, <1>3, <2>1, <2>2 DEF PipelineHeld, IsRolling
  <2>. QED BY <1>3, <2>1, <2>3 DEF StreamInv
<1>. QED BY <1>4, <1>5, <1>6, <1>7 DEF Calls

\* The callback is under way once at a time, and core is asked once for it.
OneAsks(events) ==
    \A i, j \in 1 .. Len(events) :
        events[i].type = "about_to_finish" /\ events[j].type = "about_to_finish" => i = j

CallbackWaits ==
    /\ callback # "none" => playbin.finishing
    /\ callback # "asked" => NoneIs(inbox, "about_to_finish")
    /\ OneAsks(inbox)

LEMMA AsksOfTail ==
    ASSUME NEW events \in Seq(EventType), events # << >>, OneAsks(events)
    PROVE  /\ OneAsks(Tail(events))
           /\ \/ NoneIs(events, "about_to_finish")
              \/ Head(events).type = "about_to_finish"
              => NoneIs(Tail(events), "about_to_finish")
<1>1. /\ Len(events) \in Nat \ {0} /\ Len(Tail(events)) = Len(events) - 1
      /\ Head(events) = events[1]
      /\ \A i \in 1 .. Len(Tail(events)) : Tail(events)[i] = events[i + 1]
  BY HeadTailProperties, EmptySeq
<1>. QED BY <1>1 DEF OneAsks, NoneIs

LEMMA AsksOfTell ==
    ASSUME TypeOK, OneAsks(inbox), NEW events \in Seq(EventType), Tell(events),
           NoneIs(events, "about_to_finish")
    PROVE  /\ OneAsks(inbox')
           /\ NoneIs(inbox, "about_to_finish") => NoneIs(inbox', "about_to_finish")
<1>. DEFINE n == Len(inbox)
<1>1. /\ inbox \in Seq(EventType) /\ inbox' = inbox \o events
      /\ n \in Nat /\ Len(events) \in Nat
  BY EmptySeq DEF TypeOK, Tell
<1>2. /\ Len(inbox') = n + Len(events)
      /\ \A i \in 1 .. n + Len(events) :
            inbox'[i] = IF i <= n THEN inbox[i] ELSE events[i - n]
  BY <1>1, ConcatProperties
<1>3. \A i \in 1 .. n + Len(events) : inbox'[i].type = "about_to_finish" =>
         i \in 1 .. n /\ inbox[i].type = "about_to_finish"
  BY <1>1, <1>2 DEF NoneIs
<1>. QED BY <1>2, <1>3 DEF OneAsks, NoneIs

LEMMA AskOfTell ==
    ASSUME TypeOK, NoneIs(inbox, "about_to_finish"), Tell(<<[type |-> "about_to_finish"]>>)
    PROVE  OneAsks(inbox')
<1>1. inbox \in Seq(EventType) /\ Len(inbox) \in Nat
  BY EmptySeq DEF TypeOK
<1>2. /\ Len(inbox') = Len(inbox) + 1
      /\ \A i \in 1 .. Len(inbox) : inbox'[i] = inbox[i]
  BY <1>1 DEF Tell
<1>3. \A i \in 1 .. Len(inbox') : inbox'[i].type = "about_to_finish" => i = Len(inbox) + 1
  BY <1>1, <1>2 DEF NoneIs
<1>. QED BY <1>3 DEF OneAsks

LEMMA CallbackKept ==
    ASSUME IInv, CallbackWaits, Next
    PROVE  CallbackWaits'
<1>. USE DEF IInv
<1>1. CASE \/ OnStateChanged \/ OnEndOfStream \/ OnTag \/ OnStreamStart \/ SegmentPasses
  <2>1. callback' = callback /\ playbin'.finishing = playbin.finishing
    <3>1. CASE SegmentPasses
      BY <3>1 DEF SegmentPasses, TypeOK, PipelineType
    <3>. QED BY <1>1, <3>1 DEF OnStateChanged, OnEndOfStream, OnTag, OnStreamStart, ReceiveOnly
  <2>2. inbox' = inbox \/ \E events \in Seq(EventType) :
                             Tell(events) /\ NoneIs(events, "about_to_finish")
    <3>1. CASE OnStateChanged
      <4>. DEFINE one == <<[type |-> "stream_changed", uri |-> None]>>
      <4>1. [type |-> "stream_changed", uri |-> None] \in EventType
        BY DEF EventType
      <4>2. one \in Seq(EventType) /\ << >> \in Seq(EventType)
        BY <4>1
      <4>3. NoneIs(one, "about_to_finish") /\ NoneIs(<< >>, "about_to_finish")
        BY DEF NoneIs
      <4>4. Tell(one) \/ Tell(<< >>)
        BY <3>1 DEF OnStateChanged
      <4>. HIDE DEF one
      <4>. QED BY <4>2, <4>3, <4>4
    <3>2. CASE OnEndOfStream \/ OnTag \/ SegmentPasses
      <4>1. PICK type \in {"reached_end_of_stream", "tags_changed", "position_changed"} :
               inbox' = inbox \/ Tell(<<[type |-> type]>>)
        BY <3>2 DEF OnEndOfStream, OnTag, SegmentPasses
      <4>2. [type |-> type] \in EventType
        BY <4>1 DEF EventType
      <4>3. <<[type |-> type]>> \in Seq(EventType)
        BY <4>2
      <4>4. NoneIs(<<[type |-> type]>>, "about_to_finish")
        BY <4>1 DEF NoneIs
      <4>. QED BY <4>1, <4>3, <4>4
    <3>3. CASE OnStreamStart
      <4>. DEFINE first == <<[type |-> "stream_changed", uri |-> audio.pendingUri]>>
                  then(tags) == IF tags # {} THEN <<[type |-> "tags_changed"]>> ELSE << >>
      <4>1. /\ [type |-> "tags_changed"] \in EventType
            /\ [type |-> "stream_changed", uri |-> audio.pendingUri] \in EventType
        BY DEF EventType, TypeOK, AudioType
      <4>2. first \in Seq(EventType) /\ \A tags : then(tags) \in Seq(EventType)
        BY <4>1
      <4>3. \A tags : first \o then(tags) \in Seq(EventType)
        BY <4>2, ConcatProperties
      <4>4. \A tags : NoneIs(first \o then(tags), "about_to_finish")
        BY DEF NoneIs
      <4>5. \E tags : Tell(first \o then(tags))
        BY <3>3 DEF OnStreamStart
      <4>. QED BY <4>3, <4>4, <4>5
    <3>. QED BY <1>1, <3>1, <3>2, <3>3
  <2>. QED BY <2>1, <2>2, AsksOfTell DEF CallbackWaits
<1>2. CASE OnBuffering \/ StartPlaybackCall \/ PausePlaybackCall
  <2>1. callback' = callback /\ inbox' = inbox /\ playbin'.finishing = playbin.finishing
    <3>1. playbin' = playbin \/ \E state \in Rolls : SetUp(state, Tail(mailbox))
      BY <1>2 DEF OnBuffering, StartPlaybackCall, PausePlaybackCall, Rolls
    <3>2. playbin'.finishing = playbin.finishing
      BY <3>1 DEF SetUp, TypeOK, PipelineType
    <3>. QED BY <1>2, <3>2 DEF OnBuffering, StartPlaybackCall, PausePlaybackCall
  <2>. QED BY <2>1 DEF CallbackWaits
<1>3. CASE \/ OnError \/ PrepareChangeCall \/ StopPlaybackCall \/ SetPositionCall
           \/ NextSourceStarts
  <2>1. callback = "none" /\ callback' = callback /\ inbox' = inbox
    BY <1>3 DEF OnError, PrepareChangeCall, StopPlaybackCall, SetPositionCall,
                NextSourceStarts, AtEnd
  <2>. QED BY <2>1 DEF CallbackWaits
<1>4. CASE \/ SetUriCall \/ GetCurrentTagsCall \/ CoreAsks \/ ClientCalls \/ Preroll \/ SourceEnds
           \/ FindTag \/ BufferRunsLow \/ BufferFills \/ ElementFails
  <2>1. playbin'.finishing = playbin.finishing
    <3>1. CASE SetUriCall
      BY <3>1 DEF SetUriCall, TypeOK, PipelineType
    <3>2. CASE Preroll
      BY <3>2 DEF Preroll, TypeOK, PipelineType
    <3>3. CASE SourceEnds
      BY <3>3 DEF SourceEnds, TypeOK, PipelineType
    <3>. QED BY <1>4, <3>1, <3>2, <3>3
             DEF GetCurrentTagsCall, CoreAsks, ClientCalls, FindTag, BufferRunsLow,
                 BufferFills, Buffering, ElementFails
  <2>2. callback' = callback /\ inbox' = inbox
    BY <1>4 DEF SetUriCall, GetCurrentTagsCall, CoreAsks, ClientCalls, Preroll, SourceEnds,
                FindTag, BufferRunsLow, BufferFills, Buffering, ElementFails
  <2>. QED BY <2>1, <2>2 DEF CallbackWaits
<1>5. CASE CoreHears \/ CoreAnswersCallback
  <2>1. /\ inbox \in Seq(EventType) /\ inbox # << >> /\ inbox' = Tail(inbox)
        /\ playbin' = playbin
    BY <1>5 DEF CoreHears, CoreAnswersCallback, TypeOK
  <2>2. CASE CoreHears
    BY <2>1, <2>2, AsksOfTail DEF CoreHears, CallbackWaits
  <2>3. CASE CoreAnswersCallback
    <3>1. ~NoneIs(inbox, "about_to_finish")
      <4>1. 1 \in 1 .. Len(inbox) /\ Head(inbox) = inbox[1]
        BY <2>1, EmptySeq
      <4>. QED BY <2>3, <4>1 DEF CoreAnswersCallback, NoneIs
    <3>2. playbin.finishing
      BY <3>1 DEF CallbackWaits
    <3>. QED BY <2>1, <2>3, <3>2, AsksOfTail DEF CoreAnswersCallback, CallbackWaits
  <2>. QED BY <1>5, <2>2, <2>3
<1>6. CASE CallbackReturns
  BY <1>6 DEF CallbackReturns, CallbackWaits
<1>7. CASE SourceFinishes
  <2>1. NoneIs(inbox, "about_to_finish")
    BY <1>7 DEF SourceFinishes, CallbackWaits
  <2>2. /\ playbin'.finishing /\ callback' = "asked"
        /\ Tell(<<[type |-> "about_to_finish"]>>)
    BY <1>7 DEF SourceFinishes, TypeOK, PipelineType
  <2>. QED BY <2>1, <2>2, AskOfTell DEF CallbackWaits
<1>. QED BY <1>1, <1>2, <1>3, <1>4, <1>5, <1>6, <1>7 DEF Next, Actor, CoreActs

LEMMA ClientPlans ==
    ASSUME NEW plan \in Plans
    PROVE  SetsUriDown(plan) /\ (plan # << >> => Head(plan).type # "set_uri")
<1>1. CASE plan \in Changes
  <2>1. PICK uri \in Uris, start \in {"start_playback", "pause_playback"}, n \in 1 .. 3 :
           plan = SubSeq(<<CallOf("prepare_change"), SetUriOf(uri), CallOf(start)>>, 1, n)
    BY <1>1 DEF Changes
  <2>. DEFINE whole == <<CallOf("prepare_change"), SetUriOf(uri), CallOf(start)>>
  <2>2. /\ CallOf("prepare_change") \in CallType /\ SetUriOf(uri) \in CallType
        /\ CallOf(start) \in CallType
    BY DEF CallOf, SetUriOf, CallType
  <2>3. \A i \in 1 .. n : whole[i] \in CallType
    BY <2>2
  <2>4. whole[1].type = "prepare_change" /\ whole[3].type # "set_uri"
    BY DEF CallOf
  <2>. HIDE DEF whole
  <2>5. plan = SubSeq(whole, 1, n)
    BY <2>1 DEF whole
  <2>6. plan \in Seq(CallType) /\ Len(plan) = n /\ \A i \in 1 .. n : plan[i] = whole[i]
    BY <2>3, <2>5, SubSeqProperties
  <2>7. SetsUriDown(plan)
    <3>1. ASSUME NEW i \in 2 .. Len(plan), plan[i].type = "set_uri"
          PROVE  plan[i - 1].type = "prepare_change"
      <4>1. i = 2
        BY <2>4, <2>6, <3>1
      <4>2. plan[1] = whole[1]
        BY <2>6
      <4>. QED BY <2>4, <4>1, <4>2
    <3>. QED BY <3>1 DEF SetsUriDown
  <2>8. Head(plan) = plan[1] /\ plan[1] = whole[1]
    BY <2>6
  <2>. QED BY <2>4, <2>7, <2>8
<1>2. CASE \E type \in {"stop_playback", "start_playback", "pause_playback"} :
              plan = <<CallOf(type)>>
  BY <1>2 DEF CallOf, SetsUriDown
<1>3. CASE \E pos \in SeekTo : plan = <<[type |-> "set_position", pos |-> pos]>>
  BY <1>3 DEF SetsUriDown
<1>. QED BY <1>1, <1>2, <1>3 DEF Plans

LEMMA CoreTells ==
    ASSUME IInv, StreamInv, CallbackWaits, CoreActs \/ ClientCalls
    PROVE  StreamInv'
<1>. USE DEF IInv
<1>1. playbin' = playbin /\ audio' = audio /\ (IsRolling' <=> IsRolling)
  BY DEF CoreActs, CoreAsks, CoreHears, CoreAnswersCallback, CallbackReturns, ClientCalls, IsRolling
<1>2. PipelineHeld /\ Told(mailbox, audio.pendingUri)
  BY DEF StreamInv
<1>3. CASE ClientCalls
  <2>1. PICK plan \in Plans : core' = [core EXCEPT !.plan = plan]
    BY <1>3 DEF ClientCalls, Plans
  <2>2. core'.plan = plan
    BY <2>1 DEF TypeOK
  <2>3. SetsUriDown(core'.plan) /\ ~SetsUri'
    BY <2>1, <2>2, ClientPlans DEF SetsUri
  <2>4. mailbox' = mailbox /\ callback' = callback
    BY <1>3 DEF ClientCalls
  <2>. QED BY <1>1, <1>2, <2>3, <2>4 DEF StreamInv, PipelineHeld
<1>4. CASE CoreAsks
  <2>. DEFINE call == Head(core.plan)
  <2>1. core.plan \in Seq(CallType) /\ core.plan # << >> /\ mailbox \in Seq(Msgs)
    BY <1>4 DEF CoreAsks, Idle, TypeOK, Msgs
  <2>2. call \in CallType
    BY <2>1, HeadTailProperties
  <2>3. call \in Msgs /\ call.type # "stream_start"
    BY <2>2 DEF Msgs, CallType
  <2>4. mailbox' = Append(mailbox, call)
    BY <1>4 DEF CoreAsks
  <2>5. Told(mailbox', audio.pendingUri)
    BY <1>2, <2>1, <2>3, <2>4, ToldOfAppend
  <2>6. callback' = callback /\ core'.plan = core.plan
    BY <1>4 DEF CoreAsks, TypeOK
  <2>. QED BY <1>1, <1>2, <2>5, <2>6 DEF StreamInv, PipelineHeld, SetsUri, IsHeld
<1>5. CASE CoreHears
  <2>1. core' \in {core, [core EXCEPT !.title = None],
                   [core EXCEPT !.plan = <<CallOf("get_current_tags")>>]}
    BY <1>5 DEF CoreHears
  <2>2. core'.plan \in {core.plan, <<CallOf("get_current_tags")>>}
    BY <2>1 DEF TypeOK
  <2>3. CASE core'.plan = core.plan
    BY <1>1, <1>2, <1>5, <2>3 DEF CoreHears, StreamInv, PipelineHeld, SetsUri, IsHeld
  <2>4. CASE core'.plan = <<CallOf("get_current_tags")>>
    <3>1. SetsUriDown(core'.plan) /\ ~SetsUri'
      BY <2>4 DEF SetsUriDown, SetsUri, CallOf
    <3>. QED BY <1>1, <1>2, <1>5, <3>1 DEF CoreHears, StreamInv, PipelineHeld
  <2>. QED BY <2>2, <2>3, <2>4
<1>6. CASE CoreAnswersCallback
  <2>1. callback # "none"
    <3>1. inbox \in Seq(EventType) /\ inbox # << >> /\ Head(inbox).type = "about_to_finish"
      BY <1>6 DEF CoreAnswersCallback, TypeOK
    <3>2. 1 \in 1 .. Len(inbox) /\ Head(inbox) = inbox[1]
      BY <3>1, EmptySeq
    <3>. QED BY <3>1, <3>2 DEF CallbackWaits, NoneIs
  <2>2. PICK plan \in {<< >>} \union {<<SetUriOf(uri)>> : uri \in Uris} :
           core' = [core EXCEPT !.plan = plan]
    BY <1>6 DEF CoreAnswersCallback
  <2>3. core'.plan = plan
    BY <2>2 DEF TypeOK
  <2>4. SetsUriDown(<< >>) /\ \A uri \in Uris : SetsUriDown(<<SetUriOf(uri)>>)
    BY DEF SetsUriDown
  <2>5. SetsUriDown(core'.plan) /\ callback' = "handled" /\ mailbox' = mailbox
    BY <1>6, <2>2, <2>3, <2>4 DEF CoreAnswersCallback
  <2>. QED BY <1>1, <1>2, <2>1, <2>5 DEF StreamInv, PipelineHeld, IsHeld
<1>7. CASE CallbackReturns
  <2>1. ~SetsUri' /\ core' = core /\ mailbox' = mailbox /\ callback' = "none"
    BY <1>7 DEF CallbackReturns, SetsUri, Idle
  <2>. QED BY <1>1, <1>2, <2>1 DEF StreamInv, PipelineHeld
<1>. QED BY <1>3, <1>4, <1>5, <1>6, <1>7 DEF CoreActs

LEMMA GStreamerTells ==
    ASSUME IInv, StreamInv, GStreamer
    PROVE  StreamInv'
<1>. USE DEF IInv
<1>1. core' = core /\ audio' = audio /\ PipelineHeld /\ Told(mailbox, audio.pendingUri)
  BY DEF StreamInv, GStreamer, Preroll, SegmentPasses, SourceFinishes, NextSourceStarts,
         SourceEnds, FindTag, BufferRunsLow, BufferFills, Buffering, ElementFails
<1>2. CASE Preroll
  <2>1. /\ playbin.goal \in Rolls /\ ~IsRolling
        /\ Post(<<StreamStart(playbin.uri), StateChanged(playbin.goal, None)>>)
        /\ callback' = callback
    BY <1>2 DEF Preroll, Starting, Rolls
  <2>2. ~SetsUri
    BY <1>1, <2>1 DEF PipelineHeld, IsHeld
  <2>3. /\ playbin'.state = playbin.goal /\ playbin'.goal = playbin.goal
        /\ playbin'.uri = playbin.uri /\ playbin'.queued = playbin.queued
    BY <1>2 DEF Preroll, TypeOK, PipelineType
  <2>4. PipelineHeld'
    BY <1>1, <2>1, <2>2, <2>3 DEF PipelineHeld, SetsUri, IsRolling, Rolls
  <2>5. playbin.uri \in Uris
    BY <2>1 DEF StreamsAreKnown
  <2>6. /\ StreamStart(playbin.uri) \in MessageType
        /\ StateChanged(playbin.goal, None) \in MessageType
    BY <2>1, <2>5 DEF StreamStart, StateChanged, MessageType, GstStates, Rolls
  <2>7. <<StreamStart(playbin.uri), StateChanged(playbin.goal, None)>> \in Seq(MessageType)
    BY <2>6
  <2>8. Told(<<StreamStart(playbin.uri), StateChanged(playbin.goal, None)>>, audio.pendingUri)
    <3>1. playbin.uri = audio.pendingUri
      BY <1>1 DEF PipelineHeld
    <3>. QED BY <3>1 DEF Told, StreamStart, StateChanged
  <2>9. Told(mailbox', audio'.pendingUri)
    BY <1>1, <2>1, <2>2, <2>7, <2>8, ToldOfPost
  <2>. QED BY <2>4, <2>9 DEF StreamInv
<1>3. CASE NextSourceStarts
  <2>1. /\ callback = "none" /\ callback' = callback /\ IsRolling /\ playbin.queued # None
        /\ Post(<<StreamStart(playbin.queued)>>)
    BY <1>3 DEF NextSourceStarts, AtEnd, Plays, IsRolling
  <2>2. ~SetsUri /\ playbin.queued = audio.pendingUri
    BY <1>1, <2>1 DEF PipelineHeld, IsHeld
  <2>3. /\ playbin'.state = playbin.state /\ playbin'.goal = playbin.goal
        /\ playbin'.uri = playbin.uri /\ playbin'.queued = None
    BY <1>3 DEF NextSourceStarts, TypeOK, PipelineType
  <2>4. PipelineHeld'
    BY <1>1, <2>1, <2>2, <2>3 DEF PipelineHeld, SetsUri, IsRolling, Rolls
  <2>5. playbin.queued \in Uris
    BY <2>1 DEF StreamsAreKnown
  <2>6. StreamStart(playbin.queued) \in MessageType
    BY <2>5 DEF StreamStart, MessageType
  <2>7. <<StreamStart(playbin.queued)>> \in Seq(MessageType)
    BY <2>6
  <2>8. Told(<<StreamStart(playbin.queued)>>, audio.pendingUri)
    BY <2>2 DEF Told, StreamStart
  <2>9. Told(mailbox', audio'.pendingUri)
    BY <1>1, <2>1, <2>2, <2>7, <2>8, ToldOfPost
  <2>. QED BY <2>4, <2>9 DEF StreamInv
<1>4. CASE SegmentPasses
  <2>1. /\ playbin'.state = playbin.state /\ playbin'.goal = playbin.goal
        /\ playbin'.uri = playbin.uri /\ playbin'.queued = playbin.queued
        /\ callback' = callback /\ mailbox' = mailbox
    BY <1>4 DEF SegmentPasses, TypeOK, PipelineType
  <2>. QED BY <1>1, <2>1 DEF StreamInv, PipelineHeld, SetsUri, IsHeld, IsRolling
<1>5. CASE SourceFinishes
  <2>1. /\ playbin'.state = playbin.state /\ playbin'.goal = playbin.goal
        /\ playbin'.uri = playbin.uri /\ playbin'.queued = playbin.queued
        /\ callback' = "asked" /\ mailbox' = mailbox /\ IsRolling
    BY <1>5 DEF SourceFinishes, Plays, IsRolling, TypeOK, PipelineType
  <2>. QED BY <1>1, <2>1 DEF StreamInv, PipelineHeld, SetsUri, IsHeld, IsRolling
<1>6. CASE SourceEnds \/ FindTag \/ BufferRunsLow \/ BufferFills \/ ElementFails
  <2>1. /\ playbin'.state = playbin.state /\ playbin'.goal = playbin.goal
        /\ playbin'.uri = playbin.uri /\ playbin'.queued = playbin.queued
        /\ callback' = callback
    <3>1. CASE SourceEnds
      BY <3>1 DEF SourceEnds, TypeOK, PipelineType
    <3>. QED BY <1>6, <3>1 DEF FindTag, BufferRunsLow, BufferFills, Buffering, ElementFails
  <2>2. PICK m \in MessageType : Post(<<m>>) /\ m.type # "stream_start"
    <3>1. CASE SourceEnds
      <4>1. [type |-> "end_of_stream"] \in MessageType
        BY DEF MessageType
      <4>. QED BY <3>1, <4>1 DEF SourceEnds
    <3>2. CASE FindTag
      <4>1. StreamOf(playbin) \in Uris
        BY <3>2, StreamOfType DEF FindTag
      <4>2. [type |-> "tag", of |-> StreamOf(playbin)] \in MessageType
        BY <4>1 DEF MessageType
      <4>. QED BY <3>2, <4>2 DEF FindTag
    <3>3. CASE BufferRunsLow \/ BufferFills
      <4>1. PICK percent \in {0, 100} : Buffering(percent)
        BY <3>3 DEF BufferRunsLow, BufferFills
      <4>2. [type |-> "buffering", percent |-> percent, live |-> StreamOf(playbin) \in Live,
             stale |-> FALSE] \in MessageType
        BY <4>1 DEF MessageType
      <4>. QED BY <4>1, <4>2 DEF Buffering
    <3>4. CASE ElementFails
      <4>1. [type |-> "error"] \in MessageType
        BY DEF MessageType
      <4>. QED BY <3>4, <4>1 DEF ElementFails
    <3>. QED BY <1>6, <3>1, <3>2, <3>3, <3>4
  <2>3. <<m>> \in Seq(MessageType) /\ NoneIs(<<m>>, "stream_start")
    BY <2>2 DEF NoneIs
  <2>4. Told(mailbox', audio'.pendingUri)
    BY <1>1, <2>2, <2>3, ToldOfPost
  <2>5. PipelineHeld'
    BY <1>1, <2>1 DEF PipelineHeld, SetsUri, IsHeld, IsRolling
  <2>. QED BY <2>4, <2>5 DEF StreamInv
<1>. QED BY <1>2, <1>3, <1>4, <1>5, <1>6 DEF GStreamer

LEMMA InitStreamInv ==
    ASSUME Init
    PROVE  StreamInv /\ CallbackWaits
<1>1. StreamInv
  BY DEF Init, StreamInv, PipelineHeld, Told, InitPipeline, InitAudio, IsRolling,
         SetsUriDown, SetsUri
<1>2. CallbackWaits
  BY DEF Init, CallbackWaits, NoneIs, OneAsks
<1>. QED BY <1>1, <1>2

LEMMA NextStreamInv ==
    ASSUME IInv, StreamInv, CallbackWaits, [Next]_vars
    PROVE  StreamInv' /\ CallbackWaits'
<1>1. CASE Next
  <2>1. CallbackWaits'
    BY <1>1, CallbackKept
  <2>2. StreamInv'
    BY <1>1, HandlersTell, CallsTell, CoreTells, GStreamerTells
       DEF Next, Actor, Calls, GStreamer
  <2>. QED BY <2>1, <2>2
<1>2. CASE UNCHANGED vars
  BY <1>2 DEF vars, StreamInv, PipelineHeld, Told, SetsUri, IsHeld, IsRolling,
              CallbackWaits, NoneIs, OneAsks
<1>. QED BY <1>1, <1>2

\* stream_changed is told with the URI of the stream that has started: the one
\* core set last is still the one a STREAM_START is of when its turn comes.
THEOREM AlwaysToldWhatHasStarted == Spec => []StreamToldHasStarted
<1>. DEFINE TInv == IInv /\ StreamInv /\ CallbackWaits
<1>1. Init => TInv
  BY InitIInv, InitStreamInv
<1>2. TInv /\ [Next]_vars => TInv'
  BY NextIInv, NextStreamInv
<1>3. TInv => StreamToldHasStarted
  <2>. SUFFICES ASSUME TInv, Receive("stream_start")
                PROVE  Head(mailbox).of = audio.pendingUri
    BY DEF StreamToldHasStarted
  <2>1. mailbox \in Seq(Msgs) /\ mailbox # << >> /\ Head(mailbox).type = "stream_start"
    BY DEF IInv, TypeOK, Msgs, Receive
  <2>. QED BY <2>1, ToldOfTail DEF StreamInv
<1>. QED BY <1>1, <1>2, <1>3, PTL DEF Spec

-----------------------------------------------------------------------------
(* What a buffer holds up.  A buffering message of a stream that is gone is *)
(* handled before core's next start, when the actor does not listen to it.  *)
(* An error could make one come behind a start that waits: but from an      *)
(* element that has failed no more is heard.                                *)

\* No message of a buffer that is gone comes while, or behind what makes, a stream start.
HoldsBack(messages, target) ==
    \A i \in 1 .. Len(messages) : messages[i].type = "buffering" /\ messages[i].stale =>
        /\ target \notin Rolls
        /\ \A j \in 1 .. i : messages[j].type \notin Starts

\* Behind an error there is no other, nor anything of a buffer that is not gone.
ErrorIsLast(messages) ==
    \A i, k \in 1 .. Len(messages) : messages[i].type = "error" /\ i < k =>
        /\ messages[k].type # "error"
        /\ messages[k].type = "buffering" => messages[k].stale

\* An error comes before what makes a stream start.
ErrorIsFirst(messages) ==
    \A i \in 1 .. Len(messages) : messages[i].type = "error" =>
        \A j \in 1 .. i : messages[j].type \notin Starts

NoStream == playbin.source = None /\ playbin.goal \notin Rolls

BufferInv ==
    /\ audio.target \in Rolls <=> playbin.goal \in Rolls
    /\ HoldsBack(mailbox, audio.target)
    /\ ErrorIsLast(mailbox)
    /\ ~NoneIs(mailbox, "error") /\ ~broken => NoStream /\ ErrorIsFirst(mailbox)

AllGone(messages) ==
    \A i \in 1 .. Len(messages) : messages[i].type = "buffering" => messages[i].stale

LEMMA BufferOfTail ==
    ASSUME NEW messages \in Seq(Msgs), messages # << >>, ErrorIsLast(messages)
    PROVE  /\ \A target : HoldsBack(messages, target) => HoldsBack(Tail(messages), target)
           /\ Head(messages).type \in Starts =>
                 \A old, target : HoldsBack(messages, old) => HoldsBack(Tail(messages), target)
           /\ ErrorIsLast(Tail(messages))
           /\ Head(messages).type = "error" =>
                 NoneIs(Tail(messages), "error") /\ AllGone(Tail(messages))
           /\ ErrorIsFirst(messages) =>
                 /\ ErrorIsFirst(Tail(messages))
                 /\ Head(messages).type \in Starts => NoneIs(messages, "error")
           /\ NoneIs(messages, "error") => NoneIs(Tail(messages), "error")
<1>. DEFINE tail == Tail(messages)
<1>1. /\ Len(messages) \in Nat \ {0} /\ Len(tail) = Len(messages) - 1 /\ Len(tail) \in Nat
      /\ Head(messages) = messages[1]
      /\ \A i \in 1 .. Len(tail) : tail[i] = messages[i + 1] /\ i + 1 \in 1 .. Len(messages)
  BY HeadTailProperties, EmptySeq
<1>. HIDE DEF tail
<1>2. ASSUME NEW i \in 1 .. Len(tail), \A j \in 1 .. i + 1 : messages[j].type \notin Starts
      PROVE  Head(messages).type \notin Starts /\ \A j \in 1 .. i : tail[j].type \notin Starts
  <2>1. 1 \in 1 .. i + 1
    OBVIOUS
  <2>2. \A j \in 1 .. i : j + 1 \in 1 .. i + 1 /\ tail[j] = messages[j + 1]
    BY <1>1
  <2>. QED BY <1>1, <1>2, <2>1, <2>2
<1>3. ASSUME NEW target, HoldsBack(messages, target),
             NEW i \in 1 .. Len(tail), tail[i].type = "buffering", tail[i].stale
      PROVE  /\ target \notin Rolls /\ Head(messages).type \notin Starts
             /\ \A j \in 1 .. i : tail[j].type \notin Starts
  <2>1. /\ i + 1 \in 1 .. Len(messages) /\ messages[i + 1].type = "buffering"
        /\ messages[i + 1].stale
    BY <1>1, <1>3
  <2>2. target \notin Rolls /\ \A j \in 1 .. i + 1 : messages[j].type \notin Starts
    BY <1>3, <2>1 DEF HoldsBack
  <2>. QED BY <1>2, <2>2
<1>4. /\ \A target : HoldsBack(messages, target) => HoldsBack(tail, target)
      /\ Head(messages).type \in Starts =>
            \A old, target : HoldsBack(messages, old) => HoldsBack(tail, target)
  <2>1. ASSUME NEW target, HoldsBack(messages, target)
        PROVE  HoldsBack(tail, target)
    BY <1>3, <2>1 DEF HoldsBack
  <2>2. ASSUME Head(messages).type \in Starts, NEW old, NEW target, HoldsBack(messages, old)
        PROVE  HoldsBack(tail, target)
    BY <1>3, <2>2 DEF HoldsBack
  <2>. QED BY <2>1, <2>2
<1>5. ErrorIsLast(tail)
  <2>1. ASSUME NEW i \in 1 .. Len(tail), NEW k \in 1 .. Len(tail), tail[i].type = "error", i < k
        PROVE  tail[k].type # "error" /\ (tail[k].type = "buffering" => tail[k].stale)
    <3>1. /\ i + 1 \in 1 .. Len(messages) /\ k + 1 \in 1 .. Len(messages) /\ i + 1 < k + 1
          /\ tail[i] = messages[i + 1] /\ tail[k] = messages[k + 1]
      BY <1>1, <2>1
    <3>. QED BY <2>1, <3>1 DEF ErrorIsLast
  <2>. QED BY <2>1 DEF ErrorIsLast
<1>6. ASSUME Head(messages).type = "error"
      PROVE  NoneIs(tail, "error") /\ AllGone(tail)
  <2>1. ASSUME NEW i \in 1 .. Len(tail)
        PROVE  tail[i].type # "error" /\ (tail[i].type = "buffering" => tail[i].stale)
    <3>1. /\ 1 \in 1 .. Len(messages) /\ i + 1 \in 1 .. Len(messages) /\ 1 < i + 1
          /\ messages[1].type = "error" /\ tail[i] = messages[i + 1]
      BY <1>1, <1>6
    <3>. QED BY <3>1 DEF ErrorIsLast
  <2>. QED BY <2>1 DEF NoneIs, AllGone
<1>7. ASSUME ErrorIsFirst(messages)
      PROVE  /\ ErrorIsFirst(tail)
             /\ Head(messages).type \in Starts => NoneIs(messages, "error")
  <2>1. ASSUME NEW i \in 1 .. Len(tail), tail[i].type = "error"
        PROVE  \A j \in 1 .. i : tail[j].type \notin Starts
    <3>1. i + 1 \in 1 .. Len(messages) /\ messages[i + 1].type = "error"
      BY <1>1, <2>1
    <3>. QED BY <1>2, <1>7, <3>1 DEF ErrorIsFirst
  <2>2. ASSUME NEW i \in 1 .. Len(messages), messages[i].type = "error"
        PROVE  Head(messages).type \notin Starts
    <3>1. 1 \in 1 .. i
      OBVIOUS
    <3>. QED BY <1>1, <1>7, <2>2, <3>1 DEF ErrorIsFirst
  <2>. QED BY <2>1, <2>2 DEF ErrorIsFirst, NoneIs
<1>8. NoneIs(messages, "error") => NoneIs(tail, "error")
  BY <1>1 DEF NoneIs
<1>. QED BY <1>4, <1>5, <1>6, <1>7, <1>8 DEF tail

LEMMA BufferOfStaled ==
    ASSUME NEW messages \in Seq(Msgs), ErrorIsLast(messages)
    PROVE  /\ \A old, target :
                 /\ NoCall(messages) \/ (AllGone(messages) /\ HoldsBack(messages, old))
                 /\ target \notin Rolls
                 => HoldsBack(Staled(messages), target)
           /\ ErrorIsLast(Staled(messages))
           /\ ErrorIsFirst(messages) => ErrorIsFirst(Staled(messages))
           /\ NoneIs(messages, "error") => NoneIs(Staled(messages), "error")
           /\ NoCall(messages) => ErrorIsFirst(Staled(messages))
<1>. DEFINE staled == Staled(messages)
<1>1. /\ Len(staled) = Len(messages)
      /\ \A i \in 1 .. Len(messages) : staled[i].type = messages[i].type
  BY StaledType
<1>2. \A i \in 1 .. Len(messages) : staled[i].type = "buffering" => staled[i].stale
  <2>1. \A m \in Msgs : m.type = "buffering" => [m EXCEPT !.stale = TRUE].stale = TRUE
    BY DEF Msgs, MessageType, CallType
  <2>. QED BY <1>1, <2>1 DEF Staled
<1>. HIDE DEF staled
<1>3. NoCall(messages) => \A i \in 1 .. Len(messages) : messages[i].type \notin Starts
  BY DEF NoCall, CallTypes, Starts
<1>4. ASSUME NEW old, NEW target, target \notin Rolls,
             NoCall(messages) \/ (AllGone(messages) /\ HoldsBack(messages, old))
      PROVE  HoldsBack(staled, target)
  <2>1. CASE NoCall(messages)
    BY <1>1, <1>3, <1>4, <2>1 DEF HoldsBack
  <2>2. CASE AllGone(messages) /\ HoldsBack(messages, old)
    <3>1. ASSUME NEW i \in 1 .. Len(messages), messages[i].type = "buffering"
          PROVE  \A j \in 1 .. i : messages[j].type \notin Starts
      BY <2>2, <3>1 DEF AllGone, HoldsBack
    <3>. QED BY <1>1, <1>4, <3>1 DEF HoldsBack
  <2>. QED BY <1>4, <2>1, <2>2
<1>5. ErrorIsLast(staled)
  BY <1>1, <1>2 DEF ErrorIsLast
<1>6. /\ ErrorIsFirst(messages) => ErrorIsFirst(staled)
      /\ NoneIs(messages, "error") => NoneIs(staled, "error")
      /\ NoCall(messages) => ErrorIsFirst(staled)
  BY <1>1, <1>3 DEF ErrorIsFirst, NoneIs
<1>. QED BY <1>4, <1>5, <1>6 DEF staled

LEMMA BufferOfAppend ==
    ASSUME NEW messages \in Seq(Msgs), NEW m \in Msgs, ErrorIsLast(messages),
           m.type = "buffering" => ~m.stale,
           m.type \in {"buffering", "error"} => NoneIs(messages, "error")
    PROVE  /\ \A target : HoldsBack(messages, target) => HoldsBack(Append(messages, m), target)
           /\ ErrorIsLast(Append(messages, m))
           /\ m.type # "error" =>
                 /\ NoneIs(messages, "error") => NoneIs(Append(messages, m), "error")
                 /\ ErrorIsFirst(messages) => ErrorIsFirst(Append(messages, m))
<1>. DEFINE more == Append(messages, m)
<1>1. /\ Len(more) = Len(messages) + 1 /\ Len(messages) \in Nat
      /\ \A i \in 1 .. Len(messages) : more[i] = messages[i]
      /\ more[Len(messages) + 1] = m
  BY AppendProperties
<1>. HIDE DEF more
<1>2. \A i \in 1 .. Len(more) : i \in 1 .. Len(messages) \/ more[i] = m
  BY <1>1
<1>3. ASSUME NEW target, HoldsBack(messages, target)
      PROVE  HoldsBack(more, target)
  <2>1. ASSUME NEW i \in 1 .. Len(more), more[i].type = "buffering", more[i].stale
        PROVE  target \notin Rolls /\ \A j \in 1 .. i : more[j].type \notin Starts
    <3>1. i \in 1 .. Len(messages) /\ more[i] = messages[i]
      BY <1>1, <1>2, <2>1
    <3>2. \A j \in 1 .. i : more[j] = messages[j]
      BY <1>1, <3>1
    <3>. QED BY <1>3, <2>1, <3>1, <3>2 DEF HoldsBack
  <2>. QED BY <2>1 DEF HoldsBack
<1>4. ErrorIsLast(more)
  <2>1. ASSUME NEW i \in 1 .. Len(more), NEW k \in 1 .. Len(more), more[i].type = "error", i < k
        PROVE  more[k].type # "error" /\ (more[k].type = "buffering" => more[k].stale)
    <3>1. i \in 1 .. Len(messages) /\ more[i] = messages[i]
      BY <1>1, <2>1
    <3>2. CASE k \in 1 .. Len(messages)
      BY <1>1, <2>1, <3>1, <3>2 DEF ErrorIsLast
    <3>3. CASE more[k] = m
      BY <2>1, <3>1, <3>3 DEF NoneIs
    <3>. QED BY <1>2, <3>2, <3>3
  <2>. QED BY <2>1 DEF ErrorIsLast
<1>5. ASSUME m.type # "error"
      PROVE  /\ NoneIs(messages, "error") => NoneIs(more, "error")
             /\ ErrorIsFirst(messages) => ErrorIsFirst(more)
  <2>1. ASSUME ErrorIsFirst(messages), NEW i \in 1 .. Len(more), more[i].type = "error"
        PROVE  \A j \in 1 .. i : more[j].type \notin Starts
    <3>1. i \in 1 .. Len(messages) /\ more[i] = messages[i]
      BY <1>1, <1>2, <1>5, <2>1
    <3>2. \A j \in 1 .. i : more[j] = messages[j]
      BY <1>1, <3>1
    <3>. QED BY <2>1, <3>1, <3>2 DEF ErrorIsFirst
  <2>2. NoneIs(messages, "error") => NoneIs(more, "error")
    BY <1>1, <1>2, <1>5 DEF NoneIs
  <2>. QED BY <2>1, <2>2 DEF ErrorIsFirst
<1>. QED BY <1>3, <1>4, <1>5 DEF more

\* Messages that are neither of a buffer nor an error.
LEMMA BufferOfConcat ==
    ASSUME NEW messages \in Seq(Msgs), NEW more \in Seq(Msgs), ErrorIsLast(messages),
           NoneIs(more, "buffering"), NoneIs(more, "error")
    PROVE  /\ \A target : HoldsBack(messages, target) => HoldsBack(messages \o more, target)
           /\ ErrorIsLast(messages \o more)
           /\ NoneIs(messages, "error") => NoneIs(messages \o more, "error")
           /\ ErrorIsFirst(messages) => ErrorIsFirst(messages \o more)
<1>. DEFINE both == messages \o more
            n == Len(messages)
<1>1. /\ Len(both) = n + Len(more) /\ n \in Nat /\ Len(more) \in Nat
      /\ \A i \in 1 .. n + Len(more) :
            both[i] = IF i <= n THEN messages[i] ELSE more[i - n]
  BY ConcatProperties
<1>. HIDE DEF both
<1>2. ASSUME NEW i \in 1 .. Len(both), both[i].type \in {"buffering", "error"}
      PROVE  i \in 1 .. n /\ \A j \in 1 .. i : both[j] = messages[j]
  <2>1. i <= n
    <3>1. i > n => i - n \in 1 .. Len(more) /\ both[i] = more[i - n]
      BY <1>1
    <3>. QED BY <1>1, <1>2, <3>1 DEF NoneIs
  <2>. QED BY <1>1, <2>1
<1>3. ASSUME NEW target, HoldsBack(messages, target)
      PROVE  HoldsBack(both, target)
  BY <1>2, <1>3 DEF HoldsBack
<1>4. ErrorIsLast(both)
  BY <1>2 DEF ErrorIsLast
<1>5. NoneIs(messages, "error") => NoneIs(both, "error")
  BY <1>2 DEF NoneIs
<1>6. ErrorIsFirst(messages) => ErrorIsFirst(both)
  BY <1>2 DEF ErrorIsFirst
<1>. QED BY <1>3, <1>4, <1>5, <1>6 DEF both

LEMMA SetDownHolds ==
    ASSUME TypeOK, NEW state \in {"NULL", "READY"}, NEW rest \in Seq(Msgs), NEW old,
           ErrorIsLast(rest), SetDown(state, rest), audio'.target = state,
           \/ NoCall(rest)
           \/ AllGone(rest) /\ HoldsBack(rest, old) /\ NoneIs(rest, "error")
    PROVE  BufferInv'
<1>. DEFINE posted == PostedOnTheWayTo(state)
            staled == Staled(rest)
<1>1. posted \in Seq(Msgs)
  BY PostedType, MessagesAreNoCalls
<1>2. NoneIs(posted, "buffering") /\ NoneIs(posted, "error")
  BY DEF PostedOnTheWayTo, StateChanged, NoneIs
<1>3. staled \in Seq(Msgs) /\ ErrorIsLast(staled) /\ HoldsBack(staled, state)
      /\ (NoneIs(staled, "error") \/ ErrorIsFirst(staled))
  BY StaledType, BufferOfStaled DEF Rolls
<1>4. mailbox' = staled \o posted
  BY DEF SetDown
<1>. HIDE DEF staled, posted
<1>5. /\ HoldsBack(mailbox', state) /\ ErrorIsLast(mailbox')
      /\ NoneIs(mailbox', "error") \/ ErrorIsFirst(mailbox')
  BY <1>1, <1>2, <1>3, <1>4, BufferOfConcat
<1>6. NoStream'
  BY SetDownStreams DEF NoStream, Rolls
<1>7. audio'.target \notin Rolls /\ playbin'.goal \notin Rolls
  BY SetDownStreams DEF Rolls
<1>. QED BY <1>5, <1>6, <1>7 DEF BufferInv

LEMMA SetUpHolds ==
    ASSUME TypeOK, NEW state \in Rolls, NEW rest \in Seq(Msgs),
           ErrorIsLast(rest), SetUp(state, rest), audio'.target \in Rolls,
           HoldsBack(rest, audio'.target), NoneIs(rest, "error") \/ broken
    PROVE  BufferInv'
<1>1. /\ StateChanged(state, None) \in Msgs
      /\ StateChanged(state, None).type \notin {"buffering", "error"}
  BY DEF StateChanged, Msgs, MessageType, GstStates, Rolls
<1>2. mailbox' = rest \/ mailbox' = Append(rest, StateChanged(state, None))
  BY DEF SetUp
<1>3. /\ HoldsBack(mailbox', audio'.target) /\ ErrorIsLast(mailbox')
      /\ NoneIs(rest, "error") => NoneIs(mailbox', "error")
  BY <1>1, <1>2, BufferOfAppend
<1>4. broken' = broken /\ playbin'.goal \in Rolls
  BY SetUpStreams DEF SetUp
<1>. QED BY <1>3, <1>4 DEF BufferInv

\* Messages that are handled, and do not matter here.
LEMMA TakenHolds ==
    ASSUME TypeOK, BufferInv, mailbox # << >>, mailbox' = Tail(mailbox), broken' = broken,
           audio'.target = audio.target, playbin'.goal = playbin.goal,
           playbin'.source = playbin.source
    PROVE  BufferInv'
<1>1. mailbox \in Seq(Msgs)
  BY DEF TypeOK, Msgs
<1>2. /\ HoldsBack(mailbox', audio'.target) /\ ErrorIsLast(mailbox')
      /\ NoneIs(mailbox, "error") => NoneIs(mailbox', "error")
      /\ ErrorIsFirst(mailbox) => ErrorIsFirst(mailbox')
  BY <1>1, BufferOfTail DEF BufferInv
<1>. QED BY <1>2 DEF BufferInv, NoStream

LEMMA HandlersHold ==
    ASSUME IInv, BufferInv,
           \/ OnStateChanged \/ OnBuffering \/ OnEndOfStream
           \/ OnError \/ OnTag \/ OnStreamStart
    PROVE  BufferInv'
<1>. DEFINE m == Head(mailbox)
            rest == Tail(mailbox)
<1>. USE DEF IInv
<1>0. mailbox # << >> /\ mailbox \in Seq(Msgs) /\ rest \in Seq(Msgs)
  BY Received DEF OnStateChanged, OnBuffering, OnEndOfStream, OnError, OnTag, OnStreamStart,
                  ReceiveOnly, Receive, TypeOK, Msgs
<1>1. /\ HoldsBack(rest, audio.target) /\ ErrorIsLast(rest)
      /\ NoneIs(mailbox, "error") => NoneIs(rest, "error")
  BY <1>0, BufferOfTail DEF BufferInv
<1>2. CASE OnStateChanged \/ OnEndOfStream \/ OnTag \/ OnStreamStart
  BY <1>0, <1>2, HandlersLeave, TakenHolds
<1>3. CASE OnBuffering
  <2>1. audio'.target = audio.target
    <3>1. audio' \in {audio, [audio EXCEPT !.buffering = TRUE], [audio EXCEPT !.buffering = FALSE]}
      BY <1>3 DEF OnBuffering
    <3>. QED BY <3>1 DEF TypeOK, AudioType
  <2>2. \/ mailbox' = rest /\ playbin' = playbin /\ broken' = broken
        \/ audio.target \in Rolls /\ \E state \in Rolls : SetUp(state, rest)
    BY <1>3 DEF OnBuffering, Buffers, Rolls
  <2>3. CASE mailbox' = rest /\ playbin' = playbin /\ broken' = broken
    BY <1>0, <2>1, <2>3, TakenHolds
  <2>4. CASE audio.target \in Rolls /\ \E state \in Rolls : SetUp(state, rest)
    <3>1. PICK state \in Rolls : SetUp(state, rest)
      BY <2>4
    <3>2. NoneIs(rest, "error") \/ broken
      BY <1>1, <2>4 DEF BufferInv, NoStream
    <3>. QED BY <1>0, <1>1, <2>1, <2>4, <3>1, <3>2, SetUpHolds
  <2>. QED BY <2>2, <2>3, <2>4
<1>4. CASE OnError
  <2>1. SetDown("NULL", rest) /\ audio' = Stopped /\ m.type = "error"
    BY <1>4 DEF OnError, Receive
  <2>2. audio'.target = "NULL"
    BY <2>1 DEF Stopped, TypeOK, AudioType
  <2>3. NoneIs(rest, "error") /\ AllGone(rest)
    BY <1>0, <2>1, BufferOfTail DEF BufferInv
  <2>. QED BY <1>0, <1>1, <2>1, <2>2, <2>3, SetDownHolds
<1>. QED BY <1>2, <1>3, <1>4

LEMMA CallsHold ==
    ASSUME IInv, BufferInv, Calls
    PROVE  BufferInv'
<1>. DEFINE m == Head(mailbox)
            rest == Tail(mailbox)
<1>. USE DEF IInv
<1>0. /\ mailbox # << >> /\ mailbox \in Seq(Msgs) /\ rest \in Seq(Msgs) /\ NoCall(rest)
      /\ audio \in AudioType
  BY IsCall DEF TypeOK, Msgs
<1>1. ErrorIsLast(rest) /\ (NoneIs(mailbox, "error") => NoneIs(rest, "error"))
  BY <1>0, BufferOfTail DEF BufferInv
<1>2. CASE PrepareChangeCall \/ StopPlaybackCall
  <2>1. PICK state \in {"NULL", "READY"} : SetDown(state, rest) /\ audio'.target = state
    BY <1>0, <1>2 DEF PrepareChangeCall, StopPlaybackCall, Stopped, AudioType
  <2>. QED BY <1>0, <1>1, <2>1, SetDownHolds
<1>3. CASE StartPlaybackCall \/ PausePlaybackCall
  <2>1. PICK state \in Rolls : SetUp(state, rest) /\ audio'.target = state
    BY <1>0, <1>3 DEF StartPlaybackCall, PausePlaybackCall, AudioType, Rolls
  <2>2. m.type \in Starts
    BY <1>3 DEF StartPlaybackCall, PausePlaybackCall, Receive, Starts
  <2>3. HoldsBack(rest, audio'.target)
    BY <1>0, <2>2, BufferOfTail DEF BufferInv
  <2>4. NoneIs(rest, "error") \/ broken
    BY <1>0, <1>1, <2>2, BufferOfTail DEF BufferInv
  <2>. QED BY <1>0, <1>1, <2>1, <2>3, <2>4, SetUpHolds
<1>4. CASE SetUriCall \/ SetPositionCall \/ GetCurrentTagsCall
  <2>1. mailbox' = rest /\ broken' = broken
    BY <1>4 DEF SetUriCall, SetPositionCall, GetCurrentTagsCall
  <2>2. playbin'.goal = playbin.goal /\ playbin'.source = playbin.source
    <3>1. CASE SetUriCall
      BY <3>1 DEF SetUriCall, TypeOK, PipelineType
    <3>2. CASE SetPositionCall \/ GetCurrentTagsCall
      BY <3>2 DEF SetPositionCall, GetCurrentTagsCall, TypeOK, PipelineType
    <3>. QED BY <1>4, <3>1, <3>2
  <2>3. audio'.target = audio.target
    BY <1>0, <1>4 DEF SetUriCall, SetPositionCall, GetCurrentTagsCall, AudioType
  <2>. QED BY <1>0, <2>1, <2>2, <2>3, TakenHolds
<1>. QED BY <1>2, <1>3, <1>4 DEF Calls

LEMMA CoreHolds ==
    ASSUME IInv, BufferInv, CoreActs \/ ClientCalls
    PROVE  BufferInv'
<1>. USE DEF IInv
<1>1. playbin' = playbin /\ audio' = audio /\ broken' = broken
  BY DEF CoreActs, CoreAsks, CoreHears, CoreAnswersCallback, CallbackReturns, ClientCalls
<1>2. CASE CoreAsks
  <2>. DEFINE call == Head(core.plan)
  <2>1. core.plan \in Seq(CallType) /\ core.plan # << >> /\ mailbox \in Seq(Msgs)
    BY <1>2 DEF CoreAsks, Idle, TypeOK, Msgs
  <2>2. call \in CallType
    BY <2>1, HeadTailProperties
  <2>3. call \in Msgs /\ call.type \notin {"buffering", "error"}
    BY <2>2 DEF Msgs, CallType
  <2>4. mailbox' = Append(mailbox, call)
    BY <1>2 DEF CoreAsks
  <2>. HIDE DEF call
  <2>. QED BY <1>1, <2>1, <2>3, <2>4, BufferOfAppend DEF BufferInv, NoStream
<1>3. CASE mailbox' = mailbox
  BY <1>1, <1>3 DEF BufferInv, NoStream
<1>. QED BY <1>2, <1>3 DEF CoreActs, CoreHears, CoreAnswersCallback, CallbackReturns, ClientCalls

LEMMA GStreamerHolds ==
    ASSUME IInv, BufferInv, GStreamer
    PROVE  BufferInv'
<1>. USE DEF IInv
<1>0. mailbox \in Seq(Msgs) /\ audio' = audio
  BY DEF TypeOK, Msgs, GStreamer, Preroll, SegmentPasses, SourceFinishes, NextSourceStarts,
         SourceEnds, FindTag, BufferRunsLow, BufferFills, Buffering, ElementFails
<1>1. CASE Preroll
  <2>. DEFINE posted == <<StreamStart(playbin.uri), StateChanged(playbin.goal, None)>>
  <2>1. playbin.goal \in Rolls /\ Post(posted) /\ broken' = broken
    BY <1>1 DEF Preroll, Starting, Rolls
  <2>2. playbin'.goal = playbin.goal
    BY <1>1 DEF Preroll, TypeOK, PipelineType
  <2>3. playbin.uri \in Uris
    BY <2>1 DEF StreamsAreKnown
  <2>4. /\ StreamStart(playbin.uri) \in Msgs
        /\ StateChanged(playbin.goal, None) \in Msgs
    BY <2>1, <2>3 DEF StreamStart, StateChanged, MessageType, Msgs, GstStates, Rolls
  <2>5. posted \in Seq(Msgs) /\ NoneIs(posted, "buffering") /\ NoneIs(posted, "error")
    BY <2>4 DEF NoneIs, StreamStart, StateChanged
  <2>6. mailbox' = mailbox \o posted
    BY <2>1 DEF Post
  <2>. HIDE DEF posted
  <2>7. /\ HoldsBack(mailbox', audio.target) /\ ErrorIsLast(mailbox')
        /\ NoneIs(mailbox, "error") => NoneIs(mailbox', "error")
    BY <1>0, <2>5, <2>6, BufferOfConcat DEF BufferInv
  <2>. QED BY <1>0, <2>1, <2>2, <2>7 DEF BufferInv, NoStream
<1>2. CASE SegmentPasses \/ SourceFinishes
  <2>1. /\ playbin'.goal = playbin.goal /\ playbin'.source = playbin.source
        /\ mailbox' = mailbox /\ broken' = broken
    BY <1>2 DEF SegmentPasses, SourceFinishes, TypeOK, PipelineType
  <2>. QED BY <1>0, <2>1 DEF BufferInv, NoStream
<1>3. CASE NextSourceStarts \/ SourceEnds
  <2>1. /\ playbin'.goal = playbin.goal /\ playbin.source # None /\ playbin'.source # None
        /\ broken' = broken
    BY <1>3 DEF NextSourceStarts, SourceEnds, AtEnd, Plays, TypeOK, PipelineType
  <2>2. PICK m \in Msgs : mailbox' = mailbox \o <<m>> /\ m.type \notin {"buffering", "error"}
    <3>1. CASE NextSourceStarts
      <4>1. playbin.queued \in Uris
        BY <3>1 DEF NextSourceStarts, StreamsAreKnown
      <4>2. StreamStart(playbin.queued) \in Msgs
        BY <4>1 DEF StreamStart, MessageType, Msgs
      <4>3. StreamStart(playbin.queued).type = "stream_start"
        BY DEF StreamStart
      <4>. QED BY <3>1, <4>2, <4>3 DEF NextSourceStarts, Post
    <3>2. CASE SourceEnds
      <4>1. [type |-> "end_of_stream"] \in Msgs
        BY DEF MessageType, Msgs
      <4>. QED BY <3>2, <4>1 DEF SourceEnds, Post
    <3>. QED BY <1>3, <3>1, <3>2
  <2>3. mailbox' = Append(mailbox, m)
    BY <1>0, <2>2
  <2>4. /\ HoldsBack(mailbox', audio.target) /\ ErrorIsLast(mailbox')
        /\ NoneIs(mailbox, "error") => NoneIs(mailbox', "error")
    BY <1>0, <2>2, <2>3, BufferOfAppend DEF BufferInv
  <2>. QED BY <1>0, <2>1, <2>4 DEF BufferInv, NoStream
<1>4. CASE FindTag \/ BufferRunsLow \/ BufferFills \/ ElementFails
  <2>1. ~broken /\ StreamOf(playbin) # None /\ playbin' = playbin
    BY <1>4 DEF FindTag, BufferRunsLow, BufferFills, Buffering, ElementFails
  <2>2. ~NoStream
    BY <2>1 DEF StreamOf, NoStream, Rolls
  <2>3. NoneIs(mailbox, "error")
    BY <2>1, <2>2 DEF BufferInv
  <2>4. PICK m \in Msgs : /\ mailbox' = mailbox \o <<m>>
                          /\ m.type = "buffering" => ~m.stale
                          /\ m.type = "error" => broken'
    <3>1. CASE FindTag
      <4>1. StreamOf(playbin) \in Uris
        BY <2>1, StreamOfType
      <4>2. [type |-> "tag", of |-> StreamOf(playbin)] \in Msgs
        BY <4>1 DEF MessageType, Msgs
      <4>. QED BY <3>1, <4>2 DEF FindTag, Post
    <3>2. CASE BufferRunsLow \/ BufferFills
      <4>1. PICK percent \in {0, 100} : Buffering(percent)
        BY <3>2 DEF BufferRunsLow, BufferFills
      <4>2. [type |-> "buffering", percent |-> percent, live |-> StreamOf(playbin) \in Live,
             stale |-> FALSE] \in Msgs
        BY <4>1 DEF MessageType, Msgs
      <4>. QED BY <4>1, <4>2 DEF Buffering, Post
    <3>3. CASE ElementFails
      <4>1. [type |-> "error"] \in Msgs
        BY DEF MessageType, Msgs
      <4>. QED BY <3>3, <4>1 DEF ElementFails, Post
    <3>. QED BY <1>4, <3>1, <3>2, <3>3
  <2>5. mailbox' = Append(mailbox, m)
    BY <1>0, <2>4
  <2>6. /\ HoldsBack(mailbox', audio.target) /\ ErrorIsLast(mailbox')
        /\ m.type # "error" => NoneIs(mailbox', "error")
    BY <1>0, <2>3, <2>4, <2>5, BufferOfAppend DEF BufferInv
  <2>. QED BY <1>0, <2>1, <2>4, <2>6 DEF BufferInv
<1>. QED BY <1>1, <1>2, <1>3, <1>4 DEF GStreamer

\* A buffer that ran low before core had the stream exchanged or stopped never
\* holds up what is played next, also when an error is handled in between.
THEOREM OnlyHoldsUpItsStream == Spec => HoldsUpItsStream
<1>. DEFINE BInv == IInv /\ BufferInv
<1>1. Init => BInv
  <2>1. Init => BufferInv
    BY DEF Init, InitPipeline, InitAudio, BufferInv, HoldsBack, ErrorIsLast, NoneIs, Rolls
  <2>. QED BY <2>1, InitIInv
<1>2. BInv /\ [Next]_vars => BInv'
  <2>. SUFFICES ASSUME BInv, [Next]_vars
                PROVE  BInv'
    OBVIOUS
  <2>1. IInv'
    BY NextIInv
  <2>2. CASE Next
    <3>1. BufferInv'
      BY <2>2, HandlersHold, CallsHold, CoreHolds, GStreamerHolds
         DEF Next, Actor, Calls, GStreamer
    <3>. QED BY <2>1, <3>1
  <2>3. CASE UNCHANGED vars
    BY <2>1, <2>3 DEF vars, BufferInv, NoStream
  <2>. QED BY <2>2, <2>3
<1>3. BInv /\ [Next]_vars => [~audio.buffering /\ audio'.buffering => ~Head(mailbox).stale]_vars
  <2>. SUFFICES ASSUME BInv, Next, ~audio.buffering, audio'.buffering
                PROVE  ~Head(mailbox).stale
    OBVIOUS
  <2>. USE DEF IInv
  <2>1. CASE OnBuffering
    <3>1. /\ audio.target \in Rolls /\ Head(mailbox).type = "buffering" /\ mailbox # << >>
      BY <2>1 DEF OnBuffering, Receive, Buffers, Rolls, TypeOK, AudioType
    <3>2. mailbox \in Seq(Msgs)
      BY DEF TypeOK, Msgs
    <3>3. 1 \in 1 .. Len(mailbox) /\ Head(mailbox) = mailbox[1]
      BY <3>1, <3>2, EmptySeq
    <3>. QED BY <3>1, <3>3 DEF BufferInv, HoldsBack
  <2>2. ASSUME ~OnBuffering
        PROVE  audio'.buffering = audio.buffering \/ audio'.buffering = FALSE
    <3>1. CASE OnStateChanged \/ OnEndOfStream \/ OnTag \/ OnStreamStart
      BY <3>1, HandlersLeave
    <3>2. CASE OnError \/ PrepareChangeCall \/ StopPlaybackCall
      BY <3>2 DEF OnError, PrepareChangeCall, StopPlaybackCall, Stopped, TypeOK, AudioType
    <3>3. CASE StartPlaybackCall \/ PausePlaybackCall
      BY <3>3 DEF StartPlaybackCall, PausePlaybackCall, TypeOK, AudioType
    <3>4. CASE SetUriCall
      BY <3>4 DEF SetUriCall, TypeOK, AudioType
    <3>5. CASE SetPositionCall \/ GetCurrentTagsCall
      BY <3>5 DEF SetPositionCall, GetCurrentTagsCall
    <3>6. CASE CoreActs \/ ClientCalls
      BY <3>6 DEF CoreActs, CoreAsks, CoreHears, CoreAnswersCallback, CallbackReturns, ClientCalls
    <3>7. CASE GStreamer
      BY <3>7 DEF GStreamer, Preroll, SegmentPasses, SourceFinishes, NextSourceStarts,
                   SourceEnds, FindTag, BufferRunsLow, BufferFills, Buffering, ElementFails
    <3>. QED BY <2>2, <3>1, <3>2, <3>3, <3>4, <3>5, <3>6, <3>7
             DEF Next, Actor, GStreamer
  <2>. QED BY <2>1, <2>2
<1>. QED BY <1>1, <1>2, <1>3, PTL DEF Spec, HoldsUpItsStream

-----------------------------------------------------------------------------
(* Tags and title.  A tag is of the URI set last: the stream of an older    *)
(* one is gone before core sets another, or is near its end, which the      *)
(* history notes.  Tags that come before their STREAM_START are put off,    *)
(* and until core hears of that the title may be the last stream's.         *)

\* A set_uri is not before a tag.
NoTagBehind(messages) ==
    \A i, j \in 1 .. Len(messages) :
        messages[i].type = "tag" /\ j < i => messages[j].type # "set_uri"

TagsAreOf(messages, uri) ==
    \A i \in 1 .. Len(messages) : messages[i].type = "tag" => messages[i].of = uri

\* What is on is the URI set last, or the one before it.
SourceIsSet ==
    /\ playbin.source # None <=> IsRolling
    /\ playbin.queued # None => playbin.source # None
    /\ playbin.queued = None => playbin.source \in {None, playbin.uri}

\* Tags are put off until the STREAM_START of their stream, which is on its way
\* if the stream is on.
StartIsTold ==
    /\ playbin.queued # None => audio.pendingTags # None /\ NoneIs(mailbox, "stream_start")
    /\ playbin.source # None /\ playbin.queued = None /\ audio.pendingTags # None
          => ~NoneIs(mailbox, "stream_start")

\* The actor has the tags of the stream that is on, and no longer those before it.
Started == audio.pendingTags = None \/ playbin.queued # None

OnNow == IF playbin.queued # None THEN playbin.source ELSE playbin.uri

TagsAreRight ==
    /\ TagsAreOf(mailbox, playbin.uri)
    /\ audio.pendingTags # None => audio.pendingTags \subseteq {playbin.uri}
    /\ Started => audio.tags \subseteq {OnNow}
    /\ Started /\ NoneIs(inbox, "stream_changed") => core.title \in {None, OnNow}

TagInv ==
    /\ SourceIsSet /\ StartIsTold
    /\ ~NoTagBehind(mailbox) => mixed /\ IsRolling
    /\ ~mixed => TagsAreRight

\* For the tags, the messages in the one are those in the other.
SameTags(old, new) ==
    /\ NoTagBehind(old) => NoTagBehind(new)
    /\ \A uri : TagsAreOf(old, uri) => TagsAreOf(new, uri)
    /\ NoneIs(old, "stream_start") <=> NoneIs(new, "stream_start")

LEMMA TagsOfTail ==
    ASSUME NEW messages \in Seq(Msgs), messages # << >>
    PROVE  /\ NoTagBehind(messages) => NoTagBehind(Tail(messages))
           /\ NoTagBehind(messages) /\ Head(messages).type = "set_uri"
                 => NoneIs(Tail(messages), "tag")
           /\ \A uri : TagsAreOf(messages, uri) =>
                 /\ TagsAreOf(Tail(messages), uri)
                 /\ Head(messages).type = "tag" => Head(messages).of = uri
           /\ Head(messages).type = "stream_start" => ~NoneIs(messages, "stream_start")
           /\ Head(messages).type # "stream_start" => SameTags(messages, Tail(messages))
<1>. DEFINE tail == Tail(messages)
<1>1. /\ Len(messages) \in Nat \ {0} /\ Len(tail) = Len(messages) - 1 /\ Len(tail) \in Nat
      /\ Head(messages) = messages[1] /\ 1 \in 1 .. Len(messages)
      /\ \A i \in 1 .. Len(tail) : tail[i] = messages[i + 1] /\ i + 1 \in 1 .. Len(messages)
  BY HeadTailProperties, EmptySeq
<1>. HIDE DEF tail
<1>2. ASSUME NoTagBehind(messages)
      PROVE  NoTagBehind(tail)
  <2>1. \A i, j \in 1 .. Len(tail) : j < i => j + 1 < i + 1
    BY <1>1
  <2>. QED BY <1>1, <1>2, <2>1 DEF NoTagBehind
<1>3. ASSUME NoTagBehind(messages), Head(messages).type = "set_uri"
      PROVE  NoneIs(tail, "tag")
  <2>1. \A i \in 1 .. Len(tail) : 1 < i + 1
    BY <1>1
  <2>. QED BY <1>1, <1>3, <2>1 DEF NoTagBehind, NoneIs
<1>4. \A uri : TagsAreOf(messages, uri) =>
         TagsAreOf(tail, uri) /\ (Head(messages).type = "tag" => Head(messages).of = uri)
  BY <1>1 DEF TagsAreOf
<1>5. Head(messages).type = "stream_start" => ~NoneIs(messages, "stream_start")
  BY <1>1 DEF NoneIs
<1>6. ASSUME Head(messages).type # "stream_start"
      PROVE  NoneIs(messages, "stream_start") <=> NoneIs(tail, "stream_start")
  <2>1. \A i \in 1 .. Len(messages) : i = 1 \/ (i - 1 \in 1 .. Len(tail) /\ messages[i] = tail[i - 1])
    BY <1>1
  <2>. QED BY <1>1, <1>6, <2>1 DEF NoneIs
<1>. QED BY <1>2, <1>3, <1>4, <1>5, <1>6 DEF SameTags, tail

LEMMA TagsOfStaled ==
    ASSUME NEW messages \in Seq(Msgs)
    PROVE  SameTags(messages, Staled(messages))
<1>1. /\ Len(Staled(messages)) = Len(messages)
      /\ \A i \in 1 .. Len(messages) :
            /\ Staled(messages)[i].type = messages[i].type
            /\ messages[i].type = "tag" => Staled(messages)[i] = messages[i]
  BY StaledType DEF Staled
<1>. QED BY <1>1 DEF SameTags, NoTagBehind, TagsAreOf, NoneIs

LEMMA TagsOfConcat ==
    ASSUME NEW messages \in Seq(Msgs), NEW more \in Seq(Msgs), NoneIs(more, "tag")
    PROVE  /\ NoTagBehind(messages) => NoTagBehind(messages \o more)
           /\ \A uri : TagsAreOf(messages, uri) => TagsAreOf(messages \o more, uri)
           /\ NoneIs(more, "stream_start") => SameTags(messages, messages \o more)
           /\ NoneIs(messages \o more, "stream_start") => NoneIs(more, "stream_start")
<1>. DEFINE both == messages \o more
            n == Len(messages)
<1>1. /\ Len(both) = n + Len(more) /\ n \in Nat /\ Len(more) \in Nat
      /\ \A i \in 1 .. n + Len(more) :
            both[i] = IF i <= n THEN messages[i] ELSE more[i - n]
  BY ConcatProperties
<1>2. /\ \A i \in 1 .. n : i \in 1 .. Len(both) /\ both[i] = messages[i]
      /\ \A i \in 1 .. Len(more) : i + n \in 1 .. Len(both) /\ both[i + n] = more[i]
      /\ \A i \in 1 .. Len(both) : i \in 1 .. n \/ (i - n \in 1 .. Len(more) /\ both[i] = more[i - n])
  BY <1>1
<1>. HIDE DEF both, n
<1>3. \A i \in 1 .. Len(both) : both[i].type = "tag" => i \in 1 .. n /\ both[i] = messages[i]
  BY <1>2 DEF NoneIs
<1>4. ASSUME NoTagBehind(messages)
      PROVE  NoTagBehind(both)
  <2>1. \A i, j \in 1 .. Len(both) : i \in 1 .. n /\ j < i => j \in 1 .. n
    BY <1>1
  <2>. QED BY <1>2, <1>3, <1>4, <2>1 DEF NoTagBehind, n
<1>5. \A uri : TagsAreOf(messages, uri) => TagsAreOf(both, uri)
  BY <1>3 DEF TagsAreOf, n
<1>6. NoneIs(more, "stream_start") => (NoneIs(messages, "stream_start") <=> NoneIs(both, "stream_start"))
  BY <1>2 DEF NoneIs, n
<1>7. NoneIs(both, "stream_start") => NoneIs(more, "stream_start")
  BY <1>2 DEF NoneIs
<1>. QED BY <1>4, <1>5, <1>6, <1>7 DEF SameTags, both

LEMMA TagsOfOne ==
    ASSUME NEW messages \in Seq(Msgs), NEW m \in Msgs
    PROVE  /\ m.type \notin {"tag", "stream_start"} =>
                 SameTags(messages, Append(messages, m)) /\ SameTags(messages, messages \o <<m>>)
           /\ NoneIs(messages, "set_uri") => NoTagBehind(messages \o <<m>>)
           /\ \A uri : TagsAreOf(messages, uri) /\ m.of = uri => TagsAreOf(messages \o <<m>>, uri)
           /\ m.type # "stream_start" =>
                 (NoneIs(messages, "stream_start") <=> NoneIs(messages \o <<m>>, "stream_start"))
<1>. DEFINE both == messages \o <<m>>
            n == Len(messages)
<1>1. /\ Len(both) = n + 1 /\ n \in Nat
      /\ \A i \in 1 .. n : both[i] = messages[i]
      /\ both[n + 1] = m
      /\ both = Append(messages, m)
  OBVIOUS
<1>2. /\ \A i \in 1 .. n : i \in 1 .. Len(both)
      /\ \A i \in 1 .. Len(both) : i \in 1 .. n \/ i = n + 1
      /\ \A i, j \in 1 .. Len(both) : j < i => j \in 1 .. n
  BY <1>1
<1>. HIDE DEF both, n
<1>3. m.type # "stream_start" => (NoneIs(messages, "stream_start") <=> NoneIs(both, "stream_start"))
  BY <1>1, <1>2 DEF NoneIs, n
<1>4. ASSUME m.type # "tag"
      PROVE  /\ NoTagBehind(messages) => NoTagBehind(both)
             /\ \A uri : TagsAreOf(messages, uri) => TagsAreOf(both, uri)
  BY <1>1, <1>2, <1>4 DEF NoTagBehind, TagsAreOf, n
<1>5. NoneIs(messages, "set_uri") => NoTagBehind(both)
  BY <1>1, <1>2 DEF NoneIs, NoTagBehind, n
<1>6. \A uri : TagsAreOf(messages, uri) /\ m.of = uri => TagsAreOf(both, uri)
  BY <1>1, <1>2 DEF TagsAreOf, n
<1>7. m.type \notin {"tag", "stream_start"} => SameTags(messages, both)
  BY <1>3, <1>4 DEF SameTags
<1>. QED BY <1>1, <1>3, <1>5, <1>6, <1>7 DEF both

LEMMA TagsOfSetDown ==
    ASSUME TypeOK, NEW state \in {"NULL", "READY"}, NEW rest \in Seq(Msgs), SetDown(state, rest)
    PROVE  SameTags(rest, mailbox')
<1>1. PostedOnTheWayTo(state) \in Seq(Msgs)
  BY PostedType, MessagesAreNoCalls
<1>2. NoneIs(PostedOnTheWayTo(state), "stream_start") /\ NoneIs(PostedOnTheWayTo(state), "tag")
  BY DEF PostedOnTheWayTo, StateChanged, NoneIs
<1>3. Staled(rest) \in Seq(Msgs) /\ SameTags(rest, Staled(rest))
  BY StaledType, TagsOfStaled
<1>4. SameTags(Staled(rest), mailbox')
  BY <1>1, <1>2, <1>3, TagsOfConcat DEF SetDown
<1>. QED BY <1>3, <1>4 DEF SameTags

LEMMA TagsOfSetUp ==
    ASSUME TypeOK, NEW state \in Rolls, NEW rest \in Seq(Msgs), SetUp(state, rest)
    PROVE  SameTags(rest, mailbox')
<1>1. /\ StateChanged(state, None) \in Msgs
      /\ StateChanged(state, None).type \notin {"tag", "stream_start"}
  BY DEF StateChanged, Msgs, MessageType, GstStates, Rolls
<1>2. SameTags(rest, rest)
  BY DEF SameTags
<1>. QED BY <1>1, <1>2, TagsOfOne DEF SetUp

\* Nothing that matters here happens.
LEMMA TagsStay ==
    ASSUME TagInv, SameTags(mailbox, mailbox'),
           playbin'.uri = playbin.uri, playbin'.source = playbin.source,
           playbin'.queued = playbin.queued, IsRolling' <=> IsRolling, mixed' = mixed,
           audio'.pendingTags = audio.pendingTags, audio'.tags \in {audio.tags, {}},
           \/ core'.title = None
           \/ /\ core'.title = core.title
              /\ NoneIs(inbox', "stream_changed") => NoneIs(inbox, "stream_changed")
    PROVE  TagInv'
<1>1. SourceIsSet' /\ StartIsTold'
  BY DEF TagInv, SourceIsSet, StartIsTold, SameTags
<1>2. ~NoTagBehind(mailbox') => mixed' /\ IsRolling'
  BY DEF TagInv, SameTags
<1>3. ~mixed' => TagsAreRight'
  <2>1. (Started' <=> Started) /\ OnNow' = OnNow
    BY DEF Started, OnNow
  <2>. QED BY <2>1 DEF TagInv, TagsAreRight, SameTags
<1>. QED BY <1>1, <1>2, <1>3 DEF TagInv

LEMMA SetUpLeavesTags ==
    ASSUME TypeOK, NEW rest \in Seq(Msgs), SameTags(mailbox, rest),
           NEW state \in Rolls, SetUp(state, rest)
    PROVE  /\ SameTags(mailbox, mailbox')
           /\ playbin'.uri = playbin.uri /\ playbin'.source = playbin.source
           /\ playbin'.queued = playbin.queued /\ (IsRolling' <=> IsRolling)
<1>1. SameTags(rest, mailbox')
  BY TagsOfSetUp
<1>2. playbin'.state = IF IsRolling THEN state ELSE playbin.state
  BY DEF SetUp, TypeOK, PipelineType
<1>3. IsRolling' <=> IsRolling
  BY <1>2 DEF IsRolling, Rolls
<1>. QED BY <1>1, <1>3, SetUpStreams DEF SameTags

\* The stream is given up.
LEMMA SetDownTags ==
    ASSUME TypeOK, TagInv, mailbox # << >>, Head(mailbox).type # "stream_start",
           callback = "none", PipelineHeld, CallsWait,
           NEW state \in {"NULL", "READY"}, SetDown(state, Tail(mailbox)),
           mixed' = mixed, inbox' = inbox, core'.title = core.title,
           audio'.pendingTags = audio.pendingTags, audio'.tags = audio.tags
    PROVE  TagInv'
<1>1. mailbox \in Seq(Msgs) /\ Tail(mailbox) \in Seq(Msgs)
  BY Received DEF TypeOK, Msgs
<1>2. SameTags(mailbox, mailbox')
  <2>1. SameTags(mailbox, Tail(mailbox))
    BY <1>1, TagsOfTail
  <2>2. SameTags(Tail(mailbox), mailbox')
    BY <1>1, TagsOfSetDown
  <2>. QED BY <2>1, <2>2 DEF SameTags
<1>3. /\ playbin'.uri = playbin.uri /\ playbin'.source = None /\ playbin'.queued = None
      /\ ~IsRolling'
  <2>1. playbin'.state = state
    BY DEF SetDown, InitPipeline
  <2>. QED BY <2>1, SetDownStreams DEF IsRolling
<1>4. SourceIsSet' /\ StartIsTold'
  BY <1>3 DEF SourceIsSet, StartIsTold
<1>5. NoTagBehind(mailbox')
  <2>1. CASE ~IsRolling
    BY <1>2, <2>1 DEF TagInv, SameTags
  <2>2. CASE IsRolling
    <3>1. NoneIs(mailbox, "set_uri")
      BY <2>2, NoSetUriWaits DEF PipelineHeld, IsHeld
    <3>2. NoTagBehind(mailbox)
      BY <1>1, <3>1 DEF NoneIs, NoTagBehind
    <3>. QED BY <1>2, <3>2 DEF SameTags
  <2>. QED BY <2>1, <2>2
<1>6. ~mixed' => TagsAreRight'
  <2>. SUFFICES ASSUME ~mixed
                PROVE  TagsAreRight'
    OBVIOUS
  <2>1. TagsAreOf(mailbox', playbin'.uri)
    BY <1>2, <1>3 DEF TagInv, TagsAreRight, SameTags
  <2>2. Started' => Started /\ OnNow' = OnNow
    BY <1>3 DEF Started, OnNow, TagInv, StartIsTold
  <2>. QED BY <1>3, <2>1, <2>2 DEF TagInv, TagsAreRight
<1>. QED BY <1>4, <1>5, <1>6 DEF TagInv

\* With what is told, core hears no less.
LEMMA HeardBefore ==
    ASSUME TypeOK, NEW events \in Seq(EventType), Tell(events)
    PROVE  /\ NoneIs(inbox', "stream_changed") => NoneIs(inbox, "stream_changed")
           /\ \A i \in 1 .. Len(events) : events[i].type = "stream_changed"
                 => ~NoneIs(inbox', "stream_changed")
<1>. DEFINE n == Len(inbox)
<1>1. inbox \in Seq(EventType) /\ n \in Nat /\ Len(events) \in Nat
  BY EmptySeq DEF TypeOK
<1>2. /\ Len(inbox') = n + Len(events)
      /\ \A i \in 1 .. n + Len(events) :
            inbox'[i] = IF i <= n THEN inbox[i] ELSE events[i - n]
  BY <1>1, ConcatProperties DEF Tell
<1>3. /\ \A i \in 1 .. n : i \in 1 .. Len(inbox') /\ inbox'[i] = inbox[i]
      /\ \A i \in 1 .. Len(events) : i + n \in 1 .. Len(inbox') /\ inbox'[i + n] = events[i]
  <2>. HIDE DEF n
  <2>1. \A i \in 1 .. n : i \in 1 .. Len(inbox') /\ inbox'[i] = inbox[i]
    BY <1>1, <1>2
  <2>2. \A i \in 1 .. Len(events) : /\ i + n \in 1 .. n + Len(events) /\ ~(i + n <= n)
                                    /\ (i + n) - n = i
    BY <1>1
  <2>. QED BY <1>2, <2>1, <2>2
<1>. QED BY <1>3 DEF NoneIs

LEMMA HandlersKeepTags ==
    ASSUME IInv, StreamInv, TagInv,
           \/ OnStateChanged \/ OnBuffering \/ OnEndOfStream
           \/ OnError \/ OnTag \/ OnStreamStart
    PROVE  TagInv'
<1>. DEFINE m == Head(mailbox)
            rest == Tail(mailbox)
<1>. USE DEF IInv
<1>0. /\ mailbox # << >> /\ mailbox \in Seq(Msgs) /\ rest \in Seq(Msgs)
      /\ core' = core /\ callback' = callback /\ mixed' = mixed
      /\ audio \in AudioType /\ m \in Msgs
  BY Received DEF OnStateChanged, OnBuffering, OnEndOfStream, OnError, OnTag, OnStreamStart,
                  ReceiveOnly, Receive, TypeOK, Msgs
<1>1. CASE OnStateChanged \/ OnEndOfStream
  <2>1. UNCHANGED playbin /\ mailbox' = rest
    BY <1>1, HandlersLeave
  <2>2. SameTags(mailbox, mailbox')
    BY <1>0, <1>1, <2>1, TagsOfTail DEF OnStateChanged, OnEndOfStream, ReceiveOnly, Receive
  <2>3. audio'.pendingTags = audio.pendingTags /\ audio'.tags \in {audio.tags, {}}
    BY <1>0, <1>1 DEF OnStateChanged, OnEndOfStream, AudioType
  <2>4. NoneIs(inbox', "stream_changed") => NoneIs(inbox, "stream_changed")
    <3>1. PICK events \in Seq(EventType) : Tell(events)
      <4>1. /\ <<[type |-> "stream_changed", uri |-> None]>> \in Seq(EventType)
            /\ <<[type |-> "reached_end_of_stream"]>> \in Seq(EventType)
            /\ << >> \in Seq(EventType)
        <5>1. /\ [type |-> "stream_changed", uri |-> None] \in EventType
              /\ [type |-> "reached_end_of_stream"] \in EventType
          BY DEF EventType
        <5>. QED BY <5>1
      <4>2. CASE OnStateChanged
        <5>1. \/ Tell(<<[type |-> "stream_changed", uri |-> None]>>)
              \/ Tell(<< >>)
          BY <4>2 DEF OnStateChanged
        <5>. QED BY <4>1, <5>1
      <4>3. CASE OnEndOfStream
        BY <4>1, <4>3 DEF OnEndOfStream
      <4>. QED BY <1>1, <4>2, <4>3
    <3>. QED BY <3>1, HeardBefore
  <2>. QED BY <1>0, <2>1, <2>2, <2>3, <2>4, TagsStay DEF IsRolling
<1>2. CASE OnBuffering
  <2>1. audio'.pendingTags = audio.pendingTags /\ audio'.tags = audio.tags
    <3>1. audio' \in {audio, [audio EXCEPT !.buffering = TRUE], [audio EXCEPT !.buffering = FALSE]}
      BY <1>2 DEF OnBuffering
    <3>. QED BY <3>1 DEF TypeOK, AudioType
  <2>2. SameTags(mailbox, rest)
    BY <1>0, <1>2, TagsOfTail DEF OnBuffering, Receive
  <2>3. inbox' = inbox
    BY <1>2 DEF OnBuffering
  <2>4. \/ mailbox' = rest /\ playbin' = playbin
        \/ \E state \in Rolls : SetUp(state, rest)
    BY <1>2 DEF OnBuffering, Rolls
  <2>5. /\ SameTags(mailbox, mailbox')
        /\ playbin'.uri = playbin.uri /\ playbin'.source = playbin.source
        /\ playbin'.queued = playbin.queued /\ (IsRolling' <=> IsRolling)
    <3>1. CASE mailbox' = rest /\ playbin' = playbin
      BY <2>2, <3>1 DEF IsRolling
    <3>2. CASE \E state \in Rolls : SetUp(state, rest)
      BY <1>0, <2>2, <3>2, SetUpLeavesTags
    <3>. QED BY <2>4, <3>1, <3>2
  <2>. QED BY <1>0, <2>1, <2>3, <2>5, TagsStay
<1>3. CASE OnError
  <2>1. /\ SetDown("NULL", rest) /\ callback = "none" /\ audio' = Stopped
        /\ inbox' = inbox /\ m.type = "error"
    BY <1>3 DEF OnError, Receive
  <2>2. audio'.pendingTags = audio.pendingTags /\ audio'.tags = audio.tags
    BY <1>0, <2>1 DEF Stopped, AudioType
  <2>. QED BY <1>0, <2>1, <2>2, SetDownTags DEF StreamInv
<1>4. CASE OnTag
  <2>1. UNCHANGED playbin /\ mailbox' = rest /\ m.type = "tag"
    BY <1>4, HandlersLeave DEF OnTag, ReceiveOnly, Receive
  <2>2. SameTags(mailbox, mailbox')
    BY <1>0, <2>1, TagsOfTail
  <2>3. NoneIs(inbox', "stream_changed") => NoneIs(inbox, "stream_changed")
    <3>1. [type |-> "tags_changed"] \in EventType
      BY DEF EventType
    <3>2. <<[type |-> "tags_changed"]>> \in Seq(EventType)
      BY <3>1
    <3>3. inbox' = inbox \/ Tell(<<[type |-> "tags_changed"]>>)
      BY <1>4 DEF OnTag
    <3>. QED BY <3>2, <3>3, HeardBefore
  <2>4. /\ \/ audio.pendingTags # None /\ audio'.pendingTags = {m.of} /\ audio'.tags = audio.tags
           \/ /\ audio.pendingTags = None /\ audio'.pendingTags = None
              /\ audio'.tags \in {audio.tags, {m.of}}
        /\ audio'.pendingTags = None <=> audio.pendingTags = None
    <3>1. m.of \in Uris
      BY <1>0, <2>1 DEF Msgs, MessageType, CallType
    <3>2. {m.of} # None
      <4>1. {m.of} \in SUBSET Uris
        BY <3>1
      <4>. QED BY <4>1, PendingTagsAssumption
    <3>3. \/ audio.pendingTags # None /\ audio' = [audio EXCEPT !.pendingTags = {m.of}]
          \/ audio.pendingTags = None /\ audio' \in {audio, [audio EXCEPT !.tags = {m.of}]}
      BY <1>4 DEF OnTag
    <3>. QED BY <1>0, <3>2, <3>3 DEF AudioType
  <2>5. SourceIsSet' /\ StartIsTold'
    BY <2>1, <2>2, <2>4 DEF TagInv, SourceIsSet, StartIsTold, SameTags, IsRolling
  <2>6. ~NoTagBehind(mailbox') => mixed' /\ IsRolling'
    BY <1>0, <2>1, <2>2 DEF TagInv, SameTags, IsRolling
  <2>7. ~mixed' => TagsAreRight'
    <3>. SUFFICES ASSUME ~mixed
                  PROVE  TagsAreRight'
      BY <1>0
    <3>1. TagsAreRight /\ m.of = playbin.uri
      BY <1>0, <2>1, TagsOfTail DEF TagInv, TagsAreRight
    <3>2. (Started' <=> Started) /\ OnNow' = OnNow
      BY <2>1, <2>4 DEF Started, OnNow
    <3>3. audio.pendingTags = None => OnNow = playbin.uri
      BY DEF OnNow, TagInv, StartIsTold
    <3>. QED BY <1>0, <2>1, <2>2, <2>3, <2>4, <3>1, <3>2, <3>3 DEF TagsAreRight, SameTags
  <2>. QED BY <2>5, <2>6, <2>7 DEF TagInv
<1>5. CASE OnStreamStart
  <2>. DEFINE tags == IF audio.pendingTags = None THEN {} ELSE audio.pendingTags
  <2>1. UNCHANGED playbin /\ mailbox' = rest /\ m.type = "stream_start"
    BY <1>5, HandlersLeave DEF OnStreamStart, ReceiveOnly, Receive
  <2>2. audio'.pendingTags = None /\ audio'.tags = tags
    BY <1>0, <1>5 DEF OnStreamStart, AudioType
  <2>3. ~NoneIs(mailbox, "stream_start")
    BY <1>0, <2>1, TagsOfTail
  <2>4. playbin.queued = None
    BY <2>3 DEF TagInv, StartIsTold
  <2>5. ~NoneIs(inbox', "stream_changed")
    <3>. DEFINE first == [type |-> "stream_changed", uri |-> audio.pendingUri]
    <3>1. first \in EventType /\ [type |-> "tags_changed"] \in EventType
      BY DEF EventType, TypeOK, AudioType
    <3>2. PICK then \in Seq(EventType) : Tell(<<first>> \o then)
      <4>. DEFINE after(t) == IF t # {} THEN <<[type |-> "tags_changed"]>> ELSE << >>
      <4>1. \A t : after(t) \in Seq(EventType)
        BY <3>1
      <4>. QED BY <1>5, <4>1 DEF OnStreamStart
    <3>3. <<first>> \in Seq(EventType)
      BY <3>1
    <3>4. first.type = "stream_changed"
      OBVIOUS
    <3>. HIDE DEF first
    <3>5. /\ <<first>> \o then \in Seq(EventType) /\ (<<first>> \o then)[1] = first
          /\ 1 \in 1 .. Len(<<first>> \o then)
      BY <3>2, <3>3
    <3>. QED BY <3>2, <3>4, <3>5, HeardBefore
  <2>6. SourceIsSet' /\ StartIsTold'
    BY <2>1, <2>2, <2>4 DEF TagInv, SourceIsSet, StartIsTold, IsRolling
  <2>7. ~NoTagBehind(mailbox') => mixed' /\ IsRolling'
    BY <1>0, <2>1, TagsOfTail DEF TagInv, IsRolling
  <2>8. ~mixed' => TagsAreRight'
    <3>. SUFFICES ASSUME ~mixed
                  PROVE  TagsAreRight'
      BY <1>0
    <3>1. TagsAreOf(mailbox', playbin'.uri)
      BY <1>0, <2>1, TagsOfTail DEF TagInv, TagsAreRight
    <3>2. OnNow' = playbin.uri /\ tags \subseteq {playbin.uri}
      BY <2>1, <2>4 DEF OnNow, TagInv, TagsAreRight
    <3>. QED BY <2>2, <2>5, <3>1, <3>2 DEF TagsAreRight
  <2>. QED BY <2>6, <2>7, <2>8 DEF TagInv
<1>. QED BY <1>1, <1>2, <1>3, <1>4, <1>5

LEMMA CallsKeepTags ==
    ASSUME IInv, StreamInv, TagInv, Calls
    PROVE  TagInv'
<1>. DEFINE m == Head(mailbox)
            rest == Tail(mailbox)
<1>. USE DEF IInv
<1>0. /\ mailbox # << >> /\ mailbox \in Seq(Msgs) /\ rest \in Seq(Msgs) /\ NoCall(rest)
      /\ m \in CallType /\ m.type # "stream_start"
      /\ audio \in AudioType /\ inbox' = inbox
  <2>1. inbox' = inbox
    BY DEF Calls, PrepareChangeCall, StopPlaybackCall, StartPlaybackCall, PausePlaybackCall,
           SetUriCall, SetPositionCall, GetCurrentTagsCall
  <2>2. "stream_start" \notin CallTypes
    BY DEF CallTypes
  <2>. QED BY <2>1, <2>2, IsCall DEF TypeOK, Msgs
<1>1. SameTags(mailbox, rest)
  BY <1>0, TagsOfTail
<1>2. Answer => core'.title = core.title
  BY DEF Answer, TypeOK
<1>3. CASE PrepareChangeCall \/ StopPlaybackCall
  <2>1. PICK state \in {"NULL", "READY"} : SetDown(state, rest)
    BY <1>3 DEF PrepareChangeCall, StopPlaybackCall
  <2>2. /\ audio'.pendingTags = audio.pendingTags /\ audio'.tags = audio.tags
        /\ callback = "none" /\ core'.title = core.title /\ mixed' = mixed
    BY <1>0, <1>2, <1>3 DEF PrepareChangeCall, StopPlaybackCall, Stopped, AudioType
  <2>. QED BY <1>0, <2>1, <2>2, SetDownTags DEF StreamInv
<1>4. CASE StartPlaybackCall \/ PausePlaybackCall
  <2>1. PICK state \in Rolls : SetUp(state, rest)
    BY <1>4 DEF StartPlaybackCall, PausePlaybackCall, Rolls
  <2>2. /\ audio'.pendingTags = audio.pendingTags /\ audio'.tags = audio.tags
        /\ core'.title = core.title /\ mixed' = mixed
    BY <1>0, <1>2, <1>4 DEF StartPlaybackCall, PausePlaybackCall, AudioType
  <2>. QED BY <1>0, <1>1, <2>1, <2>2, SetUpLeavesTags, TagsStay
<1>5. CASE SetPositionCall
  <2>1. /\ playbin'.uri = playbin.uri /\ playbin'.source = playbin.source
        /\ playbin'.queued = playbin.queued /\ (IsRolling' <=> IsRolling)
    BY <1>5 DEF SetPositionCall, TypeOK, PipelineType, IsRolling
  <2>2. /\ audio' = audio /\ mailbox' = rest /\ core'.title = core.title /\ mixed' = mixed
    BY <1>2, <1>5 DEF SetPositionCall
  <2>. QED BY <1>0, <1>1, <2>1, <2>2, TagsStay
<1>6. CASE GetCurrentTagsCall
  <2>1. /\ UNCHANGED <<playbin, audio, mixed>> /\ mailbox' = rest
        /\ core'.title = IF audio.tags = {} THEN core.title ELSE CHOOSE title \in audio.tags : TRUE
    BY <1>6 DEF GetCurrentTagsCall, TypeOK
  <2>2. SourceIsSet' /\ StartIsTold' /\ (~NoTagBehind(mailbox') => mixed' /\ IsRolling')
    BY <1>1, <2>1 DEF TagInv, SourceIsSet, StartIsTold, SameTags, IsRolling
  <2>3. ~mixed' => TagsAreRight'
    <3>. SUFFICES ASSUME ~mixed
                  PROVE  TagsAreRight'
      BY <2>1
    <3>1. (Started' <=> Started) /\ OnNow' = OnNow
      BY <2>1 DEF Started, OnNow
    <3>2. core'.title = core.title \/ core'.title \in audio.tags
      BY <2>1
    <3>3. Started => audio.tags \subseteq {OnNow}
      BY DEF TagInv, TagsAreRight
    <3>4. Started' /\ NoneIs(inbox', "stream_changed") => core'.title \in {None, OnNow'}
      BY <1>0, <3>1, <3>2, <3>3 DEF TagInv, TagsAreRight
    <3>5. TagsAreOf(mailbox', playbin'.uri)
      BY <1>1, <2>1 DEF TagInv, TagsAreRight, SameTags
    <3>. QED BY <2>1, <3>1, <3>4, <3>5 DEF TagInv, TagsAreRight
  <2>. QED BY <2>2, <2>3 DEF TagInv
<1>7. CASE SetUriCall
  <2>1. m.type = "set_uri" /\ m.uri \in Uris /\ m.uri # None
    BY <1>0, <1>7, UrisAssumption, NoneAssumption DEF SetUriCall, Receive, CallType, Tlid
  <2>2. /\ playbin'.uri = m.uri /\ playbin'.queued = (IF IsRolling THEN m.uri ELSE None)
        /\ playbin'.source = playbin.source /\ playbin'.state = playbin.state
    BY <1>7 DEF SetUriCall, TypeOK, PipelineType
  <2>3. audio'.pendingTags = {} /\ audio'.tags = audio.tags /\ {} # None
    BY <1>0, <1>7, PendingTagsAssumption DEF SetUriCall, AudioType
  <2>4. mailbox' = rest /\ mixed' = (mixed /\ IsRolling) /\ core'.title = core.title
    BY <1>2, <1>7 DEF SetUriCall
  <2>5. NoneIs(mailbox, "stream_start") /\ NoneIs(rest, "stream_start")
    <3>1. Told(mailbox, audio.pendingUri)
      BY DEF StreamInv
    <3>2. /\ 1 \in 1 .. Len(mailbox) /\ mailbox[1].type = "set_uri"
          /\ \A i \in 1 .. Len(mailbox) : 1 \in 1 .. i
      BY <1>0, <2>1, EmptySeq
    <3>3. NoneIs(mailbox, "stream_start")
      BY <3>1, <3>2 DEF Told, NoneIs
    <3>. QED BY <1>1, <3>3 DEF SameTags
  <2>6. NoTagBehind(rest)
    BY <1>0 DEF NoCall, NoTagBehind, CallTypes
  <2>7. CASE ~IsRolling
    <3>1. playbin.source = None /\ playbin'.queued = None /\ ~IsRolling'
      BY <2>2, <2>7 DEF TagInv, SourceIsSet, IsRolling
    <3>2. ~Started'
      BY <2>3, <3>1 DEF Started
    <3>3. NoneIs(rest, "tag")
      BY <1>0, <2>1, <2>7, TagsOfTail DEF TagInv
    <3>4. TagsAreOf(mailbox', playbin'.uri)
      BY <2>4, <3>3 DEF NoneIs, TagsAreOf
    <3>5. TagsAreRight'
      BY <2>3, <3>2, <3>4 DEF TagsAreRight
    <3>6. SourceIsSet' /\ StartIsTold'
      BY <2>2, <3>1 DEF SourceIsSet, StartIsTold
    <3>. QED BY <2>4, <2>6, <3>5, <3>6 DEF TagInv
  <2>8. CASE IsRolling
    <3>1. playbin.source # None /\ playbin'.queued = m.uri /\ IsRolling'
      BY <2>2, <2>8 DEF TagInv, SourceIsSet, IsRolling
    <3>2. SourceIsSet' /\ StartIsTold'
      BY <2>1, <2>2, <2>3, <2>4, <2>5, <3>1 DEF SourceIsSet, StartIsTold
    <3>3. ~mixed => TagsAreRight'
      <4>. SUFFICES ASSUME ~mixed
                    PROVE  TagsAreRight'
        OBVIOUS
      <4>1. Started /\ OnNow = playbin.source
        BY <2>5, <3>1 DEF TagInv, StartIsTold, SourceIsSet, Started, OnNow
      <4>2. Started' /\ OnNow' = playbin.source
        BY <2>1, <2>2, <3>1 DEF Started, OnNow
      <4>3. NoneIs(rest, "tag")
        BY <1>0, <2>1, TagsOfTail DEF TagInv
      <4>4. TagsAreOf(mailbox', playbin'.uri)
        BY <2>4, <4>3 DEF NoneIs, TagsAreOf
      <4>. QED BY <1>0, <2>3, <2>4, <4>1, <4>2, <4>4 DEF TagInv, TagsAreRight
    <3>. QED BY <2>4, <2>6, <2>8, <3>2, <3>3 DEF TagInv
  <2>. QED BY <2>7, <2>8
<1>. QED BY <1>3, <1>4, <1>5, <1>6, <1>7 DEF Calls

LEMMA CoreKeepsTags ==
    ASSUME IInv, TagInv, CoreActs \/ ClientCalls
    PROVE  TagInv'
<1>. USE DEF IInv
<1>1. UNCHANGED <<playbin, audio, mixed>> /\ (IsRolling' <=> IsRolling)
  BY DEF CoreActs, CoreAsks, CoreHears, CoreAnswersCallback, CallbackReturns, ClientCalls, IsRolling
<1>2. SameTags(mailbox, mailbox')
  <2>1. CASE CoreAsks
    <3>1. core.plan \in Seq(CallType) /\ core.plan # << >> /\ mailbox \in Seq(Msgs)
      BY <2>1 DEF CoreAsks, Idle, TypeOK, Msgs
    <3>2. Head(core.plan) \in CallType
      BY <3>1, HeadTailProperties
    <3>3. Head(core.plan) \in Msgs /\ Head(core.plan).type \notin {"tag", "stream_start"}
      BY <3>2 DEF Msgs, CallType
    <3>. QED BY <2>1, <3>1, <3>3, TagsOfOne DEF CoreAsks
  <2>2. CASE mailbox' = mailbox
    BY <2>2 DEF SameTags
  <2>. QED BY <2>1, <2>2 DEF CoreActs, CoreHears, CoreAnswersCallback, CallbackReturns, ClientCalls
<1>3. \/ core'.title = None
      \/ /\ core'.title = core.title
         /\ NoneIs(inbox', "stream_changed") => NoneIs(inbox, "stream_changed")
  <2>1. CASE ClientCalls \/ CoreAsks \/ CallbackReturns
    BY <2>1 DEF ClientCalls, CoreAsks, CallbackReturns, TypeOK
  <2>2. CASE CoreHears \/ CoreAnswersCallback
    <3>. DEFINE event == Head(inbox)
    <3>1. inbox \in Seq(EventType) /\ inbox # << >> /\ inbox' = Tail(inbox)
      BY <2>2 DEF CoreHears, CoreAnswersCallback, TypeOK
    <3>2. event.type = "stream_changed" => core'.title = None
      BY <2>2 DEF CoreHears, CoreAnswersCallback, TypeOK
    <3>3. event.type # "stream_changed" => core'.title = core.title
      <4>1. CASE CoreHears
        <5>1. event.type # "stream_changed" =>
                 core' \in {core, [core EXCEPT !.plan = <<CallOf("get_current_tags")>>]}
          BY <4>1 DEF CoreHears
        <5>. QED BY <5>1 DEF TypeOK
      <4>2. CASE CoreAnswersCallback
        BY <4>2 DEF CoreAnswersCallback, TypeOK
      <4>. QED BY <2>2, <4>1, <4>2
    <3>4. event.type # "stream_changed" =>
             (NoneIs(inbox', "stream_changed") => NoneIs(inbox, "stream_changed"))
      <4>1. /\ event = inbox[1] /\ Len(inbox) \in Nat \ {0}
            /\ Len(inbox') = Len(inbox) - 1
            /\ \A i \in 1 .. Len(inbox') : inbox'[i] = inbox[i + 1]
        BY <3>1, HeadTailProperties, EmptySeq
      <4>2. \A i \in 1 .. Len(inbox) :
               i = 1 \/ (i - 1 \in 1 .. Len(inbox') /\ inbox[i] = inbox'[i - 1])
        BY <4>1
      <4>. QED BY <4>1, <4>2 DEF NoneIs
    <3>. QED BY <3>2, <3>3, <3>4
  <2>. QED BY <2>1, <2>2 DEF CoreActs
<1>. QED BY <1>1, <1>2, <1>3, TagsStay

LEMMA GStreamerKeepsTags ==
    ASSUME IInv, StreamInv, CallbackWaits, TagInv, GStreamer
    PROVE  TagInv'
<1>. USE DEF IInv
<1>0. mailbox \in Seq(Msgs) /\ UNCHANGED <<audio, core>>
  BY DEF TypeOK, Msgs, GStreamer, Preroll, SegmentPasses, SourceFinishes, NextSourceStarts,
         SourceEnds, FindTag, BufferRunsLow, BufferFills, Buffering, ElementFails
<1>1. CASE Preroll \/ NextSourceStarts
  <2>1. PICK uri \in Uris, more \in Seq(Msgs) :
           /\ Post(more) /\ NoneIs(more, "tag") /\ ~NoneIs(more, "stream_start")
           /\ playbin'.source = uri /\ uri = playbin.uri
    <3>1. CASE Preroll
      <4>. DEFINE more == <<StreamStart(playbin.uri), StateChanged(playbin.goal, None)>>
      <4>1. playbin.goal \in Rolls /\ Post(more) /\ playbin'.source = playbin.uri
        BY <3>1 DEF Preroll, Starting, Rolls, TypeOK, PipelineType
      <4>2. playbin.uri \in Uris
        BY <4>1 DEF StreamsAreKnown
      <4>3. /\ StreamStart(playbin.uri) \in Msgs
            /\ StateChanged(playbin.goal, None) \in Msgs
        BY <4>1, <4>2 DEF StreamStart, StateChanged, MessageType, Msgs, GstStates, Rolls
      <4>4. /\ more \in Seq(Msgs) /\ Len(more) = 2 /\ more[1].type = "stream_start"
            /\ more[2].type = "state_changed"
        BY <4>3 DEF StreamStart, StateChanged
      <4>. HIDE DEF more
      <4>5. NoneIs(more, "tag") /\ ~NoneIs(more, "stream_start")
        BY <4>4 DEF NoneIs
      <4>. QED BY <4>1, <4>2, <4>4, <4>5
    <3>2. CASE NextSourceStarts
      <4>. DEFINE more == <<StreamStart(playbin.queued)>>
      <4>1. Post(more) /\ playbin'.source = playbin.queued /\ playbin.queued # None
        BY <3>2 DEF NextSourceStarts, TypeOK, PipelineType
      <4>2. playbin.queued \in Uris /\ playbin.queued = playbin.uri
        BY <4>1 DEF StreamsAreKnown, StreamInv, PipelineHeld
      <4>3. StreamStart(playbin.queued) \in Msgs
        BY <4>2 DEF StreamStart, MessageType, Msgs
      <4>4. more \in Seq(Msgs) /\ Len(more) = 1 /\ more[1].type = "stream_start"
        BY <4>3 DEF StreamStart
      <4>. HIDE DEF more
      <4>5. NoneIs(more, "tag") /\ ~NoneIs(more, "stream_start")
        BY <4>4 DEF NoneIs
      <4>. QED BY <4>1, <4>2, <4>4, <4>5
    <3>. QED BY <1>1, <3>1, <3>2
  <2>2. /\ playbin'.uri = playbin.uri /\ playbin'.queued = None /\ IsRolling'
        /\ mixed' = mixed /\ inbox' = inbox
    <3>1. CASE Preroll
      <4>1. /\ playbin.goal \in Rolls /\ playbin'.state = playbin.goal /\ ~IsRolling
            /\ playbin'.uri = playbin.uri /\ playbin'.queued = playbin.queued
        BY <3>1 DEF Preroll, Starting, Rolls, TypeOK, PipelineType
      <4>2. playbin.queued = None
        BY <4>1 DEF TagInv, SourceIsSet
      <4>. QED BY <3>1, <4>1, <4>2 DEF Preroll, IsRolling, Rolls
    <3>2. CASE NextSourceStarts
      BY <3>2 DEF NextSourceStarts, AtEnd, Plays, IsRolling, TypeOK, PipelineType
    <3>. QED BY <1>1, <3>1, <3>2
  <2>3. Started' => Started /\ OnNow' = OnNow
    <3>1. CASE Preroll
      <4>1. playbin.queued = None
        BY <3>1 DEF Preroll, Starting, TagInv, SourceIsSet
      <4>. QED BY <1>0, <2>2, <4>1 DEF Started, OnNow
    <3>2. CASE NextSourceStarts
      <4>1. audio.pendingTags # None
        BY <3>2 DEF NextSourceStarts, TagInv, StartIsTold
      <4>. QED BY <1>0, <2>2, <4>1 DEF Started
    <3>. QED BY <1>1, <3>1, <3>2
  <2>4. /\ NoTagBehind(mailbox) => NoTagBehind(mailbox')
        /\ \A other : TagsAreOf(mailbox, other) => TagsAreOf(mailbox', other)
        /\ ~NoneIs(mailbox', "stream_start")
    BY <1>0, <2>1, TagsOfConcat DEF Post
  <2>5. uri # None
    BY UrisAssumption, NoneAssumption DEF Tlid
  <2>6. SourceIsSet' /\ StartIsTold'
    BY <2>1, <2>2, <2>4, <2>5 DEF SourceIsSet, StartIsTold
  <2>7. ~mixed' => TagsAreRight'
    BY <1>0, <2>2, <2>3, <2>4 DEF TagInv, TagsAreRight
  <2>. QED BY <2>2, <2>4, <2>6, <2>7 DEF TagInv
<1>2. CASE SegmentPasses \/ SourceFinishes
  <2>1. /\ playbin'.uri = playbin.uri /\ playbin'.source = playbin.source
        /\ playbin'.queued = playbin.queued /\ playbin'.state = playbin.state
        /\ mailbox' = mailbox /\ mixed' = mixed
    BY <1>2 DEF SegmentPasses, SourceFinishes, TypeOK, PipelineType
  <2>2. NoneIs(inbox', "stream_changed") => NoneIs(inbox, "stream_changed")
    <3>1. /\ [type |-> "position_changed"] \in EventType
          /\ [type |-> "about_to_finish"] \in EventType
      BY DEF EventType
    <3>2. /\ <<[type |-> "position_changed"]>> \in Seq(EventType)
          /\ <<[type |-> "about_to_finish"]>> \in Seq(EventType)
      BY <3>1
    <3>. QED BY <1>2, <3>2, HeardBefore DEF SegmentPasses, SourceFinishes
  <2>3. SameTags(mailbox, mailbox')
    BY <2>1 DEF SameTags
  <2>. QED BY <1>0, <2>1, <2>2, <2>3, TagsStay DEF IsRolling
<1>3. CASE SourceEnds \/ BufferRunsLow \/ BufferFills \/ ElementFails
  <2>1. /\ playbin'.uri = playbin.uri /\ playbin'.source = playbin.source
        /\ playbin'.queued = playbin.queued /\ playbin'.state = playbin.state
        /\ inbox' = inbox /\ mixed' = mixed
    BY <1>3 DEF SourceEnds, BufferRunsLow, BufferFills, Buffering, ElementFails, TypeOK, PipelineType
  <2>2. PICK m \in Msgs : Post(<<m>>) /\ m.type \notin {"tag", "stream_start"}
    <3>1. CASE SourceEnds
      <4>1. [type |-> "end_of_stream"] \in Msgs
        BY DEF MessageType, Msgs
      <4>. QED BY <3>1, <4>1 DEF SourceEnds
    <3>2. CASE BufferRunsLow \/ BufferFills
      <4>1. PICK percent \in {0, 100} : Buffering(percent)
        BY <3>2 DEF BufferRunsLow, BufferFills
      <4>2. [type |-> "buffering", percent |-> percent, live |-> StreamOf(playbin) \in Live,
             stale |-> FALSE] \in Msgs
        BY <4>1 DEF MessageType, Msgs
      <4>. QED BY <4>1, <4>2 DEF Buffering
    <3>3. CASE ElementFails
      <4>1. [type |-> "error"] \in Msgs
        BY DEF MessageType, Msgs
      <4>. QED BY <3>3, <4>1 DEF ElementFails
    <3>. QED BY <1>3, <3>1, <3>2, <3>3
  <2>3. SameTags(mailbox, mailbox')
    BY <1>0, <2>2, TagsOfOne DEF Post
  <2>. QED BY <1>0, <2>1, <2>3, TagsStay DEF IsRolling
<1>4. CASE FindTag
  <2>. DEFINE of == StreamOf(playbin)
              m == [type |-> "tag", of |-> of]
  <2>1. /\ UNCHANGED <<playbin, inbox>> /\ Post(<<m>>) /\ of # None
        /\ mixed' = (mixed \/ playbin.finishing \/ playbin.queued # None)
    BY <1>4 DEF FindTag
  <2>2. of \in Uris
    BY <2>1, StreamOfType
  <2>3. m \in Msgs /\ m.type = "tag" /\ m.of = of
    BY <2>2 DEF MessageType, Msgs
  <2>. HIDE DEF m
  <2>4. SourceIsSet' /\ StartIsTold'
    BY <1>0, <2>1, <2>3, TagsOfOne DEF TagInv, SourceIsSet, StartIsTold, IsRolling, Post
  <2>5. ~NoTagBehind(mailbox') => mixed' /\ IsRolling'
    <3>1. CASE NoneIs(mailbox, "set_uri")
      BY <1>0, <2>1, <2>3, <3>1, TagsOfOne DEF Post
    <3>2. CASE ~NoneIs(mailbox, "set_uri")
      <4>1. SetsUri /\ IsHeld
        BY <3>2, NoSetUriWaits DEF StreamInv, PipelineHeld
      <4>2. playbin.goal \in Rolls
        BY <2>1 DEF StreamOf, TagInv, SourceIsSet, StreamInv, PipelineHeld, Rolls
      <4>3. callback # "none"
        BY <4>1, <4>2 DEF IsHeld
      <4>4. IsRolling /\ playbin.finishing
        BY <4>3 DEF StreamInv, PipelineHeld, CallbackWaits
      <4>. QED BY <2>1, <4>4 DEF IsRolling
    <3>. QED BY <3>1, <3>2
  <2>6. ~mixed' => TagsAreRight'
    <3>. SUFFICES ASSUME ~mixed, ~mixed'
                  PROVE  TagsAreRight'
      BY <2>1
    <3>1. of = playbin.uri
      BY <2>1 DEF StreamOf, TagInv, SourceIsSet
    <3>2. TagsAreOf(mailbox', playbin'.uri)
      BY <1>0, <2>1, <2>3, <3>1, TagsOfOne DEF Post, TagInv, TagsAreRight
    <3>3. (Started' <=> Started) /\ OnNow' = OnNow
      BY <1>0, <2>1 DEF Started, OnNow
    <3>. QED BY <1>0, <2>1, <3>2, <3>3 DEF TagInv, TagsAreRight
  <2>. QED BY <2>4, <2>5, <2>6 DEF TagInv
<1>. QED BY <1>1, <1>2, <1>3, <1>4 DEF GStreamer

\* When all that was on its way is handled, the tags the actor has and the title
\* that core shows are those of the stream that is on, or there are none: tags
\* of a stream that was given up, or was not yet told of, do not stay.  Tags that
\* were found when the next stream was already asked for are left out.
THEOREM AlwaysTagsOfTheStream == Spec => []TagsOfTheStream
<1>. DEFINE GInv == IInv /\ StreamInv /\ CallbackWaits /\ TagInv
<1>1. Init => GInv
  <2>. SUFFICES ASSUME Init
                PROVE  GInv
    OBVIOUS
  <2>1. IInv /\ StreamInv /\ CallbackWaits
    BY InitIInv, InitStreamInv
  <2>2. /\ ~IsRolling /\ playbin.uri = None /\ playbin.source = None /\ playbin.queued = None
        /\ audio.tags = {} /\ audio.pendingTags = None /\ core.title = None
        /\ Len(mailbox) = 0
    BY DEF Init, InitPipeline, InitAudio, IsRolling
  <2>3. NoTagBehind(mailbox) /\ TagsAreOf(mailbox, playbin.uri)
    BY <2>2 DEF NoTagBehind, TagsAreOf
  <2>. QED BY <2>1, <2>2, <2>3 DEF TagInv, SourceIsSet, StartIsTold, TagsAreRight
<1>2. GInv /\ [Next]_vars => GInv'
  <2>. SUFFICES ASSUME GInv, [Next]_vars
                PROVE  GInv'
    OBVIOUS
  <2>1. IInv' /\ StreamInv' /\ CallbackWaits'
    BY NextIInv, NextStreamInv
  <2>2. CASE Next
    <3>1. TagInv'
      BY <2>2, HandlersKeepTags, CallsKeepTags, CoreKeepsTags, GStreamerKeepsTags
         DEF Next, Actor, Calls, GStreamer
    <3>. QED BY <2>1, <3>1
  <2>3. CASE UNCHANGED vars
    BY <2>1, <2>3 DEF vars, TagInv, SourceIsSet, StartIsTold, TagsAreRight, Started, OnNow,
                      IsRolling, NoTagBehind, TagsAreOf, NoneIs
  <2>. QED BY <2>2, <2>3
<1>3. GInv => TagsOfTheStream
  <2>. SUFFICES ASSUME GInv, Quiet, playbin.source # None, ~mixed
                PROVE  audio.tags \subseteq {playbin.source} /\ core.title \in {None, playbin.source}
    BY DEF TagsOfTheStream
  <2>1. NoneIs(mailbox, "stream_start") /\ NoneIs(inbox, "stream_changed")
    BY DEF Quiet, NoneIs
  <2>2. Started /\ OnNow = playbin.source
    BY <2>1 DEF TagInv, SourceIsSet, StartIsTold, Started, OnNow
  <2>. QED BY <2>1, <2>2 DEF TagInv, TagsAreRight
<1>. QED BY <1>1, <1>2, <1>3, PTL DEF Spec
=============================================================================
