-------------------------------- MODULE Pipeline --------------------------------
(***************************************************************************)
(* What core takes audio for: the operators of PipelineOps, each as a step *)
(* of its own.  Core runs them inside its methods; GstAudio implements     *)
(* this specification.                                                     *)
(***************************************************************************)
EXTENDS PipelineOps

CONSTANT Uris   \* what clients play

VARIABLES gst, bus, inbox

vars == <<gst, bus, inbox>>

Here == [gst |-> gst, bus |-> bus, inbox |-> inbox]

Become(w) == gst' = w.gst /\ bus' = w.bus /\ inbox' = w.inbox

Init == gst = InitPipeline /\ bus = << >> /\ inbox = << >>

\* Core calls audio.  The events that were on the bus before the call have been
\* relayed; those that came since stay, in front of what the call brings.
Asking == [Here EXCEPT !.bus = << >>]

Answered(asked) == Become([asked EXCEPT !.bus = bus \o @])

Called ==
    \/ Answered(PrepareChange(Asking))
    \/ Answered(StopPlayback(Asking))
    \/ \E uri \in Uris : Answered(SetUri(Asking, uri))
    \/ \E goal \in {"PAUSED", "PLAYING"} : Answered(SetPipeline(Asking, goal))
    \/ \E pos \in TrackPositions : Answered(SetPosition(Asking, pos))

Relays ==
    /\ bus # << >>
    /\ bus' = Tail(bus)
    /\ inbox' = Append(inbox, Head(bus))
    /\ UNCHANGED gst

\* Core takes an event.
Taken ==
    /\ inbox # << >>
    /\ inbox' = Tail(inbox)
    /\ UNCHANGED <<gst, bus>>

Moves ==
    \/ IsStarting(Here) /\ Become(StreamStarted(Here))
    \/ gst.segment /\ Become(SegmentPassed(Here))
    \/ /\ Sounds(Here) /\ ~gst.finishing
       /\ Become([Here EXCEPT !.gst.finishing = TRUE])
    \/ IsAtEnd(Here) /\ gst.queued # None /\ Become(NextSourceStarted(Here))
    \/ IsAtEnd(Here) /\ gst.queued = None /\ Become(SourceEnded(Here))
    \/ \E w \in Failures(Here) : Become(w)

Next == Called \/ Relays \/ Taken \/ Moves

Spec == Init /\ [][Next]_vars
=============================================================================
