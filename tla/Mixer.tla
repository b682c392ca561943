--------------------------------- MODULE Mixer ---------------------------------
(***************************************************************************)
(* Volume and mute.  The software mixer is an actor that has no volume of  *)
(* its own: it hands on what it is asked to the audio actor, which has the *)
(* GStreamer element.  Until audio has told the mixer of it, the mixer     *)
(* keeps what it is asked to set for then.                                 *)
(***************************************************************************)
EXTENDS Actors, Values

CONSTANTS Volumes, Mutes   \* values to set

ASSUME LevelsAssumption == None \notin Volumes \union Mutes

VARIABLES
    mixer,     \* fields of SoftwareMixer
    element,   \* properties of the volume element
    wanted     \* history: what the mixer was last asked to set

mixerVars == <<mixer, element, wanted>>

Properties == {"volume", "mute"}
Levels == Volumes \union Mutes

Unset == [p \in Properties |-> None]

MixerType == [setup : BOOLEAN, initial : [Properties -> Levels \union {None}]]

\* What the element has before anyone sets it is not any of the values.
MixerInit ==
    /\ mixer = [setup |-> FALSE, initial |-> Unset]
    /\ element = Unset
    /\ wanted = Unset

Level(p, level) == [property |-> p, level |-> level]

SetLevel(p, level) == Message("set", None, Level(p, level))

\* setup() of the adapter, in on_start of the audio actor.  When the pipeline
\* cannot be built the actor stays, and the process is interrupted.
AudioStarts(withMixer) ==
    /\ status["audio"] = "starting"
    /\ status' = [status EXCEPT !["audio"] = "running"]
    /\ box' = IF withMixer THEN Put(box, "mixer", Message("adapter", None, None)) ELSE box
    /\ UNCHANGED <<answers, mixerVars>>

-----------------------------------------------------------------------------
(* The mixer actor. *)

\* What was asked before is set now.
MixerSetup ==
    /\ Handles("mixer", "adapter")
    /\ mixer' = [mixer EXCEPT !.setup = TRUE]
    /\ LET volume == mixer.initial["volume"]
           mute == mixer.initial["mute"]
           rest == Taken("mixer")
           withVolume == IF volume = None THEN rest
                         ELSE Put(rest, "audio", SetLevel("volume", volume))
       IN  box' = IF mute = None THEN withVolume
                  ELSE Put(withVolume, "audio", SetLevel("mute", mute))
    /\ UNCHANGED <<status, answers, element, wanted>>

\* Mistake: what is asked too early is lost.
MixerSetNow ==
    /\ Handles("mixer", "set")
    /\ LET m == Head(box["mixer"])
       IN  /\ box' = IF mixer.setup
                     THEN Put(Taken("mixer"), "audio", SetLevel(m.arg.property, m.arg.level))
                     ELSE Taken("mixer")
           /\ wanted' = [wanted EXCEPT ![m.arg.property] = m.arg.level]
           /\ answers' = Answered(m, Bool(mixer.setup))
    /\ UNCHANGED <<status, mixer, element>>

MixerSet ==
    /\ Handles("mixer", "set")
    /\ LET m == Head(box["mixer"])
           p == m.arg.property
           level == m.arg.level
       IN  /\ mixer' = IF mixer.setup THEN mixer ELSE [mixer EXCEPT !.initial[p] = level]
           /\ box' = IF mixer.setup
                     THEN Put(Taken("mixer"), "audio", SetLevel(p, level))
                     ELSE Taken("mixer")
           /\ wanted' = [wanted EXCEPT ![p] = level]
           /\ answers' = Answered(m, Bool(mixer.setup))
    /\ UNCHANGED <<status, element>>

\* The mixer asks audio, and waits before it answers core.
MixerGet ==
    /\ Handles("mixer", "get")
    /\ LET m == Head(box["mixer"])
       IN  IF mixer.setup
           THEN /\ box' = Put(box, "audio", Message("get", "mixer", m.arg))
                /\ answers' = Asking("mixer", "audio")
           ELSE /\ box' = Taken("mixer")
                /\ answers' = Answered(m, None)
    /\ UNCHANGED <<status, mixerVars>>

\* An exception, when audio is dead, is passed on.
MixerGets ==
    /\ IsAnswered("mixer")
    /\ box' = Taken("mixer")
    /\ answers' = [answers EXCEPT !["mixer"] = NoAnswer,
                                  ![Head(box["mixer"]).from] = answers["mixer"]]
    /\ UNCHANGED <<status, mixerVars>>

\* MixerListener.send: core is told.
MixerTells ==
    /\ Handles("mixer", "changed")
    /\ box' = Put(Taken("mixer"), "core", Head(box["mixer"]))
    /\ UNCHANGED <<status, answers, mixerVars>>

MixerTeardown ==
    /\ Handles("mixer", "teardown")
    /\ mixer' = [mixer EXCEPT !.setup = FALSE]
    /\ box' = Taken("mixer")
    /\ UNCHANGED <<status, answers, element, wanted>>

MixerStops ==
    /\ Handles("mixer", "stop")
    /\ Stops("mixer")
    /\ box' = [box EXCEPT !["mixer"] = << >>]
    /\ UNCHANGED mixerVars

-----------------------------------------------------------------------------
(* The adapter, in the audio actor. *)

Changed(p, level) == Message("changed", None, Level(p, level))

\* Mistake: the mixer tells of what it was asked for once audio has it.
AudioSetsSilently ==
    /\ Handles("audio", "set")
    /\ LET m == Head(box["audio"])
       IN  element' = [element EXCEPT ![m.arg.property] = m.arg.level]
    /\ box' = Taken("audio")
    /\ UNCHANGED <<status, answers, mixer, wanted>>

AudioSets ==
    /\ Handles("audio", "set")
    /\ LET m == Head(box["audio"])
       IN  /\ element' = [element EXCEPT ![m.arg.property] = m.arg.level]
           /\ box' = Put(Taken("audio"), "mixer", Changed(m.arg.property, m.arg.level))
    /\ UNCHANGED <<status, answers, mixer, wanted>>

AudioGets ==
    /\ Handles("audio", "get")
    /\ LET m == Head(box["audio"])
       IN  answers' = Answered(m, element[m.arg.property])
    /\ box' = Taken("audio")
    /\ UNCHANGED <<status, mixerVars>>

\* set_uri reads the volume and sets it again, for the sake of Mac OS X.
AudioSetsUri(withMixer) ==
    /\ Handles("audio", "set_uri")
    /\ box' = IF withMixer
              THEN Put(Taken("audio"), "mixer", Changed("volume", element["volume"]))
              ELSE Taken("audio")
    /\ answers' = Answered(Head(box["audio"]), None)
    /\ UNCHANGED <<status, mixerVars>>

AudioStops(withMixer) ==
    /\ Handles("audio", "stop")
    /\ Stops("audio")
    /\ LET rest == [box EXCEPT !["audio"] = << >>]
       IN  box' = IF withMixer THEN Put(rest, "mixer", Message("teardown", None, None)) ELSE rest
    /\ UNCHANGED mixerVars

MixerActs ==
    \/ MixerSetup \/ MixerSet \/ MixerGet \/ MixerGets \/ MixerTells \/ MixerTeardown
    \/ MixerStops

AudioActs(withMixer) ==
    \/ AudioSets \/ AudioGets \/ AudioSetsUri(withMixer) \/ AudioStops(withMixer)
=============================================================================
