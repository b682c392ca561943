------------------------------- MODULE Services -------------------------------
(***************************************************************************)
(* What the core actor does for others than playback: it sets and asks for *)
(* the volume and mute of the mixer, restores them when it is set up and   *)
(* saves them at the end, and hands on what the mixer tells.  While the    *)
(* mixer or audio has not answered, core does nothing else: the message    *)
(* stays at the head of its mailbox, and the answers so far are kept.      *)
(***************************************************************************)
EXTENDS Mixer

VARIABLES
    core,      \* [loaded: the state that was read, got: answers so far, ready: history]
    file       \* the state file: None, or the saved volume and mute

coreVars == <<core, file>>

State == [Properties -> Levels \union {None}]

CoreType ==
    [loaded : State, got : Seq(Levels \union {None} \union {Bool(b) : b \in BOOLEAN}), ready : BOOLEAN]

CoreInit(saved) ==
    /\ core = [loaded |-> Unset, got |-> << >>, ready |-> FALSE]
    /\ file = saved

Call(to, type, arg) == [to |-> to, type |-> type, arg |-> arg]

SetCalls(state, p) ==
    IF state[p] = None THEN << >> ELSE <<Call("mixer", "set", Level(p, state[p]))>>

\* What core asks of others to handle message m, in this order.
Calls(m) ==
    CASE m.type = "setup" -> SetCalls(core.loaded, "mute") \o SetCalls(core.loaded, "volume")
      [] m.type = "teardown" ->
             <<Call("mixer", "get", Level("volume", None)), Call("mixer", "get", Level("mute", None))>>
      [] OTHER -> <<Call(IF m.arg.method = "set_uri" THEN "audio" ELSE "mixer",
                         m.arg.method, Level(m.arg.property, m.arg.level))>>

Job == Head(box["core"])

\* The calls that are to be made; none, when no state is restored or saved.
Left(restore) ==
    IF Job.type \in {"setup", "teardown"} /\ ~restore THEN << >>
    ELSE SubSeq(Calls(Job), Len(core.got) + 1, Len(Calls(Job)))

CoreHandles(types) == \E type \in types : Handles("core", type)

IsAJob == CoreHandles({"setup", "teardown", "request"})

\* A level that is out of range is refused.
IsBad(m) == m.type = "request" /\ m.arg.method = "set" /\ m.arg.level \notin Levels

Unknown(call) == IF call.type = "set" THEN Bool(FALSE) ELSE None

-----------------------------------------------------------------------------

\* The file is read and deleted; one that cannot be read is as one that has
\* nothing in it.
CoreLoads(restore) ==
    /\ Handles("core", "setup")
    /\ restore /\ file # None
    /\ core' = [core EXCEPT !.loaded = file]
    /\ file' = None
    /\ UNCHANGED <<actorVars, mixerVars>>

\* Without a mixer the answer is known.
CoreAsks(restore, withMixer) ==
    /\ IsAJob /\ ~IsBad(Job)
    /\ Job.type = "setup" /\ restore => file = None
    /\ Left(restore) # << >>
    /\ LET call == Head(Left(restore))
           isFirst == core.got = << >>
           at == [core EXCEPT !.ready = IF isFirst THEN mixer.setup ELSE @]
       IN  IF call.to = "mixer" /\ ~withMixer
           THEN /\ core' = [at EXCEPT !.got = Append(@, Unknown(call))]
                /\ UNCHANGED actorVars
           ELSE /\ core' = at
                /\ box' = Put(box, call.to, Message(call.type, "core", call.arg))
                /\ answers' = Asking("core", call.to)
                /\ UNCHANGED status
    /\ UNCHANGED <<mixerVars, file>>

\* The error of a mixer that is dead is logged.
CoreGets(restore) ==
    /\ IsAnswered("core")
    /\ core' = [core EXCEPT !.got = Append(@,
                    IF answers["core"].state = "value" THEN answers["core"].value
                    ELSE Unknown(Head(Left(restore))))]
    /\ answers' = [answers EXCEPT !["core"] = NoAnswer]
    /\ UNCHANGED <<status, box, mixerVars, file>>

\* Mistake: the state is saved before the mute was asked for.
CoreFinishesEarly(restore) ==
    /\ IsAJob
    /\ Left(restore) = << >> \/ (Job.type = "teardown" /\ core.got # << >>)
    /\ file' = IF restore /\ Job.type = "teardown"
               THEN [Unset EXCEPT !["volume"] = core.got[1]] ELSE file
    /\ core' = [core EXCEPT !.got = << >>]
    /\ answers' = Answered(Job, IF Job.type = "request" THEN core.got[1] ELSE None)
    /\ box' = Taken("core")
    /\ UNCHANGED <<status, mixerVars>>

CoreFinishes(restore) ==
    /\ IsAJob /\ ~IsBad(Job)
    /\ Job.type = "setup" /\ restore => file = None
    /\ Left(restore) = << >>
    /\ file' = IF restore /\ Job.type = "teardown"
               THEN [Unset EXCEPT !["volume"] = core.got[1], !["mute"] = core.got[2]]
               ELSE file
    /\ core' = [core EXCEPT !.got = << >>]
    /\ answers' = Answered(Job, IF Job.type = "request" THEN core.got[1] ELSE None)
    /\ box' = Taken("core")
    /\ UNCHANGED <<status, mixerVars>>

\* ValidationError
CoreRefuses ==
    /\ IsAJob /\ IsBad(Job)
    /\ answers' = IF Job.from = None THEN answers ELSE [answers EXCEPT ![Job.from] = Raised]
    /\ box' = Taken("core")
    /\ UNCHANGED <<status, mixerVars, coreVars>>

\* CoreListener.send: the frontends are told.
CoreForwards ==
    /\ Handles("core", "changed")
    /\ box' = Put(Taken("core"), "http", Job)
    /\ UNCHANGED <<status, answers, mixerVars, coreVars>>

CoreStops ==
    /\ Handles("core", "stop")
    /\ Stops("core")
    /\ box' = [box EXCEPT !["core"] = << >>]
    /\ UNCHANGED <<mixerVars, coreVars>>

CoreActs(restore, withMixer) ==
    \/ CoreLoads(restore) \/ CoreAsks(restore, withMixer) \/ CoreGets(restore)
    \/ CoreFinishes(restore) \/ CoreRefuses \/ CoreForwards \/ CoreStops
=============================================================================
