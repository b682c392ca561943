--------------------------------- MODULE Server ---------------------------------
(***************************************************************************)
(* The main thread, from the command that starts the server to the end of  *)
(* the process.  It starts the actors one after the other, runs the main   *)
(* loop, and stops them in the opposite order, whatever happened before.   *)
(***************************************************************************)
EXTENDS Actors

VARIABLES
    main,      \* where the main thread is, and what it started
    signals    \* how many more signals the process may get

serverVars == <<main, signals>>

\* It prepares the configuration, starts, stops, and is at the end; aborted it
\* is when the steps of stopping are left out.
Starting == {"mixer", "audio", "backends", "core", "setup", "frontends", "loop"}

Stopping == {"stop_frontends", "teardown", "stop_core", "stop_backends", "stop_audio",
             "stop_mixer", "stop_remaining"}

MainType ==
    [at : Starting \union Stopping \union {"config", "aborted", "ended"},
     asked : BOOLEAN,                \* the request of the current step is on its way
     mixer : BOOLEAN, core : BOOLEAN, audio : BOOLEAN,   \* there is a proxy of it
     backends : SUBSET Backends,     \* proxies for core
     failed : SUBSET Actors]         \* whose initialization failed

ServerInit ==
    main = [at |-> "config", asked |-> FALSE, mixer |-> FALSE, core |-> FALSE,
            audio |-> FALSE, backends |-> {}, failed |-> {}]

Go(at) == [main EXCEPT !.at = at, !.asked = FALSE]

-----------------------------------------------------------------------------
(* Start.  `fails` is what fails of what is started: an actor that is not   *)
(* made, one that dies in on_start, or one that does not tell of itself.    *)

\* An actor that is not made because its initialization fails is left out.
StartMixer(configured, volume, fails) ==
    /\ main.at = "mixer"
    /\ LET started == configured /\ "mixer" \notin fails
       IN  /\ main' = [Go("audio") EXCEPT !.mixer = started,
                                          !.failed = @ \union ({"mixer"} \intersect fails)]
           /\ status' = [status EXCEPT !["mixer"] = IF started THEN "running" ELSE @]
           /\ box' = [box EXCEPT !["mixer"] =
                         IF started /\ volume # None
                         THEN <<Message("set", None, [property |-> "volume", level |-> volume])>>
                         ELSE @]
    /\ UNCHANGED <<answers, signals>>

StartAudio ==
    /\ main.at = "audio"
    /\ status' = [status EXCEPT !["audio"] = "starting"]
    /\ main' = [Go("backends") EXCEPT !.audio = TRUE]
    /\ UNCHANGED <<box, answers, signals>>

\* Backends start side by side and are asked for a sign of life.
StartBackends(registered, fails, dies) ==
    /\ main.at = "backends"
    /\ LET started == registered \ fails
       IN  /\ status' = [a \in Actors |->
                           IF a \notin started THEN status[a]
                           ELSE IF a \in dies THEN "stopped" ELSE "running"]
           /\ main' = [Go("core") EXCEPT !.backends = started \ dies,
                                         !.failed = @ \union (registered \intersect fails)]
    /\ UNCHANGED <<box, answers, signals>>

\* Two backends for one URI scheme.
Clash(schemes) ==
    \E b, c \in main.backends : b # c /\ schemes[b] \intersect schemes[c] # {}

\* Core is made, with those backends that tell what they have to offer, and is
\* asked to set itself up.
StartCore(schemes) ==
    /\ main.at = "core"
    /\ IF Clash(schemes)
       THEN main' = Go("stop_frontends") /\ UNCHANGED actorVars
       ELSE /\ status' = [status EXCEPT !["core"] = "running"]
            /\ box' = [box EXCEPT !["core"] = <<Message("setup", "main", None)>>]
            /\ answers' = [answers EXCEPT !["main"] = Waits]
            /\ main' = Go("setup")
    /\ UNCHANGED signals

CoreSetUp ==
    /\ main.at = "setup" /\ IsAnswered("main")
    /\ main' = [Go("frontends") EXCEPT !.core = TRUE]
    /\ answers' = [answers EXCEPT !["main"] = NoAnswer]
    /\ UNCHANGED <<status, box, signals>>

StartFrontends(configured, fails) ==
    /\ main.at = "frontends"
    /\ status' = [status EXCEPT !["http"] =
                    IF configured /\ "http" \notin fails THEN "starting" ELSE @]
    /\ main' = [Go("loop") EXCEPT !.failed =
                    @ \union (IF configured THEN {"http"} \intersect fails ELSE {})]
    /\ UNCHANGED <<box, answers, signals>>

-----------------------------------------------------------------------------
(* The main loop ends on SIGTERM.  SIGINT, and exit_process(), interrupt    *)
(* the main thread wherever it is: what is left to do in the `finally`      *)
(* block is then not done.                                                  *)

Interrupted ==
    CASE main.at = "config" -> Go("ended")
      [] main.at \in Starting -> Go("stop_frontends")
      [] main.at \in Stopping -> Go("aborted")
      [] OTHER -> main

\* The request the thread waits for goes on without it.
NoLongerWaiting == [answers EXCEPT !["main"] = NoAnswer]

Forgotten ==
    [a \in Actors |->
        [i \in DOMAIN box[a] |->
            IF box[a][i].from = "main" THEN [box[a][i] EXCEPT !.from = None] ELSE box[a][i]]]

Interrupt ==
    /\ main.at \notin {"aborted", "ended"}
    /\ signals > 0
    /\ signals' = signals - 1
    /\ main' = Interrupted
    /\ answers' = NoLongerWaiting
    /\ box' = Forgotten
    /\ UNCHANGED status

Terminate ==
    /\ main.at = "loop"
    /\ main' = Go("stop_frontends")
    /\ UNCHANGED <<actorVars, signals>>

-----------------------------------------------------------------------------
(* Stop. *)

\* Asks an actor to stop, if it is up, and waits until it has.
StopActors(actors, next) ==
    LET left == {a \in actors : IsUp(a)}
    IN  IF ~main.asked /\ left # {}
        THEN \E a \in left :
                /\ main' = [main EXCEPT !.asked = TRUE]
                /\ box' = Put(box, a, Message("stop", "main", None))
                /\ answers' = [answers EXCEPT !["main"] = Waits]
                /\ UNCHANGED status
        ELSE /\ main.asked => IsAnswered("main")
             /\ answers' = NoLongerWaiting
             /\ main' = IF left = {} THEN Go(next) ELSE [main EXCEPT !.asked = FALSE]
             /\ UNCHANGED <<status, box>>

StopFrontends == main.at = "stop_frontends" /\ StopActors({"http"}, "teardown")

\* Core saves its state, if it came to be set up.
Teardown ==
    /\ main.at = "teardown"
    /\ IF main.core /\ ~main.asked
       THEN /\ main' = [main EXCEPT !.asked = TRUE]
            /\ box' = Put(box, "core", Message("teardown", "main", None))
            /\ answers' = Asking("main", "core")
            /\ UNCHANGED status
       ELSE /\ main.asked => IsAnswered("main")
            /\ main' = Go("stop_core")
            /\ answers' = NoLongerWaiting
            /\ UNCHANGED <<status, box>>

StopCore == main.at = "stop_core" /\ StopActors({"core"}, "stop_backends")
StopBackends == main.at = "stop_backends" /\ StopActors(Backends, "stop_audio")
StopAudio ==
    main.at = "stop_audio" /\ StopActors(IF main.audio THEN {"audio"} ELSE {}, "stop_mixer")
StopMixer == main.at = "stop_mixer" /\ StopActors({"mixer"}, "stop_remaining")
StopRemaining == main.at = "stop_remaining" /\ StopActors(Actors, "ended")

MainStops ==
    /\ \/ StopFrontends \/ Teardown \/ StopCore \/ StopBackends \/ StopAudio \/ StopMixer
       \/ StopRemaining
    /\ UNCHANGED signals

BackendStops(b) ==
    /\ Handles(b, "stop")
    /\ Stops(b)
    /\ box' = [box EXCEPT ![b] = << >>]
    /\ UNCHANGED serverVars
=============================================================================
