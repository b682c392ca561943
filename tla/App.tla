---------------------------------- MODULE App ----------------------------------
(***************************************************************************)
(* The process, from the configuration to its end: the main thread, the    *)
(* mixer and audio actors with the volume, core, the backends, the HTTP    *)
(* frontend with its web server, and the clients.                          *)
(***************************************************************************)
EXTENDS Server, Http, Config

CONSTANT Settings   \* what the process may find

\* Clients do one thing after the other, and make one request after the other,
\* in a message of some kind; what they call that is exported is one of these,
\* of the volume or the mute.
Methods == {"get", "set", "set_uri"}

IsCallable(message) ==
    /\ message.requests \in Seq(Range(message.requests))
    /\ message.kind \in {"garbage", "single", "batch"}
    /\ message.kind = "garbage" => message.requests = << >>
    /\ message.kind = "single" => message.requests # << >>
    /\ \A r \in Range(message.requests) : IsExported(r.call) =>
          /\ r.call.method \in Methods
          /\ r.call.method # "set_uri" => r.call.property \in Properties

ASSUME ScriptsAssumption ==
    \A s \in Settings :
        /\ DOMAIN s.script = Clients
        /\ \A c \in Clients :
              /\ s.script[c] \in Seq(Range(s.script[c]))
              /\ \A step \in Range(s.script[c]) :
                    step.do \in {"send", "post"} => IsCallable(step.message)

\* A client is one WebSocket, or none.
OpensOnce(script) ==
    \A i, j \in DOMAIN script : script[i].do = "open" /\ script[j].do = "open" => i = j

ASSUME OpeningsAssumption ==
    \A s \in Settings : \A c \in Clients : OpensOnce(s.script[c])

\* No extension has the name of an actor that is not of an extension.
ASSUME SettingsAssumption ==
    /\ DOMAIN Extensions \intersect {"mixer", "audio", "core"} = {}
    /\ \A s \in Settings :
          /\ s.files \in Seq(Range(s.files))
          /\ DOMAIN s.flaws = DOMAIN Extensions /\ Range(s.flaws) \subseteq Flaws

VARIABLES
    setting,   \* what it finds: files, flaws of extensions, who fails, clients
    conf       \* the configuration, once it is validated

appVars == <<setting, conf>>

vars == <<actorVars, serverVars, mixerVars, coreVars, httpVars, appVars>>

NoConf == [config |-> << >>, statuses |-> << >>, errors |-> << >>]

Init ==
    /\ setting \in Settings
    /\ conf = NoConf
    /\ ActorsInit /\ ServerInit /\ MixerInit
    /\ signals = setting.signals
    /\ CoreInit(setting.saved)
    /\ HttpInit(setting.script)

-----------------------------------------------------------------------------
(* What the configuration says. *)

MixerName == conf.config["audio"]["mixer"]
Restores == conf.config["core"]["restore_state"] = Bool(TRUE)
IsEnabled(e) == e \in Enabled(conf.statuses)
Protected == IsEnabled("http") /\ conf.config["http"]["csrf_protection"] = Bool(TRUE)
HasMixer == MixerName = Word("software")

AllSources == Sources(setting.flaws, setting.files, setting.overrides)

AllSchemas == Schemas(setting.flaws)

\* The one mixer that can be found is that of the extension.
FindsMixer(config, statuses) ==
    \/ config["audio"]["mixer"] = Word("none")
    \/ config["audio"]["mixer"] = Word("software") /\ "softwaremixer" \in Enabled(statuses)

\* The launcher, and the server command until it starts the actors.
Configure ==
    /\ main.at = "config"
    /\ LET config == Validate(AllSchemas, AllSources)
           errors == Errors(AllSchemas, AllSources)
           statuses == ExtensionStatuses(setting.flaws, config, errors)
       IN  /\ conf' = [config |-> Disable(config, statuses), statuses |-> statuses,
                       errors |-> errors]
           /\ main' = IF Exits(statuses, errors) \/ ~FindsMixer(config, statuses)
                      THEN Go("ended") ELSE Go("mixer")
    /\ UNCHANGED <<actorVars, signals, mixerVars, coreVars, httpVars, setting>>

MainStarts ==
    /\ \/ StartMixer(HasMixer, conf.config["audio"]["mixer_volume"], setting.fails)
       \/ StartAudio
       \/ StartBackends(Enabled(conf.statuses) \intersect Backends, setting.fails, setting.dies)
       \/ StartCore(setting.schemes)
       \/ CoreSetUp
       \/ StartFrontends(IsEnabled("http"), setting.fails)
    /\ UNCHANGED appVars

\* What the main thread does when nobody makes it.
MainActs ==
    /\ MainStarts \/ (MainStops /\ UNCHANGED appVars)
    /\ UNCHANGED <<mixerVars, coreVars, httpVars>>

Signals == Interrupt \/ Terminate

\* Audio fails to start, and interrupts the main thread.
AudioFails ==
    /\ status["audio"] = "starting" /\ "audio" \in setting.fails
    /\ status' = [status EXCEPT !["audio"] = "running"]
    /\ main' = Interrupted
    /\ answers' = IF main' = main THEN answers ELSE NoLongerWaiting
    /\ box' = IF main' = main THEN box ELSE Forgotten
    /\ UNCHANGED <<signals, mixerVars>>

AudioStartsWell ==
    "audio" \notin setting.fails /\ AudioStarts(main.mixer) /\ UNCHANGED serverVars

AudioThread ==
    /\ \/ AudioFails \/ AudioStartsWell \/ (AudioActs(main.mixer) /\ UNCHANGED serverVars)
    /\ UNCHANGED <<coreVars, httpVars, appVars>>

MixerThread == MixerActs /\ UNCHANGED <<serverVars, coreVars, httpVars, appVars>>

CoreThread ==
    CoreActs(Restores, main.mixer) /\ UNCHANGED <<serverVars, httpVars, appVars>>

BackendThread ==
    \E b \in Backends : BackendStops(b) /\ UNCHANGED <<mixerVars, coreVars, httpVars, appVars>>

HttpThread == HttpActs /\ UNCHANGED <<serverVars, mixerVars, coreVars, appVars>>

WebThread == WebActs /\ UNCHANGED <<serverVars, mixerVars, coreVars, appVars>>

ClientsAct == ClientActs(Protected) /\ UNCHANGED <<serverVars, mixerVars, coreVars, appVars>>

\* The process is no more, or is stuck for lack of an orderly stop.
Over == main.at \in {"ended", "aborted"} /\ UNCHANGED vars

Next ==
    \/ Configure \/ MainActs
    \/ Signals /\ UNCHANGED <<mixerVars, coreVars, httpVars, appVars>>
    \/ AudioThread \/ MixerThread \/ CoreThread \/ BackendThread \/ HttpThread
    \/ WebThread \/ ClientsAct \/ Over

Spec == Init /\ [][Next]_vars

\* Threads go on as long as they can, once the actors are started; signals and
\* clients come or not.
FairSpec ==
    /\ Spec
    /\ WF_vars(MainActs) /\ WF_vars(AudioThread) /\ WF_vars(MixerThread)
    /\ WF_vars(CoreThread) /\ WF_vars(BackendThread) /\ WF_vars(HttpThread)
    /\ WF_vars(WebThread)

-----------------------------------------------------------------------------
(* Properties. *)

\* The variables have their types.
TypeOK ==
    /\ status \in [Actors -> Statuses]
    /\ main \in MainType
    /\ mixer \in MixerType
    /\ core \in CoreType
    /\ file = None \/ file \in State
    /\ [state |-> web.state, callbacks |-> web.callbacks, clients |-> web.clients,
        left |-> web.left] \in WebType
    /\ web.clients \subseteq open /\ open \subseteq Clients

IsSetUp == main.at \notin {"config", "ended"}

\* The text that counts for a key: that of the command line, or else of the
\* last file that has it, or else the default.
TextOf(s, key, text) ==
    LET Has(source) == s \in DOMAIN source /\ key \in DOMAIN source[s]
        having == {i \in DOMAIN setting.files : setting.files[i] # None /\ Has(setting.files[i])}
    IN  IF setting.overrides # None /\ Has(setting.overrides)
        THEN setting.overrides[s][key] = text
        ELSE IF having # {}
        THEN \E i \in having : /\ setting.files[i][s][key] = text
                               /\ \A j \in having : j <= i
        ELSE IF s \in DOMAIN Defaults THEN Defaults[s][key] = text
        ELSE Extensions[s].defaults[key] = text

\* Whatever the files, the command line and the extensions hold: what is started
\* has values that are valid for the texts that count, and no others, and what
\* has errors is off (_app/cli.py, _app/config.py, _app/extensions.py).
SetUpIsSound ==
    /\ main.at = "mixer" =>
          /\ \A s \in DOMAIN AppSchemas \union Enabled(conf.statuses) :
                LET schema == AllSchemas[s]
                IN  /\ conf.errors[s] = {}
                    /\ \A key \in DOMAIN conf.config[s] :
                          \E text \in {RawSection(AllSources, s)[key]} :
                              /\ TextOf(s, key, text)
                              /\ conf.config[s][key] = Deserialize(TypeOf(schema, key), text)
                              /\ conf.config[s][key] # Invalid
          /\ \A e \in DOMAIN Extensions :
                IF IsEnabled(e) THEN setting.flaws[e] = "none"
                ELSE e \in DOMAIN conf.config => conf.config[e]["enabled"] = Bool(FALSE)
    /\ IsSetUp => \A e \in DOMAIN Extensions \intersect Actors :
                     ~IsEnabled(e) => status[e] = "none"

\* The configuration that is printed is one with the same values, but that an
\* unset boolean is false (ConfigSchema.serialize), and no secret is printed.
ConfigReadsBack ==
    main.at = "mixer" =>
        \A s \in {t \in DOMAIN conf.config : conf.errors[t] = {}} :
            LET schema == AllSchemas[s]
                values == conf.config[s]
                again == Validated(schema, Serialized(schema, values, FALSE))
                shown == Serialized(schema, values, TRUE)
            IN  \A key \in DOMAIN values :
                    /\ \/ again[key] = values[key]
                       \/ /\ TypeOf(schema, key).kind = "boolean" /\ values[key] = None
                          /\ again[key] = Bool(FALSE)
                    /\ TypeOf(schema, key).kind = "secret" /\ values[key] # None
                           => shown[key] # values[key]

\* Nobody has anything left to do.
IsQuiet ==
    /\ main.at = "loop" /\ status["audio"] # "starting" /\ status["http"] # "starting"
    /\ \A a \in Actors : box[a] = << >>
    /\ web.state \in {"none", "serving"} /\ web.job = NoJob /\ web.callbacks = << >>

\* Once all is quiet, the volume and mute that the mixer was last asked for is
\* what is heard, also when it was asked before audio was ready, by the
\* configuration or with the restored state (SoftwareMixer.setup).
LastSetIsHeard ==
    IsQuiet /\ mixer.setup =>
        \A p \in Properties : wanted[p] # None => element[p] = wanted[p]

\* Once all is quiet, a client with a WebSocket knows the volume and mute that
\* it would be told if it asked (WebSocketHandler.broadcast).
ToldIsReal == IsQuiet => \A c \in open : told[c] = element

\* The state that is saved at the end has the volume and mute that were last
\* asked for, if the mixer was ready (MixerController._save_state).
SavesWhatWasSet ==
    [][file' # file /\ file' # None /\ main.mixer /\ core.ready
          => \A p \in Properties : wanted[p] # None => file'[p] = wanted[p]]_vars

\* The ids that a message is answered with, if pydantic finds nothing.
AnsweredIds(message) ==
    LET requests == message.requests
        answered == Chosen(requests, {r \in Range(requests) : IsInvalid(r) \/ ~IsNotification(r)})
    IN  IF requests = << >> THEN <<None>>
        ELSE [i \in 1 .. Len(answered) |->
                 IF IsInvalid(answered[i]) THEN None ELSE answered[i].id]

\* Each message is answered in full and in order, or, if pydantic raises, not at
\* all; and the volume or mute that is answered is the one last asked for, by
\* whomever, also when nobody waited for that (Wrapper.handle_json).
AnswersAreTrue ==
    /\ reply # NoReply =>
          IF \E i \in DOMAIN reply.message.requests : Raises(reply.message.requests[i])
          THEN reply.isLost /\ reply.responses = << >>
          ELSE [i \in DOMAIN reply.responses |-> reply.responses[i].id]
                   = AnsweredIds(reply.message)
    /\ answers["web"].state = "value" =>
          LET call == Current.call
          IN  call.method = "get" => answers["web"].value \in {None, wanted[call.property]}

\* The process ends once it starts to stop, unless it is interrupted while it
\* stops, or the web server is stopped before it has a loop (server.py, the
\* `finally` block; HttpServer.stop).
ProcessEnds ==
    main.at = "stop_frontends" ~>
        \/ main.at = "ended" /\ (\A a \in Actors : ~IsUp(a)) /\ web.state \in {"none", "ended"}
        \/ main.at = "aborted"
        \/ main.at = "ended" /\ web.left
=============================================================================
