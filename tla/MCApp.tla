--------------------------------- MODULE MCApp ---------------------------------
(* What the process may find, in small. *)
EXTENDS App

CONSTANTS alice, bob

MCBackends == {"m3u", "file"}
MCClients == {alice, bob}
Low == Number(20)
High == Number(80)
MCVolumes == {Low, High}
MCMutes == {Bool(TRUE)}
MCResolvable == {Word("localhost")}

Yes == Word("yes")
No == Word("false")

MCAppSchemas ==
    [core |-> Schema([restore_state |-> Boolean(TRUE)]),
     logging |-> Schema([verbosity |-> Integer(FALSE, -1, 4, None)]),
     loglevels |-> MapSchema(LogLevel),
     audio |-> Schema([mixer |-> String(FALSE, None),
                       mixer_volume |-> Integer(TRUE, 0, 100, None)]),
     proxy |-> Schema([scheme |-> String(TRUE, {Word("http")}), port |-> Port(TRUE),
                       password |-> Secret(TRUE)])]

MCDefaults ==
    [core |-> [restore_state |-> No],
     logging |-> [verbosity |-> Number(0)],
     audio |-> [mixer |-> Word("software"), mixer_volume |-> Blank],
     proxy |-> [scheme |-> Blank, port |-> Blank, password |-> Blank]]

Extension(types, defaults) ==
    [schema |-> Schema(types), defaults |-> defaults]

MCExtensions ==
    [softwaremixer |-> Extension([enabled |-> Boolean(FALSE)], [enabled |-> Yes]),
     http |-> Extension([enabled |-> Boolean(FALSE), hostname |-> Hostname(FALSE),
                         csrf_protection |-> Boolean(TRUE),
                         allowed_origins |-> ListOf(TRUE, TRUE, String(FALSE, None))],
                        [enabled |-> Yes, hostname |-> Word("localhost"),
                         csrf_protection |-> Yes, allowed_origins |-> Blank]),
     m3u |-> Extension([enabled |-> Boolean(FALSE), playlists_dir |-> Path(TRUE),
                        scan |-> Deprecated],
                       [enabled |-> Yes, playlists_dir |-> Blank]),
     file |-> Extension([enabled |-> Boolean(FALSE),
                         media_dirs |-> ListOf(TRUE, FALSE,
                             PairOf(FALSE, TRUE, <<Path(FALSE), String(FALSE, None)>>))],
                        [enabled |-> No, media_dirs |-> Word("music")])]

-----------------------------------------------------------------------------
(* Configurations. *)

Silent == [c \in MCClients |-> << >>]

Schemes == [m3u |-> {"m3u"}, file |-> {"file"}]

Base ==
    [files |-> << >>, overrides |-> None, flaws |-> [e \in DOMAIN MCExtensions |-> "none"],
     fails |-> {}, dies |-> {}, schemes |-> Schemes, saved |-> None, script |-> Silent, signals |-> 0]

Section(s, key, text) == s :> (key :> text)

Files ==
    {<<sections>> : sections \in
        {None,
         Section("audio", "mixer", Word("none")), Section("audio", "mixer", Word("odd")),
         Section("audio", "mixer_volume", Number(101)),
         Section("audio", "mixer_volume", Word("loud")),
         Section("audio", "volume", Number(20)),
         Section("core", "restore_state", Blank), Section("core", "restore_state", Word("maybe")),
         Section("loglevels", "mopidy", Word("debug")), Section("loglevels", "mopidy", Word("much")),
         Section("proxy", "password", Word("sesame")), Section("proxy", "port", Number(65536)),
         Section("proxy", "scheme", Word("ftp")),
         Section("http", "hostname", Word("nowhere")), Section("http", "enabled", Word("ture")),
         Section("http", "hostname", Pair(Word("unix"), Word("socket"))),
         Section("http", "allowed_origins", List(<<Word("here"), Blank, Word("there"), Word("here")>>)),
         Section("m3u", "scan", Word("daily")), Section("m3u", "playlists_dir", Word("lists")),
         Section("file", "enabled", Number(1)), Section("other", "enabled", Yes),
         [file |-> [enabled |-> Yes,
                    media_dirs |-> List(<<Pair(Word("disk"), Word("Disk")), Word("music")>>)]],
         [file |-> [enabled |-> Yes, media_dirs |-> List(<<Pair(Blank, Word("Disk"))>>)]]}}
    \union {<<Section("m3u", "enabled", No), Section("m3u", "enabled", Yes)>>,
            <<Section("logging", "verbosity", Number(4)), Section("logging", "verbosity", Word("loud"))>>,
            <<[e \in DOMAIN MCExtensions |-> [enabled |-> No]]>>}

Configured ==
    {[Base EXCEPT !.files = files] : files \in Files}
        \union {[Base EXCEPT !.files = <<Section("m3u", "enabled", No)>>,
                             !.overrides = Section("m3u", "enabled", Word("on"))]}
        \union {[Base EXCEPT !.flaws[e] = flaw] :
                   e \in DOMAIN MCExtensions, flaw \in {"schema", "command", "environment"}}

-----------------------------------------------------------------------------
(* Starting and stopping. *)

WithBackends == [Base EXCEPT !.files = <<Section("file", "enabled", Yes)>>]

Started ==
    {[WithBackends EXCEPT !.fails = fails, !.signals = 1] :
        fails \in {{}, {"mixer"}, {"audio"}, {"m3u"}, {"http"}}}
        \union {[WithBackends EXCEPT !.dies = {"m3u"}],
                [WithBackends EXCEPT !.schemes["file"] = {"file", "m3u"}],
                [Base EXCEPT !.signals = 2]}

-----------------------------------------------------------------------------
(* Clients. *)

\* Few extensions, and a state that is restored and saved.
Visiting ==
    [Base EXCEPT !.overrides = [core |-> [restore_state |-> Yes]],
                 !.flaws["m3u"] = "schema"]

Saved == [volume |-> High, mute |-> Bool(TRUE)]

Method(method, p, level) == [method |-> method, property |-> p, level |-> level]

Set(p, level) == Method("set", p, level)
Get(p) == Method("get", p, None)
SetUri == Method("set_uri", None, None)
Private == Method("_private", None, None)

Opens(origin) == [do |-> "open", origin |-> origin]
Sends(message) == [do |-> "send", message |-> message]
Posts(type, message) == [do |-> "post", type |-> type, message |-> message]
Closes == [do |-> "close"]

Ask(id, call) == Request("good", id, call)
Tell(call) == Request("good", None, call)

Script(a, b) == (alice :> a) @@ (bob :> b)

Scripts ==
    {Script(<<Opens("same"), Sends(Single(Ask(1, Set("volume", High))))>>,
            <<Posts("json", Batch(<<Tell(Set("volume", Low)), Ask(1, Get("volume"))>>))>>),
     Script(<<Opens("empty"), Closes>>,
            <<Opens("allowed"), Sends(Batch(<<Ask(1, Set("mute", Bool(TRUE))), Ask(2, Get("mute"))>>))>>),
     Script(<<Opens("foreign")>>,
            <<Opens("same"), Sends(Batch(<<Ask(1, Private), Request("faulty", 2, Private),
                                           Tell(Private), Ask(3, SetUri)>>))>>),
     Script(<<Opens("same"), Sends(Batch(<<Tell(Set("volume", Number(101))), Ask(1, Get("volume")),
                                           Request("odd", 2, Get("volume"))>>)),
              Sends(Garbage)>>,
            <<Posts("text", Garbage), Posts("json", Garbage), Posts("json", Batch(<< >>))>>)}

SetsVolume == <<Posts("json", Single(Ask(1, Set("volume", Low))))>>

Visited ==
    {[Visiting EXCEPT !.script = script] : script \in Scripts}
        \union {[Visiting EXCEPT !.saved = [Saved EXCEPT !["mute"] = None],
                                 !.script = Script(<<Opens("same")>>, SetsVolume)],
                [Visiting EXCEPT !.saved = Saved, !.signals = 1],
                [Visiting EXCEPT !.saved = Saved, !.script = Script(<< >>, SetsVolume),
                                 !.files = <<Section("audio", "mixer_volume", Number(20))>>]}

MCSettings == Configured \union Started \union Visited
=============================================================================
