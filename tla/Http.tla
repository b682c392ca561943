--------------------------------- MODULE Http ---------------------------------
(***************************************************************************)
(* The HTTP frontend: an actor that gets the events of core, and the thread*)
(* of the web server, which serves the clients one message at a time.  The *)
(* actor reaches the clients through callbacks that it leaves to the loop  *)
(* of the web server.                                                      *)
(***************************************************************************)
EXTENDS Services, JsonRpc, SequencesExt

CONSTANT Clients

VARIABLES
    web,       \* the thread: its state, callbacks, WebSocket clients and current message
    scripts,   \* what each client is still to do
    open,      \* the clients with an open WebSocket
    told,      \* history: the levels each client with a WebSocket knows of
    reply      \* history: the last message that was handled, and its responses

httpVars == <<web, scripts, open, told, reply>>

StopLoop == <<"stop">>

NoJob == [client |-> None, socket |-> FALSE, message |-> Garbage, at |-> 0,
          responses |-> << >>]

NoReply == [message |-> Garbage, responses |-> << >>, isLost |-> FALSE]

WebType ==
    [state : {"none", "starting", "serving", "ended"},
     callbacks : Seq({StopLoop} \union (Clients \X Properties \X (Levels \union {None}))),
     clients : SUBSET Clients,
     left : BOOLEAN]

HttpInit(script) ==
    /\ web = [state |-> "none", callbacks |-> << >>, clients |-> {}, job |-> NoJob,
              left |-> FALSE]
    /\ scripts = script
    /\ open = {}
    /\ told = [c \in Clients |-> Unset]
    /\ reply = NoReply

\* The loop exists from the time the web server serves.
HasLoop == web.state \in {"serving", "ended"}

IsIdle == web.state = "serving" /\ web.job = NoJob

-----------------------------------------------------------------------------
(* The actor. *)

\* on_start starts the thread.
HttpStarts ==
    /\ status["http"] = "starting"
    /\ status' = [status EXCEPT !["http"] = "running"]
    /\ web' = [web EXCEPT !.state = "starting"]
    /\ UNCHANGED <<box, answers, scripts, open, told, reply>>

\* One callback for each client of now.
Broadcasts(arg) == SetToSeq({<<c, arg.property, arg.level>> : c \in web.clients})

\* Events are dropped as long as there is no loop.
HttpHearsEvent ==
    /\ Handles("http", "changed")
    /\ web' = [web EXCEPT !.callbacks =
                  IF HasLoop THEN @ \o Broadcasts(Head(box["http"]).arg) ELSE @]
    /\ box' = Taken("http")
    /\ UNCHANGED <<status, answers, scripts, open, told, reply>>

\* Mistake: the actor stops and leaves the thread alone.
HttpStopsAlone ==
    /\ Handles("http", "stop")
    /\ Stops("http")
    /\ web' = [web EXCEPT !.left = ~HasLoop]
    /\ box' = [box EXCEPT !["http"] = << >>]
    /\ UNCHANGED <<scripts, open, told, reply>>

\* on_stop: without a loop the assertion fails, and the thread is left: it does
\* not learn that it should end.
HttpStops ==
    /\ Handles("http", "stop")
    /\ Stops("http")
    /\ web' = [web EXCEPT !.callbacks = IF HasLoop THEN Append(@, StopLoop) ELSE @,
                             !.left = ~HasLoop]
    /\ box' = [box EXCEPT !["http"] = << >>]
    /\ UNCHANGED <<scripts, open, told, reply>>

HttpActs == HttpStarts \/ HttpHearsEvent \/ HttpStops

-----------------------------------------------------------------------------
(* The thread. *)

WebServes ==
    /\ web.state = "starting"
    /\ web' = [web EXCEPT !.state = "serving"]
    /\ UNCHANGED <<actorVars, scripts, open, told, reply>>

\* A client that is gone fails on its own.
WebCallsBack ==
    /\ IsIdle /\ web.callbacks # << >>
    /\ LET callback == Head(web.callbacks)
           rest == [web EXCEPT !.callbacks = Tail(@)]
       IN  IF callback = StopLoop
           THEN web' = [rest EXCEPT !.state = "ended"] /\ UNCHANGED told
           ELSE /\ web' = rest
                /\ told' = IF callback[1] \in open
                           THEN [told EXCEPT ![callback[1]][callback[2]] = callback[3]]
                           ELSE told
    /\ UNCHANGED <<actorVars, scripts, open, reply>>

\* The next thing that client c does, if it is what is given.
Does(c, what) ==
    /\ IsIdle /\ scripts[c] # << >> /\ Head(scripts[c]).do = what
    /\ scripts' = [scripts EXCEPT ![c] = Tail(@)]

\* check_origin: requests from local files have an empty origin.
IsAllowed(origin, protected) == ~protected \/ origin \in {"allowed", "same", "empty"}

\* What a client knows when it opens: what it would be told if it asked.
WebOpens(c, protected) ==
    /\ Does(c, "open")
    /\ IF IsAllowed(Head(scripts[c]).origin, protected)
       THEN /\ web' = [web EXCEPT !.clients = @ \union {c}]
            /\ open' = open \union {c}
            /\ told' = [told EXCEPT ![c] = element]
       ELSE UNCHANGED <<web, open, told>>
    /\ UNCHANGED <<actorVars, reply>>

WebCloses(c) ==
    /\ Does(c, "close")
    /\ web' = [web EXCEPT !.clients = @ \ {c}]
    /\ open' = open \ {c}
    /\ UNCHANGED <<actorVars, told, reply>>

\* A message over the WebSocket of client c, if it still has one.
WebReceives(c) ==
    /\ Does(c, "send")
    /\ web' = IF c \in open
              THEN [web EXCEPT !.job = [NoJob EXCEPT !.client = c, !.socket = TRUE,
                                                     !.message = Head(scripts[c]).message,
                                                     !.at = 1]]
              ELSE web
    /\ UNCHANGED <<actorVars, open, told, reply>>

\* A POST request; the content type must be that of JSON.
WebGetsPost(c, protected) ==
    /\ Does(c, "post")
    /\ web' = IF protected => Head(scripts[c]).type = "json"
              THEN [web EXCEPT !.job = [NoJob EXCEPT !.client = c,
                                                     !.message = Head(scripts[c]).message,
                                                     !.at = 1]]
              ELSE web
    /\ UNCHANGED <<actorVars, open, told, reply>>

-----------------------------------------------------------------------------
(* A message is handled one request after the other. *)

HasMoreRequests == web.job # NoJob /\ web.job.at <= Len(web.job.message.requests)
Current == web.job.message.requests[web.job.at]

\* The job, with what the current request is answered.
WithAnswer(result) ==
    [web.job EXCEPT !.at = @ + 1, !.responses = @ \o Answer(Current, result)]

CanBeCalled == ~IsInvalid(Current) /\ ~Raises(Current) /\ IsExported(Current.call)

\* A request that cannot be called is answered at once.
WebRefuses ==
    /\ HasMoreRequests /\ IsFree("web")
    /\ IsInvalid(Current) \/ (~Raises(Current) /\ ~IsExported(Current.call))
    /\ web' = [web EXCEPT !.job = WithAnswer(Failed("method_not_found"))]
    /\ UNCHANGED <<actorVars, scripts, open, told, reply>>

\* Core is asked; the answer is waited for only if there is someone to tell.
WebAsks ==
    /\ HasMoreRequests /\ IsFree("web") /\ CanBeCalled
    /\ IF IsNotification(Current)
       THEN /\ box' = Put(box, "core", Message("request", None, Current.call))
            /\ web' = [web EXCEPT !.job = WithAnswer(None)]
            /\ UNCHANGED answers
       ELSE /\ box' = Put(box, "core", Message("request", "web", Current.call))
            /\ answers' = Asking("web", "core")
            /\ UNCHANGED web
    /\ UNCHANGED <<status, scripts, open, told, reply>>

WebGets ==
    /\ IsAnswered("web")
    /\ web' = [web EXCEPT !.job = WithAnswer(answers["web"])]
    /\ answers' = [answers EXCEPT !["web"] = NoAnswer]
    /\ UNCHANGED <<status, box, scripts, open, told, reply>>

\* Mistake: a WebSocket that is closed stays among the clients.
WebBreaksOnly ==
    /\ HasMoreRequests /\ IsFree("web") /\ Raises(Current)
    /\ reply' = [NoReply EXCEPT !.message = web.job.message, !.isLost = TRUE]
    /\ open' = IF web.job.socket THEN open \ {web.job.client} ELSE open
    /\ web' = [web EXCEPT !.job = NoJob]
    /\ UNCHANGED <<actorVars, scripts, told>>

\* Only pydantic finds what is wrong, and its exception ends the whole message:
\* no request of it is answered, and a WebSocket is closed.
WebBreaks ==
    /\ HasMoreRequests /\ IsFree("web") /\ Raises(Current)
    /\ reply' = [NoReply EXCEPT !.message = web.job.message, !.isLost = TRUE]
    /\ open' = IF web.job.socket THEN open \ {web.job.client} ELSE open
    /\ web' = [web EXCEPT !.clients = @ \intersect open', !.job = NoJob]
    /\ UNCHANGED <<actorVars, scripts, told>>

WebReplies ==
    /\ web.job # NoJob /\ ~HasMoreRequests
    /\ reply' = [NoReply EXCEPT !.message = web.job.message,
                                !.responses = FirstResponse(web.job.message)
                                              \o web.job.responses]
    /\ web' = [web EXCEPT !.job = NoJob]
    /\ UNCHANGED <<actorVars, scripts, open, told>>

\* What the thread does of itself, and what clients make it do.
WebActs ==
    \/ WebServes \/ WebCallsBack \/ WebRefuses \/ WebAsks \/ WebGets \/ WebBreaks \/ WebReplies

ClientActs(protected) ==
    \E c \in Clients :
        \/ WebOpens(c, protected) \/ WebCloses(c) \/ WebReceives(c)
        \/ WebGetsPost(c, protected)
=============================================================================
