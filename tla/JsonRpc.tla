-------------------------------- MODULE JsonRpc --------------------------------
(***************************************************************************)
(* JSON-RPC messages of clients.  A message is a request or a batch of     *)
(* them; a request without an id is a notification.                        *)
(***************************************************************************)
EXTENDS Types, Sequences

\* What the form of a request may be: `faulty` breaks a rule of JSON-RPC that is
\* looked for, `odd` one that only pydantic finds, `bare` is not an object.
Forms == {"good", "faulty", "bare", "odd"}

\* A request: its form, id, and what it calls.
Request(form, id, call) == [form |-> form, id |-> id, call |-> call]

\* A message that is no JSON, a single request, and a batch.
Garbage == [kind |-> "garbage", requests |-> << >>]
Single(request) == [kind |-> "single", requests |-> <<request>>]
Batch(requests) == [kind |-> "batch", requests |-> requests]

IsNotification(request) == request.id = None

Failed(error) == [state |-> error, value |-> None]

Response(id, result) == [id |-> id, result |-> result]

\* _validate_request
IsInvalid(request) == request.form \in {"faulty", "bare"}
Raises(request) == request.form = "odd"

\* _get_method: private methods are not exported, nor are those of objects that
\* are not mounted.
IsExported(call) == call.method \notin {"_private", "unknown"}

\* The response that is known before any request is looked at.
FirstResponse(message) ==
    CASE message.kind = "garbage" -> <<Response(None, Failed("parse_error"))>>
      [] message.kind = "batch" /\ message.requests = << >> ->
             <<Response(None, Failed("invalid_request"))>>
      [] OTHER -> << >>

\* Mistake: notifications are answered too.
AnswerAny(request, result) ==
    IF IsInvalid(request) THEN <<Response(None, Failed("invalid_request"))>>
    ELSE <<Response(request.id, result)>>

\* The response to a request whose call had the result, or could not be made.
Answer(request, result) ==
    IF IsInvalid(request) THEN <<Response(None, Failed("invalid_request"))>>
    ELSE IF IsNotification(request) THEN << >>
    ELSE <<Response(request.id, result)>>
=============================================================================
