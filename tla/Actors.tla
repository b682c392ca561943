--------------------------------- MODULE Actors ---------------------------------
(***************************************************************************)
(* The actors of Mopidy, as Pykka runs them: each has a thread and a       *)
(* mailbox, handles one message at a time, and may wait for the answer of  *)
(* another.  The threads that are no actors, the main one and that of the  *)
(* web server, ask as well.                                                *)
(***************************************************************************)
EXTENDS Types, Sequences

CONSTANT Backends   \* names of the backends, each an actor

Actors == {"mixer", "audio", "core", "http"} \union Backends

Askers == {"main", "web", "core", "mixer"}

\* The actors are not one and the same, and nobody is called None.
ASSUME NamesAssumption ==
    /\ Backends \intersect {"mixer", "audio", "core", "http"} = {}
    /\ None \notin Askers

VARIABLES
    status,    \* of each actor; it is starting until on_start has run
    box,       \* mailbox of each actor, oldest first
    answers    \* what each asker waits for, or was answered

actorVars == <<status, box, answers>>

Statuses == {"none", "starting", "running", "stopped"}

NoAnswer == [state |-> "none", value |-> None]
Waits    == [state |-> "waits", value |-> None]
Died     == [state |-> "dead", value |-> None]     \* ActorDeadError
Raised   == [state |-> "raised", value |-> None]   \* another exception
Value(v) == [state |-> "value", value |-> v]

ActorsInit ==
    /\ status = [a \in Actors |-> "none"]
    /\ box = [a \in Actors |-> << >>]
    /\ answers = [asker \in Askers |-> NoAnswer]

\* tell() has `from` None, and ask() the asker.
Message(type, from, arg) == [type |-> type, from |-> from, arg |-> arg]

IsUp(a) == status[a] \in {"starting", "running"}

\* Mailboxes b after a message to a, which is gone if the actor is.
Put(b, a, m) == IF IsUp(a) THEN [b EXCEPT ![a] = Append(@, m)] ELSE b

IsFree(asker) == answers[asker].state = "none"
IsAnswered(asker) == answers[asker].state \in {"value", "dead", "raised"}

\* The asker waits for a, or learns that it is dead.
Asking(asker, a) == [answers EXCEPT ![asker] = IF IsUp(a) THEN Waits ELSE Died]

\* An actor that waits handles no message meanwhile.
Handles(a, type) ==
    /\ status[a] = "running" /\ box[a] # << >>
    /\ a \in Askers => IsFree(a)
    /\ Head(box[a]).type = type

Taken(a) == [box EXCEPT ![a] = Tail(@)]

Answered(m, v) == IF m.from = None THEN answers ELSE [answers EXCEPT ![m.from] = Value(v)]

\* The actor ends; who asked it something that it did not come to learns that
\* it is dead, and who asked it to stop that it has.
Ended(a) ==
    [asker \in Askers |->
        IF Head(box[a]).from = asker THEN Value(None)
        ELSE IF \E i \in 2 .. Len(box[a]) : box[a][i].from = asker THEN Died
        ELSE answers[asker]]

Stops(a) ==
    /\ status' = [status EXCEPT ![a] = "stopped"]
    /\ answers' = Ended(a)
=============================================================================
