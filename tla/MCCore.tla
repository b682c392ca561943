------------------------------- MODULE MCCore -------------------------------
(* Small instances of Core. *)
EXTENDS Core

\* pause() and seek() when nothing plays, and play() of the current track, have
\* names of their own in Calls, so that runs can leave them out.
MCCalls == AllCalls \ {"pause_stopped", "seek_stopped"}

\* For the runs about unplayable tracks.
MCCallsThatKeepTracks == MCCalls \ {"stop", "clear", "remove"}

\* For the runs in consume mode.
MCCallsThatMoveOn == MCCalls \ {"replay", "set_random"}

\* For the runs with impatient clients.
MCCallsAnyTime == AllCalls \ {"set_option", "set_random", "peek"}

MCNone == {}

\* The calls that patient clients need not wait for.
MCHarmless == {"add", "set_option"}

MCCallsToHang == {"add", "play", "previous", "clear", "set_option", "set_random"}
MCCallsToStop == {"add", "play", "stop"}
=============================================================================
