--------------------------------- MODULE Types ---------------------------------
(* What the other modules have in common. *)
EXTENDS Integers

CONSTANT None   \* Python's None

ASSUME NoneAssumption == None \notin Nat

\* A tracklist id.  The audio modules take it for the URI of its track too.
Tlid == Nat \ {0}
TlidOrNone == Tlid \union {None}
=============================================================================
