-------------------------------- MODULE Values --------------------------------
(***************************************************************************)
(* Values that configuration, mixer and clients pass around, and the texts *)
(* that configuration files hold for them.                                 *)
(***************************************************************************)
EXTENDS Types, Sequences

Bool(b) == [form |-> "boolean", boolean |-> b]
Number(n) == [form |-> "number", number |-> n]
Word(w) == [form |-> "word", word |-> w]
List(items) == [form |-> "list", items |-> items]
Pair(first, second) == [form |-> "pair", first |-> first, second |-> second]

\* A text with nothing in it.
Blank == [form |-> "blank"]
=============================================================================
