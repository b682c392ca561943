--------------------------------- MODULE SeqOps ---------------------------------
(***************************************************************************)
(* What of a sequence is in a set, in its order: SelectSeq in a form that  *)
(* can be reasoned about.                                                  *)
(***************************************************************************)
EXTENDS Integers, Sequences

Chosen(seq, S) ==
    LET chosen[i \in 0 .. Len(seq)] ==
            IF i = 0 THEN << >>
            ELSE IF seq[i] \in S THEN Append(chosen[i - 1], seq[i])
            ELSE chosen[i - 1]
    IN  chosen[Len(seq)]
=============================================================================
