------------------------------- MODULE Lists --------------------------------
(***************************************************************************)
(* What the handlers of parties and plazas do to the vectors of session    *)
(* ids that they keep.  SelectSeq says the same, but the provers know      *)
(* nothing of it.                                                          *)
(***************************************************************************)
EXTENDS Naturals, Sequences

\* std::erase: every occurrence of s is taken out, the others keep their order.
Without(list, s) ==
    LET kept[i \in 0 .. Len(list)] ==
            IF i = 0 THEN <<>>
            ELSE IF list[i] = s THEN kept[i - 1] ELSE Append(kept[i - 1], list[i])
    IN  kept[Len(list)]
=============================================================================
