------------------------------- MODULE Selection -------------------------------
(***************************************************************************)
(* Selecting from a sequence.  SelectSeq is a built-in operator about which *)
(* the provers know nothing; this is the same by a recursive function.      *)
(***************************************************************************)
EXTENDS Integers, Sequences

\* The elements of s that are in S, in their order.
Selected(s, S) ==
    LET upTo[k \in 0..Len(s)] ==
            IF k = 0 THEN << >>
            ELSE IF s[k] \in S THEN Append(upTo[k - 1], s[k]) ELSE upTo[k - 1]
    IN  upTo[Len(s)]
=============================================================================
