----------------------------- MODULE Selection -----------------------------
(***************************************************************************)
(* A part of a sequence: a recursive function, which can be reasoned about  *)
(* where SelectSeq with its operator cannot.                                *)
(***************************************************************************)
EXTENDS Integers, Sequences

\* The members of S in the order of the sequence s.
Among(s, S) ==
  LET upTo[i \in 0 .. Len(s)] ==
        IF i = 0 THEN <<>>
        ELSE IF s[i] \in S THEN Append(upTo[i - 1], s[i]) ELSE upTo[i - 1]
  IN  upTo[Len(s)]
=============================================================================
