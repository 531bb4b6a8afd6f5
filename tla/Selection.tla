------------------------------ MODULE Selection ------------------------------
(***************************************************************************)
(* A comprehension over a list: [e for e in s if e in S].  SelectSeq would *)
(* do, but cannot be expanded in a proof.                                  *)
(***************************************************************************)
EXTENDS Naturals, Sequences

\* The elements of s that are in S, in their order.
Those(s, S) ==
    LET those[n \in 0 .. Len(s)] ==
            IF n = 0 THEN <<>>
            ELSE IF s[n] \in S THEN Append(those[n - 1], s[n]) ELSE those[n - 1]
    IN  those[Len(s)]
=============================================================================
