------------------------------ MODULE MCMapping ------------------------------
(* Values of constants for checking Mapping with TLC.                      *)
EXTENDS Mapping

\* Of the texts "", "a" and "ab" the first is part of all and "a" is part of "ab".
MCWithin ==
    [x \in Texts |-> [y \in Texts |-> x = "" \/ x = y \/ (x = "a" /\ y = "ab")]]
=============================================================================
