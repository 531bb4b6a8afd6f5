----------------------------- MODULE Admission -----------------------------
(***************************************************************************)
(* What a lock per configuration is used for: who may be inside a guarded  *)
(* section.  An exact lock admits one; each lapse of the lock admits one   *)
(* more for good.  DistributedLock implements it (see GuardedSync).        *)
(***************************************************************************)
EXTENDS Integers, FiniteSets

CONSTANTS Tasks, Configs

VARIABLES
    inside,     \* inside[c]: the tasks in the section of configuration c
    slack       \* slack[c]: lapses of c's lock so far

AdmissionInit ==
    /\ inside = [c \in Configs |-> {}]
    /\ slack = [c \in Configs |-> 0]

Enter(c, t) ==
    /\ t \notin inside[c]
    /\ Cardinality(inside[c]) <= slack[c]
    /\ inside' = [inside EXCEPT ![c] = @ \cup {t}]
    /\ UNCHANGED slack

Exit(c, t) ==
    /\ t \in inside[c]
    /\ inside' = [inside EXCEPT ![c] = @ \ {t}]
    /\ UNCHANGED slack

Lapse(c) ==
    /\ slack' = [slack EXCEPT ![c] = @ + 1]
    /\ UNCHANGED inside

AdmissionNext ==
    \E c \in Configs :
        \/ Lapse(c)
        \/ \E t \in Tasks : Enter(c, t) \/ Exit(c, t)

AdmissionSpec == AdmissionInit /\ [][AdmissionNext]_<<inside, slack>>
=============================================================================
