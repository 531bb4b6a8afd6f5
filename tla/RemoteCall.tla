----------------------------- MODULE RemoteCall -----------------------------
(***************************************************************************)
(* What a caller of the Tencent client may count on: a call that reports   *)
(* success has taken effect at least once, no call takes effect more than  *)
(* Attempts times, and a call that reports failure may have taken effect,  *)
(* even after it has reported.                                             *)
(***************************************************************************)
EXTENDS Naturals

CONSTANTS
    Calls,      \* the calls, each made once
    Attempts    \* how often a call may be sent

VARIABLES
    outcome,    \* outcome[c]: what the caller was told
    effects     \* effects[c]: how often the call took effect

vars == <<outcome, effects>>

Init ==
    /\ outcome = [c \in Calls |-> "pending"]
    /\ effects = [c \in Calls |-> 0]

Effect(c) ==
    /\ effects[c] < Attempts
    /\ effects' = [effects EXCEPT ![c] = @ + 1]
    /\ UNCHANGED outcome

Succeed(c) ==
    /\ outcome[c] = "pending"
    /\ effects[c] > 0
    /\ outcome' = [outcome EXCEPT ![c] = "ok"]
    /\ UNCHANGED effects

Fail(c) ==
    /\ outcome[c] = "pending"
    /\ outcome' = [outcome EXCEPT ![c] = "failed"]
    /\ UNCHANGED effects

Next == \E c \in Calls : Effect(c) \/ Succeed(c) \/ Fail(c)

Spec == Init /\ [][Next]_vars
=============================================================================
