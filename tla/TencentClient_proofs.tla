------------------------- MODULE TencentClient_proofs -------------------------
(***************************************************************************)
(* Proofs that the client, for any calls, retries and faults, is a         *)
(* RemoteCall: what it reports is true and no call takes effect more often *)
(* than it may be sent; and that only faults use up its attempts.          *)
(***************************************************************************)
EXTENDS TencentClient, FiniteSetTheorems, TLAPS

-----------------------------------------------------------------------------
(* The inductive invariant.                                                *)

\* The local variables of a call, apart from its token.
CallFields ==
    [at : {"new", "sent", "answered", "refreshing", "refreshed", "sleeping",
           "ok", "failed", "exhausted"},
     tries : 0 .. RetryTimes, bearer : Nat, probe : BOOLEAN,
     answer : {"none", "ok", "unauthorized", "refused", "lost", "token", "empty"},
     effects : Nat, stray : Nat]

\* Each send took effect, is still on its way or is lost; one that waits for its
\* answer is none of these yet.
SendsCounted(r) ==
    /\ r.at = "new" => r.effects + r.stray = 0
    /\ r.at = "sent" => r.effects + r.stray <= r.tries
    /\ r.effects + r.stray <= r.tries + 1

\* A call goes round again only while it has tries left, succeeds only with an
\* effect, and a connection test sends no request.
RoundsCounted(r) ==
    /\ r.at \in {"refreshing", "refreshed", "sleeping"} /\ ~r.probe => r.tries < RetryTimes
    /\ r.at = "answered" /\ r.answer = "ok" => r.effects > 0
    /\ r.probe => /\ r.at \notin {"new", "sent", "answered", "sleeping", "exhausted"}
                  /\ r.effects + r.stray = 0

CallOK(r) == r \in CallFields /\ SendsCounted(r) /\ RoundsCounted(r)

CallsInv ==
    /\ \A c \in Calls : CallOK(req[c])
    /\ req \in [Calls -> CallFields]
    /\ accessToken \in Nat /\ issued \in Nat

\* What RemoteCall allows a step to do to one call; o and n are the outcomes.
Allowed(c, o, n) ==
    \/ n = o /\ req'[c].effects = req[c].effects
    \/ n = o /\ req[c].effects < RetryTimes + 1 /\ req'[c].effects = req[c].effects + 1
    \/ /\ o = "pending" /\ req'[c].effects = req[c].effects
       /\ n = "failed" \/ (n = "ok" /\ req[c].effects > 0)

\* A step of call c.
CallStep(c) ==
    /\ \E r \in CallFields : req' = [req EXCEPT ![c] = r] /\ CallOK(r)
    /\ Allowed(c, Outcome(c), Outcome(c)')
    /\ accessToken' \in Nat /\ issued' \in Nat

-----------------------------------------------------------------------------
(* The steps of a call.                                                    *)

LEMMA StepFrom ==
    ASSUME CallsInv, NEW c \in Calls, NEW r, CallOK(r), req' = [req EXCEPT ![c] = r],
           accessToken' \in Nat, issued' \in Nat,
           Allowed(c, Outcome(c), Outcome(c)')
    PROVE  CallStep(c)
BY DEF CallStep, CallOK

\* The call only moves; a call that ends well has taken effect or is a test.
LEMMA MoveStep ==
    ASSUME CallsInv, NEW c \in Calls,
           NEW a \in {"refreshing", "sleeping", "ok", "failed", "exhausted"},
           MoveTo(c, a), accessToken' \in Nat, issued' \in Nat,
           req[c].at \in {"answered", "refreshed"},
           a \in {"refreshing", "sleeping"} => req[c].tries < RetryTimes /\ ~req[c].probe,
           a = "ok" => req[c].probe \/ req[c].effects > 0,
           a = "exhausted" => ~req[c].probe
    PROVE  CallStep(c)
<1> DEFINE r == [req[c] EXCEPT !.at = a]
<1>0. CallOK(req[c]) /\ req[c] \in CallFields BY DEF CallsInv
<1>1. r \in CallFields BY <1>0 DEF CallFields
<1>2. req' = [req EXCEPT ![c] = r] /\ req'[c] = r BY <1>0 DEF MoveTo, CallFields, CallsInv
<1>3. /\ r.at = a /\ r.tries = req[c].tries /\ r.probe = req[c].probe
      /\ r.effects = req[c].effects /\ r.stray = req[c].stray
    BY <1>0 DEF CallFields
<1> HIDE DEF r
<1>4. CallOK(r) BY <1>0, <1>1, <1>3 DEF CallOK, SendsCounted, RoundsCounted
<1>5. Allowed(c, Outcome(c), Outcome(c)') BY <1>2, <1>3 DEF Allowed, Outcome
<1> QED BY <1>2, <1>4, <1>5, StepFrom

\* The request is sent again.
LEMMA AgainStep ==
    ASSUME CallsInv, NEW c \in Calls, SendAgain(c), accessToken' \in Nat, issued' \in Nat,
           req[c].at \in {"answered", "refreshed", "sleeping"},
           ~req[c].probe, req[c].tries < RetryTimes
    PROVE  CallStep(c)
<1> DEFINE r == [req[c] EXCEPT !.at = "sent", !.tries = @ + 1, !.bearer = accessToken',
                               !.answer = "none"]
<1>0. CallOK(req[c]) /\ req[c] \in CallFields /\ RetryTimes \in Nat
    BY ClientAssumption DEF CallsInv
<1>a. req[c].tries + 1 \in 0 .. RetryTimes BY <1>0 DEF CallFields
<1>1. r \in CallFields BY <1>0, <1>a DEF CallFields
<1>2. req' = [req EXCEPT ![c] = r] /\ req'[c] = r BY <1>0 DEF SendAgain, CallFields, CallsInv
<1>3. /\ r.at = "sent" /\ r.tries = req[c].tries + 1 /\ r.probe = req[c].probe
      /\ r.effects = req[c].effects /\ r.stray = req[c].stray
    BY <1>0 DEF CallFields
<1>n. req[c].tries \in Nat /\ req[c].effects \in Nat /\ req[c].stray \in Nat
    BY <1>0 DEF CallFields
<1> HIDE DEF r
<1>4. CallOK(r) BY <1>0, <1>1, <1>3, <1>n DEF CallOK, SendsCounted, RoundsCounted
<1>5. Allowed(c, Outcome(c), Outcome(c)') BY <1>2, <1>3 DEF Allowed, Outcome
<1> QED BY <1>2, <1>4, <1>5, StepFrom

LEMMA StartStep ==
    ASSUME CallsInv, NEW c \in Calls, StartCall(c) \/ TestConnection(c) PROVE CallStep(c)
<1>0. CallOK(req[c]) /\ req[c] \in CallFields /\ RetryTimes \in Nat
    BY ClientAssumption DEF CallsInv
<1>n. /\ req[c].tries \in Nat /\ req[c].effects \in Nat /\ req[c].stray \in Nat
      /\ req[c].at = "new" /\ ~req[c].probe
    BY <1>0 DEF CallFields, CallOK, RoundsCounted, StartCall, TestConnection
<1>k. accessToken' \in Nat /\ issued' \in Nat BY DEF StartCall, TestConnection, CallsInv
<1>1. CASE StartCall(c)
  <2> DEFINE r == [req[c] EXCEPT !.at = "sent", !.bearer = accessToken]
  <2>1. r \in CallFields BY <1>0 DEF CallFields, CallsInv
  <2>2. req' = [req EXCEPT ![c] = r] /\ req'[c] = r
      BY <1>0, <1>1 DEF StartCall, CallFields, CallsInv
  <2>3. /\ r.at = "sent" /\ r.tries = req[c].tries /\ r.probe = req[c].probe
        /\ r.effects = req[c].effects /\ r.stray = req[c].stray
      BY <1>0 DEF CallFields
  <2> HIDE DEF r
  <2>4. CallOK(r) BY <1>0, <1>n, <2>1, <2>3 DEF CallOK, SendsCounted, RoundsCounted
  <2>5. Allowed(c, Outcome(c), Outcome(c)') BY <1>n, <2>2, <2>3 DEF Allowed, Outcome
  <2> QED BY <1>k, <2>2, <2>4, <2>5, StepFrom
<1>2. CASE TestConnection(c)
  <2>0. PICK a \in {"ok", "refreshing", "failed"} :
          req' = [req EXCEPT ![c].probe = TRUE, ![c].at = a]
      BY <1>2 DEF TestConnection
  <2> DEFINE r == [req[c] EXCEPT !.probe = TRUE, !.at = a]
  <2>1. r \in CallFields BY <1>0 DEF CallFields
  <2>2. req' = [req EXCEPT ![c] = r] /\ req'[c] = r
      BY <1>0, <2>0 DEF CallFields, CallsInv
  <2>3. /\ r.at = a /\ r.tries = req[c].tries /\ r.probe = TRUE
        /\ r.effects = req[c].effects /\ r.stray = req[c].stray
      BY <1>0 DEF CallFields
  <2> HIDE DEF r
  <2>4. CallOK(r) BY <1>0, <1>n, <2>1, <2>3 DEF CallOK, SendsCounted, RoundsCounted
  <2>5. Allowed(c, Outcome(c), Outcome(c)') BY <1>n, <2>2, <2>3 DEF Allowed, Outcome
  <2> QED BY <1>k, <2>2, <2>4, <2>5, StepFrom
<1> QED BY <1>1, <1>2

LEMMA ServeStep == ASSUME CallsInv, NEW c \in Calls, ServeCall(c) PROVE CallStep(c)
<1>0. CallOK(req[c]) /\ req[c] \in CallFields /\ RetryTimes \in Nat
    BY ClientAssumption DEF CallsInv
<1>n. /\ req[c].tries \in 0 .. RetryTimes /\ req[c].effects \in Nat /\ req[c].stray \in Nat
      /\ req[c].at = "sent" /\ ~req[c].probe
    BY <1>0 DEF CallFields, CallOK, RoundsCounted, ServeCall
<1>k. accessToken' \in Nat /\ issued' \in Nat BY DEF ServeCall, CallsInv
<1>e. PICK a \in {"ok", "unauthorized", "refused"}, n \in {0, 1} :
        /\ a = "ok" => n = 1
        /\ req' = [req EXCEPT ![c].at = "answered", ![c].answer = a, ![c].effects = @ + n]
    BY DEF ServeCall
<1> DEFINE r == [req[c] EXCEPT !.at = "answered", !.answer = a, !.effects = @ + n]
<1>a. req[c].effects + n \in Nat BY <1>n
<1>1. r \in CallFields BY <1>0, <1>a DEF CallFields
<1>2. req' = [req EXCEPT ![c] = r] /\ req'[c] = r BY <1>0, <1>e DEF CallFields, CallsInv
<1>3. /\ r.at = "answered" /\ r.answer = a /\ r.tries = req[c].tries
      /\ r.probe = req[c].probe /\ r.effects = req[c].effects + n /\ r.stray = req[c].stray
    BY <1>0 DEF CallFields
<1> HIDE DEF r
<1>4. CallOK(r) BY <1>0, <1>e, <1>n, <1>1, <1>3 DEF CallOK, SendsCounted, RoundsCounted
<1>5. Outcome(c) = "pending" /\ Outcome(c)' = "pending" BY <1>n, <1>2, <1>3 DEF Outcome
<1>6. req[c].effects < RetryTimes + 1 BY <1>0, <1>n DEF CallOK, SendsCounted
<1>7. Allowed(c, Outcome(c), Outcome(c)') BY <1>n, <1>2, <1>3, <1>5, <1>6 DEF Allowed
<1> QED BY <1>k, <1>2, <1>4, <1>7, StepFrom

LEMMA LoseStep == ASSUME CallsInv, NEW c \in Calls, LoseCall(c) PROVE CallStep(c)
<1>0. CallOK(req[c]) /\ req[c] \in CallFields BY DEF CallsInv
<1>n. /\ req[c].tries \in Nat /\ req[c].effects \in Nat /\ req[c].stray \in Nat
      /\ req[c].at \in {"sent", "answered"} /\ ~req[c].probe
    BY <1>0, ClientAssumption DEF CallFields, CallOK, RoundsCounted, LoseCall
<1>k. accessToken' \in Nat /\ issued' \in Nat BY DEF LoseCall, CallsInv
<1>e. PICK n \in {0, 1} :
        /\ req[c].at # "sent" => n = 0
        /\ req' = [req EXCEPT ![c].at = "answered", ![c].answer = "lost", ![c].stray = @ + n]
    BY DEF LoseCall
<1> DEFINE r == [req[c] EXCEPT !.at = "answered", !.answer = "lost", !.stray = @ + n]
<1>a. req[c].stray + n \in Nat BY <1>n
<1>1. r \in CallFields BY <1>0, <1>a DEF CallFields
<1>2. req' = [req EXCEPT ![c] = r] /\ req'[c] = r BY <1>0, <1>e DEF CallFields, CallsInv
<1>3. /\ r.at = "answered" /\ r.answer = "lost" /\ r.tries = req[c].tries
      /\ r.probe = req[c].probe /\ r.effects = req[c].effects /\ r.stray = req[c].stray + n
    BY <1>0 DEF CallFields
<1> HIDE DEF r
<1>4. CallOK(r) BY <1>0, <1>e, <1>n, <1>1, <1>3 DEF CallOK, SendsCounted, RoundsCounted
<1>5. Allowed(c, Outcome(c), Outcome(c)') BY <1>n, <1>2, <1>3 DEF Allowed, Outcome
<1> QED BY <1>k, <1>2, <1>4, <1>5, StepFrom

LEMMA StrayStep == ASSUME CallsInv, NEW c \in Calls, StrayArrives(c) PROVE CallStep(c)
<1>0. CallOK(req[c]) /\ req[c] \in CallFields /\ RetryTimes \in Nat
    BY ClientAssumption DEF CallsInv
<1>n. /\ req[c].tries \in 0 .. RetryTimes /\ req[c].effects \in Nat /\ req[c].stray \in Nat
      /\ req[c].stray > 0
    BY <1>0 DEF CallFields, StrayArrives
<1>k. accessToken' \in Nat /\ issued' \in Nat BY DEF StrayArrives, CallsInv
<1> DEFINE r == [req[c] EXCEPT !.stray = @ - 1, !.effects = @ + 1]
<1>a. req[c].stray - 1 \in Nat /\ req[c].effects + 1 \in Nat BY <1>n
<1>1. r \in CallFields BY <1>0, <1>a DEF CallFields
<1>2. req' = [req EXCEPT ![c] = r] /\ req'[c] = r
    BY <1>0 DEF StrayArrives, CallFields, CallsInv
<1>3. /\ r.at = req[c].at /\ r.answer = req[c].answer /\ r.tries = req[c].tries
      /\ r.probe = req[c].probe /\ r.effects = req[c].effects + 1
      /\ r.stray = req[c].stray - 1
    BY <1>0 DEF CallFields
<1> HIDE DEF r
<1>4. CallOK(r) BY <1>0, <1>n, <1>1, <1>3 DEF CallOK, SendsCounted, RoundsCounted
<1>5. Outcome(c)' = Outcome(c) BY <1>2, <1>3 DEF Outcome
<1>6. req[c].effects < RetryTimes + 1 BY <1>0, <1>n DEF CallOK, SendsCounted
<1>7. Allowed(c, Outcome(c), Outcome(c)') BY <1>2, <1>3, <1>5, <1>6 DEF Allowed
<1> QED BY <1>k, <1>2, <1>4, <1>7, StepFrom

LEMMA RefreshStep == ASSUME CallsInv, NEW c \in Calls, ServeRefresh(c) PROVE CallStep(c)
<1>0. CallOK(req[c]) /\ req[c] \in CallFields BY DEF CallsInv
<1>k. accessToken' \in Nat /\ issued' \in Nat BY DEF ServeRefresh, CallsInv
<1>e. PICK a \in {"token", "empty", "refused", "lost"}, b \in Nat :
        req' = [req EXCEPT ![c].at = "refreshed", ![c].answer = a, ![c].bearer = b]
  <2>1. CASE req' = [req EXCEPT ![c].at = "refreshed", ![c].answer = "token",
                                ![c].bearer = issued']
      BY <1>k, <2>1
  <2>2. ASSUME NEW a \in {"empty", "refused", "lost"},
               req' = [req EXCEPT ![c].at = "refreshed", ![c].answer = a]
        PROVE  req' = [req EXCEPT ![c].at = "refreshed", ![c].answer = a,
                                  ![c].bearer = req[c].bearer]
      BY <1>0, <2>2 DEF CallFields, CallsInv
  <2>3. req[c].bearer \in Nat BY <1>0 DEF CallFields
  <2> QED BY <2>1, <2>2, <2>3 DEF ServeRefresh
<1> DEFINE r == [req[c] EXCEPT !.at = "refreshed", !.answer = a, !.bearer = b]
<1>1. r \in CallFields BY <1>0 DEF CallFields
<1>2. req' = [req EXCEPT ![c] = r] /\ req'[c] = r BY <1>0, <1>e DEF CallFields, CallsInv
<1>3. /\ r.at = "refreshed" /\ r.tries = req[c].tries /\ r.probe = req[c].probe
      /\ r.effects = req[c].effects /\ r.stray = req[c].stray
    BY <1>0 DEF CallFields
<1>f. req[c].at = "refreshing" BY DEF ServeRefresh
<1> HIDE DEF r
<1>4. CallOK(r) BY <1>0, <1>f, <1>1, <1>3 DEF CallOK, SendsCounted, RoundsCounted
<1>5. Allowed(c, Outcome(c), Outcome(c)') BY <1>f, <1>2, <1>3 DEF Allowed, Outcome
<1> QED BY <1>k, <1>2, <1>4, <1>5, StepFrom

LEMMA AnswerStep ==
    ASSUME CallsInv, NEW c \in Calls, TakeAnswer(c) \/ TakeToken(c) \/ Wake(c)
    PROVE  CallStep(c)
<1>0. /\ CallOK(req[c]) /\ req[c] \in CallFields /\ accessToken \in Nat
      /\ issued' \in Nat /\ req[c].bearer \in Nat
    BY DEF CallsInv, TakeAnswer, TakeToken, Wake, CallFields
<1>k. accessToken' \in Nat
    BY <1>0 DEF TakeAnswer, TakeToken, Wake, BeginRefresh, GivenToken, NoToken
<1>1. CASE TakeAnswer(c)
  <2>0. req[c].at = "answered" /\ ~req[c].probe
      BY <1>0, <1>1 DEF TakeAnswer, CallOK, RoundsCounted
  <2>1. \/ MoveTo(c, "ok") /\ req[c].answer = "ok"
        \/ MoveTo(c, "failed")
        \/ MoveTo(c, "exhausted")
        \/ req[c].tries < RetryTimes /\ (MoveTo(c, "refreshing") \/ MoveTo(c, "sleeping"))
        \/ req[c].tries < RetryTimes /\ SendAgain(c)
      BY <1>1 DEF TakeAnswer, BeginRefresh, AfterLoss
  <2>2. req[c].answer = "ok" => req[c].effects > 0
      BY <1>0, <2>0 DEF CallOK, RoundsCounted
  <2> QED BY <1>0, <1>k, <2>0, <2>1, <2>2, MoveStep, AgainStep
<1>2. CASE TakeToken(c)
  <2>0. req[c].at = "refreshed" BY <1>2 DEF TakeToken
  <2>1. ~req[c].probe => req[c].tries < RetryTimes
      BY <1>0, <2>0 DEF CallOK, RoundsCounted
  <2>2. \/ MoveTo(c, "ok") /\ req[c].probe
        \/ MoveTo(c, "failed")
        \/ ~req[c].probe /\ (MoveTo(c, "sleeping") \/ SendAgain(c))
      BY <1>2 DEF TakeToken
  <2> QED BY <1>0, <1>k, <2>0, <2>1, <2>2, MoveStep, AgainStep
<1>3. CASE Wake(c)
  <2>1. req[c].at = "sleeping" /\ SendAgain(c) BY <1>3 DEF Wake
  <2>2. ~req[c].probe /\ req[c].tries < RetryTimes
      BY <1>0, <2>1 DEF CallOK, RoundsCounted
  <2> QED BY <1>0, <1>k, <2>1, <2>2, AgainStep
<1> QED BY <1>1, <1>2, <1>3

LEMMA ClientSteps ==
    CallsInv /\ ClientNext => (\E c \in Calls : CallStep(c)) \/ ExpireToken
BY StartStep, ServeStep, LoseStep, StrayStep, RefreshStep, AnswerStep
DEF ClientNext, ClientStep, Service

LEMMA CallsStep == CallsInv /\ [ClientNext]_clientVars => CallsInv'
<1> SUFFICES ASSUME CallsInv, [ClientNext]_clientVars PROVE CallsInv' OBVIOUS
<1>1. CASE UNCHANGED clientVars BY <1>1 DEF clientVars, CallsInv
<1>2. CASE ExpireToken BY <1>2 DEF ExpireToken, CallsInv
<1>3. ASSUME NEW c \in Calls, CallStep(c) PROVE CallsInv'
    BY <1>3 DEF CallStep, CallsInv
<1> QED BY <1>1, <1>2, <1>3, ClientSteps

LEMMA CallsInit == ClientInit => CallsInv
<1> SUFFICES ASSUME ClientInit PROVE CallsInv OBVIOUS
<1> DEFINE r == [at |-> "new", tries |-> 0, bearer |-> NoToken, probe |-> FALSE,
                 answer |-> "none", effects |-> 0, stray |-> 0]
<1>1. r \in CallFields BY ClientAssumption DEF CallFields, NoToken
<1>2. CallOK(r) BY <1>1 DEF CallOK, SendsCounted, RoundsCounted
<1>3. \A c \in Calls : req[c] = r BY DEF ClientInit
<1> QED BY <1>1, <1>2, <1>3 DEF ClientInit, CallsInv, NoToken, GivenToken

-----------------------------------------------------------------------------
(* The client is a RemoteCall.                                             *)

LEMMA RemoteInit == ClientInit => Remote!Init
<1> SUFFICES ASSUME ClientInit PROVE Remote!Init OBVIOUS
<1>1. \A c \in Calls : Outcome(c) = "pending" /\ req[c].effects = 0
    BY DEF ClientInit, Outcome
<1> QED BY <1>1 DEF Remote!Init

LEMMA RemoteStep ==
    ASSUME CallsInv, NEW c \in Calls, CallStep(c)
    PROVE  Remote!Next \/ UNCHANGED Remote!vars
<1> DEFINE outs == [d \in Calls |-> Outcome(d)]
           effs == [d \in Calls |-> req[d].effects]
<1>1. \A d \in Calls : d # c => req'[d] = req[d] BY DEF CallStep, CallsInv
<1>2. \A d \in Calls : d # c => Outcome(d)' = Outcome(d) BY <1>1 DEF Outcome
<1>3. outs' = [outs EXCEPT ![c] = Outcome(c)'] BY <1>2
<1>4. effs' = [effs EXCEPT ![c] = req'[c].effects] BY <1>1
<1>5. outs[c] = Outcome(c) /\ effs[c] = req[c].effects OBVIOUS
<1>6. CASE Outcome(c)' = Outcome(c) /\ req'[c].effects = req[c].effects
  <2>1. outs' = outs /\ effs' = effs BY <1>1, <1>2, <1>6
  <2> QED BY <2>1 DEF Remote!vars
<1>7. CASE /\ Outcome(c)' = Outcome(c) /\ req[c].effects < RetryTimes + 1
           /\ req'[c].effects = req[c].effects + 1
  <2>1. outs' = outs BY <1>2, <1>7
  <2>2. effs' = [effs EXCEPT ![c] = effs[c] + 1] BY <1>4, <1>5, <1>7
  <2>3. Remote!Effect(c) BY <1>5, <1>7, <2>1, <2>2 DEF Remote!Effect
  <2> QED BY <2>3 DEF Remote!Next
<1>8. CASE /\ Outcome(c) = "pending" /\ req'[c].effects = req[c].effects
           /\ Outcome(c)' = "failed" \/ (Outcome(c)' = "ok" /\ req[c].effects > 0)
  <2>1. effs' = effs BY <1>1, <1>8
  <2>2. CASE Outcome(c)' = "failed"
    <3>1. Remote!Fail(c) BY <1>3, <1>5, <1>8, <2>1, <2>2 DEF Remote!Fail
    <3> QED BY <3>1 DEF Remote!Next
  <2>3. CASE Outcome(c)' = "ok" /\ req[c].effects > 0
    <3>1. Remote!Succeed(c) BY <1>3, <1>5, <1>8, <2>1, <2>3 DEF Remote!Succeed
    <3> QED BY <3>1 DEF Remote!Next
  <2> QED BY <1>8, <2>2, <2>3
<1> QED BY <1>6, <1>7, <1>8 DEF CallStep, Allowed

\* Success means that the call took effect, and no call takes effect more often
\* than RetryTimes + 1 times, whatever is lost, late, refused or refreshed.
THEOREM ClientRefines == ClientSpec => ReportsWhatHappened
<1>1. CallsInv /\ [ClientNext]_clientVars => [Remote!Next]_(Remote!vars)
  <2> SUFFICES ASSUME CallsInv, [ClientNext]_clientVars
               PROVE  Remote!Next \/ UNCHANGED Remote!vars
      OBVIOUS
  <2>1. CASE UNCHANGED req BY <2>1 DEF Remote!vars, Outcome
  <2>2. UNCHANGED req \/ \E c \in Calls : CallStep(c)
      BY ClientSteps DEF clientVars, ExpireToken
  <2> QED BY <2>1, <2>2, RemoteStep
<1> QED
    BY <1>1, RemoteInit, CallsInit, CallsStep, PTL
    DEF ClientSpec, ReportsWhatHappened, Remote!Spec

-----------------------------------------------------------------------------
(* Attempts and faults.                                                    *)

\* The attempts a call has used, by where it stands, after u faults and while the
\* tokens v are accepted: one without a fault, for the token it started with; at
\* most two for each fault; and a token it has just been given is good until
\* there is another fault.
AttemptsOK(r, u, v) ==
    ~r.probe =>
        /\ r.at = "new" => r.tries = 0
        /\ r.at = "sent" =>
              r.tries <= 2 * u + 1 /\ (r.bearer \notin v => r.tries <= 2 * u)
        /\ r.at = "answered" =>
              /\ r.tries <= 2 * u + 1
              /\ r.answer = "unauthorized" => r.tries <= 2 * u
              /\ r.answer = "lost" => r.tries + 1 <= 2 * u
        /\ r.at = "refreshing" => r.tries <= 2 * u
        /\ r.at = "refreshed" =>
              /\ r.tries <= 2 * u
              /\ r.answer = "token" /\ r.bearer \notin v => r.tries + 1 <= 2 * u
              /\ r.answer = "lost" => r.tries + 2 <= 2 * u
        /\ r.at = "sleeping" => r.tries + 1 <= 2 * u
        /\ r.at = "exhausted" => RetryTimes <= 2 * u

AttemptsInv ==
    /\ upsets \in Nat
    /\ mode = "oauth" => \A c \in Calls : AttemptsOK(req[c], upsets, valid)

\* Tokens are only lost by a fault.
Faulty == (upsets' = upsets /\ valid \subseteq valid') \/ upsets' = upsets + 1

LEMMA Later ==
    ASSUME NEW r \in CallFields, upsets \in Nat, AttemptsOK(r, upsets, valid), Faulty
    PROVE  AttemptsOK(r, upsets', valid')
<1>1. r.tries \in Nat /\ RetryTimes \in Nat BY ClientAssumption DEF CallFields
<1> QED BY <1>1 DEF AttemptsOK, Faulty

\* A step of call c, from what it does to that call.
LEMMA AttemptsFrom ==
    ASSUME CallsInv, AttemptsInv, NEW c \in Calls, NEW r, req' = [req EXCEPT ![c] = r],
           Faulty, mode' = mode,
           mode = "oauth" => AttemptsOK(r, upsets', valid')
    PROVE  AttemptsInv'
<1>1. \A d \in Calls : d # c => req'[d] = req[d] BY DEF CallsInv
<1>2. req'[c] = r BY DEF CallsInv
<1>3. \A d \in Calls : req[d] \in CallFields BY DEF CallsInv
<1>4. upsets' \in Nat BY DEF AttemptsInv, Faulty
<1>5. ASSUME mode = "oauth", NEW d \in Calls, d # c
      PROVE  AttemptsOK(req'[d], upsets', valid')
    BY <1>1, <1>3, <1>5, Later DEF AttemptsInv
<1> QED BY <1>2, <1>4, <1>5 DEF AttemptsInv

LEMMA AttemptsMove ==
    ASSUME CallsInv, AttemptsInv, NEW c \in Calls,
           NEW a \in {"refreshing", "sleeping", "ok", "failed", "exhausted"},
           MoveTo(c, a), UNCHANGED <<mode, valid, upsets>>,
           mode = "oauth" /\ ~req[c].probe =>
               /\ a = "refreshing" => req[c].tries <= 2 * upsets
               /\ a = "sleeping" => req[c].tries + 1 <= 2 * upsets
               /\ a = "exhausted" => RetryTimes <= 2 * upsets
    PROVE  AttemptsInv'
<1> DEFINE r == [req[c] EXCEPT !.at = a]
<1>0. req[c] \in CallFields BY DEF CallsInv
<1>1. req' = [req EXCEPT ![c] = r] BY <1>0 DEF MoveTo, CallFields, CallsInv
<1>2. /\ r.at = a /\ r.tries = req[c].tries /\ r.probe = req[c].probe
    BY <1>0 DEF CallFields
<1> HIDE DEF r
<1>3. mode = "oauth" => AttemptsOK(r, upsets', valid') BY <1>2 DEF AttemptsOK
<1>4. Faulty BY DEF Faulty
<1> QED BY <1>1, <1>3, <1>4, AttemptsFrom

LEMMA AttemptsAgain ==
    ASSUME CallsInv, AttemptsInv, NEW c \in Calls, SendAgain(c),
           UNCHANGED <<mode, valid, upsets>>,
           mode = "oauth" /\ ~req[c].probe =>
               \/ req[c].tries + 1 <= 2 * upsets
               \/ req[c].tries <= 2 * upsets /\ accessToken' \in valid
    PROVE  AttemptsInv'
<1> DEFINE r == [req[c] EXCEPT !.at = "sent", !.tries = @ + 1, !.bearer = accessToken',
                               !.answer = "none"]
<1>0. req[c] \in CallFields BY DEF CallsInv
<1>1. req' = [req EXCEPT ![c] = r] BY <1>0 DEF SendAgain, CallFields, CallsInv
<1>2. /\ r.at = "sent" /\ r.tries = req[c].tries + 1 /\ r.probe = req[c].probe
      /\ r.bearer = accessToken'
    BY <1>0 DEF CallFields
<1>n. req[c].tries \in Nat /\ upsets \in Nat
    BY <1>0, ClientAssumption DEF CallFields, AttemptsInv
<1> HIDE DEF r
<1>3. mode = "oauth" => AttemptsOK(r, upsets', valid') BY <1>2, <1>n DEF AttemptsOK
<1>4. Faulty BY DEF Faulty
<1> QED BY <1>1, <1>3, <1>4, AttemptsFrom

LEMMA AttemptsBegin ==
    ASSUME CallsInv, AttemptsInv, NEW c \in Calls, StartCall(c) \/ TestConnection(c)
    PROVE  AttemptsInv'
<1>0. req[c] \in CallFields /\ upsets \in Nat BY DEF CallsInv, AttemptsInv
<1>q. UNCHANGED <<mode, valid, upsets>> BY DEF StartCall, TestConnection
<1>f. Faulty BY <1>q DEF Faulty
<1>1. CASE StartCall(c)
  <2> DEFINE r == [req[c] EXCEPT !.at = "sent", !.bearer = accessToken]
  <2>1. req' = [req EXCEPT ![c] = r] BY <1>0, <1>1 DEF StartCall, CallFields, CallsInv
  <2>2. /\ r.at = "sent" /\ r.tries = req[c].tries /\ r.probe = req[c].probe
      BY <1>0 DEF CallFields
  <2> HIDE DEF r
  <2>3. mode = "oauth" => AttemptsOK(r, upsets', valid')
    <3>1. mode = "oauth" /\ ~req[c].probe => req[c].tries = 0
        BY <1>1 DEF StartCall, AttemptsInv, AttemptsOK
    <3> QED BY <1>0, <1>q, <2>2, <3>1 DEF AttemptsOK
  <2> QED BY <1>f, <1>q, <2>1, <2>3, AttemptsFrom
<1>2. CASE TestConnection(c)
  <2>0. PICK a \in {"ok", "refreshing", "failed"} :
          req' = [req EXCEPT ![c].probe = TRUE, ![c].at = a]
      BY <1>2 DEF TestConnection
  <2> DEFINE r == [req[c] EXCEPT !.probe = TRUE, !.at = a]
  <2>1. req' = [req EXCEPT ![c] = r] BY <1>0, <2>0 DEF CallFields, CallsInv
  <2>2. r.probe BY <1>0 DEF CallFields
  <2> HIDE DEF r
  <2>3. AttemptsOK(r, upsets', valid') BY <2>2 DEF AttemptsOK
  <2> QED BY <1>f, <1>q, <2>1, <2>3, AttemptsFrom
<1> QED BY <1>1, <1>2

LEMMA AttemptsServe ==
    ASSUME CallsInv, AttemptsInv, NEW c \in Calls, ServeCall(c) PROVE AttemptsInv'
<1>0. req[c] \in CallFields /\ upsets \in Nat BY DEF CallsInv, AttemptsInv
<1>q. UNCHANGED <<mode, valid, upsets>> /\ req[c].at = "sent" BY DEF ServeCall
<1>f. Faulty BY <1>q DEF Faulty
<1>e. PICK a \in {"ok", "unauthorized", "refused"}, n \in {0, 1} :
        /\ a = "unauthorized" => req[c].bearer \notin valid
        /\ req' = [req EXCEPT ![c].at = "answered", ![c].answer = a, ![c].effects = @ + n]
    BY DEF ServeCall
<1> DEFINE r == [req[c] EXCEPT !.at = "answered", !.answer = a, !.effects = @ + n]
<1>1. req' = [req EXCEPT ![c] = r] BY <1>0, <1>e DEF CallFields, CallsInv
<1>2. /\ r.at = "answered" /\ r.answer = a /\ r.tries = req[c].tries
      /\ r.probe = req[c].probe
    BY <1>0 DEF CallFields
<1> HIDE DEF r
<1>3. mode = "oauth" => AttemptsOK(r, upsets', valid')
    BY <1>q, <1>e, <1>2 DEF AttemptsInv, AttemptsOK
<1> QED BY <1>f, <1>q, <1>1, <1>3, AttemptsFrom

LEMMA AttemptsLose ==
    ASSUME CallsInv, AttemptsInv, NEW c \in Calls, LoseCall(c) PROVE AttemptsInv'
<1>0. /\ req[c] \in CallFields /\ upsets \in Nat /\ req[c].tries \in Nat
    BY ClientAssumption DEF CallsInv, AttemptsInv, CallFields
<1>q. /\ UNCHANGED <<mode, valid>> /\ upsets' = upsets + 1
      /\ req[c].at \in {"sent", "answered"}
    BY DEF LoseCall, Upset
<1>f. Faulty BY <1>q DEF Faulty
<1>e. PICK n \in {0, 1} :
        req' = [req EXCEPT ![c].at = "answered", ![c].answer = "lost", ![c].stray = @ + n]
    BY DEF LoseCall
<1> DEFINE r == [req[c] EXCEPT !.at = "answered", !.answer = "lost", !.stray = @ + n]
<1>1. req' = [req EXCEPT ![c] = r] BY <1>0, <1>e DEF CallFields, CallsInv
<1>2. /\ r.at = "answered" /\ r.answer = "lost" /\ r.tries = req[c].tries
      /\ r.probe = req[c].probe
    BY <1>0 DEF CallFields
<1> HIDE DEF r
<1>3. mode = "oauth" /\ ~req[c].probe => req[c].tries <= 2 * upsets + 1
    BY <1>q DEF AttemptsInv, AttemptsOK
<1>4. mode = "oauth" => AttemptsOK(r, upsets', valid') BY <1>0, <1>q, <1>2, <1>3 DEF AttemptsOK
<1> QED BY <1>f, <1>q, <1>1, <1>4, AttemptsFrom

LEMMA AttemptsStray ==
    ASSUME CallsInv, AttemptsInv, NEW c \in Calls, StrayArrives(c) PROVE AttemptsInv'
<1>0. req[c] \in CallFields BY DEF CallsInv
<1>q. UNCHANGED <<mode, valid, upsets>> BY DEF StrayArrives
<1>f. Faulty BY <1>q DEF Faulty
<1> DEFINE r == [req[c] EXCEPT !.stray = @ - 1, !.effects = @ + 1]
<1>1. req' = [req EXCEPT ![c] = r] BY <1>0 DEF StrayArrives, CallFields, CallsInv
<1>2. /\ r.at = req[c].at /\ r.answer = req[c].answer /\ r.tries = req[c].tries
      /\ r.probe = req[c].probe /\ r.bearer = req[c].bearer
    BY <1>0 DEF CallFields
<1> HIDE DEF r
<1>3. mode = "oauth" => AttemptsOK(r, upsets', valid')
    BY <1>q, <1>2 DEF AttemptsInv, AttemptsOK
<1> QED BY <1>f, <1>q, <1>1, <1>3, AttemptsFrom

LEMMA AttemptsRefresh ==
    ASSUME CallsInv, AttemptsInv, NEW c \in Calls, ServeRefresh(c) PROVE AttemptsInv'
<1>0. /\ req[c] \in CallFields /\ upsets \in Nat /\ req[c].tries \in Nat
      /\ mode' = mode /\ req[c].at = "refreshing"
    BY ClientAssumption DEF CallsInv, AttemptsInv, CallFields, ServeRefresh
<1>t. mode = "oauth" /\ ~req[c].probe => req[c].tries <= 2 * upsets
    BY <1>0 DEF AttemptsInv, AttemptsOK
<1>1. CASE /\ \/ valid' = valid \cup {issued'} /\ UNCHANGED upsets
              \/ valid' = {issued'} /\ Upset
           /\ req' = [req EXCEPT ![c].at = "refreshed", ![c].answer = "token",
                                 ![c].bearer = issued']
  <2> DEFINE r == [req[c] EXCEPT !.at = "refreshed", !.answer = "token", !.bearer = issued']
  <2>1. req' = [req EXCEPT ![c] = r] BY <1>0, <1>1 DEF CallFields, CallsInv
  <2>2. /\ r.at = "refreshed" /\ r.answer = "token" /\ r.tries = req[c].tries
        /\ r.probe = req[c].probe /\ r.bearer = issued'
      BY <1>0 DEF CallFields
  <2> HIDE DEF r
  <2>3. issued' \in valid' /\ Faulty BY <1>1 DEF Faulty, Upset
  <2>4. mode = "oauth" => AttemptsOK(r, upsets', valid')
      BY <1>0, <1>t, <2>2, <2>3 DEF AttemptsOK, Faulty
  <2> QED BY <1>0, <2>1, <2>3, <2>4, AttemptsFrom
<1>2. ASSUME NEW a \in {"empty", "refused", "lost"}, Upset,
             req' = [req EXCEPT ![c].at = "refreshed", ![c].answer = a]
      PROVE  AttemptsInv'
  <2> DEFINE r == [req[c] EXCEPT !.at = "refreshed", !.answer = a]
  <2>1. req' = [req EXCEPT ![c] = r] BY <1>0, <1>2 DEF CallFields, CallsInv
  <2>2. /\ r.at = "refreshed" /\ r.answer = a /\ r.tries = req[c].tries
        /\ r.probe = req[c].probe
      BY <1>0 DEF CallFields
  <2> HIDE DEF r
  <2>3. upsets' = upsets + 1 /\ Faulty BY <1>2 DEF Faulty, Upset
  <2>4. mode = "oauth" => AttemptsOK(r, upsets', valid')
      BY <1>0, <1>t, <2>2, <2>3 DEF AttemptsOK
  <2> QED BY <1>0, <2>1, <2>3, <2>4, AttemptsFrom
<1> QED BY <1>1, <1>2 DEF ServeRefresh

LEMMA AttemptsAnswer ==
    ASSUME CallsInv, AttemptsInv, NEW c \in Calls, TakeAnswer(c) PROVE AttemptsInv'
<1>q. UNCHANGED <<mode, valid, upsets>> /\ req[c].at = "answered" BY DEF TakeAnswer
<1>0. /\ req[c] \in CallFields /\ upsets \in Nat /\ req[c].tries \in 0 .. RetryTimes
      /\ RetryTimes \in Nat
    BY ClientAssumption DEF CallsInv, AttemptsInv, CallFields
<1>t. mode = "oauth" /\ ~req[c].probe =>
        /\ req[c].answer = "unauthorized" => req[c].tries <= 2 * upsets
        /\ req[c].answer = "lost" => req[c].tries + 1 <= 2 * upsets
    BY <1>q DEF AttemptsInv, AttemptsOK
<1>1. CASE MoveTo(c, "ok") \/ MoveTo(c, "failed") BY <1>1, <1>q, AttemptsMove
<1>2. CASE req[c].answer = "unauthorized" /\ MoveTo(c, "refreshing")
    BY <1>2, <1>q, <1>t, AttemptsMove
<1>3. CASE req[c].answer = "unauthorized" /\ mode = "jwt" /\ SendAgain(c)
    BY <1>3, <1>q, AttemptsAgain
<1>4. CASE req[c].answer = "lost" /\ AfterLoss(c)
  <2>1. CASE req[c].tries < RetryTimes /\ MoveTo(c, "sleeping")
      BY <2>1, <1>4, <1>q, <1>t, AttemptsMove
  <2>2. CASE ~(req[c].tries < RetryTimes) /\ MoveTo(c, "exhausted")
    <3>1. req[c].tries = RetryTimes BY <1>0, <2>2
    <3>2. mode = "oauth" /\ ~req[c].probe => RetryTimes <= 2 * upsets
        BY <1>0, <1>t, <1>4, <3>1
    <3> QED BY <2>2, <3>2, <1>q, AttemptsMove
  <2> QED BY <1>4, <2>1, <2>2 DEF AfterLoss
<1>5. CASE req[c].answer = "unauthorized" /\ ~(req[c].tries < RetryTimes)
           /\ MoveTo(c, "exhausted")
  <2>1. req[c].tries = RetryTimes BY <1>0, <1>5
  <2>2. mode = "oauth" /\ ~req[c].probe => RetryTimes <= 2 * upsets
      BY <1>t, <1>5, <2>1
  <2> QED BY <1>5, <2>2, <1>q, AttemptsMove
<1> QED BY <1>1, <1>2, <1>3, <1>4, <1>5 DEF TakeAnswer, BeginRefresh

LEMMA AttemptsToken ==
    ASSUME CallsInv, AttemptsInv, NEW c \in Calls, TakeToken(c) \/ Wake(c)
    PROVE  AttemptsInv'
<1>q. UNCHANGED <<mode, valid, upsets>> BY DEF TakeToken, Wake
<1>0. req[c] \in CallFields /\ upsets \in Nat /\ req[c].tries \in Nat
    BY ClientAssumption DEF CallsInv, AttemptsInv, CallFields
<1>1. CASE Wake(c)
  <2>1. mode = "oauth" /\ ~req[c].probe => req[c].tries + 1 <= 2 * upsets
      BY <1>1 DEF Wake, AttemptsInv, AttemptsOK
  <2> QED BY <1>1, <1>q, <2>1, AttemptsAgain DEF Wake
<1>2. CASE TakeToken(c)
  <2>t. mode = "oauth" /\ ~req[c].probe =>
          /\ req[c].tries <= 2 * upsets
          /\ req[c].answer = "token" /\ req[c].bearer \notin valid
                => req[c].tries + 1 <= 2 * upsets
          /\ req[c].answer = "lost" => req[c].tries + 2 <= 2 * upsets
      BY <1>2 DEF TakeToken, AttemptsInv, AttemptsOK
  <2>1. CASE MoveTo(c, "ok") \/ MoveTo(c, "failed") BY <2>1, <1>q, AttemptsMove
  <2>2. CASE req[c].answer = "lost" /\ MoveTo(c, "sleeping")
    <3>1. mode = "oauth" /\ ~req[c].probe => req[c].tries + 1 <= 2 * upsets
        BY <1>0, <2>t, <2>2
    <3> QED BY <1>q, <2>2, <3>1, AttemptsMove
  <2>3. CASE req[c].answer = "token" /\ accessToken' = req[c].bearer /\ SendAgain(c)
      BY <1>q, <2>t, <2>3, AttemptsAgain
  <2> QED BY <1>2, <2>1, <2>2, <2>3 DEF TakeToken
<1> QED BY <1>1, <1>2

LEMMA AttemptsStep == CallsInv /\ AttemptsInv /\ [ClientNext]_clientVars => AttemptsInv'
<1> SUFFICES ASSUME CallsInv, AttemptsInv, [ClientNext]_clientVars PROVE AttemptsInv' OBVIOUS
<1>1. CASE UNCHANGED clientVars BY <1>1 DEF clientVars, AttemptsInv
<1>2. CASE ExpireToken
  <2>1. UNCHANGED <<mode, req>> /\ upsets' = upsets + 1 /\ upsets \in Nat
      BY <1>2 DEF ExpireToken, Upset, AttemptsInv
  <2>2. ASSUME mode = "oauth", NEW c \in Calls PROVE AttemptsOK(req[c], upsets', valid')
    <3>1. req[c] \in CallFields BY DEF CallsInv
    <3>2. Faulty BY <2>1 DEF Faulty
    <3> QED BY <2>1, <2>2, <3>1, <3>2, Later DEF AttemptsInv
  <2> QED BY <2>1, <2>2 DEF AttemptsInv
<1> QED
    BY <1>1, <1>2, AttemptsBegin, AttemptsServe, AttemptsLose, AttemptsStray,
       AttemptsRefresh, AttemptsAnswer, AttemptsToken
    DEF ClientNext, ClientStep, Service

\* With an app's secret, a call that has used up its attempts has met a fault for
\* every two of them, whatever tokens the other calls store meanwhile.
THEOREM AttemptsCorrect == ClientSpec => []ExhaustedByFaults
<1>1. ClientInit => AttemptsInv
  <2> SUFFICES ASSUME ClientInit PROVE AttemptsInv OBVIOUS
  <2>1. \A c \in Calls : req[c].at = "new" /\ req[c].tries = 0 BY DEF ClientInit
  <2> QED BY <2>1 DEF ClientInit, AttemptsInv, AttemptsOK
<1>2. CallsInv /\ AttemptsInv => ExhaustedByFaults
  <2> SUFFICES ASSUME CallsInv, AttemptsInv, NEW c \in Calls, mode = "oauth",
                      req[c].at = "exhausted", req[c].probe
               PROVE  FALSE
      BY ClientAssumption DEF AttemptsInv, AttemptsOK, ExhaustedByFaults
  <2> QED BY DEF CallsInv, CallOK, RoundsCounted
<1> QED BY <1>1, <1>2, CallsInit, CallsStep, AttemptsStep, PTL DEF ClientSpec

-----------------------------------------------------------------------------
(* Types: the tokens.                                                      *)

\* How many refreshes call c may have been answered: one for each try that is over.
Rounds(r) ==
    IF r.at \in {"refreshed", "sleeping", "ok", "failed", "exhausted"}
    THEN r.tries + 1 ELSE r.tries

Spent == {p \in Calls \X (0 .. RetryTimes) : p[2] < Rounds(req[p[1]])}

\* No token is newer than the last one issued, and each refresh is paid by a try.
TokensInv ==
    /\ mode \in Modes /\ upsets \in 0 .. MaxUpsets
    /\ issued \in Nat /\ issued > 0 /\ issued - 1 <= Cardinality(Spent)
    /\ accessToken \in 0 .. issued /\ valid \subseteq 1 .. issued
    /\ \A c \in Calls : req[c].bearer \in 0 .. issued

\* What a step of call c does to the tokens and to its tries.
TokenStep(c) ==
    /\ mode' = mode /\ upsets' \in 0 .. MaxUpsets
    /\ accessToken' \in 0 .. issued' /\ valid' \subseteq 1 .. issued'
    /\ \A d \in Calls : d # c => req'[d] = req[d]
    /\ req'[c].bearer \in 0 .. issued'
    /\ \/ issued' = issued /\ Rounds(req[c]) <= Rounds(req'[c])
       \/ issued' = issued + 1 /\ Rounds(req'[c]) = Rounds(req[c]) + 1

LEMMA SpentFinite ==
    /\ IsFiniteSet(Calls \X (0 .. RetryTimes))
    /\ Cardinality(Calls \X (0 .. RetryTimes)) = Cardinality(Calls) * (RetryTimes + 1)
<1>1. RetryTimes \in Nat /\ IsFiniteSet(Calls)
  BY ClientAssumption
<1>2. IsFiniteSet(0 .. RetryTimes) /\ Cardinality(0 .. RetryTimes) = RetryTimes + 1
  <2>1. Cardinality(0 .. RetryTimes) = IF 0 > RetryTimes THEN 0 ELSE RetryTimes - 0 + 1
    BY <1>1, FS_Interval
  <2> QED
    BY <1>1, <2>1, FS_Interval
<1> QED
  BY <1>1, <1>2, FS_Product

LEMMA TokensFrom ==
    ASSUME CallsInv, CallsInv', TokensInv, NEW c \in Calls, TokenStep(c)
    PROVE  TokensInv'
<1> DEFINE All == Calls \X (0 .. RetryTimes)
<1>1. /\ Spent \in SUBSET All /\ Spent' \in SUBSET All
      /\ IsFiniteSet(Spent) /\ IsFiniteSet(Spent')
  <2>1. Spent \in SUBSET All /\ Spent' \in SUBSET All
    BY DEF Spent
  <2> QED
    BY <2>1, SpentFinite, FS_Subset
<1>2. Cardinality(Spent) \in Nat /\ Cardinality(Spent') \in Nat
  BY <1>1, FS_CardinalityType
<1>3. \A d \in Calls : /\ req[d] \in CallFields /\ req'[d] \in CallFields
                       /\ Rounds(req[d]) \in Nat /\ Rounds(req'[d]) \in Nat
  BY ClientAssumption DEF CallsInv, CallFields, Rounds
<1>4. Spent \subseteq Spent'
  <2> SUFFICES ASSUME NEW d \in Calls, NEW k \in 0 .. RetryTimes, k < Rounds(req[d])
               PROVE  k < Rounds(req'[d])
    BY DEF Spent
  <2>1. Rounds(req[d]) <= Rounds(req'[d])
    BY <1>3 DEF TokenStep
  <2> QED
    BY <1>3, <2>1, ClientAssumption
<1>5. issued' - 1 <= Cardinality(Spent')
  <2>1. CASE issued' = issued
    <3>1. Cardinality(Spent) <= Cardinality(Spent')
      BY <1>1, <1>4, FS_Subset
    <3> QED
      BY <1>2, <2>1, <3>1 DEF TokensInv
  <2>2. CASE issued' = issued + 1 /\ Rounds(req'[c]) = Rounds(req[c]) + 1
    <3> DEFINE k == Rounds(req[c])
               new == <<c, k>>
    <3>1. k \in 0 .. RetryTimes
      <4>1. req[c].tries \in 0 .. RetryTimes /\ req'[c].tries \in 0 .. RetryTimes
        BY <1>3 DEF CallFields
      <4> QED
        BY <2>2, <4>1, ClientAssumption DEF Rounds
    <3>2. new \in Spent' /\ new \notin Spent
      BY <1>3, <2>2, <3>1 DEF Spent
    <3> HIDE DEF new
    <3>3. Cardinality(Spent \cup {new}) = Cardinality(Spent) + 1
      BY <1>1, <3>2, FS_AddElement
    <3>4. Cardinality(Spent \cup {new}) <= Cardinality(Spent')
      BY <1>1, <1>4, <3>2, FS_Subset
    <3> QED
      BY <1>2, <2>2, <3>3, <3>4 DEF TokensInv
  <2> QED
    BY <2>1, <2>2 DEF TokenStep
<1>6. issued' \in Nat /\ issued' > 0 /\ issued <= issued'
  BY DEF TokensInv, TokenStep
<1>7. \A d \in Calls : req'[d].bearer \in 0 .. issued'
  BY <1>6 DEF TokensInv, TokenStep
<1> QED
  BY <1>5, <1>6, <1>7 DEF TokensInv, TokenStep

LEMMA TokenFrom ==
    ASSUME CallsInv, TokensInv, NEW c \in Calls, NEW r, req' = [req EXCEPT ![c] = r],
           mode' = mode, issued' = issued, upsets' \in 0 .. MaxUpsets,
           accessToken' \in 0 .. issued, valid' \subseteq 1 .. issued,
           r.bearer \in 0 .. issued, Rounds(req[c]) <= Rounds(r)
    PROVE  TokenStep(c)
<1>1. req'[c] = r /\ \A d \in Calls : d # c => req'[d] = req[d]
  BY DEF CallsInv
<1> QED
  BY <1>1 DEF TokenStep, TokensInv

\* The call only moves, and not to an earlier place of its round.
LEMMA TokenMove ==
    ASSUME CallsInv, TokensInv, NEW c \in Calls,
           NEW a \in {"refreshing", "sleeping", "ok", "failed", "exhausted"}, MoveTo(c, a),
           UNCHANGED <<mode, issued, valid, upsets>>, accessToken' \in 0 .. issued,
           \/ req[c].at = "answered"
           \/ req[c].at = "refreshed" /\ a # "refreshing"
    PROVE  TokenStep(c)
<1> DEFINE r == [req[c] EXCEPT !.at = a]
<1>1. req[c] \in CallFields /\ req[c].tries \in Nat /\ req[c].bearer \in 0 .. issued
  BY ClientAssumption DEF CallsInv, CallFields, TokensInv
<1>2. req' = [req EXCEPT ![c] = r]
  BY <1>1 DEF MoveTo, CallFields, CallsInv
<1>3. r.at = a /\ r.tries = req[c].tries /\ r.bearer = req[c].bearer
  BY <1>1 DEF CallFields
<1> HIDE DEF r
<1>4. Rounds(req[c]) <= Rounds(r)
  BY <1>1, <1>3 DEF Rounds
<1>5. upsets' \in 0 .. MaxUpsets /\ valid' \subseteq 1 .. issued
  BY DEF TokensInv
<1> QED
  BY <1>1, <1>2, <1>3, <1>4, <1>5, TokenFrom

\* The call is sent again, which its try pays.
LEMMA TokenAgain ==
    ASSUME CallsInv, TokensInv, NEW c \in Calls, SendAgain(c),
           UNCHANGED <<mode, issued, valid, upsets>>, accessToken' \in 0 .. issued
    PROVE  TokenStep(c)
<1> DEFINE r == [req[c] EXCEPT !.at = "sent", !.tries = @ + 1, !.bearer = accessToken',
                               !.answer = "none"]
<1>1. req[c] \in CallFields /\ req[c].tries \in Nat
  BY ClientAssumption DEF CallsInv, CallFields
<1>2. req' = [req EXCEPT ![c] = r]
  BY <1>1 DEF SendAgain, CallFields, CallsInv
<1>3. r.at = "sent" /\ r.tries = req[c].tries + 1 /\ r.bearer = accessToken'
  BY <1>1 DEF CallFields
<1> HIDE DEF r
<1>4. Rounds(req[c]) <= Rounds(r)
  BY <1>1, <1>3 DEF Rounds
<1>5. upsets' \in 0 .. MaxUpsets /\ valid' \subseteq 1 .. issued
  BY DEF TokensInv
<1> QED
  BY <1>2, <1>3, <1>4, <1>5, TokenFrom

LEMMA TokenBegin ==
    ASSUME CallsInv, TokensInv, NEW c \in Calls, StartCall(c) \/ TestConnection(c)
    PROVE  TokenStep(c)
<1>1. /\ req[c] \in CallFields /\ req[c].tries \in Nat /\ req[c].bearer \in 0 .. issued
      /\ req[c].at = "new"
  BY ClientAssumption DEF CallsInv, CallFields, TokensInv, StartCall, TestConnection
<1>2. /\ mode' = mode /\ issued' = issued /\ upsets' \in 0 .. MaxUpsets
      /\ accessToken' \in 0 .. issued /\ valid' \subseteq 1 .. issued
      /\ accessToken \in 0 .. issued
  BY DEF TokensInv, StartCall, TestConnection
<1>3. CASE StartCall(c)
  <2> DEFINE r == [req[c] EXCEPT !.at = "sent", !.bearer = accessToken]
  <2>1. req' = [req EXCEPT ![c] = r]
    BY <1>1, <1>3 DEF StartCall, CallFields, CallsInv
  <2>2. r.at = "sent" /\ r.tries = req[c].tries /\ r.bearer = accessToken
    BY <1>1 DEF CallFields
  <2> HIDE DEF r
  <2>3. Rounds(req[c]) <= Rounds(r)
    BY <1>1, <2>2 DEF Rounds
  <2> QED
    BY <1>2, <2>1, <2>2, <2>3, TokenFrom
<1>4. CASE TestConnection(c)
  <2>1. PICK a \in {"ok", "refreshing", "failed"} :
          req' = [req EXCEPT ![c].probe = TRUE, ![c].at = a]
    BY <1>4 DEF TestConnection
  <2> DEFINE r == [req[c] EXCEPT !.probe = TRUE, !.at = a]
  <2>2. req' = [req EXCEPT ![c] = r]
    BY <1>1, <2>1 DEF CallFields, CallsInv
  <2>3. r.at = a /\ r.tries = req[c].tries /\ r.bearer = req[c].bearer
    BY <1>1 DEF CallFields
  <2> HIDE DEF r
  <2>4. Rounds(req[c]) <= Rounds(r)
    BY <1>1, <2>3 DEF Rounds
  <2> QED
    BY <1>1, <1>2, <2>2, <2>3, <2>4, TokenFrom
<1> QED
  BY <1>3, <1>4

\* The request is answered or lost, or one given up arrives.
LEMMA TokenServe ==
    ASSUME CallsInv, TokensInv, NEW c \in Calls,
           ServeCall(c) \/ LoseCall(c) \/ StrayArrives(c)
    PROVE  TokenStep(c)
<1>1. /\ req[c] \in CallFields /\ req[c].tries \in Nat /\ req[c].bearer \in 0 .. issued
  BY ClientAssumption DEF CallsInv, CallFields, TokensInv
<1>2. /\ mode' = mode /\ issued' = issued /\ upsets' \in 0 .. MaxUpsets
      /\ accessToken' \in 0 .. issued /\ valid' \subseteq 1 .. issued
  BY ClientAssumption DEF TokensInv, ServeCall, LoseCall, StrayArrives, Upset
<1>3. \E r : /\ req' = [req EXCEPT ![c] = r]
             /\ r.tries = req[c].tries /\ r.bearer = req[c].bearer
             /\ \/ r.at = req[c].at
                \/ r.at = "answered" /\ req[c].at = "sent"
  <2>1. CASE ServeCall(c)
    <3>1. PICK a \in {"ok", "unauthorized", "refused"}, n \in {0, 1} :
            req' = [req EXCEPT ![c].at = "answered", ![c].answer = a, ![c].effects = @ + n]
      BY <2>1 DEF ServeCall
    <3> DEFINE r == [req[c] EXCEPT !.at = "answered", !.answer = a, !.effects = @ + n]
    <3>2. req' = [req EXCEPT ![c] = r]
      BY <1>1, <3>1 DEF CallFields, CallsInv
    <3>3. r.at = "answered" /\ r.tries = req[c].tries /\ r.bearer = req[c].bearer
      BY <1>1 DEF CallFields
    <3> HIDE DEF r
    <3> QED
      BY <2>1, <3>2, <3>3 DEF ServeCall
  <2>2. CASE LoseCall(c)
    <3>1. PICK n \in {0, 1} :
            req' = [req EXCEPT ![c].at = "answered", ![c].answer = "lost", ![c].stray = @ + n]
      BY <2>2 DEF LoseCall
    <3> DEFINE r == [req[c] EXCEPT !.at = "answered", !.answer = "lost", !.stray = @ + n]
    <3>2. req' = [req EXCEPT ![c] = r]
      BY <1>1, <3>1 DEF CallFields, CallsInv
    <3>3. r.at = "answered" /\ r.tries = req[c].tries /\ r.bearer = req[c].bearer
      BY <1>1 DEF CallFields
    <3> HIDE DEF r
    <3> QED
      BY <2>2, <3>2, <3>3 DEF LoseCall
  <2>3. CASE StrayArrives(c)
    <3> DEFINE r == [req[c] EXCEPT !.stray = @ - 1, !.effects = @ + 1]
    <3>1. req' = [req EXCEPT ![c] = r]
      BY <1>1, <2>3 DEF StrayArrives, CallFields, CallsInv
    <3>2. r.at = req[c].at /\ r.tries = req[c].tries /\ r.bearer = req[c].bearer
      BY <1>1 DEF CallFields
    <3> HIDE DEF r
    <3> QED
      BY <3>1, <3>2
  <2> QED
    BY <2>1, <2>2, <2>3
<1>4. PICK r : /\ req' = [req EXCEPT ![c] = r]
               /\ r.tries = req[c].tries /\ r.bearer = req[c].bearer
               /\ \/ r.at = req[c].at
                  \/ r.at = "answered" /\ req[c].at = "sent"
  BY <1>3
<1>5. Rounds(req[c]) <= Rounds(r)
  BY <1>1, <1>4 DEF Rounds
<1> QED
  BY <1>1, <1>2, <1>4, <1>5, TokenFrom

\* The token service answers: the one step that may issue a token.
LEMMA TokenRefresh ==
    ASSUME CallsInv, TokensInv, NEW c \in Calls, ServeRefresh(c) PROVE TokenStep(c)
<1>1. /\ req[c] \in CallFields /\ req[c].tries \in Nat /\ req[c].bearer \in 0 .. issued
      /\ req[c].at = "refreshing" /\ mode' = mode /\ accessToken' = accessToken
      /\ accessToken \in 0 .. issued /\ issued \in Nat /\ valid \subseteq 1 .. issued
      /\ upsets \in 0 .. MaxUpsets /\ MaxUpsets \in Nat
  BY ClientAssumption DEF CallsInv, CallFields, TokensInv, ServeRefresh
<1>2. CASE /\ issued' = issued + 1
           /\ \/ valid' = valid \cup {issued'} /\ UNCHANGED upsets
              \/ valid' = {issued'} /\ Upset
           /\ req' = [req EXCEPT ![c].at = "refreshed", ![c].answer = "token",
                                 ![c].bearer = issued']
  <2> DEFINE r == [req[c] EXCEPT !.at = "refreshed", !.answer = "token", !.bearer = issued']
  <2>1. req' = [req EXCEPT ![c] = r]
    BY <1>1, <1>2 DEF CallFields, CallsInv
  <2>2. r.at = "refreshed" /\ r.tries = req[c].tries /\ r.bearer = issued'
    BY <1>1 DEF CallFields
  <2> HIDE DEF r
  <2>3. req'[c] = r /\ \A d \in Calls : d # c => req'[d] = req[d]
    BY <2>1 DEF CallsInv
  <2>4. Rounds(r) = Rounds(req[c]) + 1
    BY <1>1, <2>2 DEF Rounds
  <2>5. valid' \subseteq 1 .. issued' /\ upsets' \in 0 .. MaxUpsets
    BY <1>1, <1>2 DEF Upset
  <2>6. accessToken' \in 0 .. issued' /\ r.bearer \in 0 .. issued'
    BY <1>1, <1>2, <2>2
  <2> QED
    BY <1>1, <1>2, <2>3, <2>4, <2>5, <2>6 DEF TokenStep
<1>3. ASSUME Upset, UNCHANGED issued, NEW a \in {"empty", "refused", "lost"},
             valid' \in IF a = "lost" THEN {valid, {}} ELSE {valid},
             req' = [req EXCEPT ![c].at = "refreshed", ![c].answer = a]
      PROVE  TokenStep(c)
  <2> DEFINE r == [req[c] EXCEPT !.at = "refreshed", !.answer = a]
  <2>1. req' = [req EXCEPT ![c] = r]
    BY <1>1, <1>3 DEF CallFields, CallsInv
  <2>2. r.at = "refreshed" /\ r.tries = req[c].tries /\ r.bearer = req[c].bearer
    BY <1>1 DEF CallFields
  <2> HIDE DEF r
  <2>3. Rounds(req[c]) <= Rounds(r)
    BY <1>1, <2>2 DEF Rounds
  <2>4. valid' \subseteq 1 .. issued /\ upsets' \in 0 .. MaxUpsets
    BY <1>1, <1>3 DEF Upset
  <2> QED
    BY <1>1, <1>3, <2>1, <2>2, <2>3, <2>4, TokenFrom
<1> QED
  BY <1>2, <1>3 DEF ServeRefresh

LEMMA TokenTake ==
    ASSUME CallsInv, TokensInv, NEW c \in Calls, ClientStep(c) PROVE TokenStep(c)
<1>1. accessToken \in 0 .. issued /\ req[c].bearer \in 0 .. issued
      /\ GivenToken \in 0 .. issued /\ NoToken \in 0 .. issued
  BY DEF TokensInv, GivenToken, NoToken
<1>2. accessToken' \in 0 .. issued /\ UNCHANGED <<mode, issued, valid, upsets>>
  BY <1>1 DEF ClientStep, TakeAnswer, TakeToken, Wake, BeginRefresh
<1>3. \/ SendAgain(c)
      \/ \E a \in {"refreshing", "sleeping", "ok", "failed", "exhausted"} :
            /\ MoveTo(c, a)
            /\ req[c].at = "answered" \/ (req[c].at = "refreshed" /\ a # "refreshing")
  <2>1. CASE TakeAnswer(c)
    BY <2>1 DEF TakeAnswer, BeginRefresh, AfterLoss
  <2>2. CASE TakeToken(c)
    BY <2>2 DEF TakeToken
  <2>3. CASE Wake(c)
    BY <2>3 DEF Wake
  <2> QED
    BY <2>1, <2>2, <2>3 DEF ClientStep
<1> QED
  BY <1>2, <1>3, TokenAgain, TokenMove

LEMMA TokensStep ==
    CallsInv /\ CallsInv' /\ TokensInv /\ [ClientNext]_clientVars => TokensInv'
<1> SUFFICES ASSUME CallsInv, CallsInv', TokensInv, [ClientNext]_clientVars
             PROVE  TokensInv'
  OBVIOUS
<1>1. CASE \E c \in Calls : TokenStep(c)
  BY <1>1, TokensFrom
<1>2. CASE ExpireToken
  BY <1>2, ClientAssumption DEF ExpireToken, Upset, TokensInv, Spent
<1>3. CASE UNCHANGED clientVars
  BY <1>3 DEF clientVars, TokensInv, Spent
<1> QED
  BY <1>1, <1>2, <1>3, TokenBegin, TokenServe, TokenRefresh, TokenTake
  DEF ClientNext, Service

LEMMA LastTokenType ==
    LastToken \in Nat /\ LastToken = 1 + Cardinality(Calls \X (0 .. RetryTimes))
<1>1. Cardinality(Calls \X (0 .. RetryTimes)) \in Nat
  BY SpentFinite, FS_CardinalityType
<1> QED
  BY <1>1, SpentFinite DEF LastToken

LEMMA TokensInit == ClientInit => TokensInv
<1> SUFFICES ASSUME ClientInit PROVE TokensInv
  OBVIOUS
<1>1. issued = 1 /\ \A c \in Calls : req[c].bearer = 0
  BY DEF ClientInit, NoToken
<1>2. Cardinality(Spent) \in Nat
  <2>1. Spent \subseteq Calls \X (0 .. RetryTimes)
    BY DEF Spent
  <2> QED
    BY <2>1, SpentFinite, FS_Subset, FS_CardinalityType
<1> QED
  BY <1>1, <1>2, ClientAssumption DEF ClientInit, TokensInv, NoToken, GivenToken

\* Whatever is lost, refused or revoked, every call stays within its tries, and no more
\* tokens are issued than the tries of all calls can pay for.
THEOREM ClientTypeCorrect == ClientSpec => []ClientTypeOK
<1>1. CallsInv /\ TokensInv => ClientTypeOK
  <2> SUFFICES ASSUME CallsInv, TokensInv PROVE ClientTypeOK
    OBVIOUS
  <2>1. issued \in Token
    <3>1. Spent \subseteq Calls \X (0 .. RetryTimes)
      BY DEF Spent
    <3>2. Cardinality(Spent) <= Cardinality(Calls \X (0 .. RetryTimes))
      BY <3>1, SpentFinite, FS_Subset
    <3>3. Cardinality(Spent) \in Nat /\ Cardinality(Calls \X (0 .. RetryTimes)) \in Nat
      BY <3>1, SpentFinite, FS_Subset, FS_CardinalityType
    <3>4. issued \in 0 .. LastToken
      BY <3>2, <3>3, LastTokenType DEF TokensInv
    <3> QED
      BY <3>4 DEF Token
  <2>2. accessToken \in Token /\ \A c \in Calls : req[c].bearer \in Token
    <3>1. 0 .. issued \subseteq Token
      BY <2>1, LastTokenType DEF TokensInv, Token
    <3> QED
      BY <3>1 DEF TokensInv
  <2>3. ASSUME NEW c \in Calls PROVE req[c] \in Call
    <3>1. req[c] \in CallFields /\ SendsCounted(req[c])
      BY DEF CallsInv, CallOK
    <3>2. req[c].effects \in 0 .. RetryTimes + 1 /\ req[c].stray \in 0 .. RetryTimes + 1
      BY <3>1, ClientAssumption DEF SendsCounted, CallFields
    <3> QED
      BY <2>2, <3>1, <3>2 DEF Call, CallFields
  <2> QED
    BY <2>1, <2>2, <2>3 DEF ClientTypeOK, CallsInv, TokensInv
<1> QED
  BY <1>1, CallsInit, CallsStep, TokensInit, TokensStep, PTL DEF ClientSpec
=============================================================================
