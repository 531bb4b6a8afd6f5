--------------------------- MODULE TencentClient ----------------------------
(***************************************************************************)
(* The client of the Tencent API (services/tencent_api.py): one object,    *)
(* its access token, and the requests of several coroutines that share     *)
(* both.  A request is sent, answered or lost, refreshes the token on a    *)
(* 401, sleeps and is sent again after a timeout or transport error, all   *)
(* with one counter.  The service is external: it knows which tokens are   *)
(* valid and may take a request whose client has stopped waiting for it.   *)
(***************************************************************************)
EXTENDS Naturals, FiniteSets

CONSTANTS
    Calls,          \* requests, each made once
    RetryTimes,     \* retry_times of the client
    MaxUpsets       \* bound on expired and revoked tokens, lost and bad answers

ASSUME ClientAssumption ==
    /\ IsFiniteSet(Calls)
    /\ {RetryTimes, MaxUpsets} \subseteq Nat

\* How the client gets a token: from the environment (JWT), by app id and
\* secret, or not at all because one of the two is missing.
Modes == {"jwt", "oauth", "no_secret"}

\* Tokens by number: 0 is none, 1 the one the client was given (that of the
\* environment in JWT mode), those after it were issued for the app's secret.
NoToken == 0
GivenToken == 1
LastToken == 1 + Cardinality(Calls) * (RetryTimes + 1)
Token == 0 .. LastToken

VARIABLES
    mode,           \* how the client refreshes
    accessToken,    \* self.access_token
    req,            \* req[c]: where call c is, and its local variables
    issued,         \* the token service has issued the tokens up to this one
    valid,          \* the tokens the API accepts
    upsets          \* history: faults so far

clientVars == <<mode, accessToken, req, issued, valid, upsets>>

-----------------------------------------------------------------------------
\* tries: retry_count, bearer: the token in the headers that were sent or in the
\* answer of a refresh, probe: the call is test_connection,
\* effects: history, how often the call took effect at the service,
\* stray: sends the client has given up which may still arrive.
Call ==
    [at : {"new", "sent", "answered", "refreshing", "refreshed", "sleeping",
           "ok", "failed", "exhausted"},
     tries : 0 .. RetryTimes, bearer : Token, probe : BOOLEAN,
     answer : {"none", "ok", "unauthorized", "refused", "lost", "token", "empty"},
     effects : 0 .. RetryTimes + 1, stray : 0 .. RetryTimes + 1]

ClientTypeOK ==
    /\ mode \in Modes
    /\ accessToken \in Token
    /\ req \in [Calls -> Call]
    /\ issued \in Token
    /\ valid \in SUBSET (1 .. issued)
    /\ upsets \in 0 .. MaxUpsets

\* __init__ and from_env: the token is the one of the environment, the one
\* passed in, or none.  It may have expired long ago.
ClientInit ==
    /\ mode \in Modes
    /\ accessToken \in {NoToken, GivenToken}
    /\ mode = "jwt" => accessToken = GivenToken
    /\ issued = 1
    /\ valid \in SUBSET {GivenToken}
    /\ upsets = 0
    /\ req = [c \in Calls |->
                [at |-> "new", tries |-> 0, bearer |-> NoToken, probe |-> FALSE,
                 answer |-> "none", effects |-> 0, stray |-> 0]]

Upset ==
    /\ upsets < MaxUpsets
    /\ upsets' = upsets + 1

\* The call ends, or goes on, at a.
MoveTo(c, a) == req' = [req EXCEPT ![c].at = a]

\* Mutant of SendAgain: the recursive call passes retry_count on as it is.
SendAgainUncounted(c) ==
    req' = [req EXCEPT ![c].at = "sent", ![c].bearer = accessToken', ![c].answer = "none"]

\* _request is entered again: the headers are made of the token of that moment.
SendAgain(c) ==
    req' = [req EXCEPT ![c].at = "sent", ![c].tries = @ + 1,
                       ![c].bearer = accessToken', ![c].answer = "none"]

-----------------------------------------------------------------------------
(* Requests.                                                               *)

\* get_values, put_values and the other methods: _request with retry_count 0.
StartCall(c) ==
    /\ req[c].at = "new"
    /\ req' = [req EXCEPT ![c].at = "sent", ![c].bearer = accessToken]
    /\ UNCHANGED <<mode, accessToken, issued, valid, upsets>>

\* The API takes the request, or refuses it for its token or for another reason
\* (403, 404, 4xx, 5xx, where an error of the service may come after the effect).
ServeCall(c) ==
    /\ req[c].at = "sent"
    /\ \E a \in {"ok", "unauthorized", "refused"}, n \in {0, 1} :
          /\ (a = "unauthorized") = (req[c].bearer \notin valid)
          /\ a = "ok" => n = 1
          /\ a = "unauthorized" => n = 0
          /\ req' = [req EXCEPT ![c].at = "answered", ![c].answer = a,
                                ![c].effects = @ + n]
    /\ UNCHANGED <<mode, accessToken, issued, valid, upsets>>

\* httpx raises TimeoutException or HTTPError: the request is still on its way,
\* or its answer is lost, or it never left.
LoseCall(c) ==
    /\ req[c].at \in {"sent", "answered"}
    /\ req[c].answer # "lost"
    /\ Upset
    /\ \E n \in IF req[c].at = "sent" THEN {0, 1} ELSE {0} :
          req' = [req EXCEPT ![c].at = "answered", ![c].answer = "lost",
                             ![c].stray = @ + n]
    /\ UNCHANGED <<mode, accessToken, issued, valid>>

\* A request whose client no longer waits arrives, whatever the call does now.
StrayArrives(c) ==
    /\ req[c].stray > 0
    /\ req' = [req EXCEPT ![c].stray = @ - 1, ![c].effects = @ + 1]
    /\ UNCHANGED <<mode, accessToken, issued, valid, upsets>>

\* What _request does about a 401 when it may retry: _refresh_access_token
\* takes the environment's token, asks the token service, or raises ValueError.
BeginRefresh(c) ==
    \/ /\ mode = "jwt"
       /\ accessToken' = GivenToken
       /\ SendAgain(c)
    \/ mode = "oauth" /\ MoveTo(c, "refreshing") /\ UNCHANGED accessToken
    \/ mode = "no_secret" /\ MoveTo(c, "failed") /\ UNCHANGED accessToken

\* Mutant of AfterLoss: the except clause ends with an empty answer.
AfterLossEmpty(c) == MoveTo(c, "ok")

\* The except clauses for TimeoutException and HTTPError.
AfterLoss(c) == MoveTo(c, IF req[c].tries < RetryTimes THEN "sleeping" ELSE "exhausted")

\* The rest of _request.  An answer that is JSON is read by "await response.json()",
\* which raises where json is a plain method, as it is in httpx.
TakeAnswer(c) ==
    /\ req[c].at = "answered"
    /\ LET again == req[c].tries < RetryTimes
       IN  \/ /\ req[c].answer = "ok"
              /\ MoveTo(c, "ok") /\ UNCHANGED accessToken
           \/ /\ req[c].answer \in {"ok", "refused"}
              /\ MoveTo(c, "failed") /\ UNCHANGED accessToken
           \/ /\ req[c].answer = "unauthorized" /\ again
              /\ BeginRefresh(c)
           \/ /\ req[c].answer = "lost"
              /\ AfterLoss(c) /\ UNCHANGED accessToken
           \/ /\ req[c].answer = "unauthorized" /\ ~again
              /\ MoveTo(c, "exhausted") /\ UNCHANGED accessToken
    /\ UNCHANGED <<mode, issued, valid, upsets>>

\* asyncio.sleep is over.
Wake(c) ==
    /\ req[c].at = "sleeping"
    /\ UNCHANGED <<mode, accessToken, issued, valid, upsets>>
    /\ SendAgain(c)

-----------------------------------------------------------------------------
(* The token.                                                              *)

\* The token service answers with a new token, which may revoke the others, or
\* without one, refuses, or its answer is lost after it may have revoked them.
ServeRefresh(c) ==
    /\ req[c].at = "refreshing"
    /\ \/ /\ issued' = issued + 1
          /\ \/ valid' = valid \cup {issued'} /\ UNCHANGED upsets
             \/ valid' = {issued'} /\ Upset
          /\ req' = [req EXCEPT ![c].at = "refreshed", ![c].answer = "token",
                                ![c].bearer = issued']
       \/ /\ Upset
          /\ \E a \in {"empty", "refused", "lost"} :
                /\ valid' \in IF a = "lost" THEN {valid, {}} ELSE {valid}
                /\ req' = [req EXCEPT ![c].at = "refreshed", ![c].answer = a]
          /\ UNCHANGED issued
    /\ UNCHANGED <<mode, accessToken>>

\* Mutant of TakeToken: the token of the answer is returned and not stored.
TakeTokenUnstored(c) ==
    /\ req[c].at = "refreshed" /\ req[c].answer = "token" /\ ~req[c].probe
    /\ UNCHANGED accessToken /\ SendAgain(c)
    /\ UNCHANGED <<mode, issued, valid, upsets>>

\* The rest of _refresh_access_token, and what its callers do then.  An answer
\* without a token overwrites the client's token before it raises, one that cannot be
\* read does not; a timeout of the refresh is caught by _request like one of the
\* request, but not by test_connection.
TakeToken(c) ==
    /\ req[c].at = "refreshed"
    /\ \/ /\ req[c].answer = "token"
          /\ accessToken' = req[c].bearer
          /\ IF req[c].probe THEN MoveTo(c, "ok") ELSE SendAgain(c)
       \/ /\ req[c].answer = "empty"
          /\ accessToken' = NoToken
          /\ MoveTo(c, "failed")
       \/ /\ req[c].answer \in {"token", "empty"}
          /\ MoveTo(c, "failed")
          /\ UNCHANGED accessToken
       \/ /\ req[c].answer \in {"refused", "lost"}
          /\ MoveTo(c, IF req[c].answer = "lost" /\ ~req[c].probe
                       THEN "sleeping" ELSE "failed")
          /\ UNCHANGED accessToken
    /\ UNCHANGED <<mode, issued, valid, upsets>>

\* test_connection asks for a token only when the client has none, and nothing else.
TestConnection(c) ==
    /\ req[c].at = "new"
    /\ req' = [req EXCEPT ![c].probe = TRUE,
                  ![c].at = CASE accessToken # NoToken -> "ok"
                              [] accessToken = NoToken /\ mode = "oauth" -> "refreshing"
                              [] OTHER -> "failed"]
    /\ UNCHANGED <<mode, accessToken, issued, valid, upsets>>

ExpireToken ==
    /\ valid # {}
    /\ Upset
    /\ \E t \in valid : valid' = valid \ {t}
    /\ UNCHANGED <<mode, accessToken, req, issued>>

-----------------------------------------------------------------------------
ClientStep(c) == TakeAnswer(c) \/ TakeToken(c) \/ Wake(c)

Service(c) == ServeCall(c) \/ ServeRefresh(c)

ClientNext ==
    \/ \E c \in Calls :
          \/ StartCall(c) \/ TestConnection(c) \/ ClientStep(c)
          \/ Service(c) \/ LoseCall(c) \/ StrayArrives(c)
    \/ ExpireToken

\* The loop runs what is ready, and httpx's timeouts end every wait.
ClientFairness ==
    \A c \in Calls : WF_clientVars(ClientStep(c)) /\ WF_clientVars(Service(c))

ClientSpec == ClientInit /\ [][ClientNext]_clientVars /\ ClientFairness

-----------------------------------------------------------------------------
(* What the client guarantees.                                             *)

\* A call with an app's secret does not use up its attempts without faults: the
\* 401 of an expired token, a refresh that is itself lost and the tokens other
\* calls store or lose never cost it more than two attempts for each fault.
\* (It can be two: after each timeout the request may go out with a token that
\* another call has stored although it was revoked long before.)
ExhaustedByFaults ==
    \A c \in Calls :
        mode = "oauth" /\ req[c].at = "exhausted" => 2 * upsets >= RetryTimes

\* What the caller of a request has been told.
Outcome(c) ==
    CASE ~req[c].probe /\ req[c].at = "ok" -> "ok"
      [] ~req[c].probe /\ req[c].at \in {"failed", "exhausted"} -> "failed"
      [] OTHER -> "pending"

\* What a call reports is true of the sheet: success means that it took effect,
\* and it never takes effect more than RetryTimes + 1 times, those sends
\* included whose client had stopped waiting.
Remote == INSTANCE RemoteCall WITH
    Attempts <- RetryTimes + 1,
    outcome <- [c \in Calls |-> Outcome(c)],
    effects <- [c \in Calls |-> req[c].effects]

ReportsWhatHappened == Remote!Spec

\* Every call ends, in every mode: also in JWT mode, where a refused token is
\* refreshed to the same token.
EveryRequestEnds ==
    \A c \in Calls :
        req[c].at # "new" ~> req[c].at \in {"ok", "failed", "exhausted"}
=============================================================================
