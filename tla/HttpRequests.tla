---------------------------- MODULE HttpRequests ----------------------------
(***************************************************************************)
(* The requests of HttpClient, packages/network/src/utils/http/            *)
(* http-client.ts: a fetch, the timer that aborts it, and the reading of   *)
(* the body, against a server that may answer, refuse or fall silent at    *)
(* any point.                                                              *)
(***************************************************************************)
EXTENDS Naturals

CONSTANTS
  Requests  \* the calls of http

VARIABLES
  stage,  \* where each call is
  armed   \* the calls whose timer is still to fire

httpVars == <<stage, armed>>

\* A call is "new", "connecting", then reads the body of a response that is ok
\* ("json", response.json()) or of one that is not ("text", response.text(), for
\* the error), and is "resolved" or "rejected".
HttpInit == stage = [r \in Requests |-> "new"] /\ armed = {}

Goes(r, from, to) == stage[r] = from /\ stage' = [stage EXCEPT ![r] = to]

\* http is called: with a wrong URL it throws before anything else.
InvalidUrl(r) == Goes(r, "new", "rejected") /\ UNCHANGED armed

Send(r) == Goes(r, "new", "connecting") /\ armed' = armed \union {r}

\* Mutant of Respond: the timer is not cleared.
RespondArmed(r) ==
  /\ \E to \in {"json", "text", "rejected"} : Goes(r, "connecting", to)
  /\ UNCHANGED armed

\* The head of the response arrives and the timer is cleared; the validation of
\* its headers may throw.
Respond(r) ==
  /\ \E to \in {"json", "text", "rejected"} : Goes(r, "connecting", to)
  /\ armed' = armed \ {r}

\* fetch rejects: nothing clears the timer.
FetchFails(r) == Goes(r, "connecting", "rejected") /\ UNCHANGED armed

\* Mutant of TimerFires: the signal is not given to fetch.
TimerIgnored(r) ==
  /\ r \in armed
  /\ armed' = armed \ {r}
  /\ UNCHANGED stage

\* The timer fires: it aborts the fetch or, too late, nothing that is awaited.
TimerFires(r) ==
  /\ r \in armed
  /\ armed' = armed \ {r}
  /\ stage' = IF stage[r] \in {"connecting", "json", "text"}
              THEN [stage EXCEPT ![r] = "rejected"] ELSE stage

\* The body is complete; that of an error response rejects the call.
BodyEnds(r) ==
  /\ Goes(r, "json", "resolved") \/ Goes(r, "text", "rejected")
  /\ UNCHANGED armed

\* The connection breaks, or the body is not JSON.
BodyFails(r) ==
  /\ Goes(r, "json", "rejected") \/ Goes(r, "text", "rejected")
  /\ UNCHANGED armed

HttpNext ==
  \E r \in Requests :
    \/ InvalidUrl(r) \/ Send(r)
    \/ Respond(r) \/ FetchFails(r) \/ TimerFires(r)
    \/ BodyEnds(r) \/ BodyFails(r)

HttpSpec == HttpInit /\ [][HttpNext]_httpVars

-----------------------------------------------------------------------------
\* The timer guards the wait for the response and nothing after it: no response
\* that has begun is aborted, however late its body ends.
BegunIsNotAborted ==
  [][\A r \in Requests : stage[r] \in {"json", "text"} => ~TimerFires(r)]_httpVars
=============================================================================
