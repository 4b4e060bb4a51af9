---------------------------- MODULE ProfileJoin ----------------------------
(***************************************************************************)
(* Profile.join of quarryng/net/auth.py and the HTTP requests under it     *)
(* (quarryng/net/http.py).  Each call of join returns a Deferred; when the *)
(* first request fails the profile is refreshed and the join tried again.  *)
(*                                                                         *)
(* The module has the state of these calls and the actions on it; it is    *)
(* part of ClientLogin, where firing the Deferred calls auth_ok or         *)
(* auth_failed in the same step.                                           *)
(***************************************************************************)

CONSTANT Join         \* the calls of Profile.join(digest)

VARIABLES
  request,            \* the HTTP requests of each call
  deferred            \* the Deferred d0 that join returned

Requests == {"join", "refresh", "retry"}

(* "lost": answered, but in a way that never fires the Deferred.           *)
RequestStates == {"unsent", "sent", "ok", "failed", "lost"}

TypeOK ==
  /\ request \in [Join -> [Requests -> RequestStates]]
  /\ deferred \in [Join -> {"none", "waiting", "ok", "failed"}]

Init ==
  /\ request = [j \in Join |-> [r \in Requests |-> "unsent"]]
  /\ deferred = [j \in Join |-> "none"]

(* How http.request ends.  Agent gives a response whatever its status is,  *)
(* so a refusal by the server is a success here; a body that is no JSON or *)
(* breaks off leaves the Deferred unfired.  `timeout' is not used: the     *)
(* request may also never end.                                             *)
Outcomes == {"ok", "failed", "lost"}

join(j) ==
  /\ request' = [request EXCEPT ![j]["join"] = "sent"]
  /\ deferred' = [deferred EXCEPT ![j] = "waiting"]

(* Firing a Deferred a second time raises AlreadyCalledError, which ends   *)
(* in the Deferred of the HTTP client and is only logged.                  *)
fire_any_outcome(j, outcome) == deferred' = [deferred EXCEPT ![j] = outcome]
fire(j, outcome) ==
  deferred' = [deferred EXCEPT ![j] =
    IF @ = "waiting" /\ outcome # "lost" THEN outcome ELSE @]

(* Request r of call j ends.  The failure of the first one sends refresh   *)
(* and retry at once.  The Deferred of the refresh is chained to the one   *)
(* of the retry and that one to d0, so whichever ends first fires d0.      *)
RetriedBy_refresh_only == {"refresh"}
RetriedBy == {"refresh", "retry"}
Retries_never(r, outcome) == FALSE
Retries(r, outcome) == r = "join" /\ outcome = "failed"

answer(j, r, outcome) ==
  /\ request[j][r] = "sent"
  /\ IF Retries(r, outcome)
     THEN /\ request' = [request EXCEPT
               ![j] = [q \in Requests |-> IF q \in RetriedBy THEN "sent" ELSE outcome]]
          /\ UNCHANGED deferred
     ELSE /\ request' = [request EXCEPT ![j][r] = outcome]
          /\ fire(j, outcome)

-----------------------------------------------------------------------------
(* Whoever waits for d0 waits for the first request, or for both of the    *)
(* second attempt (answers that are lost are waited for in vain): in no    *)
(* order of the three outcomes does the chaining in join's _errback forget *)
(* one that should have fired d0.                                          *)
Awaited(j, r) == request[j][r] \in {"sent", "lost"}

Settled ==
  \A j \in Join : deferred[j] = "waiting" =>
    \/ Awaited(j, "join")
    \/ request[j]["join"] = "failed" /\ Awaited(j, "refresh") /\ Awaited(j, "retry")

(* Failure is reported only for a join whose first request failed and of   *)
(* whose second attempt some request failed too.                           *)
FailureIsReal ==
  \A j \in Join : deferred[j] = "failed" =>
    /\ request[j]["join"] = "failed"
    /\ "failed" \in {request[j]["refresh"], request[j]["retry"]}
=============================================================================
