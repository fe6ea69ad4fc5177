----------------------------- MODULE ApiService -----------------------------
(***************************************************************************)
(* The gateway process around call_async: the lifespan of the application  *)
(* (main.py), the tokens (auth.py), POST /scrape from its arrival to the   *)
(* HTTP status that leaves, GET /health, and the logger that every request *)
(* sets up anew (utils/logging.py).                                        *)
(*                                                                         *)
(* The queue and the workers are what RpcCall promises: a call ends with   *)
(* one of its answers, and "completed" only if the script ran.             *)
(*                                                                         *)
(* Coroutines share the event loop; a dependency that is a plain function  *)
(* (get_current_client, get_auth_manager) runs in a thread of the pool, at *)
(* the same time as the loop and as other threads.                         *)
(***************************************************************************)
EXTENDS Naturals, FiniteSets

CONSTANTS
  Requests,   \* the calls of POST /scrape, one client each
  MaxCrashes  \* bound: how often the process may die

ASSUME ApiAssumption ==
  /\ IsFiniteSet(Requests)
  /\ MaxCrashes \in Nat

VARIABLES
  phase,     \* where the process is between its start and its end
  handle,    \* handle[p]: the global variable of part p is not None
  probe,     \* GET /health is between clearing and adding the log handlers
  health,    \* what this process answered last to GET /health
  pc,        \* pc[r]: where the client and the handlers of call r are
  token,     \* token[r]: the token its client holds
  raised,    \* raised[r]: the status the endpoint decided on, 0 before that
  answer,    \* answer[r]: how call_async ended (RpcCall)
  ran,       \* the calls whose script succeeded (RpcCall)
  handlers,  \* how many handlers the logger "scraping_system" has
  peak,      \* the most setups of the logger at a time (history)
  crashes

process == <<phase, handle, health>>
calls == <<answer, ran>>
log == <<handlers, peak>>
vars == <<process, probe, pc, token, raised, calls, log, crashes>>

Rpc == INSTANCE RpcCall WITH Calls <- Requests

Parts == {"rpc", "tasks", "monitor"}

\* One after the other, each of them optional.
Starting == {"rpc", "callback_queue", "tasks", "monitor"}
Closing == {"close_rpc", "close_tasks", "close_monitor"}
Phases == {"down", "serving", "draining"} \cup Starting \cup Closing

After == [rpc |-> "callback_queue", callback_queue |-> "tasks", tasks |-> "monitor",
          monitor |-> "serving",
          close_rpc |-> "close_tasks", close_tasks |-> "close_monitor",
          close_monitor |-> "down"]

\* signing, verifying, submitting: between clear() and addHandler() of
\* setup_logging, in a thread for the token, in a thread for get_current_client
\* and on the loop for the endpoint itself.
Steps == {"idle", "signing", "arrived", "verifying", "verified", "submitting",
          "calling", "done"}

Statuses == {200, 401, 403, 408, 422, 500}

TypeOK ==
  /\ phase \in Phases
  /\ handle \in [Parts -> BOOLEAN]
  /\ probe \in BOOLEAN
  /\ health \in {"none", "healthy", "degraded"}
  /\ pc \in [Requests -> Steps]
  /\ token \in [Requests -> {"none", "forged", "fresh", "expired"}]
  /\ raised \in [Requests -> Statuses \cup {0}]
  /\ Rpc!TypeOK
  /\ handlers \in 0..Cardinality(Requests) + 1
  /\ peak \in 0..Cardinality(Requests) + 1
  /\ crashes \in 0..MaxCrashes

Init ==
  /\ phase = "down"
  /\ handle = [p \in Parts |-> FALSE]
  /\ probe = FALSE
  /\ health = "none"
  /\ pc = [r \in Requests |-> "idle"]
  /\ token \in [Requests -> {"none", "forged"}]
  /\ raised = [r \in Requests |-> 0]
  /\ Rpc!Init
  /\ handlers = 0
  /\ peak = 0
  /\ crashes = 0

Goto(r, from, to) ==
  /\ pc[r] = from
  /\ pc' = [pc EXCEPT ![r] = to]

\* Endpoint r ends with a response or an HTTPException of that status.
End(r, from, status) ==
  /\ Goto(r, from, "done")
  /\ raised' = [raised EXCEPT ![r] = status]

InSetup == {r \in Requests : pc[r] \in {"signing", "verifying", "submitting"}}

Setups == Cardinality(InSetup) + IF probe THEN 1 ELSE 0

LoopIsFree == ~probe /\ \A r \in Requests : pc[r] # "submitting"

\* The uvicorn server answers requests, and those in progress until it stops.
Running == phase \in {"serving", "draining"}

----------------------------------------------------------------------------
(* Variants with a plausible mistake: each shows that a property can fail. *)

\* The old handlers are kept.
ClearNothing ==
  /\ UNCHANGED handlers
  /\ peak' = IF Setups + 1 > peak THEN Setups + 1 ELSE peak

\* GET /health looks at the parts that are used for events only.
IsHealthyWithoutRpc == handle["tasks"] /\ handle["monitor"]

\* The body is validated when the endpoint returns.
ValidateLate(r) ==
  /\ End(r, "calling", 422)
  /\ UNCHANGED <<process, probe, token, calls, log, crashes>>

\* The exception handler leaves the status of its response out.
WireWithoutStatus(status) == 200

\* Only a result wakes the handler up.
RespondToResults(r) ==
  /\ answer[r] \in {"completed", "failed", "busy"}
  /\ End(r, "calling", 200)
  /\ UNCHANGED <<process, probe, token, calls, log, crashes>>

----------------------------------------------------------------------------
(* setup_logging *)

\* logger.handlers.clear(), while others may be at the same
ClearHandlers ==
  /\ handlers' = 0
  /\ peak' = IF Setups + 1 > peak THEN Setups + 1 ELSE peak

AddHandler ==
  /\ handlers' = handlers + 1
  /\ UNCHANGED peak

----------------------------------------------------------------------------
(* lifespan *)

Start ==
  /\ phase = "down"
  /\ phase' = "rpc"
  /\ handlers' = 1
  /\ peak' = 1
  /\ UNCHANGED <<handle, health, probe, pc, token, raised, calls, crashes>>

\* Each part has an object before it connects.
Connect ==
  /\ phase \in Starting
  /\ phase' = After[phase]
  /\ handle' = IF phase \in Parts THEN [handle EXCEPT ![phase] = TRUE] ELSE handle
  /\ UNCHANGED <<health, probe, pc, token, raised, calls, log, crashes>>

\* The part is done without; a connection it had opened stays open.
ConnectFails ==
  /\ phase \in Starting
  /\ phase' = IF phase = "rpc" THEN After["callback_queue"] ELSE After[phase]
  /\ handle' = [handle EXCEPT ![IF phase = "callback_queue" THEN "rpc" ELSE phase] = FALSE]
  /\ UNCHANGED <<health, probe, pc, token, raised, calls, log, crashes>>

\* uvicorn: on SIGTERM no request is taken any more,
Stop ==
  /\ phase = "serving"
  /\ phase' = "draining"
  /\ UNCHANGED <<handle, health, probe, pc, token, raised, calls, log, crashes>>

\* and the lifespan goes on after the last one has been answered.
Drained ==
  /\ phase = "draining"
  /\ ~probe
  /\ \A r \in Requests : pc[r] \in {"idle", "done"}
  /\ phase' = "close_rpc"
  /\ UNCHANGED <<handle, health, probe, pc, token, raised, calls, log, crashes>>

\* A process that is gone has no variables and no logger.
Gone ==
  /\ handle' = [p \in Parts |-> FALSE]
  /\ health' = "none"
  /\ probe' = FALSE
  /\ handlers' = 0
  /\ peak' = 0

Disconnect ==
  /\ phase \in Closing
  /\ phase' = After[phase]
  /\ IF phase' = "down" THEN Gone ELSE UNCHANGED <<handle, health, probe, log>>
  /\ UNCHANGED <<pc, token, raised, calls, crashes>>

\* The rest of "finally" is skipped.
DisconnectFails ==
  /\ phase \in Closing
  /\ phase' = "down"
  /\ Gone
  /\ UNCHANGED <<pc, token, raised, calls, crashes>>

Crash ==
  /\ phase # "down"
  /\ crashes < MaxCrashes
  /\ crashes' = crashes + 1
  /\ phase' = "down"
  /\ Gone
  /\ pc' = [r \in Requests |-> IF pc[r] \in {"idle", "signing"} THEN "idle" ELSE "done"]
  /\ Rpc!LoseClients
  /\ UNCHANGED <<token, raised>>

----------------------------------------------------------------------------
(* POST /auth/token *)

\* get_auth_manager, in a thread.  A client asks when it has no good token.
RequestToken(r) ==
  /\ phase = "serving"
  /\ token[r] # "fresh"
  /\ Goto(r, "idle", "signing")
  /\ ClearHandlers
  /\ UNCHANGED <<process, probe, token, raised, calls, crashes>>

\* AuthTokenRequest admits no client id that validate_client_credentials refuses.
CreateAccessToken(r) ==
  /\ Goto(r, "signing", "idle")
  /\ token' = [token EXCEPT ![r] = "fresh"]
  /\ AddHandler
  /\ UNCHANGED <<process, probe, raised, calls, crashes>>

\* jwt_expires_hours go by; after verify_token nobody looks at the token again.
Expire(r) ==
  /\ pc[r] \in {"idle", "arrived", "verifying"}
  /\ token[r] = "fresh"
  /\ token' = [token EXCEPT ![r] = "expired"]
  /\ UNCHANGED <<process, probe, pc, raised, calls, log, crashes>>

----------------------------------------------------------------------------
(* POST /scrape *)

Arrive(r) ==
  /\ phase = "serving"
  /\ Goto(r, "idle", "arrived")
  /\ UNCHANGED <<process, probe, token, raised, calls, log, crashes>>

\* HTTPBearer
NoCredentials(r) ==
  /\ token[r] = "none"
  /\ End(r, "arrived", 403)
  /\ UNCHANGED <<process, probe, token, calls, log, crashes>>

\* get_current_client makes an AuthManager, in a thread.
GetCurrentClient(r) ==
  /\ token[r] # "none"
  /\ Goto(r, "arrived", "verifying")
  /\ ClearHandlers
  /\ UNCHANGED <<process, probe, token, raised, calls, crashes>>

VerifyToken(r) ==
  /\ \/ /\ token[r] = "fresh"
        /\ Goto(r, "verifying", "verified")
        /\ UNCHANGED raised
     \/ /\ token[r] # "fresh"
        /\ End(r, "verifying", 401)
  /\ AddHandler
  /\ UNCHANGED <<process, probe, token, calls, crashes>>

\* FastAPI: the body does not fit ScrapingRequestAPI.
ValidateFails(r) ==
  /\ End(r, "verified", 422)
  /\ UNCHANGED <<process, probe, token, calls, log, crashes>>

SubmitScrapingRequest(r) ==
  /\ LoopIsFree
  /\ Goto(r, "verified", "submitting")
  /\ ClearHandlers
  /\ UNCHANGED <<process, probe, token, raised, calls, crashes>>

CallAsync(r) ==
  /\ handle["rpc"]
  /\ Goto(r, "submitting", "calling")
  /\ Rpc!Submit(r)
  /\ AddHandler
  /\ UNCHANGED <<process, probe, token, raised, crashes>>

\* The HTTPException of status 503 is caught with all the others.
Unavailable(r) ==
  /\ ~handle["rpc"]
  /\ End(r, "submitting", 500)
  /\ AddHandler
  /\ UNCHANGED <<process, probe, token, calls, crashes>>

StatusOfAnswer(a) ==
  CASE a \in {"completed", "failed", "busy"} -> 200
    [] a = "timeout" -> 408
    [] OTHER -> 500

Respond(r) ==
  /\ answer[r] \in Rpc!Answers
  /\ End(r, "calling", StatusOfAnswer(answer[r]))
  /\ UNCHANGED <<process, probe, token, calls, log, crashes>>

\* Queue and workers.
RpcAnswers(r) ==
  /\ \E a \in Rpc!Answers \ {"lost"} : Rpc!Answer(r, a)
  /\ UNCHANGED <<process, probe, pc, token, raised, log, crashes>>

ScriptSucceeds(r) ==
  /\ Rpc!Execute(r)
  /\ UNCHANGED <<process, probe, pc, token, raised, log, crashes>>

\* What leaves: http_exception_handler and the handler of status 500 put the
\* datetime of an ErrorResponse into a JSONResponse, which cannot encode it, so
\* that both raise and uvicorn sends a bare 500.  FastAPI's own 422 is spared.
Wire(status) == IF status \in {200, 422} THEN status ELSE 500

----------------------------------------------------------------------------
(* GET /health *)

HealthCheck ==
  /\ phase = "serving"
  /\ LoopIsFree
  /\ probe' = TRUE
  /\ ClearHandlers
  /\ UNCHANGED <<process, pc, token, raised, calls, crashes>>

\* is_closed of a robust connection is true only after close().
IsHealthy == \A p \in Parts : handle[p]

Report ==
  /\ probe
  /\ probe' = FALSE
  /\ health' = IF IsHealthy THEN "healthy" ELSE "degraded"
  /\ AddHandler
  /\ UNCHANGED <<phase, handle, pc, token, raised, calls, crashes>>

----------------------------------------------------------------------------

Lifespan ==
  Start \/ Connect \/ ConnectFails \/ Stop \/ Drained \/ Disconnect \/ DisconnectFails

\* What threads and coroutines of call r do once it has arrived.
Handle(r) ==
  \/ CreateAccessToken(r)
  \/ NoCredentials(r) \/ GetCurrentClient(r) \/ VerifyToken(r) \/ ValidateFails(r)
  \/ SubmitScrapingRequest(r) \/ CallAsync(r) \/ Unavailable(r) \/ Respond(r)

Client(r) == RequestToken(r) \/ Expire(r) \/ Arrive(r)

Next ==
  \/ Lifespan \/ Crash \/ HealthCheck \/ Report
  \/ \E r \in Requests : Client(r) \/ Handle(r) \/ RpcAnswers(r) \/ ScriptSucceeds(r)

Spec == Init /\ [][Next]_vars

\* The loop and the pool run what is ready; a call ends (Rpc!EveryCallEnds, which
\* ScrapingSystem has); uvicorn and the lifespan go on.
Fairness ==
  /\ WF_vars(Drained) /\ WF_vars(Disconnect) /\ WF_vars(Report)
  /\ \A r \in Requests : WF_vars(Handle(r)) /\ WF_vars(RpcAnswers(r))

FairSpec == Spec /\ Fairness

----------------------------------------------------------------------------
(* Properties *)

\* A request that was turned away for its token or its body (401, 403, 422) was
\* never handed to the queue, and no script runs for it later.
RefusedNeverRuns ==
  \A r \in Requests : raised[r] \in {401, 403, 422} => answer[r] = "new" /\ r \notin ran

\* Once a process has called itself healthy, no request it admits is refused
\* for want of the RPC client: parts are lost only at the start.
HealthyThenServed ==
  [][\A r \in Requests :
       health = "healthy" /\ pc[r] = "submitting" /\ pc'[r] = "done" => phase' = "down"]_vars

\* "Remove the existing handlers (against duplicates)", says setup_logging.  When
\* no setup is in progress the logger has a handler, and more than one only if
\* setups of several threads have overlapped: their lines appear that many times
\* until the next request.
HandlersStayFew ==
  Running /\ Setups = 0 => handlers \in 1..peak

\* Requests are handled only while the server runs.
QuietOutside ==
  ~Running => ~probe /\ \A r \in Requests : pc[r] \in {"idle", "done"}

\* Each setup in progress owes the logger a handler.
HandlersAreOwed ==
  IF phase = "down" THEN handlers = 0 /\ peak = 0
                    ELSE handlers + Setups \in 1..peak

\* call_async is called and answered where the endpoint awaits it.
CallsFitSteps ==
  \A r \in Requests :
    /\ pc[r] \notin {"calling", "done"} => answer[r] = "new"
    /\ pc[r] = "calling" => answer[r] # "new"
    /\ answer[r] = "open" => pc[r] = "calling"
    /\ raised[r] # 0 => pc[r] = "done"
    /\ raised[r] = 200 => answer[r] \in {"completed", "failed", "busy"}
    /\ answer[r] = "completed" => r \in ran
    /\ r \in ran => answer[r] # "new"

\* The conjunction that a step preserves (ApiService_proofs).
IInv ==
  /\ TypeOK
  /\ RefusedNeverRuns
  /\ QuietOutside
  /\ HandlersAreOwed
  /\ CallsFitSteps

\* What the client of call r has seen.
ClientView ==
  [r \in Requests |->
     CASE pc[r] \in {"idle", "signing"} -> "new"
       [] pc[r] = "done" -> IF raised[r] = 0 THEN "lost"
                            ELSE IF Wire(raised[r]) = 200 THEN answer[r] ELSE "error"
       [] OTHER -> "open"]

View == INSTANCE RpcCall WITH Calls <- Requests, answer <- ClientView

\* With the tokens, the validation, the mapping of errors and the lifespan around
\* it, the endpoint still keeps the promise that call_async gives it: one final
\* answer, "completed" only for a script that ran.
ImplementsRpcCall == View!Spec

\* A gateway that is told to stop does: it waits for calls, never for ever.
StopEnds == phase = "draining" ~> phase = "down"

\* "Client gets HTTP 408 Timeout" (diagram.md:46), and 403 without credentials
\* (tests/test_api.py:244): the status an endpoint raises is what its client gets.
ErrorsKeepTheirStatus ==
  \A r \in Requests : raised[r] # 0 => Wire(raised[r]) = raised[r]
============================================================================
