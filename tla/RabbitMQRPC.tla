---------------------------- MODULE RabbitMQRPC ----------------------------
(***************************************************************************)
(* The gateway's half of the RPC over RabbitMQ: class RabbitMQRPC of       *)
(* src/src/queue/rabbitmq_rpc.py.  Coroutines of one asyncio loop share    *)
(* the dictionary "futures"; a coroutine is interrupted only at an await,  *)
(* so each action below is the code between two awaits.                    *)
(*                                                                         *)
(* call_async registers a future, awaits the publish, then awaits the      *)
(* future in asyncio.wait_for.  The timer of wait_for only releases the    *)
(* waiter: the caller resumes in a later turn of the loop, and a reply     *)
(* handled in between still counts.  If none came, wait_for cancels the    *)
(* future and the caller needs one more turn before it drops the entry.    *)
(*                                                                         *)
(* The worker is the environment here: it may answer a queued request any  *)
(* number of times, late or not at all.  ScrapingSystem replaces it by the *)
(* real one.                                                               *)
(***************************************************************************)
EXTENDS Naturals, Sequences

CONSTANTS
  Calls,             \* correlation ids: one uuid4 per call of call_async
  MaxGatewayFaults,  \* bound: connection losses and crashes of the gateway
  MaxQueued          \* bound: replies the environment keeps in the queue

ASSUME GatewayAssumption == MaxGatewayFaults \in Nat /\ MaxQueued \in Nat

VARIABLES
  caller,         \* caller[c]: where the coroutine call_async of c stands
  futures,        \* self.futures: the ids a reply can still be matched with
  future,         \* future[c]: the asyncio.Future of c
  outcome,        \* outcome[c]: what call_async returned or raised
  task,           \* task[c]: the request message of c in the task queue
  callbackQueue,  \* the replies waiting in the exclusive callback queue
  connected,      \* the connection, and with it the callback queue, exists
  gatewayFaults   \* losses and crashes so far

vars == <<caller, futures, future, outcome, task, callbackQueue, connected,
          gatewayFaults>>

Results == {"completed", "failed", "busy"}      \* parsed ScrapingResponse
Bodies == Results \cup {"malformed"}            \* malformed: cannot be parsed
Replies == [id : Calls, body : Bodies]

\* Awaiting the publish, then the future; "released" and "cancelling" are the
\* two intermediate turns of wait_for after its timer fired.
InCall == {"publishing", "confirming", "waiting", "released", "cancelling"}
CallerStates == {"idle", "done", "lost"} \cup InCall

Unresolved == {"none", "pending"}
FutureStates == Unresolved \cup Results \cup {"exception", "cancelled"}

TypeOK ==
  /\ caller \in [Calls -> CallerStates]
  /\ futures \subseteq Calls
  /\ future \in [Calls -> FutureStates]
  /\ outcome \in [Calls -> {"none", "timeout", "error"} \cup Results]
  /\ task \in [Calls -> {"absent", "ready", "unacked", "acked", "rejected"}]
  /\ callbackQueue \in Seq(Replies)
  /\ connected \in BOOLEAN
  /\ gatewayFaults \in 0..MaxGatewayFaults

\* connect() and setup_callback_queue() have succeeded: without them the
\* gateway keeps no RabbitMQRPC object and call_async is never reached.
Init ==
  /\ caller = [c \in Calls |-> "idle"]
  /\ futures = {}
  /\ future = [c \in Calls |-> "none"]
  /\ outcome = [c \in Calls |-> "none"]
  /\ task = [c \in Calls |-> "absent"]
  /\ callbackQueue = <<>>
  /\ connected = TRUE
  /\ gatewayFaults = 0

----------------------------------------------------------------------------
(* Variants with a plausible mistake: each shows that a property can fail. *)

\* The future is not registered before the request is on its way.
CallAsyncUnregistered(c) ==
  /\ caller[c] = "idle"
  /\ caller' = [caller EXCEPT ![c] = "publishing"]
  /\ future' = [future EXCEPT ![c] = "pending"]
  /\ UNCHANGED <<futures, outcome, task, callbackQueue, connected, gatewayFaults>>

\* await future, without wait_for.
TimerNeverFires(c) == FALSE /\ UNCHANGED vars

TimesOutFrom(c, states) ==
  /\ caller[c] \in states
  /\ caller' = [caller EXCEPT ![c] = "done"]
  /\ outcome' = [outcome EXCEPT ![c] = "timeout"]
  /\ UNCHANGED <<future, task, callbackQueue, connected, gatewayFaults>>

\* The entry of a timed-out call stays in self.futures.
TimesOutKeepsEntry(c) == TimesOutFrom(c, {"cancelling"}) /\ UNCHANGED futures

\* The timer raises at once, whatever the future holds by now.
TimesOutAtOnce(c) ==
  TimesOutFrom(c, {"released", "cancelling"}) /\ futures' = futures \ {c}

\* The timer of a call that ended is not disarmed.
TimesOutLate(c) ==
  TimesOutFrom(c, {"cancelling", "done"}) /\ futures' = futures \ {c}

\* The error of json.loads is not turned into an exception of the future.
ResolveUnparsed(body) == body

TakeResponse(c, value) ==
  /\ connected
  /\ callbackQueue # <<>>
  /\ c \in futures
  /\ futures' = futures \ {c}
  /\ future' = [future EXCEPT ![c] = value]
  /\ callbackQueue' = Tail(callbackQueue)
  /\ UNCHANGED <<caller, outcome, task, connected, gatewayFaults>>

\* "if not future.done()" is missing.
OnResponseUnchecked ==
  TakeResponse(Head(callbackQueue).id, Head(callbackQueue).body)

\* Replies are matched with any waiting call instead of their correlation id.
OnResponseAny == \E c \in Calls : TakeResponse(c, Head(callbackQueue).body)

----------------------------------------------------------------------------
(* call_async *)

\* Up to "await publish": the future is registered before the message is sent.
CallAsync(c) ==
  /\ caller[c] = "idle"
  /\ caller' = [caller EXCEPT ![c] = "publishing"]
  /\ futures' = futures \cup {c}
  /\ future' = [future EXCEPT ![c] = "pending"]
  /\ UNCHANGED <<outcome, task, callbackQueue, connected, gatewayFaults>>

\* The broker takes the persistent message; the caller does not know it yet.
MessageQueued(c) ==
  /\ caller[c] = "publishing"
  /\ connected
  /\ caller' = [caller EXCEPT ![c] = "confirming"]
  /\ task' = [task EXCEPT ![c] = "ready"]
  /\ UNCHANGED <<futures, future, outcome, callbackQueue, connected, gatewayFaults>>

\* The confirmation arrives and the caller enters wait_for.
PublishConfirmed(c) ==
  /\ caller[c] = "confirming"
  /\ connected
  /\ caller' = [caller EXCEPT ![c] = "waiting"]
  /\ UNCHANGED <<futures, future, outcome, task, callbackQueue, connected,
                 gatewayFaults>>

\* The publish raises: it stands outside the try, so the exception leaves
\* call_async with the future still registered.
PublishFails(c) ==
  /\ caller[c] \in {"publishing", "confirming"}
  /\ ~connected
  /\ caller' = [caller EXCEPT ![c] = "done"]
  /\ outcome' = [outcome EXCEPT ![c] = "error"]
  /\ UNCHANGED <<futures, future, task, callbackQueue, connected, gatewayFaults>>

TimerFires(c) ==
  /\ caller[c] = "waiting"
  /\ future[c] = "pending"
  /\ caller' = [caller EXCEPT ![c] = "released"]
  /\ UNCHANGED <<futures, future, outcome, task, callbackQueue, connected,
                 gatewayFaults>>

\* wait_for finds the future done, before or after its timer fired.
ReturnResult(c) ==
  /\ caller[c] \in {"waiting", "released"}
  /\ future[c] \in Results
  /\ caller' = [caller EXCEPT ![c] = "done"]
  /\ outcome' = [outcome EXCEPT ![c] = future[c]]
  /\ UNCHANGED <<futures, future, task, callbackQueue, connected, gatewayFaults>>

\* ... or done with an exception: "except Exception" drops the entry.
RaiseResult(c) ==
  /\ caller[c] \in {"waiting", "released"}
  /\ future[c] = "exception"
  /\ caller' = [caller EXCEPT ![c] = "done"]
  /\ outcome' = [outcome EXCEPT ![c] = "error"]
  /\ futures' = futures \ {c}
  /\ UNCHANGED <<future, task, callbackQueue, connected, gatewayFaults>>

CancelFuture(c) ==
  /\ caller[c] = "released"
  /\ future[c] = "pending"
  /\ caller' = [caller EXCEPT ![c] = "cancelling"]
  /\ future' = [future EXCEPT ![c] = "cancelled"]
  /\ UNCHANGED <<futures, outcome, task, callbackQueue, connected, gatewayFaults>>

\* "except asyncio.TimeoutError": the entry is dropped and TimeoutError raised.
TimesOut(c) ==
  /\ caller[c] = "cancelling"
  /\ caller' = [caller EXCEPT ![c] = "done"]
  /\ outcome' = [outcome EXCEPT ![c] = "timeout"]
  /\ futures' = futures \ {c}
  /\ UNCHANGED <<future, task, callbackQueue, connected, gatewayFaults>>

----------------------------------------------------------------------------
(* _on_response: runs to its end without an await *)

Resolve(body) == IF body = "malformed" THEN "exception" ELSE body

OnResponse ==
  /\ connected
  /\ callbackQueue # <<>>
  /\ LET c == Head(callbackQueue).id
         settled == c \in futures /\ future[c] = "pending"
     IN /\ futures' = futures \ {c}
        /\ future' = IF settled
                       THEN [future EXCEPT ![c] = Resolve(Head(callbackQueue).body)]
                       ELSE future
  /\ callbackQueue' = Tail(callbackQueue)
  /\ UNCHANGED <<caller, outcome, task, connected, gatewayFaults>>

----------------------------------------------------------------------------
(* The connection and the process *)

\* The exclusive queue dies with the connection.
LoseConnection ==
  /\ connected
  /\ gatewayFaults < MaxGatewayFaults
  /\ connected' = FALSE
  /\ gatewayFaults' = gatewayFaults + 1
  /\ UNCHANGED <<caller, futures, future, outcome, task, callbackQueue>>

\* The robust connection declares the queue anew, empty: what was in it, and
\* what was sent to it meanwhile, is dropped.  By then every publish that was
\* waiting for its confirmation on the old channel has raised.
Reconnect ==
  /\ ~connected
  /\ \A c \in Calls : caller[c] # "confirming"
  /\ connected' = TRUE
  /\ callbackQueue' = <<>>
  /\ UNCHANGED <<caller, futures, future, outcome, task, gatewayFaults>>

\* The gateway dies and its container is restarted: no future, a new callback
\* queue, and the clients of its calls see their connections break.  A late
\* reply to such a call would find no queue; here it finds no future.
GatewayCrash ==
  /\ gatewayFaults < MaxGatewayFaults
  /\ caller' = [c \in Calls |-> IF caller[c] = "idle" THEN "idle" ELSE "lost"]
  /\ futures' = {}
  /\ callbackQueue' = <<>>
  /\ connected' = TRUE
  /\ gatewayFaults' = gatewayFaults + 1
  /\ UNCHANGED <<future, outcome, task>>

\* Environment: some worker answers a request that reached the queue.
WorkerReplies(c, body) ==
  /\ task[c] # "absent"
  /\ Len(callbackQueue) < MaxQueued
  /\ callbackQueue' = Append(callbackQueue, [id |-> c, body |-> body])
  /\ UNCHANGED <<caller, futures, future, outcome, task, connected, gatewayFaults>>

----------------------------------------------------------------------------

CallerStep(c) ==
  \/ MessageQueued(c)
  \/ PublishConfirmed(c)
  \/ PublishFails(c)
  \/ TimerFires(c)
  \/ ReturnResult(c)
  \/ RaiseResult(c)
  \/ CancelFuture(c)
  \/ TimesOut(c)

GatewayNext ==
  \/ \E c \in Calls : CallAsync(c) \/ CallerStep(c)
  \/ OnResponse
  \/ LoseConnection
  \/ Reconnect
  \/ GatewayCrash

Next ==
  \/ GatewayNext
  \/ \E c \in Calls, body \in Bodies : WorkerReplies(c, body)

Spec == Init /\ [][Next]_vars

----------------------------------------------------------------------------
(* Properties *)

\* A caller that still waits for its answer can be found by a reply: the entry
\* in self.futures is dropped by nobody else while the future is pending.
WaitingIsRegistered ==
  \A c \in Calls :
    caller[c] \in InCall /\ future[c] = "pending" => c \in futures

\* self.futures does not grow with finished calls: whichever way late,
\* duplicated or malformed replies and the steps of a timeout interleave, the
\* entry of a finished call is gone - except when the publish itself raised.
OnlyFailedPublishLeaks ==
  \A c \in futures :
    /\ caller[c] \notin {"idle", "lost"}
    /\ caller[c] = "done" => outcome[c] = "error" /\ future[c] = "pending"

\* A reply that resolved the future is never thrown away for a timeout: the
\* caller that timed out has a cancelled future, the one that was answered
\* returns exactly the answer in its future.
NoResultDiscarded ==
  \A c \in Calls :
    /\ outcome[c] = "timeout" => future[c] = "cancelled"
    /\ outcome[c] \in Results => future[c] = outcome[c]

\* The future, the outcome and the entry in self.futures follow the coroutine:
\* a call is answered once it ended and not before, a pending future belongs to
\* a caller that waits for it, and an entry means exactly that nobody has
\* resolved the future yet (or that wait_for cancelled it a moment ago).
FutureFollowsCaller ==
  \A c \in Calls :
    /\ caller[c] = "idle" => future[c] = "none"
    /\ caller[c] \in InCall \cup {"idle"} => outcome[c] = "none"
    /\ caller[c] = "done" => outcome[c] # "none"
    /\ caller[c] \in InCall \ {"cancelling"} => future[c] \notin {"none", "cancelled"}
    /\ caller[c] = "cancelling" => future[c] = "cancelled"
    /\ c \in futures =>
         \/ caller[c] \in InCall /\ future[c] = "pending"
         \/ caller[c] = "cancelling"
         \/ caller[c] = "done" /\ outcome[c] = "error" /\ future[c] = "pending"

\* The conjunction that a step preserves (RabbitMQRPC_proofs).
IInv ==
  /\ TypeOK
  /\ FutureFollowsCaller
  /\ WaitingIsRegistered
  /\ OnlyFailedPublishLeaks
  /\ NoResultDiscarded

\* A future is resolved once: a second reply, or the cancellation by wait_for,
\* never touches a future that is done (asyncio raises InvalidStateError).
ResolvedOnce ==
  [][\A c \in Calls : future[c] \notin Unresolved => future'[c] = future[c]]_vars

\* What call_async returned or raised is final, and it comes only from a call
\* that was running.
OutcomeFinal ==
  [][\A c \in Calls :
       outcome'[c] # outcome[c] => outcome[c] = "none" /\ caller[c] \in InCall]_vars
============================================================================
