--------------------------- MODULE ScrapingWorker ---------------------------
(***************************************************************************)
(* The workers' half of the RPC and the broker's task queue between the    *)
(* two: RabbitMQWorker._process_message, ScrapingWorker._handle_task,      *)
(* ScriptExecutor.execute_scraping_request and ProcessManager.execute_     *)
(* script, one coroutine ("attempt") per delivery of a request.            *)
(*                                                                         *)
(* A request is delivered again when the connection (or the worker) that   *)
(* held it is lost before its acknowledgement.  The coroutine of a lost    *)
(* channel is cancelled or lives on, as the client library's timing has    *)
(* it: a model must allow both.  When it is cancelled inside execute_      *)
(* script, "finally" forgets the child process and nothing terminates it.  *)
(*                                                                         *)
(* Requests always parse: the gateway builds them from a validated model.  *)
(***************************************************************************)
EXTENDS Naturals, Sequences, FiniteSets

CONSTANTS
  Calls,               \* correlation ids of the requests
  Workers,             \* worker processes consuming the task queue
  NoWorker,            \* at[h] of an attempt that does not exist yet
  MaxConcurrentTasks,  \* settings.max_concurrent_tasks
  FaultKinds,          \* the faults that may happen
  MaxFaults            \* bound: how many faults may happen

Faults == {"connection_lost", "worker_crash", "publish_failed"}

ASSUME WorkerAssumption ==
  /\ NoWorker \notin Workers
  /\ MaxConcurrentTasks \in Nat \ {0}
  /\ FaultKinds \subseteq Faults
  /\ MaxFaults \in Nat

VARIABLES
  task,           \* task[c]: the request message of c at the broker
  attempts,       \* attempts[c]: how often it has been delivered
  at,             \* at[h]: the worker that runs attempt h
  consuming,      \* consuming[w]: the broker has a consumer for worker w
  pc,             \* pc[h]: where the coroutine of attempt h stands
  resp,           \* resp[h]: the status of its ScrapingResponse
  child,          \* child[h]: the script's process
  replied,        \* calls for which some reply has been published (history)
  callbackQueue,  \* replies on their way to the gateway
  faults          \* faults so far

workerVars == <<attempts, at, consuming, pc, resp, child, replied, faults>>
vars == <<task, attempts, at, consuming, pc, resp, child, replied, callbackQueue,
          faults>>

\* A delivery needs a publish or a fault before it, so no request is delivered
\* more than MaxFaults + 1 times.
Attempts == 1..(MaxFaults + 1)
Handlers == Calls \X Attempts

Results == {"completed", "failed", "busy"}
\* publishing: of the completion event; apologising: of the error reply
Steps == {"preparing", "running", "terminating", "publishing", "replying",
          "apologising", "acking"}

TypeOK ==
  /\ task \in [Calls -> {"absent", "ready", "unacked", "acked", "rejected"}]
  /\ attempts \in [Calls -> 0..(MaxFaults + 1)]
  /\ at \in [Handlers -> Workers \cup {NoWorker}]
  /\ consuming \in [Workers -> BOOLEAN]
  /\ pc \in [Handlers -> {"none", "done", "cancelled"} \cup Steps]
  /\ resp \in [Handlers -> {"none"} \cup Results]
  /\ child \in [Handlers -> {"none", "running", "succeeded", "failed", "killed"}]
  /\ replied \subseteq Calls
  /\ callbackQueue \in Seq([id : Calls, body : Results])
  /\ faults \in 0..MaxFaults

WorkerInit ==
  /\ attempts = [c \in Calls |-> 0]
  /\ at = [h \in Handlers |-> NoWorker]
  /\ consuming = [w \in Workers |-> TRUE]
  /\ pc = [h \in Handlers |-> "none"]
  /\ resp = [h \in Handlers |-> "none"]
  /\ child = [h \in Handlers |-> "none"]
  /\ replied = {}
  /\ faults = 0

Init ==
  /\ WorkerInit
  /\ task = [c \in Calls |-> "absent"]
  /\ callbackQueue = <<>>

----------------------------------------------------------------------------

\* The attempt that holds the unacknowledged message of its call.
Current(h) == task[h[1]] = "unacked" /\ attempts[h[1]] = h[2]

Holds(w) == {h \in Handlers : at[h] = w /\ Current(h)}

\* The entries of active_processes of worker w (get_active_process_count).
ActiveProcesses(w) ==
  {h \in Handlers : at[h] = w /\ pc[h] \in {"running", "terminating"}}

Send(c, body) ==
  /\ callbackQueue' = Append(callbackQueue, [id |-> c, body |-> body])
  /\ replied' = replied \cup {c}

Fault(kind) ==
  /\ kind \in FaultKinds
  /\ faults < MaxFaults
  /\ faults' = faults + 1

----------------------------------------------------------------------------
(* Variants with a plausible mistake: each shows that a property can fail. *)

\* One task too few counts as full.
IsBusyOffByOne(w) == Cardinality(ActiveProcesses(w)) >= MaxConcurrentTasks - 1

\* No prefetch limit.
DeliverUnlimited(w, c, step, response) ==
  LET h == <<c, attempts[c] + 1>>
  IN /\ task[c] = "ready"
     /\ attempts[c] <= MaxFaults
     /\ consuming[w]
     /\ task' = [task EXCEPT ![c] = "unacked"]
     /\ attempts' = [attempts EXCEPT ![c] = @ + 1]
     /\ at' = [at EXCEPT ![h] = w]
     /\ pc' = [pc EXCEPT ![h] = step]
     /\ resp' = [resp EXCEPT ![h] = response]
     /\ UNCHANGED <<consuming, child, replied, callbackQueue, faults>>

\* The except branch returns no response.
PrepareFailsSilently(h) ==
  /\ pc[h] = "preparing"
  /\ pc' = [pc EXCEPT ![h] = "publishing"]
  /\ UNCHANGED <<task, attempts, at, consuming, resp, child, replied, callbackQueue,
                 faults>>

\* The return code is not looked at.
CollectAnyResult(h) ==
  /\ pc[h] = "running"
  /\ child[h] \in {"succeeded", "failed"}
  /\ pc' = [pc EXCEPT ![h] = "publishing"]
  /\ resp' = [resp EXCEPT ![h] = "completed"]
  /\ UNCHANGED <<task, attempts, at, consuming, child, replied, callbackQueue, faults>>

\* communicate() without wait_for.
ProcessNeverTimesOut(h) == FALSE /\ UNCHANGED vars

\* SIGTERM is not followed by SIGKILL.
ProcessNotKilled(h) ==
  /\ pc[h] = "terminating"
  /\ pc' = [pc EXCEPT ![h] = "publishing"]
  /\ resp' = [resp EXCEPT ![h] = "failed"]
  /\ UNCHANGED <<task, attempts, at, consuming, child, replied, callbackQueue, faults>>

\* The error of the error reply is swallowed: the request is acknowledged.
ApologyFailsSilently(h) ==
  /\ pc[h] = "apologising"
  /\ Fault("publish_failed")
  /\ Send(h[1], "failed") \/ UNCHANGED <<callbackQueue, replied>>
  /\ pc' = [pc EXCEPT ![h] = "done"]
  /\ task' = [task EXCEPT ![h[1]] = IF Current(h) THEN "acked" ELSE @]
  /\ UNCHANGED <<attempts, at, consuming, resp, child>>

\* no_ack = True: what the channel held is gone.
RequeueNothing(w) == UNCHANGED task

\* Acknowledgements are forgotten with the channel they were sent on.
RequeueEverything(w) ==
  task' = [c \in Calls |->
             IF \E h \in Handlers : at[h] = w /\ h[1] = c THEN "ready" ELSE task[c]]

----------------------------------------------------------------------------
(* _process_message, _handle_task *)

IsBusy(w) == Cardinality(ActiveProcesses(w)) >= MaxConcurrentTasks

\* prefetch_count = 1: the broker sends a worker no request while its channel
\* holds an unacknowledged one.  is_busy() is evaluated with the delivery.
Deliver(w, c, step, response) ==
  LET h == <<c, attempts[c] + 1>>
  IN /\ task[c] = "ready"
     /\ attempts[c] <= MaxFaults
     /\ consuming[w]
     /\ Holds(w) = {}
     /\ task' = [task EXCEPT ![c] = "unacked"]
     /\ attempts' = [attempts EXCEPT ![c] = @ + 1]
     /\ at' = [at EXCEPT ![h] = w]
     /\ pc' = [pc EXCEPT ![h] = step]
     /\ resp' = [resp EXCEPT ![h] = response]
     /\ UNCHANGED <<consuming, child, replied, callbackQueue, faults>>

Accept(w, c) == ~IsBusy(w) /\ Deliver(w, c, "preparing", "none")

Refuse(w, c) == IsBusy(w) /\ Deliver(w, c, "replying", "busy")

\* get_script, validate_script_execution or the start of the process fails:
\* execute_scraping_request turns every exception into a failed response.
PrepareFails(h) ==
  /\ pc[h] = "preparing"
  /\ pc' = [pc EXCEPT ![h] = "publishing"]
  /\ resp' = [resp EXCEPT ![h] = "failed"]
  /\ UNCHANGED <<task, attempts, at, consuming, child, replied, callbackQueue, faults>>

StartProcess(h) ==
  /\ pc[h] = "preparing"
  /\ pc' = [pc EXCEPT ![h] = "running"]
  /\ child' = [child EXCEPT ![h] = "running"]
  /\ UNCHANGED <<task, attempts, at, consuming, resp, replied, callbackQueue, faults>>

\* The script ends: exit code 0 with any output is a success.  Its own limits
\* and the memory monitor may end it too.  It need not end at all.
ProcessExits(h, status) ==
  /\ child[h] = "running"
  /\ child' = [child EXCEPT ![h] = status]
  /\ UNCHANGED <<task, attempts, at, consuming, pc, resp, replied, callbackQueue, faults>>

\* communicate() returns and the return code decides.
CollectResult(h) ==
  /\ pc[h] = "running"
  /\ child[h] \in {"succeeded", "failed"}
  /\ pc' = [pc EXCEPT ![h] = "publishing"]
  /\ resp' = [resp EXCEPT ![h] =
                IF child[h] = "succeeded" THEN "completed" ELSE "failed"]
  /\ UNCHANGED <<task, attempts, at, consuming, child, replied, callbackQueue, faults>>

\* communicate() takes longer than request.timeout: SIGTERM, then sleep.  The
\* script may have ended already and left its pipes open to its own children.
ProcessTimeout(h) ==
  /\ pc[h] = "running"
  /\ pc' = [pc EXCEPT ![h] = "terminating"]
  /\ UNCHANGED <<task, attempts, at, consuming, resp, child, replied, callbackQueue, faults>>

\* After the sleep SIGKILL goes to a process that still runs.
ProcessKilled(h) ==
  /\ pc[h] = "terminating"
  /\ pc' = [pc EXCEPT ![h] = "publishing"]
  /\ resp' = [resp EXCEPT ![h] = "failed"]
  /\ child' = [child EXCEPT ![h] = IF @ = "running" THEN "killed" ELSE @]
  /\ UNCHANGED <<task, attempts, at, consuming, replied, callbackQueue, faults>>

EventPublished(h) ==
  /\ pc[h] = "publishing"
  /\ pc' = [pc EXCEPT ![h] = "replying"]
  /\ UNCHANGED <<task, attempts, at, consuming, resp, child, replied, callbackQueue, faults>>

\* publish_task_completion raises inside the try of _handle_task: whatever the
\* script did, the response becomes a failed one.
EventFails(h) ==
  /\ pc[h] = "publishing"
  /\ Fault("publish_failed")
  /\ pc' = [pc EXCEPT ![h] = "replying"]
  /\ resp' = [resp EXCEPT ![h] = "failed"]
  /\ UNCHANGED <<task, attempts, at, consuming, child, replied, callbackQueue>>

Reply(h) ==
  /\ pc[h] = "replying"
  /\ Send(h[1], resp[h])
  /\ pc' = [pc EXCEPT ![h] = "acking"]
  /\ UNCHANGED <<task, attempts, at, consuming, resp, child, faults>>

\* _send_response raises, before or after the broker took the reply.
ReplyFails(h) ==
  /\ pc[h] = "replying"
  /\ Fault("publish_failed")
  /\ Send(h[1], resp[h]) \/ UNCHANGED <<callbackQueue, replied>>
  /\ pc' = [pc EXCEPT ![h] = "apologising"]
  /\ resp' = [resp EXCEPT ![h] = "failed"]
  /\ UNCHANGED <<task, attempts, at, consuming, child>>

\* The error reply of the except branch.
Apologise(h) ==
  /\ pc[h] = "apologising"
  /\ Send(h[1], "failed")
  /\ pc' = [pc EXCEPT ![h] = "acking"]
  /\ UNCHANGED <<task, attempts, at, consuming, resp, child, faults>>

\* It raises too: message.process() rejects the request without requeueing it.
ApologyFails(h) ==
  /\ pc[h] = "apologising"
  /\ Fault("publish_failed")
  /\ Send(h[1], "failed") \/ UNCHANGED <<callbackQueue, replied>>
  /\ pc' = [pc EXCEPT ![h] = "done"]
  /\ task' = [task EXCEPT ![h[1]] = IF Current(h) THEN "rejected" ELSE @]
  /\ UNCHANGED <<attempts, at, consuming, resp, child>>

\* message.process() acknowledges; on a channel that is gone it cannot.
Acknowledge(h) ==
  /\ pc[h] = "acking"
  /\ pc' = [pc EXCEPT ![h] = "done"]
  /\ task' = [task EXCEPT ![h[1]] = IF Current(h) THEN "acked" ELSE @]
  /\ UNCHANGED <<attempts, at, consuming, resp, child, replied, callbackQueue, faults>>

----------------------------------------------------------------------------
(* The connection and the process *)

\* Every request the worker's channel held goes back to the queue.
Requeue(w) ==
  task' = [c \in Calls |->
             IF \E h \in Holds(w) : h[1] = c THEN "ready" ELSE task[c]]

\* The coroutine of the message the channel held is cancelled (its child process
\* runs on) or survives.  The robust connection comes back with its consumer -
\* unless the 30-second check of the main loop finds it closed first: reconnect
\* opens a connection on which nobody calls start_consuming.
LoseConnection(w) ==
  /\ Fault("connection_lost")
  /\ Requeue(w)
  /\ \/ pc' = [h \in Handlers |-> IF h \in Holds(w) THEN "cancelled" ELSE pc[h]]
     \/ UNCHANGED pc
  /\ consuming' = [consuming EXCEPT ![w] = FALSE] \/ UNCHANGED consuming
  /\ UNCHANGED <<attempts, at, resp, child, replied, callbackQueue>>

\* The container dies with all its processes and is restarted.
WorkerCrash(w) ==
  /\ Fault("worker_crash")
  /\ Requeue(w)
  /\ pc' = [h \in Handlers |->
              IF at[h] = w /\ pc[h] \in Steps THEN "cancelled" ELSE pc[h]]
  /\ child' = [h \in Handlers |->
                 IF at[h] = w /\ child[h] = "running" THEN "killed" ELSE child[h]]
  /\ consuming' = [consuming EXCEPT ![w] = TRUE]
  /\ UNCHANGED <<attempts, at, resp, replied, callbackQueue>>

----------------------------------------------------------------------------

HandlerStep(h) ==
  \/ PrepareFails(h)
  \/ StartProcess(h)
  \/ CollectResult(h)
  \/ ProcessTimeout(h)
  \/ ProcessKilled(h)
  \/ EventPublished(h)
  \/ EventFails(h)
  \/ Reply(h)
  \/ ReplyFails(h)
  \/ Apologise(h)
  \/ ApologyFails(h)
  \/ Acknowledge(h)

WorkerNext ==
  \/ \E w \in Workers, c \in Calls : Accept(w, c) \/ Refuse(w, c)
  \/ \E h \in Handlers : HandlerStep(h)
  \/ \E h \in Handlers, status \in {"succeeded", "failed"} : ProcessExits(h, status)
  \/ \E w \in Workers : LoseConnection(w) \/ WorkerCrash(w)

\* Environment: the gateway publishes a request and takes the replies.
PublishRequest(c) ==
  /\ task[c] = "absent"
  /\ task' = [task EXCEPT ![c] = "ready"]
  /\ UNCHANGED <<workerVars, callbackQueue>>

TakeReply ==
  /\ callbackQueue # <<>>
  /\ callbackQueue' = Tail(callbackQueue)
  /\ UNCHANGED <<workerVars, task>>

Next ==
  \/ WorkerNext
  \/ \E c \in Calls : PublishRequest(c)
  \/ TakeReply

Spec == Init /\ [][Next]_vars

----------------------------------------------------------------------------
(* Properties *)

\* A request the broker counts as delivered is never stranded: the coroutine
\* of its latest delivery is alive and has the acknowledgement before it.
DeliveredIsHandled ==
  \A c \in Calls :
    task[c] = "unacked" => attempts[c] > 0 /\ pc[<<c, attempts[c]>>] \in Steps

\* The broker forgets a request only after a reply to it was published, except
\* for one whose reply and error reply both failed, which is rejected.
AckedWasAnswered == \A c \in Calls : task[c] = "acked" => c \in replied

\* Whatever duplicates and error replies are on their way, "completed" is said
\* of a request only when a run of its own script has succeeded.
CompletedReplyIsTrue ==
  \A i \in 1..Len(callbackQueue) :
    callbackQueue[i].body = "completed" =>
      \E n \in Attempts : child[<<callbackQueue[i].id, n>>] = "succeeded"

\* "Maximum concurrent tasks per worker" (src/src/config/settings.py:82): the
\* live script processes of a worker stay within max_concurrent_tasks.
ChildLimit ==
  \A w \in Workers :
    Cardinality({h \in Handlers : at[h] = w /\ child[h] = "running"})
      <= MaxConcurrentTasks

\* A response says "completed" only in an attempt whose own script succeeded.
ResponseIsTrue ==
  \A h \in Handlers : resp[h] = "completed" => child[h] = "succeeded"

\* Attempts are made one by one: the numbers above attempts[c] are unused.  An
\* attempt has a response before it publishes anything, and it has published a
\* reply before it acknowledges.
AttemptsInOrder ==
  \A h \in Handlers :
    /\ h[2] > attempts[h[1]] =>
         at[h] = NoWorker /\ pc[h] = "none" /\ resp[h] = "none" /\ child[h] = "none"
    /\ pc[h] = "preparing" => resp[h] = "none" /\ child[h] = "none"
    /\ pc[h] \in Steps \ {"preparing", "running", "terminating"} => resp[h] # "none"
    /\ pc[h] = "acking" => h[1] \in replied

\* The broker's prefetch limit: a worker holds one request at a time.
OneRequestPerWorker ==
  \A w \in Workers : \A g, h \in Holds(w) : g = h

\* The conjunction that a step preserves (ScrapingWorker_proofs).
IInv ==
  /\ TypeOK
  /\ DeliveredIsHandled
  /\ AckedWasAnswered
  /\ CompletedReplyIsTrue
  /\ ResponseIsTrue
  /\ AttemptsInOrder
  /\ OneRequestPerWorker

\* While no channel is ever lost, every live coroutine holds its message, every
\* live script has its coroutine, and no request is refused.
NoSurvivors ==
  \A h \in Handlers :
    /\ pc[h] \in Steps => Current(h)
    /\ child[h] = "running" => pc[h] \in {"running", "terminating"}
    /\ resp[h] # "busy"

\* A request that was acknowledged or rejected is never delivered again: no lost
\* channel or crash brings it back, and none of its older attempts, which may still
\* run, reply and acknowledge, changes that.
SettledIsFinal ==
  [][\A c \in Calls :
       task[c] \in {"acked", "rejected"} =>
         task'[c] = task[c] /\ attempts'[c] = attempts[c]]_vars

\* Every published request leaves the queue for good, through any finite
\* number of losses, crashes and failed publishes - as long as there are more
\* workers than faults, because a lost connection may leave one without its
\* consumer.
RequestSettles ==
  \A c \in Calls : task[c] = "ready" ~> task[c] \in {"acked", "rejected"}
============================================================================
