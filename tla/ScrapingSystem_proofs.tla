------------------------ MODULE ScrapingSystem_proofs ------------------------
(***************************************************************************)
(* The composed system for any calls, workers, limits and faults: it never *)
(* reports a success that did not happen, and it implements RpcCall.       *)
(* The invariants of the two halves are taken from the proofs about them.  *)
(***************************************************************************)
EXTENDS ScrapingSystem, TLAPS

GP == INSTANCE RabbitMQRPC_proofs WITH MaxQueued <- 0
WP == INSTANCE ScrapingWorker_proofs

----------------------------------------------------------------------------
(* GP and WP speak of the same actions as Gateway and Worker *)

\* The busy check of a worker means the same in both instances.
LEMMA SameBusy == \A w : WP!IsBusy(w) <=> Worker!IsBusy(w)
<1>1. \A S : WP!Cardinality(S) = Worker!Cardinality(S)
  BY DEF WP!Cardinality, Worker!Cardinality
<1>2. QED
  BY <1>1 DEF WP!IsBusy, Worker!IsBusy, WP!ActiveProcesses, Worker!ActiveProcesses,
     WP!Handlers, Worker!Handlers, WP!Attempts, Worker!Attempts

\* The steps of the workers mean the same in both instances.
LEMMA SameWorkerNext == Worker!WorkerNext => WP!WorkerNext
  BY SameBusy DEF
    WP!WorkerNext, Worker!WorkerNext, WP!HandlerStep, Worker!HandlerStep,
    WP!Accept, Worker!Accept, WP!Refuse, Worker!Refuse, WP!Deliver, Worker!Deliver,
    WP!Holds, Worker!Holds, WP!Current, Worker!Current,
    WP!PrepareFails, Worker!PrepareFails, WP!StartProcess, Worker!StartProcess,
    WP!ProcessExits, Worker!ProcessExits, WP!CollectResult, Worker!CollectResult,
    WP!ProcessTimeout, Worker!ProcessTimeout, WP!ProcessKilled, Worker!ProcessKilled,
    WP!EventPublished, Worker!EventPublished, WP!EventFails, Worker!EventFails,
    WP!Reply, Worker!Reply, WP!ReplyFails, Worker!ReplyFails,
    WP!Apologise, Worker!Apologise, WP!ApologyFails, Worker!ApologyFails,
    WP!Acknowledge, Worker!Acknowledge, WP!LoseConnection, Worker!LoseConnection,
    WP!WorkerCrash, Worker!WorkerCrash, WP!Requeue, Worker!Requeue,
    WP!Fault, Worker!Fault, WP!Send, Worker!Send, WP!Handlers, Worker!Handlers,
    WP!Attempts, Worker!Attempts, WP!Steps, Worker!Steps, WP!Results, Worker!Results

\* The invariant of the workers means the same in both instances.
LEMMA SameWorkerInv == WP!IInv <=> Worker!IInv
  BY DEF WP!IInv, Worker!IInv, WP!TypeOK, Worker!TypeOK,
    WP!DeliveredIsHandled, Worker!DeliveredIsHandled,
    WP!AckedWasAnswered, Worker!AckedWasAnswered,
    WP!CompletedReplyIsTrue, Worker!CompletedReplyIsTrue,
    WP!ResponseIsTrue, Worker!ResponseIsTrue,
    WP!AttemptsInOrder, Worker!AttemptsInOrder,
    WP!OneRequestPerWorker, Worker!OneRequestPerWorker,
    WP!Holds, Worker!Holds, WP!Current, Worker!Current,
    WP!Handlers, Worker!Handlers, WP!Attempts, Worker!Attempts,
    WP!Steps, Worker!Steps, WP!Results, Worker!Results

\* The steps of the gateway mean the same in both instances.
LEMMA SameGatewayNext == Gateway!GatewayNext => GP!Next
  BY DEF GP!Next, GP!GatewayNext, Gateway!GatewayNext, GP!CallerStep, Gateway!CallerStep,
    GP!CallAsync, Gateway!CallAsync, GP!MessageQueued, Gateway!MessageQueued,
    GP!PublishConfirmed, Gateway!PublishConfirmed, GP!PublishFails, Gateway!PublishFails,
    GP!TimerFires, Gateway!TimerFires, GP!ReturnResult, Gateway!ReturnResult,
    GP!RaiseResult, Gateway!RaiseResult, GP!CancelFuture, Gateway!CancelFuture,
    GP!TimesOut, Gateway!TimesOut, GP!OnResponse, Gateway!OnResponse,
    GP!Resolve, Gateway!Resolve, GP!LoseConnection, Gateway!LoseConnection,
    GP!Reconnect, Gateway!Reconnect, GP!GatewayCrash, Gateway!GatewayCrash,
    GP!Results, Gateway!Results

\* The invariant of the gateway means the same in both instances.
LEMMA SameGatewayInv == GP!IInv <=> Gateway!IInv
  BY DEF GP!IInv, Gateway!IInv, GP!TypeOK, Gateway!TypeOK,
    GP!FutureFollowsCaller, Gateway!FutureFollowsCaller,
    GP!WaitingIsRegistered, Gateway!WaitingIsRegistered,
    GP!OnlyFailedPublishLeaks, Gateway!OnlyFailedPublishLeaks,
    GP!NoResultDiscarded, Gateway!NoResultDiscarded,
    GP!InCall, Gateway!InCall, GP!CallerStates, Gateway!CallerStates,
    GP!FutureStates, Gateway!FutureStates, GP!Unresolved, Gateway!Unresolved,
    GP!Results, Gateway!Results, GP!Bodies, Gateway!Bodies,
    GP!Replies, Gateway!Replies

----------------------------------------------------------------------------
(* What a step of a worker may do to the requests and the scripts *)

\* A worker's step publishes no request and delivers only published ones.
LEMMA WorkerKeepsRequests ==
  ASSUME Worker!IInv, Worker!WorkerNext
  PROVE  \A c \in Calls :
           /\ task'[c] = "absent" <=> task[c] = "absent"
           /\ attempts'[c] > 0 => attempts[c] > 0 \/ task[c] # "absent"
<1> USE DEF Worker!IInv, Worker!TypeOK
<1> DEFINE Goal == \A c \in Calls :
             /\ task'[c] = "absent" <=> task[c] = "absent"
             /\ attempts'[c] > 0 => attempts[c] > 0 \/ task[c] # "absent"
<1>1. ASSUME NEW w \in Workers, NEW d \in Calls, Worker!Accept(w, d) \/ Worker!Refuse(w, d)
      PROVE  Goal
  BY <1>1 DEF Worker!Accept, Worker!Refuse, Worker!Deliver
<1>2. ASSUME NEW h \in Worker!Handlers, Worker!HandlerStep(h)
      PROVE  Goal
  <2>1. CASE Worker!Acknowledge(h) \/ Worker!ApologyFails(h)
    BY <2>1 DEF Worker!Acknowledge, Worker!ApologyFails, Worker!Current
  <2>2. CASE ~(Worker!Acknowledge(h) \/ Worker!ApologyFails(h))
    <3>1. UNCHANGED <<task, attempts>>
      BY <1>2, <2>2 DEF Worker!HandlerStep, Worker!PrepareFails, Worker!StartProcess,
         Worker!CollectResult, Worker!ProcessTimeout, Worker!ProcessKilled,
         Worker!EventPublished, Worker!EventFails, Worker!Reply, Worker!ReplyFails,
         Worker!Apologise
    <3>2. QED
      BY <3>1
  <2>3. QED
    BY <2>1, <2>2
<1>3. ASSUME NEW h, NEW status, Worker!ProcessExits(h, status)
      PROVE  Goal
  BY <1>3 DEF Worker!ProcessExits
<1>4. ASSUME NEW w \in Workers, Worker!LoseConnection(w) \/ Worker!WorkerCrash(w)
      PROVE  Goal
  <2>1. Worker!Requeue(w) /\ UNCHANGED attempts
    BY <1>4 DEF Worker!LoseConnection, Worker!WorkerCrash
  <2>2. \A h \in Worker!Holds(w) : task[h[1]] = "unacked"
    BY DEF Worker!Holds, Worker!Current
  <2>3. QED
    BY <2>1, <2>2 DEF Worker!Requeue
<1>5. QED
  BY <1>1, <1>2, <1>3, <1>4 DEF Worker!WorkerNext

\* A worker's step forgets no successful run; it adds at most one, of a request
\* that has been delivered.
LEMMA WorkerKeepsRuns ==
  ASSUME Worker!IInv, Worker!WorkerNext
  PROVE  \/ \A g \in Worker!Handlers :
              child'[g] = "succeeded" <=> child[g] = "succeeded"
         \/ \E h \in Worker!Handlers :
              /\ attempts[h[1]] > 0
              /\ \A g \in Worker!Handlers :
                   child'[g] = "succeeded" <=> child[g] = "succeeded" \/ g = h
<1> USE DEF Worker!IInv, Worker!TypeOK
<1> DEFINE Same == \A g \in Worker!Handlers :
             child'[g] = "succeeded" <=> child[g] = "succeeded"
           New(h) == /\ attempts[h[1]] > 0
                     /\ \A g \in Worker!Handlers :
                          child'[g] = "succeeded" <=> child[g] = "succeeded" \/ g = h
<1>1. ASSUME NEW w \in Workers, NEW d \in Calls, Worker!Accept(w, d) \/ Worker!Refuse(w, d)
      PROVE  Same
  BY <1>1 DEF Worker!Accept, Worker!Refuse, Worker!Deliver
<1>2. ASSUME NEW h \in Worker!Handlers, Worker!HandlerStep(h)
      PROVE  Same
  <2>1. CASE Worker!StartProcess(h)
    BY <2>1 DEF Worker!StartProcess, Worker!AttemptsInOrder
  <2>2. CASE Worker!ProcessKilled(h)
    BY <2>2 DEF Worker!ProcessKilled
  <2>3. CASE ~(Worker!StartProcess(h) \/ Worker!ProcessKilled(h))
    <3>1. UNCHANGED child
      BY <1>2, <2>3 DEF Worker!HandlerStep, Worker!PrepareFails, Worker!CollectResult,
         Worker!ProcessTimeout, Worker!EventPublished, Worker!EventFails, Worker!Reply,
         Worker!ReplyFails, Worker!Apologise, Worker!ApologyFails, Worker!Acknowledge
    <3>2. QED
      BY <3>1
  <2>4. QED
    BY <2>1, <2>2, <2>3
<1>3. ASSUME NEW h \in Worker!Handlers, NEW status \in {"succeeded", "failed"},
             Worker!ProcessExits(h, status)
      PROVE  Same \/ New(h)
  <2>1. child[h] = "running" /\ child' = [child EXCEPT ![h] = status]
    BY <1>3 DEF Worker!ProcessExits
  <2>2. CASE status = "failed"
    BY <2>1, <2>2
  <2>3. CASE status = "succeeded"
    <3>1. \A g \in Worker!Handlers :
             child'[g] = "succeeded" <=> child[g] = "succeeded" \/ g = h
      BY <2>1, <2>3
    <3>2. ~(h[2] > attempts[h[1]])
      BY <2>1 DEF Worker!AttemptsInOrder
    <3>3. h[1] \in Calls /\ h[2] \in 1..(MaxFaults + 1)
      BY DEF Worker!Handlers, Worker!Attempts
    <3>4. attempts[h[1]] > 0
      BY <3>2, <3>3, SystemAssumption
    <3>5. QED
      BY <3>1, <3>4
  <2>4. QED
    BY <2>2, <2>3
<1>4. ASSUME NEW w \in Workers, Worker!LoseConnection(w) \/ Worker!WorkerCrash(w)
      PROVE  Same
  BY <1>4 DEF Worker!LoseConnection, Worker!WorkerCrash
<1>5. QED
  BY <1>1, <1>2, <1>3, <1>4 DEF Worker!WorkerNext

----------------------------------------------------------------------------
(* The invariant *)

\* A step of either side keeps the invariant of the workers.
LEMMA WorkerSide == IInv /\ Next => Worker!IInv'
<1> SUFFICES ASSUME IInv, Next PROVE Worker!IInv'
  OBVIOUS
<1>1. WP!IInv
  BY SameWorkerInv DEF IInv
<1>2. WP!IInv' <=> Worker!IInv'
  BY SameWorkerInv, PTL
<1>3. CASE WorkerStep
  BY <1>1, <1>2, <1>3, SameWorkerNext, WP!WorkerInv, SystemAssumption
  DEF WorkerStep, WP!Faults
<1>4. CASE GatewayStep
  <2> USE DEF IInv, Gateway!IInv, Gateway!TypeOK, CallsFitRequests
  <2>1. /\ \/ UNCHANGED task
           \/ \E c \in Calls : task[c] = "absent" /\ task' = [task EXCEPT ![c] = "ready"]
        /\ \/ callbackQueue' \in {callbackQueue, <<>>}
           \/ callbackQueue # <<>> /\ callbackQueue' = Tail(callbackQueue)
    <3>1. CASE \E c \in Calls : Gateway!MessageQueued(c)
      BY <3>1 DEF Gateway!MessageQueued
    <3>2. CASE Gateway!OnResponse \/ Gateway!Reconnect \/ Gateway!GatewayCrash
      BY <3>2 DEF Gateway!OnResponse, Gateway!Reconnect, Gateway!GatewayCrash
    <3>3. CASE ~(\/ \E c \in Calls : Gateway!MessageQueued(c)
                 \/ Gateway!OnResponse \/ Gateway!Reconnect \/ Gateway!GatewayCrash)
      <4>1. UNCHANGED <<task, callbackQueue>>
        BY <1>4, <3>3 DEF GatewayStep, Gateway!GatewayNext, Gateway!CallerStep,
           Gateway!CallAsync, Gateway!PublishConfirmed, Gateway!PublishFails,
           Gateway!TimerFires, Gateway!ReturnResult, Gateway!RaiseResult,
           Gateway!CancelFuture, Gateway!TimesOut, Gateway!LoseConnection
      <4>2. QED
        BY <4>1
    <3>4. QED
      BY <3>1, <3>2, <3>3
  <2>2. UNCHANGED WP!workerVars
    BY <1>4 DEF GatewayStep, workerOnly, WP!workerVars
  <2>3. QED
    BY <1>1, <1>2, <2>1, <2>2, WP!GatewayInv, SystemAssumption DEF WP!Faults
<1>5. QED
  BY <1>3, <1>4 DEF Next

\* A step of either side keeps the invariant of the gateway.
LEMMA GatewaySide == IInv /\ Next => Gateway!IInv'
<1> SUFFICES ASSUME IInv, Next PROVE Gateway!IInv'
  OBVIOUS
<1>1. CASE GatewayStep
  <2>1. GP!IInv
    BY SameGatewayInv DEF IInv
  <2>2. GP!IInv' <=> Gateway!IInv'
    BY SameGatewayInv, PTL
  <2>3. GP!Next
    BY <1>1, SameGatewayNext DEF GatewayStep
  <2>4. QED
    BY <2>1, <2>2, <2>3, GP!NextInv, SystemAssumption
<1>2. CASE WorkerStep
  <2>1. Gateway!IInv
    BY DEF IInv
  <2>2. UNCHANGED gatewayOnly
    BY <1>2 DEF WorkerStep
  <2>3. Worker!TypeOK'
    BY WorkerSide DEF Worker!IInv
  <2>4. callbackQueue' \in Seq(Gateway!Replies)
    <3>1. [id : Calls, body : Worker!Results] \subseteq Gateway!Replies
      BY DEF Worker!Results, Gateway!Replies, Gateway!Bodies, Gateway!Results
    <3> DEFINE R == [id : Calls, body : Worker!Results]
               Q == Gateway!Replies
    <3>2. callbackQueue' \in Seq(R) /\ R \subseteq Q
      BY <2>3, <3>1 DEF Worker!TypeOK
    <3> HIDE DEF R, Q
    <3>3. callbackQueue' \in Seq(Q)
      <4>1. /\ Len(callbackQueue') \in Nat
            /\ \A i \in 1..Len(callbackQueue') : callbackQueue'[i] \in Q
            /\ callbackQueue' = [i \in 1..Len(callbackQueue') |-> callbackQueue'[i]]
        BY <3>2
      <4>2. callbackQueue' \in [1..Len(callbackQueue') -> Q]
        BY <4>1
      <4>3. QED
        BY <4>1, <4>2
    <3>4. QED
      BY <3>3 DEF Q
  <2>5. Gateway!TypeOK'
    BY <2>1, <2>2, <2>3, <2>4 DEF Gateway!IInv, Gateway!TypeOK, Worker!TypeOK, gatewayOnly
  <2>6. /\ Gateway!FutureFollowsCaller'
        /\ Gateway!WaitingIsRegistered'
        /\ Gateway!OnlyFailedPublishLeaks'
        /\ Gateway!NoResultDiscarded'
    BY <2>1, <2>2 DEF Gateway!IInv, Gateway!FutureFollowsCaller,
       Gateway!WaitingIsRegistered, Gateway!OnlyFailedPublishLeaks,
       Gateway!NoResultDiscarded, gatewayOnly
  <2>7. QED
    BY <2>5, <2>6 DEF Gateway!IInv
<1>3. QED
  BY <1>1, <1>2 DEF Next

\* What a step of the gateway does to the calls: it resolves a future with
\* "completed" only from the head of the callback queue, and it publishes a
\* request only while its caller is publishing.
LEMMA GatewayKeepsFit ==
  ASSUME IInv, GatewayStep
  PROVE  CallsFitRequests'
<1> USE DEF IInv, Gateway!IInv, Gateway!TypeOK
<1>1. UNCHANGED <<attempts, child>>
  BY DEF GatewayStep, workerOnly
<1>2. \A c : Succeeded(c)' = Succeeded(c)
  BY <1>1 DEF Succeeded
<1>3. ASSUME NEW c \in Calls, future'[c] = "completed"
      PROVE  Succeeded(c)
  <2>1. CASE Gateway!OnResponse
    <3>1. CASE future[c] = "completed"
      BY <3>1 DEF CallsFitRequests
    <3>2. CASE future[c] # "completed"
      <4>1. /\ callbackQueue # <<>>
            /\ Head(callbackQueue).id = c
            /\ Head(callbackQueue).body = "completed"
        BY <1>3, <2>1, <3>2 DEF Gateway!OnResponse, Gateway!Resolve
      <4>2. 1 \in 1..Len(callbackQueue) /\ Head(callbackQueue) = callbackQueue[1]
        BY <4>1
      <4>3. QED
        BY <4>1, <4>2 DEF Worker!IInv, Worker!CompletedReplyIsTrue, Succeeded
    <3>3. QED
      BY <3>1, <3>2
  <2>2. CASE ~Gateway!OnResponse
    <3>1. future'[c] = "completed" => future[c] = "completed"
      BY <2>2 DEF GatewayStep, Gateway!GatewayNext, Gateway!CallerStep,
         Gateway!CallAsync, Gateway!MessageQueued, Gateway!PublishConfirmed,
         Gateway!PublishFails, Gateway!TimerFires, Gateway!ReturnResult,
         Gateway!RaiseResult, Gateway!CancelFuture, Gateway!TimesOut,
         Gateway!LoseConnection, Gateway!Reconnect, Gateway!GatewayCrash
    <3>2. QED
      BY <1>3, <3>1 DEF CallsFitRequests
  <2>3. QED
    BY <2>1, <2>2
<1>4. ASSUME NEW c \in Calls, task'[c] # "absent"
      PROVE  caller'[c] \notin {"idle", "publishing"}
  <2> USE <1>4 DEF CallsFitRequests
  <2>1. ASSUME NEW d \in Calls, Gateway!CallAsync(d) \/ Gateway!MessageQueued(d)
        PROVE  caller'[c] \notin {"idle", "publishing"}
    BY <2>1 DEF Gateway!CallAsync, Gateway!MessageQueued
  <2>2. ASSUME NEW d \in Calls, Gateway!CallerStep(d), ~Gateway!MessageQueued(d)
        PROVE  caller'[c] \notin {"idle", "publishing"}
    BY <2>2 DEF Gateway!CallerStep, Gateway!PublishConfirmed,
       Gateway!PublishFails, Gateway!TimerFires, Gateway!ReturnResult,
       Gateway!RaiseResult, Gateway!CancelFuture, Gateway!TimesOut
  <2>3. CASE \/ Gateway!OnResponse \/ Gateway!LoseConnection
             \/ Gateway!Reconnect \/ Gateway!GatewayCrash
    BY <2>3 DEF Gateway!OnResponse, Gateway!LoseConnection, Gateway!Reconnect,
       Gateway!GatewayCrash
  <2>4. QED
    BY <2>1, <2>2, <2>3 DEF GatewayStep, Gateway!GatewayNext
<1>5. \A c \in Calls : task'[c] = "absent" => task[c] = "absent"
  BY DEF GatewayStep, Gateway!GatewayNext, Gateway!CallerStep,
     Gateway!CallAsync, Gateway!MessageQueued, Gateway!PublishConfirmed,
     Gateway!PublishFails, Gateway!TimerFires, Gateway!ReturnResult,
     Gateway!RaiseResult, Gateway!CancelFuture, Gateway!TimesOut, Gateway!OnResponse,
     Gateway!LoseConnection, Gateway!Reconnect, Gateway!GatewayCrash
<1>6. QED
  BY <1>1, <1>2, <1>3, <1>4, <1>5 DEF CallsFitRequests

\* A step of a worker leaves the callers alone and forgets no success.
LEMMA WorkerKeepsFit ==
  ASSUME IInv, WorkerStep
  PROVE  CallsFitRequests'
<1>1. UNCHANGED <<caller, future>>
  BY DEF WorkerStep, gatewayOnly
<1>2. \A g \in Worker!Handlers : child[g] = "succeeded" => child'[g] = "succeeded"
  BY WorkerKeepsRuns DEF IInv, WorkerStep
<1>3. \A c \in Calls : Succeeded(c) => Succeeded(c)'
  BY <1>2 DEF Succeeded, Worker!Handlers
<1>4. \A c \in Calls :
         /\ task'[c] = "absent" <=> task[c] = "absent"
         /\ attempts'[c] > 0 => attempts[c] > 0 \/ task[c] # "absent"
  BY WorkerKeepsRequests DEF IInv, WorkerStep
<1>5. QED
  BY <1>1, <1>3, <1>4 DEF IInv, CallsFitRequests

\* Every initial state satisfies the invariant.
LEMMA InitInv == Init => IInv
<1> SUFFICES ASSUME Init PROVE IInv
  OBVIOUS
<1>1. GP!Init /\ WP!Init
  BY DEF Init, GP!Init, Gateway!Init, WP!Init, WP!WorkerInit, Worker!WorkerInit,
     WP!Handlers, Worker!Handlers, WP!Attempts, Worker!Attempts
<1>2. GP!IInv
  BY <1>1, GP!InitInv, SystemAssumption
<1>3. WP!IInv
  BY <1>1, WP!InitInv, SystemAssumption DEF WP!Faults
<1>4. CallsFitRequests
  BY DEF Init, Gateway!Init, Worker!WorkerInit, CallsFitRequests
<1>5. QED
  BY <1>2, <1>3, <1>4, SameGatewayInv, SameWorkerInv DEF IInv

\* Every step keeps the invariant.
LEMMA NextInv == IInv /\ [Next]_vars => IInv'
<1> SUFFICES ASSUME IInv, [Next]_vars PROVE IInv'
  OBVIOUS
<1>1. CASE Next
  BY <1>1, WorkerSide, GatewaySide, GatewayKeepsFit, WorkerKeepsFit DEF Next, IInv
<1>2. CASE UNCHANGED vars
  <2>1. UNCHANGED <<caller, futures, future, outcome, connected, gatewayFaults,
                    attempts, at, consuming, pc, resp, child, replied, faults,
                    task, callbackQueue>>
    BY <1>2 DEF vars, gatewayOnly, workerOnly
  <2>2. Gateway!IInv'
    BY <2>1 DEF IInv, Gateway!IInv, Gateway!TypeOK, Gateway!FutureFollowsCaller,
       Gateway!WaitingIsRegistered, Gateway!OnlyFailedPublishLeaks,
       Gateway!NoResultDiscarded
  <2>3. Worker!IInv'
    <3>1. Worker!TypeOK'
      <4>1. /\ UNCHANGED <<task, attempts, at, consuming, pc>>
            /\ UNCHANGED <<resp, child, replied, callbackQueue, faults>>
        BY <2>1
      <4>2. Worker!TypeOK
        BY DEF IInv, Worker!IInv
      <4>3. QED
        BY <4>1, <4>2, Zenon DEF Worker!TypeOK
    <3>2. QED
      BY <2>1, <3>1 DEF IInv, Worker!IInv, Worker!DeliveredIsHandled,
         Worker!AckedWasAnswered, Worker!CompletedReplyIsTrue, Worker!ResponseIsTrue,
         Worker!AttemptsInOrder, Worker!OneRequestPerWorker, Worker!Holds, Worker!Current
  <2>4. CallsFitRequests'
    BY <2>1 DEF IInv, CallsFitRequests, Succeeded
  <2>5. QED
    BY <2>2, <2>3, <2>4 DEF IInv
<1>3. QED
  BY <1>1, <1>2

\* The system keeps IInv for ever.
THEOREM Invariance == Spec => []IInv
  BY InitInv, NextInv, PTL DEF Spec

\* The variables of both halves keep their types.
THEOREM TypeCorrect == Spec => []TypeOK
<1>1. IInv => TypeOK
  BY DEF IInv, TypeOK, Gateway!IInv, Worker!IInv
<1>2. QED
  BY <1>1, Invariance, PTL

\* "completed" reaches a client only after a run of the script of that very
\* call succeeded.
THEOREM SuccessIsReal == Spec => []CompletedMeansSucceeded
<1>1. IInv => CompletedMeansSucceeded
  BY DEF IInv, Gateway!IInv, Gateway!NoResultDiscarded, Gateway!Results,
     CallsFitRequests, CompletedMeansSucceeded
<1>2. QED
  BY <1>1, Invariance, PTL

----------------------------------------------------------------------------
(* Healthy channels *)

\* The two sides of the claim mean the same in both instances of the workers.
LEMMA SameSurvivors ==
  /\ WP!NoSurvivors <=> Worker!NoSurvivors
  /\ WP!ChildLimit <=> Worker!ChildLimit
<1>1. \A S : WP!Cardinality(S) = Worker!Cardinality(S)
  BY DEF WP!Cardinality, Worker!Cardinality
<1>2. WP!NoSurvivors <=> Worker!NoSurvivors
  BY DEF WP!NoSurvivors, Worker!NoSurvivors, WP!Current, Worker!Current,
     WP!Handlers, Worker!Handlers, WP!Attempts, Worker!Attempts, WP!Steps, Worker!Steps
<1>3. WP!ChildLimit <=> Worker!ChildLimit
  BY <1>1 DEF WP!ChildLimit, Worker!ChildLimit, WP!Handlers, Worker!Handlers,
     WP!Attempts, Worker!Attempts
<1>4. QED
  BY <1>2, <1>3

\* What a gateway's step may do to the request queue.
LEMMA GatewayTasks ==
  ASSUME IInv, GatewayStep
  PROVE  /\ UNCHANGED WP!workerVars
         /\ \/ UNCHANGED task
            \/ \E c \in Calls : task[c] = "absent" /\ task' = [task EXCEPT ![c] = "ready"]
<1>1. UNCHANGED WP!workerVars
  BY DEF GatewayStep, workerOnly, WP!workerVars
<1>2. CASE \E c \in Calls : Gateway!MessageQueued(c)
  BY <1>1, <1>2 DEF Gateway!MessageQueued, IInv, CallsFitRequests, Gateway!IInv,
     Gateway!TypeOK
<1>3. CASE ~\E c \in Calls : Gateway!MessageQueued(c)
  <2>1. UNCHANGED task
    BY <1>3 DEF GatewayStep, Gateway!GatewayNext, Gateway!CallerStep,
       Gateway!CallAsync, Gateway!PublishConfirmed, Gateway!PublishFails,
       Gateway!TimerFires, Gateway!ReturnResult, Gateway!RaiseResult,
       Gateway!CancelFuture, Gateway!TimesOut, Gateway!OnResponse,
       Gateway!LoseConnection, Gateway!Reconnect, Gateway!GatewayCrash
  <2>2. QED
    BY <1>1, <2>1
<1>4. QED
  BY <1>2, <1>3

\* Without lost connections no step of either side makes a survivor.
LEMMA NoSurvivorsNext ==
  ASSUME "connection_lost" \notin FaultKinds, IInv, NoSurvivors, [Next]_vars
  PROVE  NoSurvivors'
<1>1. WP!IInv /\ WP!NoSurvivors
  BY SameWorkerInv, SameSurvivors DEF IInv, NoSurvivors
<1>2. WP!NoSurvivors' <=> NoSurvivors'
  BY SameSurvivors, PTL DEF NoSurvivors
<1>3. CASE WorkerStep
  <2>1. [WP!Next]_(WP!vars)
    BY <1>3, SameWorkerNext DEF WorkerStep, WP!Next
  <2>2. QED
    BY <1>1, <1>2, <2>1, WP!NoSurvivorsInv, SystemAssumption DEF WP!Faults
<1>4. CASE GatewayStep
  BY <1>1, <1>2, <1>4, GatewayTasks, WP!GatewayLeavesNone, SystemAssumption DEF WP!Faults
<1>5. CASE UNCHANGED vars
  <2>1. UNCHANGED WP!workerVars /\ UNCHANGED task
    BY <1>5 DEF vars, workerOnly, WP!workerVars
  <2>2. QED
    BY <1>1, <1>2, <2>1, WP!GatewayLeavesNone, SystemAssumption DEF WP!Faults
<1>6. QED
  BY <1>3, <1>4, <1>5 DEF Next

\* While no channel is lost every live script of the system has its coroutine,
\* every coroutine its message, and no worker refuses a request.
THEOREM HealthySystemLeavesNoSurvivors ==
  ASSUME "connection_lost" \notin FaultKinds
  PROVE  Spec => []NoSurvivors
<1>1. Init => NoSurvivors
  BY DEF Init, Worker!WorkerInit, NoSurvivors, Worker!NoSurvivors, Worker!Steps
<1>2. IInv /\ NoSurvivors /\ [Next]_vars => NoSurvivors'
  BY NoSurvivorsNext
<1>3. QED
  BY <1>1, <1>2, Invariance, PTL DEF Spec

\* ... and no worker runs more scripts than max_concurrent_tasks.
THEOREM HealthySystemKeepsLimit ==
  ASSUME "connection_lost" \notin FaultKinds
  PROVE  Spec => []ChildLimit
<1>1. IInv /\ NoSurvivors => ChildLimit
  BY SameWorkerInv, SameSurvivors, WP!LimitFollows, SystemAssumption
  DEF IInv, NoSurvivors, ChildLimit, WP!Faults
<1>2. QED
  BY <1>1, Invariance, HealthySystemLeavesNoSurvivors, PTL

\* A worker's step puts no "busy" into the callback queue, since no response says so.
LEMMA WorkerSaysNotBusy ==
  ASSUME IInv, NoSurvivors, NobodyIsBusy, WorkerStep
  PROVE  NobodyIsBusy'
<1> USE DEF IInv, Worker!IInv, Worker!TypeOK
<1>1. UNCHANGED <<future, outcome>>
  BY DEF WorkerStep, gatewayOnly
<1>2. \/ UNCHANGED callbackQueue
      \/ \E m : m.body # "busy" /\ callbackQueue' = Append(callbackQueue, m)
  <2>1. ASSUME NEW h \in Worker!Handlers,
               \/ Worker!Reply(h) \/ Worker!ReplyFails(h)
               \/ Worker!Apologise(h) \/ Worker!ApologyFails(h)
        PROVE  \/ UNCHANGED callbackQueue
               \/ \E m : m.body # "busy" /\ callbackQueue' = Append(callbackQueue, m)
    <3>1. resp[h] # "busy"
      BY DEF NoSurvivors, Worker!NoSurvivors
    <3>2. \/ UNCHANGED callbackQueue
          \/ \E b \in {resp[h], "failed"} :
               callbackQueue' = Append(callbackQueue, [id |-> h[1], body |-> b])
      BY <2>1 DEF Worker!Reply, Worker!ReplyFails, Worker!Apologise,
         Worker!ApologyFails, Worker!Send
    <3>3. QED
      BY <3>1, <3>2
  <2>2. CASE ~\E h \in Worker!Handlers :
               \/ Worker!Reply(h) \/ Worker!ReplyFails(h)
               \/ Worker!Apologise(h) \/ Worker!ApologyFails(h)
    BY <2>2 DEF WorkerStep, Worker!WorkerNext, Worker!HandlerStep, Worker!Accept,
       Worker!Refuse, Worker!Deliver, Worker!PrepareFails, Worker!StartProcess,
       Worker!ProcessExits, Worker!CollectResult, Worker!ProcessTimeout,
       Worker!ProcessKilled, Worker!EventPublished, Worker!EventFails,
       Worker!Acknowledge, Worker!LoseConnection, Worker!WorkerCrash
  <2>3. QED
    BY <2>1, <2>2
<1>3. \A i \in 1..Len(callbackQueue') : callbackQueue'[i].body # "busy"
  <2>1. CASE UNCHANGED callbackQueue
    BY <2>1 DEF NobodyIsBusy
  <2>2. ASSUME NEW m, m.body # "busy", callbackQueue' = Append(callbackQueue, m)
        PROVE  \A i \in 1..Len(callbackQueue') : callbackQueue'[i].body # "busy"
    <3> DEFINE R == [id : Calls, body : Worker!Results]
    <3>1. callbackQueue \in Seq(R)
      OBVIOUS
    <3> HIDE DEF R
    <3>2. /\ Len(callbackQueue') = Len(callbackQueue) + 1
          /\ \A i \in 1..Len(callbackQueue) : callbackQueue'[i] = callbackQueue[i]
          /\ callbackQueue'[Len(callbackQueue) + 1] = m
          /\ Len(callbackQueue) \in Nat
      BY <2>2, <3>1
    <3>3. ASSUME NEW i \in 1..Len(callbackQueue')
          PROVE  callbackQueue'[i].body # "busy"
      <4>1. CASE i = Len(callbackQueue) + 1
        BY <2>2, <3>2, <4>1
      <4>2. CASE i # Len(callbackQueue) + 1
        <5>1. i \in 1..Len(callbackQueue)
          BY <3>2, <3>3, <4>2
        <5>2. callbackQueue'[i] = callbackQueue[i]
          BY <3>2, <5>1
        <5>3. QED
          BY <5>1, <5>2 DEF NobodyIsBusy
      <4>3. QED
        BY <4>1, <4>2
    <3>4. QED
      BY <3>3
  <2>3. QED
    BY <1>2, <2>1, <2>2
<1>4. QED
  BY <1>1, <1>3 DEF NobodyIsBusy

\* The gateway says what the queue told it.
LEMMA GatewaySaysNotBusy ==
  ASSUME IInv, NobodyIsBusy, GatewayStep
  PROVE  NobodyIsBusy'
<1> USE DEF IInv, Gateway!IInv, Gateway!TypeOK
<1>1. CASE Gateway!OnResponse
  <2>1. /\ callbackQueue # <<>> /\ callbackQueue' = Tail(callbackQueue)
        /\ UNCHANGED outcome
    BY <1>1 DEF Gateway!OnResponse
  <2>2. /\ Head(callbackQueue) = callbackQueue[1] /\ 1 \in 1..Len(callbackQueue)
        /\ \A i \in 1..Len(callbackQueue') :
             i + 1 \in 1..Len(callbackQueue) /\ callbackQueue'[i] = callbackQueue[i + 1]
    <3> DEFINE R == Gateway!Replies
    <3>1. callbackQueue \in Seq(R)
      OBVIOUS
    <3> HIDE DEF R
    <3>2. QED
      BY <2>1, <3>1
  <2>3. \A c \in Calls : future'[c] # "busy"
    BY <1>1, <2>2 DEF Gateway!OnResponse, Gateway!Resolve, NobodyIsBusy
  <2>4. QED
    BY <2>1, <2>2, <2>3 DEF NobodyIsBusy
<1>2. CASE Gateway!Reconnect \/ Gateway!GatewayCrash
  <2>1. callbackQueue' = <<>> \/ UNCHANGED callbackQueue
    BY <1>2 DEF Gateway!Reconnect, Gateway!GatewayCrash
  <2>2. \A c \in Calls : future'[c] # "busy" /\ outcome'[c] # "busy"
    BY <1>2 DEF Gateway!Reconnect, Gateway!GatewayCrash, NobodyIsBusy
  <2>3. \A i \in 1..Len(callbackQueue') : callbackQueue'[i].body # "busy"
    BY <2>1 DEF NobodyIsBusy
  <2>4. QED
    BY <2>2, <2>3 DEF NobodyIsBusy
<1>3. ASSUME NEW c \in Calls, Gateway!CallAsync(c) \/ Gateway!CallerStep(c)
      PROVE  NobodyIsBusy'
  BY <1>3 DEF NobodyIsBusy, Gateway!CallerStep, Gateway!CallAsync, Gateway!MessageQueued,
     Gateway!PublishConfirmed, Gateway!PublishFails, Gateway!TimerFires,
     Gateway!ReturnResult, Gateway!RaiseResult, Gateway!CancelFuture, Gateway!TimesOut
<1>4. CASE Gateway!LoseConnection
  BY <1>4 DEF Gateway!LoseConnection, NobodyIsBusy
<1>5. QED
  BY <1>1, <1>2, <1>3, <1>4 DEF GatewayStep, Gateway!GatewayNext

\* A client is told that the worker is busy only when channels are lost.
THEOREM NobodyIsTurnedAway == Spec => []BusyNeedsLostChannel
<1>1. CASE "connection_lost" \in FaultKinds
  <2>1. BusyNeedsLostChannel
    BY <1>1 DEF BusyNeedsLostChannel
  <2>2. QED
    BY <2>1, PTL
<1>2. CASE "connection_lost" \notin FaultKinds
  <2>1. Init => NobodyIsBusy
    BY DEF Init, Worker!WorkerInit, Gateway!Init, NobodyIsBusy
  <2>2. IInv /\ NoSurvivors /\ NobodyIsBusy /\ [Next]_vars => NobodyIsBusy'
    <3>1. CASE UNCHANGED vars
      BY <3>1 DEF vars, gatewayOnly, NobodyIsBusy
    <3>2. QED
      BY <3>1, WorkerSaysNotBusy, GatewaySaysNotBusy DEF Next
  <2>3. NobodyIsBusy => BusyNeedsLostChannel
    BY DEF NobodyIsBusy, BusyNeedsLostChannel
  <2>4. QED
    BY <1>2, <2>1, <2>2, <2>3, Invariance, HealthySystemLeavesNoSurvivors, PTL DEF Spec
<1>3. QED
  BY <1>1, <1>2

----------------------------------------------------------------------------
(* Refinement *)

\* Every step of the gateway is a submission, an answer, the loss of all the
\* clients, or nothing the client can see.
LEMMA GatewayImplements ==
  ASSUME IInv, GatewayStep
  PROVE  [Abs!Next]_(Abs!vars)
<1> USE DEF IInv, Gateway!IInv, Gateway!TypeOK, Gateway!FutureFollowsCaller
<1>1. Ran' = Ran
  BY DEF GatewayStep, workerOnly, Ran, Succeeded
<1>2. ASSUME NEW c \in Calls, Gateway!CallAsync(c)
      PROVE  Abs!Submit(c)
  BY <1>1, <1>2 DEF Gateway!CallAsync, ClientAnswer, Abs!Submit, Gateway!InCall
<1>3. ASSUME NEW c \in Calls,
             \/ Gateway!MessageQueued(c) \/ Gateway!PublishConfirmed(c)
             \/ Gateway!TimerFires(c) \/ Gateway!CancelFuture(c)
      PROVE  UNCHANGED Abs!vars
  BY <1>1, <1>3 DEF Gateway!MessageQueued, Gateway!PublishConfirmed, Gateway!TimerFires,
     Gateway!CancelFuture, ClientAnswer, Abs!vars
<1>4. ASSUME NEW c \in Calls, Gateway!PublishFails(c) \/ Gateway!RaiseResult(c)
      PROVE  Abs!Answer(c, "error")
  <2>1. /\ caller[c] \in Gateway!InCall
        /\ caller' = [caller EXCEPT ![c] = "done"]
        /\ outcome' = [outcome EXCEPT ![c] = "error"]
    BY <1>4 DEF Gateway!PublishFails, Gateway!RaiseResult, Gateway!InCall
  <2>2. ClientAnswer[c] = "open"
    BY <2>1 DEF ClientAnswer, Gateway!InCall
  <2>3. ClientAnswer' = [ClientAnswer EXCEPT ![c] = "error"]
    BY <2>1 DEF ClientAnswer
  <2>4. QED
    BY <1>1, <2>2, <2>3 DEF Abs!Answer
<1>5. ASSUME NEW c \in Calls, Gateway!TimesOut(c)
      PROVE  Abs!Answer(c, "timeout")
  BY <1>1, <1>5 DEF Gateway!TimesOut, ClientAnswer, Abs!Answer, Gateway!InCall
<1>6. ASSUME NEW c \in Calls, Gateway!ReturnResult(c)
      PROVE  future[c] \in Gateway!Results /\ Abs!Answer(c, future[c])
  <2>1. future[c] = "completed" => c \in Ran
    BY DEF CallsFitRequests, Ran
  <2>2. QED
    BY <1>1, <1>6, <2>1 DEF Gateway!ReturnResult, ClientAnswer, Abs!Answer,
       Gateway!InCall, Gateway!Results
<1>7. CASE Gateway!OnResponse \/ Gateway!LoseConnection \/ Gateway!Reconnect
  BY <1>1, <1>7 DEF Gateway!OnResponse, Gateway!LoseConnection, Gateway!Reconnect,
     ClientAnswer, Abs!vars
<1>8. CASE Gateway!GatewayCrash
  <2>1. Abs!LoseClients
    BY <1>1, <1>8 DEF Gateway!GatewayCrash, ClientAnswer, Abs!LoseClients,
       Gateway!CallerStates, Gateway!InCall, Gateway!Results
  <2>2. QED
    BY <2>1 DEF Abs!Next
<1>9. \A c \in Calls, a \in {"error", "timeout"} \cup Gateway!Results :
         Abs!Answer(c, a) => Abs!Next
  BY DEF Abs!Next, Abs!Answers, Gateway!Results
<1>10. \A c \in Calls : Abs!Submit(c) => Abs!Next
  BY DEF Abs!Next
<1>11. QED
  BY <1>2, <1>3, <1>4, <1>5, <1>6, <1>7, <1>8, <1>9, <1>10
  DEF GatewayStep, Gateway!GatewayNext, Gateway!CallerStep

\* Every step of a worker is a successful run of a submitted call, or nothing
\* the client can see.
LEMMA WorkerImplements ==
  ASSUME IInv, WorkerStep
  PROVE  [Abs!Next]_(Abs!vars)
<1>1. ClientAnswer' = ClientAnswer
  BY DEF WorkerStep, gatewayOnly, ClientAnswer
<1>2. CASE \A g \in Worker!Handlers :
             child'[g] = "succeeded" <=> child[g] = "succeeded"
  <2>1. Ran' = Ran
    BY <1>2 DEF Ran, Succeeded, Worker!Handlers
  <2>2. QED
    BY <1>1, <2>1 DEF Abs!vars
<1>3. ASSUME NEW h \in Worker!Handlers,
             attempts[h[1]] > 0,
             \A g \in Worker!Handlers :
               child'[g] = "succeeded" <=> child[g] = "succeeded" \/ g = h
      PROVE  [Abs!Next]_(Abs!vars)
  <2>1. PICK c \in Calls, n \in Worker!Attempts : h = <<c, n>>
    BY DEF Worker!Handlers
  <2>2. h[1] = c
    BY <2>1
  <2>3. Ran' = Ran \cup {c}
    BY <1>3, <2>1 DEF Ran, Succeeded, Worker!Handlers
  <2>4. caller[c] # "idle"
    BY <1>3, <2>2 DEF IInv, CallsFitRequests
  <2>5. ClientAnswer[c] # "new"
    BY <2>4 DEF ClientAnswer, IInv, Gateway!IInv, Gateway!TypeOK, Gateway!Results
  <2>6. Abs!Execute(c)
    BY <1>1, <2>3, <2>5 DEF Abs!Execute
  <2>7. QED
    BY <2>6 DEF Abs!Next
<1>4. QED
  BY <1>2, <1>3, WorkerKeepsRuns DEF WorkerStep, IInv

\* The gateway, the broker and the workers together keep what POST /scrape
\* promises: one final answer per call, and "completed" only for a real run.
THEOREM Implements == Spec => ImplementsRpcCall
<1>1. Init => Abs!Init
  <2> SUFFICES ASSUME Init PROVE Abs!Init
    OBVIOUS
  <2>1. ClientAnswer = [c \in Calls |-> "new"]
    BY DEF Init, Gateway!Init, ClientAnswer
  <2>2. Ran = {}
    BY DEF Init, Worker!WorkerInit, Worker!Handlers, Ran, Succeeded
  <2>3. QED
    BY <2>1, <2>2 DEF Abs!Init
<1>2. IInv /\ [Next]_vars => [Abs!Next]_(Abs!vars)
  <2>1. ASSUME UNCHANGED vars PROVE UNCHANGED Abs!vars
    BY <2>1 DEF vars, gatewayOnly, workerOnly, Abs!vars, ClientAnswer, Ran, Succeeded
  <2>2. QED
    BY <2>1, GatewayImplements, WorkerImplements DEF Next
<1>3. QED
  BY <1>1, <1>2, Invariance, PTL DEF Spec, ImplementsRpcCall, Abs!Spec
============================================================================
