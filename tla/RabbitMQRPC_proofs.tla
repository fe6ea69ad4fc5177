------------------------- MODULE RabbitMQRPC_proofs -------------------------
(***************************************************************************)
(* Proofs about RabbitMQRPC for any set of calls, any bound on faults and  *)
(* any behaviour of the workers.  IInv is the inductive invariant.         *)
(***************************************************************************)
EXTENDS RabbitMQRPC, TLAPS

\* The gateway starts in a state of IInv: no call, no future, no reply.
LEMMA InitInv == Init => IInv
  BY GatewayAssumption
  DEF Init, IInv, TypeOK, FutureFollowsCaller, WaitingIsRegistered,
      OnlyFailedPublishLeaks, NoResultDiscarded, CallerStates, FutureStates,
      Unresolved, Results, InCall, Replies

\* The reply at the head of the callback queue names a call and has a body.
LEMMA HeadOfReplies ==
  ASSUME callbackQueue \in Seq(Replies), callbackQueue # <<>>
  PROVE  /\ Head(callbackQueue).id \in Calls
         /\ Head(callbackQueue).body \in Bodies
<1>1. Head(callbackQueue) \in Replies
  OBVIOUS
<1>2. QED
  BY <1>1 DEF Replies

\* Every step of the gateway or of its environment preserves IInv.
LEMMA NextInv == IInv /\ [Next]_vars => IInv'
<1> SUFFICES ASSUME IInv, [Next]_vars
             PROVE  IInv'
  OBVIOUS
<1> USE GatewayAssumption
    DEF IInv, TypeOK, FutureFollowsCaller, WaitingIsRegistered,
        OnlyFailedPublishLeaks, NoResultDiscarded, CallerStates, FutureStates,
        Unresolved, Results, Bodies, InCall, Replies
<1>1. ASSUME NEW c \in Calls, CallAsync(c) PROVE IInv'
  BY <1>1 DEF CallAsync
<1>2. ASSUME NEW c \in Calls, MessageQueued(c) PROVE IInv'
  BY <1>2 DEF MessageQueued
<1>3. ASSUME NEW c \in Calls, PublishConfirmed(c) PROVE IInv'
  BY <1>3 DEF PublishConfirmed
<1>4. ASSUME NEW c \in Calls, PublishFails(c) PROVE IInv'
  BY <1>4 DEF PublishFails
<1>5. ASSUME NEW c \in Calls, TimerFires(c) PROVE IInv'
  BY <1>5 DEF TimerFires
<1>6. ASSUME NEW c \in Calls, ReturnResult(c) PROVE IInv'
  BY <1>6 DEF ReturnResult
<1>7. ASSUME NEW c \in Calls, RaiseResult(c) PROVE IInv'
  BY <1>7 DEF RaiseResult
<1>8. ASSUME NEW c \in Calls, CancelFuture(c) PROVE IInv'
  BY <1>8 DEF CancelFuture
<1>9. ASSUME NEW c \in Calls, TimesOut(c) PROVE IInv'
  BY <1>9 DEF TimesOut
<1>10. CASE OnResponse
  <2> DEFINE c == Head(callbackQueue).id
             body == Head(callbackQueue).body
  <2>1. c \in Calls /\ body \in Bodies
    BY <1>10, HeadOfReplies DEF OnResponse
  <2>2. Resolve(body) \in Results \cup {"exception"}
    BY <2>1 DEF Resolve
  <2>3. callbackQueue' \in Seq(Replies)
    BY <1>10 DEF OnResponse
  <2>4. UNCHANGED <<caller, outcome, task, connected, gatewayFaults>>
    BY <1>10 DEF OnResponse
  <2>5. futures' = futures \ {c}
    BY <1>10 DEF OnResponse
  <2>6. CASE c \in futures /\ future[c] = "pending"
    <3>1. future' = [future EXCEPT ![c] = Resolve(body)]
      BY <1>10, <2>6 DEF OnResponse
    <3> HIDE DEF c, body
    <3>2. TypeOK'
      BY <2>1, <2>2, <2>3, <2>4, <2>5, <3>1
    <3>3. QED
      BY <2>1, <2>2, <2>4, <2>5, <2>6, <3>1, <3>2
  <2>7. CASE ~(c \in futures /\ future[c] = "pending")
    <3>1. future' = future
      BY <1>10, <2>7 DEF OnResponse
    <3> HIDE DEF c, body
    <3>2. TypeOK'
      BY <2>1, <2>3, <2>4, <2>5, <3>1
    <3>3. QED
      BY <2>1, <2>4, <2>5, <2>7, <3>1, <3>2
  <2>8. QED
    BY <2>6, <2>7
<1>11. CASE LoseConnection
  <2>1. UNCHANGED <<caller, futures, future, outcome, task, callbackQueue>>
    BY <1>11 DEF LoseConnection
  <2>2. connected' \in BOOLEAN
    BY <1>11 DEF LoseConnection
  <2>3. gatewayFaults < MaxGatewayFaults /\ gatewayFaults' = gatewayFaults + 1
    BY <1>11 DEF LoseConnection
  <2>4. gatewayFaults' \in 0..MaxGatewayFaults
    BY <2>3
  <2>5. QED
    BY <2>1, <2>2, <2>4
<1>12. CASE Reconnect
  BY <1>12 DEF Reconnect
<1>13. CASE GatewayCrash
  BY <1>13 DEF GatewayCrash
<1>14. ASSUME NEW c \in Calls, NEW body \in Bodies, WorkerReplies(c, body)
       PROVE  IInv'
  BY <1>14 DEF WorkerReplies
<1>15. CASE UNCHANGED vars
  BY <1>15 DEF vars
<1> QED
  BY <1>1, <1>2, <1>3, <1>4, <1>5, <1>6, <1>7, <1>8, <1>9, <1>10, <1>11,
     <1>12, <1>13, <1>14, <1>15
  DEF Next, GatewayNext, CallerStep

\* The gateway keeps IInv for ever.
THEOREM Invariance == Spec => []IInv
  BY InitInv, NextInv, PTL DEF Spec

----------------------------------------------------------------------------

\* The variables of the gateway keep their types, for any number of calls.
THEOREM TypeCorrect == Spec => []TypeOK
<1>1. IInv => TypeOK
  BY DEF IInv
<1>2. QED
  BY <1>1, Invariance, PTL

\* self.futures never keeps the entry of a finished call unless its publish
\* raised, however replies and timeouts interleave.
THEOREM FuturesAreCleaned == Spec => []OnlyFailedPublishLeaks
<1>1. IInv => OnlyFailedPublishLeaks
  BY DEF IInv
<1>2. QED
  BY <1>1, Invariance, PTL

\* A caller whose future is pending can always be found by its reply.
THEOREM WaitersAreRegistered == Spec => []WaitingIsRegistered
<1>1. IInv => WaitingIsRegistered
  BY DEF IInv
<1>2. QED
  BY <1>1, Invariance, PTL

\* A reply that resolved a future is what the caller returns, even if the
\* timer of wait_for had fired before.
THEOREM ResultsAreReturned == Spec => []NoResultDiscarded
<1>1. IInv => NoResultDiscarded
  BY DEF IInv
<1>2. QED
  BY <1>1, Invariance, PTL

\* No step sets a result or an exception on a future that is done.
THEOREM FuturesResolveOnce == Spec => ResolvedOnce
<1> DEFINE Kept == \A c \in Calls : future[c] \notin Unresolved => future'[c] = future[c]
<1>1. ASSUME IInv, [Next]_vars PROVE Kept
  <2> USE <1>1 DEF IInv, TypeOK, FutureFollowsCaller, Unresolved
  <2>1. ASSUME NEW c \in Calls, CallAsync(c) PROVE Kept
    BY <2>1 DEF CallAsync
  <2>2. ASSUME NEW c \in Calls, CallerStep(c) PROVE Kept
    BY <2>2 DEF CallerStep, MessageQueued, PublishConfirmed, PublishFails,
       TimerFires, ReturnResult, RaiseResult, CancelFuture, TimesOut
  <2>3. CASE OnResponse
    BY <2>3 DEF OnResponse
  <2>4. CASE LoseConnection \/ Reconnect \/ GatewayCrash
    BY <2>4 DEF LoseConnection, Reconnect, GatewayCrash
  <2>5. ASSUME NEW c \in Calls, NEW body \in Bodies, WorkerReplies(c, body)
        PROVE  Kept
    BY <2>5 DEF WorkerReplies
  <2>6. CASE UNCHANGED vars
    BY <2>6 DEF vars
  <2>7. QED
    BY <1>1, <2>1, <2>2, <2>3, <2>4, <2>5, <2>6 DEF Next, GatewayNext
<1>2. QED
  BY <1>1, Invariance, PTL DEF ResolvedOnce, Spec

\* What call_async returned or raised never changes, and only a running call
\* comes to an end.
THEOREM OutcomesAreFinal == Spec => OutcomeFinal
<1> DEFINE Final ==
      \A c \in Calls :
        outcome'[c] # outcome[c] => outcome[c] = "none" /\ caller[c] \in InCall
<1>1. ASSUME IInv, [Next]_vars PROVE Final
  <2> USE <1>1 DEF IInv, TypeOK, FutureFollowsCaller, InCall
  <2>1. ASSUME NEW c \in Calls, CallAsync(c) PROVE Final
    BY <2>1 DEF CallAsync
  <2>2. ASSUME NEW c \in Calls, CallerStep(c) PROVE Final
    BY <2>2 DEF CallerStep, MessageQueued, PublishConfirmed, PublishFails,
       TimerFires, ReturnResult, RaiseResult, CancelFuture, TimesOut
  <2>3. CASE OnResponse \/ LoseConnection \/ Reconnect \/ GatewayCrash
    BY <2>3 DEF OnResponse, LoseConnection, Reconnect, GatewayCrash
  <2>4. ASSUME NEW c \in Calls, NEW body \in Bodies, WorkerReplies(c, body)
        PROVE  Final
    BY <2>4 DEF WorkerReplies
  <2>5. CASE UNCHANGED vars
    BY <2>5 DEF vars
  <2>6. QED
    BY <1>1, <2>1, <2>2, <2>3, <2>4, <2>5 DEF Next, GatewayNext
<1>2. QED
  BY <1>1, Invariance, PTL DEF OutcomeFinal, Spec
============================================================================
