------------------------ MODULE ScrapingWorker_proofs ------------------------
(***************************************************************************)
(* Proofs about ScrapingWorker for any calls, workers, limits and faults.  *)
(* IInv is the inductive invariant; NoSurvivors strengthens it when no     *)
(* connection is lost.                                                     *)
(***************************************************************************)
EXTENDS ScrapingWorker, FiniteSetTheorems, TLAPS

\* What the provers need to know about pairs.
LEMMA HandlerPair ==
  ASSUME NEW h \in Handlers
  PROVE  h[1] \in Calls /\ h[2] \in Attempts /\ h[2] \in Nat /\ h = <<h[1], h[2]>>
  BY WorkerAssumption DEF Handlers, Attempts

\* The converse: a pair of a call and a number is an attempt.
LEMMA PairHandler ==
  ASSUME NEW c \in Calls, NEW n \in Attempts
  PROVE  /\ <<c, n>> \in Handlers
         /\ <<c, n>>[1] = c
         /\ <<c, n>>[2] = n
  BY DEF Handlers

\* Every initial state satisfies IInv.
LEMMA InitInv == Init => IInv
<1> SUFFICES ASSUME Init PROVE IInv
  OBVIOUS
<1> USE DEF Init, WorkerInit
<1>1. TypeOK
  BY WorkerAssumption DEF TypeOK, Results, Steps
<1>2. DeliveredIsHandled /\ AckedWasAnswered
  BY DEF DeliveredIsHandled, AckedWasAnswered
<1>3. CompletedReplyIsTrue
  BY DEF CompletedReplyIsTrue
<1>4. ResponseIsTrue /\ AttemptsInOrder
  BY DEF ResponseIsTrue, AttemptsInOrder, Steps
<1>5. OneRequestPerWorker
  BY HandlerPair DEF OneRequestPerWorker, Holds, Current
<1>6. QED
  BY <1>1, <1>2, <1>3, <1>4, <1>5 DEF IInv

\* Replies stay true as long as no successful run is forgotten and what is
\* added to the queue is true of the call it names.
LEMMA RepliesStayTrue ==
  ASSUME IInv,
         \A g \in Handlers : child[g] = "succeeded" => child'[g] = "succeeded",
         \/ UNCHANGED callbackQueue
         \/ \E h \in Handlers, b \in Results :
              /\ callbackQueue' = Append(callbackQueue, [id |-> h[1], body |-> b])
              /\ b = "completed" => child[h] = "succeeded"
  PROVE  CompletedReplyIsTrue'
<1> DEFINE R == [id : Calls, body : Results]
           Ran(m) == m.body = "completed" =>
                       \E n \in Attempts : child'[<<m.id, n>>] = "succeeded"
<1>1. callbackQueue \in Seq(R)
  BY DEF IInv, TypeOK
<1>2. \A i \in 1..Len(callbackQueue) : Ran(callbackQueue[i])
  <2> SUFFICES ASSUME NEW i \in 1..Len(callbackQueue),
                      callbackQueue[i].body = "completed"
               PROVE  \E n \in Attempts :
                        child'[<<callbackQueue[i].id, n>>] = "succeeded"
    OBVIOUS
  <2> HIDE DEF R
  <2>1. callbackQueue[i] \in R
    BY <1>1
  <2>2. callbackQueue[i].id \in Calls
    BY <2>1 DEF R
  <2>3. PICK n \in Attempts : child[<<callbackQueue[i].id, n>>] = "succeeded"
    BY DEF IInv, CompletedReplyIsTrue
  <2>4. <<callbackQueue[i].id, n>> \in Handlers
    BY <2>2, PairHandler
  <2>5. child'[<<callbackQueue[i].id, n>>] = "succeeded"
    BY <2>3, <2>4
  <2>6. QED
    BY <2>5
<1>3. CASE UNCHANGED callbackQueue
  BY <1>2, <1>3 DEF CompletedReplyIsTrue
<1>4. ASSUME NEW h \in Handlers, NEW b \in Results,
             callbackQueue' = Append(callbackQueue, [id |-> h[1], body |-> b]),
             b = "completed" => child[h] = "succeeded"
      PROVE  CompletedReplyIsTrue'
  <2> DEFINE m == [id |-> h[1], body |-> b]
  <2>1. Ran(m)
    BY <1>4, HandlerPair
  <2>2. h[1] \in Calls
    BY HandlerPair
  <2>3. m \in R
    BY <2>2
  <2> HIDE DEF m, R, Ran
  <2>4. /\ Len(callbackQueue') = Len(callbackQueue) + 1
        /\ Len(callbackQueue) \in Nat
        /\ \A i \in 1..Len(callbackQueue) : callbackQueue'[i] = callbackQueue[i]
        /\ callbackQueue'[Len(callbackQueue) + 1] = m
    BY <1>1, <1>4, <2>3 DEF m
  <2>5. \A i \in 1..Len(callbackQueue') : Ran(callbackQueue'[i])
    BY <1>2, <2>1, <2>4
  <2>6. QED
    BY <2>5 DEF CompletedReplyIsTrue, Ran
<1>5. QED
  BY <1>3, <1>4

\* A step of one attempt that moves its program counter and may set its
\* response and its child, but no message and no reply.
LEMMA LocalStep ==
  ASSUME IInv, NEW h \in Handlers,
         pc[h] \in Steps,
         NEW p \in Steps, NEW r \in {"none"} \cup Results,
         NEW k \in {"none", "running", "succeeded", "failed", "killed"},
         p # "preparing",
         p \in {"running", "terminating"} \/ r # "none",
         p = "acking" => h[1] \in replied,
         r = "completed" => k = "succeeded",
         child[h] = "succeeded" => k = "succeeded",
         pc' = [pc EXCEPT ![h] = p],
         resp' = [resp EXCEPT ![h] = r],
         child' = [child EXCEPT ![h] = k],
         UNCHANGED <<task, attempts, at, consuming, replied, callbackQueue>>,
         faults' \in 0..MaxFaults
  PROVE  IInv'
<1>1. TypeOK'
  BY DEF IInv, TypeOK
<1>2. DeliveredIsHandled'
  BY DEF IInv, TypeOK, DeliveredIsHandled
<1>3. AckedWasAnswered'
  BY DEF IInv, AckedWasAnswered
<1>4. CompletedReplyIsTrue'
  BY RepliesStayTrue DEF IInv, TypeOK
<1>5. ResponseIsTrue'
  BY DEF IInv, TypeOK, ResponseIsTrue
<1>6. AttemptsInOrder'
  BY DEF IInv, TypeOK, AttemptsInOrder, Steps
<1>7. OneRequestPerWorker'
  BY DEF IInv, OneRequestPerWorker, Holds, Current
<1>8. QED
  BY <1>1, <1>2, <1>3, <1>4, <1>5, <1>6, <1>7 DEF IInv

\* A step of one attempt that publishes a reply.
LEMMA SendStep ==
  ASSUME IInv, NEW h \in Handlers,
         pc[h] \in Steps,
         NEW p \in Steps, NEW r \in Results, NEW b \in Results,
         p # "preparing",
         b = "completed" => resp[h] = "completed",
         r = "completed" => resp[h] = "completed",
         Send(h[1], b),
         pc' = [pc EXCEPT ![h] = p],
         resp' = [resp EXCEPT ![h] = r],
         UNCHANGED <<task, attempts, at, consuming, child>>,
         faults' \in 0..MaxFaults
  PROVE  IInv'
<1>1. h[1] \in Calls
  BY HandlerPair
<1>2. callbackQueue' \in Seq([id : Calls, body : Results])
  <2>1. [id |-> h[1], body |-> b] \in [id : Calls, body : Results]
    BY <1>1
  <2>2. QED
    BY <2>1 DEF IInv, TypeOK, Send
<1>3. replied' = replied \cup {h[1]}
  BY DEF Send
<1>4. TypeOK'
  BY <1>1, <1>2, <1>3 DEF IInv, TypeOK
<1>5. DeliveredIsHandled'
  BY DEF IInv, TypeOK, DeliveredIsHandled
<1>6. AckedWasAnswered'
  BY <1>3 DEF IInv, AckedWasAnswered
<1>7. CompletedReplyIsTrue'
  <2>1. b = "completed" => child[h] = "succeeded"
    BY DEF IInv, ResponseIsTrue
  <2>2. \E g \in Handlers, x \in Results :
          /\ callbackQueue' = Append(callbackQueue, [id |-> g[1], body |-> x])
          /\ x = "completed" => child[g] = "succeeded"
    BY <2>1 DEF Send
  <2>3. QED
    BY <2>2, RepliesStayTrue
<1>8. ResponseIsTrue'
  BY DEF IInv, TypeOK, ResponseIsTrue
<1>9. AttemptsInOrder'
  BY <1>3 DEF IInv, TypeOK, AttemptsInOrder, Steps, Results
<1>10. OneRequestPerWorker'
  BY DEF IInv, OneRequestPerWorker, Holds, Current
<1>11. QED
  BY <1>4, <1>5, <1>6, <1>7, <1>8, <1>9, <1>10 DEF IInv

\* The last step of an attempt: it acknowledges or rejects what it still holds.
LEMMA FinishStep ==
  ASSUME IInv, NEW h \in Handlers,
         pc[h] \in Steps,
         NEW verdict \in {"acked", "rejected"},
         verdict = "acked" => h[1] \in replied,
         task' = [task EXCEPT ![h[1]] = IF Current(h) THEN verdict ELSE @],
         pc' = [pc EXCEPT ![h] = "done"],
         UNCHANGED <<attempts, at, consuming, resp, child>>,
         Send(h[1], "failed") \/ UNCHANGED <<callbackQueue, replied>>,
         faults' \in 0..MaxFaults
  PROVE  IInv'
<1>1. h[1] \in Calls /\ h[2] \in Nat /\ h = <<h[1], h[2]>>
  BY HandlerPair
<1>2. /\ callbackQueue' \in Seq([id : Calls, body : Results])
      /\ replied \subseteq replied'
      /\ replied' \subseteq Calls
  <2>1. [id |-> h[1], body |-> "failed"] \in [id : Calls, body : Results]
    BY <1>1 DEF Results
  <2>2. /\ callbackQueue \in Seq([id : Calls, body : Results])
        /\ replied \subseteq Calls
    BY DEF IInv, TypeOK
  <2>3. CASE Send(h[1], "failed")
    BY <1>1, <2>1, <2>2, <2>3 DEF Send
  <2>4. CASE UNCHANGED <<callbackQueue, replied>>
    BY <2>2, <2>4
  <2>5. QED
    BY <2>3, <2>4
<1>3. TypeOK'
  BY <1>1, <1>2 DEF IInv, TypeOK
<1>4. DeliveredIsHandled'
  <2> SUFFICES ASSUME NEW c \in Calls, task'[c] = "unacked"
               PROVE  attempts[c] > 0 /\ pc'[<<c, attempts[c]>>] \in Steps
    BY DEF DeliveredIsHandled
  <2>1. task[c] = "unacked"
    BY <1>1 DEF IInv, TypeOK
  <2>2. attempts[c] > 0 /\ pc[<<c, attempts[c]>>] \in Steps
    BY <2>1 DEF IInv, DeliveredIsHandled
  <2>3. <<c, attempts[c]>> # h
    BY <1>1, <2>1 DEF IInv, TypeOK, Current
  <2>4. QED
    BY <2>2, <2>3 DEF IInv, TypeOK
<1>5. AckedWasAnswered'
  BY <1>1, <1>2 DEF IInv, TypeOK, AckedWasAnswered
<1>6. CompletedReplyIsTrue'
  <2>1. \/ UNCHANGED callbackQueue
        \/ \E g \in Handlers, x \in Results :
             /\ callbackQueue' = Append(callbackQueue, [id |-> g[1], body |-> x])
             /\ x = "completed" => child[g] = "succeeded"
    BY DEF Send, Results
  <2>2. QED
    BY <2>1, RepliesStayTrue
<1>7. ResponseIsTrue'
  BY DEF IInv, ResponseIsTrue
<1>8. AttemptsInOrder'
  BY <1>2 DEF IInv, TypeOK, AttemptsInOrder, Steps
<1>9. OneRequestPerWorker'
  <2>1. \A w : Holds(w)' \subseteq Holds(w)
    BY <1>1, HandlerPair DEF IInv, TypeOK, Holds, Current
  <2>2. QED
    BY <2>1 DEF IInv, OneRequestPerWorker
<1>10. QED
  BY <1>3, <1>4, <1>5, <1>6, <1>7, <1>8, <1>9 DEF IInv

\* The delivery of a request to a worker whose channel holds none.
LEMMA DeliverStep ==
  ASSUME IInv, NEW w \in Workers, NEW c \in Calls,
         NEW step \in {"preparing", "replying"},
         NEW response \in {"none", "busy"},
         step = "preparing" <=> response = "none",
         Deliver(w, c, step, response)
  PROVE  IInv'
<1> DEFINE n == attempts[c] + 1
           h == <<c, n>>
<1>1. n \in Attempts /\ n \in Nat /\ n > 0
  BY WorkerAssumption DEF IInv, TypeOK, Deliver, Attempts
<1>2. h \in Handlers /\ h[1] = c /\ h[2] = n
  BY <1>1, PairHandler
<1>3. /\ task[c] = "ready"
      /\ task' = [task EXCEPT ![c] = "unacked"]
      /\ attempts' = [attempts EXCEPT ![c] = n]
      /\ at' = [at EXCEPT ![h] = w]
      /\ pc' = [pc EXCEPT ![h] = step]
      /\ resp' = [resp EXCEPT ![h] = response]
      /\ Holds(w) = {}
      /\ UNCHANGED <<consuming, child, replied, callbackQueue, faults>>
  BY DEF Deliver
<1>4. n \in 0..(MaxFaults + 1)
  BY <1>1, WorkerAssumption DEF Attempts
<1>5. child[h] = "none"
  BY <1>1, <1>2 DEF IInv, TypeOK, AttemptsInOrder
<1> HIDE DEF h
<1>6. TypeOK'
  BY <1>2, <1>3, <1>4 DEF IInv, TypeOK, Steps, Results
<1>7. DeliveredIsHandled'
  <2> SUFFICES ASSUME NEW d \in Calls, task'[d] = "unacked"
               PROVE  attempts'[d] > 0 /\ pc'[<<d, attempts'[d]>>] \in Steps
    BY DEF DeliveredIsHandled
  <2>1. CASE d = c
    <3>1. attempts'[d] = n /\ <<d, attempts'[d]>> = h
      BY <1>3, <2>1 DEF IInv, TypeOK, h
    <3>2. pc'[h] = step
      BY <1>2, <1>3 DEF IInv, TypeOK
    <3>3. QED
      BY <1>1, <3>1, <3>2 DEF Steps
  <2>2. CASE d # c
    <3>1. attempts'[d] = attempts[d] /\ task[d] = "unacked"
      BY <1>3, <2>2 DEF IInv, TypeOK
    <3>2. <<d, attempts[d]>> # h
      BY <2>2 DEF h
    <3>3. QED
      BY <1>3, <3>1, <3>2 DEF IInv, TypeOK, DeliveredIsHandled
  <2>3. QED
    BY <2>1, <2>2
<1>8. AckedWasAnswered'
  BY <1>3 DEF IInv, TypeOK, AckedWasAnswered
<1>9. CompletedReplyIsTrue'
  BY <1>3, RepliesStayTrue
<1>10. ResponseIsTrue'
  BY <1>3 DEF IInv, TypeOK, ResponseIsTrue
<1>11. AttemptsInOrder'
  <2> SUFFICES ASSUME NEW g \in Handlers
               PROVE  /\ g[2] > attempts'[g[1]] =>
                           /\ at'[g] = NoWorker /\ pc'[g] = "none"
                           /\ resp'[g] = "none" /\ child'[g] = "none"
                      /\ pc'[g] = "preparing" => resp'[g] = "none" /\ child'[g] = "none"
                      /\ pc'[g] \in Steps \ {"preparing", "running", "terminating"} =>
                           resp'[g] # "none"
                      /\ pc'[g] = "acking" => g[1] \in replied'
    BY DEF AttemptsInOrder
  <2>1. CASE g = h
    BY <1>1, <1>2, <1>3, <1>5, <2>1 DEF IInv, TypeOK
  <2>2. CASE g # h
    <3>1. /\ at'[g] = at[g] /\ pc'[g] = pc[g] /\ resp'[g] = resp[g]
          /\ child'[g] = child[g] /\ replied' = replied
      BY <1>3, <2>2 DEF IInv, TypeOK
    <3>2. g[2] > attempts'[g[1]] => g[2] > attempts[g[1]]
      BY <1>1, <1>3, HandlerPair DEF IInv, TypeOK
    <3>3. QED
      BY <3>1, <3>2 DEF IInv, AttemptsInOrder
  <2>3. QED
    BY <2>1, <2>2
<1>12. OneRequestPerWorker'
  <2>1. ASSUME NEW v \in Workers, NEW g \in Holds(v)'
        PROVE  IF v = w THEN g = h ELSE g \in Holds(v)
    <3>1. g \in Handlers /\ at'[g] = v /\ task'[g[1]] = "unacked"
          /\ attempts'[g[1]] = g[2] /\ g[1] \in Calls /\ g[2] \in Nat
          /\ g = <<g[1], g[2]>>
      BY <2>1, HandlerPair DEF Holds, Current
    <3>2. CASE g[1] = c
      <4>1. g = h
        BY <1>3, <3>1, <3>2 DEF IInv, TypeOK, h
      <4>2. v = w
        BY <1>2, <1>3, <3>1, <4>1 DEF IInv, TypeOK
      <4>3. QED
        BY <4>1, <4>2
    <3>3. CASE g[1] # c
      <4>1. g # h
        BY <1>2, <3>3
      <4>2. g \in Holds(v)
        BY <1>3, <3>1, <3>3, <4>1 DEF IInv, TypeOK, Holds, Current
      <4>3. v # w
        BY <1>3, <4>2
      <4>4. QED
        BY <4>2, <4>3
    <3>4. QED
      BY <3>2, <3>3
  <2>2. QED
    BY <2>1 DEF IInv, OneRequestPerWorker
<1>13. QED
  BY <1>6, <1>7, <1>8, <1>9, <1>10, <1>11, <1>12 DEF IInv

\* A script ends by itself, whether its coroutine still waits for it or not.
LEMMA ExitStep ==
  ASSUME IInv, NEW h \in Handlers, NEW status \in {"succeeded", "failed"},
         ProcessExits(h, status)
  PROVE  IInv'
<1> USE DEF ProcessExits
<1>1. TypeOK'
  BY DEF IInv, TypeOK
<1>2. DeliveredIsHandled' /\ AckedWasAnswered'
  BY DEF IInv, DeliveredIsHandled, AckedWasAnswered
<1>3. CompletedReplyIsTrue'
  BY RepliesStayTrue DEF IInv, TypeOK
<1>4. ResponseIsTrue'
  BY DEF IInv, TypeOK, ResponseIsTrue
<1>5. AttemptsInOrder'
  BY DEF IInv, TypeOK, AttemptsInOrder
<1>6. OneRequestPerWorker'
  BY DEF IInv, OneRequestPerWorker, Holds, Current
<1>7. QED
  BY <1>1, <1>2, <1>3, <1>4, <1>5, <1>6 DEF IInv

\* The loss of a channel and the crash of a worker: what it held is requeued,
\* some of its coroutines are cancelled, some of its scripts killed.
LEMMA LossStep ==
  ASSUME IInv, NEW w \in Workers,
         Requeue(w),
         NEW D \in SUBSET Handlers, NEW K \in SUBSET Handlers,
         \A h \in D : at[h] = w,
         \A h \in K : child[h] = "running",
         \A h \in Handlers : pc[h] = "none" => h \notin D,
         pc' = [h \in Handlers |-> IF h \in D THEN "cancelled" ELSE pc[h]],
         child' = [h \in Handlers |-> IF h \in K THEN "killed" ELSE child[h]],
         UNCHANGED <<attempts, at, resp, replied, callbackQueue>>,
         consuming' \in [Workers -> BOOLEAN],
         faults' \in 0..MaxFaults
  PROVE  IInv'
<1>1. TypeOK'
  BY DEF IInv, TypeOK, Requeue
<1>2. DeliveredIsHandled'
  <2> SUFFICES ASSUME NEW c \in Calls, task'[c] = "unacked"
               PROVE  attempts[c] > 0 /\ pc'[<<c, attempts[c]>>] \in Steps
    BY DEF DeliveredIsHandled
  <2> DEFINE h == <<c, attempts[c]>>
  <2>1. task[c] = "unacked" /\ \A g \in Holds(w) : g[1] # c
    BY DEF Requeue
  <2>2. attempts[c] > 0 /\ pc[h] \in Steps
    BY <2>1 DEF IInv, DeliveredIsHandled
  <2>3. attempts[c] \in Attempts
    BY <2>2, WorkerAssumption DEF IInv, TypeOK, Attempts
  <2>4. h \in Handlers /\ h[1] = c /\ h[2] = attempts[c]
    BY <2>3, PairHandler
  <2>5. at[h] # w
    BY <2>1, <2>4 DEF Holds, Current
  <2>6. pc'[h] = pc[h]
    BY <2>4, <2>5
  <2>7. QED
    BY <2>2, <2>6
<1>3. AckedWasAnswered'
  BY DEF IInv, AckedWasAnswered, Requeue
<1>4. CompletedReplyIsTrue'
  BY RepliesStayTrue
<1>5. ResponseIsTrue'
  BY DEF IInv, ResponseIsTrue
<1>6. AttemptsInOrder'
  BY DEF IInv, AttemptsInOrder, Steps
<1>7. OneRequestPerWorker'
  <2>1. \A v : Holds(v)' \subseteq Holds(v)
    BY HandlerPair DEF Holds, Current, Requeue
  <2>2. QED
    BY <2>1 DEF IInv, OneRequestPerWorker
<1>8. QED
  BY <1>1, <1>2, <1>3, <1>4, <1>5, <1>6, <1>7 DEF IInv

\* Every step of a coroutine preserves IInv.
LEMMA HandlerInv ==
  ASSUME IInv, NEW h \in Handlers, HandlerStep(h)
  PROVE  IInv'
<1>1. /\ resp[h] \in {"none"} \cup Results
      /\ child[h] \in {"none", "running", "succeeded", "failed", "killed"}
      /\ resp = [resp EXCEPT ![h] = resp[h]]
      /\ child = [child EXCEPT ![h] = child[h]]
      /\ resp[h] = "completed" => child[h] = "succeeded"
      /\ pc[h] = "preparing" => child[h] = "none" /\ resp[h] = "none"
      /\ faults \in 0..MaxFaults
  BY DEF IInv, TypeOK, ResponseIsTrue, AttemptsInOrder
<1>2. ASSUME NEW kind, Fault(kind) PROVE faults' \in 0..MaxFaults
  BY <1>1, <1>2, WorkerAssumption DEF Fault
<1> USE DEF Steps, Results
<1>3. CASE PrepareFails(h)
  BY <1>1, <1>3, LocalStep DEF PrepareFails
<1>4. CASE StartProcess(h)
  BY <1>1, <1>4, LocalStep DEF StartProcess
<1>5. CASE CollectResult(h)
  BY <1>1, <1>5, LocalStep DEF CollectResult
<1>6. CASE ProcessTimeout(h)
  BY <1>1, <1>6, LocalStep DEF ProcessTimeout
<1>7. CASE ProcessKilled(h)
  <2> DEFINE k == IF child[h] = "running" THEN "killed" ELSE child[h]
  <2>1. child' = [child EXCEPT ![h] = k]
    BY <1>7 DEF ProcessKilled
  <2>2. QED
    BY <1>1, <1>7, <2>1, LocalStep DEF ProcessKilled
<1>8. CASE EventPublished(h)
  <2>1. resp[h] # "none"
    BY <1>8 DEF EventPublished, IInv, AttemptsInOrder
  <2>2. QED
    BY <1>1, <1>8, <2>1, LocalStep DEF EventPublished
<1>9. CASE EventFails(h)
  BY <1>1, <1>2, <1>9, LocalStep DEF EventFails
<1>10. CASE Reply(h)
  <2>1. resp[h] \in Results
    BY <1>1, <1>10 DEF Reply, IInv, AttemptsInOrder
  <2>2. QED
    BY <1>1, <1>10, <2>1, SendStep DEF Reply
<1>11. CASE ReplyFails(h)
  <2>1. resp[h] \in Results
    BY <1>1, <1>11 DEF ReplyFails, IInv, AttemptsInOrder
  <2>2. faults' \in 0..MaxFaults
    BY <1>2, <1>11 DEF ReplyFails
  <2>3. /\ pc[h] = "replying"
        /\ pc' = [pc EXCEPT ![h] = "apologising"]
        /\ resp' = [resp EXCEPT ![h] = "failed"]
        /\ UNCHANGED <<task, attempts, at, consuming, child>>
    BY <1>11 DEF ReplyFails
  <2>4. CASE Send(h[1], resp[h])
    BY <2>1, <2>2, <2>3, <2>4, SendStep
  <2>5. CASE UNCHANGED <<callbackQueue, replied>>
    BY <1>1, <2>2, <2>3, <2>5, LocalStep
  <2>6. QED
    BY <1>11, <2>4, <2>5 DEF ReplyFails
<1>12. CASE Apologise(h)
  <2>1. resp[h] \in Results
    BY <1>1, <1>12 DEF Apologise, IInv, AttemptsInOrder
  <2>2. QED
    BY <1>1, <1>12, <2>1, SendStep DEF Apologise
<1>13. CASE ApologyFails(h)
  BY <1>2, <1>13, FinishStep DEF ApologyFails
<1>14. CASE Acknowledge(h)
  <2>1. h[1] \in replied
    BY <1>14 DEF Acknowledge, IInv, AttemptsInOrder
  <2>2. QED
    BY <1>1, <1>14, <2>1, FinishStep DEF Acknowledge
<1>15. QED
  BY <1>3, <1>4, <1>5, <1>6, <1>7, <1>8, <1>9, <1>10, <1>11, <1>12, <1>13,
     <1>14 DEF HandlerStep

\* Every step of a worker or of the broker on its behalf preserves IInv.
LEMMA WorkerInv == IInv /\ WorkerNext => IInv'
<1> SUFFICES ASSUME IInv, WorkerNext PROVE IInv'
  OBVIOUS
<1>1. ASSUME NEW w \in Workers, NEW c \in Calls, Accept(w, c) \/ Refuse(w, c)
      PROVE  IInv'
  BY <1>1, DeliverStep DEF Accept, Refuse
<1>2. ASSUME NEW w \in Workers, LoseConnection(w)
      PROVE  IInv'
  <2>1. Requeue(w) /\ faults' \in 0..MaxFaults
        /\ UNCHANGED <<attempts, at, resp, replied, callbackQueue>>
    BY <1>2, WorkerAssumption DEF LoseConnection, Fault, IInv, TypeOK
  <2>0. consuming' \in [Workers -> BOOLEAN]
    <3>1. CASE consuming' = [consuming EXCEPT ![w] = FALSE]
      BY <3>1, Zenon DEF IInv, TypeOK
    <3>2. CASE UNCHANGED consuming
      BY <3>2 DEF IInv, TypeOK
    <3>3. QED
      BY <1>2, <3>1, <3>2 DEF LoseConnection
  <2>2. child' = [h \in Handlers |-> IF h \in {} THEN "killed" ELSE child[h]]
    BY <1>2 DEF LoseConnection, IInv, TypeOK
  <2>3. \A h \in Holds(w) : h \in Handlers /\ at[h] = w /\ pc[h] # "none"
    BY HandlerPair DEF Holds, Current, IInv, DeliveredIsHandled, Steps
  <2>4. CASE pc' = [h \in Handlers |-> IF h \in Holds(w) THEN "cancelled" ELSE pc[h]]
    <3>1. Holds(w) \in SUBSET Handlers /\ {} \in SUBSET Handlers
      BY <2>3
    <3> HIDE DEF Holds
    <3>2. QED
      BY <2>0, <2>1, <2>2, <2>3, <2>4, <3>1, LossStep
  <2>5. CASE UNCHANGED pc
    <3>1. pc' = [h \in Handlers |-> IF h \in {} THEN "cancelled" ELSE pc[h]]
      BY <2>5 DEF IInv, TypeOK
    <3>2. {} \in SUBSET Handlers
      OBVIOUS
    <3>3. /\ \A h \in {} : at[h] = w
          /\ \A h \in {} : child[h] = "running"
          /\ \A h \in Handlers : pc[h] = "none" => h \notin {}
      OBVIOUS
    <3>4. QED
      BY <2>0, <2>1, <2>2, <3>1, <3>2, <3>3, LossStep
  <2>6. QED
    BY <1>2, <2>4, <2>5 DEF LoseConnection
<1>3. ASSUME NEW w \in Workers, WorkerCrash(w)
      PROVE  IInv'
  <2> DEFINE D == {h \in Handlers : at[h] = w /\ pc[h] \in Steps}
             K == {h \in Handlers : at[h] = w /\ child[h] = "running"}
  <2>1. Requeue(w) /\ faults' \in 0..MaxFaults
        /\ UNCHANGED <<attempts, at, resp, replied, callbackQueue>>
        /\ consuming' \in [Workers -> BOOLEAN]
    BY <1>3, WorkerAssumption DEF WorkerCrash, Fault, IInv, TypeOK
  <2>2. /\ pc' = [h \in Handlers |-> IF h \in D THEN "cancelled" ELSE pc[h]]
        /\ child' = [h \in Handlers |-> IF h \in K THEN "killed" ELSE child[h]]
    BY <1>3 DEF WorkerCrash
  <2>3. /\ D \in SUBSET Handlers /\ K \in SUBSET Handlers
        /\ \A h \in D : at[h] = w
        /\ \A h \in K : child[h] = "running"
        /\ \A h \in Handlers : pc[h] = "none" => h \notin D
    BY DEF Steps
  <2> HIDE DEF D, K
  <2>4. QED
    BY <2>1, <2>2, <2>3, LossStep
<1>4. QED
  BY <1>1, <1>2, <1>3, HandlerInv, ExitStep DEF WorkerNext

\* The gateway publishes requests and takes or drops replies from the front.
LEMMA GatewayInv ==
  ASSUME IInv, UNCHANGED workerVars,
         \/ UNCHANGED task
         \/ \E c \in Calls : task[c] = "absent" /\ task' = [task EXCEPT ![c] = "ready"],
         \/ callbackQueue' \in {callbackQueue, <<>>}
         \/ callbackQueue # <<>> /\ callbackQueue' = Tail(callbackQueue)
  PROVE  IInv'
<1> USE DEF workerVars
<1>1. callbackQueue' \in Seq([id : Calls, body : Results])
  <2> DEFINE R == [id : Calls, body : Results]
  <2>1. callbackQueue \in Seq(R)
    BY DEF IInv, TypeOK
  <2> HIDE DEF R
  <2>2. callbackQueue # <<>> => Tail(callbackQueue) \in Seq(R)
    BY <2>1
  <2>3. <<>> \in Seq(R)
    OBVIOUS
  <2>4. callbackQueue' \in Seq(R)
    BY <2>1, <2>2, <2>3
  <2>5. QED
    BY <2>4 DEF R
<1>2. TypeOK'
  BY <1>1 DEF IInv, TypeOK
<1>3. DeliveredIsHandled'
  BY DEF IInv, TypeOK, DeliveredIsHandled
<1>4. AckedWasAnswered'
  BY DEF IInv, TypeOK, AckedWasAnswered
<1>5. CompletedReplyIsTrue'
  <2>1. CASE callbackQueue' = callbackQueue
    BY <2>1 DEF IInv, CompletedReplyIsTrue
  <2>2. CASE callbackQueue' = <<>>
    BY <2>2 DEF CompletedReplyIsTrue
  <2>3. CASE callbackQueue # <<>> /\ callbackQueue' = Tail(callbackQueue)
    <3>1. callbackQueue \in Seq([id : Calls, body : Results])
      BY DEF IInv, TypeOK
    <3>2. \A i \in 1..Len(callbackQueue') :
             i + 1 \in 1..Len(callbackQueue) /\ callbackQueue'[i] = callbackQueue[i + 1]
      BY <2>3, <3>1
    <3>3. QED
      BY <3>2 DEF IInv, CompletedReplyIsTrue
  <2>4. QED
    BY <2>1, <2>2, <2>3
<1>6. ResponseIsTrue' /\ AttemptsInOrder'
  BY DEF IInv, ResponseIsTrue, AttemptsInOrder
<1>7. OneRequestPerWorker'
  <2>1. \A v : Holds(v)' = Holds(v)
    BY HandlerPair DEF IInv, TypeOK, Holds, Current
  <2>2. QED
    BY <2>1 DEF IInv, OneRequestPerWorker
<1>8. QED
  BY <1>2, <1>3, <1>4, <1>5, <1>6, <1>7 DEF IInv

\* Every step, of a worker or of its environment, preserves IInv.
LEMMA NextInv == IInv /\ [Next]_vars => IInv'
<1> SUFFICES ASSUME IInv, [Next]_vars PROVE IInv'
  OBVIOUS
<1>1. CASE WorkerNext
  BY <1>1, WorkerInv
<1>2. ASSUME NEW c \in Calls, PublishRequest(c) PROVE IInv'
  BY <1>2, GatewayInv DEF PublishRequest
<1>3. CASE TakeReply
  BY <1>3, GatewayInv DEF TakeReply
<1>4. CASE UNCHANGED vars
  BY <1>4, GatewayInv DEF vars, workerVars
<1>5. QED
  BY <1>1, <1>2, <1>3, <1>4 DEF Next

\* The workers and the broker keep IInv for ever.
THEOREM Invariance == Spec => []IInv
  BY InitInv, NextInv, PTL DEF Spec

----------------------------------------------------------------------------

\* The variables of the workers and the broker keep their types.
THEOREM TypeCorrect == Spec => []TypeOK
<1>1. IInv => TypeOK
  BY DEF IInv
<1>2. QED
  BY <1>1, Invariance, PTL

\* No delivered request is ever without a live coroutine: whatever is lost, the
\* broker either gets its acknowledgement or delivers it again.
THEOREM NothingIsStranded == Spec => []DeliveredIsHandled
<1>1. IInv => DeliveredIsHandled
  BY DEF IInv
<1>2. QED
  BY <1>1, Invariance, PTL

\* The broker forgets no request before a reply to it was published.
THEOREM AcknowledgedMeansAnswered == Spec => []AckedWasAnswered
<1>1. IInv => AckedWasAnswered
  BY DEF IInv
<1>2. QED
  BY <1>1, Invariance, PTL

\* No reply claims a success that did not happen.
THEOREM RepliesAreTrue == Spec => []CompletedReplyIsTrue
<1>1. IInv => CompletedReplyIsTrue
  BY DEF IInv
<1>2. QED
  BY <1>1, Invariance, PTL

\* Acknowledged and rejected requests are done with, in every behaviour.
THEOREM SettledRequestsStay == Spec => SettledIsFinal
<1> DEFINE Settled == \A c \in Calls :
             task[c] \in {"acked", "rejected"} =>
               task'[c] = task[c] /\ attempts'[c] = attempts[c]
<1>1. ASSUME IInv, [Next]_vars PROVE Settled
  <2> USE <1>1 DEF IInv, TypeOK
  <2>1. ASSUME NEW w \in Workers, NEW d \in Calls, Accept(w, d) \/ Refuse(w, d)
        PROVE  Settled
    BY <2>1 DEF Accept, Refuse, Deliver
  <2>2. ASSUME NEW h \in Handlers, HandlerStep(h)
        PROVE  Settled
    <3>1. CASE Acknowledge(h) \/ ApologyFails(h)
      BY <3>1 DEF Acknowledge, ApologyFails, Current
    <3>2. CASE ~(Acknowledge(h) \/ ApologyFails(h))
      <4>1. UNCHANGED <<task, attempts>>
        BY <2>2, <3>2 DEF HandlerStep, PrepareFails, StartProcess, CollectResult,
           ProcessTimeout, ProcessKilled, EventPublished, EventFails, Reply,
           ReplyFails, Apologise
      <4>2. QED
        BY <4>1
    <3>3. QED
      BY <3>1, <3>2
  <2>3. ASSUME NEW h \in Handlers, NEW status, ProcessExits(h, status)
        PROVE  Settled
    BY <2>3 DEF ProcessExits
  <2>4. ASSUME NEW w \in Workers, LoseConnection(w) \/ WorkerCrash(w)
        PROVE  Settled
    <3>1. Requeue(w) /\ UNCHANGED attempts
      BY <2>4 DEF LoseConnection, WorkerCrash
    <3>2. \A c \in Calls :
            task[c] \in {"acked", "rejected"} => ~\E h \in Holds(w) : h[1] = c
      BY DEF Holds, Current
    <3>3. QED
      BY <3>1, <3>2 DEF Requeue
  <2>5. ASSUME NEW d \in Calls, PublishRequest(d)
        PROVE  Settled
    BY <2>5 DEF PublishRequest, workerVars
  <2>6. CASE TakeReply \/ UNCHANGED vars
    BY <2>6 DEF TakeReply, workerVars, vars
  <2>7. QED
    BY <1>1, <2>1, <2>2, <2>3, <2>4, <2>5, <2>6 DEF Next, WorkerNext
<1>2. QED
  BY <1>1, Invariance, PTL DEF SettledIsFinal, Spec

----------------------------------------------------------------------------
(* Without lost connections *)

\* A worker whose channel holds no request has no live coroutine, so it is not
\* busy: prefetch_count = 1 keeps it within any limit.
LEMMA FreeIsNotBusy ==
  ASSUME NoSurvivors, NEW w \in Workers, Holds(w) = {}
  PROVE  ~IsBusy(w)
<1>1. ActiveProcesses(w) = {}
  BY DEF ActiveProcesses, NoSurvivors, Holds, Steps
<1>2. Cardinality(ActiveProcesses(w)) = 0
  BY <1>1, FS_EmptySet
<1>3. QED
  BY <1>2, WorkerAssumption DEF IsBusy

\* A coroutine's own step leaves no survivor behind.
LEMMA HandlerLeavesNone ==
  ASSUME IInv, NoSurvivors, NEW h \in Handlers, HandlerStep(h)
  PROVE  NoSurvivors'
<1> USE DEF IInv, TypeOK
<1>1. CASE Acknowledge(h) \/ ApologyFails(h)
  <2>1. /\ UNCHANGED <<attempts, at, resp, child>>
        /\ pc' = [pc EXCEPT ![h] = "done"]
        /\ \E v \in {"acked", "rejected"} :
             task' = [task EXCEPT ![h[1]] = IF Current(h) THEN v ELSE @]
        /\ pc[h] \in {"acking", "apologising"}
    BY <1>1 DEF Acknowledge, ApologyFails
  <2>2. ASSUME NEW g \in Handlers, g # h
        PROVE  pc'[g] = pc[g] /\ (Current(g) => Current(g)')
    <3>1. pc'[g] = pc[g]
      BY <2>1, <2>2
    <3>2. g[1] \in Calls /\ h[1] \in Calls /\ g = <<g[1], g[2]>> /\ h = <<h[1], h[2]>>
      BY HandlerPair
    <3>3. ASSUME Current(g) PROVE task'[g[1]] = task[g[1]]
      <4>1. g[1] = h[1] => ~Current(h)
        BY <2>2, <3>2, <3>3 DEF Current
      <4>2. QED
        BY <2>1, <3>2, <4>1
    <3>4. QED
      BY <2>1, <3>1, <3>3 DEF Current
  <2>3. pc'[h] = "done" /\ child[h] # "running"
    BY <2>1 DEF NoSurvivors
  <2>4. QED
    BY <2>1, <2>2, <2>3 DEF NoSurvivors, Steps
<1>2. CASE ~(Acknowledge(h) \/ ApologyFails(h))
  <2>1. UNCHANGED <<task, attempts>>
    BY <1>2 DEF HandlerStep, PrepareFails, StartProcess, CollectResult,
       ProcessTimeout, ProcessKilled, EventPublished, EventFails, Reply,
       ReplyFails, Apologise
  <2>2. \A g : Current(g)' = Current(g)
    BY <2>1 DEF Current
  <2>3. /\ \A g \in Handlers : g # h =>
             pc'[g] = pc[g] /\ child'[g] = child[g] /\ resp'[g] = resp[g]
        /\ pc[h] \in Steps
        /\ resp'[h] # "busy"
        /\ child'[h] = "running" => pc'[h] \in {"running", "terminating"}
    <3> USE DEF NoSurvivors, Steps
    <3>1. CASE PrepareFails(h) \/ StartProcess(h)
      BY <3>1 DEF PrepareFails, StartProcess
    <3>2. CASE CollectResult(h) \/ ProcessTimeout(h) \/ ProcessKilled(h)
      BY <3>2 DEF CollectResult, ProcessTimeout, ProcessKilled
    <3>3. CASE EventPublished(h) \/ EventFails(h)
      BY <3>3 DEF EventPublished, EventFails
    <3>4. CASE Reply(h) \/ ReplyFails(h) \/ Apologise(h)
      BY <3>4 DEF Reply, ReplyFails, Apologise
    <3>5. QED
      BY <1>2, <3>1, <3>2, <3>3, <3>4 DEF HandlerStep
  <2>4. QED
    BY <2>2, <2>3 DEF NoSurvivors
<1>3. QED
  BY <1>1, <1>2

\* A gateway publishes requests and takes replies; neither concerns a coroutine.
LEMMA GatewayLeavesNone ==
  ASSUME IInv, NoSurvivors, UNCHANGED workerVars,
         \/ UNCHANGED task
         \/ \E c \in Calls : task[c] = "absent" /\ task' = [task EXCEPT ![c] = "ready"]
  PROVE  NoSurvivors'
  BY HandlerPair DEF IInv, TypeOK, workerVars, NoSurvivors, Current

\* Nor does any other step, as long as no connection is lost.
LEMMA NoSurvivorsInv ==
  ASSUME "connection_lost" \notin FaultKinds
  PROVE  IInv /\ NoSurvivors /\ [Next]_vars => NoSurvivors'
<1> SUFFICES ASSUME IInv, NoSurvivors, [Next]_vars
             PROVE  NoSurvivors'
  OBVIOUS
<1> USE DEF IInv, TypeOK
<1>1. ASSUME NEW w \in Workers, NEW c \in Calls, Accept(w, c) \/ Refuse(w, c)
      PROVE  NoSurvivors'
  <2>1. Holds(w) = {}
    BY <1>1 DEF Accept, Refuse, Deliver
  <2>2. Deliver(w, c, "preparing", "none")
    BY <1>1, <2>1, FreeIsNotBusy DEF Accept, Refuse
  <2>3. attempts[c] + 1 \in Attempts
    BY <2>2, WorkerAssumption DEF Deliver, Attempts
  <2>4. PICK h \in Handlers : h = <<c, attempts[c] + 1>>
    BY <2>3, PairHandler
  <2>5. h[1] = c /\ h[2] = attempts[c] + 1 /\ h[2] > attempts[c]
    BY <2>4
  <2>6. /\ task[c] = "ready"
        /\ task' = [task EXCEPT ![c] = "unacked"]
        /\ attempts' = [attempts EXCEPT ![c] = h[2]]
        /\ pc' = [pc EXCEPT ![h] = "preparing"]
        /\ resp' = [resp EXCEPT ![h] = "none"]
        /\ UNCHANGED child
    BY <2>2, <2>4, <2>5 DEF Deliver
  <2>7. child[h] # "running" /\ Current(h)'
    BY <2>5, <2>6 DEF AttemptsInOrder, Current
  <2>8. ASSUME NEW g \in Handlers, g # h
        PROVE  /\ pc'[g] = pc[g] /\ child'[g] = child[g] /\ resp'[g] = resp[g]
               /\ Current(g) => Current(g)'
    BY <2>6, <2>8, HandlerPair DEF Current
  <2>9. QED
    BY <2>6, <2>7, <2>8 DEF NoSurvivors
<1>2. ASSUME NEW h \in Handlers, HandlerStep(h)
      PROVE  NoSurvivors'
  BY <1>2, HandlerLeavesNone
<1>3. ASSUME NEW h \in Handlers, NEW status \in {"succeeded", "failed"},
             ProcessExits(h, status)
      PROVE  NoSurvivors'
  BY <1>3 DEF ProcessExits, NoSurvivors, Current
<1>4. ASSUME NEW w \in Workers, LoseConnection(w)
      PROVE  NoSurvivors'
  BY <1>4 DEF LoseConnection, Fault
<1>5. ASSUME NEW w \in Workers, WorkerCrash(w)
      PROVE  NoSurvivors'
  <2> SUFFICES ASSUME NEW h \in Handlers
               PROVE  /\ pc'[h] \in Steps => Current(h)'
                      /\ child'[h] = "running" => pc'[h] \in {"running", "terminating"}
                      /\ resp'[h] # "busy"
    BY DEF NoSurvivors
  <2>1. Requeue(w) /\ UNCHANGED <<attempts, resp>>
    BY <1>5 DEF WorkerCrash
  <2>2. /\ pc'[h] = IF at[h] = w /\ pc[h] \in Steps THEN "cancelled" ELSE pc[h]
        /\ child'[h] = IF at[h] = w /\ child[h] = "running" THEN "killed" ELSE child[h]
    BY <1>5 DEF WorkerCrash
  <2>3. ASSUME at[h] # w, Current(h)
        PROVE  Current(h)'
    <3>1. \A g \in Holds(w) : g[1] # h[1]
      BY <2>3, HandlerPair DEF Holds, Current
    <3>2. h[1] \in Calls
      BY HandlerPair
    <3>3. QED
      BY <2>1, <2>3, <3>1, <3>2 DEF Requeue, Current
  <2>4. QED
    BY <2>1, <2>2, <2>3 DEF NoSurvivors, Steps
<1>6. ASSUME NEW c \in Calls, PublishRequest(c)
      PROVE  NoSurvivors'
  BY <1>6, GatewayLeavesNone DEF PublishRequest
<1>7. CASE TakeReply \/ UNCHANGED vars
  BY <1>7, GatewayLeavesNone DEF TakeReply, workerVars, vars
<1>8. QED
  BY <1>1, <1>2, <1>3, <1>4, <1>5, <1>6, <1>7 DEF Next, WorkerNext

\* With healthy connections - workers may crash and publishes fail - every live
\* coroutine holds its message and nobody is refused.
THEOREM HealthyChannelsLeaveNoSurvivors ==
  ASSUME "connection_lost" \notin FaultKinds
  PROVE  Spec => []NoSurvivors
<1>1. Init => NoSurvivors
  BY DEF Init, WorkerInit, NoSurvivors, Steps
<1>2. IInv /\ NoSurvivors /\ [Next]_vars => NoSurvivors'
  BY NoSurvivorsInv
<1>3. QED
  BY <1>1, <1>2, Invariance, PTL DEF Spec

\* A live script then has a coroutine that holds the only message of its worker.
LEMMA LimitFollows == IInv /\ NoSurvivors => ChildLimit
<1> SUFFICES ASSUME IInv, NoSurvivors, NEW w \in Workers
             PROVE  Cardinality({h \in Handlers : at[h] = w /\ child[h] = "running"})
                      <= MaxConcurrentTasks
  BY DEF ChildLimit
<1> DEFINE S == {h \in Handlers : at[h] = w /\ child[h] = "running"}
<1>1. \A g, h \in S : g = h
  BY DEF IInv, OneRequestPerWorker, NoSurvivors, Holds, Steps
<1>2. CASE S = {}
  BY <1>2, FS_EmptySet, WorkerAssumption
<1>3. CASE S # {}
  <2>1. PICK h : S = {h}
    BY <1>1, <1>3
  <2>2. Cardinality(S) = 1
    BY <2>1, FS_Singleton
  <2>3. QED
    BY <2>2, WorkerAssumption
<1>4. QED
  BY <1>2, <1>3

\* ... and no worker ever runs more scripts than max_concurrent_tasks (it never
\* runs two at once).
THEOREM HealthyChannelsKeepLimit ==
  ASSUME "connection_lost" \notin FaultKinds
  PROVE  Spec => []ChildLimit
  BY LimitFollows, Invariance, HealthyChannelsLeaveNoSurvivors, PTL
=============================================================================
