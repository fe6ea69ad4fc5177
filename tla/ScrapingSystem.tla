--------------------------- MODULE ScrapingSystem ---------------------------
(***************************************************************************)
(* The gateway of RabbitMQRPC and the workers of ScrapingWorker, joined by *)
(* the durable task queue ("task") and the exclusive callback queue        *)
(* ("callbackQueue").  Each side takes its own steps; the environment      *)
(* actions of the two modules are gone.                                    *)
(*                                                                         *)
(* The client's view of the whole is the specification RpcCall.            *)
(***************************************************************************)
EXTENDS Naturals, Sequences, FiniteSets

CONSTANTS
  Calls, Workers, NoWorker, MaxConcurrentTasks,
  FaultKinds, MaxFaults,   \* faults of workers (see ScrapingWorker)
  MaxGatewayFaults         \* faults of the gateway (see RabbitMQRPC)

\* The assumptions of the two modules together.
ASSUME SystemAssumption ==
  /\ NoWorker \notin Workers
  /\ MaxConcurrentTasks \in Nat \ {0}
  /\ FaultKinds \subseteq {"connection_lost", "worker_crash", "publish_failed"}
  /\ MaxFaults \in Nat
  /\ MaxGatewayFaults \in Nat

VARIABLES
  caller, futures, future, outcome, connected, gatewayFaults,  \* gateway
  attempts, at, consuming, pc, resp, child, replied, faults,           \* workers
  task, callbackQueue                                          \* broker

gatewayOnly == <<caller, futures, future, outcome, connected, gatewayFaults>>
workerOnly == <<attempts, at, consuming, pc, resp, child, replied, faults>>
vars == <<gatewayOnly, workerOnly, task, callbackQueue>>

\* MaxQueued bounds an environment action that is not used here.
Gateway == INSTANCE RabbitMQRPC WITH MaxQueued <- 0
Worker == INSTANCE ScrapingWorker

Init == Gateway!Init /\ Worker!WorkerInit

GatewayStep == Gateway!GatewayNext /\ UNCHANGED workerOnly
WorkerStep == Worker!WorkerNext /\ UNCHANGED gatewayOnly

Next == GatewayStep \/ WorkerStep

Spec == Init /\ [][Next]_vars

\* The loop of the gateway runs every ready coroutine and every timer, and its
\* robust connection keeps retrying.  The loop of a worker runs each of its
\* coroutines, the broker delivers a ready request to some free worker, and
\* get_script and the publishes end one way or the other.  A script need not
\* end (ProcessTimeout is a step of its handler); nobody has to call or crash.
Fairness ==
  /\ \A c \in Calls : WF_vars(Gateway!CallerStep(c) /\ UNCHANGED workerOnly)
  /\ WF_vars(Gateway!Reconnect /\ UNCHANGED workerOnly)
  /\ \A h \in Worker!Handlers :
       WF_vars(Worker!HandlerStep(h) /\ UNCHANGED gatewayOnly)
  /\ \A c \in Calls :
       WF_vars(/\ \E w \in Workers : Worker!Accept(w, c) \/ Worker!Refuse(w, c)
               /\ UNCHANGED gatewayOnly)

FairSpec == Spec /\ Fairness

----------------------------------------------------------------------------
(* Properties *)

TypeOK ==
  /\ Gateway!TypeOK
  /\ Worker!TypeOK

\* The script of call c has come to a successful end in some attempt.
Succeeded(c) == \E n \in Worker!Attempts : child[<<c, n>>] = "succeeded"

\* "completed" reaches a client only if a run of the script of that very call
\* succeeded: no crossed replies, no duplicate, late or error reply is taken
\* for a success, whatever is lost or delivered again.
CompletedMeansSucceeded ==
  \A c \in Calls : outcome[c] = "completed" => Succeeded(c)

\* What ties the two sides together: a resolved future is as true as the reply
\* that resolved it, and a request runs only after its caller published it.
CallsFitRequests ==
  \A c \in Calls :
    /\ future[c] = "completed" => Succeeded(c)
    /\ task[c] # "absent" => caller[c] \notin {"idle", "publishing"}
    /\ attempts[c] > 0 => task[c] # "absent"

\* The conjunction that a step preserves (ScrapingSystem_proofs).
IInv ==
  /\ Gateway!IInv
  /\ Worker!IInv
  /\ CallsFitRequests

\* A client is told that the worker is busy only when workers lose their
\* channels: one that asks a healthy system waits in the queue instead.
BusyNeedsLostChannel ==
  "connection_lost" \notin FaultKinds =>
    \A c \in Calls : outcome[c] # "busy"

\* While no channel is lost a worker never has more than one script, and every
\* script that runs has its coroutine - with a gateway whose callers time out,
\* and whose replies end up in an exclusive queue, as with any other environment.
ChildLimit == Worker!ChildLimit
NoSurvivors == Worker!NoSurvivors

\* Nor is anybody about to be told so: no reply under way says it, and no future.
NobodyIsBusy ==
  /\ \A i \in 1..Len(callbackQueue) : callbackQueue[i].body # "busy"
  /\ \A c \in Calls : future[c] # "busy" /\ outcome[c] # "busy"

\* The client's view.
ClientAnswer ==
  [c \in Calls |->
     IF outcome[c] # "none" THEN outcome[c]
     ELSE CASE caller[c] = "idle" -> "new"
            [] caller[c] = "lost" -> "lost"
            [] OTHER -> "open"]

Ran == {c \in Calls : Succeeded(c)}

Abs == INSTANCE RpcCall WITH answer <- ClientAnswer, ran <- Ran

\* The system implements what POST /scrape promises.
ImplementsRpcCall == Abs!Spec

\* Every submitted call ends and every request that reached the task queue is
\* settled, together: the timeout of a caller does not take the request away.
EveryCallEnds == Abs!EveryCallEnds
RequestSettles == Worker!RequestSettles
============================================================================
