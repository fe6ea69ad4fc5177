--------------------------- MODULE WorkerLifecycle ---------------------------
(***************************************************************************)
(* One worker process from main() to its end: initialize, start with its   *)
(* three loops, the shutdown signal, cleanup in start's "finally", stop    *)
(* with its wait and a second cleanup - while the message handler, which   *)
(* nobody stops before the connection is closed, goes on taking requests   *)
(* and starting scripts.                                                   *)
(*                                                                         *)
(* Requests that are lost and sent again are ScrapingWorker's subject.     *)
(* Here a lost channel matters for what it does to active_processes: the   *)
(* request goes back and the next one of Tasks comes while the first has   *)
(* its script still (a request that comes back to the same worker counts   *)
(* as another one of Tasks).  A publish on a channel the worker has closed *)
(* itself is assumed to raise.                                             *)
(***************************************************************************)
EXTENDS Naturals, FiniteSets

CONSTANTS
  Tasks,     \* the requests this worker may be sent
  MaxFaults  \* bound: how many of the four kinds of fault happen

ASSUME LifecycleAssumption == MaxFaults \in Nat /\ IsFiniteSet(Tasks)

VARIABLES
  shutdown,   \* is_shutdown, set by the signal handler
  main,       \* where main() stands
  stopping,   \* stop() has been called: this is its cleanup, not start's
  loops,      \* the loops start() waits for
  consuming,  \* the broker has a consumer for this worker
  conn,       \* conn[k]: the connections of RabbitMQWorker, TaskManager, WorkerMonitor
  message,    \* message[t]: the request at the broker
  pc,         \* pc[t]: where the coroutine of t stands
  child,      \* child[t]: the script's process
  active,     \* active_processes
  said,       \* what the last status or heartbeat says of this worker
  walk,       \* cleanup_all_processes on its way through active_processes
  late,       \* scripts registered after a cleanup looked for them (history)
  orphans,    \* scripts a lost channel took out of the dictionary (history)
  changed,    \* a walk met a dictionary that had changed (history)
  faults      \* what has failed: "initialize", "consume", "cleanup" (an await
              \* raised there), "channel" (lost while requests were handled)

handlerVars == <<message, pc, child, active, late, orphans>>
cleanupVars == <<walk, changed>>
vars == <<shutdown, main, stopping, loops, consuming, conn, message, pc, child,
          active, said, walk, late, orphans, changed, faults>>

Loops == {"heartbeat", "status", "cleanup"}
Connections == {"queue", "tasks", "monitor"}

\* The awaits of initialize(), in order.
Initializing == Connections \cup {"registering"}

\* The awaits of cleanup(), in order.
Cleanup == {"inactive", "scripts", "killing", "close queue", "close tasks", "close monitor"}

\* Where a coroutine of the handler is between its first step and its last.
Handling == {"announcing", "preparing", "forking", "running", "reporting", "replying"}

NoWalk == [now |-> {}, seen |-> {}, size |-> 0, moved |-> FALSE]

\* A dictionary entry is that of a coroutine inside execute_script.
TypeOK ==
  /\ shutdown \in BOOLEAN /\ stopping \in BOOLEAN /\ consuming \in BOOLEAN
  /\ main \in {"starting", "looping", "waiting", "returning", "stopped"}
              \cup Initializing \cup Cleanup
  /\ loops \subseteq Loops
  /\ conn \in [Connections -> {"none", "open", "closed"}]
  /\ message \in [Tasks -> {"ready", "unacked", "acked"}]
  /\ pc \in [Tasks -> {"none", "done", "cancelled", "over"} \cup Handling]
  /\ child \in [Tasks -> {"none", "alive", "dead"}]
  /\ active \subseteq {t \in Tasks : pc[t] = "running"}
  /\ walk \in [now : SUBSET Tasks, seen : SUBSET Tasks, size : Nat, moved : BOOLEAN]
  /\ late \subseteq Tasks /\ orphans \subseteq Tasks /\ changed \in BOOLEAN
  /\ said \in {"nothing", "active", "inactive", "contradicted"}
  /\ faults \subseteq {"initialize", "consume", "cleanup", "channel"}

Init ==
  /\ shutdown = FALSE /\ stopping = FALSE /\ consuming = FALSE
  /\ main = "queue"
  /\ loops = {}
  /\ conn = [k \in Connections |-> "none"]
  /\ message = [t \in Tasks |-> "ready"]
  /\ pc = [t \in Tasks |-> "none"]
  /\ child = [t \in Tasks |-> "none"]
  /\ active = {} /\ late = {} /\ orphans = {}
  /\ walk = NoWalk /\ changed = FALSE
  /\ said = "nothing"
  /\ faults = {}

Fault(kind) ==
  /\ faults' = faults \cup {kind}
  /\ Cardinality(faults') <= MaxFaults

Goto(from, to) == main = from /\ main' = to

\* cleanup() is over, whether it came to its end or to its "except".
AfterCleanup == IF stopping THEN "returning" ELSE "waiting"

----------------------------------------------------------------------------
(* Variants with a plausible mistake: each shows that a property can fail. *)

\* SIGTERM without the SIGKILL that follows: a script may ignore it.
TerminateWithoutKill ==
  /\ Goto("killing", "close queue")
  /\ walk' = NoWalk
  /\ active' = {}
  /\ UNCHANGED <<shutdown, stopping, loops, consuming, conn, message, pc, child,
                 said, late, orphans, changed, faults>>

\* stop() waits for the scripts as long as they take.
WaitForAll ==
  /\ Goto("waiting", "inactive")
  /\ active = {}
  /\ stopping' = TRUE
  /\ UNCHANGED <<shutdown, loops, consuming, conn, handlerVars, said, cleanupVars, faults>>

\* The coroutine reports before its process has ended.
CollectEarly(t) ==
  /\ pc[t] = "running"
  /\ pc' = [pc EXCEPT ![t] = "reporting"]
  /\ active' = active \ {t}
  /\ UNCHANGED <<shutdown, main, stopping, loops, consuming, conn, message, child,
                 said, cleanupVars, late, orphans, faults>>

\* main() catches the exception, but has no "finally".
InitializeFailsAtOnce ==
  /\ Fault("initialize")
  /\ main \in Initializing
  /\ main' = "returning"
  /\ UNCHANGED <<shutdown, stopping, loops, consuming, conn, handlerVars, said, cleanupVars>>

\* gather() without return_exceptions: one loop's end is the end of all waiting.
GatherEarly ==
  /\ Goto("looping", "inactive")
  /\ loops # Loops
  /\ UNCHANGED <<shutdown, stopping, loops, consuming, conn, handlerVars, said, cleanupVars, faults>>

\* "finally" forgets to take the process out of the dictionary.
CollectKeepsEntry(t) ==
  /\ pc[t] = "running" /\ child[t] = "dead"
  /\ pc' = [pc EXCEPT ![t] = "reporting"]
  /\ UNCHANGED <<shutdown, main, stopping, loops, consuming, conn, message, child,
                 active, said, cleanupVars, late, orphans, faults>>

----------------------------------------------------------------------------
(* main, start, stop *)

Connect(k, next) ==
  /\ Goto(k, next)
  /\ conn' = [conn EXCEPT ![k] = "open"]
  /\ UNCHANGED <<shutdown, stopping, loops, consuming, handlerVars, said, cleanupVars, faults>>

ConnectQueue == Connect("queue", "tasks")
ConnectTasks == Connect("tasks", "monitor")
ConnectMonitor == Connect("monitor", "registering")

Register ==
  /\ Goto("registering", "starting")
  /\ UNCHANGED <<shutdown, stopping, loops, consuming, conn, handlerVars, said, cleanupVars, faults>>

\* An await of initialize() raises, maybe with its connection open already
\* (connect_robust returned, but then the channel or a queue was refused).
InitializeFails ==
  /\ Fault("initialize")
  /\ main \in Initializing
  /\ main' = "waiting"
  /\ conn' \in {conn, [k \in Connections |-> IF k = main THEN "open" ELSE conn[k]]}
  /\ UNCHANGED <<shutdown, stopping, loops, consuming, handlerVars, said, cleanupVars>>

\* After an early signal the loops end at their first test.  An exception of
\* start_consuming ends up in gather(return_exceptions=True): the loops go on.
Start ==
  /\ Goto("starting", "looping")
  /\ loops' = IF shutdown THEN {} ELSE Loops
  /\ \/ consuming' = TRUE /\ UNCHANGED faults
     \/ Fault("consume") /\ UNCHANGED consuming
  /\ UNCHANGED <<shutdown, stopping, conn, handlerVars, said, cleanupVars>>

Signal ==
  /\ ~shutdown /\ main # "stopped"
  /\ shutdown' = TRUE
  /\ UNCHANGED <<main, stopping, loops, consuming, conn, handlerVars, said, cleanupVars, faults>>

\* A loop wakes up and sees the flag.
LoopEnds(l) ==
  /\ shutdown /\ l \in loops
  /\ loops' = loops \ {l}
  /\ UNCHANGED <<shutdown, main, stopping, consuming, conn, handlerVars, said, cleanupVars, faults>>

\* The heartbeat loop says "active" time and again.
Heartbeat ==
  /\ "heartbeat" \in loops
  /\ said' = "active"
  /\ UNCHANGED <<shutdown, main, stopping, loops, consuming, conn, handlerVars, cleanupVars, faults>>

GatherEnds ==
  /\ Goto("looping", "inactive")
  /\ loops = {}
  /\ UNCHANGED <<shutdown, stopping, loops, consuming, conn, handlerVars, said, cleanupVars, faults>>

\* stop() has no active process to wait for, or has slept 30 times.
WaitEnds ==
  /\ Goto("waiting", "inactive")
  /\ stopping' = TRUE
  /\ UNCHANGED <<shutdown, loops, consuming, conn, handlerVars, said, cleanupVars, faults>>

----------------------------------------------------------------------------
(* cleanup *)

\* Without a connection, or with one that broke off before its exchange was
\* declared, the monitor publishes nothing.
PublishInactive ==
  /\ Goto("inactive", "scripts")
  /\ conn["monitor"] # "closed"
  /\ \/ conn["monitor"] = "open" /\ said' = "inactive"
     \/ (conn["monitor"] = "none" \/ "initialize" \in faults) /\ UNCHANGED said
  /\ UNCHANGED <<shutdown, stopping, loops, consuming, conn, handlerVars, cleanupVars, faults>>

\* The connection the first cleanup closed: the second one goes no further.
PublishOnClosed ==
  /\ Goto("inactive", AfterCleanup)
  /\ conn["monitor"] = "closed"
  /\ UNCHANGED <<shutdown, stopping, loops, consuming, conn, handlerVars, said, cleanupVars, faults>>

\* Any await of cleanup() that talks to the broker raises.
CleanupFails ==
  /\ Fault("cleanup")
  /\ main \in Cleanup \ {"scripts", "killing"}
  /\ main' = AfterCleanup
  /\ UNCHANGED <<shutdown, stopping, loops, consuming, conn, handlerVars, said, cleanupVars>>

\* cleanup_all_processes walks through the dictionary: SIGTERM to the first process
\* it finds, in whatever order they were entered, and five seconds of waiting (one
\* that has ended may be passed over at once); then, or without any, clear().
CleanupProcesses ==
  /\ main = "scripts"
  /\ \/ \E t \in active :
          /\ main' = "killing"
          /\ walk' = [now |-> {t}, seen |-> {}, size |-> Cardinality(active), moved |-> FALSE]
          /\ UNCHANGED active
     \/ /\ \A t \in active : child[t] = "dead"
        /\ main' = "close queue" /\ active' = {}
        /\ UNCHANGED walk
  /\ UNCHANGED <<shutdown, stopping, loops, consuming, conn, message, pc, child, late,
                 orphans, said, changed, faults>>

\* The entries the walk has still to come to.
Ahead == active \ (walk.seen \cup walk.now)

\* Five seconds later, SIGKILL if need be, and on to the next entry, or to the end.
\* An iterator over a dictionary whose size has changed raises, which ends the walk
\* without clear(); one that has the old size again, after an entry came and
\* another went, may raise, may miss entries or come to the new one.
KillAndGoOn ==
  /\ main = "killing"
  /\ child' = [t \in Tasks |-> IF t \in walk.now THEN "dead" ELSE child[t]]
  /\ \/ /\ Cardinality(active) # walk.size \/ walk.moved
        /\ main' = "close queue" /\ walk' = NoWalk /\ changed' = TRUE
        /\ UNCHANGED active
     \/ /\ Cardinality(active) = walk.size
        /\ \E t \in Ahead :
             walk' = [walk EXCEPT !.now = {t}, !.seen = @ \cup walk.now]
        /\ UNCHANGED <<main, active, changed>>
     \/ /\ Cardinality(active) = walk.size
        /\ (\A t \in Ahead : child[t] = "dead") \/ walk.moved
        /\ main' = "close queue" /\ active' = {} /\ walk' = NoWalk
        /\ changed' = (changed \/ walk.moved)
  /\ UNCHANGED <<shutdown, stopping, loops, consuming, conn, message, pc, said, late,
                 orphans, faults>>

Close(k) == conn' = [conn EXCEPT ![k] = IF @ = "open" THEN "closed" ELSE @]

Unacked == {t \in Tasks : message[t] = "unacked"}

\* What cancellation does to coroutines: the "finally" of execute_script forgets the
\* process, which lives on; one that create_subprocess_exec still waits for is killed.
Cancel(tasks, to) ==
  /\ pc' = [t \in Tasks |-> IF t \in tasks THEN to ELSE pc[t]]
  /\ active' = active \ tasks
  /\ child' = [t \in Tasks |-> IF t \in tasks /\ pc[t] = "forking" THEN "dead" ELSE child[t]]

GiveBack == message' = [t \in Tasks |-> IF t \in Unacked THEN "ready" ELSE message[t]]

\* RabbitMQWorker.disconnect: the message the channel held goes back to the
\* queue; its coroutine is cancelled or lives on.
Disconnect ==
  /\ Goto("close queue", "close tasks")
  /\ Close("queue")
  /\ consuming' = FALSE
  /\ GiveBack
  /\ Cancel(Unacked, "cancelled") \/ UNCHANGED <<pc, active, child>>
  /\ UNCHANGED <<shutdown, stopping, loops, said, cleanupVars, late, orphans, faults>>

\* The channel is lost and restored, maybe without its consumer.
LoseChannel ==
  /\ consuming /\ main # "stopped"
  /\ Fault("channel")
  /\ consuming' \in BOOLEAN
  /\ GiveBack
  /\ \/ /\ Cancel(Unacked, "cancelled")
        /\ orphans' = orphans \cup (active \cap Unacked)
     \/ UNCHANGED <<pc, active, child, orphans>>
  /\ UNCHANGED <<shutdown, main, stopping, loops, conn, said, cleanupVars, late>>

\* _update_worker_task_count says "active", whatever it counts and whatever
\* cleanup() has said; on a closed connection it raises and is caught.
UpdateTaskCount ==
  said' = IF conn["monitor"] # "open" THEN said
          ELSE IF said \in {"inactive", "contradicted"} THEN "contradicted" ELSE "active"

DisconnectTasks ==
  /\ Goto("close tasks", "close monitor")
  /\ Close("tasks")
  /\ UNCHANGED <<shutdown, stopping, loops, consuming, handlerVars, said, cleanupVars, faults>>

DisconnectMonitor ==
  /\ Goto("close monitor", AfterCleanup)
  /\ Close("monitor")
  /\ UNCHANGED <<shutdown, stopping, loops, consuming, handlerVars, said, cleanupVars, faults>>

\* main() has returned, and asyncio.run cancels what still runs.
CancelAll ==
  /\ Goto("returning", "stopped")
  /\ LET left == {t \in Tasks : pc[t] \in Handling \cup {"cancelled"}}
     IN  Cancel(left, "over") /\ IF left = {} THEN UNCHANGED said ELSE UpdateTaskCount
  /\ UNCHANGED <<shutdown, stopping, loops, consuming, conn, message, cleanupVars, late,
                 orphans, faults>>

----------------------------------------------------------------------------
(* The message handler, one request at a time (prefetch_count=1) *)

Deliver(t) ==
  /\ consuming /\ message[t] = "ready" /\ pc[t] = "none" /\ Unacked = {}
  /\ message' = [message EXCEPT ![t] = "unacked"]
  /\ pc' = [pc EXCEPT ![t] = "announcing"]
  /\ UNCHANGED <<shutdown, main, stopping, loops, consuming, conn, child, active,
                 said, cleanupVars, late, orphans, faults>>

Announce(t) ==
  /\ pc[t] = "announcing"
  /\ pc' = [pc EXCEPT ![t] = "preparing"]
  /\ UpdateTaskCount
  /\ UNCHANGED <<shutdown, main, stopping, loops, consuming, conn, message, child,
                 active, cleanupVars, late, orphans, faults>>

PrepareFails(t) ==
  /\ pc[t] = "preparing"
  /\ pc' = [pc EXCEPT ![t] = "reporting"]
  /\ UNCHANGED <<shutdown, main, stopping, loops, consuming, conn, message, child,
                 active, said, cleanupVars, late, orphans, faults>>

\* create_subprocess_exec has forked, and waits for its pipes to be connected.
StartScript(t) ==
  /\ pc[t] = "preparing"
  /\ pc' = [pc EXCEPT ![t] = "forking"]
  /\ child' = [child EXCEPT ![t] = "alive"]
  /\ UNCHANGED <<shutdown, main, stopping, loops, consuming, conn, message, active, said,
                 cleanupVars, late, orphans, faults>>

\* Only then the process is known to active_processes.
EnterProcess(t) ==
  /\ pc[t] = "forking"
  /\ pc' = [pc EXCEPT ![t] = "running"]
  /\ active' = active \cup {t}
  /\ walk' = [walk EXCEPT !.moved = (main = "killing")]
  /\ late' = IF stopping \/ main \in {"waiting"} \cup (Cleanup \ {"inactive", "scripts"})
               THEN late \cup {t} ELSE late
  /\ UNCHANGED <<shutdown, main, stopping, loops, consuming, conn, message, child, said,
                 orphans, changed, faults>>

\* By itself, by SIGTERM or by its timeout.
ScriptExits(t) ==
  /\ child[t] = "alive"
  /\ child' = [child EXCEPT ![t] = "dead"]
  /\ UNCHANGED <<shutdown, main, stopping, loops, consuming, conn, message, pc, active,
                 said, cleanupVars, late, orphans, faults>>

Collect(t) ==
  /\ pc[t] = "running" /\ child[t] = "dead"
  /\ pc' = [pc EXCEPT ![t] = "reporting"]
  /\ active' = active \ {t}
  /\ UNCHANGED <<shutdown, main, stopping, loops, consuming, conn, message, child,
                 said, cleanupVars, late, orphans, faults>>

\* The completion event, and _handle_task's "finally".
Report(t) ==
  /\ pc[t] = "reporting"
  /\ pc' = [pc EXCEPT ![t] = "replying"]
  /\ UpdateTaskCount
  /\ UNCHANGED <<shutdown, main, stopping, loops, consuming, conn, message, child,
                 active, cleanupVars, late, orphans, faults>>

\* A cancelled coroutine passes through the same "finally".
CancelledReports(t) ==
  /\ pc[t] = "cancelled"
  /\ pc' = [pc EXCEPT ![t] = "over"]
  /\ UpdateTaskCount
  /\ UNCHANGED <<shutdown, main, stopping, loops, consuming, conn, message, child,
                 active, cleanupVars, late, orphans, faults>>

\* Reply and acknowledgement; on a closed connection they raise, and the request
\* is back in the queue anyway.
Acknowledge(t) ==
  /\ pc[t] = "replying"
  /\ pc' = [pc EXCEPT ![t] = "done"]
  /\ message' = [message EXCEPT ![t] = IF @ = "unacked" THEN "acked" ELSE @]
  /\ UNCHANGED <<shutdown, main, stopping, loops, consuming, conn, child, active,
                 said, cleanupVars, late, orphans, faults>>

----------------------------------------------------------------------------

MainStep ==
  \/ ConnectQueue \/ ConnectTasks \/ ConnectMonitor \/ Register \/ InitializeFails
  \/ Start \/ GatherEnds \/ WaitEnds
  \/ \E l \in Loops : LoopEnds(l)
  \/ PublishInactive \/ PublishOnClosed \/ CleanupFails
  \/ CleanupProcesses \/ KillAndGoOn \/ Disconnect \/ DisconnectTasks \/ DisconnectMonitor
  \/ CancelAll

HandlerStep(t) ==
  /\ main # "stopped"
  /\ \/ Deliver(t) \/ Announce(t) \/ PrepareFails(t) \/ StartScript(t) \/ EnterProcess(t)
     \/ Collect(t) \/ Report(t) \/ CancelledReports(t) \/ Acknowledge(t)

Next ==
  \/ MainStep
  \/ Signal \/ Heartbeat \/ LoseChannel
  \/ \E t \in Tasks : HandlerStep(t) \/ ScriptExits(t)

Spec == Init /\ [][Next]_vars

\* Timers fire and the event loop runs: main() goes on whenever it can.  Nothing
\* is assumed of scripts, of requests or of their handler.
FairSpec == Spec /\ WF_vars(MainStep)

----------------------------------------------------------------------------
(* Properties *)

\* Unless an await of cleanup failed, a script that outlives its worker was
\* registered after the worker had begun to terminate its scripts.  A lost channel
\* makes two more of them: the script whose coroutine it cancelled, and, as it lets
\* a second script run, one that the walk through the dictionary had not come to
\* when it met a change.  Nothing else escapes: no fork between the cleanup and the
\* dictionary, and without a lost channel no change made during the five seconds.
OnlyLateScriptsSurvive ==
  main = "stopped" /\ "cleanup" \notin faults =>
    \A t \in Tasks : child[t] = "alive" =>
      \/ t \in late
      \/ "channel" \in faults /\ (t \in orphans \/ changed)

\* What is acknowledged was reported and has no process any more, and what was
\* taken but not acknowledged is not lost: after the shutdown it is in the queue.
ShutdownKeepsRequests ==
  /\ \A t \in Tasks : message[t] = "acked" => pc[t] = "done" /\ child[t] # "alive"
  /\ main = "stopped" /\ "cleanup" \notin faults => Unacked = {}

\* However far initialize() came and although the second cleanup stops at its
\* first statement: unless an await of cleanup failed, no connection stays open.
NothingStaysConnected ==
  main = "stopped" /\ "cleanup" \notin faults => \A k \in Connections : conn[k] # "open"

\* The last thing a worker that has stopped said of itself is "inactive", unless a
\* request's handler contradicted its cleanup: neither the heartbeat loop nor the
\* second cleanup does, and no other path of start, stop and cleanup leaves a
\* worker listed as active (an await that raised in initialize or cleanup aside).
StoppedIsInactive ==
  main = "stopped" /\ faults \subseteq {"consume", "channel"} =>
    said \in {"inactive", "contradicted"}

\* A worker that was told to stop stops, whatever its scripts do.
SignalStops == shutdown ~> main = "stopped"

\* "Process cleanup works correctly on shutdown" (PRPs/phase4-worker-system.md).
NoScriptOutlivesWorker ==
  main = "stopped" => \A t \in Tasks : child[t] # "alive"

----------------------------------------------------------------------------
(* What the properties rest on *)

\* Before start() has a consumer nothing of a request exists, and only start()
\* has loops.
NothingBeforeStart ==
  /\ main \in Initializing \cup {"starting"} =>
       ~consuming /\ \A t \in Tasks : pc[t] = "none"
  /\ main # "looping" => loops = {}

\* Before the first cleanup nothing is closed.  start() and the cleanup in its
\* "finally" have the monitor, until that cleanup closes it as its last step.
MonitorIsThere ==
  /\ main \in Initializing \cup {"starting", "looping"} =>
       ~stopping /\ \A k \in Connections : conn[k] # "closed"
  /\ main \in {"registering", "starting", "looping"} => conn["monitor"] = "open"
  /\ main \in Cleanup /\ ~stopping => conn["monitor"] = "open"
  /\ main \in {"returning", "stopped"} => stopping
  /\ main = "waiting" => ~stopping

\* An attempt has a process only after its preparation, and reports when that
\* has ended; only the attempt that replied can have acknowledged.  After
\* asyncio.run has cancelled them no coroutine is under way.
HandlerOrder ==
  \A t \in Tasks :
    /\ pc[t] \in {"none", "announcing", "preparing"} => child[t] = "none"
    /\ pc[t] \in {"reporting", "replying", "done"} => child[t] # "alive"
    /\ message[t] = "acked" => pc[t] = "done"
    /\ main = "stopped" => pc[t] \notin Handling
    /\ pc[t] \in {"forking", "running"} => child[t] # "none"

\* Only a process that was started is terminated.
WalkedWereStarted == \A t \in walk.now : child[t] # "none"

\* A cleanup has let go of the queue: it is past the disconnect, or an earlier
\* cleanup came to its end.
QueueReleased ==
  main \in {"close tasks", "close monitor", "returning", "stopped"} \/ conn["monitor"] = "closed"

\* Unless an await of cleanup raised, what it has let go of stays closed, and no
\* request is taken any more.
ReleasedStaysReleased ==
  "cleanup" \notin faults =>
    /\ QueueReleased => ~consuming /\ Unacked = {} /\ conn["queue"] # "open"
    /\ main \in {"close monitor", "returning", "stopped"} \/ conn["monitor"] = "closed" =>
         conn["tasks"] # "open"
    /\ main \in {"returning", "stopped"} => conn["monitor"] # "open"

\* As long as the channel is whole one request is handled at a time: its message
\* is out, or there is no consumer any more.
OneAtATime ==
  "channel" \notin faults =>
    /\ \A t, u \in Tasks : pc[t] \in Handling /\ pc[u] \in Handling => t = u
    /\ consuming => \A t \in Tasks : pc[t] \in Handling => message[t] = "unacked"

\* A process that the cleanup may miss is one it will find in the dictionary, one
\* it is terminating or has still to come to, late, or excused by a lost channel.
\* One that is being forked is killed or registered yet.
MissedAreLate ==
  "cleanup" \notin faults =>
    \A t \in Tasks : child[t] = "alive" /\ t \notin late \cup orphans =>
      \/ pc[t] = "forking"
      \/ "channel" \in faults /\ changed
      \/ ~stopping /\ main \in {"looping", "inactive", "scripts"} /\ t \in active
      \/ /\ ~stopping /\ main = "killing"
         /\ t \in walk.now \/ ("channel" \in faults /\ t \in Ahead)

\* Only a lost channel makes orphans.
OrphansNeedLoss == orphans # {} => "channel" \in faults

\* After the first cleanup has published its message, nothing takes it back
\* unawares.
InactiveIsSaid ==
  faults \subseteq {"consume", "channel"} =>
    (stopping \/ main \in {"waiting"} \cup (Cleanup \ {"inactive"}) =>
       said \in {"inactive", "contradicted"})

\* The conjunction that a step preserves (WorkerLifecycle_proofs).
IInv ==
  /\ TypeOK
  /\ NothingBeforeStart
  /\ MonitorIsThere
  /\ HandlerOrder
  /\ WalkedWereStarted
  /\ ReleasedStaysReleased
  /\ OneAtATime
  /\ OrphansNeedLoss
  /\ MissedAreLate
  /\ InactiveIsSaid
============================================================================
