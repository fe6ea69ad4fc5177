------------------------ MODULE WorkerLifecycle_proofs ------------------------
(***************************************************************************)
(* Proofs about WorkerLifecycle for any requests and any bound on faults.  *)
(* IInv is the inductive invariant.                                        *)
(***************************************************************************)
EXTENDS WorkerLifecycle, FiniteSetTheorems, TLAPS

\* The process starts with nothing connected, no request and no script.
LEMMA InitInv == Init => IInv
<1> SUFFICES ASSUME Init PROVE IInv
  OBVIOUS
<1> USE DEF Init, Initializing, Cleanup, Connections, Loops
<1>1. TypeOK
  BY DEF TypeOK, NoWalk
<1>2. NothingBeforeStart /\ MonitorIsThere /\ HandlerOrder /\ OneAtATime
  BY DEF NothingBeforeStart, MonitorIsThere, HandlerOrder, OneAtATime, Handling
<1>3. WalkedWereStarted
  BY DEF WalkedWereStarted, NoWalk
<1>4. ReleasedStaysReleased /\ OrphansNeedLoss /\ MissedAreLate /\ InactiveIsSaid
  BY DEF ReleasedStaysReleased, QueueReleased, OrphansNeedLoss, MissedAreLate,
         InactiveIsSaid
<1>5. QED
  BY <1>1, <1>2, <1>3, <1>4 DEF IInv

\* A dictionary has a size.
LEMMA DictionaryIsFinite == TypeOK => Cardinality(active) \in Nat
  BY LifecycleAssumption, FS_Subset, FS_CardinalityType DEF TypeOK

\* What is unacknowledged depends on the messages alone, and what the walk has still
\* to come to on the walk and the dictionary.
LEMMA UnackedFollows == message' = message => Unacked' = Unacked
  BY DEF Unacked

LEMMA AheadFollows == active' = active /\ walk' = walk => Ahead' = Ahead
  BY DEF Ahead

\* The steps of main(), of its loops and of the signal that leave requests and
\* scripts alone.
LEMMA MainKeeps ==
  ASSUME IInv,
         \/ ConnectQueue \/ ConnectTasks \/ ConnectMonitor \/ Register
         \/ Start \/ GatherEnds \/ WaitEnds \/ Signal \/ Heartbeat
         \/ \E l \in Loops : LoopEnds(l)
         \/ PublishInactive \/ PublishOnClosed \/ CleanupFails
         \/ DisconnectTasks \/ DisconnectMonitor
  PROVE  IInv'
<1> USE UnackedFollows, AheadFollows
    DEF IInv, NothingBeforeStart, MonitorIsThere, HandlerOrder,
        WalkedWereStarted, ReleasedStaysReleased, QueueReleased, OneAtATime, OrphansNeedLoss,
        MissedAreLate,
        InactiveIsSaid, Initializing, Cleanup, Connections, Loops, Goto, AfterCleanup, Fault,
        Close, Connect, handlerVars, cleanupVars
<1>1. CASE ConnectQueue
  BY <1>1 DEF ConnectQueue, TypeOK
<1>2. CASE ConnectTasks
  BY <1>2 DEF ConnectTasks, TypeOK
<1>3. CASE ConnectMonitor
  BY <1>3 DEF ConnectMonitor, TypeOK
<1>4. CASE Register
  BY <1>4 DEF Register, TypeOK
<1>5. CASE Start
  <2>1. TypeOK'
    BY <1>5 DEF Start, TypeOK
  <2>2. NothingBeforeStart' /\ MonitorIsThere' /\ HandlerOrder' /\ WalkedWereStarted'
    BY <1>5 DEF Start, TypeOK
  <2>3. OneAtATime'
    BY <1>5 DEF Start, Handling
  <2>4. ReleasedStaysReleased' /\ OrphansNeedLoss' /\ MissedAreLate' /\ InactiveIsSaid'
    BY <1>5 DEF Start
  <2>5. QED
    BY <2>1, <2>2, <2>3, <2>4
<1>6. CASE GatherEnds
  BY <1>6 DEF GatherEnds, TypeOK
<1>7. CASE WaitEnds
  BY <1>7 DEF WaitEnds, TypeOK
<1>8. CASE PublishInactive
  BY <1>8 DEF PublishInactive, TypeOK
<1>9. CASE PublishOnClosed
  BY <1>9 DEF PublishOnClosed, TypeOK
<1>10. CASE CleanupFails
  <2>1. TypeOK'
    BY <1>10 DEF CleanupFails, TypeOK
  <2>2. /\ NothingBeforeStart' /\ MonitorIsThere' /\ HandlerOrder'
        /\ WalkedWereStarted' /\ OneAtATime'
    BY <1>10 DEF CleanupFails, TypeOK
  <2>3. OrphansNeedLoss' /\ MissedAreLate' /\ InactiveIsSaid'
    BY <1>10 DEF CleanupFails
  <2>4. ReleasedStaysReleased'
    BY <1>10 DEF CleanupFails, TypeOK
  <2>5. QED
    BY <2>1, <2>2, <2>3, <2>4
<1>11. CASE DisconnectTasks
  <2>1. TypeOK'
    BY <1>11 DEF DisconnectTasks, TypeOK
  <2>2. /\ NothingBeforeStart' /\ MonitorIsThere' /\ HandlerOrder'
        /\ WalkedWereStarted' /\ OneAtATime'
    BY <1>11 DEF DisconnectTasks, TypeOK
  <2>3. OrphansNeedLoss' /\ MissedAreLate' /\ InactiveIsSaid'
    BY <1>11 DEF DisconnectTasks
  <2>4. ReleasedStaysReleased'
    BY <1>11 DEF DisconnectTasks, TypeOK
  <2>5. QED
    BY <2>1, <2>2, <2>3, <2>4
<1>12. CASE DisconnectMonitor
  <2>1. TypeOK'
    BY <1>12 DEF DisconnectMonitor, TypeOK
  <2>2. /\ NothingBeforeStart' /\ MonitorIsThere' /\ HandlerOrder'
        /\ WalkedWereStarted' /\ OneAtATime'
    BY <1>12 DEF DisconnectMonitor, TypeOK
  <2>3. OrphansNeedLoss' /\ MissedAreLate' /\ InactiveIsSaid'
    BY <1>12 DEF DisconnectMonitor
  <2>4. ReleasedStaysReleased'
    BY <1>12 DEF DisconnectMonitor, TypeOK
  <2>5. QED
    BY <2>1, <2>2, <2>3, <2>4
<1>13. CASE Signal
  <2>1. TypeOK'
    BY <1>13 DEF Signal, TypeOK
  <2>2. /\ NothingBeforeStart' /\ MonitorIsThere' /\ HandlerOrder'
        /\ WalkedWereStarted' /\ OneAtATime'
    BY <1>13 DEF Signal, TypeOK
  <2>3. ReleasedStaysReleased' /\ OrphansNeedLoss' /\ MissedAreLate' /\ InactiveIsSaid'
    BY <1>13 DEF Signal
  <2>4. QED
    BY <2>1, <2>2, <2>3
<1>14. CASE Heartbeat
  BY <1>14 DEF Heartbeat, TypeOK
<1>15. ASSUME NEW l \in Loops, LoopEnds(l) PROVE IInv'
  BY <1>15 DEF LoopEnds, TypeOK
<1>16. QED
  BY <1>1, <1>2, <1>3, <1>4, <1>5, <1>6, <1>7, <1>8, <1>9, <1>10,
     <1>11, <1>12, <1>13, <1>14, <1>15

\* Cancelled coroutines leave the dictionary, and the processes of those that were
\* forking are dead.
LEMMA CancelEffect ==
  ASSUME TypeOK, NEW tasks \in SUBSET Tasks, NEW to \in {"cancelled", "over"},
         Cancel(tasks, to)
  PROVE  /\ pc' \in [Tasks -> {"none", "done", "cancelled", "over"} \cup Handling]
         /\ child' \in [Tasks -> {"none", "alive", "dead"}]
         /\ active' = active \ tasks
         /\ active' \subseteq {t \in Tasks : pc'[t] = "running"}
         /\ \A t \in Tasks : pc'[t] = IF t \in tasks THEN to ELSE pc[t]
         /\ \A t \in Tasks : child'[t] = IF t \in tasks /\ pc[t] = "forking" THEN "dead"
                                        ELSE child[t]
  BY DEF Cancel, TypeOK

\* The steps of initialize() and cleanup() that touch scripts or requests, the loss
\* of the channel, and the end of asyncio.run.
LEMMA CleanupKeeps ==
  ASSUME IInv,
         InitializeFails \/ CleanupProcesses \/ KillAndGoOn \/ Disconnect
           \/ LoseChannel \/ CancelAll
  PROVE  IInv'
<1> USE DEF IInv, Initializing, Cleanup, Connections, Loops, Goto, AfterCleanup, Fault,
        Close, handlerVars, cleanupVars
<1>1. CASE InitializeFails
  <2>1. Unacked' = Unacked
    BY <1>1 DEF InitializeFails, Unacked
  <2>2. TypeOK'
    <3>1. conn' \in [Connections -> {"none", "open", "closed"}]
      <4>1. CASE conn' = conn
        BY <4>1 DEF TypeOK
      <4>2. CASE conn' = [k \in Connections |-> IF k = main THEN "open" ELSE conn[k]]
        BY <4>2 DEF TypeOK
      <4>3. QED
        BY <1>1, <4>1, <4>2 DEF InitializeFails
    <3>2. QED
      BY <1>1, <3>1 DEF InitializeFails, TypeOK
  <2>3. NothingBeforeStart' /\ MonitorIsThere'
    BY <1>1, <2>1, <2>2
    DEF InitializeFails, NothingBeforeStart, MonitorIsThere, Handling
  <2>4. HandlerOrder'
    BY <1>1, <2>1, <2>2
    DEF InitializeFails, TypeOK, HandlerOrder, NothingBeforeStart, Handling
  <2>5. ReleasedStaysReleased'
    BY <1>1, <2>1, <2>2
    DEF InitializeFails, ReleasedStaysReleased, QueueReleased, MonitorIsThere
  <2>6. OneAtATime' /\ OrphansNeedLoss'
    BY <1>1, <2>1, <2>2
    DEF InitializeFails, TypeOK, OneAtATime, OrphansNeedLoss, Handling
  <2>7. MissedAreLate'
    BY <1>1, <2>1, <2>2
    DEF InitializeFails, TypeOK, MissedAreLate, OneAtATime, Handling, HandlerOrder, Ahead,
        NothingBeforeStart, MonitorIsThere, ReleasedStaysReleased, QueueReleased
  <2>8. InactiveIsSaid'
    BY <1>1, <2>1, <2>2
    DEF InitializeFails, InactiveIsSaid, MonitorIsThere, UpdateTaskCount
  <2>9. WalkedWereStarted'
    BY <1>1 DEF InitializeFails, WalkedWereStarted, TypeOK
  <2>10. QED
    BY <2>1, <2>2, <2>3, <2>4, <2>5, <2>6, <2>7, <2>8, <2>9
<1>2. CASE CleanupProcesses
  <2>1. Unacked' = Unacked
    BY <1>2 DEF CleanupProcesses, Unacked
  <2>2. TypeOK'
    <3>1. active \in SUBSET {t \in Tasks : pc[t] = "running"}
      BY DEF TypeOK
    <3>2. walk' \in [now : SUBSET Tasks, seen : SUBSET Tasks, size : Nat, moved : BOOLEAN]
      <4>1. CASE walk' = walk
        BY <4>1 DEF TypeOK
      <4>2. ASSUME NEW t \in active,
                   walk' = [now |-> {t}, seen |-> {}, size |-> Cardinality(active),
                            moved |-> FALSE]
            PROVE  walk' \in [now : SUBSET Tasks, seen : SUBSET Tasks, size : Nat,
                              moved : BOOLEAN]
        <5>1. {t} \in SUBSET Tasks /\ Cardinality(active) \in Nat
          BY <3>1, DictionaryIsFinite
        <5>2. QED
          BY <4>2, <5>1
      <4>3. QED
        BY <1>2, <4>1, <4>2 DEF CleanupProcesses
    <3>3. QED
      BY <1>2, <3>1, <3>2 DEF CleanupProcesses, TypeOK
  <2>3. NothingBeforeStart' /\ MonitorIsThere'
    BY <1>2, <2>1, <2>2
    DEF CleanupProcesses, NothingBeforeStart, MonitorIsThere, Handling
  <2>4. HandlerOrder'
    BY <1>2, <2>1, <2>2
    DEF CleanupProcesses, TypeOK, HandlerOrder, NothingBeforeStart, Handling
  <2>5. ReleasedStaysReleased'
    BY <1>2, <2>1, <2>2
    DEF CleanupProcesses, ReleasedStaysReleased, QueueReleased, MonitorIsThere
  <2>6. OneAtATime' /\ OrphansNeedLoss'
    BY <1>2, <2>1, <2>2
    DEF CleanupProcesses, TypeOK, OneAtATime, OrphansNeedLoss, Handling
  <2>7. MissedAreLate'
    <3>1. CASE main' = "close queue"
      BY <1>2, <3>1
      DEF CleanupProcesses, MissedAreLate, MonitorIsThere, ReleasedStaysReleased
    <3>2. ASSUME NEW t \in active, main' = "killing", active' = active,
                 walk' = [now |-> {t}, seen |-> {}, size |-> Cardinality(active),
                          moved |-> FALSE]
          PROVE  MissedAreLate'
      <4>1. walk'.now = {t} /\ Ahead' = active \ {t}
        BY <3>2 DEF Ahead
      <4>2. ASSUME "channel" \notin faults, NEW u \in active PROVE u = t
        <5>1. /\ t \in Tasks /\ u \in Tasks
              /\ pc[t] \in Handling /\ pc[u] \in Handling
          BY DEF TypeOK, Handling
        <5>2. QED
          BY <4>2, <5>1 DEF OneAtATime
      <4>3. QED
        BY <1>2, <3>2, <4>1, <4>2 DEF CleanupProcesses, MissedAreLate
    <3>3. QED
      BY <1>2, <3>1, <3>2 DEF CleanupProcesses
  <2>8. InactiveIsSaid'
    BY <1>2, <2>1, <2>2
    DEF CleanupProcesses, InactiveIsSaid, MonitorIsThere, UpdateTaskCount
  <2>9. WalkedWereStarted'
    <3>1. \A t \in active : child[t] # "none"
      BY DEF HandlerOrder, TypeOK
    <3>2. child' = child /\ (walk' = walk \/ \E t \in active : walk'.now = {t})
      <4>1. \/ walk' = walk
            \/ \E t \in active : walk' = [now |-> {t}, seen |-> {},
                                          size |-> Cardinality(active), moved |-> FALSE]
        BY <1>2 DEF CleanupProcesses
      <4>2. child' = child
        BY <1>2 DEF CleanupProcesses
      <4>3. QED
        BY <4>1, <4>2
    <3>3. QED
      BY <3>1, <3>2 DEF WalkedWereStarted
  <2>10. QED
    BY <2>1, <2>2, <2>3, <2>4, <2>5, <2>6, <2>7, <2>8, <2>9
<1>3. CASE KillAndGoOn
  <2>1. Unacked' = Unacked
    BY <1>3 DEF KillAndGoOn, Unacked
  <2>2. TypeOK'
    <3>1. walk' \in [now : SUBSET Tasks, seen : SUBSET Tasks, size : Nat, moved : BOOLEAN]
      <4>1. CASE walk' = NoWalk
        BY <4>1 DEF NoWalk
      <4>2. ASSUME NEW t \in Ahead, walk' = [walk EXCEPT !.now = {t}, !.seen = @ \cup walk.now]
            PROVE  walk' \in [now : SUBSET Tasks, seen : SUBSET Tasks, size : Nat,
                              moved : BOOLEAN]
        BY <4>2 DEF Ahead, TypeOK
      <4>3. QED
        BY <1>3, <4>1, <4>2 DEF KillAndGoOn
    <3>2. child' \in [Tasks -> {"none", "alive", "dead"}]
      BY <1>3 DEF KillAndGoOn, TypeOK
    <3>3. active' = active \/ active' = {}
      BY <1>3 DEF KillAndGoOn
    <3>4. changed' \in BOOLEAN /\ main' \in {"killing", "close queue"}
      BY <1>3 DEF KillAndGoOn, TypeOK
    <3>5. QED
      BY <1>3, <3>1, <3>2, <3>3, <3>4 DEF KillAndGoOn, TypeOK
  <2>3. NothingBeforeStart' /\ MonitorIsThere'
    BY <1>3, <2>1, <2>2
    DEF KillAndGoOn, NothingBeforeStart, MonitorIsThere, Handling
  <2>4. HandlerOrder'
    <3>1. \A t \in Tasks : child'[t] = child[t] \/ (child[t] # "none" /\ child'[t] = "dead")
      <4>1. \A t \in Tasks : child'[t] = IF t \in walk.now THEN "dead" ELSE child[t]
        BY <1>3 DEF KillAndGoOn
      <4>2. QED
        BY <4>1 DEF WalkedWereStarted
    <3>2. pc' = pc /\ message' = message /\ main' # "stopped"
      BY <1>3 DEF KillAndGoOn
    <3>3. QED
      BY <3>1, <3>2 DEF HandlerOrder
  <2>5. ReleasedStaysReleased'
    BY <1>3, <2>1, <2>2
    DEF KillAndGoOn, ReleasedStaysReleased, QueueReleased, MonitorIsThere
  <2>6. OneAtATime' /\ OrphansNeedLoss'
    BY <1>3, <2>1, <2>2
    DEF KillAndGoOn, TypeOK, OneAtATime, OrphansNeedLoss, Handling
  <2>7. MissedAreLate'
    <3> SUFFICES ASSUME "cleanup" \notin faults', NEW t \in Tasks, child'[t] = "alive",
                        t \notin late' \cup orphans'
                 PROVE  MissedAreLate!2!(t)!2'
      BY DEF MissedAreLate
    <3>1. /\ child[t] = "alive" /\ t \notin walk.now /\ t \notin late \cup orphans
          /\ "cleanup" \notin faults /\ main = "killing"
      BY <1>3 DEF KillAndGoOn, TypeOK
    <3>2. \/ pc[t] = "forking"
          \/ "channel" \in faults /\ changed
          \/ ~stopping /\ "channel" \in faults /\ t \in Ahead
      BY <3>1 DEF MissedAreLate
    <3>3. CASE changed' = TRUE /\ faults' = faults
      BY <1>3, <3>2, <3>3 DEF KillAndGoOn
    <3>4. ASSUME NEW u \in Ahead, walk' = [walk EXCEPT !.now = {u}, !.seen = @ \cup walk.now],
                 UNCHANGED <<main, active, changed>>
          PROVE  MissedAreLate!2!(t)!2'
      <4>1. walk'.now = {u} /\ walk'.seen = walk.seen \cup walk.now
        BY <3>4 DEF TypeOK
      <4>2. Ahead' = Ahead \ {u}
        BY <3>4, <4>1 DEF Ahead
      <4>3. QED
        BY <1>3, <3>1, <3>2, <3>4, <4>1, <4>2 DEF KillAndGoOn
    <3>5. CASE (\A u \in Ahead : child[u] = "dead") /\ changed' = (changed \/ walk.moved)
      BY <1>3, <3>1, <3>2, <3>5 DEF KillAndGoOn, TypeOK
    <3>6. CASE walk.moved /\ changed' = (changed \/ walk.moved)
      BY <3>3, <3>6, <1>3 DEF KillAndGoOn, TypeOK
    <3>7. QED
      BY <1>3, <3>3, <3>4, <3>5, <3>6 DEF KillAndGoOn
  <2>8. InactiveIsSaid'
    BY <1>3, <2>1, <2>2
    DEF KillAndGoOn, InactiveIsSaid, MonitorIsThere, UpdateTaskCount
  <2>9. WalkedWereStarted'
    <3>1. \A t \in active : child[t] # "none" /\ t \in Tasks
      BY DEF HandlerOrder, TypeOK
    <3>2. \A t \in Tasks : child[t] # "none" => child'[t] # "none"
      BY <1>3 DEF KillAndGoOn
    <3>3. walk' = NoWalk \/ \E t \in active : walk'.now = {t}
      BY <1>3 DEF KillAndGoOn, Ahead, TypeOK
    <3>4. QED
      BY <3>1, <3>2, <3>3 DEF WalkedWereStarted, NoWalk
  <2>10. QED
    BY <2>1, <2>2, <2>3, <2>4, <2>5, <2>6, <2>7, <2>8, <2>9
<1>4. CASE Disconnect
  <2>1. /\ message' \in [Tasks -> {"ready", "unacked", "acked"}]
        /\ Unacked' = {} /\ Unacked \subseteq Tasks
        /\ \A t \in Tasks : message'[t] = "acked" => message[t] = "acked"

    BY <1>4 DEF Disconnect, GiveBack, Unacked, TypeOK
  <2>2. /\ pc' \in [Tasks -> {"none", "done", "cancelled", "over"} \cup Handling]
        /\ child' \in [Tasks -> {"none", "alive", "dead"}]
        /\ active' \subseteq active
        /\ active' \subseteq {t \in Tasks : pc'[t] = "running"}
        /\ \A t \in Tasks : \/ pc'[t] = pc[t] /\ child'[t] = child[t]
                            \/ /\ pc'[t] \in {"cancelled", "over"}
                               /\ child'[t] # child[t] => child'[t] = "dead"
                               /\ pc[t] = "forking" => child'[t] = "dead"
                               /\ message[t] # "acked"
    <3>1. CASE Cancel(Unacked, "cancelled")
      BY <3>1, CancelEffect DEF Unacked
    <3>2. CASE UNCHANGED <<pc, active, child>>
      BY <3>2 DEF TypeOK
    <3>3. QED
      BY <1>4, <3>1, <3>2 DEF Disconnect
  <2>3. TypeOK'
    BY <1>4, <2>1, <2>2 DEF Disconnect, TypeOK
  <2>4. NothingBeforeStart' /\ MonitorIsThere'
    BY <1>4, <2>2 DEF Disconnect, NothingBeforeStart, MonitorIsThere, TypeOK
  <2>5. HandlerOrder'
    <3>1. main' # "stopped"
      BY <1>4 DEF Disconnect
    <3>2. QED
      BY <2>1, <2>2, <3>1, SMTT(30) DEF HandlerOrder, Handling
  <2>6. ReleasedStaysReleased'
    BY <1>4, <2>1 DEF Disconnect, ReleasedStaysReleased, QueueReleased, MonitorIsThere, TypeOK
  <2>7. OneAtATime' /\ OrphansNeedLoss'
    BY <1>4, <2>2 DEF Disconnect, OneAtATime, OrphansNeedLoss, Handling
  <2>8. MissedAreLate'
    BY <1>4, <2>2 DEF Disconnect, MissedAreLate
  <2>9. InactiveIsSaid'
    BY <1>4 DEF Disconnect, InactiveIsSaid
  <2>10. WalkedWereStarted'
    BY <1>4, <2>2 DEF Disconnect, WalkedWereStarted, TypeOK
  <2>11. QED
    BY <2>3, <2>4, <2>5, <2>6, <2>7, <2>8, <2>9, <2>10
<1>5. CASE LoseChannel
  <2>1. /\ message' \in [Tasks -> {"ready", "unacked", "acked"}]
        /\ Unacked' = {} /\ Unacked \subseteq Tasks
        /\ \A t \in Tasks : message'[t] = "acked" => message[t] = "acked"

    BY <1>5 DEF LoseChannel, GiveBack, Unacked, TypeOK
  <2>2. /\ pc' \in [Tasks -> {"none", "done", "cancelled", "over"} \cup Handling]
        /\ child' \in [Tasks -> {"none", "alive", "dead"}]
        /\ active' \subseteq active
        /\ active' \subseteq {t \in Tasks : pc'[t] = "running"}
        /\ \A t \in Tasks : \/ pc'[t] = pc[t] /\ child'[t] = child[t]
                            \/ /\ pc'[t] \in {"cancelled", "over"}
                               /\ child'[t] # child[t] => child'[t] = "dead"
                               /\ pc[t] = "forking" => child'[t] = "dead"
                               /\ message[t] # "acked"
    <3>1. CASE Cancel(Unacked, "cancelled")
      BY <3>1, CancelEffect DEF Unacked
    <3>2. CASE UNCHANGED <<pc, active, child>>
      BY <3>2 DEF TypeOK
    <3>3. QED
      BY <1>5, <3>1, <3>2 DEF LoseChannel
  <2>3. TypeOK'
    BY <1>5, <2>1, <2>2 DEF LoseChannel, TypeOK
  <2>4. NothingBeforeStart' /\ MonitorIsThere'
    BY <1>5, <2>2 DEF LoseChannel, NothingBeforeStart, MonitorIsThere
  <2>5. HandlerOrder'
    BY <1>5, <2>1, <2>2 DEF LoseChannel, HandlerOrder, TypeOK, Handling
  <2>6. ReleasedStaysReleased'
    BY <1>5, <2>1 DEF LoseChannel, ReleasedStaysReleased, QueueReleased
  <2>7. OneAtATime' /\ OrphansNeedLoss'
    BY <1>5 DEF LoseChannel, OneAtATime, OrphansNeedLoss
  <2>8. MissedAreLate'
    <3> SUFFICES ASSUME "cleanup" \notin faults', NEW t \in Tasks, child'[t] = "alive",
                        t \notin late' \cup orphans'
                 PROVE  MissedAreLate!2!(t)!2'
      BY DEF MissedAreLate
    <3>1. child[t] = "alive" /\ t \notin late \cup orphans /\ "cleanup" \notin faults
      BY <1>5, <2>2 DEF LoseChannel
    <3>2. pc'[t] = pc[t] \/ pc[t] # "forking"
      BY <2>2
    <3>3. t \in active => t \in active'
      BY <1>5 DEF LoseChannel, Cancel
    <3>4. QED
      BY <1>5, <3>1, <3>2, <3>3 DEF LoseChannel, MissedAreLate, Ahead
  <2>9. InactiveIsSaid'
    BY <1>5 DEF LoseChannel, InactiveIsSaid
  <2>10. WalkedWereStarted'
    BY <1>5, <2>2 DEF LoseChannel, WalkedWereStarted, TypeOK
  <2>11. QED
    BY <2>3, <2>4, <2>5, <2>6, <2>7, <2>8, <2>9, <2>10
<1>6. CASE CancelAll
  <2>1. Unacked' = Unacked

    BY <1>6 DEF CancelAll, Unacked
  <2>2. /\ pc' \in [Tasks -> {"none", "done", "cancelled", "over"} \cup Handling]
        /\ child' \in [Tasks -> {"none", "alive", "dead"}]
        /\ active' \subseteq active
        /\ active' \subseteq {t \in Tasks : pc'[t] = "running"}
        /\ \A t \in Tasks : \/ pc'[t] = pc[t] /\ child'[t] = child[t]
                            \/ /\ pc'[t] \in {"cancelled", "over"}
                               /\ child'[t] # child[t] => child'[t] = "dead"
                               /\ pc[t] = "forking" => child'[t] = "dead"
                               /\ message[t] # "acked"
    <3>1. CASE Cancel({t \in Tasks : pc[t] \in Handling \cup {"cancelled"}}, "over")
      BY <3>1, CancelEffect DEF HandlerOrder, Handling
    <3>2. QED
      BY <1>6, <3>1 DEF CancelAll
  <2>3. \A t \in Tasks : pc'[t] \notin Handling
    BY <1>6, CancelEffect DEF CancelAll, Handling
  <2>4. TypeOK'
    BY <1>6, <2>2 DEF CancelAll, UpdateTaskCount, TypeOK
  <2>5. NothingBeforeStart' /\ MonitorIsThere'
    BY <1>6, <2>2 DEF CancelAll, NothingBeforeStart, MonitorIsThere
  <2>6. HandlerOrder'
    BY <1>6, <2>2, <2>3 DEF CancelAll, HandlerOrder, TypeOK, Handling
  <2>7. ReleasedStaysReleased'
    BY <1>6, <2>1 DEF CancelAll, ReleasedStaysReleased, QueueReleased
  <2>8. OneAtATime' /\ OrphansNeedLoss'
    BY <1>6, <2>3 DEF CancelAll, OneAtATime, OrphansNeedLoss
  <2>9. MissedAreLate'
    BY <1>6, <2>2 DEF CancelAll, MissedAreLate
  <2>10. InactiveIsSaid'
    BY <1>6 DEF CancelAll, InactiveIsSaid, UpdateTaskCount, MonitorIsThere
  <2>11. WalkedWereStarted'
    BY <1>6, <2>2 DEF CancelAll, WalkedWereStarted, TypeOK
  <2>12. QED
    BY <2>4, <2>5, <2>6, <2>7, <2>8, <2>9, <2>10, <2>11
<1>7. QED
  BY <1>1, <1>2, <1>3, <1>4, <1>5, <1>6

\* The handler of a request, beside all of that, and the script it started.  They
\* leave main() and the connections alone, and may acknowledge but not give back.
LEMMA HandlerKeeps ==
  ASSUME IInv, NEW t \in Tasks, HandlerStep(t) \/ ScriptExits(t)
  PROVE  IInv'
<1> USE DEF IInv, HandlerStep
<1>1. UNCHANGED <<shutdown, main, stopping, loops, consuming, conn, orphans, changed, faults>>
  BY DEF Deliver, Announce, PrepareFails, StartScript, EnterProcess, Collect, Report,
         CancelledReports, Acknowledge, ScriptExits, cleanupVars
<1>2. /\ message' \in [Tasks -> {"ready", "unacked", "acked"}]
      /\ Unacked' \subseteq Unacked \/ (consuming /\ main # "stopped")
  BY DEF Deliver, Announce, PrepareFails, StartScript, EnterProcess, Collect, Report,
         CancelledReports, Acknowledge, ScriptExits, Unacked, TypeOK
<1>3. TypeOK'
  <2>1. /\ pc' \in [Tasks -> {"none", "done", "cancelled", "over"} \cup Handling]
        /\ child' \in [Tasks -> {"none", "alive", "dead"}]
        /\ said' \in {"nothing", "active", "inactive", "contradicted"}
    BY DEF Deliver, Announce, PrepareFails, StartScript, EnterProcess, Collect, Report,
           CancelledReports, Acknowledge, ScriptExits, UpdateTaskCount, TypeOK, Handling
  <2>2. active' \subseteq {u \in Tasks : pc'[u] = "running"}
    BY DEF Deliver, Announce, PrepareFails, StartScript, EnterProcess, Collect, Report,
           CancelledReports, Acknowledge, ScriptExits, TypeOK, Handling
  <2>3. /\ walk' \in [now : SUBSET Tasks, seen : SUBSET Tasks, size : Nat, moved : BOOLEAN]
        /\ late' \subseteq Tasks
    BY DEF Deliver, Announce, PrepareFails, StartScript, EnterProcess, Collect, Report,
           CancelledReports, Acknowledge, ScriptExits, TypeOK, cleanupVars
  <2>4. QED
    BY <1>1, <1>2, <2>1, <2>2, <2>3 DEF TypeOK
<1>4. NothingBeforeStart' /\ MonitorIsThere'
  BY <1>1
  DEF Deliver, Announce, PrepareFails, StartScript, EnterProcess, Collect, Report,
      CancelledReports, Acknowledge, ScriptExits, NothingBeforeStart, MonitorIsThere, TypeOK
<1>5. HandlerOrder'
  BY <1>1
  DEF Deliver, Announce, PrepareFails, StartScript, EnterProcess, Collect, Report,
      CancelledReports, Acknowledge, ScriptExits, HandlerOrder, TypeOK, Handling
<1>6. ReleasedStaysReleased'
  BY <1>1, <1>2 DEF ReleasedStaysReleased, QueueReleased
<1>7. OneAtATime' /\ OrphansNeedLoss'
  BY <1>1
  DEF Deliver, Announce, PrepareFails, StartScript, EnterProcess, Collect, Report,
      CancelledReports, Acknowledge, ScriptExits, OneAtATime, OrphansNeedLoss, TypeOK,
      Handling, Unacked
<1>8. MissedAreLate'
  <2>1. CASE StartScript(t) /\ main # "stopped"
    BY <2>1, <1>1, AheadFollows DEF StartScript, MissedAreLate, TypeOK, cleanupVars
  <2>2. CASE EnterProcess(t) /\ main # "stopped"
    <3>1. main \notin Initializing \cup {"starting"}
      BY <2>2 DEF EnterProcess, NothingBeforeStart
    <3>2. t \in late' \/ (~stopping /\ main \in {"looping", "inactive", "scripts"})
      BY <2>2, <3>1 DEF EnterProcess, Initializing, Cleanup, MonitorIsThere, TypeOK
    <3>3. walk'.now = walk.now /\ Ahead \subseteq Ahead'
      BY <2>2 DEF EnterProcess, Ahead, TypeOK
    <3>4. QED
      BY <2>2, <1>1, <3>2, <3>3 DEF EnterProcess, MissedAreLate, TypeOK
  <2>3. CASE ScriptExits(t) \/ Collect(t)
    BY <2>3, <1>1 DEF ScriptExits, Collect, MissedAreLate, TypeOK, cleanupVars, Ahead
  <2>4. CASE UNCHANGED <<child, active, walk, late>> /\ pc[t] # "forking"
    BY <2>4, <1>1, AheadFollows
    DEF MissedAreLate, Deliver, Announce, PrepareFails, Report, CancelledReports,
        Acknowledge, StartScript, EnterProcess, Collect, ScriptExits, TypeOK
  <2>5. QED
    BY <2>1, <2>2, <2>3, <2>4
    DEF Deliver, Announce, PrepareFails, Report, CancelledReports, Acknowledge, cleanupVars
<1>9. InactiveIsSaid'
  BY <1>1
  DEF Deliver, Announce, PrepareFails, StartScript, EnterProcess, Collect, Report,
      CancelledReports, Acknowledge, ScriptExits, UpdateTaskCount, InactiveIsSaid, TypeOK
<1>10. WalkedWereStarted'
  BY <1>1
  DEF Deliver, Announce, PrepareFails, StartScript, EnterProcess, Collect, Report,
      CancelledReports, Acknowledge, ScriptExits, WalkedWereStarted, TypeOK, cleanupVars
<1>11. QED
  BY <1>3, <1>4, <1>5, <1>6, <1>7, <1>8, <1>9, <1>10

\* Every step of the process preserves IInv.
LEMMA NextInv == IInv /\ [Next]_vars => IInv'
<1> SUFFICES ASSUME IInv, [Next]_vars
             PROVE  IInv'
  OBVIOUS
<1>1. CASE MainStep \/ Signal \/ Heartbeat \/ LoseChannel
  BY <1>1, MainKeeps, CleanupKeeps DEF MainStep
<1>2. CASE \E t \in Tasks : HandlerStep(t) \/ ScriptExits(t)
  BY <1>2, HandlerKeeps
<1>3. CASE UNCHANGED vars
  <2> USE <1>3 DEF vars, handlerVars, cleanupVars, IInv
  <2>1. Unacked' = Unacked /\ Ahead' = Ahead
    BY UnackedFollows, AheadFollows
  <2>2. TypeOK' /\ NothingBeforeStart' /\ MonitorIsThere' /\ HandlerOrder'
    BY DEF TypeOK, NothingBeforeStart, MonitorIsThere, HandlerOrder
  <2>3. /\ ReleasedStaysReleased' /\ OneAtATime' /\ OrphansNeedLoss' /\ WalkedWereStarted'
        /\ MissedAreLate' /\ InactiveIsSaid'
    BY <2>1 DEF ReleasedStaysReleased, QueueReleased, OneAtATime, OrphansNeedLoss, WalkedWereStarted,
                MissedAreLate, InactiveIsSaid
  <2>4. QED
    BY <2>2, <2>3
<1>4. QED
  BY <1>1, <1>2, <1>3 DEF Next

\* IInv holds in every reachable state.
LEMMA Invariance == Spec => []IInv
  BY InitInv, NextInv, PTL DEF Spec

\* Every variable keeps its type through main(), the signal and both cleanups.
THEOREM TypeCorrect == Spec => []TypeOK
<1>1. IInv => TypeOK
  BY DEF IInv
<1>2. QED
  BY <1>1, Invariance, PTL

\* cleanup_all_processes, which terminates one script after the other, leaves behind
\* only scripts that were registered after it had begun, or, if a channel was lost,
\* those that had left the dictionary or that a change of it hid.
THEOREM OldScriptsAreTerminated == Spec => []OnlyLateScriptsSurvive
<1>1. IInv => OnlyLateScriptsSurvive
  BY DEF IInv, MonitorIsThere, HandlerOrder, Handling, OrphansNeedLoss, MissedAreLate,
         OnlyLateScriptsSurvive
<1>2. QED
  BY <1>1, Invariance, PTL

\* What the worker acknowledges was reported and has ended, and what it took
\* and did not acknowledge is back in the queue when stop() returns.
THEOREM RequestsAreKept == Spec => []ShutdownKeepsRequests
<1>1. IInv => ShutdownKeepsRequests
  BY DEF IInv, HandlerOrder, ReleasedStaysReleased, QueueReleased, ShutdownKeepsRequests
<1>2. QED
  BY <1>1, Invariance, PTL

\* However far initialize() came, stop() returns with every connection closed,
\* although the second cleanup stops at its first statement.
THEOREM ConnectionsAreClosed == Spec => []NothingStaysConnected
<1>1. IInv => NothingStaysConnected
  BY DEF IInv, ReleasedStaysReleased, QueueReleased, NothingStaysConnected, Connections
<1>2. QED
  BY <1>1, Invariance, PTL

\* A stopped worker is listed as inactive unless a handler's own status message
\* has contradicted the cleanup's.
THEOREM StoppedWorkersAreInactive == Spec => []StoppedIsInactive
<1>1. IInv => StoppedIsInactive
  BY DEF IInv, MonitorIsThere, InactiveIsSaid, StoppedIsInactive
<1>2. QED
  BY <1>1, Invariance, PTL
============================================================================
