-------------------------- MODULE ConnectionManager --------------------------
(***************************************************************************)
(* ConnectionManager and websocket_endpoint of the gateway's /ws endpoint: *)
(* one coroutine per accepted socket, all of them sharing the dictionary   *)
(* active_connections from connection id to socket.  The client chooses    *)
(* the id, so a client that comes back - or a second one - may use an id   *)
(* that is taken: connect() overwrites the entry, and the endpoint of the  *)
(* first socket still answers and cleans up under the id, not the socket.  *)
(*                                                                         *)
(* broadcast() iterates over the dictionary and awaits a send in the loop, *)
(* while the endpoints go on changing it.                                  *)
(*                                                                         *)
(* The endpoint passes no client id, so client_connections stays empty.    *)
(***************************************************************************)
EXTENDS Naturals, FiniteSets

CONSTANTS
  Sockets,    \* the WebSockets clients ever open
  Ids,        \* the connection ids in their URLs
  NoSocket,   \* no entry in active_connections
  NoId        \* id[s] of a socket that was not opened yet

ASSUME SocketAssumption ==
  /\ NoSocket \notin Sockets
  /\ NoId \notin Ids
  /\ IsFiniteSet(Ids)

VARIABLES
  active,   \* active[i]: the socket registered under connection id i
  id,       \* id[s]: the connection id of socket s
  pc,       \* pc[s]: where the endpoint of s stands
  target,   \* target[s]: the socket its send_text writes to
  gone,     \* the sockets whose client is gone
  cast      \* a broadcast, one at a time

vars == <<active, id, pc, target, gone, cast>>

\* sending: inside "await websocket.send_text"; receiving: inside receive_text.
Open == {"sending", "receiving"}

\* pc: "raised" and "done" are its two ends.  to: the entry whose send it awaits,
\* as the pair of an id and a socket.  size, left: what the dictionary's iterator
\* remembers, its size and how many entries are to come.  shifted: an entry was
\* inserted meanwhile.  tried, dead: the ids it has sent to, and those where the
\* send raised.  keys: the ids there were at its start (history).
NoCast == [pc |-> "idle", to |-> <<NoId, NoSocket>>, size |-> 0, left |-> 0,
           shifted |-> FALSE, tried |-> {}, dead |-> {}, keys |-> {}]

TypeOK ==
  /\ active \in [Ids -> Sockets \cup {NoSocket}]
  /\ id \in [Sockets -> Ids \cup {NoId}]
  /\ pc \in [Sockets -> {"new", "accepting", "done"} \cup Open]
  /\ target \in [Sockets -> Sockets \cup {NoSocket}]
  /\ gone \subseteq Sockets
  /\ cast \in [pc : {"idle", "sending", "raised", "done"},
               to : (Ids \cup {NoId}) \X (Sockets \cup {NoSocket}),
               size : Nat, left : Nat, shifted : BOOLEAN,
               tried : SUBSET Ids, dead : SUBSET Ids, keys : SUBSET Ids]

Init ==
  /\ active = [i \in Ids |-> NoSocket]
  /\ id = [s \in Sockets |-> NoId]
  /\ pc = [s \in Sockets |-> "new"]
  /\ target = [s \in Sockets |-> NoSocket]
  /\ gone = {}
  /\ cast = NoCast

Goto(s, from, to) == pc[s] = from /\ pc' = [pc EXCEPT ![s] = to]

----------------------------------------------------------------------------
(* Variants with a plausible mistake: each shows that a property can fail. *)

\* connect() registers before it awaits accept().
ConnectTooEarly(s, i) ==
  /\ Goto(s, "new", "accepting")
  /\ id' = [id EXCEPT ![s] = i]
  /\ active' = [active EXCEPT ![i] = s]
  /\ UNCHANGED <<target, gone, cast>>

\* connect() is called with its arguments in the wrong order.
AcceptedSwapped(s) ==
  /\ Goto(s, "accepting", "sending")
  /\ active' = [active EXCEPT ![id[s]] = id[s]]
  /\ target' = [target EXCEPT ![s] = s]
  /\ UNCHANGED <<id, gone, cast>>

\* "finally" is missing.
EndpointJustEnds(s) ==
  /\ Goto(s, "receiving", "done")
  /\ UNCHANGED <<active, id, target, gone, cast>>

\* A message that was sent is followed by disconnect() all the same.
SentAndForgotten(s) ==
  /\ Goto(s, "sending", "receiving")
  /\ active' = [active EXCEPT ![id[s]] = NoSocket]
  /\ UNCHANGED <<id, target, gone, cast>>

\* The "try" is around the loop, not in it.
BroadcastBreaksOff ==
  /\ cast.pc = "sending"
  /\ cast.to[2] \in gone \/ pc[cast.to[2]] = "done"
  /\ cast' = [cast EXCEPT !.pc = "done"]
  /\ UNCHANGED <<active, id, pc, target, gone>>

\* A missing entry is not tested for.
SendUnchecked(s) ==
  /\ pc' = [pc EXCEPT ![s] = "sending"]
  /\ target' = [target EXCEPT ![s] = active[id[s]]]

----------------------------------------------------------------------------

\* connect() up to "await websocket.accept()".
Connect(s, i) ==
  /\ Goto(s, "new", "accepting")
  /\ id' = [id EXCEPT ![s] = i]
  /\ UNCHANGED <<active, target, gone, cast>>

\* The handshake is done: the socket is registered, whatever was there before,
\* and the welcome message is on its way to what is registered now.
Accepted(s) ==
  /\ Goto(s, "accepting", "sending")
  /\ active' = [active EXCEPT ![id[s]] = s]
  /\ target' = [target EXCEPT ![s] = s]
  /\ cast' = [cast EXCEPT !.shifted =
                @ \/ (cast.pc = "sending" /\ active[id[s]] = NoSocket)]
  /\ UNCHANGED <<id, gone>>

\* disconnect(connection_id) in "finally" removes the entry, whoever's it is.
Forget(s) == active' = [active EXCEPT ![id[s]] = NoSocket]

\* accept() raises.
AcceptFails(s) ==
  /\ s \in gone
  /\ Goto(s, "accepting", "done")
  /\ Forget(s)
  /\ UNCHANGED <<id, target, gone, cast>>

\* send_personal_message up to its await: it looks the id up, not the socket.
SendPersonalMessage(s) ==
  IF active[id[s]] = NoSocket
    THEN UNCHANGED <<pc, target>>
    ELSE /\ pc' = [pc EXCEPT ![s] = "sending"]
         /\ target' = [target EXCEPT ![s] = active[id[s]]]

\* A message of any type, or of none, arrives and is answered.
Receive(s) ==
  /\ pc[s] = "receiving"
  /\ SendPersonalMessage(s)
  /\ UNCHANGED <<active, id, gone, cast>>

Sent(s) ==
  /\ Goto(s, "sending", "receiving")
  /\ UNCHANGED <<active, id, target, gone, cast>>

\* send_text raises, for the client is gone or the server has closed the socket
\* of an endpoint that ended: the entry of the id goes.
SendFails(s) ==
  /\ Goto(s, "sending", "receiving")
  /\ target[s] \in gone \/ pc[target[s]] = "done"
  /\ Forget(s)
  /\ UNCHANGED <<id, target, gone, cast>>

\* WebSocketDisconnect, or a message that is JSON but no object (its .get raises):
\* the loop is left, then "finally".
EndpointEnds(s) ==
  /\ Goto(s, "receiving", "done")
  /\ Forget(s)
  /\ UNCHANGED <<id, target, gone, cast>>

Registered == {i \in Ids : active[i] # NoSocket}

\* c is the broadcast at the end of an await: the iterator raises if the size has
\* changed or more entries come than there were.  An insertion (with a removal,
\* for the size to be the same) may have moved the entries under the iterator, so
\* that it skips some or comes to one again.
Advance(c) ==
  \/ /\ Cardinality(Registered) # c.size \/ (c.shifted /\ c.left = 0)
     /\ cast' = [NoCast EXCEPT !.pc = "raised"]
     /\ UNCHANGED active
  \/ \E i \in Registered :
       /\ Cardinality(Registered) = c.size /\ c.left > 0
       /\ c.shifted \/ i \notin c.tried
       /\ cast' = [c EXCEPT !.pc = "sending", !.to = <<i, active[i]>>, !.left = @ - 1,
                            !.tried = @ \cup {i}]
       /\ UNCHANGED active
  \/ /\ Cardinality(Registered) = c.size
     /\ c.shifted \/ Registered \subseteq c.tried
     /\ cast' = [NoCast EXCEPT !.pc = "done", !.shifted = c.shifted, !.tried = c.tried,
                               !.keys = c.keys]
     /\ active' = [i \in Ids |-> IF i \in c.dead THEN NoSocket ELSE active[i]]

Broadcast ==
  /\ cast.pc = "idle"
  /\ Advance([NoCast EXCEPT !.size = Cardinality(Registered), !.keys = Registered,
                            !.left = Cardinality(Registered)])
  /\ UNCHANGED <<id, pc, target, gone>>

BroadcastSent ==
  /\ cast.pc = "sending"
  /\ Advance(cast)
  /\ UNCHANGED <<id, pc, target, gone>>

BroadcastSendFails ==
  /\ cast.pc = "sending"
  /\ cast.to[2] \in gone \/ pc[cast.to[2]] = "done"
  /\ Advance([cast EXCEPT !.dead = @ \cup {cast.to[1]}])
  /\ UNCHANGED <<id, pc, target, gone>>

\* The client closes its end or its network breaks.
ClientGoes(s) ==
  /\ pc[s] \in {"accepting"} \cup Open
  /\ gone' = gone \cup {s}
  /\ UNCHANGED <<active, id, pc, target, cast>>

SocketStep(s) ==
  \/ \E i \in Ids : Connect(s, i)
  \/ Accepted(s) \/ AcceptFails(s)
  \/ Receive(s) \/ Sent(s) \/ SendFails(s)
  \/ EndpointEnds(s) \/ ClientGoes(s)

Next ==
  \/ \E s \in Sockets : SocketStep(s)
  \/ Broadcast \/ BroadcastSent \/ BroadcastSendFails

Spec == Init /\ [][Next]_vars

----------------------------------------------------------------------------
(* Properties *)

\* active_connections keeps nothing of an endpoint that has ended, and
\* get_connection_count counts open endpoints only: although "finally" removes
\* by id, and may remove a newer socket's entry, no entry is ever left behind.
EntriesAreOpen ==
  \A i \in Ids : active[i] # NoSocket =>
    id[active[i]] = i /\ pc[active[i]] \in Open

\* An answer is never written to the socket of another connection id, nor to
\* one that was never accepted.
AnswersStayWithId ==
  \A s \in Sockets : pc[s] = "sending" =>
    target[s] \in Sockets /\ id[target[s]] = id[s] /\ pc[target[s]] # "accepting"

\* An endpoint that is open but not registered - its client gets no answer any
\* more - shares its id with another socket, or its own client is gone.
UnregisteredNeedsTwin ==
  \A s \in Sockets : pc[s] \in Open /\ active[id[s]] # s =>
    \/ s \in gone
    \/ \E t \in Sockets \ {s} : id[t] = id[s]

\* A broadcast that comes to its end without an exception has tried every id that
\* was registered when it began, however many sends failed and however the sockets
\* behind the ids were replaced meanwhile - unless an id was removed and another
\* one inserted while it awaited a send, which the iterator may not notice.
BroadcastReachesAll ==
  cast.pc = "done" /\ ~cast.shifted => cast.keys \subseteq cast.tried

\* What a broadcast knows at an await: the socket it sends to once had the id, and
\* so had one whose end is known for every id it is going to remove.
CastKnowsEnds ==
  /\ cast.pc = "sending" =>
       cast.to[1] \in Ids /\ cast.to[2] \in Sockets /\ id[cast.to[2]] = cast.to[1]
  /\ \A i \in cast.dead : \E t \in Sockets : id[t] = i /\ (t \in gone \/ pc[t] = "done")

\* Without an insertion the dictionary can only have lost ids, which its size tells.
CastKeepsCount ==
  /\ cast.pc = "sending" /\ ~cast.shifted =>
       Registered \subseteq cast.keys /\ cast.size = Cardinality(cast.keys)
  /\ BroadcastReachesAll

\* The conjunction that a step preserves (ConnectionManager_proofs).
IInv ==
  /\ TypeOK
  /\ \A s \in Sockets : pc[s] # "new" => id[s] \in Ids
  /\ \A s \in Sockets : pc[s] = "new" => id[s] = NoId
  /\ EntriesAreOpen
  /\ AnswersStayWithId
  /\ UnregisteredNeedsTwin
  /\ CastKnowsEnds
  /\ CastKeepsCount
============================================================================
