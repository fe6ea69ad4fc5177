----------------------- MODULE ConnectionManager_proofs -----------------------
(***************************************************************************)
(* For any number of sockets and connection ids: the properties of         *)
(* ConnectionManager hold.  IInv is inductive.  An endpoint that removes   *)
(* "its" entry may remove another socket's, so nothing says that an open   *)
(* socket is registered; that no entry is left behind rests on the id of a *)
(* socket never changing once it has one, which is IdsAreSet.  A broadcast *)
(* only ever removes the id of a socket whose end it knows, CastKnowsEnds, *)
(* and by CastKeepsCount the size of the dictionary tells it of a loss.    *)
(***************************************************************************)
EXTENDS ConnectionManager, FiniteSetTheorems, TLAPS

IdsAreSet ==
  /\ \A s \in Sockets : pc[s] # "new" => id[s] \in Ids
  /\ \A s \in Sockets : pc[s] = "new" => id[s] = NoId

BroadcastStep == Broadcast \/ BroadcastSent \/ BroadcastSendFails

\* A socket of id i is known to have come to its end.
Ended(i) == \E t \in Sockets : id[t] = i /\ (t \in gone \/ pc[t] = "done")

CastType ==
  [pc : {"idle", "sending", "raised", "done"},
   to : (Ids \cup {NoId}) \X (Sockets \cup {NoSocket}),
   size : Nat, left : Nat, shifted : BOOLEAN,
   tried : SUBSET Ids, dead : SUBSET Ids, keys : SUBSET Ids]

\* In the initial state there is neither an entry nor an endpoint.
LEMMA InitIInv == Init => IInv
  BY SocketAssumption
  DEF Init, IInv, TypeOK, EntriesAreOpen, AnswersStayWithId, UnregisteredNeedsTwin, Open,
      NoCast, CastKnowsEnds, CastKeepsCount, BroadcastReachesAll

\* The ids that have an entry are finitely many.
LEMMA RegisteredIsFinite == IsFiniteSet(Registered) /\ Cardinality(Registered) \in Nat
<1>1. Registered \in SUBSET Ids
  BY DEF Registered
<1>2. QED
  BY <1>1, SocketAssumption, FS_Subset, FS_CardinalityType

\* Whatever a broadcast does after an await, it removes nothing but dead ids.
LEMMA AdvanceEffect ==
  ASSUME TypeOK, NEW c \in CastType, Advance(c)
  PROVE  /\ cast' \in CastType
         /\ active' \in [Ids -> Sockets \cup {NoSocket}]
         /\ \A i \in Ids : active'[i] = active[i] \/ (active'[i] = NoSocket /\ i \in c.dead)
         /\ cast'.dead = {} \/ cast'.dead = c.dead
         /\ cast'.pc = "sending" => \E i \in Registered : cast'.to = <<i, active[i]>>
<1> DEFINE Goal ==
         /\ cast' \in CastType
         /\ active' \in [Ids -> Sockets \cup {NoSocket}]
         /\ \A i \in Ids : active'[i] = active[i] \/ (active'[i] = NoSocket /\ i \in c.dead)
         /\ cast'.dead = {} \/ cast'.dead = c.dead
         /\ cast'.pc = "sending" => \E i \in Registered : cast'.to = <<i, active[i]>>
<1>1. ASSUME cast' = [NoCast EXCEPT !.pc = "raised"], UNCHANGED active
      PROVE  Goal
  BY <1>1 DEF TypeOK, CastType, NoCast
<1>2. ASSUME NEW i \in Registered, c.left > 0, UNCHANGED active,
             cast' = [c EXCEPT !.pc = "sending", !.to = <<i, active[i]>>, !.left = @ - 1,
                               !.tried = @ \cup {i}]
      PROVE  Goal
  <2>1. c.left - 1 \in Nat /\ c.left \in Nat
    BY <1>2 DEF CastType
  <2>2. i \in Ids /\ active[i] \in Sockets
    BY DEF TypeOK, Registered
  <2>3. cast' \in CastType
    BY <1>2, <2>1, <2>2 DEF CastType
  <2>4. cast'.dead = c.dead /\ cast'.to = <<i, active[i]>>
    BY <1>2 DEF CastType
  <2>5. active' = active /\ active \in [Ids -> Sockets \cup {NoSocket}]
    BY <1>2 DEF TypeOK
  <2>6. QED
    BY <2>3, <2>4, <2>5
<1>3. ASSUME cast' = [NoCast EXCEPT !.pc = "done", !.shifted = c.shifted, !.tried = c.tried,
                                    !.keys = c.keys],
             active' = [i \in Ids |-> IF i \in c.dead THEN NoSocket ELSE active[i]]
      PROVE  Goal
  BY <1>3 DEF TypeOK, CastType, NoCast
<1>4. QED
  BY <1>1, <1>2, <1>3 DEF Advance

\* A step of a broadcast removes entries, each of an id whose socket has ended, and
\* goes on from what the iterator knew or, when it starts, from what there is.
LEMMA BroadcastEffect ==
  ASSUME IInv, BroadcastStep
  PROVE  /\ TypeOK'
         /\ UNCHANGED <<id, pc, target, gone>>
         /\ \A i \in Ids : active'[i] = active[i] \/ (active'[i] = NoSocket /\ Ended(i))
         /\ CastKnowsEnds'
         /\ \E c \in CastType :
              /\ Advance(c)
              /\ ~c.shifted => Registered \subseteq c.keys /\ c.size = Cardinality(c.keys)
<1> DEFINE Start == [NoCast EXCEPT !.size = Cardinality(Registered), !.keys = Registered,
                                   !.left = Cardinality(Registered)]
           Failed == [cast EXCEPT !.dead = @ \cup {cast.to[1]}]
<1>1. UNCHANGED <<id, pc, target, gone>>
  BY DEF BroadcastStep, Broadcast, BroadcastSent, BroadcastSendFails
<1>2. cast \in CastType /\ TypeOK
  BY DEF IInv, TypeOK, CastType
<1>3. PICK c \in CastType :
        /\ Advance(c)
        /\ \A i \in c.dead : Ended(i)
        /\ ~c.shifted => Registered \subseteq c.keys /\ c.size = Cardinality(c.keys)
  <2>1. CASE Broadcast
    <3>1. Start \in CastType /\ Start.dead = {} /\ Start.keys = Registered
          /\ Start.size = Cardinality(Registered)
      BY RegisteredIsFinite DEF CastType, NoCast, Registered
    <3>2. Advance(Start)
      BY <2>1 DEF Broadcast
    <3>3. QED
      BY <3>1, <3>2
  <2>2. CASE BroadcastSent
    BY <2>2, <1>2 DEF BroadcastSent, IInv, CastKnowsEnds, CastKeepsCount, Ended
  <2>3. CASE BroadcastSendFails
    <3>1. /\ cast.to[1] \in Ids /\ cast.to[2] \in Sockets /\ id[cast.to[2]] = cast.to[1]
          /\ \A i \in cast.dead : Ended(i)
      BY <2>3 DEF BroadcastSendFails, IInv, CastKnowsEnds, Ended
    <3>2. Ended(cast.to[1])
      BY <2>3, <3>1 DEF BroadcastSendFails, Ended
    <3>3. /\ Failed \in CastType
          /\ Failed.dead = cast.dead \cup {cast.to[1]}
          /\ Failed.shifted = cast.shifted /\ Failed.keys = cast.keys /\ Failed.size = cast.size
      BY <1>2, <3>1 DEF CastType
    <3>4. Advance(Failed)
      BY <2>3 DEF BroadcastSendFails
    <3>5. ~cast.shifted => Registered \subseteq cast.keys /\ cast.size = Cardinality(cast.keys)
      BY <2>3 DEF BroadcastSendFails, IInv, CastKeepsCount
    <3>6. QED
      BY <3>1, <3>2, <3>3, <3>4, <3>5
  <2>4. QED
    BY <2>1, <2>2, <2>3 DEF BroadcastStep
<1>4. /\ cast' \in CastType
      /\ active' \in [Ids -> Sockets \cup {NoSocket}]
      /\ \A i \in Ids : active'[i] = active[i] \/ (active'[i] = NoSocket /\ i \in c.dead)
      /\ cast'.dead = {} \/ cast'.dead = c.dead
      /\ cast'.pc = "sending" => \E i \in Registered : cast'.to = <<i, active[i]>>
  BY <1>2, <1>3, AdvanceEffect
<1>5. TypeOK'
  BY <1>1, <1>2, <1>4 DEF TypeOK, CastType
<1>6. CastKnowsEnds'
  <2>1. cast'.pc = "sending" =>
          cast'.to[1] \in Ids /\ cast'.to[2] \in Sockets /\ id[cast'.to[2]] = cast'.to[1]
    BY <1>2, <1>4 DEF TypeOK, Registered, IInv, EntriesAreOpen
  <2>2. \A i \in cast'.dead : Ended(i)
    BY <1>3, <1>4
  <2>3. QED
    BY <1>1, <2>1, <2>2 DEF CastKnowsEnds, Ended
<1>7. QED
  BY <1>1, <1>3, <1>4, <1>5, <1>6

\* Every step keeps the types.
LEMMA NextTypeOK == IInv /\ [Next]_vars => TypeOK'
<1> SUFFICES ASSUME IInv, [Next]_vars
             PROVE  TypeOK'
  OBVIOUS
<1> USE SocketAssumption DEF IInv, TypeOK, Goto, Open
<1>1. ASSUME NEW s \in Sockets, NEW i \in Ids, Connect(s, i)
      PROVE  TypeOK'
  BY <1>1 DEF Connect
<1>2. ASSUME NEW s \in Sockets, Accepted(s)
      PROVE  TypeOK'
  BY <1>2 DEF Accepted
<1>3. ASSUME NEW s \in Sockets, AcceptFails(s) \/ SendFails(s) \/ EndpointEnds(s)
      PROVE  TypeOK'
  BY <1>3 DEF AcceptFails, SendFails, EndpointEnds, Forget
<1>4. ASSUME NEW s \in Sockets, Receive(s)
      PROVE  TypeOK'
  BY <1>4 DEF Receive, SendPersonalMessage
<1>5. ASSUME NEW s \in Sockets, Sent(s) \/ ClientGoes(s)
      PROVE  TypeOK'
  BY <1>5 DEF Sent, ClientGoes
<1>6. CASE BroadcastStep
  BY <1>6, BroadcastEffect
<1>7. CASE UNCHANGED vars
  BY <1>7 DEF vars
<1>8. QED
  BY <1>1, <1>2, <1>3, <1>4, <1>5, <1>6, <1>7 DEF Next, SocketStep, BroadcastStep

\* A socket gets its id with its first step and keeps it.
LEMMA NextIds == IInv /\ [Next]_vars => IdsAreSet'
<1> SUFFICES ASSUME IInv, [Next]_vars
             PROVE  IdsAreSet'
  OBVIOUS
<1> USE SocketAssumption DEF IInv, TypeOK, IdsAreSet, Goto, Open
<1>1. ASSUME NEW s \in Sockets, NEW i \in Ids, Connect(s, i)
      PROVE  IdsAreSet'
  BY <1>1 DEF Connect
<1>2. ASSUME NEW s \in Sockets,
             Accepted(s) \/ AcceptFails(s) \/ SendFails(s) \/ EndpointEnds(s)
      PROVE  IdsAreSet'
  BY <1>2 DEF Accepted, AcceptFails, SendFails, EndpointEnds
<1>3. ASSUME NEW s \in Sockets, Receive(s) \/ Sent(s) \/ ClientGoes(s)
      PROVE  IdsAreSet'
  BY <1>3 DEF Receive, SendPersonalMessage, Sent, ClientGoes
<1>4. CASE BroadcastStep
  BY <1>4, BroadcastEffect
<1>5. CASE UNCHANGED vars
  BY <1>5 DEF vars
<1>6. QED
  BY <1>1, <1>2, <1>3, <1>4, <1>5 DEF Next, SocketStep, BroadcastStep

\* The step that closes an endpoint removes the entry of its id, and by
\* IdsAreSet no entry of another id can be its socket.
LEMMA NextEntries == IInv /\ [Next]_vars => EntriesAreOpen'
<1> SUFFICES ASSUME IInv, [Next]_vars
             PROVE  EntriesAreOpen'
  OBVIOUS
<1> USE SocketAssumption DEF IInv, TypeOK, EntriesAreOpen, Goto, Open
<1>1. ASSUME NEW s \in Sockets, NEW i \in Ids, Connect(s, i)
      PROVE  EntriesAreOpen'
  BY <1>1 DEF Connect
<1>2. ASSUME NEW s \in Sockets, Accepted(s)
      PROVE  EntriesAreOpen'
  BY <1>2 DEF Accepted
<1>3. ASSUME NEW s \in Sockets, AcceptFails(s)
      PROVE  EntriesAreOpen'
  BY <1>3 DEF AcceptFails, Forget
<1>4. ASSUME NEW s \in Sockets, SendFails(s)
      PROVE  EntriesAreOpen'
  BY <1>4 DEF SendFails, Forget
<1>5. ASSUME NEW s \in Sockets, EndpointEnds(s)
      PROVE  EntriesAreOpen'
  BY <1>5 DEF EndpointEnds, Forget
<1>6. ASSUME NEW s \in Sockets, Receive(s) \/ Sent(s) \/ ClientGoes(s)
      PROVE  EntriesAreOpen'
  BY <1>6 DEF Receive, SendPersonalMessage, Sent, ClientGoes
<1>7. CASE BroadcastStep
  BY <1>7, BroadcastEffect DEF Ended
<1>8. CASE UNCHANGED vars
  BY <1>8 DEF vars
<1>9. QED
  BY <1>1, <1>2, <1>3, <1>4, <1>5, <1>6, <1>7, <1>8 DEF Next, SocketStep, BroadcastStep

\* An entry leads to a socket of the same id, so an answer never crosses.
LEMMA NextAnswers == IInv /\ [Next]_vars => AnswersStayWithId'
<1> SUFFICES ASSUME IInv, [Next]_vars
             PROVE  AnswersStayWithId'
  OBVIOUS
<1> USE SocketAssumption DEF IInv, TypeOK, AnswersStayWithId, Goto, Open
<1>1. ASSUME NEW s \in Sockets, NEW i \in Ids, Connect(s, i)
      PROVE  AnswersStayWithId'
  BY <1>1 DEF Connect
<1>2. ASSUME NEW s \in Sockets, Accepted(s)
      PROVE  AnswersStayWithId'
  BY <1>2 DEF Accepted
<1>3. ASSUME NEW s \in Sockets, AcceptFails(s) \/ SendFails(s) \/ EndpointEnds(s)
      PROVE  AnswersStayWithId'
  BY <1>3 DEF AcceptFails, SendFails, EndpointEnds
<1>4. ASSUME NEW s \in Sockets, Receive(s)
      PROVE  AnswersStayWithId'
  BY <1>4 DEF Receive, SendPersonalMessage, EntriesAreOpen
<1>5. ASSUME NEW s \in Sockets, Sent(s) \/ ClientGoes(s)
      PROVE  AnswersStayWithId'
  BY <1>5 DEF Sent, ClientGoes
<1>6. CASE BroadcastStep
  BY <1>6, BroadcastEffect
<1>7. CASE UNCHANGED vars
  BY <1>7 DEF vars
<1>8. QED
  BY <1>1, <1>2, <1>3, <1>4, <1>5, <1>6, <1>7 DEF Next, SocketStep, BroadcastStep

\* Who removes an entry that is not its own has the id of the entry's socket.
LEMMA NextTwins == IInv /\ [Next]_vars => UnregisteredNeedsTwin'
<1> SUFFICES ASSUME IInv, [Next]_vars
             PROVE  UnregisteredNeedsTwin'
  OBVIOUS
<1> USE SocketAssumption DEF IInv, TypeOK, UnregisteredNeedsTwin, Goto, Open
<1>1. ASSUME NEW s \in Sockets, NEW i \in Ids, Connect(s, i)
      PROVE  UnregisteredNeedsTwin'
  BY <1>1 DEF Connect
<1>2. ASSUME NEW s \in Sockets, Accepted(s)
      PROVE  UnregisteredNeedsTwin'
  BY <1>2 DEF Accepted
<1>3. ASSUME NEW s \in Sockets, AcceptFails(s)
      PROVE  UnregisteredNeedsTwin'
  BY <1>3 DEF AcceptFails, Forget
<1>4. ASSUME NEW s \in Sockets, SendFails(s)
      PROVE  UnregisteredNeedsTwin'
  <2>1. target[s] # s => target[s] \in Sockets \ {s} /\ id[target[s]] = id[s]
    BY <1>4 DEF SendFails, AnswersStayWithId
  <2>2. target[s] = s => s \in gone
    BY <1>4 DEF SendFails
  <2>3. QED
    BY <1>4, <2>1, <2>2 DEF SendFails, Forget
<1>5. ASSUME NEW s \in Sockets, EndpointEnds(s)
      PROVE  UnregisteredNeedsTwin'
  BY <1>5 DEF EndpointEnds, Forget
<1>6. ASSUME NEW s \in Sockets, Receive(s) \/ Sent(s) \/ ClientGoes(s)
      PROVE  UnregisteredNeedsTwin'
  BY <1>6 DEF Receive, SendPersonalMessage, Sent, ClientGoes
<1>7. CASE BroadcastStep
  BY <1>7, BroadcastEffect DEF Ended
<1>8. CASE UNCHANGED vars
  BY <1>8 DEF vars
<1>9. QED
  BY <1>1, <1>2, <1>3, <1>4, <1>5, <1>6, <1>7, <1>8 DEF Next, SocketStep, BroadcastStep

\* What a broadcast knows of a socket's end stays true: no socket changes its id,
\* comes back or is opened again.
LEMMA NextCastKnows == IInv /\ [Next]_vars => CastKnowsEnds'
<1> SUFFICES ASSUME IInv, [Next]_vars
             PROVE  CastKnowsEnds'
  OBVIOUS
<1>1. CASE BroadcastStep
  BY <1>1, BroadcastEffect
<1>2. ASSUME NEW s \in Sockets, SocketStep(s)
      PROVE  CastKnowsEnds'
  <2>1. /\ cast'.pc = cast.pc /\ cast'.to = cast.to /\ cast'.dead = cast.dead
        /\ gone \subseteq gone'
        /\ \A t \in Sockets : pc[t] = "done" => pc'[t] = "done"
        /\ \A t \in Sockets : id[t] # NoId => id'[t] = id[t]
    BY <1>2 DEF SocketStep, Connect, Accepted, AcceptFails, Receive, SendPersonalMessage, Sent,
                SendFails, EndpointEnds, ClientGoes, Goto, IInv, TypeOK
  <2>2. cast.dead \subseteq Ids
    BY DEF IInv, TypeOK
  <2>3. QED
    BY <2>1, <2>2, SocketAssumption DEF IInv, CastKnowsEnds
<1>3. CASE UNCHANGED vars
  BY <1>3 DEF IInv, CastKnowsEnds, vars
<1>4. QED
  BY <1>1, <1>2, <1>3 DEF Next, BroadcastStep

\* While nothing is inserted the registered ids only become fewer, and as long as
\* their number is what it was, none has gone.
LEMMA NextCastCount == IInv /\ [Next]_vars => CastKeepsCount'
<1> SUFFICES ASSUME IInv, [Next]_vars
             PROVE  CastKeepsCount'
  OBVIOUS
<1>1. CASE BroadcastStep
  <2>1. PICK c \in CastType :
          /\ Advance(c)
          /\ ~c.shifted => Registered \subseteq c.keys /\ c.size = Cardinality(c.keys)
    BY <1>1, BroadcastEffect
  <2>2. ASSUME cast' = [NoCast EXCEPT !.pc = "raised"]
        PROVE  CastKeepsCount'
    BY <2>2 DEF CastKeepsCount, BroadcastReachesAll, NoCast
  <2>3. ASSUME NEW i \in Registered, UNCHANGED active,
               cast' = [c EXCEPT !.pc = "sending", !.to = <<i, active[i]>>, !.left = @ - 1,
                                 !.tried = @ \cup {i}]
        PROVE  CastKeepsCount'
    <3>1. cast'.pc = "sending" /\ cast'.shifted = c.shifted /\ cast'.keys = c.keys
          /\ cast'.size = c.size
      BY <2>3 DEF CastType
    <3>2. Registered' = Registered
      BY <2>3 DEF Registered
    <3>3. QED
      BY <2>1, <3>1, <3>2 DEF CastKeepsCount, BroadcastReachesAll
  <2>4. ASSUME Cardinality(Registered) = c.size, c.shifted \/ Registered \subseteq c.tried,
               cast' = [NoCast EXCEPT !.pc = "done", !.shifted = c.shifted,
                                      !.tried = c.tried, !.keys = c.keys]
        PROVE  CastKeepsCount'
    <3>1. cast'.pc = "done" /\ cast'.shifted = c.shifted /\ cast'.keys = c.keys
          /\ cast'.tried = c.tried
      BY <2>4 DEF NoCast
    <3>2. IsFiniteSet(c.keys)
      BY SocketAssumption, FS_Subset DEF CastType
    <3>3. ASSUME ~c.shifted PROVE Registered = c.keys
      BY <2>1, <2>4, <3>2, <3>3, FS_Subset
    <3>4. QED
      BY <2>4, <3>1, <3>3 DEF CastKeepsCount, BroadcastReachesAll
  <2>5. QED
    BY <2>1, <2>2, <2>3, <2>4 DEF Advance
<1>2. ASSUME NEW s \in Sockets, SocketStep(s)
      PROVE  CastKeepsCount'
  <2>1. /\ cast'.pc = cast.pc /\ cast'.size = cast.size /\ cast'.keys = cast.keys
        /\ cast'.tried = cast.tried
        /\ cast.shifted => cast'.shifted
        /\ cast.pc = "sending" /\ ~cast'.shifted => Registered' \subseteq Registered
    BY <1>2, SocketAssumption
    DEF SocketStep, Connect, Accepted, AcceptFails, Receive, SendPersonalMessage, Sent,
        SendFails, EndpointEnds, ClientGoes, Forget, Goto, IInv, TypeOK, Registered
  <2>2. QED
    BY <2>1 DEF IInv, CastKeepsCount, BroadcastReachesAll
<1>3. CASE UNCHANGED vars
  BY <1>3 DEF IInv, CastKeepsCount, BroadcastReachesAll, Registered, vars
<1>4. QED
  BY <1>1, <1>2, <1>3 DEF Next, BroadcastStep

\* The conjuncts carry each other through every behaviour.
LEMMA Invariance == Spec => []IInv
<1>1. IInv /\ [Next]_vars => IInv'
  BY NextTypeOK, NextIds, NextEntries, NextAnswers, NextTwins, NextCastKnows,
     NextCastCount
  DEF IInv, IdsAreSet
<1>2. QED
  BY InitIInv, <1>1, PTL DEF Spec

\* The tables of the endpoint keep their types.
THEOREM TypeCorrect == Spec => []TypeOK
<1>1. IInv => TypeOK
  BY DEF IInv
<1>2. QED
  BY Invariance, <1>1, PTL

\* active_connections never names a socket whose endpoint has ended, so the
\* connection count counts open connections.
THEOREM NoEntryIsLeft == Spec => []EntriesAreOpen
<1>1. IInv => EntriesAreOpen
  BY DEF IInv
<1>2. QED
  BY Invariance, <1>1, PTL

\* An answer goes to a socket that was accepted under the asker's id.
THEOREM AnswersDoNotCross == Spec => []AnswersStayWithId
<1>1. IInv => AnswersStayWithId
  BY DEF IInv
<1>2. QED
  BY Invariance, <1>1, PTL

\* A client whose id nobody else uses is registered as long as it is there.
THEOREM OwnIdStaysRegistered == Spec => []UnregisteredNeedsTwin
<1>1. IInv => UnregisteredNeedsTwin
  BY DEF IInv
<1>2. QED
  BY Invariance, <1>1, PTL

\* A broadcast that ends without an exception has tried every id that was registered
\* when it began, unless ids were inserted and removed meanwhile.
THEOREM BroadcastIsComplete == Spec => []BroadcastReachesAll
<1>1. IInv => BroadcastReachesAll
  BY DEF IInv, CastKeepsCount
<1>2. QED
  BY Invariance, <1>1, PTL
============================================================================
