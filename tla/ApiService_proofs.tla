-------------------------- MODULE ApiService_proofs --------------------------
(***************************************************************************)
(* For any number of requests and crashes: the safety properties of        *)
(* ApiService hold, and the endpoint implements RpcCall.  IInv is          *)
(* inductive.  The count of log handlers rests on HandlersAreOwed: clear() *)
(* turns any number of handlers into one that is owed, addHandler() pays   *)
(* one back, so that neither changes handlers + Setups past peak.          *)
(***************************************************************************)
EXTENDS ApiService, FiniteSetTheorems, TLAPS

InSetupSteps == {"signing", "verifying", "submitting"}

N == Cardinality(Requests)

LEMMA RequestsAreFinite == N \in Nat
  BY ApiAssumption, FS_CardinalityType DEF N

\* The setups in progress are finitely many.
LEMMA SetupsAreFew ==
  ASSUME probe \in BOOLEAN
  PROVE  /\ IsFiniteSet(InSetup)
         /\ Cardinality(InSetup) \in 0..N
         /\ Setups = Cardinality(InSetup) + (IF probe THEN 1 ELSE 0)
         /\ Setups \in 0..N + 1
<1>1. InSetup \in SUBSET Requests
  BY DEF InSetup
<1>2. IsFiniteSet(InSetup) /\ Cardinality(InSetup) <= N
  BY <1>1, ApiAssumption, FS_Subset DEF N
<1>3. Cardinality(InSetup) \in Nat
  BY <1>2, FS_CardinalityType
<1>4. Cardinality(InSetup) \in 0..N
  BY <1>2, <1>3, RequestsAreFinite
<1>5. Setups = Cardinality(InSetup) + (IF probe THEN 1 ELSE 0)
  BY DEF Setups
<1>6. Setups \in 0..N + 1
  BY <1>4, <1>5, RequestsAreFinite
<1>7. QED
  BY <1>2, <1>4, <1>5, <1>6

\* A handler of a request begins a setup.
LEMMA SetupBegins ==
  ASSUME TypeOK, UNCHANGED probe, NEW r \in Requests, NEW s \in InSetupSteps,
         pc[r] \notin InSetupSteps, pc' = [pc EXCEPT ![r] = s]
  PROVE  Setups' = Setups + 1 /\ Setups + 1 \in 1..N + 1
<1>1. InSetup' = InSetup \cup {r} /\ r \notin InSetup
  BY DEF InSetup, InSetupSteps, TypeOK
<1>2. probe \in BOOLEAN /\ probe' \in BOOLEAN
  BY DEF TypeOK
<1>3. IsFiniteSet(InSetup) /\ Cardinality(InSetup) \in 0..N
  BY <1>2, SetupsAreFew
<1>4. Cardinality(InSetup') = Cardinality(InSetup) + 1
  BY <1>1, <1>3, FS_AddElement
<1>5. Setups' = Cardinality(InSetup') + (IF probe THEN 1 ELSE 0)
  BY DEF Setups
<1>6. Setups = Cardinality(InSetup) + (IF probe THEN 1 ELSE 0)
  BY DEF Setups
<1>7. InSetup' \in SUBSET Requests /\ IsFiniteSet(InSetup')
  BY <1>1, <1>3, FS_AddElement DEF InSetup
<1>8. Cardinality(InSetup') <= N
  BY <1>7, ApiAssumption, FS_Subset DEF N
<1>9. QED
  BY <1>3, <1>4, <1>5, <1>6, <1>8, RequestsAreFinite

\* It adds its handler.
LEMMA SetupEnds ==
  ASSUME TypeOK, UNCHANGED probe, NEW r \in Requests, NEW s \in Steps \ InSetupSteps,
         pc[r] \in InSetupSteps, pc' = [pc EXCEPT ![r] = s]
  PROVE  Setups' = Setups - 1 /\ Setups \in 1..N + 1
<1>1. InSetup' = InSetup \ {r} /\ r \in InSetup
  BY DEF InSetup, InSetupSteps, TypeOK
<1>2. probe \in BOOLEAN
  BY DEF TypeOK
<1>3. IsFiniteSet(InSetup) /\ Cardinality(InSetup) \in 0..N /\ Setups \in 0..N + 1
  BY <1>2, SetupsAreFew
<1>4. Cardinality(InSetup') = Cardinality(InSetup) - 1
  BY <1>1, <1>3, FS_RemoveElement
<1>5. Setups' = Cardinality(InSetup') + (IF probe THEN 1 ELSE 0)
  BY DEF Setups
<1>6. Setups = Cardinality(InSetup) + (IF probe THEN 1 ELSE 0)
  BY DEF Setups
<1>7. Cardinality(InSetup) # 0
  BY <1>1, <1>3, FS_EmptySet
<1>8. QED
  BY <1>3, <1>4, <1>5, <1>6, <1>7, RequestsAreFinite

\* A step between two others leaves the setups alone.
LEMMA SetupsStay ==
  ASSUME TypeOK, UNCHANGED probe, NEW r \in Requests, NEW s \in Steps \ InSetupSteps,
         pc[r] \notin InSetupSteps, pc' = [pc EXCEPT ![r] = s]
  PROVE  Setups' = Setups
<1>1. InSetup' = InSetup
  BY DEF InSetup, InSetupSteps, TypeOK
<1>2. QED
  BY <1>1 DEF Setups

----------------------------------------------------------------------------
(* The logger *)

LogIsFine ==
  /\ HandlersAreOwed
  /\ handlers \in 0..N + 1
  /\ peak \in 0..N + 1

LEMMA LogIsTyped == TypeOK /\ HandlersAreOwed => LogIsFine /\ Setups \in 0..N + 1
  BY SetupsAreFew DEF TypeOK, LogIsFine, N

LEMMA ClearKeepsLog ==
  ASSUME TypeOK, HandlersAreOwed, phase # "down", UNCHANGED phase, ClearHandlers,
         Setups' = Setups + 1, Setups + 1 \in 1..N + 1
  PROVE  LogIsFine'
<1>1. LogIsFine /\ Setups \in 0..N + 1
  BY LogIsTyped
<1>2. QED
  BY <1>1, RequestsAreFinite DEF LogIsFine, HandlersAreOwed, ClearHandlers

LEMMA AddKeepsLog ==
  ASSUME TypeOK, HandlersAreOwed, phase # "down", UNCHANGED phase, AddHandler,
         Setups' = Setups - 1, Setups \in 1..N + 1
  PROVE  LogIsFine'
<1>1. LogIsFine
  BY LogIsTyped
<1>2. QED
  BY <1>1, RequestsAreFinite DEF LogIsFine, HandlersAreOwed, AddHandler

LEMMA StayKeepsLog ==
  ASSUME TypeOK, HandlersAreOwed, phase = "down" <=> phase' = "down",
         UNCHANGED log, Setups' = Setups
  PROVE  LogIsFine'
<1>1. LogIsFine
  BY LogIsTyped
<1>2. QED
  BY <1>1 DEF LogIsFine, HandlersAreOwed, log

\* Outside of the serving process nobody sets the logger up.
LEMMA NoSetupOutside == TypeOK /\ QuietOutside /\ ~Running => Setups = 0
<1> SUFFICES ASSUME TypeOK, QuietOutside, ~Running PROVE Setups = 0
  OBVIOUS
<1>1. InSetup = {} /\ ~probe
  BY DEF QuietOutside, InSetup
<1>2. QED
  BY <1>1, FS_EmptySet DEF Setups

\* Every step keeps the number of handlers owed.
LEMMA LogStep == IInv /\ [Next]_vars => LogIsFine'
<1> SUFFICES ASSUME IInv, [Next]_vars PROVE LogIsFine'
  OBVIOUS
<1> USE DEF IInv
<1>a. TypeOK /\ HandlersAreOwed /\ QuietOutside
  OBVIOUS
<1>b. \A r \in Requests : pc[r] \notin {"idle", "done"} => phase # "down"
  BY <1>a DEF QuietOutside, Running
<1>1. ASSUME NEW r \in Requests, RequestToken(r) PROVE LogIsFine'
  <2>1. phase # "down" /\ UNCHANGED <<phase, probe>>
    BY <1>1 DEF RequestToken, process
  <2>2. Setups' = Setups + 1 /\ Setups + 1 \in 1..N + 1
    BY <1>1, <1>a, <2>1, SetupBegins DEF RequestToken, Goto, InSetupSteps
  <2>3. QED
    BY <1>1, <1>a, <2>1, <2>2, ClearKeepsLog DEF RequestToken
<1>2. ASSUME NEW r \in Requests, GetCurrentClient(r) PROVE LogIsFine'
  <2>1. phase # "down" /\ UNCHANGED <<phase, probe>>
    BY <1>2, <1>b DEF GetCurrentClient, process, Goto
  <2>2. Setups' = Setups + 1 /\ Setups + 1 \in 1..N + 1
    BY <1>2, <1>a, <2>1, SetupBegins DEF GetCurrentClient, Goto, InSetupSteps
  <2>3. QED
    BY <1>2, <1>a, <2>1, <2>2, ClearKeepsLog DEF GetCurrentClient
<1>3. ASSUME NEW r \in Requests, SubmitScrapingRequest(r) PROVE LogIsFine'
  <2>1. phase # "down" /\ UNCHANGED <<phase, probe>>
    BY <1>3, <1>b DEF SubmitScrapingRequest, process, Goto
  <2>2. Setups' = Setups + 1 /\ Setups + 1 \in 1..N + 1
    BY <1>3, <1>a, <2>1, SetupBegins DEF SubmitScrapingRequest, Goto, InSetupSteps
  <2>3. QED
    BY <1>3, <1>a, <2>1, <2>2, ClearKeepsLog DEF SubmitScrapingRequest
<1>4. ASSUME HealthCheck PROVE LogIsFine'
  <2>1. phase # "down" /\ UNCHANGED phase /\ ~probe /\ probe'
    BY <1>4 DEF HealthCheck, process, LoopIsFree
  <2>2. InSetup' = InSetup
    BY <1>4 DEF HealthCheck, InSetup
  <2>3. Cardinality(InSetup) \in 0..N
    BY <1>a, SetupsAreFew DEF TypeOK
  <2>4. Setups' = Setups + 1 /\ Setups + 1 \in 1..N + 1
    BY <2>1, <2>2, <2>3, RequestsAreFinite DEF Setups
  <2>5. QED
    BY <1>4, <1>a, <2>1, <2>4, ClearKeepsLog DEF HealthCheck
<1>5. ASSUME Report PROVE LogIsFine'
  <2>1. phase # "down" /\ UNCHANGED phase /\ probe /\ ~probe'
    BY <1>5, <1>a DEF Report, QuietOutside, Running
  <2>2. InSetup' = InSetup
    BY <1>5 DEF Report, InSetup
  <2>3. Cardinality(InSetup) \in 0..N
    BY <1>a, SetupsAreFew DEF TypeOK
  <2>4. Setups' = Setups - 1 /\ Setups \in 1..N + 1
    BY <2>1, <2>2, <2>3, RequestsAreFinite DEF Setups
  <2>5. QED
    BY <1>5, <1>a, <2>1, <2>4, AddKeepsLog DEF Report
<1>6. ASSUME NEW r \in Requests,
             CreateAccessToken(r) \/ VerifyToken(r) \/ CallAsync(r) \/ Unavailable(r)
      PROVE  LogIsFine'
  <2>1. PICK s \in Steps \ InSetupSteps :
          pc[r] \in InSetupSteps /\ pc' = [pc EXCEPT ![r] = s]
    BY <1>6 DEF CreateAccessToken, VerifyToken, CallAsync, Unavailable, End, Goto,
                InSetupSteps, Steps
  <2>2. UNCHANGED <<phase, probe>> /\ AddHandler
    BY <1>6 DEF CreateAccessToken, VerifyToken, CallAsync, Unavailable, process
  <2>3. phase # "down"
    BY <1>b, <2>1 DEF InSetupSteps
  <2>4. Setups' = Setups - 1 /\ Setups \in 1..N + 1
    BY <1>a, <2>1, <2>2, SetupEnds
  <2>5. QED
    BY <1>a, <2>2, <2>3, <2>4, AddKeepsLog
<1>7. ASSUME NEW r \in Requests,
             Arrive(r) \/ NoCredentials(r) \/ ValidateFails(r) \/ Respond(r)
      PROVE  LogIsFine'
  <2>1. PICK s \in Steps \ InSetupSteps :
          pc[r] \notin InSetupSteps /\ pc' = [pc EXCEPT ![r] = s]
    BY <1>7 DEF Arrive, NoCredentials, ValidateFails, Respond, End, Goto, InSetupSteps, Steps
  <2>2. UNCHANGED <<phase, probe, log>>
    BY <1>7 DEF Arrive, NoCredentials, ValidateFails, Respond, process
  <2>3. Setups' = Setups
    BY <1>a, <2>1, <2>2, SetupsStay
  <2>4. QED
    BY <1>a, <2>2, <2>3, StayKeepsLog
<1>8. ASSUME UNCHANGED <<pc, probe, log>>, phase = "down" <=> phase' = "down"
      PROVE  LogIsFine'
  <2>1. Setups' = Setups
    BY <1>8 DEF Setups, InSetup
  <2>2. QED
    BY <1>8, <1>a, <2>1, StayKeepsLog
<1>9. ASSUME phase' = "down", Gone PROVE LogIsFine'
  BY <1>9, RequestsAreFinite DEF Gone, LogIsFine, HandlersAreOwed
<1>10. ASSUME Start PROVE LogIsFine'
  <2>1. Setups = 0
    BY <1>10, <1>a, NoSetupOutside DEF Start, Running
  <2>2. Setups' = Setups
    BY <1>10 DEF Start, Setups, InSetup
  <2>3. QED
    BY <1>10, <2>1, <2>2, RequestsAreFinite DEF Start, LogIsFine, HandlersAreOwed
<1>11. ASSUME Lifespan PROVE LogIsFine'
  <2>1. CASE Start
    BY <2>1, <1>10
  <2>2. CASE Connect \/ ConnectFails \/ Stop \/ Drained
    <3>1. UNCHANGED <<pc, probe, log>>
      BY <2>2 DEF Connect, ConnectFails, Stop, Drained
    <3>2. phase # "down" /\ phase' # "down"
      BY <2>2 DEF Connect, ConnectFails, Stop, Drained, Starting, After
    <3>3. QED
      BY <3>1, <3>2, <1>8
  <2>3. CASE Disconnect
    <3>1. phase # "down" /\ UNCHANGED pc
      BY <2>3 DEF Disconnect, Closing
    <3>2. CASE phase' = "down"
      BY <2>3, <3>2, <1>9 DEF Disconnect
    <3>3. CASE phase' # "down"
      BY <2>3, <3>1, <3>3, <1>8 DEF Disconnect
    <3>4. QED
      BY <3>2, <3>3
  <2>4. CASE DisconnectFails
    BY <2>4, <1>9 DEF DisconnectFails
  <2>5. QED
    BY <1>11, <2>1, <2>2, <2>3, <2>4 DEF Lifespan
<1>12. ASSUME Crash PROVE LogIsFine'
  BY <1>12, <1>9 DEF Crash
<1>13. ASSUME NEW r \in Requests, Expire(r) \/ RpcAnswers(r) \/ ScriptSucceeds(r)
       PROVE  LogIsFine'
  BY <1>13, <1>8 DEF Expire, RpcAnswers, ScriptSucceeds, process
<1>14. CASE UNCHANGED vars
  BY <1>14, <1>8 DEF vars, process
<1>15. QED
  BY <1>1, <1>2, <1>3, <1>4, <1>5, <1>6, <1>7, <1>11, <1>12, <1>13, <1>14
  DEF Next, Client, Handle

----------------------------------------------------------------------------
(* The other conjuncts *)

\* What a step does to the process.
ProcessType ==
  /\ phase \in Phases
  /\ handle \in [Parts -> BOOLEAN]
  /\ probe \in BOOLEAN
  /\ health \in {"none", "healthy", "degraded"}
  /\ crashes \in 0..MaxCrashes

\* What it does to the calls.
CallType ==
  /\ pc \in [Requests -> Steps]
  /\ token \in [Requests -> {"none", "forged", "fresh", "expired"}]
  /\ raised \in [Requests -> Statuses \cup {0}]
  /\ Rpc!TypeOK

LEMMA TypeIsSplit == TypeOK <=> /\ ProcessType /\ CallType
                               /\ handlers \in 0..N + 1 /\ peak \in 0..N + 1
  BY DEF TypeOK, ProcessType, CallType, N

LEMMA InitIInv == Init => IInv
<1> SUFFICES ASSUME Init PROVE IInv
  OBVIOUS
<1>1. TypeOK
  <2>1. ProcessType
    <3>1. MaxCrashes \in Nat /\ crashes = 0
      BY ApiAssumption DEF ApiAssumption, Init
    <3>2. handle \in [Parts -> BOOLEAN] /\ probe \in BOOLEAN
      BY Zenon DEF Init
    <3>3. QED
      BY <3>1, <3>2 DEF Init, ProcessType, Phases
  <2>2. CallType
    BY DEF Init, CallType, Steps, Rpc!TypeOK, Rpc!Init
  <2>3. QED
    BY <2>1, <2>2, RequestsAreFinite, TypeIsSplit DEF Init
<1>2. RefusedNeverRuns /\ QuietOutside /\ HandlersAreOwed /\ CallsFitSteps
  BY DEF Init, RefusedNeverRuns, QuietOutside, HandlersAreOwed, CallsFitSteps, Rpc!Init
<1>3. QED
  BY <1>1, <1>2 DEF IInv

LEMMA ProcessStep == IInv /\ [Next]_vars => ProcessType' /\ QuietOutside'
<1> SUFFICES ASSUME IInv, [Next]_vars PROVE ProcessType' /\ QuietOutside'
  OBVIOUS
<1>a. ProcessType /\ QuietOutside /\ CallType
  BY TypeIsSplit DEF IInv
<1>1. ASSUME UNCHANGED process, UNCHANGED probe, UNCHANGED crashes,
             NEW r \in Requests, NEW s \in Steps, pc' = [pc EXCEPT ![r] = s],
             s \in {"idle", "done"} \/ Running
      PROVE  ProcessType' /\ QuietOutside'
  BY <1>1, <1>a DEF process, ProcessType, QuietOutside, Running, CallType
<1>2. ASSUME UNCHANGED process, UNCHANGED probe, UNCHANGED crashes, UNCHANGED pc
      PROVE  ProcessType' /\ QuietOutside'
  BY <1>2, <1>a DEF process, ProcessType, QuietOutside, Running
<1>b. \A r \in Requests : pc[r] \notin {"idle", "done"} => Running
  BY <1>a DEF QuietOutside
<1>3. ASSUME NEW r \in Requests, Client(r) PROVE ProcessType' /\ QuietOutside'
  <2>1. CASE Expire(r)
    BY <2>1, <1>2 DEF Expire
  <2>2. CASE RequestToken(r)
    BY <2>2, <1>1 DEF RequestToken, Goto, Running, Steps, process
  <2>3. CASE Arrive(r)
    BY <2>3, <1>1 DEF Arrive, Goto, Running, Steps, process
  <2>4. QED
    BY <1>3, <2>1, <2>2, <2>3 DEF Client
<1>4. ASSUME NEW r \in Requests, Handle(r) PROVE ProcessType' /\ QuietOutside'
  <2>1. /\ UNCHANGED <<process, probe, crashes>>
        /\ pc[r] \notin {"idle", "done"}
        /\ \E s \in Steps : pc' = [pc EXCEPT ![r] = s]
    BY <1>4 DEF Handle, CreateAccessToken, NoCredentials, GetCurrentClient, VerifyToken,
                ValidateFails, SubmitScrapingRequest, CallAsync, Unavailable, Respond,
                End, Goto, Steps
  <2>2. QED
    BY <2>1, <1>1, <1>b
<1>5. ASSUME NEW r \in Requests, RpcAnswers(r) \/ ScriptSucceeds(r)
      PROVE  ProcessType' /\ QuietOutside'
  BY <1>5, <1>2 DEF RpcAnswers, ScriptSucceeds
<1>6. ASSUME HealthCheck \/ Report PROVE ProcessType' /\ QuietOutside'
  BY <1>6, <1>a DEF HealthCheck, Report, ProcessType, QuietOutside, Running, process
<1>7. ASSUME Start \/ Connect \/ ConnectFails \/ Stop \/ Drained
      PROVE  ProcessType' /\ QuietOutside'
  <2>1. UNCHANGED <<probe, health, crashes, pc>>
    BY <1>7 DEF Start, Connect, ConnectFails, Stop, Drained
  <2>2. phase' \in Phases
    BY <1>7 DEF Start, Connect, ConnectFails, Stop, Drained, Starting, Closing, After, Phases
  <2>3. handle' \in [Parts -> BOOLEAN]
    BY <1>7, <1>a DEF ProcessType, Start, Connect, ConnectFails, Stop, Drained, Parts, Starting
  <2>4. QuietOutside'
    BY <1>7, <1>a, <2>1
    DEF QuietOutside, Running, Start, Connect, ConnectFails, Stop, Drained, Starting
  <2>5. QED
    BY <1>a, <2>1, <2>2, <2>3, <2>4 DEF ProcessType
<1>8. ASSUME Disconnect \/ DisconnectFails PROVE ProcessType' /\ QuietOutside'
  <2>1. UNCHANGED <<crashes, pc>>
    BY <1>8 DEF Disconnect, DisconnectFails
  <2>2. phase' \in Phases
    BY <1>8 DEF Disconnect, DisconnectFails, Closing, After, Phases
  <2>3. Gone \/ UNCHANGED <<handle, health, probe>>
    BY <1>8 DEF Disconnect, DisconnectFails
  <2>4. ProcessType'
    BY <1>a, <2>1, <2>2, <2>3 DEF ProcessType, Gone
  <2>5. ~Running
    BY <1>8 DEF Disconnect, DisconnectFails, Closing, Running
  <2>6. QED
    BY <1>a, <2>1, <2>3, <2>4, <2>5 DEF QuietOutside, Gone
<1>9. ASSUME Crash PROVE ProcessType' /\ QuietOutside'
  <2>a. MaxCrashes \in Nat
    BY ApiAssumption DEF ApiAssumption
  <2>b. crashes' \in 0..MaxCrashes
    BY <1>9, <1>a, <2>a DEF Crash, ProcessType
  <2>c. handle' \in [Parts -> BOOLEAN] /\ probe' \in BOOLEAN
    BY <1>9, Zenon DEF Crash, Gone
  <2>d. phase' = "down" /\ health' = "none"
    BY <1>9 DEF Crash, Gone
  <2>1. ProcessType'
    BY <2>b, <2>c, <2>d DEF ProcessType, Phases
  <2>2. QuietOutside'
    BY <1>9 DEF Crash, Gone, QuietOutside
  <2>3. QED
    BY <2>1, <2>2
<1>10. CASE UNCHANGED vars
  BY <1>10, <1>2 DEF vars
<1>11. QED
  BY <1>3, <1>4, <1>5, <1>6, <1>7, <1>8, <1>9, <1>10 DEF Next, Lifespan

\* Where a call is, and what became of it.
LEMMA CallStep == IInv /\ [Next]_vars => CallType' /\ CallsFitSteps' /\ RefusedNeverRuns'
<1> DEFINE Goal == CallType' /\ CallsFitSteps' /\ RefusedNeverRuns'
<1> SUFFICES ASSUME IInv, [Next]_vars PROVE Goal
  OBVIOUS
<1>a. CallType /\ CallsFitSteps /\ RefusedNeverRuns
  BY TypeIsSplit DEF IInv
<1>1. ASSUME UNCHANGED <<pc, raised, calls>>,
             token' \in [Requests -> {"none", "forged", "fresh", "expired"}]
      PROVE  Goal
  BY <1>1, <1>a DEF CallType, CallsFitSteps, RefusedNeverRuns, Rpc!TypeOK, calls
<1>2. ASSUME NEW r \in Requests, NEW s \in Steps \ {"calling", "done"},
             pc[r] \notin {"calling", "done"}, pc' = [pc EXCEPT ![r] = s],
             token' \in [Requests -> {"none", "forged", "fresh", "expired"}],
             UNCHANGED <<raised, calls>>
      PROVE  Goal
  BY <1>2, <1>a DEF CallType, CallsFitSteps, RefusedNeverRuns, Rpc!TypeOK, calls
<1>3. ASSUME NEW r \in Requests, NEW s \in {401, 403, 422, 500}, NEW from \in Steps,
             from \notin {"calling", "done"}, End(r, from, s), UNCHANGED <<token, calls>>
      PROVE  Goal
  BY <1>3, <1>a
  DEF CallType, CallsFitSteps, RefusedNeverRuns, Rpc!TypeOK, calls, End, Goto, Steps, Statuses
<1>4. ASSUME NEW r \in Requests, Client(r) PROVE Goal
  <2>1. CASE Expire(r)
    BY <2>1, <1>1, <1>a DEF Expire, CallType
  <2>2. CASE RequestToken(r)
    BY <2>2, <1>2, <1>a DEF RequestToken, Goto, Steps, CallType
  <2>3. CASE Arrive(r)
    BY <2>3, <1>2, <1>a DEF Arrive, Goto, Steps, CallType
  <2>4. QED
    BY <1>4, <2>1, <2>2, <2>3 DEF Client
<1>5. ASSUME NEW r \in Requests, Handle(r) PROVE Goal
  <2>1. CASE CreateAccessToken(r)
    <3>1. token' \in [Requests -> {"none", "forged", "fresh", "expired"}]
      BY <2>1, <1>a DEF CreateAccessToken, CallType
    <3>2. QED
      BY <2>1, <3>1, <1>2 DEF CreateAccessToken, Goto, Steps
  <2>2. CASE GetCurrentClient(r)
    BY <2>2, <1>2, <1>a DEF GetCurrentClient, Goto, Steps, CallType
  <2>3. CASE SubmitScrapingRequest(r)
    BY <2>3, <1>2, <1>a DEF SubmitScrapingRequest, Goto, Steps, CallType
  <2>4. CASE VerifyToken(r)
    <3>1. CASE Goto(r, "verifying", "verified") /\ UNCHANGED raised
      BY <2>4, <3>1, <1>2, <1>a DEF VerifyToken, Goto, Steps, CallType
    <3>2. CASE End(r, "verifying", 401)
      BY <2>4, <3>2, <1>3 DEF VerifyToken, Steps
    <3>3. QED
      BY <2>4, <3>1, <3>2 DEF VerifyToken
  <2>5. CASE NoCredentials(r)
    BY <2>5, <1>3 DEF NoCredentials, Steps
  <2>6. CASE ValidateFails(r)
    BY <2>6, <1>3 DEF ValidateFails, Steps
  <2>7. CASE Unavailable(r)
    BY <2>7, <1>3 DEF Unavailable, Steps
  <2>8. CASE CallAsync(r)
    BY <2>8, <1>a
    DEF CallAsync, Goto, Rpc!Submit, CallType, CallsFitSteps, RefusedNeverRuns, Rpc!TypeOK, Steps
  <2>9. CASE Respond(r)
    <3>1. StatusOfAnswer(answer[r]) \in {200, 408, 500}
      BY DEF StatusOfAnswer
    <3>2. StatusOfAnswer(answer[r]) = 200 => answer[r] \in {"completed", "failed", "busy"}
      BY DEF StatusOfAnswer
    <3>3. UNCHANGED <<token, calls>> /\ End(r, "calling", StatusOfAnswer(answer[r]))
      BY <2>9 DEF Respond
    <3>4. answer[r] \in Rpc!Answers
      BY <2>9 DEF Respond
    <3>5. QED
      BY <3>1, <3>2, <3>3, <3>4, <1>a
      DEF End, Goto, CallType, CallsFitSteps, RefusedNeverRuns, Rpc!TypeOK, Rpc!Answers,
          calls, Steps, Statuses
  <2>10. QED
    BY <1>5, <2>1, <2>2, <2>3, <2>4, <2>5, <2>6, <2>7, <2>8, <2>9 DEF Handle
<1>6. ASSUME NEW r \in Requests, RpcAnswers(r) PROVE Goal
  <2>1. PICK a \in Rpc!Answers \ {"lost"} : Rpc!Answer(r, a)
    BY <1>6 DEF RpcAnswers
  <2>2. UNCHANGED <<pc, raised, token>>
    BY <1>6 DEF RpcAnswers
  <2>3. raised[r] = 0
    BY <2>1, <1>a DEF Rpc!Answer, CallsFitSteps, CallType
  <2>4. QED
    BY <2>1, <2>2, <2>3, <1>a
    DEF Rpc!Answer, CallType, CallsFitSteps, RefusedNeverRuns, Rpc!TypeOK, Rpc!Answers
<1>7. ASSUME NEW r \in Requests, ScriptSucceeds(r) PROVE Goal
  BY <1>7, <1>a
  DEF ScriptSucceeds, Rpc!Execute, CallType, CallsFitSteps, RefusedNeverRuns, Rpc!TypeOK
<1>8. ASSUME HealthCheck \/ Report \/ Lifespan PROVE Goal
  <2>1. UNCHANGED <<pc, raised, calls, token>>
    BY <1>8 DEF HealthCheck, Report, Lifespan, Start, Connect, ConnectFails, Stop, Drained,
                Disconnect, DisconnectFails
  <2>2. QED
    BY <2>1, <1>1, <1>a DEF CallType
<1>9. ASSUME Crash PROVE Goal
  BY <1>9, <1>a
  DEF Crash, Rpc!LoseClients, CallType, CallsFitSteps, RefusedNeverRuns, Rpc!TypeOK,
      Rpc!Answers, Steps
<1>10. CASE UNCHANGED vars
  BY <1>10, <1>1, <1>a DEF vars, CallType
<1>11. QED
  BY <1>4, <1>5, <1>6, <1>7, <1>8, <1>9, <1>10 DEF Next

LEMMA NextIInv == IInv /\ [Next]_vars => IInv'
<1> SUFFICES ASSUME IInv, [Next]_vars PROVE IInv'
  OBVIOUS
<1>1. LogIsFine' /\ ProcessType' /\ QuietOutside' /\ CallType' /\ CallsFitSteps'
        /\ RefusedNeverRuns'
  BY LogStep, ProcessStep, CallStep
<1>2. TypeOK'
  BY <1>1 DEF LogIsFine, ProcessType, CallType, TypeOK, N
<1>3. QED
  BY <1>1, <1>2 DEF IInv, LogIsFine

THEOREM Invariance == Spec => []IInv
<1>1. QED
  BY InitIInv, NextIInv, PTL DEF Spec

----------------------------------------------------------------------------
(* The properties *)

\* The variables keep their types for any number of requests and crashes.
THEOREM TypeCorrect == Spec => []TypeOK
<1>1. IInv => TypeOK
  BY DEF IInv
<1>2. QED
  BY <1>1, Invariance, PTL

\* A request refused with 401, 403 or 422 never reaches the queue (main.py,
\* submit_scraping_request after its dependencies).
THEOREM RefusalsAreSafe == Spec => []RefusedNeverRuns
<1>1. IInv => RefusedNeverRuns
  BY DEF IInv
<1>2. QED
  BY <1>1, Invariance, PTL

\* When no setup_logging is in progress the logger has a handler, and no more of
\* them than setups have ever overlapped (utils/logging.py).
THEOREM LoggerKeepsHandlers == Spec => []HandlersStayFew
<1>1. IInv => HandlersStayFew
  <2> SUFFICES ASSUME IInv, Running, Setups = 0 PROVE handlers \in 1..peak
    BY DEF HandlersStayFew
  <2>1. HandlersAreOwed /\ LogIsFine
    BY LogIsTyped DEF IInv
  <2>2. handlers + Setups \in 1..peak
    BY <2>1 DEF HandlersAreOwed, Running
  <2>3. QED
    BY <2>1, <2>2, RequestsAreFinite DEF LogIsFine
<1>2. QED
  BY <1>1, Invariance, PTL

\* Once it is healthy a process has all its parts.
HealthIsTrue ==
  /\ health # "none" => phase \in {"serving", "draining"} \cup Closing
  /\ health = "healthy" => \A p \in Parts : handle[p]

LEMMA HealthStep == IInv /\ HealthIsTrue /\ [Next]_vars => HealthIsTrue'
<1> SUFFICES ASSUME IInv, HealthIsTrue, [Next]_vars PROVE HealthIsTrue'
  OBVIOUS
<1>1. CASE Lifespan
  <2>1. CASE Start \/ Connect \/ ConnectFails
    <3>1. phase \notin {"serving", "draining"} \cup Closing /\ UNCHANGED health
      BY <2>1 DEF Start, Connect, ConnectFails, Starting, Closing
    <3>2. QED
      BY <3>1 DEF HealthIsTrue
  <2>2. CASE Stop \/ Drained
    BY <2>2 DEF Stop, Drained, HealthIsTrue, Closing
  <2>3. CASE Disconnect \/ DisconnectFails
    <3>1. Gone \/ (UNCHANGED <<handle, health>> /\ phase' \in Closing)
      BY <2>3 DEF Disconnect, DisconnectFails, Closing, After
    <3>2. QED
      BY <3>1 DEF Gone, HealthIsTrue
  <2>4. QED
    BY <1>1, <2>1, <2>2, <2>3 DEF Lifespan
<1>2. CASE Crash
  BY <1>2 DEF Crash, Gone, HealthIsTrue
<1>3. CASE Report
  BY <1>3 DEF Report, IsHealthy, HealthIsTrue, IInv, QuietOutside, Running
<1>4. CASE UNCHANGED process
  BY <1>4 DEF process, HealthIsTrue
<1>5. ASSUME NEW r \in Requests, Client(r) \/ Handle(r) \/ RpcAnswers(r) \/ ScriptSucceeds(r)
      PROVE  UNCHANGED process
  BY <1>5
  DEF Client, Handle, RequestToken, Expire, Arrive, CreateAccessToken, NoCredentials,
      GetCurrentClient, VerifyToken, ValidateFails, SubmitScrapingRequest, CallAsync,
      Unavailable, Respond, RpcAnswers, ScriptSucceeds
<1>6. CASE HealthCheck \/ UNCHANGED vars
  BY <1>6, <1>4 DEF HealthCheck, vars
<1>7. QED
  BY <1>1, <1>2, <1>3, <1>4, <1>5, <1>6 DEF Next

\* A process that has called itself healthy refuses no request for want of the
\* RPC client (main.py, health_check and submit_scraping_request).
THEOREM HealthyProcessesServe == Spec => HealthyThenServed
<1>1. Init => HealthIsTrue
  BY DEF Init, HealthIsTrue
<1>2. IInv /\ HealthIsTrue /\ [Next]_vars =>
        [\A r \in Requests :
           health = "healthy" /\ pc[r] = "submitting" /\ pc'[r] = "done" => phase' = "down"]_vars
  <2> SUFFICES ASSUME IInv, HealthIsTrue, Next, NEW r \in Requests,
                      health = "healthy", pc[r] = "submitting", pc'[r] = "done"
               PROVE  phase' = "down"
    BY DEF vars
  <2>1. handle["rpc"]
    BY DEF HealthIsTrue, Parts
  <2>2. ASSUME NEW q \in Requests, Client(q) \/ Handle(q) \/ RpcAnswers(q) \/ ScriptSucceeds(q)
        PROVE  FALSE
    BY <2>1, <2>2
    DEF IInv, TypeOK, Client, Handle, RequestToken, Expire, Arrive, CreateAccessToken, NoCredentials,
        GetCurrentClient, VerifyToken, ValidateFails, SubmitScrapingRequest, CallAsync,
        Unavailable, Respond, RpcAnswers, ScriptSucceeds, End, Goto
  <2>3. CASE Lifespan \/ HealthCheck \/ Report
    BY <2>3 DEF Lifespan, Start, Connect, ConnectFails, Stop, Drained, Disconnect,
                DisconnectFails, HealthCheck, Report
  <2>4. CASE Crash
    BY <2>4 DEF Crash
  <2>5. QED
    BY <2>2, <2>3, <2>4 DEF Next
<1>3. QED
  BY <1>1, <1>2, HealthStep, Invariance, PTL DEF Spec, HealthyThenServed

----------------------------------------------------------------------------
(* Refinement *)

\* The client of a call that goes on or ends sees what RpcCall allows.
LEMMA ViewInit == Init => View!Init
  BY DEF Init, View!Init, ClientView, Rpc!Init

\* A step that moves one call leaves the view of the others alone.
LEMMA ViewOfOthers ==
  ASSUME TypeOK, NEW r \in Requests, NEW s \in Steps, pc' = [pc EXCEPT ![r] = s],
         \A q \in Requests : q # r => raised'[q] = raised[q] /\ answer'[q] = answer[q]
  PROVE  \A q \in Requests : q # r => ClientView'[q] = ClientView[q]
<1>1. \A q \in Requests : q # r => pc'[q] = pc[q]
  BY DEF TypeOK
<1>2. QED
  BY <1>1 DEF ClientView

LEMMA ViewChangesOnce ==
  ASSUME NEW r \in Requests, \A q \in Requests : q # r => ClientView'[q] = ClientView[q]
  PROVE  ClientView' = [ClientView EXCEPT ![r] = ClientView'[r]]
<1>1. ClientView' = [q \in Requests |-> ClientView'[q]]
  BY DEF ClientView
<1>2. ClientView = [q \in Requests |-> ClientView[q]]
  BY DEF ClientView
<1>3. QED
  BY <1>1, <1>2

LEMMA ViewStays ==
  ASSUME \A q \in Requests : ClientView'[q] = ClientView[q]
  PROVE  ClientView' = ClientView
<1>1. ClientView' = [q \in Requests |-> ClientView'[q]]
  BY DEF ClientView
<1>2. ClientView = [q \in Requests |-> ClientView[q]]
  BY DEF ClientView
<1>3. QED
  BY <1>1, <1>2

LEMMA ViewStep == IInv /\ [Next]_vars => [View!Next]_(View!vars)
<1> SUFFICES ASSUME IInv, [Next]_vars PROVE [View!Next]_(View!vars)
  OBVIOUS
<1>a. TypeOK /\ CallsFitSteps /\ Rpc!TypeOK
  BY DEF IInv, TypeOK
<1>1. ASSUME UNCHANGED <<pc, raised, calls>> PROVE UNCHANGED View!vars
  BY <1>1 DEF View!vars, ClientView, calls
<1>2. ASSUME NEW r \in Requests, NEW s \in Steps, pc' = [pc EXCEPT ![r] = s],
             UNCHANGED <<raised, calls>>, ClientView'[r] = ClientView[r]
      PROVE  UNCHANGED View!vars
  <2>1. \A q \in Requests : q # r => ClientView'[q] = ClientView[q]
    BY <1>2, <1>a, ViewOfOthers DEF calls
  <2>2. ClientView' = ClientView
    BY <2>1, <1>2, ViewStays
  <2>3. QED
    BY <1>2, <2>2 DEF View!vars, calls
<1>3. ASSUME NEW r \in Requests, NEW from \in Steps \ {"idle", "signing", "done"},
             NEW s \in {401, 403, 408, 422, 500}, End(r, from, s), UNCHANGED calls
      PROVE  View!Answer(r, "error")
  <2>1. ClientView[r] = "open"
    BY <1>3 DEF ClientView, End, Goto, Steps
  <2>2. pc' = [pc EXCEPT ![r] = "done"] /\ raised' = [raised EXCEPT ![r] = s]
    BY <1>3 DEF End, Goto
  <2>c. pc'[r] = "done" /\ raised'[r] = s
    BY <2>2, <1>a DEF TypeOK
  <2>3. ClientView'[r] = "error"
    BY <2>c DEF ClientView, Wire
  <2>a. \A q \in Requests : q # r => raised'[q] = raised[q] /\ answer'[q] = answer[q]
    BY <2>2, <1>3, <1>a DEF TypeOK, calls
  <2>b. \A q \in Requests : q # r => ClientView'[q] = ClientView[q]
    <3>1. \A q \in Requests : q # r => pc'[q] = pc[q]
      BY <2>2, <1>a DEF TypeOK
    <3>2. QED
      BY <3>1, <2>a DEF ClientView
  <2>4. ClientView' = [ClientView EXCEPT ![r] = "error"]
    BY <2>b, <2>3, ViewChangesOnce
  <2>5. QED
    BY <2>1, <2>4, <1>3 DEF View!Answer, calls
<1>4. ASSUME NEW r \in Requests, Client(r) PROVE [View!Next]_(View!vars)
  <2>1. CASE Expire(r)
    BY <2>1, <1>1 DEF Expire
  <2>2. CASE RequestToken(r)
    <3>1. pc[r] = "idle" /\ pc' = [pc EXCEPT ![r] = "signing"] /\ UNCHANGED <<raised, calls>>
      BY <2>2 DEF RequestToken, Goto
    <3>2. ClientView'[r] = ClientView[r]
      BY <3>1, <1>a DEF ClientView, TypeOK
    <3>3. QED
      BY <3>1, <3>2, <1>2 DEF Steps
  <2>3. CASE Arrive(r)
    <3>1. pc[r] = "idle" /\ pc' = [pc EXCEPT ![r] = "arrived"] /\ UNCHANGED <<raised, calls>>
      BY <2>3 DEF Arrive, Goto
    <3>2. ClientView[r] = "new" /\ ClientView'[r] = "open"
      BY <3>1, <1>a DEF ClientView, TypeOK
    <3>3. ClientView' = [ClientView EXCEPT ![r] = "open"]
      <4>1. \A q \in Requests : q # r => ClientView'[q] = ClientView[q]
        BY <3>1, <1>a, ViewOfOthers DEF Steps, calls
      <4>2. QED
        BY <3>2, <4>1, ViewChangesOnce
    <3>4. View!Submit(r)
      BY <3>1, <3>2, <3>3 DEF View!Submit, calls
    <3>5. QED
      BY <3>4 DEF View!Next
  <2>4. QED
    BY <1>4, <2>1, <2>2, <2>3 DEF Client
<1>5. ASSUME NEW r \in Requests, Handle(r) PROVE [View!Next]_(View!vars)
  <2>1. CASE CreateAccessToken(r)
    <3>1. pc[r] = "signing" /\ pc' = [pc EXCEPT ![r] = "idle"] /\ UNCHANGED <<raised, calls>>
      BY <2>1 DEF CreateAccessToken, Goto
    <3>2. ClientView'[r] = ClientView[r]
      BY <3>1, <1>a DEF ClientView, TypeOK
    <3>3. QED
      BY <3>1, <3>2, <1>2 DEF Steps
  <2>2. ASSUME NEW from \in Steps \ {"idle", "signing", "done"},
               NEW s \in Steps \ {"idle", "signing", "done"}, Goto(r, from, s),
               UNCHANGED <<raised, calls>>
        PROVE  [View!Next]_(View!vars)
    <3>1. ClientView'[r] = ClientView[r]
      BY <2>2, <1>a DEF ClientView, TypeOK, Goto, Steps
    <3>2. QED
      BY <2>2, <3>1, <1>2 DEF Goto
  <2>3. CASE GetCurrentClient(r)
    BY <2>3, <2>2 DEF GetCurrentClient, Steps
  <2>4. CASE SubmitScrapingRequest(r)
    BY <2>4, <2>2 DEF SubmitScrapingRequest, Steps
  <2>5. CASE VerifyToken(r) /\ Goto(r, "verifying", "verified") /\ UNCHANGED raised
    BY <2>5, <2>2 DEF VerifyToken, Steps
  <2>6. ASSUME NEW from \in Steps \ {"idle", "signing", "done"},
               NEW s \in {401, 403, 408, 422, 500}, End(r, from, s), UNCHANGED calls
        PROVE  [View!Next]_(View!vars)
    <3>1. View!Answer(r, "error")
      BY <2>6, <1>3
    <3>2. QED
      BY <3>1 DEF View!Next, View!Answers
  <2>7. CASE VerifyToken(r) /\ End(r, "verifying", 401)
    BY <2>7, <2>6 DEF VerifyToken, Steps
  <2>8. CASE NoCredentials(r)
    BY <2>8, <2>6 DEF NoCredentials, Steps
  <2>9. CASE ValidateFails(r)
    BY <2>9, <2>6 DEF ValidateFails, Steps
  <2>10. CASE Unavailable(r)
    BY <2>10, <2>6 DEF Unavailable, Steps
  <2>11. CASE CallAsync(r)
    <3>1. /\ pc[r] = "submitting" /\ pc' = [pc EXCEPT ![r] = "calling"]
          /\ UNCHANGED <<raised, ran>>
          /\ \A q \in Requests : q # r => answer'[q] = answer[q]
      BY <2>11, <1>a DEF CallAsync, Goto, Rpc!Submit, Rpc!TypeOK
    <3>2. ClientView[r] = "open" /\ ClientView'[r] = "open"
      BY <3>1, <1>a DEF ClientView, TypeOK
    <3>3. \A q \in Requests : q # r => ClientView'[q] = ClientView[q]
      BY <3>1, <1>a, ViewOfOthers DEF Steps
    <3>4. ClientView' = ClientView
      BY <3>2, <3>3, ViewStays
    <3>5. QED
      BY <3>1, <3>4 DEF View!vars
  <2>12. CASE Respond(r)
    <3>1. End(r, "calling", StatusOfAnswer(answer[r])) /\ UNCHANGED calls
      BY <2>12 DEF Respond
    <3>2. CASE StatusOfAnswer(answer[r]) # 200
      <4>1. StatusOfAnswer(answer[r]) \in {401, 403, 408, 422, 500}
        BY <3>2 DEF StatusOfAnswer
      <4>2. QED
        BY <3>1, <4>1, <2>6 DEF Steps
    <3>3. CASE StatusOfAnswer(answer[r]) = 200
      <4>1. answer[r] \in {"completed", "failed", "busy"}
        BY <3>3 DEF StatusOfAnswer
      <4>2. pc[r] = "calling" /\ pc' = [pc EXCEPT ![r] = "done"]
              /\ raised' = [raised EXCEPT ![r] = 200]
        BY <3>1, <3>3 DEF End, Goto
      <4>3. ClientView[r] = "open" /\ ClientView'[r] = answer[r]
        BY <4>2, <3>1, <1>a DEF ClientView, TypeOK, Wire, calls
      <4>4. ClientView' = [ClientView EXCEPT ![r] = answer[r]]
        <5>1. \A q \in Requests : q # r => raised'[q] = raised[q] /\ answer'[q] = answer[q]
          BY <4>2, <3>1, <1>a DEF TypeOK, calls
        <5>2. \A q \in Requests : q # r => ClientView'[q] = ClientView[q]
          BY <4>2, <5>1, <1>a, ViewOfOthers DEF Steps
        <5>3. QED
          BY <4>3, <5>2, ViewChangesOnce
      <4>5. View!Answer(r, answer[r])
        BY <4>3, <4>4, <3>1, <1>a DEF View!Answer, calls, CallsFitSteps
      <4>6. QED
        BY <4>1, <4>5 DEF View!Next, View!Answers
    <3>4. QED
      BY <3>2, <3>3
  <2>13. QED
    BY <1>5, <2>1, <2>3, <2>4, <2>5, <2>7, <2>8, <2>9, <2>10, <2>11, <2>12
    DEF Handle, VerifyToken
<1>6. ASSUME NEW r \in Requests, RpcAnswers(r) PROVE [View!Next]_(View!vars)
  <2>1. UNCHANGED <<pc, raised>>
    BY <1>6 DEF RpcAnswers
  <2>2. answer[r] = "open" /\ UNCHANGED ran
    BY <1>6 DEF RpcAnswers, Rpc!Answer
  <2>3. pc[r] = "calling"
    BY <2>2, <1>a DEF CallsFitSteps
  <2>4. \A q \in Requests : q # r => answer'[q] = answer[q]
    BY <1>6, <1>a DEF RpcAnswers, Rpc!Answer, Rpc!TypeOK
  <2>5. \A q \in Requests : ClientView'[q] = ClientView[q]
    BY <2>1, <2>3, <2>4 DEF ClientView
  <2>6. ClientView' = ClientView
    BY <2>5 DEF ClientView
  <2>7. QED
    BY <2>2, <2>6 DEF View!vars
<1>7. ASSUME NEW r \in Requests, ScriptSucceeds(r) PROVE [View!Next]_(View!vars)
  <2>1. UNCHANGED <<pc, raised, answer>> /\ answer[r] # "new" /\ ran' = ran \cup {r}
    BY <1>7 DEF ScriptSucceeds, Rpc!Execute
  <2>2. pc[r] \in {"calling", "done"}
    BY <2>1, <1>a DEF CallsFitSteps
  <2>3. ClientView[r] # "new"
    BY <2>1, <2>2 DEF ClientView
  <2>4. UNCHANGED ClientView
    BY <2>1 DEF ClientView
  <2>5. QED
    BY <2>1, <2>3, <2>4 DEF View!Next, View!Execute
<1>8. CASE HealthCheck \/ Report \/ Lifespan
  BY <1>8, <1>1 DEF HealthCheck, Report, Lifespan, Start, Connect, ConnectFails, Stop,
                    Drained, Disconnect, DisconnectFails
<1>9. CASE Crash
  <2>1. /\ UNCHANGED <<raised, ran>>
        /\ pc' = [r \in Requests |-> IF pc[r] \in {"idle", "signing"} THEN "idle" ELSE "done"]
        /\ \A r \in Requests : pc[r] = "done" => answer'[r] = answer[r]
    BY <1>9, <1>a DEF Crash, Rpc!LoseClients, CallsFitSteps
  <2>2. ASSUME NEW r \in Requests
        PROVE  ClientView'[r] = IF ClientView[r] = "open" THEN "lost" ELSE ClientView[r]
    <3>1. CASE pc[r] \in {"idle", "signing"}
      BY <2>1, <3>1 DEF ClientView
    <3>2. CASE pc[r] = "done"
      <4>1. ClientView[r] # "open"
        BY <3>2, <1>a DEF ClientView, Wire, CallsFitSteps, TypeOK, Statuses
      <4>2. QED
        BY <2>1, <3>2, <4>1 DEF ClientView
    <3>3. CASE pc[r] \notin {"idle", "signing", "done"}
      BY <2>1, <3>3, <1>a DEF ClientView, CallsFitSteps
    <3>4. QED
      BY <3>1, <3>2, <3>3
  <2>3. ClientView' = [r \in Requests |-> ClientView'[r]]
    BY DEF ClientView
  <2>4. ClientView' = [r \in Requests |->
                         IF ClientView[r] = "open" THEN "lost" ELSE ClientView[r]]
    BY <2>2, <2>3
  <2>5. QED
    BY <2>1, <2>4 DEF View!Next, View!LoseClients
<1>10. CASE UNCHANGED vars
  BY <1>10, <1>1 DEF vars
<1>11. QED
  BY <1>4, <1>5, <1>6, <1>7, <1>8, <1>9, <1>10 DEF Next

\* With its tokens, validation, error statuses and lifespan the endpoint keeps
\* the promise of RpcCall that it gets from call_async.
THEOREM Implements == Spec => ImplementsRpcCall
<1>1. QED
  BY ViewInit, ViewStep, Invariance, PTL DEF Spec, ImplementsRpcCall, View!Spec
============================================================================
