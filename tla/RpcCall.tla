------------------------------ MODULE RpcCall ------------------------------
(***************************************************************************)
(* What POST /scrape promises a client, with no queue, worker or script in *)
(* sight: a submitted call is answered at most once, an answer is final,   *)
(* and "completed" is answered only if the script of that very call ran    *)
(* to a successful end.  ScrapingSystem is shown to implement this.        *)
(***************************************************************************)

CONSTANT Calls   \* the calls clients may submit (one correlation id each)

VARIABLES
  answer,   \* answer[c]: what the client of call c has seen so far
  ran       \* the calls whose script has come to a successful end

vars == <<answer, ran>>

\* submit_scraping_request returns a ScrapingResponse (completed, failed, or
\* failed because the worker is busy), raises a timeout or another error; the
\* connection may also break under the client ("lost").
Answers == {"completed", "failed", "busy", "timeout", "error", "lost"}

TypeOK ==
  /\ answer \in [Calls -> {"new", "open"} \cup Answers]
  /\ ran \subseteq Calls

Init ==
  /\ answer = [c \in Calls |-> "new"]
  /\ ran = {}

Submit(c) ==
  /\ answer[c] = "new"
  /\ answer' = [answer EXCEPT ![c] = "open"]
  /\ UNCHANGED ran

\* A script may succeed long after its caller gave up, never before the call.
Execute(c) ==
  /\ answer[c] # "new"
  /\ ran' = ran \cup {c}
  /\ UNCHANGED answer

Answer(c, a) ==
  /\ answer[c] = "open"
  /\ a = "completed" => c \in ran
  /\ answer' = [answer EXCEPT ![c] = a]
  /\ UNCHANGED ran

\* A crash of the gateway breaks all the connections of its clients at once.
LoseClients ==
  /\ answer' = [c \in Calls |-> IF answer[c] = "open" THEN "lost" ELSE answer[c]]
  /\ UNCHANGED ran

Next ==
  \/ \E c \in Calls : Submit(c) \/ Execute(c)
  \/ \E c \in Calls, a \in Answers \ {"lost"} : Answer(c, a)
  \/ LoseClients

Spec == Init /\ [][Next]_vars

----------------------------------------------------------------------------
\* A client that submits is eventually answered, or sees its connection break
\* (call_async ends by its reply, its timeout or an exception).
EveryCallEnds == \A c \in Calls : answer[c] = "open" ~> answer[c] \in Answers
============================================================================
