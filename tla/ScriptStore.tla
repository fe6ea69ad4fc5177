----------------------------- MODULE ScriptStore -----------------------------
(***************************************************************************)
(* What get_script promises a program that has the cache directory for     *)
(* itself: a store in which the script of a version is whole or not there  *)
(* at all.  It comes in one step, together with its first use; it never    *)
(* changes in place, leaves in one step, and stays while it is in use.     *)
(* ScriptCache is shown to implement this, of the versions that it does    *)
(* not list as gaps.                                                       *)
(***************************************************************************)

CONSTANTS
  Workers,
  Versions,
  Contents   \* whose version's files a script may consist of

VARIABLES
  held,   \* held[v]: the content of the script of version v, at most one
  using   \* using[w]: the versions worker w has got and not given up, at most one

vars == <<held, using>>

Used == UNION {using[w] : w \in Workers}

Init ==
  /\ held = [v \in Versions |-> {}]
  /\ using = [w \in Workers |-> {}]

\* get_script downloads version v, which was not there.
Deliver(w, v, c) ==
  /\ using[w] = {} /\ held[v] = {}
  /\ held' = [held EXCEPT ![v] = {c}]
  /\ using' = [using EXCEPT ![w] = {v}]

\* get_script finds version v.
Find(w, v) ==
  /\ using[w] = {} /\ held[v] # {}
  /\ using' = [using EXCEPT ![w] = {v}]
  /\ UNCHANGED held

\* The script ends, is refused or dies with its worker.  It may have been kept
\* over its time because it was in use.
GiveUp(w) ==
  /\ using' = [using EXCEPT ![w] = {}]
  /\ \/ UNCHANGED held
     \/ held' = [v \in Versions |-> IF v \in using[w] THEN {} ELSE held[v]]

\* Expiry, invalidation and cleanup take what nobody uses.
Remove(gone) ==
  /\ gone \cap Used = {}
  /\ held' = [v \in Versions |-> IF v \in gone THEN {} ELSE held[v]]
  /\ UNCHANGED using

Next ==
  \/ \E gone \in SUBSET Versions : Remove(gone)
  \/ \E w \in Workers : GiveUp(w)
  \/ \E w \in Workers, v \in Versions : Find(w, v) \/ \E c \in Contents : Deliver(w, v, c)

Spec == Init /\ [][Next]_vars
============================================================================
