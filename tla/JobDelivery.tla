----------------------------- MODULE JobDelivery -----------------------------
(***************************************************************************)
(* What a task queue promises about handing out jobs: an accepted job      *)
(* waits, is out with the one caller that took it, may be put back to wait *)
(* once it is reported on, and may be buried among the dead letters, from  *)
(* where nothing takes it again.  No job gets lost while it waits and none *)
(* is taken twice without having been put back in between.                 *)
(***************************************************************************)
CONSTANTS Jobs, Callers, Nobody

VARIABLES
  stage,   \* where each job is: "fresh", "waiting", "out", "dead"
  owner    \* the job each caller works on

vars == <<stage, owner>>

Init ==
  /\ stage = [j \in Jobs |-> "fresh"]
  /\ owner = [c \in Callers |-> Nobody]

Moves(j, s) == stage' = [stage EXCEPT ![j] = s]

\* Caller c, if it works on j, is done with it.
LetsGo(c, j) == owner' = [owner EXCEPT ![c] = IF @ = j THEN Nobody ELSE @]

Accept(j) == stage[j] = "fresh" /\ Moves(j, "waiting") /\ UNCHANGED owner

\* Only a waiting job can be taken, and taking it is what ends the wait.
Take(c, j) ==
  /\ stage[j] = "waiting"
  /\ owner[c] = Nobody
  /\ Moves(j, "out")
  /\ owner' = [owner EXCEPT ![c] = j]

Finish(c) ==
  /\ owner[c] # Nobody
  /\ owner' = [owner EXCEPT ![c] = Nobody]
  /\ UNCHANGED stage

\* Caller c gives j back for another try, unless somebody else works on it.
Requeue(c, j) ==
  /\ stage[j] = "out"
  /\ \A d \in Callers \ {c} : owner[d] # j
  /\ Moves(j, "waiting")
  /\ LetsGo(c, j)

\* Caller c reports the last try of j.
Bury(c, j) ==
  /\ stage[j] # "fresh"
  /\ Moves(j, "dead")
  /\ LetsGo(c, j)

Next ==
  \/ \E j \in Jobs : Accept(j)
  \/ \E c \in Callers : Finish(c)
  \/ \E c \in Callers, j \in Jobs : Take(c, j) \/ Requeue(c, j) \/ Bury(c, j)

Spec == Init /\ [][Next]_vars
=============================================================================
