------------------------ MODULE AtMostOnceExecution ------------------------
(***************************************************************************)
(* What the bridge's ExecutionIdempotencyStore promises for a request id   *)
(* (deployment/live_bridge.py): it is performed by at most one attempt,    *)
(* once, whatever copies of the request arrive and whatever dies; and the  *)
(* outcome that attempt leaves, if any, never changes.                     *)
(***************************************************************************)
CONSTANTS
  Ids,          \* request ids
  Attempts,     \* attempts at performing a request
  Outcomes,     \* outcomes an attempt can leave
  NoOutcome     \* none left

VARIABLES
  performers,   \* the attempts now performing a request
  spent,        \* the requests that can no longer be started
  outcome       \* what a performed request left

vars == <<performers, spent, outcome>>

Init ==
  /\ performers = [r \in Ids |-> {}]
  /\ spent = {}
  /\ outcome = [r \in Ids |-> NoOutcome]

Start(r, a) ==
  /\ r \notin spent
  /\ performers' = [performers EXCEPT ![r] = {a}]
  /\ spent' = spent \cup {r}
  /\ UNCHANGED outcome

(* The claim is made and nobody performs the request.                      *)
Waste(r) ==
  /\ r \notin spent
  /\ spent' = spent \cup {r}
  /\ UNCHANGED <<performers, outcome>>

(* The one performer ends, with an outcome or without (it died, or could   *)
(* not store it).                                                          *)
End(r, x) ==
  /\ performers[r] # {}
  /\ outcome[r] = NoOutcome
  /\ performers' = [performers EXCEPT ![r] = {}]
  /\ outcome' = [outcome EXCEPT ![r] = x]
  /\ UNCHANGED spent

Next ==
  \E r \in Ids :
    \/ \E a \in Attempts : Start(r, a)
    \/ Waste(r)
    \/ \E x \in Outcomes \cup {NoOutcome} : End(r, x)

Spec == Init /\ [][Next]_vars

============================================================================
