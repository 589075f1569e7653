---------------------------- MODULE ExecutionLog ----------------------------
(***************************************************************************)
(* What the session registry promises about executions: an audit log.      *)
(* An execution is opened for one session while no other execution of that *)
(* session is open, and from then on it is either closed, once, with its   *)
(* outcome (a receipt), or lost (a crash, or a store that cannot write).   *)
(***************************************************************************)
CONSTANTS Executions, None

VARIABLES
  session,  \* the session an execution belongs to
  state     \* where the execution is

vars == <<session, state>>

Outcomes == {"completed", "failed"}

Init ==
  /\ session = [e \in Executions |-> None]
  /\ state = [e \in Executions |-> "none"]

NoneOpen(s) == \A e \in Executions : session[e] = s => state[e] # "open"

Open(e, s) ==
  /\ state[e] = "none"
  /\ NoneOpen(s)
  /\ session' = [session EXCEPT ![e] = s]
  /\ state' = [state EXCEPT ![e] = "open"]

Close(e, outcome) ==
  /\ state[e] = "open"
  /\ state' = [state EXCEPT ![e] = outcome]
  /\ UNCHANGED session

Lose(e) ==
  /\ state[e] = "open"
  /\ state' = [state EXCEPT ![e] = "lost"]
  /\ UNCHANGED session

Next == \E e \in Executions :
  \/ \E s \in Executions : Open(e, s)
  \/ \E outcome \in Outcomes : Close(e, outcome)
  \/ Lose(e)

Spec == Init /\ [][Next]_vars
=============================================================================
