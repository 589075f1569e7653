----------------------------- MODULE TaskGraph -----------------------------
(***************************************************************************)
(* What a workflow promises: each step starts at most once, after all the  *)
(* steps it depends on are done, and is done at most once. Nothing is said *)
(* of how steps are grouped or of which of the enabled ones start.         *)
(***************************************************************************)
CONSTANTS Steps

VARIABLES deps, started, done

vars == <<deps, started, done>>

Init ==
  /\ deps \in [Steps -> SUBSET Steps]
  /\ started = {}
  /\ done = {}

Start(t) ==
  /\ t \notin started
  /\ deps[t] \subseteq done
  /\ started' = started \cup {t}
  /\ UNCHANGED <<deps, done>>

Finish(t) ==
  /\ t \in started \ done
  /\ done' = done \cup {t}
  /\ UNCHANGED <<deps, started>>

Next == \E t \in Steps : Start(t) \/ Finish(t)

Spec == Init /\ [][Next]_vars
=============================================================================
