--------------------------- MODULE MCTokenLedger ---------------------------
(* Instances of TokenLedger for TLC: a root agent and one subagent. Call 1  *)
(* is the root agent's own and declares no output cap; the others are       *)
(* delegated to the subagent, and the last of them declares a larger cap    *)
(* than the subagent permits.                                               *)
EXTENDS TokenLedger

CONSTANTS root, sub, Count

CallSet == 1..Count
Paths == [c \in CallSet |-> IF c = 1 THEN {root} ELSE {root, sub}]
OneToken == [c \in CallSet |-> 1]
SomeCaps == [c \in CallSet |-> IF c = 1 THEN None ELSE IF c = Count THEN 2 ELSE 1]
FewCalls == [l \in {root, sub} |-> 2]
OutputLimits == [l \in {root, sub} |-> IF l = root THEN 2 ELSE 1]
\* One of the subagent's reservations of 2, and one more if the first leaves 1.
MoneyLimits == [l \in {root, sub} |-> 3]
UnitPrice == [l \in {root, sub} |-> 1]
=============================================================================
