------------------------------ MODULE MCDriver ------------------------------
(* Instances of Driver for TLC: a root agent delegates to "s" directly and  *)
(* through "t", and only the first content of "s" delegates to "u", so "u"   *)
(* and its container may be compiled once, twice or not at all.              *)
EXTENDS Driver

AgentSet == {"r", "s", "t", "u"}
Delegations == [a \in AgentSet |-> [v \in Versions |->
  CASE a = "r" -> <<"s", "t">>
    [] a = "s" /\ v = 1 -> <<"u">>
    [] a = "t" -> <<"s">>
    [] OTHER -> <<>>]]
Mixed == [r |-> <<"host">>, s |-> <<>>, t |-> <<>>, u |-> <<"container">>]
TwoContainers == [r |-> <<"container", "container">>, s |-> <<>>, t |-> <<>>, u |-> <<>>]
=============================================================================
