----------------------------- MODULE MCReleases -----------------------------
(* Instances of ReleaseStore for TLC: see ReleasesApproval.cfg. The         *)
(* documents are releases over three agents with at most two references     *)
(* each, the same one twice included, that embed all of them or all but one.*)
EXTENDS ReleaseStore, FiniteSets, TLC

CONSTANTS Width, a1, a2, a3

OnePart == <<"agent">>

ReleasesSymmetry ==
  Permutations(Calls) \cup Permutations(Paths) \cup Permutations(Granting)

Nodes == Agents \cup {Workflow}
Lists == UNION {[1..k -> Agents] : k \in 0..Width}

Embedding == {S \in SUBSET Agents : Cardinality(S) >= Cardinality(Agents) - 1}

\* The first references of the nodes in W are pinned wrongly. Without them,
\* no agents need each other: no digests pin each other.
Hashable(g, W) == \A S \in SUBSET Agents : S # {} =>
  \E n \in S : \A k \in DOMAIN g[n] : (n \in W /\ k = 1) \/ g[n][k] \notin S

Document(S, e, g, W) ==
  [agents |-> S, entry |-> e,
   refs |-> [n \in Nodes |->
     [k \in DOMAIN g[n] |-> [to |-> g[n][k], pinned |-> ~(n \in W /\ k = 1)]]]]

\* An agent's release is one whose workflow has no steps.
SomeDocuments ==
  {Document(h[1], IF h[2][Workflow] = <<>> THEN a1 ELSE Workflow, h[2], h[3]) :
     h \in {x \in Embedding \X [Nodes -> Lists] \X {W \in SUBSET Nodes : Cardinality(W) <= 1} :
              Hashable(x[2], x[3]) /\ (x[2][Workflow] = <<>> => a1 \in x[1])}}

Sample == Document(Agents, Workflow,
  [n \in Nodes |-> IF n = Workflow THEN <<a1>> ELSE IF n = a1 THEN <<a2, a3>> ELSE <<>>], {})

\* Every document with one store, and every store with one document; the
\* others are left when the store's calls begin.
OneStore ==
  /\ policyFile = [q \in Paths |-> CHOOSE p \in Policies : p \notin Granting]
  /\ \E q \in Paths : task = [c \in Calls |-> [op |-> "load", path |-> q]]
MCInit == ClosureInit /\ (OneStore \/ release = Sample) /\ Init
MCSpec == MCInit /\ [][StoreNext]_<<vars, closureVars>>
Followed == release = Sample \/ (~edited /\ \A c \in Calls : pc[c] = "idle")
=============================================================================
