------------------------------ MODULE Closure -------------------------------
(***************************************************************************)
(* How validate_release (services/releases.py) decides that a release      *)
(* embeds exactly what its entry needs: a depth-first traversal of the     *)
(* pinned references, walk and check_refs, which refuses missing agents,   *)
(* wrong pins, cycles, and agents too deep, and compares what it has       *)
(* visited with what the release embeds. A step of the model is one        *)
(* reference checked, or one return; the stack is the recursion's.         *)
(*                                                                         *)
(* Documents are the releases whose schema, digests, identities and entry  *)
(* have been found right before. The formulas of the traversal's behaviour *)
(* are named Closure..., to stand beside those of Releases.                *)
(***************************************************************************)
EXTENDS Naturals, Sequences

CONSTANTS
  Agents,     \* agent identifiers
  Workflow,   \* the entry of a workflow release, itself no agent
  MaxDepth,   \* _MAX_DEPTH
  Documents   \* the releases to validate

References == [to: Agents, pinned: BOOLEAN]

ASSUME ClosureAssumption ==
  /\ Workflow \notin Agents
  /\ MaxDepth \in Nat
  /\ \A d \in Documents :
       /\ d.agents \subseteq Agents
       /\ d.entry \in d.agents \cup {Workflow}
       /\ d.refs \in [Agents \cup {Workflow} -> Seq(References)]

VARIABLES
  release,   \* the release that is validated
  stack,     \* the calls of walk, each with the index of its next reference
  active,    \* the agents whose call has not returned
  visited,   \* those whose call has
  verdict

closureVars == <<release, stack, active, visited, verdict>>

Frames == [node: Agents \cup {Workflow}, next: Nat \ {0}]

ClosureTypeOK ==
  /\ release \in Documents
  /\ stack \in Seq(Frames)
  /\ active \subseteq Agents /\ visited \subseteq Agents
  /\ verdict \in {"running", "accepted", "rejected"}

\* walk(entry, 0), or check_refs on the workflow's steps.
ClosureInit ==
  /\ release \in Documents
  /\ stack = <<[node |-> release.entry, next |-> 1]>>
  /\ active = {release.entry} \ {Workflow}
  /\ visited = {} /\ verdict = "running"

Top == stack[Len(stack)]

Reference == release.refs[Top.node][Top.next]

\* A reference is at hand, and what is wrong with it, in the code's order.
Checking == verdict = "running" /\ stack # <<>> /\ Top.next <= Len(release.refs[Top.node])
Dangling == Reference.to \notin release.agents \/ ~Reference.pinned
TooDeep  == Len(stack) > MaxDepth
Cyclic   == Reference.to \in active

Refuse ==
  /\ Checking /\ (Dangling \/ TooDeep \/ Cyclic)
  /\ verdict' = "rejected"
  /\ UNCHANGED <<release, stack, active, visited>>

Advanced == [stack EXCEPT ![Len(stack)].next = @ + 1]

SkipUnpinned ==  \* mutant: an agent that was visited is looked up before its pin is
  /\ Checking /\ Reference.to \in visited
  /\ stack' = Advanced
  /\ UNCHANGED <<release, active, visited, verdict>>

\* walk returns at once for an agent that was visited.
Skip ==
  /\ Checking /\ ~Dangling /\ ~TooDeep /\ ~Cyclic /\ Reference.to \in visited
  /\ stack' = Advanced
  /\ UNCHANGED <<release, active, visited, verdict>>

Enter ==
  /\ Checking /\ ~Dangling /\ ~TooDeep /\ ~Cyclic /\ Reference.to \notin visited
  /\ stack' = Append(Advanced, [node |-> Reference.to, next |-> 1])
  /\ active' = active \cup {Reference.to}
  /\ UNCHANGED <<release, visited, verdict>>

ReturnActive ==  \* mutant: the agent is not taken out of active
  /\ verdict = "running" /\ stack # <<>> /\ Top.next > Len(release.refs[Top.node])
  /\ stack' = SubSeq(stack, 1, Len(stack) - 1)
  /\ visited' = visited \cup ({Top.node} \ {Workflow})
  /\ UNCHANGED <<release, active, verdict>>

\* All references of a call are checked.
Return ==
  /\ verdict = "running" /\ stack # <<>> /\ Top.next > Len(release.refs[Top.node])
  /\ stack' = SubSeq(stack, 1, Len(stack) - 1)
  /\ active' = active \ {Top.node}
  /\ visited' = visited \cup ({Top.node} \ {Workflow})
  /\ UNCHANGED <<release, verdict>>

\* The traversal is over: are there agents it has not reached?
Conclude ==
  /\ verdict = "running" /\ stack = <<>>
  /\ verdict' = IF visited = release.agents THEN "accepted" ELSE "rejected"
  /\ UNCHANGED <<release, stack, active, visited>>

ClosureNext == Refuse \/ Skip \/ Enter \/ Return \/ Conclude

ClosureSpec == ClosureInit /\ [][ClosureNext]_closureVars

-----------------------------------------------------------------------------
(* Properties *)

Needs(n) == {release.refs[n][i].to : i \in DOMAIN release.refs[n]}

\* The set holds the entry agent, and all that it and the entry need.
Closed(S) ==
  /\ release.entry \in S \cup {Workflow}
  /\ \A n \in S \cup {release.entry} : Needs(n) \subseteq S

\* The release embeds all that its entry needs, as pinned, and nothing else.
Whole ==
  /\ Closed(release.agents)
  /\ \A n \in release.agents \cup {release.entry} :
       \A i \in DOMAIN release.refs[n] : release.refs[n][i].pinned
  /\ \A S \in SUBSET release.agents : Closed(S) => S = release.agents

\* Of any agents, one needs none of the others or itself.
Acyclic == \A S \in SUBSET release.agents :
  S # {} => \E a \in S : Needs(a) \cap S = {}

\* Some chain of references is longer than MaxDepth.
Deep == \E path \in [1..(MaxDepth + 2) -> release.agents \cup {release.entry}] :
  /\ path[1] = release.entry
  /\ \A i \in 1..(MaxDepth + 1) : path[i + 1] \in Needs(path[i])

\* Validation rejects altered pins, omitted dependencies, cycles and
\* unreachable extra agents, in whatever order the references come
\* (docs/RELEASES.md:164).
AcceptedIsWhole == verdict = "accepted" => Whole /\ Acyclic

\* And it rejects nothing else: an agent that several others share is no
\* cycle, and a second path to it none either.
RejectedForCause == verdict = "rejected" => ~Whole \/ ~Acyclic \/ Deep

\* Validation accepts what it should and nothing else but what is too deep.
VerdictIsRight == AcceptedIsWhole /\ RejectedForCause
=============================================================================
