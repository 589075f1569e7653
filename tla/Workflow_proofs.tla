-------------------------- MODULE Workflow_proofs --------------------------
(***************************************************************************)
(* Proofs about Workflow, for every finite set of steps, every acyclic     *)
(* dependency function and every concurrency bound.                        *)
(***************************************************************************)
EXTENDS Workflow, FiniteSetTheorems, TLAPS

Scheduled(t) == node[t] # "idle"

\* A scheduled step has its dependencies' results, and its barrier, consumed
\* once, has collected nothing since.
Barriers == \A t \in Steps :
  /\ seen[t] \subseteq deps[t] \cap outputs
  /\ Scheduled(t) => deps[t] \subseteq outputs /\ seen[t] = {}

\* The state holds the results of succeeded steps, and success is evidenced.
Evidence == \A t \in Steps :
  /\ t \in outputs => node[t] = "succeeded"
  /\ node[t] = "succeeded" <=> receipts[t] = "completed"

\* Between supersteps every step is either untouched or in the state; before
\* the first one, nothing has been scheduled. A receipt follows a final record.
Between ==
  /\ pc = "receipting" => summary.record \in Outcome
  /\ pc \in {"idle", "resolved"} => superstep = 0
  /\ pc \in {"planning", "running"} => superstep \in Nat \ {0}
  /\ superstep = 0 \/ (superstep = 1 /\ pc = "planning") =>
       \A t \in Steps : ~Scheduled(t)
  /\ pc = "planning" =>
       \A t \in Steps : Scheduled(t) => t \in outputs

\* Every superstep adds a result: a running one has a step that is not in.
Counted ==
  pc \in {"planning", "running"} =>
    /\ superstep <= Cardinality(outputs) + 1
    /\ pc = "running" => \E t \in Steps \ outputs : Scheduled(t)

IInv == TypeOK /\ Barriers /\ Evidence /\ Between /\ Counted

LEMMA OutputsFinite ==
  ASSUME TypeOK
  PROVE  /\ IsFiniteSet(outputs) /\ Cardinality(outputs) \in Nat
         /\ Cardinality(Steps) \in Nat /\ Cardinality(outputs) <= Cardinality(Steps)
BY WorkflowAssumption, FS_Subset, FS_CardinalityType DEF TypeOK

LEMMA InitIInv == Init => IInv
<1> SUFFICES ASSUME Init PROVE IInv
  OBVIOUS
<1>1. TypeOK
  BY DEF Init, TypeOK, NodeStates, Outcome
<1> QED
  BY <1>1 DEF Init, IInv, Barriers, Evidence, Between, Counted, Scheduled

\* A node that has been queued moves on without touching the graph's state:
\* what is owed is that it ends as succeeded exactly when its receipt says so.
LEMMA NodeStep ==
  ASSUME IInv, pc = "running", NEW t \in Steps,
         NEW l \in NodeStates \ {"idle"}, node[t] \in Active \cup {"queued"},
         node' = [node EXCEPT ![t] = l],
         UNCHANGED <<graph, pc, summary, valid>>,
         failing' \subseteq Steps,
         \/ l # "succeeded" /\ UNCHANGED receipts
         \/ \E r \in {"failed", "completed"} :
              /\ receipts' = [receipts EXCEPT ![t] = r]
              /\ l = "succeeded" <=> r = "completed"
  PROVE  IInv'
<1>1. /\ node[t] # "succeeded" /\ node[t] # "idle" /\ receipts[t] # "completed"
      /\ node'[t] = l
      /\ \A u \in Steps \ {t} : node'[u] = node[u] /\ receipts'[u] = receipts[u]
      /\ l = "succeeded" <=> receipts'[t] = "completed"
      /\ receipts' \in [Steps -> Outcome]
  BY DEF IInv, TypeOK, Evidence, Active, Outcome
<1>2. UNCHANGED <<deps, superstep, seen, outputs, stale>>
  BY DEF graph
<1>3. TypeOK'
  BY <1>1, <1>2 DEF IInv, TypeOK
<1>4. \A u \in Steps : Scheduled(u)' <=> Scheduled(u)
  BY <1>1 DEF Scheduled
<1>5. Barriers' /\ Evidence'
  BY <1>1, <1>2, <1>4 DEF IInv, Barriers, Evidence
<1>6. Between' /\ Counted'
  BY <1>2, <1>4 DEF IInv, Between, Counted
<1> QED
  BY <1>3, <1>5, <1>6 DEF IInv

LEMMA StepProgressIInv ==
  ASSUME IInv, NEW t \in Steps, StepProgress(t)
  PROVE  IInv'
<1> USE DEF StepProgress, Move, Active, NodeStates
<1>0. TypeOK /\ pc = "running"
  BY DEF IInv
<1>1. CASE Start(t)
  BY <1>0, <1>1, NodeStep DEF Start, graph, TypeOK
<1>2. CASE CheckStep(t)
  <2>1. PICK l \in {"building", "failed"} : node' = [node EXCEPT ![t] = l]
    BY <1>2 DEF CheckStep
  <2> QED
    BY <1>0, <1>2, <2>1, NodeStep DEF CheckStep, TypeOK
<1>3. CASE BuildDriver(t) \/ Revalidate(t) \/ Invoke(t)
  <2>1. PICK l \in {"built", "invoking", "closing", "writing"} :
          node' = [node EXCEPT ![t] = l] /\ node[t] \in Active
    BY <1>3 DEF BuildDriver, Revalidate, Invoke, Raise
  <2>2. failing' \subseteq Steps /\ UNCHANGED <<graph, pc, receipts, summary, valid>>
    BY <1>0, <1>3 DEF BuildDriver, Revalidate, Invoke, Raise, TypeOK
  <2> QED
    BY <1>0, <2>1, <2>2, NodeStep
<1>4. CASE CloseDriver(t)
  BY <1>0, <1>4, NodeStep DEF CloseDriver, TypeOK
<1>5. CASE WriteReceipt(t)
  <2>1. CASE /\ node' = [node EXCEPT ![t] = IF t \in failing THEN "failed" ELSE "succeeded"]
             /\ receipts' = [receipts EXCEPT ![t] =
                  IF t \in failing THEN "failed" ELSE "completed"]
             /\ UNCHANGED failing
    BY <1>0, <1>5, <2>1, NodeStep DEF WriteReceipt, TypeOK
  <2>2. CASE /\ node' = [node EXCEPT ![t] = "failed"]
             /\ failing' = failing \cup {t}
             /\ UNCHANGED receipts
    BY <1>0, <1>5, <2>2, NodeStep DEF WriteReceipt, TypeOK
  <2> QED
    BY <1>5, <2>1, <2>2 DEF WriteReceipt
<1> QED
  BY <1>1, <1>2, <1>3, <1>4, <1>5

\* The steps a plan queues have never been scheduled before.
LEMMA BatchIsFresh ==
  ASSUME IInv, pc = "planning", NEW t \in Batch
  PROVE  t \in Steps /\ ~Scheduled(t) /\ deps[t] \subseteq outputs /\ t \notin outputs
<1>1. CASE deps[t] = {}
  BY <1>1 DEF Batch, Triggered, IInv, Between, Evidence, Scheduled
<1>2. CASE deps[t] # {}
  BY <1>2 DEF Batch, Triggered, IInv, Barriers, Evidence, Scheduled
<1> QED
  BY <1>1, <1>2

LEMMA PlanIInv == IInv /\ Plan => IInv'
<1> SUFFICES ASSUME IInv, Plan PROVE IInv'
  OBVIOUS
<1>1. /\ pc = "planning" /\ pc' = "running" /\ Batch # {} /\ Batch \subseteq Steps
      /\ UNCHANGED <<deps, superstep, outputs, failing, receipts, summary, valid>>
      /\ superstep \in Nat \ {0}
  BY DEF Plan, Batch, IInv, Between
<1>2. \A t \in Steps : /\ t \in Batch => node'[t] = "queued" /\ seen'[t] = {}
                       /\ t \notin Batch => node'[t] = node[t] /\ seen'[t] = seen[t]
  BY DEF Plan, Consume
<1>3. TypeOK'
  BY <1>1 DEF Plan, Consume, IInv, TypeOK, NodeStates
<1>4. Barriers'
  BY <1>1, <1>2, BatchIsFresh DEF IInv, Barriers, Scheduled
<1>5. Evidence'
  BY <1>1, <1>2, BatchIsFresh DEF IInv, Evidence, Scheduled
<1>6. Between'
  BY <1>1 DEF Between
<1>7. Counted'
  BY <1>1, <1>2, BatchIsFresh DEF IInv, Counted, Scheduled
<1> QED
  BY <1>3, <1>4, <1>5, <1>6, <1>7 DEF IInv

LEMMA CommitIInv == IInv /\ Commit => IInv'
<1> SUFFICES ASSUME IInv, Commit PROVE IInv'
  OBVIOUS
<1> DEFINE finished == {t \in Steps : node[t] = "succeeded"} \ outputs
<1>1. /\ pc = "running" /\ pc' = "planning" /\ superstep' = superstep + 1
      /\ outputs' = outputs \cup finished
      /\ seen' = [t \in Steps |-> seen[t] \cup (deps[t] \cap finished)]
      /\ \A t \in Steps : node[t] \in {"idle", "succeeded"}
      /\ UNCHANGED <<deps, node, failing, receipts, summary, valid, stale>>
      /\ superstep \in Nat \ {0}
  BY DEF Commit, IInv, Between
<1>2. \A t \in Steps : deps[t] \subseteq Steps
  BY WorkflowAssumption DEF IInv, TypeOK
<1>3. TypeOK'
  BY <1>1, <1>2 DEF IInv, TypeOK
<1>4. Barriers'
  BY <1>1 DEF IInv, Barriers, Scheduled
<1>5. Evidence'
  BY <1>1 DEF IInv, Evidence
<1>6. Between'
  BY <1>1 DEF Between, Scheduled
<1>7. Counted'
  <2>1. PICK t \in Steps : t \notin outputs /\ node[t] = "succeeded"
    BY <1>1 DEF IInv, Counted, Scheduled
  <2>2. outputs \cup {t} \subseteq outputs' /\ t \notin outputs
    BY <1>1, <2>1
  <2>3. IsFiniteSet(outputs) /\ IsFiniteSet(outputs') /\ Cardinality(outputs) \in Nat
        /\ Cardinality(outputs') \in Nat
    BY <1>3, OutputsFinite, WorkflowAssumption, FS_Subset, FS_CardinalityType DEF IInv, TypeOK
  <2>4. Cardinality(outputs \cup {t}) = Cardinality(outputs) + 1
    BY <2>1, <2>3, FS_AddElement
  <2>5. Cardinality(outputs \cup {t}) <= Cardinality(outputs')
    BY <2>2, <2>3, FS_Subset
  <2>6. superstep <= Cardinality(outputs) + 1
    BY <1>1 DEF IInv, Counted
  <2>7. superstep' <= Cardinality(outputs') + 1
    BY <1>1, <2>3, <2>4, <2>5, <2>6
  <2> QED
    BY <1>1, <2>7 DEF Counted
<1> QED
  BY <1>3, <1>4, <1>5, <1>6, <1>7 DEF IInv

LEMMA CancelIInv == IInv /\ CancelQueued => IInv'
<1> SUFFICES ASSUME IInv, CancelQueued PROVE IInv'
  OBVIOUS
<1>1. /\ pc = "running" /\ UNCHANGED <<deps, superstep, seen, outputs, stale, pc, failing, receipts, summary, valid>>
      /\ \A t \in Steps : node'[t] = IF node[t] = "queued" THEN "cancelled" ELSE node[t]
  BY DEF CancelQueued, graph
<1>2. TypeOK'
  BY <1>1 DEF CancelQueued, IInv, TypeOK, NodeStates
<1>3. \A t \in Steps : (Scheduled(t)' <=> Scheduled(t))
                     /\ (node'[t] = "succeeded" <=> node[t] = "succeeded")
  BY <1>1 DEF Scheduled
<1> QED
  BY <1>1, <1>2, <1>3 DEF IInv, Barriers, Evidence, Between, Counted

LEMMA StepIInv == IInv /\ [Next]_vars => IInv'
<1> SUFFICES ASSUME IInv, [Next]_vars PROVE IInv'
  OBVIOUS
<1> USE DEF graph
<1>1. CASE Resolve
  BY <1>1 DEF Resolve, IInv, TypeOK, Barriers, Evidence, Between, Counted, Scheduled
<1>2. CASE RecordRunning
  <2>1. Cardinality(outputs) \in Nat
    BY OutputsFinite DEF IInv
  <2>2. TypeOK'
    BY <1>2 DEF RecordRunning, IInv, TypeOK, Outcome
  <2>3. superstep = 0 /\ superstep' = 1 /\ pc' = "planning" /\ pc = "resolved"
        /\ UNCHANGED <<deps, seen, outputs, node, failing, receipts, valid, stale>>
    BY <1>2 DEF RecordRunning, IInv, Between
  <2> QED
    BY <2>1, <2>2, <2>3 DEF IInv, Barriers, Evidence, Between, Counted, Scheduled
<1>3. CASE Return \/ RaiseFailure
  <2>1. pc' \in {"raised", "returned"} /\ pc \in {"planning", "running"}
        /\ UNCHANGED <<deps, superstep, seen, outputs, stale, node, failing, receipts, summary, valid>>
    BY <1>3 DEF Return, RaiseFailure
  <2> QED
    BY <2>1 DEF IInv, TypeOK, Barriers, Evidence, Between, Counted, Scheduled
<1>4. CASE RecordFinal \/ WriteSummary
  <2>1. pc' \in {"receipting", "ended"} /\ summary' \in [record: Outcome \cup {"running"}, receipt: Outcome]
        /\ UNCHANGED <<deps, superstep, seen, outputs, stale, node, failing, receipts, valid>>
    <3>1. CASE RecordFinal
      BY <3>1 DEF RecordFinal, IInv, TypeOK, Outcome
    <3>2. CASE WriteSummary
      BY <3>2 DEF WriteSummary, IInv, Between, TypeOK
    <3> QED
      BY <1>4, <3>1, <3>2
  <2>2. summary'.record \in Outcome
    BY <1>4 DEF RecordFinal, WriteSummary, IInv, TypeOK, Between, Outcome
  <2>3. pc \notin {"planning", "running"} /\ (superstep = 0 => \A t \in Steps : ~Scheduled(t))
    BY <1>4 DEF RecordFinal, WriteSummary, IInv, Between
  <2> QED
    BY <2>1, <2>2, <2>3 DEF IInv, TypeOK, Barriers, Evidence, Between, Counted, Scheduled
<1>5. CASE StoreFails \/ Crash
  <2>1. pc' \in {"ended", "crashed"}
        /\ UNCHANGED <<deps, superstep, seen, outputs, stale, node, failing, receipts, summary, valid>>
    BY <1>5 DEF StoreFails, Crash
  <2> QED
    BY <2>1 DEF IInv, TypeOK, Barriers, Evidence, Between, Counted, Scheduled
<1>6. ASSUME NEW t \in Steps, Invalidate(t) PROVE IInv'
  BY <1>6 DEF Invalidate, IInv, TypeOK, Barriers, Evidence, Between, Counted, Scheduled
<1>7. CASE UNCHANGED vars
  BY <1>7 DEF vars, IInv, TypeOK, Barriers, Evidence, Between, Counted, Scheduled
<1> QED
  BY <1>1, <1>2, <1>3, <1>4, <1>5, <1>6, <1>7, PlanIInv, CommitIInv, CancelIInv, StepProgressIInv
  DEF Next, Engine

LEMMA IInvAlways == Spec => []IInv
BY InitIInv, StepIInv, PTL DEF Spec

\* The graph's state, its nodes and the receipts keep their types.
THEOREM TypeCorrect == Spec => []TypeOK
<1>1. IInv => TypeOK
  BY DEF IInv
<1> QED BY <1>1, IInvAlways, PTL

\* A step starts only with every dependency's result in the state.
THEOREM DependenciesAlwaysPresent == Spec => []DependenciesPresent
<1>1. IInv => DependenciesPresent
  BY DEF IInv, Barriers, DependenciesPresent, HasDependencies, Scheduled, Active
<1> QED BY <1>1, IInvAlways, PTL

\* Dependents are scheduled only on completed evidence.
THEOREM EvidenceAlwaysFirst == Spec => []EvidenceBeforeDependents
<1>1. IInv => EvidenceBeforeDependents
  BY WorkflowAssumption DEF IInv, TypeOK, Barriers, Evidence, EvidenceBeforeDependents, Scheduled
<1> QED BY <1>1, IInvAlways, PTL

\* len(steps) + 2 supersteps are enough for every workflow of any size.
THEOREM RecursionLimitAlwaysSuffices == Spec => []RecursionLimitSuffices
<1>1. IInv => RecursionLimitSuffices
  BY OutputsFinite DEF IInv, Between, Counted, RecursionLimitSuffices, RecursionLimit
<1> QED BY <1>1, IInvAlways, PTL

Ended == {"succeeded", "failed", "cancelled"}

\* No step is run again once it has ended.
THEOREM StepsAlwaysRunOnce == Spec => StepsRunOnce
<1> DEFINE Once == \A t \in Steps : node[t] \in Ended => node'[t] = node[t]
<1>1. ASSUME IInv, [Next]_vars PROVE Once
  <2>1. CASE Plan
    <3>1. \A t \in Steps : t \notin Batch => node'[t] = node[t]
      BY <2>1 DEF Plan
    <3> QED
      BY <1>1, <2>1, <3>1, BatchIsFresh DEF Plan, Ended, Scheduled
  <2>2. CASE CancelQueued
    BY <2>2 DEF CancelQueued, Ended
  <2>3. ASSUME NEW t \in Steps, StepProgress(t) PROVE Once
    <3>1. node[t] \in Active \cup {"queued"}
      BY <2>3 DEF StepProgress, Start, CheckStep, BuildDriver, Revalidate, Invoke,
                  CloseDriver, WriteReceipt, Raise, Move, Active
    <3>2. \A u \in Steps \ {t} : node'[u] = node[u]
      BY <1>1, <2>3 DEF StepProgress, Start, CheckStep, BuildDriver, Revalidate, Invoke,
                  CloseDriver, WriteReceipt, Raise, Move, IInv, TypeOK
    <3> QED
      BY <3>1, <3>2 DEF Active, Ended
  <2>4. CASE \/ Resolve \/ RecordRunning \/ Return \/ Commit
             \/ RaiseFailure \/ RecordFinal \/ WriteSummary \/ StoreFails \/ Crash
    BY <2>4 DEF Resolve, RecordRunning, Return, Commit, RaiseFailure,
                RecordFinal, WriteSummary, StoreFails, Crash
  <2>5. ASSUME NEW t \in Steps, Invalidate(t) PROVE Once
    BY <2>5 DEF Invalidate
  <2>6. CASE UNCHANGED vars
    BY <2>6 DEF vars
  <2> QED
    BY <1>1, <2>1, <2>2, <2>3, <2>4, <2>5, <2>6 DEF Next, Engine
<1>2. IInv /\ [Next]_vars =>
        [\A t \in Steps : node[t] \in {"succeeded", "failed", "cancelled"} =>
                           node'[t] = node[t]]_vars
  BY <1>1 DEF Ended
<1> QED
  BY <1>2, IInvAlways, PTL DEF Spec, StepsRunOnce

LEMMA InitTaskGraph == Init => TG!Init
BY WorkflowAssumption DEF Init, TG!Init, Active

\* A node's own step is a start, a finish, or invisible to the task graph.
LEMMA NodeTaskGraph ==
  ASSUME IInv, NEW t \in Steps, StepProgress(t)
  PROVE  [TG!Next]_(TG!vars)
<1> DEFINE Visible == Active \cup {"succeeded", "failed"}
           started == {u \in Steps : node[u] \in Visible}
           done == {u \in Steps : receipts[u] = "completed"}
<1>t. TypeOK
  BY DEF IInv
<1>d. UNCHANGED deps
  BY DEF StepProgress, Start, CheckStep, BuildDriver, Revalidate, Invoke, CloseDriver,
         WriteReceipt, graph
<1>1. CASE Start(t)
  <2>1. /\ node[t] = "queued" /\ node' = [node EXCEPT ![t] = "starting"]
        /\ UNCHANGED receipts
    BY <1>1 DEF Start, Move
  <2>2. started' = started \cup {t} /\ t \notin started
    BY <1>t, <2>1 DEF TypeOK, Active
  <2>3. done' = done
    BY <2>1
  <2>4. deps[t] \subseteq done
    BY <2>1, WorkflowAssumption DEF IInv, Barriers, Evidence, Scheduled, TypeOK
  <2> QED
    BY <1>d, <2>2, <2>3, <2>4 DEF TG!Next, TG!Start
<1>2. ASSUME NEW l \in Visible, node[t] \in Active,
             node' = [node EXCEPT ![t] = l], receipts' = receipts
      PROVE  [TG!Next]_(TG!vars)
  <2>1. started' = started
    BY <1>t, <1>2 DEF TypeOK, Active
  <2>2. done' = done
    BY <1>2
  <2> QED
    BY <1>d, <2>1, <2>2 DEF TG!vars
<1>3. CASE CheckStep(t) \/ BuildDriver(t) \/ Revalidate(t) \/ Invoke(t) \/ CloseDriver(t)
  <2>1. \E l \in Visible : node' = [node EXCEPT ![t] = l]
    BY <1>3 DEF CheckStep, BuildDriver, Revalidate, Invoke, CloseDriver, Raise, Move, Active
  <2>2. node[t] \in Active /\ UNCHANGED receipts
    BY <1>3 DEF CheckStep, BuildDriver, Revalidate, Invoke, CloseDriver, Raise, Move, Active
  <2> QED
    BY <1>2, <2>1, <2>2
<1>4. CASE WriteReceipt(t)
  <2>1. node[t] = "writing" /\ receipts[t] # "completed"
    BY <1>4 DEF WriteReceipt, Move, IInv, Evidence
  <2>2. CASE node' = [node EXCEPT ![t] = "failed"] /\ UNCHANGED receipts
    BY <1>2, <2>1, <2>2 DEF Active
  <2>3. ASSUME NEW l \in {"failed", "succeeded"}, NEW r \in {"failed", "completed"},
               node' = [node EXCEPT ![t] = l], receipts' = [receipts EXCEPT ![t] = r]
        PROVE  [TG!Next]_(TG!vars)
    <3>1. started' = started /\ t \in started
      BY <1>t, <2>1, <2>3 DEF TypeOK, Active
    <3>2. CASE r = "completed"
      <4>1. done' = done \cup {t} /\ t \notin done
        BY <1>t, <2>1, <2>3, <3>2 DEF TypeOK
      <4> QED
        BY <1>d, <3>1, <4>1 DEF TG!Next, TG!Finish
    <3>3. CASE r = "failed"
      <4>1. done' = done
        BY <1>t, <2>1, <2>3, <3>3 DEF TypeOK
      <4> QED
        BY <1>d, <3>1, <4>1 DEF TG!vars
    <3> QED
      BY <3>2, <3>3
  <2>4. \/ node' = [node EXCEPT ![t] = "failed"] /\ UNCHANGED receipts
        \/ \E l \in {"failed", "succeeded"}, r \in {"failed", "completed"} :
             node' = [node EXCEPT ![t] = l] /\ receipts' = [receipts EXCEPT ![t] = r]
    BY <1>4 DEF WriteReceipt, Move
  <2> QED
    BY <2>2, <2>3, <2>4
<1> QED
  BY <1>1, <1>3, <1>4 DEF StepProgress

\* A workflow's supersteps run its steps in dependency order, each once.
THEOREM RefinesTaskGraph == Spec => ImplementsTaskGraph
<1>1. IInv /\ [Next]_vars => [TG!Next]_(TG!vars)
  <2> SUFFICES ASSUME IInv, [Next]_vars PROVE [TG!Next]_(TG!vars)
    OBVIOUS
  <2> DEFINE Visible == Active \cup {"succeeded", "failed"}
             started == {u \in Steps : node[u] \in Visible}
             done == {u \in Steps : receipts[u] = "completed"}
  <2>1. ASSUME UNCHANGED <<deps, receipts>>,
               \A t \in Steps : node'[t] \in Visible <=> node[t] \in Visible
        PROVE  [TG!Next]_(TG!vars)
    <3>1. started' = started
      BY <2>1
    <3>2. done' = done
      BY <2>1
    <3> QED
      BY <2>1, <3>1, <3>2 DEF TG!vars
  <2>2. CASE Plan
    <3>1. \A t \in Steps : t \in Batch => node[t] = "idle" /\ node'[t] = "queued"
      BY <2>2, BatchIsFresh DEF Plan, Scheduled
    <3>2. \A t \in Steps : t \notin Batch => node'[t] = node[t]
      BY <2>2 DEF Plan
    <3> QED
      BY <2>1, <2>2, <3>1, <3>2 DEF Plan, Active
  <2>3. CASE CancelQueued
    BY <2>1, <2>3 DEF CancelQueued, graph, Active
  <2>4. CASE \/ Resolve \/ RecordRunning \/ Return \/ Commit
             \/ RaiseFailure \/ RecordFinal \/ WriteSummary \/ StoreFails \/ Crash
             \/ (\E t \in Steps : Invalidate(t)) \/ UNCHANGED vars
    <3>1. UNCHANGED <<deps, node, receipts>>
      BY <2>4 DEF Resolve, RecordRunning, Return, Commit, RaiseFailure,
                  RecordFinal, WriteSummary, StoreFails, Crash, Invalidate, graph, vars
    <3> QED
      BY <2>1, <3>1
  <2> QED
    BY <2>2, <2>3, <2>4, NodeTaskGraph DEF Next, Engine
<1> QED
  BY <1>1, InitTaskGraph, IInvAlways, PTL DEF Spec, TG!Spec, ImplementsTaskGraph
-----------------------------------------------------------------------------
(***************************************************************************)
(* How a workflow ends.                                                    *)
(***************************************************************************)

\* A barrier that has not triggered yet holds every result its node waits for.
Collected == \A t \in Steps : ~Scheduled(t) => seen[t] = deps[t] \cap outputs

\* The roots are scheduled in the first superstep.
RootsFirst ==
  pc = "running" \/ (pc = "planning" /\ superstep # 1) =>
    \A t \in Steps : deps[t] = {} => Scheduled(t)

\* The graph returns with every result, and raises only for a failed step;
\* nothing runs outside the supersteps.
Returns ==
  /\ pc = "returned" => outputs = Steps
  /\ pc = "raised" => \E t \in Steps : node[t] = "failed"
  /\ pc \notin {"running", "crashed"} =>
       \A t \in Steps : node[t] \notin Active \cup {"queued"}

\* The record is final once the graph is over, and its receipt copies it.
Recorded ==
  /\ summary.record \in {"completed", "failed"} => pc \in {"receipting", "ended", "crashed"}
  /\ pc = "receipting" => summary.record \in {"completed", "failed"}
  /\ summary.receipt # "none" => summary.record = summary.receipt

\* A step planned with an invalid agent gets no further than its own check.
StaleStopped == \A t \in stale :
  t \notin valid /\ node[t] \in {"queued", "starting", "failed", "cancelled"}

Ending == Collected /\ RootsFirst /\ Returns /\ Recorded
          /\ SummaryAgreesWithSteps /\ StaleStopped

EndInv == IInv /\ Ending

\* When nothing is triggered any more, every step's result is there: in an
\* acyclic graph some missing step would depend on present ones only.
LEMMA NothingLeft ==
  ASSUME EndInv, pc = "planning", Batch = {}
  PROVE  outputs = Steps
<1>0. /\ TypeOK /\ Collected /\ Between /\ RootsFirst
      /\ deps \in [Steps -> SUBSET Steps] /\ Acyclic(deps)
  BY WorkflowAssumption DEF EndInv, Ending, IInv, TypeOK
<1> SUFFICES ASSUME Steps \ outputs # {} PROVE FALSE
  BY <1>0 DEF TypeOK
<1>1. PICK t \in Steps \ outputs : deps[t] \cap (Steps \ outputs) = {}
  BY <1>0 DEF Acyclic
<1>2. deps[t] \subseteq outputs /\ ~Scheduled(t)
  BY <1>0, <1>1 DEF Between
<1>3. seen[t] = deps[t]
  BY <1>0, <1>1, <1>2 DEF Collected
<1>4. Triggered(t)
  BY <1>0, <1>1, <1>2, <1>3 DEF Triggered, RootsFirst
<1> QED
  BY <1>1, <1>4 DEF Batch

LEMMA InitEndInv == Init => EndInv
BY InitIInv DEF Init, EndInv, Ending, Collected, RootsFirst, Returns, Recorded, SummaryAgreesWithSteps,
   StaleStopped, Scheduled, Active

\* A node's own step keeps the ending in order: it can only touch its receipt
\* while the graph runs, and a stale one fails its check.
LEMMA NodeEnd ==
  ASSUME EndInv, NEW t \in Steps, StepProgress(t)
  PROVE  Ending'
<1>0. /\ TypeOK /\ pc = "running" /\ pc' = pc
      /\ UNCHANGED <<deps, superstep, seen, outputs, stale, summary, valid>>
      /\ node[t] \in Active \cup {"queued"} /\ node'[t] # "idle"
      /\ \A u \in Steps \ {t} : node'[u] = node[u]
  BY DEF EndInv, Ending, IInv, TypeOK, StepProgress, Start, CheckStep, BuildDriver, Revalidate, Invoke, CloseDriver,
     WriteReceipt, Raise, Move, Active, graph
<1>1. \A u \in Steps : Scheduled(u)' <=> Scheduled(u)
  BY <1>0 DEF Scheduled, Active
<1>2. Collected' /\ RootsFirst'
  BY <1>0, <1>1 DEF EndInv, Ending, Collected, RootsFirst
<1>3. (Returns /\ Recorded /\ SummaryAgreesWithSteps)'
  BY <1>0 DEF EndInv, Ending, Returns, Recorded, SummaryAgreesWithSteps
<1>4. StaleStopped'
  <2>1. ASSUME t \in stale PROVE node'[t] \in {"starting", "failed"}
    <3>1. t \notin valid /\ node[t] \in {"queued", "starting", "failed", "cancelled"}
      BY <2>1 DEF EndInv, Ending, StaleStopped
    <3> QED
      BY <1>0, <3>1 DEF TypeOK, StepProgress, Start, CheckStep, AgentCurrent, BuildDriver, Revalidate,
         Invoke, CloseDriver, WriteReceipt, Raise, Move, Active
  <2>2. \A u \in stale \ {t} : u \in Steps
    BY <1>0 DEF TypeOK
  <2> QED
    BY <1>0, <2>1, <2>2 DEF EndInv, Ending, StaleStopped
<1> QED
  BY <1>2, <1>3, <1>4 DEF Ending

LEMMA PlanEnd ==
  ASSUME EndInv, Plan
  PROVE  Ending'
<1>0. /\ IInv /\ pc = "planning" /\ pc' = "running"
      /\ UNCHANGED <<deps, superstep, outputs, failing, receipts, summary, valid>>
      /\ stale' = stale \cup (Batch \ valid)
      /\ \A t \in Steps : /\ t \in Batch => node'[t] = "queued" /\ seen'[t] = {}
                          /\ t \notin Batch => node'[t] = node[t] /\ seen'[t] = seen[t]
  BY DEF EndInv, Ending, Plan, Consume
<1>1. \A t \in Batch : t \in Steps /\ node[t] = "idle"
  BY <1>0, BatchIsFresh DEF Scheduled
<1>2. Collected'
  BY <1>0 DEF EndInv, Ending, Collected, Scheduled
<1>3. RootsFirst'
  BY <1>0 DEF EndInv, Ending, RootsFirst, Scheduled, Batch, Triggered
<1>4. (Returns /\ Recorded /\ SummaryAgreesWithSteps)'
  BY <1>0 DEF EndInv, Ending, Returns, Recorded, SummaryAgreesWithSteps
<1>5. StaleStopped'
  BY <1>0, <1>1 DEF EndInv, Ending, IInv, TypeOK, StaleStopped
<1> QED
  BY <1>2, <1>3, <1>4, <1>5 DEF Ending

LEMMA CommitEnd ==
  ASSUME EndInv, Commit
  PROVE  Ending'
<1> DEFINE finished == {t \in Steps : node[t] = "succeeded"} \ outputs
<1>0. /\ pc = "running" /\ pc' = "planning"
      /\ outputs' = outputs \cup finished
      /\ seen' = [t \in Steps |-> seen[t] \cup (deps[t] \cap finished)]
      /\ \A t \in Steps : node[t] \in {"idle", "succeeded"}
      /\ UNCHANGED <<deps, node, failing, receipts, summary, valid, stale>>
  BY DEF Commit
<1>1. Collected'
  BY <1>0 DEF EndInv, Ending, Collected, Scheduled
<1>2. RootsFirst'
  BY <1>0 DEF EndInv, Ending, RootsFirst, Scheduled
<1>3. (Returns /\ Recorded /\ SummaryAgreesWithSteps /\ StaleStopped)'
  BY <1>0 DEF EndInv, Ending, Returns, Active, Recorded, SummaryAgreesWithSteps, StaleStopped
<1> QED
  BY <1>1, <1>2, <1>3 DEF Ending

\* Outside the supersteps only the location, the summary and the validity of
\* agents change.
LEMMA OutsideEnd ==
  ASSUME EndInv, UNCHANGED <<deps, superstep, seen, outputs, node, receipts, stale>>,
         valid' \subseteq valid, pc' = "running" => pc = "running",
         pc' = "planning" => pc = "planning" \/ superstep' = 1,
         Returns', Recorded', SummaryAgreesWithSteps'
  PROVE  Ending'
BY DEF EndInv, Ending, Collected, RootsFirst, StaleStopped, Scheduled

LEMMA StepEndInv == EndInv /\ [Next]_vars => EndInv'
<1> SUFFICES ASSUME EndInv, [Next]_vars PROVE EndInv'
  OBVIOUS
<1>0. IInv /\ TypeOK /\ IInv'
  BY StepIInv DEF EndInv, IInv
<1> SUFFICES Ending'
  BY <1>0 DEF EndInv
<1>1. CASE Resolve
  BY <1>1, OutsideEnd DEF Resolve, graph, EndInv, Ending, Returns, Recorded, SummaryAgreesWithSteps
<1>2. CASE RecordRunning
  <2>1. superstep' = 1 /\ pc = "resolved" /\ pc' = "planning"
        /\ UNCHANGED <<deps, seen, outputs, node, receipts, valid, stale>>
        /\ summary'.record = "running" /\ summary'.receipt = summary.receipt
    BY <1>0, <1>2 DEF RecordRunning, TypeOK
  <2>2. (Returns /\ Recorded /\ SummaryAgreesWithSteps)'
    BY <1>0, <2>1 DEF EndInv, Ending, Returns, Recorded, SummaryAgreesWithSteps, TypeOK, Outcome
  <2>3. (Collected /\ RootsFirst /\ StaleStopped)'
    BY <2>1 DEF EndInv, Ending, Collected, RootsFirst, StaleStopped, Scheduled
  <2> QED
    BY <2>2, <2>3 DEF Ending
<1>3. CASE Return
  <2>1. superstep <= RecursionLimit
    BY <1>0, <1>3, OutputsFinite DEF Return, IInv, Between, Counted, RecursionLimit
  <2>2. /\ pc = "planning" /\ pc' = "returned" /\ Batch = {}
        /\ UNCHANGED <<deps, superstep, seen, outputs, stale, node, failing, receipts, summary, valid>>
    BY <1>0, <1>3, <2>1, OutputsFinite DEF Return, graph, TypeOK, RecursionLimit
  <2>3. (Returns /\ Recorded /\ SummaryAgreesWithSteps)'
    BY <2>2, NothingLeft DEF EndInv, Ending, Returns, Recorded, SummaryAgreesWithSteps
  <2> QED
    BY <2>2, <2>3, OutsideEnd
<1>4. CASE CancelQueued
  <2>1. /\ pc = "running"
        /\ UNCHANGED <<deps, superstep, seen, outputs, stale, pc, receipts, summary, valid>>
        /\ \A t \in Steps : node'[t] = IF node[t] = "queued" THEN "cancelled" ELSE node[t]
    BY <1>4 DEF CancelQueued, graph
  <2>2. \A t \in Steps : Scheduled(t)' <=> Scheduled(t)
    BY <2>1 DEF Scheduled
  <2> QED
    BY <1>0, <2>1, <2>2 DEF EndInv, Ending, Collected, RootsFirst, Returns, Recorded, SummaryAgreesWithSteps,
       StaleStopped, TypeOK
<1>5. CASE RaiseFailure
  BY <1>5, OutsideEnd DEF RaiseFailure, graph, EndInv, Ending, Returns, Recorded, SummaryAgreesWithSteps
<1>6. CASE RecordFinal
  <2>1. /\ pc \in {"returned", "raised"} /\ pc' = "receipting"
        /\ summary'.record = IF pc = "returned" THEN "completed" ELSE "failed"
        /\ summary'.receipt = summary.receipt
        /\ UNCHANGED <<deps, superstep, seen, outputs, stale, node, failing, receipts, valid>>
    BY <1>0, <1>6 DEF RecordFinal, TypeOK, graph
  <2>2. pc = "returned" <=> \A t \in Steps : receipts[t] = "completed"
    BY <1>0, <2>1 DEF EndInv, Ending, Returns, IInv, Evidence
  <2>3. summary.receipt = "none"
    BY <1>0, <2>1 DEF EndInv, Ending, Recorded, TypeOK, Outcome
  <2>4. (Returns /\ Recorded /\ SummaryAgreesWithSteps)'
    BY <2>1, <2>2, <2>3 DEF EndInv, Ending, Returns, Recorded, SummaryAgreesWithSteps
  <2> QED
    BY <2>1, <2>4, OutsideEnd
<1>7. CASE WriteSummary
  <2>1. /\ pc = "receipting" /\ pc' = "ended"
        /\ summary'.record = summary.record /\ summary'.receipt = summary.record
        /\ UNCHANGED <<deps, superstep, seen, outputs, stale, node, failing, receipts, valid>>
    BY <1>0, <1>7 DEF WriteSummary, TypeOK, graph
  <2>2. (Returns /\ Recorded /\ SummaryAgreesWithSteps)'
    BY <2>1 DEF EndInv, Ending, Returns, Recorded, SummaryAgreesWithSteps
  <2> QED
    BY <2>1, <2>2, OutsideEnd
<1>8. CASE StoreFails \/ Crash
  <2>1. /\ pc' \in {"ended", "crashed"} /\ (pc' = "ended" => pc \notin {"running", "crashed"})
        /\ UNCHANGED <<deps, superstep, seen, outputs, stale, node, failing, receipts, summary, valid>>
    BY <1>8 DEF StoreFails, Crash, graph
  <2>2. (Returns /\ Recorded /\ SummaryAgreesWithSteps)'
    BY <2>1 DEF EndInv, Ending, Returns, Recorded, SummaryAgreesWithSteps
  <2> QED
    BY <2>1, <2>2, OutsideEnd
<1>9. ASSUME NEW t \in Steps, Invalidate(t) PROVE Ending'
  BY <1>9, OutsideEnd DEF Invalidate, graph, EndInv, Ending, Returns, Recorded, SummaryAgreesWithSteps
<1>10. CASE UNCHANGED vars
  BY <1>10, OutsideEnd DEF vars, EndInv, Ending, Returns, Recorded, SummaryAgreesWithSteps
<1> QED
  BY <1>1, <1>2, <1>3, <1>4, <1>5, <1>6, <1>7, <1>8, <1>9, <1>10, NodeEnd, PlanEnd, CommitEnd
  DEF Next, Engine

LEMMA EndInvAlways == Spec => []EndInv
BY InitEndInv, StepEndInv, PTL DEF Spec

\* A workflow's recorded outcome tells what its steps' receipts tell, and is
\* recorded when nothing runs any more.
THEOREM OutcomeAlwaysFinal == Spec => []OutcomeIsFinal
<1>1. EndInv => QuietWhenRecorded
  BY DEF EndInv, Ending, Returns, QuietWhenRecorded
<1>2. EndInv => SummaryAgreesWithSteps
  BY DEF EndInv, Ending
<1> QED
  BY <1>1, <1>2, EndInvAlways, PTL DEF OutcomeIsFinal

\* A step whose agent was invalid when it was planned is never completed.
THEOREM StaleStepsNeverComplete == Spec => []StaleNeverCompletes
<1>1. EndInv => StaleNeverCompletes
  BY DEF EndInv, Ending, IInv, TypeOK, Evidence, StaleStopped, StaleNeverCompletes
<1> QED
  BY <1>1, EndInvAlways, PTL

=============================================================================
