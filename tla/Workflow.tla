------------------------------ MODULE Workflow ------------------------------
(***************************************************************************)
(* One execution of a workflow (services/workflow_runner.py): a DAG of     *)
(* steps, each run by its own agent, compiled to a LangGraph graph whose   *)
(* list edges are all-predecessor barriers. The graph runs in supersteps:  *)
(* the triggered nodes run in threads, at most MaxConcurrency at once, and *)
(* their outputs become visible together, when all of them have succeeded. *)
(* Meanwhile the operator may revoke or change what a step relies on, the  *)
(* session store may refuse a write, and the process may die.              *)
(***************************************************************************)
EXTENDS Naturals, FiniteSets

CONSTANTS
  Steps,          \* the step identifiers
  Workflows,      \* the dependency functions a validated workflow may have
  MaxConcurrency, \* LangGraph's max_concurrency: 4 in the code
  Development     \* whether the run is in development mode

\* WorkflowParser accepts acyclic dependencies only: every non-empty set of
\* steps has a member that depends on none of them.
Acyclic(d) == \A S \in SUBSET Steps :
  S # {} => \E t \in S : d[t] \cap S = {}

ASSUME WorkflowAssumption ==
  /\ IsFiniteSet(Steps)
  /\ \A d \in Workflows : d \in [Steps -> SUBSET Steps] /\ Acyclic(d)
  /\ MaxConcurrency \in Nat \ {0}
  /\ Development \in BOOLEAN

VARIABLES
  deps,       \* depends_on of each step
  pc,         \* where WorkflowRunner.execute is
  superstep,  \* the graph's step counter, for its recursion limit
  seen,       \* the predecessors each barrier has seen
  outputs,    \* the steps whose results the graph's state holds
  node,       \* where each node of the graph is
  failing,    \* the nodes that carry an error
  receipts,   \* the step receipts
  summary,    \* status of the workflow's session record and of its receipt
  valid,      \* the steps whose agent still loads with the resolved digest
  stale       \* history: steps whose agent was invalid when they were planned

vars == <<deps, pc, superstep, seen, outputs, node, failing, receipts,
          summary, valid, stale>>
graph == <<deps, superstep, seen, outputs, stale>>

Active == {"starting", "building", "built", "invoking", "closing", "writing"}
NodeStates == {"idle", "queued", "cancelled", "succeeded", "failed"} \cup Active
Outcome == {"none", "completed", "failed"}

TypeOK ==
  /\ deps \in Workflows
  /\ pc \in {"idle", "resolved", "planning", "running", "returned", "raised",
             "receipting", "ended", "crashed"}
  /\ superstep \in Nat
  /\ seen \in [Steps -> SUBSET Steps]
  /\ outputs \subseteq Steps
  /\ node \in [Steps -> NodeStates]
  /\ failing \subseteq Steps
  /\ receipts \in [Steps -> Outcome]
  /\ summary \in [record: Outcome \cup {"running"}, receipt: Outcome]
  /\ valid \subseteq Steps
  /\ stale \subseteq Steps

Init ==
  /\ deps \in Workflows
  /\ pc = "idle"
  /\ superstep = 0
  /\ seen = [t \in Steps |-> {}]
  /\ outputs = {}
  /\ node = [t \in Steps |-> "idle"]
  /\ failing = {}
  /\ receipts = [t \in Steps |-> "none"]
  /\ summary = [record |-> "none", receipt |-> "none"]
  /\ valid = Steps
  /\ stale = {}

(***************************************************************************)
(* Before the graph: resolve every agent, record the session as running.   *)
(***************************************************************************)

Resolve ==
  /\ pc = "idle"
  /\ pc' = IF valid = Steps THEN "resolved" ELSE "ended"
  /\ UNCHANGED <<graph, node, failing, receipts, summary, valid>>

\* The run's record, then graph.invoke: __start__ is the superstep 0.
RecordRunning ==
  /\ pc = "resolved"
  /\ pc' = "planning"
  /\ superstep' = 1
  /\ summary' = [summary EXCEPT !.record = "running"]
  /\ UNCHANGED <<deps, seen, outputs, node, failing, receipts, valid, stale>>

(***************************************************************************)
(* The graph's scheduler.                                                  *)
(***************************************************************************)

RecursionLimitPerStep == Cardinality(Steps)  \* mutant

RecursionLimit == Cardinality(Steps) + 2

TriggeredByAny(t) ==  \* mutant: one edge per predecessor, no barrier
  IF deps[t] = {} THEN superstep = 1 ELSE seen[t] # {}

\* Roots follow START once; any other node waits for its whole barrier.
Triggered(t) ==
  IF deps[t] = {} THEN superstep = 1 ELSE seen[t] = deps[t]

Batch == {t \in Steps : Triggered(t)}

\* A barrier that triggers its node is consumed: it starts to collect anew.
Consume == [t \in Steps |-> IF t \in Batch THEN {} ELSE seen[t]]

Plan ==
  /\ pc = "planning"
  /\ superstep <= RecursionLimit
  /\ Batch # {}
  /\ pc' = "running"
  /\ seen' = Consume
  /\ node' = [t \in Steps |-> IF t \in Batch THEN "queued" ELSE node[t]]
  /\ stale' = stale \cup (Batch \ valid)
  /\ UNCHANGED <<deps, superstep, outputs, failing, receipts, summary, valid>>

\* Nothing is triggered any more; or the graph is out of supersteps, which is
\* a GraphRecursionError.
Return ==
  /\ pc = "planning"
  /\ superstep > RecursionLimit \/ Batch = {}
  /\ pc' = IF superstep > RecursionLimit THEN "raised" ELSE "returned"
  /\ UNCHANGED <<graph, node, failing, receipts, summary, valid>>

\* The results of a superstep are applied together, and only if all succeeded.
Commit ==
  LET finished == {t \in Steps : node[t] = "succeeded"} \ outputs
  IN
  /\ pc = "running"
  /\ \A t \in Steps : node[t] \in {"idle", "succeeded"}
  /\ pc' = "planning"
  /\ superstep' = superstep + 1
  /\ outputs' = outputs \cup finished
  /\ seen' = [t \in Steps |-> seen[t] \cup (deps[t] \cap finished)]
  /\ UNCHANGED <<deps, node, failing, receipts, summary, valid, stale>>

\* A failed node cancels those that have not started; the rest run on.
CancelQueued ==
  /\ pc = "running"
  /\ \E t \in Steps : node[t] = "failed"
  /\ \E t \in Steps : node[t] = "queued"
  /\ node' = [t \in Steps |-> IF node[t] = "queued" THEN "cancelled" ELSE node[t]]
  /\ UNCHANGED <<graph, pc, failing, receipts, summary, valid>>

RaiseFailureAtOnce ==  \* mutant: does not wait for the running siblings
  /\ pc = "running"
  /\ \E t \in Steps : node[t] = "failed"
  /\ pc' = "raised"
  /\ UNCHANGED <<graph, node, failing, receipts, summary, valid>>

RaiseFailureAfterAll ==  \* mutant: waits for the steps that never start, too
  /\ pc = "running"
  /\ \E t \in Steps : node[t] = "failed"
  /\ \A t \in Steps : node[t] \in {"succeeded", "failed", "cancelled"}
  /\ pc' = "raised"
  /\ UNCHANGED <<graph, node, failing, receipts, summary, valid>>

RaiseFailureSwallowed ==  \* mutant: the graph returns what it has
  /\ pc = "running"
  /\ \E t \in Steps : node[t] = "failed"
  /\ \A t \in Steps : node[t] \notin Active \cup {"queued"}
  /\ pc' = "returned"
  /\ UNCHANGED <<graph, node, failing, receipts, summary, valid>>

\* invoke raises the failure after every started node has ended.
RaiseFailure ==
  /\ pc = "running"
  /\ \E t \in Steps : node[t] = "failed"
  /\ \A t \in Steps : node[t] \notin Active \cup {"queued"}
  /\ pc' = "raised"
  /\ UNCHANGED <<graph, node, failing, receipts, summary, valid>>

(***************************************************************************)
(* One node, in its thread.                                                *)
(***************************************************************************)

Move(t, from, to) ==
  /\ node[t] = from
  /\ node' = [node EXCEPT ![t] = to]

Start(t) ==
  /\ Move(t, "queued", "starting")
  /\ Cardinality({u \in Steps : node[u] \in Active}) < MaxConcurrency
  /\ UNCHANGED <<graph, pc, failing, receipts, summary, valid>>

HasDependencies(t) == deps[t] \subseteq outputs

AgentCurrentSkipped(t) == TRUE  \* mutant

\* The agent still loads, trusted, with the digest resolved at the start.
AgentCurrent(t) == t \in valid

\* The driver repeats that check, except in development mode.
VerifyRoot(t) == Development \/ AgentCurrent(t)

\* The dependency check, the agent's reload against the digest resolved at the
\* start, and its snapshot come before the try: an error there has no receipt.
CheckStep(t) ==
  /\ \/ /\ HasDependencies(t)
        /\ AgentCurrent(t)
        /\ Move(t, "starting", "building")
     \/ Move(t, "starting", "failed")
  /\ UNCHANGED <<graph, pc, failing, receipts, summary, valid>>

Raise(t, from) ==
  /\ Move(t, from, "writing")
  /\ failing' = failing \cup {t}

\* Credentials, then the driver, which checks its agent again.
BuildDriver(t) ==
  /\ \/ VerifyRoot(t) /\ Move(t, "building", "built") /\ UNCHANGED failing
     \/ Raise(t, "building")
  /\ UNCHANGED <<graph, pc, receipts, summary, valid>>

Revalidate(t) ==
  /\ IF VerifyRoot(t)
     THEN Move(t, "built", "invoking") /\ UNCHANGED failing
     ELSE Raise(t, "built")
  /\ UNCHANGED <<graph, pc, receipts, summary, valid>>

Invoke(t) ==
  /\ \/ Move(t, "invoking", "closing") /\ UNCHANGED failing
     \/ Raise(t, "invoking")
  /\ UNCHANGED <<graph, pc, receipts, summary, valid>>

\* A cleanup that cannot be confirmed fails a step that had succeeded.
CloseDriver(t) ==
  /\ Move(t, "closing", "writing")
  /\ failing' \in {failing, failing \cup {t}}
  /\ UNCHANGED <<graph, pc, receipts, summary, valid>>

WriteReceiptBestEffort(t) ==  \* mutant: a receipt that cannot be written is skipped
  \E written \in BOOLEAN :
    /\ Move(t, "writing", IF t \in failing THEN "failed" ELSE "succeeded")
    /\ receipts' = [receipts EXCEPT ![t] =
         IF ~written THEN @ ELSE IF t \in failing THEN "failed" ELSE "completed"]
    /\ UNCHANGED <<graph, pc, failing, summary, valid>>

\* The receipt is written on every path; if that fails, so does the step.
WriteReceipt(t) ==
  \/ /\ Move(t, "writing", IF t \in failing THEN "failed" ELSE "succeeded")
     /\ receipts' = [receipts EXCEPT ![t] =
          IF t \in failing THEN "failed" ELSE "completed"]
     /\ UNCHANGED <<graph, pc, failing, summary, valid>>
  \/ /\ Move(t, "writing", "failed")
     /\ failing' = failing \cup {t}
     /\ UNCHANGED <<graph, pc, receipts, summary, valid>>

StepProgress(t) ==
  /\ pc = "running"
  /\ \/ Start(t) \/ CheckStep(t) \/ BuildDriver(t) \/ Revalidate(t)
     \/ Invoke(t) \/ CloseDriver(t) \/ WriteReceipt(t)

(***************************************************************************)
(* After the graph: the final record, then the workflow's own receipt.     *)
(***************************************************************************)

RecordFinal ==
  /\ pc \in {"returned", "raised"}
  /\ pc' = "receipting"
  /\ summary' = [summary EXCEPT !.record =
       IF pc = "returned" THEN "completed" ELSE "failed"]
  /\ UNCHANGED <<graph, node, failing, receipts, valid>>

WriteSummary ==
  /\ pc = "receipting"
  /\ pc' = "ended"
  /\ summary' = [summary EXCEPT !.receipt = summary.record]
  /\ UNCHANGED <<graph, node, failing, receipts, valid>>

\* A session transaction of the runner itself raises: the run ends there.
StoreFails ==
  /\ pc \in {"resolved", "returned", "raised", "receipting"}
  /\ pc' = "ended"
  /\ UNCHANGED <<graph, node, failing, receipts, summary, valid>>

Crash ==
  /\ pc \notin {"idle", "ended", "crashed"}
  /\ pc' = "crashed"
  /\ UNCHANGED <<graph, node, failing, receipts, summary, valid>>

\* Revocation, a changed agent or a changed policy invalidates a step's agent.
Invalidate(t) ==
  /\ t \in valid
  /\ valid' = valid \ {t}
  /\ UNCHANGED <<graph, pc, node, failing, receipts, summary>>

Engine ==
  \/ Resolve \/ RecordRunning \/ Plan \/ Return \/ Commit
  \/ CancelQueued \/ RaiseFailure \/ RecordFinal \/ WriteSummary

Next ==
  \/ Engine \/ StoreFails \/ Crash
  \/ \E t \in Steps : StepProgress(t) \/ Invalidate(t)

Spec == Init /\ [][Next]_vars

\* The process is scheduled: its main thread and every started node proceed
\* (a node's model call is bounded by the driver's deadline).
FairSpec ==
  Spec /\ WF_vars(Engine) /\ \A t \in Steps : WF_vars(StepProgress(t))

(***************************************************************************)
(* Properties.                                                             *)
(***************************************************************************)

\* A step starts only when all its predecessors' results are in the state:
\* the "started without all dependency results" error cannot be raised, at
\* whatever depths the predecessors lie (workflow_runner.py:178, 272).
DependenciesPresent ==
  \A t \in Steps : node[t] \in Active => HasDependencies(t)

\* A step is scheduled only after each predecessor has a durable receipt that
\* says it completed.
EvidenceBeforeDependents ==
  \A t \in Steps : node[t] # "idle" =>
    \A d \in deps[t] : receipts[d] = "completed"

\* A step that has ended never runs again: a join is triggered once.
StepsRunOnce ==
  [][\A t \in Steps : node[t] \in {"succeeded", "failed", "cancelled"} =>
                        node'[t] = node[t]]_vars

\* The workflow's recorded outcome and its steps' receipts tell one story: it
\* completed exactly when every step has a receipt that says completed.
SummaryAgreesWithSteps ==
  summary.record \in {"completed", "failed"} =>
    /\ summary.record = "completed" <=> \A t \in Steps : receipts[t] = "completed"
    /\ summary.receipt \in {"none", summary.record}

\* The outcome is recorded only when nothing runs any more: no step's receipt
\* or effect can follow the workflow's own record.
QuietWhenRecorded ==
  pc \in {"returned", "raised", "receipting", "ended"} =>
    \A t \in Steps : node[t] \notin Active \cup {"queued"}

\* The recorded outcome is the whole story and its end.
OutcomeIsFinal == SummaryAgreesWithSteps /\ QuietWhenRecorded

\* The graph never runs out of the len(steps) + 2 supersteps it is given.
RecursionLimitSuffices == pc = "planning" => superstep <= RecursionLimit

\* A step whose agent was revoked or changed before it was planned is never
\* completed, though the workflow resolved every agent when it began.
StaleNeverCompletes == \A t \in stale : receipts[t] # "completed"

\* A workflow that is not killed ends.
Terminates == pc = "planning" ~> pc \in {"ended", "crashed"}

TG == INSTANCE TaskGraph WITH
  started <- {t \in Steps : node[t] \in Active \cup {"succeeded", "failed"}},
  done <- {t \in Steps : receipts[t] = "completed"}

\* The supersteps implement the plain dependency order of the DAG.
ImplementsTaskGraph == TG!Spec
=============================================================================
