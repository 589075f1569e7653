# A TLA+ verification of AeroMesh

AeroMesh (`amx`) runs LLM agents and workflows of agents from JSON manifests:
signed, collected into releases that an operator approves against a policy,
executed with durable sessions, budgets and isolated tools, and evidenced by
receipts. This directory holds TLA+ modules of its stateful parts, the TLC runs
that check them on small instances, and TLAPS proofs of what matters most for
every instance. Paths below are relative to `src/packages/aero/src/aero/`
unless they start with `src/`.

## Inventory of the system

| Component | State | Operations | Hard behaviour | What makes it correct |
|---|---|---|---|---|
| Single-agent execution and resume (`services/runner.py`) | locals of an invocation | run, resume | checks made before the lock, several processes, crashes, failing cleanup | one execution per session at a time, evidence before success, a resume is of the same manifest and mode |
| Session registry (`services/session.py`, `infrastructure/file_lock.py`) | SQLite tables `sessions`, `snapshots`, `receipts`; one lock file per session | snapshot, record, get, write_receipt, execution_lock | concurrent transactions, rollback, kernel-released locks | transactions are atomic, a recorded session can be reproduced |
| Workflow execution (`services/workflow_runner.py`) | LangGraph state, step threads, receipts | resolve, execute, step node | supersteps, joins, failing steps beside running ones, revocation on the way | dependency order, once each, the summary agrees with the steps |
| Agent driver (`services/deepagents_runner.py`) | event loop, MCP owner task, SQLite backends, cleanup callbacks | build, compile, open a session, revalidate, execute, close | deadlines, cancellation, late answers, cleanup that fails half way | no resource outlives close, or close reports it; close always ends |
| Budgets (`TokenUsageCounter`, `OutputTokenLimitMiddleware`) | counters and reservations per agent | start, end and error callbacks | concurrent reservations, nested ledgers, missing usage, refusal half way up | spend stays within limits, nothing is forgotten |
| Release store (`services/releases.py`, `services/policy.py`) | snapshot files, the approval marker, the operator's policy | approve, load, validate, diff | multi-file writes, a crash, approvals at once, re-approval | only complete and currently approved releases load |
| Trust store (`services/trust.py`, `infrastructure/attestation.py`) | trusted keys, revocations, sidecars | sign, trust, revoke, verify | revocation racing approval, two-file installation | revoked keys are never accepted again |
| Signing-key store (`infrastructure/keystore.py`) | store id, keyring entry, key files | generate, load | crash points, one lock for many processes | no usable key is lost or replaced |
| Vault (`infrastructure/vault.py`, `credential_store.py`) | keyring | resolve | partial saves | nothing is granted that was rejected |
| MCP tools (`infrastructure/tool_execution.py`, `_MCPSessions`) | containers, sessions | connect, clean up | late containers, hung owner, 60 s and 5 s timeouts | all owned containers are gone or cleanup fails loudly |
| Egress proxy (`infrastructure/egress_proxy.py`, `sandbox.py`) | slots, active sockets | accept, relay, stop | stop while accepting, timers, threads that stop does not wait for | slots are conserved, stop shuts what it knows, connections end |
| Parser and closure (`infrastructure/parser.py`, `services/releases.py`) | the traversal's stack and marks | validate DAG, references, depth | order-dependent depth bound | what is accepted is exactly what the entry needs, in any order of the references |
| Publication (`src/scripts/publish_release.py`) | the release host's draft, tag, assets | publish, retried | lost replies, partial uploads, another actor | what is published is whole and what was validated, nothing is replaced |
| Preflight (`services/preflight.py`) | the probe's cleanup callbacks | probe | a callback that fails | every callback runs |
| CLI, synthesis, discovery, SDK, examples | little or none | | | |

Interaction: `amx run` calls the runner, which loads the artifact through the
trust or release store, records a session, takes its lock, asks the vault for
credentials, builds a driver (which loads the artifact again), executes, closes
and writes the receipt. A workflow does the same for each step in a thread of
its own. Drivers call MCP containers and charge every model call to the ledgers
of the whole delegation chain. All processes share one `AEROMESH_HOME`; the
operator and other processes change trust, policy and releases at any time.

## Modules

| Module | Models | Abstract specification | Proofs |
|---|---|---|---|
| `AgentRunner` | `services/runner.py`, `session.py`, the load decisions of the trust and release stores, the driver as the runner sees it | `ExecutionLog` | `AgentRunner_proofs` |
| `Workflow` | `services/workflow_runner.py` on LangGraph's scheduler | `TaskGraph` | `Workflow_proofs` |
| `TokenLedger` | `TokenUsageCounter` and `OutputTokenLimitMiddleware` | the accounting sums in its properties | `Limits_proofs` |
| `Releases` | `approve_release`, `load_approved_release` of `services/releases.py` | | `Releases_proofs` |
| `Closure` | the traversal of `validate_release` in `services/releases.py` | `Whole`, `Acyclic` and `Deep`, of the graph alone | `Releases_proofs` |
| `ReleaseStore` | composes `Closure` and `Releases` | `Closure`, `Releases` | `Releases_proofs` |
| `Keystore` | `infrastructure/keystore.py` under `file_lock.py` | | `Keystore_proofs` |
| `Driver` | `DeepAgentsExecutionDriver` and `_MCPSessions` of `services/deepagents_runner.py`, the containers of `infrastructure/tool_execution.py`, the probe of `services/preflight.py` | | `Driver_proofs` |
| `Trust` | `services/trust.py`, `_install` of `presentation/cli.py` | | `Trust_proofs` |
| `EgressProxy` | `infrastructure/egress_proxy.py` | | `Limits_proofs` |
| `Publication` | `src/scripts/publish_release.py` | | `Publication_proofs` |

`MC*` modules give the constants of the configurations. An operator whose
comment says *mutant* is a wrong variant of the definition that follows it, with
which a property of a run fails; it is used by no specification.

### AgentRunner

An invocation is a process that makes one execution, so its identity doubles as
the session identifier it may create and as its execution identifier (fresh
UUIDs in the code). `pc` is where `run_manifest_file`, `_resume_session` or
`_execute_locked` stands; between two values of `pc` lies exactly one
transaction of the registry, one load of an artifact, or one call of the driver,
which are the points where other processes are visible.

| Actions | Code |
|---|---|
| `LoadNew`, `Snapshot`, `Prepare` | `run_manifest_file`, runner.py:81-136 |
| `ReadSession`, `Reload` | `_resume_session`, 285-328: all before the lock |
| `Acquire`, `Unlock` | `_execute`, `execution_lock`: one attempt, no waiting |
| `RecordRunning`, `BuildDriver`, `Revalidate`, `Invoke`, `CloseDriver` | `_execute_locked`, 181-237, and the driver's `_verify_root`, `execute`, `_close_after_failure` |
| `RecordFinal`, `WriteReceipt` | the `finally` blocks, 238-261 |
| `StoreFails`, `Crash` | a transaction that raises and rolls back; the process dies and the kernel drops its lock |
| `EditFile`, `SignFile`, `RevokeKey`, `EditPolicy`, `Reapprove` | the operator, at any moment |

A manifest is a member of `Artifacts`, its digest its identity. `world` is what
decides a load: the file's content and whether its sidecar matches, revocation,
the policy's content and the policy the release was approved under. In
`release` mode the approved bytes are fixed by the digest, so a load returns
`ReleaseArtifact` or nothing. `started`, `late` and `enforced` are history that
only properties read. The three ways to run (`release`, `file`, `dev`) are one
constant, `Modes`, so that each configuration keeps to what it asks about.

### Workflow

LangGraph is outside `src/`; it is modelled as the code uses it: bulk
synchronous supersteps (`Plan`, `Commit`), a barrier channel per list edge
(`seen`, consumed when it triggers), threads limited by `max_concurrency`
(`Start`), a failure that cancels what has not started and waits for what has
(`CancelQueued`, `RaiseFailure`), and a recursion limit (`Return`). Node actions
follow `_make_node`: the checks before the `try`, which leave no receipt, the
driver, and the `finally` that closes and writes the receipt. `valid` shrinks
when an agent is revoked or replaced; `Development` drops the driver's own
verification, as the code does. An interrupt of the main thread while the graph
runs is not modelled.

### TokenLedger

One record of counters per agent's `TokenUsageCounter`; `Path[c]` are the
ledgers of the chain a call was delegated through. LangChain runs the callbacks
of one event concurrently and raises the first refusal while the others go on:
hence one action per call and ledger (`OnStart`, `OnEnd`), a call that may be
`done` with start events still pending, and a reservation that a refused call
leaves behind. That last behaviour is visible in the model: it is conservative, the budget shrinks. Money is a
natural number, floats and their rounding are not modelled. It is assumed, as
the code assumes, that a provider bills no more input than the byte estimate and
honours the output cap it is given.

### Releases

The directory of one release digest, hence of one content: a file is absent,
what was signed, or something else. Each `atomic_write` and each read of a file is an action
of its own, since nothing locks the directory; the load at the end of an
approval is the same sequence of actions as a load on its own. `sidecar` is the
signature beside the source, read twice by an approval: to verify, and to copy.
`record` is the policy with its path that an approval checked, and then what the
load read; `vouched`, `late`, `marked`, `edited` and `damaged` are history that
only properties read: `ApprovedStaysLoadable` speaks of behaviours in which the
operator has edited nothing, `ApprovalIsLast` of those without damaged files.
Two behaviours that no document rules out are visible here. An approval returns
when some approval is in force, which may be that of a concurrent one under
another policy. And a re-approval whose source sidecar is replaced after it was
verified fails, but has by then overwritten the good signature of an earlier
approval, whose loads fail until the release is approved again; this is why
`ApprovedStaysLoadable` is stated for an operator who edits nothing.

`AgentRunner` takes a load as one step: its checks are re-made at each of the
driver's loads, and a revocation or edit within a load is there one just after it.

### Closure

`validate_release` walks a release's references depth first, with two sets of
marks, and decides by them whether the release embeds what its entry needs. The
recursion of `walk` and `check_refs` is a stack of calls, each with the index of
its next reference: a step checks one reference (`Refuse`, `Skip`, `Enter`) or
returns. A reference is its target and whether its pin is the target's digest;
schema, digests and identities are checked before, and the documents are those
that passed. What the verdict should be is said of the graph alone: `Whole` (the
embedded agents are the least set that holds all that the entry and they
themselves need, and all pins are right), `Acyclic` and `Deep`. Digests that pin each other cannot be
found, so the instance has a wrong pin in every cycle; the theorems do not
rely on that.

`ReleaseStore` puts the two together: an approval and a load validate what they
read before they go on. The content is that of one digest and validation reads
nothing else, so all validations decide alike and the composition makes one, before the
calls begin. In the run, every document is validated beside one state of the store, and
one accepted document goes on with every state of the store (`MCInit`,
`Followed`): no step of `Releases` reads the document.

### Keystore

A process makes one call, `generate` or `load` on one name; its identity doubles
as the random store-id and encryption key it may create. Each action is one
step that a crash can separate from the next: an exclusive creation (the file is
there and `Torn`), a write with its fsync, a keyring access, an unlink. `key[n]`
is the encryption key a `.key` file is encrypted under, `pub[n]` the call that
wrote a `.pub`. Every operation may fail as well: a keyring `set` that raises may
have stored the entry, a failed write leaves the torn file, an unlink in the
cleanup may raise (`unclean`). A crash, which stands for an interrupt too, runs
no cleanup and drops the lock. The operator may lose the keyring's entries, the
store-id, or a pair (`Losses`) at any time, also under a running call; `removed`
is history, the names whose pair was removed, of which the pair properties say
nothing. The last step of a call includes the release of the lock.

### Driver

`client` says who builds connections: a driver or preflight's probe. `pc` is the
caller's thread; the owner task (`owner`) is another process that steps only
while the caller runs the event loop (`LoopRuns`), since asyncio has one thread.

| Actions | Code (deepagents_runner.py unless named) |
|---|---|
| `VerifyRoot`, `ConnectBackend`, `LockSetup`, `SetUp`, `SetupFails` | `__init__`, `build_async_checkpointer`, `build_async_store`, `_sqlite_setup_lock` |
| `CompileAgent`, `CompileFails`, `Compiled` | `_compile`, `_child_manifest`, `mcp_connections`, `build_mcp_tools`, and `build_stdio_connection` of tool_execution.py; `todo` is the recursion's stack, depth first |
| `OpenReturns`, `OpenTimesOut` | the caller's side of `_MCPSessions.open` |
| `TakeItem`, `EnterSession`, `SessionReady`, `Deliver`, `LoadFails`, `OwnerCancelled`, `Unwind` | `_own_sessions`, `_load_mcp_tools` |
| `Execute`, `EndExecution` | `execute` with `_revalidate_execution` |
| `GraceEnds`, `OwnerEnded`, `CloseBackends` | `_MCPSessions.close`, `shutdown` |
| `RunCallback`, `Remove`, `Confirm`, `CallbackFails` | the callbacks: `cleanup` of tool_execution.py, `proxy.stop` |
| `Interrupt`, `InterruptClose` | KeyboardInterrupt in the loop |
| `Probe` | preflight.py:162-177 |
| `ContainerAppears`, `ToolExits`, `OtherSetup`, `EditAgent` | the Docker daemon, the servers, other processes, editors |

A connection has a session and a tool. `docker run` only asks for a container:
its client may end or be killed while the creation is in flight, and the daemon
may create it later, even after the cleanup looked (`late`, history). A running
container may ignore the end of its client. Whatever a `docker` command answers,
an exit status that the code does not read is not looked at. Handing over an
injected checkpointer, store or tools, as tests do, is not modelled.

What an agent delegates to depends on the content of its file (`Subs`), so that an
edit may add or remove a reference. `CompileAgent` follows the references of the
content it reads; `Revalidate` those of the contents the files have now, from the
root (`Reached`). The files are read one after another in the code; since each must
equal what was compiled, reading them in one step accepts nothing else. `checked`
records what was read, and 0 for an agent that was not.

### Trust

Each action is one access to a file by a command (`trust`, `revoke`, `verify`,
`install`, `develop`, the last being `install --development`), since nothing is
locked: `trust_key` checks the revocation, the existing key, creates and writes;
`require_trusted_manifest` reads manifest, key, revocation and sidecar;
`_install` replaces two files. A key file between creation and write is `Torn`
and stays so when the process fails there. Identifiers other than the artifact's
are aliases that may approve the same key: the revocation is by fingerprint.
The author edits and signs the source at any time, the operator removes
approvals, but not a key file that a command is writing. `approved`,
`disturbed`, `developed` and a call's `barred` (the keys that were revoked when
it began) are history. The source and the registry's file are different files,
as `_install` requires.

### EgressProxy

A connection is accepted into one of `Slots`, handled by a thread, and timed by
a `threading.Timer`. `active` are the sockets the server tracks; the handler of a
plain request connects and sends before it notes the origin's socket
(`SendRequest`), the handler of a tunnel notes it once connected (`Dial`). `stop`
ends the accept loop, shuts what is tracked and does not wait for threads.
`ReadRequest` does not ask whether the client's socket is open: nor does the
code, and what was received before a shutdown stays readable. `missed` and
`unseen` are history: sockets stop could not know, and plain requests whose
origin's socket was noted after the timer had fired. The latter is a limit of
the code that `ConnectionsEnd` excepts: such a connection has no deadline but
that of its origin's silence. A tunnel needs no exception, as `_relay` has a
deadline of its own.

### Publication

An attempt is one run of the script for one build; one runs at a time, as the
workflow's concurrency group has it, and any number follow each other, for the same
build, a rebuild of the same commit, or another commit. Every action is one call
to the release host with the checks that follow it. `Break` ends an attempt at
any call, whose effect may have happened: a draft created, a file uploaded
whole or truncated (`Bad`), a release published with its reply lost. `Meddle` is a
maintainer who changes anything at any time. `meddled` (since the attempt began)
and `conflict` (what the attempt found when it began) are history.

## Runs

| Run | Instance | Shows |
|---|---|---|
| `runner_modes` | 2 invocations, 2 manifests (one with tools, one without checkpoint), all modes, 2 granting policies | `SessionIntegrity`: snapshots precede sessions, every execution of a session is of its manifest and mode, ephemeral sessions run once; after a revocation nothing new reaches the model; `SuccessHasEvidence`: completed means clean, and a success that was reported is recorded |
| `runner_contention` | 3 invocations, 1 manifest | one execution per session, status and receipt agree, no path leaves a lock behind, `ExecutionLog` is implemented |
| `runner_stale_policy` | 1 invocation, 2 granting policies | violation: see Findings |
| `workflow_dags` | all DAGs of 3 steps, 2 threads, fair | order and evidence; `OutcomeIsFinal`: the summary agrees with the steps, and nothing runs once it is recorded; stale agents, the superstep limit; `TaskGraph` is implemented; every workflow ends |
| `ledger_budgets` | 4 calls, 2 nested ledgers: the root's with a call limit, the subagent's with a money limit too; one call without a cap, one with a cap too large | spend and call budgets, exactness of complete reports |
| `keystore_losses` | 3 calls, 2 names, any loss | what encrypts existing keys is never replaced; a torn store-id is alone; `PairsSurvive`: pairs that are not removed stay intact and load |
| `releases_approval` | `ReleaseStore`: first all releases over 3 agents, 2 references each in any order, of a workflow or an agent, one agent missing or one pin wrong, depth 2 for 64; then 2 calls, 1 snapshot, 2 paths, 3 policies of which 2 grant, all edits | what is accepted is whole and acyclic, nothing is rejected without a cause; only vouched policies load; after a revocation nothing loads; the record is a commit marker; approved releases stay loadable |
| `driver_close` | a driver of a root with a host server, which delegates to an agent directly and through a pinned one; the first of that agent's 2 contents delegates to another with a container; or the root's probe; fair | a silent close has left nothing, every callback runs, sessions outlive the requests that opened them, drift is refused, close ends |
| `driver_probe` | the probe of an agent with 2 containers | violation: see Findings |
| `egress_connections` | 3 connections, 2 slots, fair | slots are conserved, stop shuts what it knows, connections end |
| `publication` | 4 builds of 2 commits, one with bad inputs; 2 assets and a stray name | a release is published whole, nothing on the host is replaced, attempts tell the truth |
| `trust_install` | 2 commands, the artifact and an alias, 2 keys, 3 versions (one nobody signed), 1 edit | revocation is final, approvals are kept, what is installed was signed and verifies |

Bounds. Two invocations give every pair (run beside resume, resume beside
resume); the third in `runner_contention` lets two resumes of a third's session
meet. Of the two manifests one is in the approved release, requests tools and
keeps checkpoints, also when it is run as a file; the other is none of these.
Three steps are the least with a join whose predecessors lie at different depths,
and with more ready steps than threads. Four calls are enough for two to be in
flight below each ledger when another has been settled; the uncapped call is the
root's own, since a money limit refuses it. Steps of `MCWorkflow` depend on
smaller ones only: every DAG is one of these up to names. Three calls of the key store are a
first one that founds the store and crashes or succeeds, and two that then meet;
two names let keys of different calls coexist. The driver's instance has a server
of each kind, a list of one and of no servers, an agent that is compiled twice,
one that is pinned, and one at depth two that an edit makes unreachable. Three connections on two slots let one be refused or
wait while two are served. The attempts, breaks and changes of `Publication` are
unbounded; the effect of a call that broke comes before the next attempt or
never. With three agents a workflow reaches one at two depths, one of which exceeds
the bound, and shares it between two others. Two commands of `Trust` give every pair, in any interleaving, on a store
that earlier commands may have left in any state; `MaxEdits` bounds changes by the author
and the operator. No other counter is bounded. Symmetry is used on invocations,
on the calls, paths and granting policies of `Releases`, the calls and names of
`Keystore`, the calls of `Trust` and the assets of `Publication`, where no
liveness property is checked. Deadlock is not checked: invocations, workflows,
calls, drivers, connections and traversals end.

Fairness. `FairSpec` of `Workflow` makes the graph's scheduler and each started
node proceed: threads are scheduled and the driver's deadline (at most 3600 s)
bounds a node. `FairSpec` of `Driver` makes the caller's thread proceed, every
wait of which has a timer (30 s for the lock, 60 s to open, the deadline, 5 s of
grace, 10 s for a docker command), delivers a requested cancellation, and
lets the MCP client end a session, whose process it kills after a grace period;
servers, the daemon and other processes are never forced. `ProxyFairSpec` lets threads run, timers
fire, and operations with a timeout or on a shut socket end; an exchange with an
open socket is never forced to end, as a peer may send a byte every 9 s. Stores
that fail, crashes and interrupts are never forced. That no invocation keeps its
session's lock is stated as a safety property (`NoAbandonedLock`).

## Findings

`runner_stale_policy`: `docs/RELEASES.md:200` says that a receipt identifies the
approved policy digest of its execution. The receipt takes it from the release
the runner loaded (runner.py:259), while the driver loads the release again, twice
(deepagents_runner.py:760), and enforces that policy. A re-approval under another
policy in between makes the receipt name a policy the run was not held to.

`driver_probe`: `docs/OPERATIONS.md:54` says "Normal completion, errors and
cancellation invoke every registered cleanup callback." The driver's close does
(`EveryCallbackRuns`); preflight's probe calls its callbacks in a plain loop
(preflight.py:176), which the first failing one ends: the containers of the
others are not looked for.

Smaller observations, visible in the models and excepted by their properties: a
request whose timer fires while it is still being read (from what was received) or
sent may outlast the 60 s of `docs/OPERATIONS.md:52`, as its origin's socket is
noted later and shut by nothing (`EgressProxy`, `unseen`); a failed or
interrupted write in `trust_key` leaves an empty key that a repetition refuses,
although its comment says "Idempotent for the same key" (`Trust`, `Torn`); in
development mode an agent that is delegated to twice and edited between its two
compilations keeps its first content in the graph, and an agent that only this
first content delegates to is never read again: it may be edited and executes as
it was compiled (`Driver`, `DriftRefused`, which says that this is the only way);
a database connection is left open when its builder fails and cannot close it
(deepagents_runner.py:347 and 364; `Driver`, `abandoned`);
and `walk` returns at once for an agent it has visited (releases.py:267), so
that only the first path to an agent is measured against `_MAX_DEPTH`: a release
with a longer chain is accepted when a shorter path to its agents comes first,
and refused when the same references stand in another order. What is bounded is
the recursion, and the depth by the 256 agents (`Closure`, `Deep`, which only
`RejectedForCause` mentions).

## Proofs

Every safety and action property of the passing runs is a theorem, and so are
both refinements and the type invariant of each module but the two abstract
ones: for every value of the constants, under the modules' named assumptions.
These say what the configuration is (finite sets of steps and calls, graphs
without cycles, `None` outside the other values), and each is evaluated by TLC on
a run. In every module the invariant of the runs was strengthened until it was
inductive; TLC checked the strengthening on the run's instance before it was
proved.

*AgentRunner_proofs.* `IInv` holds the types; `Bound` (from a resume's read on,
an invocation's manifest and mode are those of its session, which exists, so
records never turn a session into another); `Fresh` (a session not yet prepared
does not exist); `Selected`; and `LockHeld` (whoever executes holds the lock).
Mutual exclusion alone is not inductive: it needs to be known that the lock names
its holder. `LocalStep` gathers the case of the steps that touch nothing shared.
`JInv` adds what each invocation has recorded and decided at its `pc`
(`Accounted`: `Stage`, `Refused`, `Owns`, `Receipted`), that a manifest is stored
before its session (`Stored`), that a lock is held by an execution of its
session (`LockOwned`), and that a session names its latest execution (`Latest`,
which needs mutual exclusion). From it: `SessionIntegrityAlways`,
`RevocationAlwaysStops`, `SuccessAlwaysHasEvidence`, `StatusAlwaysAgrees`,
`LockNeverAbandoned`, and `RegistryImplementsLog`: every step of the registry's
users is a step of `ExecutionLog` or a stutter.

*Workflow_proofs.* The invariant relates barriers to outputs (`Barriers`: what a
barrier has seen are committed predecessors, and a consumed barrier belongs to a
node that has been planned), outputs to receipts (`Evidence`), excludes commits in the
middle of a superstep (`Between`), and counts supersteps (`Counted`: each commit
adds a step to the outputs, so the counter never passes `Cardinality(Steps) + 1`).
From it: `DependenciesAlwaysPresent`, `EvidenceAlwaysFirst`,
`RecursionLimitAlwaysSuffices`, `StepsAlwaysRunOnce`, and `RefinesTaskGraph`,
that every step of the scheduler is a step of `TaskGraph` or a stutter. How a
workflow ends needs `EndInv`: a barrier not yet triggered holds every committed
predecessor (`Collected`), so when nothing is triggered any more every result is
there (`NothingLeft`: of the missing steps one would depend on present ones only,
as the graph has no cycle); nothing runs outside the supersteps (`Returns`); and
the receipt copies a final record (`Recorded`). `OutcomeAlwaysFinal` follows, and
`StaleStepsNeverComplete` from `StaleStopped`.

*Limits_proofs*, on `TokenLedger`. `BudgetAlwaysBounded` needs that a settlement
never charges more than was reserved, which follows from the monotonicity of cost
and from `Capped` (a call that a limited ledger admitted declared a cap within that
ledger's). `CallBudgetHolds` counts: the calls that passed a ledger are at most
its counter (`Counted`), although several ledgers admit one call at different
moments. `Books` says what the counters are: `reserved` is the sum of the
reservations of the calls the ledger holds open, `used` the sum of what it
charged for the calls it has settled (`Balanced`); which calls those are follows
from where each call is (`Opened`), and what is not `missing` was reported
(`Reported`). Since every call that was sent is open or settled, and costs no
more than its reservation, `SpendAlwaysCovered` compares two sums term by term;
`CompleteUsageAlwaysExact` finds them equal. That a ledger never releases more than
it reserved (`TypeCorrect`) is a sum that is not negative.

The sums are those of `MapThenSumSet`, a recursive function over the subsets of
a set. The induction theorems of the library cannot be used on it; but strict
inclusion among the subsets of a finite set is well founded, so of the sets for
which a claim about the sum fails one is smallest (`Smallest`), and the claim
holds of the set without one of its elements. In this way `SumsExist` and
`SumsAgree` show that the recursion defines a function and only one,
`TotalWithout` that the order of the terms does not matter, and `TotalCovers`,
`TotalSame`, `TotalChanged` and `TotalAdds` what the ledgers need.

*Limits_proofs*, on `EgressProxy`. `Free` says that the slots not free are the
connections served, which each step changes by one at most; `Known` which
sockets are tracked at each `pc`; and `Late` that a connection that has yet to
note its origin's socket after `stop` is one that `stop` missed.
`SlotsAlwaysConserved` and `StopAlwaysShutsWhatItKnows` follow.

*Driver_proofs.* `Databases`: a back-end's connection is open only while it is
being set up, the schema's lock is held then only, and a close that has not
failed leaves none open. `Owned`: sessions are entered and held by the owner
task alone, which has ended when the caller goes on to the callbacks. `Opened`:
an owner that serves has opened every session it was asked for, except while
it answers the caller's request; so a session outlives the request that opened it
(`SessionsAlwaysOutlive`). `Cleaned`: the callbacks behind the one that runs have
run, in any order of failures (`EveryCallbackAlwaysRuns`). With `Tools` (a server
that still runs after its callback came late) they give `SilentCloseAlwaysClean`.
`Drift` relates the graph to the contents compiled last and read last. That
everything compiled was read needs `Rooted`: any set that holds the root and what
the compiled contents of its members refer to holds all agents compiled or still to
be. When no agent has two contents, what the revalidation reaches is such a set
(`AllReached`), and `DriftAlwaysRefused` follows. Connections are a sequence: the lemmas at the beginning
say what its updates do.

*Trust_proofs.* For each command, where it is tells what it does and holds
(`Role`), that a key revoked before it began does not pass (`Barring`), that a
torn key has one writer (`Writer`), that what it is about to install was signed by
an approved key (`Vouched`), and, as long as no other changes a file, that it works
on the source as it is (`Followed`). `RevocationAlwaysFinal`,
`InstalledAlwaysSigned`, `InstalledAlwaysVerifies` and `ApprovalsAlwaysKept` follow.

*Publication_proofs.* What an attempt knows of the host at each `pc`, as long as
no maintainer has acted since it began: that it agrees with the build (`Agrees`),
that inputs and tag were checked (`Checked`), and what is in the release
(`Known`). The invariant claims these only without meddling, and types always.
`OutcomesAlwaysTrue`, `AlwaysPublishesWhole` and `NothingEverReplaced` follow; the
assumption that `None` is no release record tells an absent release from one.

*Releases_proofs.* `Vouching` (the record on disk, and what an approval or a
load holds, was checked by an approval) and `Late` (a call that began after the
revocation has not passed it) give `OnlyVouchedLoads`. `Complete` says that what
an approval has written so far is on disk, whoever wrote it: files only become
what was signed, so concurrent approvals help each other, and the record comes
last (`ApprovalAlwaysLast`). With `Quiet`, what remains true as long as the
operator edits nothing, it gives `ApprovedAlwaysLoadable`.

On `Closure`: while the traversal runs (`Walk`), the stack is a path of distinct
agents from the entry (`Path`), `active` are the agents on it and `visited` others
(`Marks`), the references before a call's index are pinned and visited
(`InOrder`), and so are all references of a call that has returned (`Finished`).
`Grounded` excludes cycles among the visited without ordering them: each of their
subsets has a member that needs no other; a call that returns needs visited
agents only, so it can be added. `Needed` says that any closed set holds all
that is marked. When the stack is empty, `visited` is therefore the least closed
set, which decides `AcceptedAlwaysWhole`; for `VerdictAlwaysRight` each refusal
shows its cause: the part of the stack above a repeated agent is a cycle, the
whole stack a path that is too long.

On `ReleaseStore`: `StoreIsReleases` and `StoreIsClosure` say that the composition
keeps the specification of each part, so that all theorems about them hold of it;
`OnlyWholeIsUsed` follows.

*Keystore_proofs.* `IInv` says what the holder of the lock knows (`Knows`) at each
point of its call: that no `.key` file exists when it is about to create
something, that the store-id is its own or lost, and that all complete keys are under
the encryption key it holds. Only losses can happen beside the holder
(`OthersKnow`), and they make everything known hold the more (`OperatorStep`).
Hence `AlwaysDecryptable`, `TornIdentityIsAlwaysAlone` and
`AlwaysFreshOnlyWhenEmpty`; with `Kept` (the files a call creates belong to no
pair returned before; what a load has read is still there)
`StoredAlwaysIntact` and `LoadsAlwaysDecrypt`, together `PairsAlwaysSurvive`, for
each name that the operator has not removed: a step touches the files of its own name only (`StepLocal`), so
other names' calls keep what they know (`KeptElsewhere`).

Model-checked only: liveness, as the prover has no rules for fairness and
ENABLED. These are `Terminates` of `Workflow` and of `Driver`, and
`ConnectionsEnd` of `EgressProxy`. The runs that expect a violation refute their
property on an instance. `DependenciesPresent` and `StepsRunOnce` of `Workflow`,
the type invariants, and the conjuncts of the properties that have parts, are
stated for the theorems: no run spends time on them.

## Not modelled

- Cryptography, JSON and schema validation, the parser's checks of a workflow's
  graph, building and comparing releases, HTTP parsing, domain matching, prompts, ranking,
  terminal output, the SDK's builders, the distribution check and the example
  server: pure functions, or pure input and output, of one document at a time.
- The vault and credential store: a lookup per entry; prompted values are stored
  one by one, each complete in itself.
- Synthesis: a sequential loop of at most five model calls that writes one new
  file at its end.
- An interrupt of the main thread while a workflow runs, or while the driver
  builds its SQLite back-ends (the pending builder is then cancelled by close and
  closes its connection there, as a builder that fails does at once).
- In `Publication`, a change of the host between the downloads of two assets, and
  a host that does not show a release at once after creating it. In `Workflow`,
  an agent that is restored before its step is planned.

## Plan

What the runs check of safety is proved. Left are:

1. The leads-to properties: their safety halves can be proved, such as that a
   step's variant decreases (the nodes of a workflow not yet ended, the callbacks
   a close has left), so that only fairness rests on TLC.
2. `build_release` beside `Closure`: that what a build writes, pin by pin, is
   accepted when it is validated.
