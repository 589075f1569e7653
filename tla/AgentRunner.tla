---------------------------- MODULE AgentRunner ----------------------------
(***************************************************************************)
(* One AEROMESH_HOME shared by any number of `amx run` invocations: each   *)
(* starts one agent session or resumes an existing one                     *)
(* (services/runner.py), through the session registry                      *)
(* (services/session.py), while the operator edits and signs manifests,    *)
(* revokes keys, edits the policy and approves the release again.          *)
(*                                                                         *)
(* An invocation is one process and makes one execution, so its identity   *)
(* serves as the identifier of the session it creates and as the           *)
(* execution identifier of its receipt (both are fresh UUIDs in the code). *)
(***************************************************************************)
EXTENDS Naturals

CONSTANTS
  Invocations,      \* the `amx run` processes
  Artifacts,        \* manifest contents, told apart by their digest
  ReleaseArtifact,  \* the entry manifest embedded in the approved release
  ToolArtifacts,    \* manifests that request tools or credentials
  Checkpointed,     \* manifests whose sessions can be resumed
  Policies,         \* canonical contents of the operator's policy file
  Granting,         \* the policies that grant what the release requests
  Modes,            \* the ways this installation is used
  None

AllModes == {"release", "file", "dev"}

ASSUME ConstantsAssumption ==
  /\ ReleaseArtifact \in Artifacts
  /\ ToolArtifacts \subseteq Artifacts
  /\ Checkpointed \subseteq Artifacts
  /\ Granting \subseteq Policies
  /\ Granting # {}
  /\ Modes \subseteq AllModes
  /\ None \notin Invocations \cup Artifacts \cup Policies \cup AllModes

VARIABLES
  sessions,   \* the sessions table: a merged JSON record per session
  snapshots,  \* the snapshots table: the stored manifest contents
  receipts,   \* the receipts table, keyed by execution
  lock,       \* the invocation that holds a session's file lock
  pc, run,    \* where each invocation is, and its local variables
  world       \* what the operator controls

store == <<sessions, snapshots, receipts>>
vars == <<sessions, snapshots, receipts, lock, pc, run, world>>

Statuses == {"prepared", "running", "completed", "failed"}

Session == [status: Statuses, exec: Invocations \cup {None},
            artifact: Artifacts, mode: AllModes]
NoSession == [status |-> "absent", exec |-> None, artifact |-> None, mode |-> None]

Receipt == [status: {"completed", "failed"}, session: Invocations,
            artifact: Artifacts, mode: AllModes, policy: Policies \cup {None}]
NoReceipt == [status |-> "absent", session |-> None, artifact |-> None,
              mode |-> None, policy |-> None]

Locals == [session: Invocations \cup {None}, artifact: Artifacts \cup {None},
           mode: AllModes \cup {None}, policy: Policies \cup {None},
           enforced: Policies \cup {None}, outcome: {"none", "ok", "error"},
           clean: BOOLEAN, started: BOOLEAN, late: BOOLEAN]
Idle == [session |-> None, artifact |-> None, mode |-> None, policy |-> None,
         enforced |-> None, outcome |-> "none", clean |-> TRUE,
         started |-> FALSE, late |-> FALSE]

World == [file: Artifacts, signed: BOOLEAN, revoked: BOOLEAN,
          approved: Granting, policy: Policies]

Locations == {"idle", "loaded", "snapshotted", "resuming", "ready", "locked",
              "running", "built", "invoking", "closing", "recording",
              "receipting", "unlocking", "done", "crashed"}

TypeOK ==
  /\ sessions \in [Invocations -> Session \cup {NoSession}]
  /\ snapshots \subseteq Artifacts
  /\ receipts \in [Invocations -> Receipt \cup {NoReceipt}]
  /\ lock \in [Invocations -> Invocations \cup {None}]
  /\ pc \in [Invocations -> Locations]
  /\ run \in [Invocations -> Locals]
  /\ world \in World

Init ==
  /\ sessions = [s \in Invocations |-> NoSession]
  /\ snapshots = {}
  /\ receipts = [e \in Invocations |-> NoReceipt]
  /\ lock = [s \in Invocations |-> None]
  /\ pc = [i \in Invocations |-> "idle"]
  /\ run = [i \in Invocations |-> Idle]
  /\ world \in {w \in World : w.signed /\ ~w.revoked /\ w.approved = w.policy}

GoTo(i, from, to) ==
  /\ pc[i] = from
  /\ pc' = [pc EXCEPT ![i] = to]

(***************************************************************************)
(* Authority: what a load of an artifact accepts at this instant.          *)
(***************************************************************************)

\* load_approved_release: trusted and unrevoked, under the policy on record.
ReleaseLoads == ~world.revoked /\ world.policy = world.approved

\* require_trusted_manifest: the sidecar verifies under an unrevoked key.
FileLoads == world.signed /\ ~world.revoked

\* What loading in mode m returns, as a set: empty when the load is refused.
Loaded(m) ==
  CASE m = "release" -> {a \in {ReleaseArtifact} : ReleaseLoads}
    [] m = "file"    -> {a \in {world.file} : FileLoads}
    [] m = "dev"     -> {world.file}

PolicyOf(m) == IF m = "release" THEN world.approved ELSE None

VerifyRootSkipped(i) == TRUE  \* mutant

\* The driver's own check, made when it is built and again when it executes:
\* a fresh load must still give the manifest the caller holds.
VerifyRoot(i) == run[i].mode = "dev" \/ run[i].artifact \in Loaded(run[i].mode)

\* Tools and credentials need a release (or explicit development mode).
CapabilityAllowed(m, a) == m # "file" \/ a \notin ToolArtifacts

(***************************************************************************)
(* A new run: load, store the snapshot, record the session as prepared.    *)
(***************************************************************************)

LoadNew(i) ==
  /\ pc[i] = "idle"
  /\ \E m \in Modes :
       \/ \E a \in Loaded(m) :
            /\ pc' = [pc EXCEPT ![i] = "loaded"]
            /\ run' = [run EXCEPT ![i] =
                 [@ EXCEPT !.mode = m, !.artifact = a, !.policy = PolicyOf(m)]]
       \/ /\ Loaded(m) = {}
          /\ pc' = [pc EXCEPT ![i] = "done"]
          /\ run' = [run EXCEPT ![i] =
               [@ EXCEPT !.mode = m, !.outcome = "error"]]
  /\ UNCHANGED <<store, lock, world>>

SnapshotOmitted(i) ==  \* mutant
  /\ GoTo(i, "loaded", "snapshotted")
  /\ UNCHANGED <<store, lock, run, world>>

Snapshot(i) ==
  /\ GoTo(i, "loaded", "snapshotted")
  /\ snapshots' = snapshots \cup {run[i].artifact}
  /\ UNCHANGED <<sessions, receipts, lock, run, world>>

Prepare(i) ==
  /\ GoTo(i, "snapshotted", "ready")
  /\ sessions' = [sessions EXCEPT ![i] =
       [status |-> "prepared", exec |-> None,
        artifact |-> run[i].artifact, mode |-> run[i].mode]]
  /\ run' = [run EXCEPT ![i].session = i]
  /\ UNCHANGED <<snapshots, receipts, lock, world>>

(***************************************************************************)
(* A resume: read the session, reload its artifact, compare, fetch the     *)
(* snapshot. All of it happens before the session's lock is taken.         *)
(***************************************************************************)

MayResumeAny(s, development) ==  \* mutant: no question of a checkpoint
  /\ sessions[s] # NoSession
  /\ (sessions[s].mode = "dev") = development

\* The caller states a development flag; it must be the session's own.
MayResume(s, development) ==
  /\ sessions[s].artifact \in Checkpointed
  /\ (sessions[s].mode = "dev") = development

ReadSession(i) ==
  /\ pc[i] = "idle"
  /\ \E s \in Invocations, development \in BOOLEAN :
       /\ IF MayResume(s, development)
          THEN /\ pc' = [pc EXCEPT ![i] = "resuming"]
               /\ run' = [run EXCEPT ![i] =
                    [@ EXCEPT !.session = s, !.artifact = sessions[s].artifact,
                              !.mode = sessions[s].mode]]
          ELSE /\ pc' = [pc EXCEPT ![i] = "done"]
               /\ run' = [run EXCEPT ![i].outcome = "error"]
  /\ UNCHANGED <<store, lock, world>>

ReloadWithoutDigest(i) ==  \* mutant: runs what the source gives now
  /\ pc[i] = "resuming"
  /\ \E a \in Loaded(run[i].mode) :
       /\ pc' = [pc EXCEPT ![i] = "ready"]
       /\ run' = [run EXCEPT ![i] =
            [@ EXCEPT !.artifact = a, !.policy = PolicyOf(run[i].mode)]]
  /\ UNCHANGED <<store, lock, world>>

\* The reloaded source must have the digest the session recorded.
SameArtifact(i) == run[i].artifact \in Loaded(run[i].mode)

Reload(i) ==
  /\ pc[i] = "resuming"
  /\ IF SameArtifact(i) /\ run[i].artifact \in snapshots
     THEN /\ pc' = [pc EXCEPT ![i] = "ready"]
          /\ run' = [run EXCEPT ![i].policy = PolicyOf(run[i].mode)]
     ELSE /\ pc' = [pc EXCEPT ![i] = "done"]
          /\ run' = [run EXCEPT ![i].outcome = "error"]
  /\ UNCHANGED <<store, lock, world>>

(***************************************************************************)
(* _execute and _execute_locked.                                           *)
(***************************************************************************)

LockFreeIgnored(s) == TRUE  \* mutant

LockFree(s) == lock[s] = None

\* The session lock is tried once: a busy session is an error, not a wait.
Acquire(i) ==
  /\ pc[i] = "ready"
  /\ IF LockFree(run[i].session)
     THEN /\ lock' = [lock EXCEPT ![run[i].session] = i]
          /\ pc' = [pc EXCEPT ![i] = "locked"]
          /\ UNCHANGED run
     ELSE /\ pc' = [pc EXCEPT ![i] = "done"]
          /\ run' = [run EXCEPT ![i].outcome = "error"]
          /\ UNCHANGED lock
  /\ UNCHANGED <<store, world>>

\* `started` and `late` are history, read by the properties only: that this
\* execution was recorded, and that the publisher's key was revoked by then.
RecordRunning(i) ==
  /\ GoTo(i, "locked", "running")
  /\ sessions' = [sessions EXCEPT ![run[i].session] =
       [@ EXCEPT !.status = "running", !.exec = i]]
  /\ run' = [run EXCEPT ![i] =
       [@ EXCEPT !.started = TRUE, !.late = world.revoked]]
  /\ UNCHANGED <<snapshots, receipts, lock, world>>

\* The driver closes itself when it raises; that cleanup may fail too, which
\* only adds a note to the error already on its way.
Raise(i) ==
  \E clean \in BOOLEAN :
    /\ pc' = [pc EXCEPT ![i] = "recording"]
    /\ run' = [run EXCEPT ![i] =
         [@ EXCEPT !.outcome = "error", !.clean = clean]]

\* The capability gate, the credential vault and the driver's constructor.
BuildDriver(i) ==
  /\ pc[i] = "running"
  /\ \/ /\ CapabilityAllowed(run[i].mode, run[i].artifact)
        /\ VerifyRoot(i)
        /\ pc' = [pc EXCEPT ![i] = "built"]
        /\ run' = [run EXCEPT ![i].enforced = PolicyOf(run[i].mode)]
     \/ Raise(i)
  /\ UNCHANGED <<store, lock, world>>

Revalidate(i) ==
  /\ pc[i] = "built"
  /\ IF VerifyRoot(i)
     THEN /\ pc' = [pc EXCEPT ![i] = "invoking"]
          /\ run' = [run EXCEPT ![i].enforced = PolicyOf(run[i].mode)]
     ELSE Raise(i)
  /\ UNCHANGED <<store, lock, world>>

\* The graph returns valid output, or raises, times out or fails its contract.
Invoke(i) ==
  /\ pc[i] = "invoking"
  /\ \/ /\ pc' = [pc EXCEPT ![i] = "closing"]
        /\ run' = [run EXCEPT ![i].outcome = "ok"]
     \/ Raise(i)
  /\ UNCHANGED <<store, lock, world>>

CloseDriverBestEffort(i) ==  \* mutant: the cleanup's error is dropped
  /\ GoTo(i, "closing", "recording")
  /\ run' \in {run, [run EXCEPT ![i].clean = FALSE]}
  /\ UNCHANGED <<store, lock, world>>

\* After a success the runner closes the driver; a failed close is an error.
CloseDriver(i) ==
  /\ GoTo(i, "closing", "recording")
  /\ \/ UNCHANGED run
     \/ run' = [run EXCEPT ![i] =
          [@ EXCEPT !.outcome = "error", !.clean = FALSE]]
  /\ UNCHANGED <<store, lock, world>>

FinalStatus(i) == IF run[i].outcome = "ok" THEN "completed" ELSE "failed"

RecordFinalCompleted(i) ==  \* mutant: the error does not reach the record
  /\ GoTo(i, "recording", "receipting")
  /\ sessions' = [sessions EXCEPT ![run[i].session].status = "completed"]
  /\ UNCHANGED <<snapshots, receipts, lock, run, world>>

RecordFinal(i) ==
  /\ GoTo(i, "recording", "receipting")
  /\ sessions' = [sessions EXCEPT ![run[i].session].status = FinalStatus(i)]
  /\ UNCHANGED <<snapshots, receipts, lock, run, world>>

WriteReceipt(i) ==
  /\ GoTo(i, "receipting", "unlocking")
  /\ receipts' = [receipts EXCEPT ![i] =
       [status |-> FinalStatus(i), session |-> run[i].session,
        artifact |-> run[i].artifact, mode |-> run[i].mode,
        policy |-> run[i].policy]]
  /\ UNCHANGED <<sessions, snapshots, lock, run, world>>

Unlock(i) ==
  /\ GoTo(i, "unlocking", "done")
  /\ lock' = [lock EXCEPT ![run[i].session] = None]
  /\ UNCHANGED <<store, run, world>>

(***************************************************************************)
(* Failures of the registry, and crashes.                                  *)
(***************************************************************************)

BeforeLock == {"loaded", "snapshotted", "resuming"}
Writing == {"locked", "recording", "receipting"}
Held == Writing \cup {"running", "built", "invoking", "closing", "unlocking"}

StoreFailsSilently(i) ==  \* mutant: the failed write is only logged
  /\ pc[i] \in BeforeLock \cup Writing
  /\ pc' = [pc EXCEPT ![i] = IF pc[i] \in Writing THEN "unlocking" ELSE "done"]
  /\ UNCHANGED <<store, lock, run, world>>

StoreFailsLocked(i) ==  \* mutant: the error path leaves the lock held
  /\ pc[i] \in BeforeLock \cup Writing
  /\ pc' = [pc EXCEPT ![i] = "done"]
  /\ run' = [run EXCEPT ![i].outcome = "error"]
  /\ UNCHANGED <<store, lock, world>>

\* A registry transaction raises (busy past 30 s, disk full) and rolls back.
StoreFails(i) ==
  /\ pc[i] \in BeforeLock \cup Writing
  /\ pc' = [pc EXCEPT ![i] = IF pc[i] \in Writing THEN "unlocking" ELSE "done"]
  /\ run' = [run EXCEPT ![i].outcome = "error"]
  /\ UNCHANGED <<store, lock, world>>

\* The process dies: its locals are lost and the kernel drops its file lock.
Crash(i) ==
  /\ pc[i] \notin {"idle", "done", "crashed"}
  /\ pc' = [pc EXCEPT ![i] = "crashed"]
  /\ lock' = [s \in Invocations |-> IF lock[s] = i THEN None ELSE lock[s]]
  /\ UNCHANGED <<store, run, world>>

(***************************************************************************)
(* The operator.                                                           *)
(***************************************************************************)

EditFile == \E a \in Artifacts \ {world.file} :
  world' = [world EXCEPT !.file = a, !.signed = FALSE]

SignFile == ~world.signed /\ world' = [world EXCEPT !.signed = TRUE]

RevokeKey == ~world.revoked /\ world' = [world EXCEPT !.revoked = TRUE]

EditPolicy == \E p \in Policies \ {world.policy} :
  world' = [world EXCEPT !.policy = p]

\* approve_release checks trust and that the policy grants the release.
Reapprove ==
  /\ ~world.revoked
  /\ world.policy \in Granting \ {world.approved}
  /\ world' = [world EXCEPT !.approved = world.policy]

Operator ==
  /\ EditFile \/ SignFile \/ RevokeKey \/ EditPolicy \/ Reapprove
  /\ UNCHANGED <<store, lock, pc, run>>

Begin(i) == LoadNew(i) \/ ReadSession(i)

Progress(i) ==
  \/ Snapshot(i) \/ Prepare(i) \/ Reload(i) \/ Acquire(i) \/ RecordRunning(i)
  \/ BuildDriver(i) \/ Revalidate(i) \/ Invoke(i) \/ CloseDriver(i)
  \/ RecordFinal(i) \/ WriteReceipt(i) \/ Unlock(i)

Next ==
  \/ \E i \in Invocations : Begin(i) \/ Progress(i) \/ StoreFails(i) \/ Crash(i)
  \/ Operator

Spec == Init /\ [][Next]_vars

(***************************************************************************)
(* Properties.                                                             *)
(***************************************************************************)

\* Two invocations never execute the same session at once, whatever they
\* read before locking: the checkpoint thread has one writer, from the
\* "running" record to the release of the lock (session.py execution_lock).
SingleExecution ==
  \A i, j \in Invocations :
    i # j /\ pc[i] \in Held /\ pc[j] \in Held => run[i].session # run[j].session

\* A recorded session can be reproduced: its manifest's snapshot was stored
\* first, so a crash between the two transactions leaves no session that
\* names a missing snapshot (runner.py run_manifest_file).
SnapshotBeforeSession ==
  \A s \in Invocations :
    sessions[s] # NoSession => sessions[s].artifact \in snapshots

\* Every execution of a session, the first and all its resumes, was of the
\* manifest and in the mode the session recorded, though the file on disk
\* may change and be signed again in between (runner.py _resume_session).
OneAuthority ==
  \A e \in Invocations :
    receipts[e] # NoReceipt =>
      LET session == sessions[receipts[e].session]
      IN  receipts[e].artifact = session.artifact /\ receipts[e].mode = session.mode

\* A session without a checkpoint executes at most once: only the run that
\* created it ever starts it (resume_supported, runner.py:119 and 292).
EphemeralRunsOnce ==
  \A i \in Invocations :
    run[i].started /\ run[i].artifact \notin Checkpointed => run[i].session = i

\* A session stays what it was recorded as: reproducible, of one manifest and
\* mode in all its executions, and executed once if it has no checkpoint.
SessionIntegrity == SnapshotBeforeSession /\ OneAuthority /\ EphemeralRunsOnce

\* The session's status and the receipt of its latest execution agree: no
\* other invocation writes in between, and the receipt is of that session.
StatusAgreesWithReceipt ==
  \A s \in Invocations :
    LET e == sessions[s].exec
    IN  e # None /\ receipts[e] # NoReceipt =>
          receipts[e].status = sessions[s].status /\ receipts[e].session = s

\* A "completed" receipt means the graph succeeded and its resources were
\* confirmed released: a failed close turns a success into a failure.
CompletedIsClean ==
  \A e \in Invocations :
    receipts[e].status = "completed" => run[e].outcome = "ok" /\ run[e].clean

\* Once a key is revoked, no execution recorded later reaches the model,
\* although a resume checked trust before it waited for nothing and locked:
\* the driver loads again, twice (deepagents_runner.py _verify_root).
RevocationStopsLaterRuns ==
  \A i \in Invocations :
    run[i].late /\ run[i].mode # "dev" =>
      pc[i] \notin {"invoking", "closing"} /\ receipts[i].status # "completed"

\* Success is never reported to the caller without its durable evidence.
ReportedSuccessIsRecorded ==
  \A i \in Invocations :
    pc[i] = "done" /\ run[i].outcome = "ok" => receipts[i].status = "completed"

\* Success and its evidence come together: no completed receipt without a clean
\* success, and no success told to the caller without a completed receipt.
SuccessHasEvidence == CompletedIsClean /\ ReportedSuccessIsRecorded

\* Only an invocation that is executing holds a session's lock: the runner's
\* own path, every error path and the death of a process have released it, so
\* that no session stays busy for ever (session.py execution_lock).
NoAbandonedLock == \A s \in Invocations : lock[s] # None => pc[lock[s]] \in Held

\* The receipt names the policy under which the driver let the run execute,
\* as docs/RELEASES.md says: "Execution receipts identify the release, exact
\* entry manifest, approved policy digest".
ReceiptNamesPolicyInForce ==
  \A e \in Invocations :
    receipts[e].status = "completed" => receipts[e].policy = run[e].enforced

\* The executions of this store form an execution log.
Executing == {"running", "built", "invoking", "closing", "recording", "receipting"}
LogState(e) ==
  CASE receipts[e] # NoReceipt -> receipts[e].status
    [] receipts[e] = NoReceipt /\ ~run[e].started -> "none"
    [] receipts[e] = NoReceipt /\ run[e].started ->
         IF pc[e] \in Executing THEN "open" ELSE "lost"
Log == INSTANCE ExecutionLog WITH
  Executions <- Invocations,
  session <- [e \in Invocations |-> IF run[e].started THEN run[e].session ELSE None],
  state <- [e \in Invocations |-> LogState(e)]

\* What the runner promises its callers and auditors: every execution is
\* opened while no other of its session is open, and closed at most once.
ImplementsLog == Log!Spec
=============================================================================
