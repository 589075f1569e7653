------------------------- MODULE AgentRunner_proofs -------------------------
(***************************************************************************)
(* Proofs about AgentRunner, for every set of invocations, manifests and   *)
(* policies.                                                               *)
(***************************************************************************)
EXTENDS AgentRunner, TLAPS

\* An invocation past "ready" works for a recorded session, whose manifest
\* and mode are its own.
BoundToSession(i) ==
  /\ run[i].session \in Invocations
  /\ sessions[run[i].session] # NoSession
  /\ run[i].artifact = sessions[run[i].session].artifact
  /\ run[i].mode = sessions[run[i].session].mode

Bound == \A i \in Invocations :
  pc[i] \in Held \cup {"resuming", "ready"} => BoundToSession(i)

\* A session is created by the invocation it is named after, once.
Fresh == \A i \in Invocations :
  pc[i] \in {"idle", "loaded", "snapshotted"} => sessions[i] = NoSession

\* Between load and record the manifest and the mode are known.
Selected == \A i \in Invocations :
  pc[i] \in {"loaded", "snapshotted"} =>
    run[i].artifact \in Artifacts /\ run[i].mode \in AllModes

\* Whoever executes a session holds its lock.
LockHeld == \A i \in Invocations :
  pc[i] \in Held => lock[run[i].session] = i

IInv == TypeOK /\ Bound /\ Fresh /\ Selected /\ LockHeld

LEMMA LoadedType ==
  ASSUME TypeOK, NEW m \in AllModes, NEW a \in Loaded(m)
  PROVE  a \in Artifacts
BY ConstantsAssumption DEF TypeOK, World, Loaded, AllModes

LEMMA PolicyOfType ==
  ASSUME TypeOK, NEW m
  PROVE  PolicyOf(m) \in Policies \cup {None}
BY ConstantsAssumption DEF TypeOK, World, PolicyOf

LEMMA InitIInv == Init => IInv
<1> SUFFICES ASSUME Init PROVE IInv
  OBVIOUS
<1>1. TypeOK
  BY DEF Init, TypeOK, World, Session, Receipt, Locals, Idle, Locations
<1>2. Bound /\ Fresh /\ Selected /\ LockHeld
  BY DEF Init, Bound, Fresh, Selected, LockHeld, Held, Writing
<1> QED
  BY <1>1, <1>2 DEF IInv

\* Most steps change the location and the locals of one invocation and nothing
\* that is shared: what they owe is a fact about that invocation alone.
LEMMA LocalStep ==
  ASSUME IInv, NEW i \in Invocations, NEW l \in Locations \ {"idle"},
         NEW r \in Locals,
         pc' = [pc EXCEPT ![i] = l], run' = [run EXCEPT ![i] = r],
         UNCHANGED <<store, lock, world>>,
         l \in {"loaded", "snapshotted"} =>
           /\ pc[i] \in {"idle", "loaded", "snapshotted"}
           /\ r.artifact \in Artifacts /\ r.mode \in AllModes,
         l \in Held \cup {"resuming", "ready"} =>
           /\ r.session \in Invocations
           /\ sessions[r.session] # NoSession
           /\ r.artifact = sessions[r.session].artifact
           /\ r.mode = sessions[r.session].mode,
         l \in Held => lock[r.session] = i
  PROVE  IInv'
<1>1. /\ pc'[i] = l /\ run'[i] = r
      /\ \A j \in Invocations \ {i} : pc'[j] = pc[j] /\ run'[j] = run[j]
      /\ UNCHANGED <<sessions, snapshots, receipts, lock, world>>
  BY DEF IInv, TypeOK, store
<1>2. TypeOK'
  BY <1>1 DEF IInv, TypeOK
<1>3. Bound' /\ LockHeld'
  BY <1>1 DEF IInv, Bound, BoundToSession, LockHeld
<1>4. Fresh' /\ Selected'
  BY <1>1 DEF IInv, Fresh, Selected
<1> QED
  BY <1>2, <1>3, <1>4 DEF IInv

\* A location moves within a run that keeps its session, manifest and mode.
LEMMA BoundStep ==
  ASSUME IInv, NEW i \in Invocations, NEW l \in Locations \ {"idle", "loaded", "snapshotted"},
         NEW r \in Locals,
         pc[i] \in Held \cup {"resuming", "ready"},
         l \in Held => pc[i] \in Held,
         pc' = [pc EXCEPT ![i] = l], run' = [run EXCEPT ![i] = r],
         UNCHANGED <<store, lock, world>>,
         r.session = run[i].session, r.artifact = run[i].artifact, r.mode = run[i].mode
  PROVE  IInv'
<1>1. BoundToSession(i) /\ (pc[i] \in Held => lock[run[i].session] = i)
  BY DEF IInv, Bound, LockHeld
<1> QED
  BY <1>1, LocalStep DEF BoundToSession

LEMMA StepIInv == IInv /\ [Next]_vars => IInv'
<1> SUFFICES ASSUME IInv, [Next]_vars PROVE IInv'
  OBVIOUS
<1>t. TypeOK
  BY DEF IInv
<1>1. ASSUME NEW i \in Invocations, LoadNew(i) PROVE IInv'
  <2>1. PICK m \in Modes :
          \/ \E a \in Loaded(m) :
               /\ pc' = [pc EXCEPT ![i] = "loaded"]
               /\ run' = [run EXCEPT ![i] =
                     [@ EXCEPT !.mode = m, !.artifact = a, !.policy = PolicyOf(m)]]
          \/ /\ pc' = [pc EXCEPT ![i] = "done"]
             /\ run' = [run EXCEPT ![i] = [@ EXCEPT !.mode = m, !.outcome = "error"]]
    BY <1>1 DEF LoadNew
  <2>2. m \in AllModes
    BY ConstantsAssumption
  <2>3. pc[i] = "idle" /\ UNCHANGED <<store, lock, world>> /\ run[i] \in Locals
    BY <1>1, <1>t DEF LoadNew, TypeOK
  <2>4. ASSUME NEW a \in Loaded(m),
               pc' = [pc EXCEPT ![i] = "loaded"],
               run' = [run EXCEPT ![i] =
                 [@ EXCEPT !.mode = m, !.artifact = a, !.policy = PolicyOf(m)]]
        PROVE  IInv'
    <3> DEFINE r == [run[i] EXCEPT !.mode = m, !.artifact = a, !.policy = PolicyOf(m)]
    <3>1. a \in Artifacts /\ PolicyOf(m) \in Policies \cup {None}
      BY <1>t, <2>2, LoadedType, PolicyOfType
    <3>2. r \in Locals /\ r.artifact \in Artifacts /\ r.mode \in AllModes
      BY <2>2, <2>3, <3>1 DEF Locals
    <3>3. run' = [run EXCEPT ![i] = r]
      BY <2>4
    <3> HIDE DEF r
    <3> QED
      BY <2>3, <2>4, <3>2, <3>3, LocalStep DEF Locations, Held, Writing
  <2>5. ASSUME pc' = [pc EXCEPT ![i] = "done"],
               run' = [run EXCEPT ![i] = [@ EXCEPT !.mode = m, !.outcome = "error"]]
        PROVE  IInv'
    <3> DEFINE r == [run[i] EXCEPT !.mode = m, !.outcome = "error"]
    <3>1. r \in Locals
      BY <2>2, <2>3 DEF Locals
    <3>2. run' = [run EXCEPT ![i] = r]
      BY <2>5
    <3> HIDE DEF r
    <3> QED
      BY <2>3, <2>5, <3>1, <3>2, LocalStep DEF Locations, Held, Writing
  <2> QED
    BY <2>1, <2>4, <2>5
<1>2. ASSUME NEW i \in Invocations, ReadSession(i) PROVE IInv'
  <2>1. PICK s \in Invocations, development \in BOOLEAN :
          IF MayResume(s, development)
          THEN /\ pc' = [pc EXCEPT ![i] = "resuming"]
               /\ run' = [run EXCEPT ![i] =
                    [@ EXCEPT !.session = s, !.artifact = sessions[s].artifact,
                              !.mode = sessions[s].mode]]
          ELSE /\ pc' = [pc EXCEPT ![i] = "done"]
               /\ run' = [run EXCEPT ![i].outcome = "error"]
    BY <1>2 DEF ReadSession
  <2>2. pc[i] = "idle" /\ UNCHANGED <<store, lock, world>> /\ run[i] \in Locals
    BY <1>2, <1>t DEF ReadSession, TypeOK
  <2>3. CASE MayResume(s, development)
    <3> DEFINE r == [run[i] EXCEPT !.session = s, !.artifact = sessions[s].artifact,
                                   !.mode = sessions[s].mode]
    <3>1. sessions[s] # NoSession
      BY <2>3, ConstantsAssumption DEF MayResume, NoSession
    <3>2. sessions[s] \in Session
      BY <3>1, <1>t DEF TypeOK
    <3>3. sessions[s].artifact \in Artifacts /\ sessions[s].mode \in AllModes
      BY <3>2 DEF Session
    <3>4. r \in Locals /\ r.session = s /\ r.artifact = sessions[s].artifact
                       /\ r.mode = sessions[s].mode
      BY <2>2, <3>3 DEF Locals
    <3>5. pc' = [pc EXCEPT ![i] = "resuming"] /\ run' = [run EXCEPT ![i] = r]
      BY <2>1, <2>3
    <3> HIDE DEF r
    <3> QED
      BY <2>2, <3>1, <3>4, <3>5, LocalStep DEF Locations, Held, Writing
  <2>4. CASE ~MayResume(s, development)
    <3> DEFINE r == [run[i] EXCEPT !.outcome = "error"]
    <3>1. r \in Locals
      BY <2>2 DEF Locals
    <3>2. pc' = [pc EXCEPT ![i] = "done"] /\ run' = [run EXCEPT ![i] = r]
      BY <2>1, <2>4
    <3> HIDE DEF r
    <3> QED
      BY <2>2, <3>1, <3>2, LocalStep DEF Locations, Held, Writing
  <2> QED
    BY <2>3, <2>4
<1>3. ASSUME NEW i \in Invocations, Snapshot(i) PROVE IInv'
  BY <1>3 DEF IInv, Snapshot, GoTo, TypeOK, Locations, Bound, BoundToSession, Fresh, Selected, LockHeld, Held, Writing
<1>4. ASSUME NEW i \in Invocations, Prepare(i) PROVE IInv'
  <2>1. /\ pc[i] = "snapshotted" /\ pc' = [pc EXCEPT ![i] = "ready"]
        /\ run[i].artifact \in Artifacts /\ run[i].mode \in AllModes
        /\ sessions[i] = NoSession
        /\ UNCHANGED <<snapshots, receipts, lock, world>>
    BY <1>4 DEF Prepare, GoTo, IInv, Selected, Fresh
  <2> DEFINE new == [status |-> "prepared", exec |-> None,
                     artifact |-> run[i].artifact, mode |-> run[i].mode]
             r == [run[i] EXCEPT !.session = i]
  <2>2. new \in Session /\ new # NoSession
    BY <2>1 DEF Session, Statuses, NoSession
  <2>3. r \in Locals /\ r.session = i /\ r.artifact = new.artifact /\ r.mode = new.mode
    BY <1>t DEF TypeOK, Locals
  <2>4. sessions' = [sessions EXCEPT ![i] = new] /\ run' = [run EXCEPT ![i] = r]
    BY <1>4 DEF Prepare
  <2> HIDE DEF new, r
  <2>5. TypeOK'
    BY <1>t, <2>1, <2>2, <2>3, <2>4 DEF TypeOK, Locations
  <2>6. (Bound /\ LockHeld)'
    BY <1>t, <2>1, <2>2, <2>3, <2>4 DEF IInv, TypeOK, Bound, BoundToSession, LockHeld, Held, Writing
  <2>7. (Fresh /\ Selected)'
    BY <1>t, <2>1, <2>3, <2>4 DEF IInv, TypeOK, Fresh, Selected
  <2> QED
    BY <2>5, <2>6, <2>7 DEF IInv
<1>5. ASSUME NEW i \in Invocations, Reload(i) PROVE IInv'
  <2> DEFINE r == [run[i] EXCEPT !.policy = PolicyOf(run[i].mode)]
             q == [run[i] EXCEPT !.outcome = "error"]
  <2>1. r \in Locals /\ r.session = run[i].session /\ r.artifact = run[i].artifact
                     /\ r.mode = run[i].mode
    BY <1>t, PolicyOfType DEF TypeOK, Locals
  <2>2. q \in Locals
    BY <1>t DEF TypeOK, Locals
  <2>3. /\ pc[i] = "resuming" /\ UNCHANGED <<store, lock, world>>
        /\ \/ pc' = [pc EXCEPT ![i] = "ready"] /\ run' = [run EXCEPT ![i] = r]
           \/ pc' = [pc EXCEPT ![i] = "done"] /\ run' = [run EXCEPT ![i] = q]
    BY <1>5 DEF Reload
  <2> HIDE DEF r, q
  <2>4. CASE pc' = [pc EXCEPT ![i] = "ready"] /\ run' = [run EXCEPT ![i] = r]
    BY <2>1, <2>3, <2>4, BoundStep DEF Locations, Held, Writing
  <2>5. CASE pc' = [pc EXCEPT ![i] = "done"] /\ run' = [run EXCEPT ![i] = q]
    BY <2>2, <2>3, <2>5, LocalStep DEF Locations, Held, Writing
  <2> QED
    BY <2>3, <2>4, <2>5
<1>6. ASSUME NEW i \in Invocations, Acquire(i) PROVE IInv'
  <2>1. CASE LockFree(run[i].session)
    BY <1>6, <2>1, ConstantsAssumption
    DEF Acquire, store, LockFree, IInv, TypeOK, Locations, Bound, BoundToSession, Fresh, Selected, LockHeld, Held, Writing
  <2>2. CASE ~LockFree(run[i].session)
    <3> DEFINE q == [run[i] EXCEPT !.outcome = "error"]
    <3>1. q \in Locals
      BY <1>t DEF TypeOK, Locals
    <3>2. pc[i] = "ready" /\ pc' = [pc EXCEPT ![i] = "done"] /\ run' = [run EXCEPT ![i] = q]
          /\ UNCHANGED <<store, lock, world>>
      BY <1>6, <2>2 DEF Acquire
    <3> HIDE DEF q
    <3> QED
      BY <3>1, <3>2, LocalStep DEF Locations, Held, Writing
  <2> QED
    BY <2>1, <2>2
<1>7. ASSUME NEW i \in Invocations, RecordRunning(i) PROVE IInv'
  <2> DEFINE r == [run[i] EXCEPT !.started = TRUE, !.late = world.revoked]
             e == [sessions[run[i].session] EXCEPT !.status = "running", !.exec = i]
  <2>1. /\ pc[i] = "locked" /\ pc' = [pc EXCEPT ![i] = "running"]
        /\ sessions' = [sessions EXCEPT ![run[i].session] = e]
        /\ run' = [run EXCEPT ![i] = r]
        /\ UNCHANGED <<snapshots, receipts, lock, world>>
    BY <1>7 DEF RecordRunning, GoTo
  <2>2. run[i].session \in Invocations /\ sessions[run[i].session] \in Session
    BY <1>t, <2>1 DEF IInv, TypeOK, Bound, BoundToSession, Held, Writing
  <2>3. /\ e \in Session /\ e # NoSession
        /\ e.artifact = sessions[run[i].session].artifact
        /\ e.mode = sessions[run[i].session].mode
    BY <2>2 DEF Session, Statuses, NoSession
  <2>4. r \in Locals /\ r.session = run[i].session /\ r.artifact = run[i].artifact
                     /\ r.mode = run[i].mode
    <3>1. world.revoked \in BOOLEAN /\ run[i] \in Locals
      BY <1>t DEF TypeOK, World
    <3> QED
      BY <3>1 DEF Locals
  <2> HIDE DEF r, e
  <2>5. TypeOK'
    BY <1>t, <2>1, <2>2, <2>3, <2>4 DEF TypeOK, Locations
  <2>6. (Bound /\ LockHeld)'
    BY <1>t, <2>1, <2>2, <2>3, <2>4 DEF IInv, TypeOK, Bound, BoundToSession, LockHeld, Held, Writing
  <2>7. \A j \in Invocations : sessions'[j] = NoSession <=> sessions[j] = NoSession
    BY <1>t, <2>1, <2>2, <2>3 DEF TypeOK, Session, NoSession, Statuses
  <2>8. (Fresh /\ Selected)'
    BY <1>t, <2>1, <2>4, <2>7 DEF IInv, TypeOK, Fresh, Selected
  <2> QED
    BY <2>5, <2>6, <2>8 DEF IInv
<1>8. ASSUME NEW i \in Invocations, pc[i] \in {"running", "built", "invoking"},
             Raise(i), UNCHANGED <<store, lock, world>>
      PROVE  IInv'
  <2>1. PICK clean \in BOOLEAN :
          /\ pc' = [pc EXCEPT ![i] = "recording"]
          /\ run' = [run EXCEPT ![i] = [@ EXCEPT !.outcome = "error", !.clean = clean]]
    BY <1>8 DEF Raise
  <2> DEFINE r == [run[i] EXCEPT !.outcome = "error", !.clean = clean]
  <2>2. r \in Locals /\ r.session = run[i].session /\ r.artifact = run[i].artifact
                     /\ r.mode = run[i].mode
    BY <1>t DEF TypeOK, Locals
  <2>3. run' = [run EXCEPT ![i] = r]
    BY <2>1
  <2> HIDE DEF r
  <2> QED
    BY <1>8, <2>1, <2>2, <2>3, BoundStep DEF Locations, Held, Writing
<1>9. ASSUME NEW i \in Invocations, BuildDriver(i) \/ Revalidate(i) PROVE IInv'
  <2> DEFINE r == [run[i] EXCEPT !.enforced = PolicyOf(run[i].mode)]
  <2>1. r \in Locals /\ r.session = run[i].session /\ r.artifact = run[i].artifact
                     /\ r.mode = run[i].mode
    BY <1>t, PolicyOfType DEF TypeOK, Locals
  <2>2. pc[i] \in {"running", "built"} /\ UNCHANGED <<store, lock, world>>
    BY <1>9 DEF BuildDriver, Revalidate
  <2>3. \/ Raise(i)
        \/ \E l \in {"built", "invoking"} :
             pc' = [pc EXCEPT ![i] = l] /\ run' = [run EXCEPT ![i] = r]
    BY <1>9 DEF BuildDriver, Revalidate
  <2> HIDE DEF r
  <2>4. ASSUME NEW l \in {"built", "invoking"},
               pc' = [pc EXCEPT ![i] = l], run' = [run EXCEPT ![i] = r]
        PROVE  IInv'
    BY <2>1, <2>2, <2>4, BoundStep DEF Locations, Held, Writing
  <2> QED
    BY <1>8, <2>2, <2>3, <2>4
<1>10. ASSUME NEW i \in Invocations, Invoke(i) PROVE IInv'
  <2> DEFINE r == [run[i] EXCEPT !.outcome = "ok"]
  <2>1. r \in Locals /\ r.session = run[i].session /\ r.artifact = run[i].artifact
                     /\ r.mode = run[i].mode
    BY <1>t DEF TypeOK, Locals
  <2>2. /\ pc[i] = "invoking" /\ UNCHANGED <<store, lock, world>>
        /\ \/ Raise(i)
           \/ pc' = [pc EXCEPT ![i] = "closing"] /\ run' = [run EXCEPT ![i] = r]
    BY <1>10 DEF Invoke
  <2> HIDE DEF r
  <2>3. CASE pc' = [pc EXCEPT ![i] = "closing"] /\ run' = [run EXCEPT ![i] = r]
    BY <2>1, <2>2, <2>3, BoundStep DEF Locations, Held, Writing
  <2> QED
    BY <1>8, <2>2, <2>3
<1>11. ASSUME NEW i \in Invocations, CloseDriver(i) PROVE IInv'
  <2> DEFINE r == [run[i] EXCEPT !.outcome = "error", !.clean = FALSE]
  <2>1. r \in Locals /\ r.session = run[i].session /\ r.artifact = run[i].artifact
                     /\ r.mode = run[i].mode
    BY <1>t DEF TypeOK, Locals
  <2>2. run[i] \in Locals /\ run = [run EXCEPT ![i] = run[i]]
    BY <1>t DEF TypeOK
  <2>3. /\ pc[i] = "closing" /\ pc' = [pc EXCEPT ![i] = "recording"]
        /\ UNCHANGED <<store, lock, world>>
        /\ \/ run' = [run EXCEPT ![i] = r]
           \/ run' = [run EXCEPT ![i] = run[i]]
    BY <1>11, <2>2 DEF CloseDriver, GoTo
  <2> HIDE DEF r
  <2> QED
    BY <2>1, <2>2, <2>3, BoundStep DEF Locations, Held, Writing
<1>12. ASSUME NEW i \in Invocations, RecordFinal(i) PROVE IInv'
  <2> DEFINE e == [sessions[run[i].session] EXCEPT !.status = FinalStatus(i)]
  <2>1. /\ pc[i] = "recording" /\ pc' = [pc EXCEPT ![i] = "receipting"]
        /\ sessions' = [sessions EXCEPT ![run[i].session] = e]
        /\ UNCHANGED <<snapshots, receipts, lock, run, world>>
    BY <1>12 DEF RecordFinal, GoTo
  <2>2. run[i].session \in Invocations /\ sessions[run[i].session] \in Session
    BY <1>t, <2>1 DEF IInv, TypeOK, Bound, BoundToSession, Held, Writing
  <2>3. /\ e \in Session /\ e # NoSession
        /\ e.artifact = sessions[run[i].session].artifact
        /\ e.mode = sessions[run[i].session].mode
    BY <2>2 DEF Session, Statuses, NoSession, FinalStatus
  <2> HIDE DEF e
  <2>5. TypeOK'
    BY <1>t, <2>1, <2>2, <2>3 DEF TypeOK, Locations
  <2>6. (Bound /\ LockHeld)'
    BY <1>t, <2>1, <2>2, <2>3 DEF IInv, TypeOK, Bound, BoundToSession, LockHeld, Held, Writing
  <2>7. \A j \in Invocations : sessions'[j] = NoSession <=> sessions[j] = NoSession
    BY <1>t, <2>1, <2>2, <2>3 DEF TypeOK, Session, NoSession, Statuses
  <2>8. (Fresh /\ Selected)'
    BY <1>t, <2>1, <2>7 DEF IInv, TypeOK, Fresh, Selected
  <2> QED
    BY <2>5, <2>6, <2>8 DEF IInv
<1>13. ASSUME NEW i \in Invocations, WriteReceipt(i) PROVE IInv'
  <2>1. pc[i] = "receipting" /\ pc' = [pc EXCEPT ![i] = "unlocking"]
        /\ UNCHANGED <<sessions, snapshots, lock, run, world>>
    BY <1>13 DEF WriteReceipt, GoTo
  <2>2. run[i].session \in Invocations /\ sessions[run[i].session] \in Session
        /\ run[i].artifact = sessions[run[i].session].artifact
        /\ run[i].mode = sessions[run[i].session].mode
    BY <1>t, <2>1 DEF IInv, TypeOK, Bound, BoundToSession, Held, Writing
  <2>3. receipts' \in [Invocations -> Receipt \cup {NoReceipt}]
    BY <1>t, <1>13, <2>2 DEF WriteReceipt, FinalStatus, TypeOK, Locals, Session, Receipt
  <2>4. TypeOK'
    BY <1>t, <2>1, <2>3 DEF TypeOK, Locations
  <2> QED
    BY <1>t, <2>1, <2>4 DEF IInv, TypeOK, Bound, BoundToSession, Fresh, Selected, LockHeld, Held, Writing
<1>14. ASSUME NEW i \in Invocations, Unlock(i) PROVE IInv'
  BY <1>14 DEF Unlock, GoTo, store, IInv, TypeOK, Locations, Bound, BoundToSession, Fresh, Selected, LockHeld, Held, Writing
<1>15. ASSUME NEW i \in Invocations, StoreFails(i) PROVE IInv'
  <2> DEFINE r == [run[i] EXCEPT !.outcome = "error"]
             l == IF pc[i] \in Writing THEN "unlocking" ELSE "done"
  <2>1. r \in Locals /\ r.session = run[i].session /\ r.artifact = run[i].artifact
                     /\ r.mode = run[i].mode
    BY <1>t DEF TypeOK, Locals
  <2>2. /\ pc[i] \in BeforeLock \cup Writing
        /\ pc' = [pc EXCEPT ![i] = l] /\ run' = [run EXCEPT ![i] = r]
        /\ UNCHANGED <<store, lock, world>>
    BY <1>15 DEF StoreFails
  <2> HIDE DEF r
  <2>3. CASE pc[i] \in Writing
    BY <2>1, <2>2, <2>3, BoundStep DEF Locations, Held, Writing
  <2>4. CASE pc[i] \notin Writing
    BY <2>1, <2>2, <2>4, LocalStep DEF Locations, Held, Writing
  <2> QED
    BY <2>3, <2>4
<1>16. ASSUME NEW i \in Invocations, Crash(i) PROVE IInv'
  BY <1>16 DEF Crash, store, IInv, TypeOK, Locations, Bound, BoundToSession, Fresh, Selected, LockHeld, Held, Writing
<1>17. CASE Operator
  <2>1. UNCHANGED <<sessions, snapshots, receipts, lock, pc, run>> /\ world' \in World
    BY <1>17, <1>t DEF Operator, EditFile, SignFile, RevokeKey, EditPolicy, Reapprove, store, TypeOK, World
  <2> QED
    BY <2>1 DEF IInv, TypeOK, Bound, BoundToSession, Fresh, Selected, LockHeld
<1>18. CASE UNCHANGED vars
  BY <1>18 DEF vars, IInv, TypeOK, Bound, BoundToSession, Fresh, Selected, LockHeld
<1> QED
  BY <1>1, <1>2, <1>3, <1>4, <1>5, <1>6, <1>7, <1>9, <1>10, <1>11, <1>12, <1>13,
     <1>14, <1>15, <1>16, <1>17, <1>18 DEF Next, Begin, Progress

LEMMA IInvAlways == Spec => []IInv
BY InitIInv, StepIInv, PTL DEF Spec

\* Type correctness of the session registry and of its invocations.
THEOREM TypeCorrect == Spec => []TypeOK
BY IInvAlways, PTL DEF IInv

\* No two invocations execute one session at once.
THEOREM SingleExecutionAlways == Spec => []SingleExecution
<1>1. IInv => SingleExecution
  BY DEF IInv, LockHeld, SingleExecution
<1> QED BY <1>1, IInvAlways, PTL
-----------------------------------------------------------------------------
(***************************************************************************)
(* What an invocation did, and what the registry keeps of it.              *)
(***************************************************************************)

\* Until it records its execution, an invocation has started nothing.
Unrecorded == {"idle", "loaded", "snapshotted", "resuming", "ready", "locked"}

\* After the driver's second check only an unrevoked run is invoked.
Passing == {"invoking", "closing"}

\* Where an invocation is tells what it has recorded and decided.
Stage(i) ==
  /\ pc[i] \in Unrecorded => ~run[i].started
  /\ pc[i] \in Executing => run[i].started
  /\ pc[i] \in Unrecorded \cup {"running", "built", "invoking"} =>
       run[i].outcome = "none" /\ run[i].clean
  /\ run[i].outcome = "ok" => run[i].clean
  /\ run[i].started => BoundToSession(i)

\* An execution recorded after the revocation never passes the driver.
Refused(i) ==
  /\ run[i].late => run[i].started /\ world.revoked
  /\ run[i].late /\ run[i].mode # "dev" =>
       pc[i] \notin Passing /\ run[i].outcome # "ok"

\* Only the run that created it executes a session without a checkpoint.
Owns(i) ==
  /\ pc[i] = "resuming" => run[i].artifact \in Checkpointed
  /\ pc[i] \in Held \cup {"ready"} \/ run[i].started =>
       run[i].artifact \in Checkpointed \/ run[i].session = i

\* A receipt is the last thing an execution writes, and it says what it did.
Receipted(i) ==
  /\ receipts[i] # NoReceipt =>
       /\ run[i].started
       /\ pc[i] \in {"unlocking", "done", "crashed"}
       /\ receipts[i].status = FinalStatus(i)
       /\ receipts[i].session = run[i].session
       /\ receipts[i].artifact = run[i].artifact
       /\ receipts[i].mode = run[i].mode
  /\ pc[i] \in {"unlocking", "done"} /\ run[i].outcome = "ok" =>
       receipts[i] # NoReceipt

Accounted == \A i \in Invocations :
  Stage(i) /\ Refused(i) /\ Owns(i) /\ Receipted(i)

\* A manifest is stored before the session that names it.
Stored == SnapshotBeforeSession /\ \A i \in Invocations :
  pc[i] = "snapshotted" => run[i].artifact \in snapshots

\* A lock is held by an execution of its session.
LockOwned == \A s \in Invocations :
  lock[s] # None => pc[lock[s]] \in Held /\ run[lock[s]].session = s

\* A session names its latest execution; its status is that execution's.
Latest ==
  /\ \A s \in Invocations : sessions[s].exec # None =>
       run[sessions[s].exec].started /\ run[sessions[s].exec].session = s
  /\ \A i \in Invocations : pc[i] \in Executing =>
       sessions[run[i].session].exec = i
  /\ \A i \in Invocations : pc[i] = "receipting" =>
       sessions[run[i].session].status = FinalStatus(i)

JInv == IInv /\ Accounted /\ Stored /\ LockOwned /\ Latest /\ StatusAgreesWithReceipt

Moves(i) == Begin(i) \/ Progress(i) \/ StoreFails(i) \/ Crash(i)

\* A run or a resume begins with what it is about, or is refused at once.
LEMMA BeginStep ==
  ASSUME IInv, NEW i \in Invocations, Begin(i)
  PROVE  /\ pc[i] = "idle"
         /\ pc'[i] \in {"loaded", "resuming", "done"}
         /\ run'[i].started = run[i].started
         /\ run'[i].late = run[i].late
         /\ run'[i].clean = run[i].clean
         /\ run'[i].outcome = IF pc'[i] = "done" THEN "error" ELSE run[i].outcome
         /\ pc'[i] = "resuming" => run'[i].artifact \in Checkpointed
<1>0. i \in DOMAIN pc /\ i \in DOMAIN run /\ run[i] \in Locals
  BY DEF IInv, TypeOK
<1>1. CASE LoadNew(i)
  <2>1. pc[i] = "idle"
    BY <1>1 DEF LoadNew
  <2>2. PICK m \in Modes :
          \/ \E a \in Loaded(m) :
               /\ pc' = [pc EXCEPT ![i] = "loaded"]
               /\ run' = [run EXCEPT ![i] =
                     [@ EXCEPT !.mode = m, !.artifact = a, !.policy = PolicyOf(m)]]
          \/ /\ pc' = [pc EXCEPT ![i] = "done"]
             /\ run' = [run EXCEPT ![i] = [@ EXCEPT !.mode = m, !.outcome = "error"]]
    BY <1>1 DEF LoadNew
  <2>3. CASE \E a \in Loaded(m) :
               /\ pc' = [pc EXCEPT ![i] = "loaded"]
               /\ run' = [run EXCEPT ![i] =
                     [@ EXCEPT !.mode = m, !.artifact = a, !.policy = PolicyOf(m)]]
    BY <1>0, <2>1, <2>3 DEF Locals
  <2>4. CASE /\ pc' = [pc EXCEPT ![i] = "done"]
             /\ run' = [run EXCEPT ![i] = [@ EXCEPT !.mode = m, !.outcome = "error"]]
    BY <1>0, <2>1, <2>4 DEF Locals
  <2> QED
    BY <2>2, <2>3, <2>4
<1>2. CASE ReadSession(i)
  <2>1. pc[i] = "idle"
    BY <1>2 DEF ReadSession
  <2>2. PICK s \in Invocations, development \in BOOLEAN :
          IF MayResume(s, development)
          THEN /\ pc' = [pc EXCEPT ![i] = "resuming"]
               /\ run' = [run EXCEPT ![i] =
                    [@ EXCEPT !.session = s, !.artifact = sessions[s].artifact,
                              !.mode = sessions[s].mode]]
          ELSE /\ pc' = [pc EXCEPT ![i] = "done"]
               /\ run' = [run EXCEPT ![i].outcome = "error"]
    BY <1>2 DEF ReadSession
  <2>3. CASE MayResume(s, development)
    <3>1. /\ pc' = [pc EXCEPT ![i] = "resuming"]
          /\ run' = [run EXCEPT ![i] =
               [@ EXCEPT !.session = s, !.artifact = sessions[s].artifact,
                         !.mode = sessions[s].mode]]
          /\ sessions[s].artifact \in Checkpointed
      BY <2>2, <2>3 DEF MayResume
    <3> QED
      BY <1>0, <2>1, <3>1 DEF Locals
  <2>4. CASE ~MayResume(s, development)
    BY <1>0, <2>1, <2>2, <2>4 DEF Locals
  <2> QED
    BY <2>3, <2>4
<1> QED
  BY <1>1, <1>2 DEF Begin

\* An invocation's step leaves the others alone, and once it has found its
\* session, manifest and mode it keeps them.
LEMMA OwnStep ==
  ASSUME IInv, NEW i \in Invocations, Moves(i)
  PROVE  /\ world' = world
         /\ \A j \in Invocations \ {i} :
              pc'[j] = pc[j] /\ run'[j] = run[j] /\ receipts'[j] = receipts[j]
         /\ run[i].started => run'[i].started
         /\ pc[i] \notin {"idle", "snapshotted"} =>
              /\ run'[i].session = run[i].session
              /\ run'[i].artifact = run[i].artifact
              /\ run'[i].mode = run[i].mode
<1>1. CASE Begin(i)
  BY <1>1, BeginStep DEF IInv, TypeOK, Begin, LoadNew, ReadSession, store
<1>2. CASE Snapshot(i) \/ Prepare(i) \/ Reload(i) \/ Acquire(i)
  BY <1>2 DEF IInv, TypeOK, Locals, Snapshot, Prepare, Reload, Acquire, GoTo, store
<1>3. CASE RecordRunning(i)
  BY <1>3 DEF IInv, TypeOK, Locals, RecordRunning, GoTo
<1>8. CASE CloseDriver(i)
  BY <1>8 DEF IInv, TypeOK, Locals, CloseDriver, GoTo, store
<1>r. ASSUME Raise(i)
      PROVE  /\ \A j \in Invocations \ {i} : pc'[j] = pc[j] /\ run'[j] = run[j]
             /\ run[i].started => run'[i].started
             /\ run'[i].session = run[i].session
             /\ run'[i].artifact = run[i].artifact
             /\ run'[i].mode = run[i].mode
  BY <1>r DEF IInv, TypeOK, Locals, Raise
<1>5. CASE BuildDriver(i)
  BY <1>5, <1>r DEF IInv, TypeOK, Locals, BuildDriver, store
<1>6. CASE Revalidate(i)
  BY <1>6, <1>r DEF IInv, TypeOK, Locals, Revalidate, store
<1>7. CASE Invoke(i)
  BY <1>7, <1>r DEF IInv, TypeOK, Locals, Invoke, store
<1>4. CASE RecordFinal(i) \/ WriteReceipt(i) \/ Unlock(i) \/ StoreFails(i) \/ Crash(i)
  BY <1>4 DEF IInv, TypeOK, Locals, RecordFinal, WriteReceipt, Unlock, StoreFails,
              Crash, GoTo, store
<1> QED
  BY <1>1, <1>2, <1>3, <1>4, <1>5, <1>6, <1>7, <1>8 DEF Moves, Progress

\* A recorded session keeps its manifest and its mode for ever.
LEMMA SessionKept ==
  ASSUME IInv, NEW i \in Invocations, Moves(i), NEW s \in Invocations,
         sessions[s] # NoSession
  PROVE  /\ sessions'[s] # NoSession
         /\ sessions'[s].artifact = sessions[s].artifact
         /\ sessions'[s].mode = sessions[s].mode
         /\ sessions'[s] # sessions[s] => s = run[i].session /\ pc[i] \in {"locked", "recording"}
<1>0. sessions[s] \in Session
  BY DEF IInv, TypeOK
<1>1. CASE UNCHANGED sessions
  BY <1>1
<1>2. CASE Prepare(i)
  BY <1>2 DEF IInv, TypeOK, Fresh, Prepare, GoTo
<1>3. CASE RecordRunning(i)
  BY <1>0, <1>3 DEF IInv, TypeOK, Session, NoSession, Statuses, RecordRunning, GoTo
<1>4. CASE RecordFinal(i)
  BY <1>0, <1>4 DEF IInv, TypeOK, Session, NoSession, Statuses, FinalStatus, RecordFinal, GoTo
<1> QED
  BY <1>1, <1>2, <1>3, <1>4 DEF Moves, Begin, Progress, LoadNew, ReadSession, Snapshot,
     Reload, Acquire, BuildDriver, Revalidate, Invoke, CloseDriver, WriteReceipt, Unlock,
     StoreFails, Crash, store

LEMMA InitJInv == Init => JInv
<1> SUFFICES ASSUME Init PROVE JInv
  OBVIOUS
<1>1. Accounted
  BY DEF Init, Accounted, Stage, Refused, Owns, Receipted, Idle, Unrecorded, Executing,
         Passing, Held, Writing
<1>2. Stored /\ LockOwned /\ Latest /\ StatusAgreesWithReceipt
  BY DEF Init, Stored, SnapshotBeforeSession, LockOwned, Latest, StatusAgreesWithReceipt,
         NoSession, Executing
<1> QED
  BY <1>1, <1>2, InitIInv DEF JInv

\* What the step of one invocation leaves true of the others.
LEMMA OthersAccounted ==
  ASSUME JInv, NEW i \in Invocations, Moves(i), NEW j \in Invocations \ {i}
  PROVE  (Stage(j) /\ Refused(j) /\ Owns(j) /\ Receipted(j))'
<1>1. IInv /\ Stage(j) /\ Refused(j) /\ Owns(j) /\ Receipted(j)
  BY DEF JInv, Accounted
<1>2. world' = world /\ pc'[j] = pc[j] /\ run'[j] = run[j] /\ receipts'[j] = receipts[j]
  BY <1>1, OwnStep
<1>3. BoundToSession(j) => BoundToSession(j)'
  BY <1>1, <1>2, SessionKept DEF BoundToSession
<1>4. Stage(j)' /\ Refused(j)' /\ Owns(j)'
  BY <1>1, <1>2, <1>3 DEF Stage, Refused, Owns
<1>5. Receipted(j)'
  BY <1>1, <1>2 DEF Receipted, FinalStatus
<1> QED
  BY <1>4, <1>5

LEMMA OwnStage ==
  ASSUME JInv, NEW i \in Invocations, Moves(i)
  PROVE  Stage(i)'
<1>0. IInv /\ Stage(i) /\ pc \in [Invocations -> Locations] /\ run \in [Invocations -> Locals]
  BY DEF JInv, IInv, TypeOK, Accounted
<1>b. ASSUME run[i].started PROVE BoundToSession(i)'
  BY <1>0, <1>b, OwnStep, SessionKept DEF Stage, BoundToSession, Unrecorded
<1>1. CASE Begin(i)
  BY <1>0, <1>1, BeginStep DEF Stage, Unrecorded, Executing
<1>2. CASE Snapshot(i) \/ Prepare(i) \/ Reload(i) \/ Acquire(i)
  BY <1>0, <1>2 DEF Stage, Unrecorded, Executing, Snapshot, Prepare, Reload, Acquire, GoTo, Locals
<1>3. CASE RecordRunning(i)
  <2>1. pc[i] = "locked" /\ BoundToSession(i)
    BY <1>0, <1>3 DEF RecordRunning, GoTo, IInv, Bound, Held, Writing
  <2>2. /\ run'[i].session = run[i].session
        /\ run'[i].artifact = run[i].artifact
        /\ run'[i].mode = run[i].mode
    BY <1>0, <2>1, OwnStep
  <2>3. BoundToSession(i)'
    BY <1>0, <2>1, <2>2, SessionKept DEF BoundToSession
  <2> QED
    BY <1>0, <1>3, <2>3 DEF Stage, Unrecorded, Executing, RecordRunning, GoTo, Locals
<1>4. CASE RecordFinal(i) \/ WriteReceipt(i) \/ Unlock(i) \/ Crash(i)
  BY <1>0, <1>4, <1>b DEF Stage, Unrecorded, Executing, RecordFinal, WriteReceipt, Unlock, Crash, GoTo, Locals
<1>5. CASE StoreFails(i)
  BY <1>0, <1>5, <1>b DEF Stage, Unrecorded, Executing, StoreFails, BeforeLock, Writing, Locals
<1>6. CASE CloseDriver(i)
  BY <1>0, <1>6, <1>b DEF Stage, Unrecorded, Executing, CloseDriver, GoTo, Locals
<1>7. ASSUME Raise(i), pc[i] \in {"running", "built", "invoking"}
      PROVE  Stage(i)'
  BY <1>0, <1>7, <1>b DEF Stage, Unrecorded, Executing, Raise, Locals
<1>8. CASE BuildDriver(i)
  BY <1>0, <1>7, <1>8, <1>b DEF Stage, Unrecorded, Executing, BuildDriver, Locals
<1>9. CASE Revalidate(i)
  BY <1>0, <1>7, <1>9, <1>b DEF Stage, Unrecorded, Executing, Revalidate, Locals
<1>10. CASE Invoke(i)
  BY <1>0, <1>7, <1>10, <1>b DEF Stage, Unrecorded, Executing, Invoke, Locals
<1> QED
  BY <1>1, <1>2, <1>3, <1>4, <1>5, <1>6, <1>8, <1>9, <1>10 DEF Moves, Progress

\* A revoked key loads nothing, in the two modes that ask for a signature.
LEMMA RevokedLoadsNothing ==
  ASSUME NEW m \in AllModes, m # "dev", world.revoked
  PROVE  Loaded(m) = {}
BY DEF AllModes, Loaded, ReleaseLoads, FileLoads

LEMMA OwnRefused ==
  ASSUME JInv, NEW i \in Invocations, Moves(i)
  PROVE  Refused(i)'
<1>0. /\ IInv /\ Stage(i) /\ Refused(i)
      /\ pc \in [Invocations -> Locations] /\ run \in [Invocations -> Locals]
      /\ world' = world /\ world.revoked \in BOOLEAN
  BY OwnStep DEF JInv, IInv, TypeOK, World, Accounted
<1>1. CASE Begin(i)
  BY <1>0, <1>1, BeginStep DEF Stage, Refused, Unrecorded, Passing
<1>3. CASE Snapshot(i) \/ Prepare(i) \/ Reload(i) \/ Acquire(i)
  BY <1>0, <1>3 DEF Stage, Refused, Unrecorded, Passing, Snapshot, Prepare, Reload, Acquire, GoTo, Locals
<1>4. CASE RecordRunning(i)
  BY <1>0, <1>4 DEF Stage, Refused, Unrecorded, Passing, RecordRunning, GoTo, Locals
<1>5. ASSUME Raise(i) PROVE Refused(i)'
  BY <1>0, <1>5 DEF Refused, Passing, Raise, Locals
<1>6. CASE BuildDriver(i)
  BY <1>0, <1>5, <1>6 DEF Refused, Passing, BuildDriver, Locals
<1>7. CASE Revalidate(i)
  <2>1. run[i].mode \in AllModes
    BY <1>0, <1>7 DEF Revalidate, IInv, TypeOK, Bound, BoundToSession, Held, Writing, Session, NoSession
  <2>2. run[i].mode # "dev" /\ world.revoked => ~VerifyRoot(i)
    BY <2>1, RevokedLoadsNothing DEF VerifyRoot
  <2> QED
    BY <1>0, <1>5, <1>7, <2>2 DEF Refused, Passing, Revalidate, Locals
<1>8. CASE Invoke(i)
  BY <1>0, <1>5, <1>8 DEF Refused, Passing, Invoke, Locals
<1>9. CASE CloseDriver(i)
  BY <1>0, <1>9 DEF Refused, Passing, CloseDriver, GoTo, Locals
<1>10. CASE RecordFinal(i) \/ WriteReceipt(i) \/ Unlock(i) \/ Crash(i)
  BY <1>0, <1>10 DEF Refused, Passing, RecordFinal, WriteReceipt, Unlock, Crash, GoTo
<1>11. CASE StoreFails(i)
  BY <1>0, <1>11 DEF Refused, Passing, StoreFails, Locals
<1> QED
  BY <1>1, <1>3, <1>4, <1>6, <1>7, <1>8, <1>9, <1>10, <1>11 DEF Moves, Progress

LEMMA OwnOwns ==
  ASSUME JInv, NEW i \in Invocations, Moves(i)
  PROVE  Owns(i)'
<1>0. /\ IInv /\ Stage(i) /\ Owns(i)
      /\ pc \in [Invocations -> Locations] /\ run \in [Invocations -> Locals]
  BY DEF JInv, IInv, TypeOK, Accounted
<1>1. CASE Begin(i)
  BY <1>0, <1>1, BeginStep DEF Stage, Owns, Unrecorded, Held, Writing
<1>3. CASE Snapshot(i) \/ Prepare(i)
  BY <1>0, <1>3 DEF Stage, Owns, Unrecorded, Held, Writing, Snapshot, Prepare, GoTo, Locals
<1>4. ASSUME pc[i] \notin {"idle", "loaded", "snapshotted"},
             run'[i].session = run[i].session, run'[i].artifact = run[i].artifact,
             run'[i].started = run[i].started \/ pc[i] = "locked",
             pc'[i] # "resuming",
             pc'[i] \in Held \cup {"ready"} => pc[i] \in Held \cup {"ready", "resuming"}
      PROVE  Owns(i)'
  BY <1>0, <1>4 DEF Owns, Held, Writing
<1>5. CASE Reload(i) \/ Acquire(i) \/ RecordRunning(i)
  BY <1>0, <1>4, <1>5 DEF Reload, Acquire, RecordRunning, GoTo, Locals, Held, Writing
<1>r. ASSUME Raise(i), pc[i] \in {"running", "built", "invoking"}
      PROVE  Owns(i)'
  BY <1>0, <1>4, <1>r DEF Raise, Locals, Held, Writing
<1>6. CASE BuildDriver(i)
  BY <1>0, <1>4, <1>r, <1>6 DEF BuildDriver, Locals, Held, Writing
<1>7. CASE Revalidate(i)
  BY <1>0, <1>4, <1>r, <1>7 DEF Revalidate, Locals, Held, Writing
<1>8. CASE Invoke(i)
  BY <1>0, <1>4, <1>r, <1>8 DEF Invoke, Locals, Held, Writing
<1>9. CASE CloseDriver(i)
  BY <1>0, <1>4, <1>9 DEF CloseDriver, GoTo, Locals, Held, Writing
<1>10. CASE RecordFinal(i) \/ WriteReceipt(i) \/ Unlock(i) \/ Crash(i)
  BY <1>0, <1>10 DEF Stage, Owns, Unrecorded, RecordFinal, WriteReceipt, Unlock, Crash, GoTo, Held, Writing
<1>11. CASE StoreFails(i)
  BY <1>0, <1>11 DEF Stage, Owns, Unrecorded, StoreFails, BeforeLock, Locals, Held, Writing
<1> QED
  BY <1>1, <1>3, <1>5, <1>6, <1>7, <1>8, <1>9, <1>10, <1>11 DEF Moves, Progress

LEMMA OwnReceipted ==
  ASSUME JInv, NEW i \in Invocations, Moves(i)
  PROVE  Receipted(i)'
<1>0. /\ IInv /\ Stage(i) /\ Receipted(i)
      /\ pc \in [Invocations -> Locations] /\ run \in [Invocations -> Locals]
  BY DEF JInv, IInv, TypeOK, Accounted
<1>1. CASE Begin(i)
  <2>1. receipts' = receipts
    BY <1>1 DEF Begin, LoadNew, ReadSession, store
  <2> QED
    BY <1>0, <1>1, <2>1, BeginStep DEF Stage, Receipted, Unrecorded
<1>2. ASSUME receipts' = receipts, pc[i] \notin {"unlocking", "done", "crashed"},
             pc'[i] \in {"unlocking", "done"} => run'[i].outcome # "ok"
      PROVE  Receipted(i)'
  BY <1>0, <1>2 DEF Receipted
<1>3. CASE Snapshot(i) \/ Prepare(i) \/ Reload(i) \/ Acquire(i) \/ RecordRunning(i)
  BY <1>0, <1>2, <1>3 DEF Snapshot, Prepare, Reload, Acquire, RecordRunning, GoTo, store, Locals
<1>4. ASSUME Raise(i) PROVE pc'[i] = "recording"
  BY <1>0, <1>4 DEF Raise
<1>5. CASE BuildDriver(i) \/ Revalidate(i)
  BY <1>0, <1>2, <1>4, <1>5 DEF BuildDriver, Revalidate, store
<1>6. CASE Invoke(i) \/ CloseDriver(i) \/ RecordFinal(i)
  BY <1>0, <1>2, <1>4, <1>6 DEF Invoke, CloseDriver, RecordFinal, GoTo, store
<1>7. CASE WriteReceipt(i)
  <2>1. /\ pc[i] = "receipting" /\ pc'[i] = "unlocking" /\ run' = run
        /\ receipts'[i] = [status |-> FinalStatus(i), session |-> run[i].session,
                           artifact |-> run[i].artifact, mode |-> run[i].mode,
                           policy |-> run[i].policy]
    BY <1>0, <1>7 DEF WriteReceipt, GoTo, JInv, IInv, TypeOK
  <2>2. FinalStatus(i)' = FinalStatus(i) /\ run[i].started
    BY <1>0, <2>1 DEF FinalStatus, Stage, Executing
  <2>3. receipts'[i] # NoReceipt
    BY <2>1 DEF FinalStatus, NoReceipt
  <2> QED
    BY <2>1, <2>2, <2>3 DEF Receipted
<1>8. CASE Unlock(i) \/ Crash(i)
  BY <1>0, <1>8 DEF Unlock, Crash, GoTo, store, Receipted, FinalStatus
<1>9. CASE StoreFails(i)
  BY <1>0, <1>2, <1>9 DEF StoreFails, BeforeLock, Writing, store, Locals
<1> QED
  BY <1>1, <1>3, <1>5, <1>6, <1>7, <1>8, <1>9 DEF Moves, Progress

LEMMA StoredStep ==
  ASSUME JInv, NEW i \in Invocations, Moves(i)
  PROVE  Stored'
<1>0. /\ IInv /\ Stored /\ sessions \in [Invocations -> Session \cup {NoSession}]
      /\ pc \in [Invocations -> Locations] /\ run \in [Invocations -> Locals]
  BY DEF JInv, IInv, TypeOK
<1>1. snapshots \subseteq snapshots'
  BY DEF Moves, Begin, Progress, LoadNew, ReadSession, Snapshot, Prepare, Reload, Acquire,
     RecordRunning, BuildDriver, Revalidate, Invoke, CloseDriver, RecordFinal, WriteReceipt,
     Unlock, StoreFails, Crash, store
<1>2. pc'[i] = "snapshotted" => Snapshot(i)
  BY <1>0 DEF Moves, Begin, Progress, LoadNew, ReadSession, Prepare, Reload, Acquire,
     RecordRunning, BuildDriver, Revalidate, Invoke, CloseDriver, RecordFinal, WriteReceipt,
     Unlock, StoreFails, Crash, Raise, GoTo
<1>3. \A j \in Invocations : pc'[j] = "snapshotted" => run'[j].artifact \in snapshots'
  <2>1. Snapshot(i) => run'[i].artifact \in snapshots'
    BY DEF Snapshot
  <2> QED
    BY <1>0, <1>1, <1>2, <2>1, OwnStep DEF Stored
<1>4. ASSUME NEW s \in Invocations, sessions'[s] # NoSession
      PROVE  sessions'[s].artifact \in snapshots'
  <2>1. CASE sessions[s] # NoSession
    BY <1>0, <1>1, <2>1, SessionKept DEF Stored, SnapshotBeforeSession
  <2>2. CASE sessions[s] = NoSession
    <3>1. CASE Prepare(i)
      BY <1>0, <1>1, <1>4, <2>2, <3>1 DEF Prepare, GoTo, Stored
    <3>2. CASE RecordRunning(i) \/ RecordFinal(i)
      BY <1>0, <1>4, <2>2, <3>2 DEF RecordRunning, RecordFinal, GoTo, IInv, Bound,
         BoundToSession, Held, Writing
    <3> QED
      BY <1>4, <2>2, <3>1, <3>2 DEF Moves, Begin, Progress, LoadNew, ReadSession, Snapshot,
         Reload, Acquire, BuildDriver, Revalidate, Invoke, CloseDriver, WriteReceipt, Unlock,
         StoreFails, Crash, store
  <2> QED
    BY <2>1, <2>2
<1> QED
  BY <1>3, <1>4 DEF Stored, SnapshotBeforeSession

LEMMA LockOwnedStep ==
  ASSUME JInv, NEW i \in Invocations, Moves(i)
  PROVE  LockOwned'
<1>0. /\ IInv /\ LockOwned /\ lock \in [Invocations -> Invocations \cup {None}]
      /\ pc \in [Invocations -> Locations] /\ run \in [Invocations -> Locals]
  BY DEF JInv, IInv, TypeOK
<1>1. ASSUME lock' = lock, pc[i] \in Held => pc'[i] \in Held
      PROVE  LockOwned'
  BY <1>0, <1>1, OwnStep DEF LockOwned, Held, Writing
<1>2. CASE Acquire(i)
  <2>1. run[i].session \in Invocations
    BY <1>0, <1>2 DEF Acquire, IInv, Bound, BoundToSession
  <2> QED
    BY <1>0, <1>2, <2>1, OwnStep DEF Acquire, LockFree, LockOwned, Held, Writing
<1>3. CASE Unlock(i)
  BY <1>0, <1>3, OwnStep, ConstantsAssumption DEF Unlock, GoTo, LockOwned, Held, Writing, IInv, Bound, BoundToSession
<1>4. CASE Crash(i)
  BY <1>0, <1>4, OwnStep DEF Crash, LockOwned
<1>5. CASE Begin(i) \/ Snapshot(i) \/ Prepare(i) \/ Reload(i) \/ RecordRunning(i)
  BY <1>0, <1>1, <1>5 DEF Begin, LoadNew, ReadSession, Snapshot, Prepare, Reload,
     RecordRunning, GoTo, Held, Writing
<1>6. CASE BuildDriver(i) \/ Revalidate(i) \/ Invoke(i) \/ CloseDriver(i) \/ RecordFinal(i)
           \/ WriteReceipt(i) \/ StoreFails(i)
  BY <1>0, <1>1, <1>6 DEF BuildDriver, Revalidate, Invoke, CloseDriver, RecordFinal,
     WriteReceipt, StoreFails, BeforeLock, Raise, GoTo, Held, Writing
<1> QED
  BY <1>2, <1>3, <1>4, <1>5, <1>6 DEF Moves, Progress

\* While an invocation executes a session, no other one writes its record.
LEMMA SessionOfOthersKept ==
  ASSUME IInv, NEW i \in Invocations, Moves(i), NEW j \in Invocations \ {i}, pc[j] \in Held
  PROVE  sessions'[run[j].session] = sessions[run[j].session]
<1>1. BoundToSession(j) /\ lock[run[j].session] = j
  BY DEF IInv, Bound, LockHeld
<1>2. pc[i] \in {"locked", "recording"} => lock[run[i].session] = i
  BY DEF IInv, LockHeld, Held, Writing
<1> QED
  BY <1>1, <1>2, SessionKept DEF BoundToSession

\* The record of a session changes as its own execution starts and ends.
LEMMA SessionWritten ==
  ASSUME IInv, NEW i \in Invocations, Moves(i), NEW s \in Invocations,
         sessions'[s] # sessions[s]
  PROVE  \/ /\ Prepare(i)
            /\ sessions'[s].exec = None
         \/ /\ pc[i] = "locked" /\ pc'[i] = "running"
            /\ s = run[i].session /\ run'[i].session = s /\ run'[i].started
            /\ sessions'[s].exec = i
         \/ /\ pc[i] = "recording" /\ pc'[i] = "receipting" /\ run' = run
            /\ s = run[i].session
            /\ sessions'[s].exec = sessions[s].exec
            /\ sessions'[s].status = FinalStatus(i)
<1>0. /\ sessions \in [Invocations -> Session \cup {NoSession}]
      /\ pc \in [Invocations -> Locations] /\ run \in [Invocations -> Locals]
  BY DEF IInv, TypeOK
<1>b. pc[i] \in {"locked", "recording"} => sessions[run[i].session] \in Session
  BY <1>0 DEF IInv, Bound, BoundToSession, Held, Writing
<1>1. CASE Prepare(i)
  BY <1>0, <1>1 DEF Prepare
<1>2. CASE RecordRunning(i)
  <2>1. /\ pc[i] = "locked" /\ pc'[i] = "running"
        /\ run'[i] = [run[i] EXCEPT !.started = TRUE, !.late = world.revoked]
        /\ s = run[i].session
        /\ sessions'[s] = [sessions[s] EXCEPT !.status = "running", !.exec = i]
    BY <1>0, <1>2 DEF RecordRunning, GoTo
  <2> QED
    BY <1>0, <1>b, <2>1 DEF Session, Locals
<1>3. CASE RecordFinal(i)
  <2>1. /\ pc[i] = "recording" /\ pc'[i] = "receipting" /\ run' = run
        /\ s = run[i].session
        /\ sessions'[s] = [sessions[s] EXCEPT !.status = FinalStatus(i)]
    BY <1>0, <1>3 DEF RecordFinal, GoTo
  <2> QED
    BY <1>b, <2>1 DEF Session
<1> QED
  BY <1>1, <1>2, <1>3 DEF Moves, Begin, Progress, LoadNew, ReadSession, Snapshot,
     Reload, Acquire, BuildDriver, Revalidate, Invoke, CloseDriver, WriteReceipt, Unlock,
     StoreFails, Crash, store

\* An invocation comes to be executing only by recording that it runs.
LEMMA ExecutingEntered ==
  ASSUME IInv, NEW i \in Invocations, Moves(i), pc'[i] \in Executing
  PROVE  \/ RecordRunning(i)
         \/ /\ pc[i] \in Executing
            /\ pc'[i] = "receipting" => RecordFinal(i)
BY DEF IInv, TypeOK, Executing, Moves, Begin, Progress, LoadNew, ReadSession, Snapshot, Prepare,
   Reload, Acquire, BuildDriver, Revalidate, Invoke, CloseDriver, RecordFinal, WriteReceipt,
   Unlock, StoreFails, Crash, Raise, GoTo

LEMMA LatestStep ==
  ASSUME JInv, NEW i \in Invocations, Moves(i)
  PROVE  Latest'
<1>0. /\ IInv /\ Latest /\ sessions \in [Invocations -> Session \cup {NoSession}]
      /\ pc \in [Invocations -> Locations] /\ run \in [Invocations -> Locals]
      /\ None \notin Invocations
  BY ConstantsAssumption DEF JInv, IInv, TypeOK
<1>h. Executing \subseteq Held /\ "receipting" \in Executing
  BY DEF Executing, Held, Writing
<1>1. ASSUME NEW s \in Invocations, sessions'[s].exec # None
      PROVE  run'[sessions'[s].exec].started /\ run'[sessions'[s].exec].session = s
  <2>1. ASSUME sessions'[s].exec = sessions[s].exec
        PROVE  run'[sessions'[s].exec].started /\ run'[sessions'[s].exec].session = s
    <3> DEFINE e == sessions[s].exec
    <3>1. e # None /\ run[e].started /\ run[e].session = s
      BY <1>0, <1>1, <2>1 DEF Latest
    <3>2. e \in Invocations
      BY <1>0, <3>1 DEF Session, NoSession
    <3>3. Stage(e)
      BY <3>2 DEF JInv, Accounted
    <3>4. e = i => run'[e].started /\ run'[e].session = s
      BY <1>0, <3>1, <3>3, OwnStep DEF Stage, Unrecorded
    <3>5. e # i => run'[e] = run[e]
      BY <1>0, <3>2, OwnStep
    <3> QED
      BY <2>1, <3>1, <3>4, <3>5
  <2> QED
    BY <1>0, <1>1, <2>1, SessionWritten
<1>2. ASSUME NEW j \in Invocations \ {i}, pc'[j] \in Executing
      PROVE  /\ sessions'[run'[j].session].exec = j
             /\ pc'[j] = "receipting" => sessions'[run'[j].session].status = FinalStatus(j)'
  <2>1. pc'[j] = pc[j] /\ run'[j] = run[j]
    BY <1>0, OwnStep
  <2>2. sessions'[run[j].session] = sessions[run[j].session]
    BY <1>0, <1>h, <1>2, <2>1, SessionOfOthersKept
  <2> QED
    BY <1>0, <1>2, <2>1, <2>2 DEF Latest, FinalStatus
<1>3. ASSUME pc'[i] \in Executing
      PROVE  /\ sessions'[run'[i].session].exec = i
             /\ pc'[i] = "receipting" => sessions'[run'[i].session].status = FinalStatus(i)'
  <2>1. CASE RecordRunning(i)
    <3>1. run[i].session \in Invocations /\ sessions[run[i].session] \in Session
      BY <1>0, <2>1 DEF RecordRunning, GoTo, IInv, Bound, BoundToSession, Held, Writing
    <3>2. /\ pc'[i] = "running"
          /\ run'[i].session = run[i].session
          /\ sessions'[run[i].session] =
               [sessions[run[i].session] EXCEPT !.status = "running", !.exec = i]
      BY <1>0, <2>1, <3>1 DEF RecordRunning, GoTo, Locals
    <3> QED
      BY <3>1, <3>2 DEF Session
  <2>2. CASE RecordFinal(i)
    <3>1. run[i].session \in Invocations /\ sessions[run[i].session] \in Session
          /\ pc[i] = "recording"
      BY <1>0, <2>2 DEF RecordFinal, GoTo, IInv, Bound, BoundToSession, Held, Writing
    <3>2. /\ run' = run
          /\ sessions'[run[i].session] =
               [sessions[run[i].session] EXCEPT !.status = FinalStatus(i)]
      BY <1>0, <2>2, <3>1 DEF RecordFinal, GoTo
    <3>3. sessions[run[i].session].exec = i
      BY <1>0, <3>1 DEF Latest, Executing
    <3> QED
      BY <3>1, <3>2, <3>3 DEF Session, FinalStatus
  <2>3. CASE ~RecordRunning(i) /\ ~RecordFinal(i)
    <3>1. pc[i] \in Executing /\ pc'[i] # "receipting"
      BY <1>0, <1>3, <2>3, ExecutingEntered
    <3>2. run'[i].session = run[i].session
      BY <1>0, <3>1, OwnStep DEF Executing
    <3>3. run[i].session \in Invocations /\ sessions[run[i].session].exec = i
      BY <1>0, <1>h, <3>1 DEF Latest, IInv, Bound, BoundToSession
    <3>4. sessions'[run[i].session] = sessions[run[i].session]
      BY <1>0, <3>1, <3>3, SessionWritten DEF Executing, Prepare, GoTo
    <3> QED
      BY <3>1, <3>2, <3>3, <3>4
  <2> QED
    BY <2>1, <2>2, <2>3
<1> QED
  BY <1>1, <1>2, <1>3, <1>h DEF Latest

\* A receipt, once written, is not written again.
LEMMA ReceiptKept ==
  ASSUME JInv, NEW i \in Invocations, Moves(i), NEW e \in Invocations, receipts[e] # NoReceipt
  PROVE  receipts'[e] = receipts[e]
<1>1. IInv /\ Receipted(e) /\ receipts \in [Invocations -> Receipt \cup {NoReceipt}]
  BY DEF JInv, IInv, TypeOK, Accounted
<1>2. WriteReceipt(i) => e # i
  BY <1>1 DEF WriteReceipt, GoTo, Receipted
<1>3. CASE WriteReceipt(i)
  BY <1>1, <1>2, <1>3 DEF WriteReceipt
<1>4. CASE receipts' = receipts
  BY <1>4
<1> QED
  BY <1>3, <1>4 DEF Moves, Begin, Progress, LoadNew, ReadSession, Snapshot, Prepare, Reload,
     Acquire, RecordRunning, BuildDriver, Revalidate, Invoke, CloseDriver, RecordFinal, Unlock,
     StoreFails, Crash, store

LEMMA StatusStep ==
  ASSUME JInv, NEW i \in Invocations, Moves(i), Accounted', Latest'
  PROVE  StatusAgreesWithReceipt'
<1>0. /\ IInv /\ Latest /\ StatusAgreesWithReceipt
      /\ sessions \in [Invocations -> Session \cup {NoSession}]
      /\ None \notin Invocations
  BY ConstantsAssumption DEF JInv, IInv, TypeOK
<1> SUFFICES ASSUME NEW s \in Invocations,
                    sessions'[s].exec # None, receipts'[sessions'[s].exec] # NoReceipt
             PROVE  /\ receipts'[sessions'[s].exec].status = sessions'[s].status
                    /\ receipts'[sessions'[s].exec].session = s
  BY DEF StatusAgreesWithReceipt
<1> DEFINE e == sessions'[s].exec
<1>1. sessions'[s] = sessions[s]
  <2> SUFFICES ASSUME sessions'[s] # sessions[s] PROVE FALSE
    OBVIOUS
  <2>1. e = i /\ pc'[i] \in {"running", "receipting"}
    BY <1>0, SessionWritten DEF Latest, Executing
  <2>2. Receipted(i)'
    BY DEF Accounted
  <2> QED
    BY <2>1, <2>2 DEF Receipted
<1>2. e \in Invocations /\ run[e].session = s
  BY <1>0, <1>1 DEF Session, NoSession, Latest
<1>3. CASE receipts[e] # NoReceipt
  BY <1>0, <1>1, <1>2, <1>3, ReceiptKept DEF StatusAgreesWithReceipt
<1>4. CASE receipts[e] = NoReceipt
  <2>1. e = i
    BY <1>0, <1>2, <1>4, OwnStep
  <2>2. WriteReceipt(i)
    BY <1>4, <2>1 DEF Moves, Begin, Progress, LoadNew, ReadSession, Snapshot, Prepare, Reload,
       Acquire, RecordRunning, BuildDriver, Revalidate, Invoke, CloseDriver, RecordFinal,
       Unlock, StoreFails, Crash, store
  <2>3. receipts'[i].status = FinalStatus(i) /\ receipts'[i].session = run[i].session
        /\ pc[i] = "receipting"
    BY <1>0, <2>2 DEF WriteReceipt, GoTo, IInv, TypeOK
  <2>4. sessions[s].status = FinalStatus(i)
    BY <1>0, <1>2, <2>1, <2>3 DEF Latest
  <2> QED
    BY <1>1, <1>2, <2>1, <2>3, <2>4
<1> QED
  BY <1>3, <1>4

LEMMA OperatorStep ==
  ASSUME JInv, IInv', Operator \/ UNCHANGED vars
  PROVE  JInv'
<1>1. /\ UNCHANGED <<sessions, snapshots, receipts, lock, pc, run>>
      /\ world.revoked => world'.revoked
  <2>1. world \in World
    BY DEF JInv, IInv, TypeOK
  <2> QED
    BY <2>1 DEF Operator, EditFile, SignFile, RevokeKey, EditPolicy, Reapprove, store, vars, World
<1>2. Accounted'
  BY <1>1 DEF JInv, Accounted, Stage, BoundToSession, Refused, Owns, Receipted, FinalStatus
<1>3. (Stored /\ LockOwned /\ Latest /\ StatusAgreesWithReceipt)'
  BY <1>1 DEF JInv, Stored, SnapshotBeforeSession, LockOwned, Latest, FinalStatus,
     StatusAgreesWithReceipt
<1> QED
  BY <1>2, <1>3 DEF JInv

LEMMA StepJInv == JInv /\ [Next]_vars => JInv'
<1> SUFFICES ASSUME JInv, [Next]_vars PROVE JInv'
  OBVIOUS
<1>1. IInv'
  BY StepIInv DEF JInv
<1>2. ASSUME NEW i \in Invocations, Moves(i) PROVE JInv'
  <2>1. Accounted'
    BY <1>2, OthersAccounted, OwnStage, OwnRefused, OwnOwns, OwnReceipted DEF Accounted
  <2> QED
    BY <1>1, <1>2, <2>1, StoredStep, LockOwnedStep, LatestStep, StatusStep DEF JInv
<1> QED
  BY <1>1, <1>2, OperatorStep DEF Next, Moves

LEMMA JInvAlways == Spec => []JInv
BY InitJInv, StepJInv, PTL DEF Spec

\* A session stays what it was recorded as: its manifest's snapshot is stored
\* first, all its executions are of that manifest in that mode, and without a
\* checkpoint only the run that created it executes it.
THEOREM SessionIntegrityAlways == Spec => []SessionIntegrity
<1>1. JInv => SnapshotBeforeSession
  BY DEF JInv, Stored
<1>2. JInv => OneAuthority
  BY DEF JInv, Accounted, Receipted, Stage, BoundToSession, OneAuthority
<1>3. JInv => EphemeralRunsOnce
  BY DEF JInv, Accounted, Owns, EphemeralRunsOnce
<1> QED
  BY <1>1, <1>2, <1>3, JInvAlways, PTL DEF SessionIntegrity

\* An execution recorded after the revocation of its key never reaches the
\* model, and never earns a completed receipt.
THEOREM RevocationAlwaysStops == Spec => []RevocationStopsLaterRuns
<1>1. JInv => RevocationStopsLaterRuns
  BY DEF JInv, Accounted, Refused, Receipted, Passing, FinalStatus, NoReceipt, RevocationStopsLaterRuns
<1> QED
  BY <1>1, JInvAlways, PTL

\* No completed receipt without a clean success, and no success told to the
\* caller without a completed receipt.
THEOREM SuccessAlwaysHasEvidence == Spec => []SuccessHasEvidence
<1>1. JInv => CompletedIsClean
  BY DEF JInv, Accounted, Receipted, Stage, FinalStatus, NoReceipt, CompletedIsClean
<1>2. JInv => ReportedSuccessIsRecorded
  BY DEF JInv, Accounted, Receipted, FinalStatus, ReportedSuccessIsRecorded
<1> QED
  BY <1>1, <1>2, JInvAlways, PTL DEF SuccessHasEvidence

\* The session's status is the one its latest execution's receipt tells.
THEOREM StatusAlwaysAgrees == Spec => []StatusAgreesWithReceipt
BY JInvAlways, PTL DEF JInv

\* Only an execution under way holds a session's lock.
THEOREM LockNeverAbandoned == Spec => []NoAbandonedLock
<1>1. JInv => NoAbandonedLock
  BY DEF JInv, LockOwned, NoAbandonedLock
<1> QED
  BY <1>1, JInvAlways, PTL

\* Only recording the execution starts it.
LEMMA StartedOnce ==
  ASSUME IInv, NEW i \in Invocations, Moves(i), ~RecordRunning(i), ~run[i].started
  PROVE  ~run'[i].started
<1>0. run \in [Invocations -> Locals]
  BY DEF IInv, TypeOK
<1>1. CASE Begin(i)
  BY <1>1, BeginStep
<1>2. CASE Prepare(i) \/ Reload(i) \/ Acquire(i) \/ Snapshot(i) \/ CloseDriver(i)
  BY <1>0, <1>2 DEF Prepare, Reload, Acquire, Snapshot, CloseDriver, GoTo, Locals
<1>3. ASSUME Raise(i) PROVE ~run'[i].started
  BY <1>0, <1>3 DEF Raise, Locals
<1>4. CASE BuildDriver(i) \/ Revalidate(i) \/ Invoke(i)
  BY <1>0, <1>3, <1>4 DEF BuildDriver, Revalidate, Invoke, Locals
<1>5. CASE RecordFinal(i) \/ WriteReceipt(i) \/ Unlock(i) \/ StoreFails(i) \/ Crash(i)
  BY <1>0, <1>5 DEF RecordFinal, WriteReceipt, Unlock, StoreFails, Crash, store, Locals
<1> QED
  BY <1>1, <1>2, <1>4, <1>5 DEF Moves, Progress

\* An execution writes a receipt only where it is about to.
LEMMA ReceiptWritten ==
  ASSUME NEW i \in Invocations, Moves(i), receipts'[i] # receipts[i]
  PROVE  pc[i] = "receipting"
BY DEF Moves, Begin, Progress, LoadNew, ReadSession, Snapshot, Prepare, Reload, Acquire,
   RecordRunning, BuildDriver, Revalidate, Invoke, CloseDriver, RecordFinal, WriteReceipt,
   Unlock, StoreFails, Crash, GoTo, store

LEMMA ReceiptStatus ==
  ASSUME TypeOK, NEW e \in Invocations
  PROVE  receipts[e].status # "open"
BY DEF TypeOK, Receipt, NoReceipt

-----------------------------------------------------------------------------
(***************************************************************************)
(* The registry implements the execution log.                              *)
(***************************************************************************)

\* The session the log has an execution in.
LogSession(e) == IF run[e].started THEN run[e].session ELSE None

LEMMA InitLog == Init => Log!Init
BY DEF Init, Log!Init, LogState, Idle

\* An execution that is not the one taking a step stays as it is in the log.
LEMMA OthersLogged ==
  ASSUME JInv, NEW i \in Invocations, Moves(i), NEW j \in Invocations \ {i}
  PROVE  LogState(j)' = LogState(j) /\ LogSession(j)' = LogSession(j)
<1>1. pc'[j] = pc[j] /\ run'[j] = run[j] /\ receipts'[j] = receipts[j]
  BY OwnStep DEF JInv
<1> QED
  BY <1>1 DEF LogState, LogSession

\* A recorded execution is one the log knows, in one of its states.
LEMMA LoggedState ==
  ASSUME JInv, NEW e \in Invocations
  PROVE  /\ receipts[e] # NoReceipt => LogState(e) = receipts[e].status
         /\ ~run[e].started => LogState(e) = "none"
         /\ run[e].started /\ pc[e] \in Executing => LogState(e) = "open"
         /\ run[e].started /\ pc[e] \notin Executing /\ receipts[e] = NoReceipt =>
              LogState(e) = "lost"
<1>1. Receipted(e)
  BY DEF JInv, Accounted
<1> QED
  BY <1>1 DEF Receipted, LogState, Executing

\* The step of an execution opens it, closes it, loses it or stays unseen.
LEMMA OwnLogged ==
  ASSUME JInv, JInv', NEW i \in Invocations, Moves(i)
  PROVE  \/ /\ LogState(i)' = LogState(i) /\ LogSession(i)' = LogSession(i)
         \/ /\ RecordRunning(i)
            /\ LogState(i) = "none" /\ LogState(i)' = "open"
            /\ LogSession(i)' = run[i].session
         \/ /\ LogState(i) = "open"
            /\ LogState(i)' \in {"completed", "failed", "lost"}
            /\ LogSession(i)' = LogSession(i)
<1>0. /\ IInv /\ Stage(i) /\ Receipted(i) /\ Stage(i)' /\ Receipted(i)'
      /\ pc \in [Invocations -> Locations] /\ run \in [Invocations -> Locals]
      /\ run'[i].started \in BOOLEAN
  BY DEF JInv, IInv, TypeOK, Accounted, Locals
<1>1. CASE ~run[i].started
  <2>1. CASE RecordRunning(i)
    <3>1. pc'[i] = "running" /\ run'[i].started /\ run'[i].session = run[i].session
      BY <1>0, <2>1 DEF RecordRunning, GoTo, Locals
    <3>2. LogState(i) = "none"
      BY <1>1, LoggedState
    <3>3. receipts'[i] = NoReceipt
      BY <1>0, <3>1 DEF Receipted
    <3> QED
      BY <2>1, <3>1, <3>2, <3>3 DEF LogState, LogSession, Executing
  <2>2. CASE ~RecordRunning(i)
    <3>1. ~run'[i].started
      BY <1>0, <1>1, <2>2, StartedOnce
    <3>2. receipts[i] = NoReceipt /\ receipts'[i] = NoReceipt
      BY <1>0, <1>1, <3>1 DEF Receipted
    <3> QED
      BY <1>1, <3>1, <3>2 DEF LogState, LogSession
  <2> QED
    BY <2>1, <2>2
<1>2. CASE run[i].started
  <2>1. run'[i].started /\ LogSession(i)' = LogSession(i)
    BY <1>0, <1>2, OwnStep DEF LogSession, Stage, Unrecorded
  <2>2. CASE receipts[i] # NoReceipt
    BY <2>1, <2>2, ReceiptKept DEF LogState
  <2>3. CASE receipts[i] = NoReceipt /\ pc[i] \in Executing
    <3>1. LogState(i) = "open"
      BY <1>2, <2>3, LoggedState
    <3>2. CASE receipts'[i] # NoReceipt
      BY <1>0, <2>1, <3>1, <3>2 DEF Receipted, FinalStatus, LogState
    <3>3. CASE receipts'[i] = NoReceipt
      BY <2>1, <3>1, <3>3 DEF LogState
    <3> QED
      BY <3>2, <3>3
  <2>4. CASE receipts[i] = NoReceipt /\ pc[i] \notin Executing
    <3>1. pc'[i] \notin Executing
      BY <1>0, <1>2, <2>4, ExecutingEntered DEF RecordRunning, GoTo, Stage, Unrecorded
    <3>2. receipts'[i] = NoReceipt
      BY <1>0, <1>2, <2>4, ReceiptWritten DEF Executing
    <3> QED
      BY <1>2, <2>1, <2>4, <3>1, <3>2 DEF LogState
  <2> QED
    BY <2>2, <2>3, <2>4
<1> QED
  BY <1>0, <1>1, <1>2 DEF Locals

\* Every step of the registry is one of the log's, or none.
LEMMA StepLog == JInv /\ JInv' /\ [Next]_vars => [Log!Next]_(Log!vars)
<1> SUFFICES ASSUME JInv, JInv', [Next]_vars PROVE [Log!Next]_(Log!vars)
  OBVIOUS
<1> DEFINE S == [e \in Invocations |-> IF run[e].started THEN run[e].session ELSE None]
           T == [e \in Invocations |-> LogState(e)]
<1>1. ASSUME S' = S, T' = T PROVE [Log!Next]_(Log!vars)
  BY <1>1 DEF Log!vars
<1>2. ASSUME NEW i \in Invocations, Moves(i) PROVE [Log!Next]_(Log!vars)
  <2>1. /\ \A j \in Invocations \ {i} : T'[j] = T[j] /\ S'[j] = S[j]
        /\ T'[i] = LogState(i)' /\ T[i] = LogState(i)
        /\ S'[i] = LogSession(i)' /\ S[i] = LogSession(i)
    BY <1>2, OthersLogged DEF LogSession
  <2>2. CASE LogState(i)' = LogState(i) /\ LogSession(i)' = LogSession(i)
    <3>1. S' = S /\ T' = T
      BY <2>1, <2>2
    <3> QED
      BY <1>1, <3>1
  <2>3. CASE /\ RecordRunning(i)
             /\ LogState(i) = "none" /\ LogState(i)' = "open"
             /\ LogSession(i)' = run[i].session
    <3>1. run[i].session \in Invocations /\ pc[i] = "locked" /\ lock[run[i].session] = i
      BY <2>3 DEF RecordRunning, GoTo, JInv, IInv, Bound, BoundToSession, LockHeld, Held, Writing
    <3>2. ASSUME NEW e \in Invocations, S[e] = run[i].session PROVE T[e] # "open"
      <4>1. CASE e = i
        BY <2>1, <2>3, <4>1
      <4>2. CASE e # i
        <5>1. run[e].started /\ run[e].session = run[i].session
          BY <3>1, <3>2, ConstantsAssumption
        <5>2. pc[e] \notin Executing
          BY <3>1, <4>2, <5>1 DEF JInv, IInv, LockHeld, Executing, Held, Writing
        <5>3. LogState(e) # "open"
          BY <5>1, <5>2, ReceiptStatus, LoggedState DEF JInv, IInv
        <5> QED
          BY <5>3
      <4> QED
        BY <4>1, <4>2
    <3>3. S' = [S EXCEPT ![i] = run[i].session] /\ T' = [T EXCEPT ![i] = "open"]
      BY <2>1, <2>3
    <3>4. T[i] = "none"
      BY <2>1, <2>3
    <3> HIDE DEF S, T
    <3>5. PICK s \in Invocations : s = run[i].session
      BY <3>1
    <3>6. Log!Open(i, s)
      BY <3>2, <3>3, <3>4, <3>5 DEF Log!Open, Log!NoneOpen, S, T
    <3> QED
      BY <3>6 DEF Log!Next
  <2>4. CASE /\ LogState(i) = "open"
             /\ LogState(i)' \in {"completed", "failed", "lost"}
             /\ LogSession(i)' = LogSession(i)
    <3>1. S' = S /\ T' = [T EXCEPT ![i] = LogState(i)'] /\ T[i] = "open"
      BY <2>1, <2>4
    <3>2. CASE LogState(i)' \in {"completed", "failed"}
      <4>1. Log!Close(i, LogState(i)')
        BY <3>1 DEF Log!Close
      <4> QED
        BY <3>2, <4>1 DEF Log!Next, Log!Outcomes
    <3>3. CASE LogState(i)' = "lost"
      <4>1. Log!Lose(i)
        BY <3>1, <3>3 DEF Log!Lose
      <4> QED
        BY <4>1 DEF Log!Next
    <3> QED
      BY <2>4, <3>2, <3>3
  <2> QED
    BY <1>2, <2>2, <2>3, <2>4, OwnLogged
<1>3. CASE Operator \/ UNCHANGED vars
  <2>1. UNCHANGED <<receipts, pc, run>>
    BY <1>3 DEF Operator, vars, store
  <2>2. S' = S /\ T' = T
    BY <2>1 DEF LogState
  <2> QED
    BY <1>1, <2>2
<1> QED
  BY <1>2, <1>3 DEF Next, Moves

\* The registry implements the execution log: an execution is opened while no
\* other of its session is open, and closed at most once, with its outcome.
THEOREM RegistryImplementsLog == Spec => ImplementsLog
BY InitLog, StepLog, JInvAlways, PTL DEF Spec, ImplementsLog, Log!Spec
=============================================================================
