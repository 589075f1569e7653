--------------------------- MODULE Releases_proofs ---------------------------
(***************************************************************************)
(* Proofs about Releases, for every number of calls, snapshots, policies   *)
(* and paths, and about Closure, the validation of a release, for every    *)
(* set of documents and every bound.                                       *)
(***************************************************************************)
EXTENDS ReleaseStore, TLAPS

Approving == {"write", "attest", "writeSig", "writeApproval"}

\* What an approval has written so far is on disk, whoever wrote it.
Progress(c) ==
  /\ pc[c] \in {"idle", "sourceTrust", "sourceSig", "sourcePolicy"} => at[c] = 1
  /\ pc[c] = "write" =>
       at[c] \in DOMAIN Files /\ \A i \in DOMAIN Files : i < at[c] => file[Files[i]] = "signed"
  /\ pc[c] \in {"attest", "writeSig", "writeApproval"} =>
       \A i \in DOMAIN Files : file[Files[i]] = "signed"
  /\ pc[c] = "writeApproval" => sig # "none"

Complete == ~damaged =>
  /\ \A c \in Calls : Progress(c)
  /\ approval # None => sig # "none" /\ \A i \in DOMAIN Files : file[Files[i]] = "signed"

\* Every record that approves or was read is one that an approval checked.
Vouching ==
  /\ vouched \subseteq [path: Paths, policy: Granting]
  /\ approval \in vouched \cup {None}
  /\ \A c \in Calls : pc[c] \in Approving \cup {"policy", "parts", "loaded"} =>
       record[c] \in vouched

Late == late \subseteq Calls /\ \A c \in late :
  revoked /\ pc[c] \in {"release", "trust", "failed", "crashed"}

LEMMA FilesShape ==
  /\ Len(Files) \in Nat /\ Len(Files) = Len(Parts) + 1 /\ DOMAIN Files = 1..Len(Files)
  /\ Files[Len(Files)] = "release" /\ \A i \in 1..Len(Parts) : Files[i] = Parts[i]
  /\ \A i \in DOMAIN Files : Files[i] \in FileSet
  /\ Len(Parts) \in Nat /\ DOMAIN Parts = 1..Len(Parts)
BY ReleasesAssumption DEF Files, FileSet

IInv == TypeOK /\ Vouching /\ Late /\ Complete

LEMMA InitIInv == Init => IInv
<1> SUFFICES ASSUME Init PROVE IInv
  OBVIOUS
<1>1. TypeOK
  BY DEF Init, TypeOK, Signatures, Contents
<1>2. Vouching /\ Late
  BY DEF Init, Vouching, Late, Approving
<1>3. Complete
  BY DEF Init, Complete, Progress
<1> QED
  BY <1>1, <1>2, <1>3 DEF IInv

LEMMA StepType ==
  ASSUME IInv, NEW c \in Calls, Step(c)
  PROVE  TypeOK'
<1> USE DEF TypeOK
<1>1. TypeOK /\ Vouching
  BY DEF IInv
<1>2. CASE Begin(c)
  BY <1>1, <1>2 DEF Begin, BeginLoad, Goto, store, operator, history
<1>3. CASE CheckSourceTrust(c) \/ CheckSourceSig(c) \/ LoadRelease(c) \/ LoadTrust(c) \/ LoadSig(c)
           \/ WriteFails(c) \/ Crash(c)
  BY <1>1, <1>3 DEF CheckSourceTrust, CheckSourceSig, LoadRelease, LoadTrust, LoadSig,
                    WriteFails, Crash, Check, Goto, store, operator, history
<1>4. CASE CheckSourcePolicy(c)
  <2> DEFINE r == [path |-> task[c].path, policy |-> policyFile[task[c].path]]
  <2>1. r \in Records
    BY <1>1 DEF Records
  <2> HIDE DEF r
  <2>2. /\ record' = [record EXCEPT ![c] = r] /\ vouched' \in {vouched, vouched \cup {r}}
        /\ pc' \in {[pc EXCEPT ![c] = "write"], [pc EXCEPT ![c] = "failed"]}
        /\ UNCHANGED <<store, operator, task, at, copied, late, marked>>
    BY <1>4 DEF CheckSourcePolicy, FirstWrite, Check, Goto, r
  <2> QED
    BY <1>1, <2>1, <2>2 DEF store, operator
<1>5. CASE WriteFile(c)
  <2>1. pc' \in {[pc EXCEPT ![c] = "write"], [pc EXCEPT ![c] = "attest"]}
    BY <1>5 DEF WriteFile, Goto
  <2>2. file' \in [FileSet -> Contents]
    BY <1>1, <1>5 DEF WriteFile, Contents
  <2>3. at' \in [Calls -> Nat]
    BY <1>1, <1>5 DEF WriteFile
  <2> QED
    BY <1>1, <1>5, <2>1, <2>2, <2>3 DEF WriteFile, operator, history
<1>6. CASE ReadAttestation(c) \/ WriteSig(c)
  BY <1>1, <1>6 DEF ReadAttestation, WriteSig, Goto, Signatures, store, operator, history
<1>7. CASE WriteApproval(c)
  <2>1. record[c] \in Records
    BY <1>1, <1>7 DEF WriteApproval, Vouching, Approving
  <2> QED
    BY <1>1, <1>7, <2>1 DEF WriteApproval, ApprovalOf, BeginLoad, Goto, operator, history
<1>8. CASE LoadApproval(c) \/ LoadPolicy(c)
  BY <1>1, <1>8 DEF LoadApproval, LoadPolicy, Check, Goto, store, operator, history
<1>9. CASE LoadPart(c)
  <2>1. pc' \in {[pc EXCEPT ![c] = to] : to \in {"loaded", "parts", "failed"}}
    BY <1>9 DEF LoadPart, Check, Goto
  <2>2. at' \in [Calls -> Nat]
    <3>1. at' \in {at, [at EXCEPT ![c] = at[c] + 1]}
      BY <1>9 DEF LoadPart
    <3> QED
      BY <1>1, <3>1
  <2> QED
    BY <1>1, <1>9, <2>1, <2>2 DEF LoadPart, store, operator, history
<1> QED
  BY <1>2, <1>3, <1>4, <1>5, <1>6, <1>7, <1>8, <1>9 DEF Step

LEMMA StepVouching ==
  ASSUME IInv, NEW c \in Calls, Step(c)
  PROVE  Vouching'
<1>1. TypeOK /\ Vouching
  BY DEF IInv
<1> USE DEF Vouching, Approving
<1>2. CASE Begin(c)
  BY <1>1, <1>2 DEF Begin, BeginLoad, Goto, TypeOK, store, operator, history
<1>3. CASE CheckSourceTrust(c) \/ CheckSourceSig(c) \/ LoadRelease(c) \/ LoadTrust(c) \/ LoadSig(c)
           \/ WriteFails(c) \/ Crash(c)
  BY <1>1, <1>3 DEF CheckSourceTrust, CheckSourceSig, LoadRelease, LoadTrust, LoadSig,
                    WriteFails, Crash, Check, Goto, TypeOK, store, history
<1>4. CASE CheckSourcePolicy(c)
  <2> DEFINE r == [path |-> task[c].path, policy |-> policyFile[task[c].path]]
  <2>1. r.policy \in Granting => r \in [path: Paths, policy: Granting]
    BY <1>1 DEF TypeOK
  <2> HIDE DEF r
  <2>2. /\ record' = [record EXCEPT ![c] = r] /\ UNCHANGED approval
        /\ \/ /\ r.policy \in Granting /\ vouched' = vouched \cup {r}
              /\ pc' = [pc EXCEPT ![c] = "write"]
           \/ vouched' = vouched /\ pc' = [pc EXCEPT ![c] = "failed"]
    BY <1>4 DEF CheckSourcePolicy, FirstWrite, Check, Goto, r, store
  <2> QED
    BY <1>1, <2>1, <2>2 DEF TypeOK
<1>5. CASE WriteFile(c) \/ ReadAttestation(c) \/ WriteSig(c)
  BY <1>1, <1>5 DEF WriteFile, ReadAttestation, WriteSig, Goto, TypeOK, store, history
<1>6. CASE WriteApproval(c)
  BY <1>1, <1>6 DEF WriteApproval, ApprovalOf, BeginLoad, Goto, TypeOK
<1>7. CASE LoadApproval(c) \/ LoadPolicy(c) \/ LoadPart(c)
  BY <1>1, <1>7 DEF LoadApproval, LoadPolicy, LoadPart, Check, Goto, TypeOK, store, history
<1> QED
  BY <1>2, <1>3, <1>4, <1>5, <1>6, <1>7 DEF Step

LEMMA StepLate ==
  ASSUME IInv, NEW c \in Calls, Step(c)
  PROVE  Late'
<1>1. TypeOK /\ Late
  BY DEF IInv
<1>2. CASE Begin(c) \/ WriteApproval(c)
  BY <1>1, <1>2 DEF Begin, WriteApproval, BeginLoad, Goto, TypeOK, Late, operator, history
<1>3. CASE LoadTrust(c) \/ LoadRelease(c) \/ Crash(c) \/ WriteFails(c)
  BY <1>1, <1>3 DEF LoadTrust, LoadRelease, Crash, WriteFails, Check, Goto, TypeOK, Late,
                    operator, history
<1>4. CASE pc[c] \notin {"idle", "release", "trust", "failed", "crashed"} /\ UNCHANGED <<late, revoked>>
           /\ \A d \in Calls \ {c} : pc'[d] = pc[d]
  BY <1>1, <1>4 DEF Late
<1> QED
  BY <1>1, <1>2, <1>3, <1>4
  DEF Step, CheckSourceTrust, CheckSourceSig, CheckSourcePolicy, WriteFile, ReadAttestation,
      WriteSig, LoadSig, LoadApproval, LoadPolicy, LoadPart, Check, Goto, TypeOK,
      operator, history

\* A call edits nothing of the operator's.
LEMMA StepOperator ==
  ASSUME NEW c \in Calls, Step(c)
  PROVE  UNCHANGED operator
BY DEF Step, Begin, CheckSourceTrust, CheckSourceSig, CheckSourcePolicy, WriteFile,
       ReadAttestation, WriteSig, WriteApproval, WriteFails, LoadRelease, LoadTrust, LoadSig,
       LoadApproval, LoadPolicy, LoadPart, Crash

\* Files only ever become what was signed, so what is written stays written.
LEMMA StepComplete ==
  ASSUME IInv, NEW c \in Calls, Step(c)
  PROVE  Complete'
<1> SUFFICES ASSUME ~damaged'
             PROVE  /\ \A d \in Calls : Progress(d)'
                    /\ approval' # None =>
                         sig' # "none" /\ \A i \in DOMAIN Files : file'[Files[i]] = "signed"
  BY DEF Complete
<1>0. ~damaged
  BY StepOperator DEF operator
<1>1. /\ TypeOK /\ \A d \in Calls : Progress(d)
      /\ approval # None => sig # "none" /\ \A i \in DOMAIN Files : file[Files[i]] = "signed"
  BY <1>0 DEF IInv, Complete
<1>2. \A i \in DOMAIN Files : file[Files[i]] = "signed" => file'[Files[i]] = "signed"
  BY <1>1, FilesShape
  DEF TypeOK, Step, Begin, CheckSourceTrust, CheckSourceSig, CheckSourcePolicy, WriteFile,
      ReadAttestation, WriteSig, WriteApproval, WriteFails, LoadRelease, LoadTrust, LoadSig,
      LoadApproval, LoadPolicy, LoadPart, Crash, store
<1>3. sig # "none" => sig' # "none"
  BY <1>1
  DEF TypeOK, Step, Begin, CheckSourceTrust, CheckSourceSig, CheckSourcePolicy, WriteFile,
      ReadAttestation, WriteSig, WriteApproval, WriteFails, LoadRelease, LoadTrust, LoadSig,
      LoadApproval, LoadPolicy, LoadPart, Crash, store
<1>4. \A d \in Calls \ {c} : pc'[d] = pc[d] /\ at'[d] = at[d]
  BY <1>1
  DEF TypeOK, Step, Begin, BeginLoad, CheckSourceTrust, CheckSourceSig, CheckSourcePolicy,
      WriteFile, ReadAttestation, WriteSig, WriteApproval, WriteFails, LoadRelease, LoadTrust,
      LoadSig, LoadApproval, LoadPolicy, LoadPart, Crash, Check, Goto
<1>5. \A d \in Calls \ {c} : Progress(d)'
  BY <1>1, <1>2, <1>3, <1>4 DEF Progress
<1>6. approval' # None =>
        sig' # "none" /\ \A i \in DOMAIN Files : file'[Files[i]] = "signed"
  <2>1. CASE WriteApproval(c)
    BY <1>1, <1>2, <1>3, <2>1 DEF WriteApproval, Progress
  <2>2. CASE ~WriteApproval(c)
    <3>1. UNCHANGED approval
      BY <2>2
      DEF Step, Begin, CheckSourceTrust, CheckSourceSig, CheckSourcePolicy, WriteFile,
          ReadAttestation, WriteSig, WriteFails, LoadRelease, LoadTrust, LoadSig,
          LoadApproval, LoadPolicy, LoadPart, Crash, store
    <3> QED
      BY <1>1, <1>2, <1>3, <3>1
  <2> QED
    BY <2>1, <2>2
<1>7. Progress(c)'
  <2>1. CASE CheckSourcePolicy(c)
    <3>1. pc'[c] \in {"write", "failed"} /\ at'[c] = 1
      BY <1>1, <2>1 DEF Progress, CheckSourcePolicy, FirstWrite, Check, Goto, TypeOK
    <3> QED
      BY <3>1, FilesShape DEF Progress
  <2>2. CASE WriteFile(c)
    <3>1. /\ at[c] \in DOMAIN Files /\ at'[c] = at[c] + 1 /\ at[c] \in Nat
          /\ file'[Files[at[c]]] = "signed"
          /\ pc'[c] = IF at[c] = Len(Files) THEN "attest" ELSE "write"
          /\ \A i \in DOMAIN Files : i < at[c] => file[Files[i]] = "signed"
      BY <1>1, <2>2, FilesShape DEF WriteFile, Progress, Goto, TypeOK
    <3>2. \A i \in DOMAIN Files : i < at'[c] => file'[Files[i]] = "signed"
      BY <1>2, <3>1, FilesShape
    <3> QED
      BY <3>1, <3>2, FilesShape DEF Progress
  <2>3. CASE ReadAttestation(c) \/ WriteSig(c)
    <3>1. \A i \in DOMAIN Files : file[Files[i]] = "signed"
      BY <1>1, <2>3 DEF Progress, ReadAttestation, WriteSig
    <3>2. /\ pc'[c] \in {"writeSig", "writeApproval", "failed"}
          /\ pc'[c] = "writeApproval" => sig' # "none"
      BY <1>1, <2>3 DEF ReadAttestation, WriteSig, Goto, TypeOK
    <3> QED
      BY <1>2, <3>1, <3>2 DEF Progress
  <2>4. CASE ~CheckSourcePolicy(c) /\ ~WriteFile(c) /\ ~ReadAttestation(c) /\ ~WriteSig(c)
    <3>1. /\ pc'[c] \notin Approving
          /\ pc'[c] \in {"idle", "sourceTrust", "sourceSig", "sourcePolicy"} => at'[c] = 1
      BY <1>1, <2>4
      DEF TypeOK, Progress, Approving, Step, Begin, BeginLoad, CheckSourceTrust, CheckSourceSig,
          WriteApproval, WriteFails, LoadRelease, LoadTrust,
          LoadSig, LoadApproval, LoadPolicy, LoadPart, Crash, Check, Goto
    <3> QED
      BY <3>1 DEF Progress, Approving
  <2> QED
    BY <2>1, <2>2, <2>3, <2>4
<1> QED
  BY <1>5, <1>6, <1>7

\* The operator touches neither approvals nor calls.
LEMMA OperatorStep ==
  ASSUME IInv,
         \/ \E path \in Paths : EditPolicy(path)
         \/ Revoke \/ ChangeSidecar
         \/ \E f \in FileSet : Damage(f)
  PROVE  IInv'
<1>1. /\ UNCHANGED <<sig, approval, pc, task, at, copied, record, history>>
      /\ revoked => revoked'
      /\ ~damaged' => ~damaged /\ UNCHANGED file
  BY DEF EditPolicy, Revoke, ChangeSidecar, Damage, store, operator
<1>2. TypeOK'
  <2> USE DEF IInv, TypeOK, history
  <2>1. CASE \E path \in Paths : EditPolicy(path)
    BY <2>1 DEF EditPolicy, store
  <2>2. CASE Revoke \/ ChangeSidecar
    BY <2>2 DEF Revoke, ChangeSidecar, store
  <2>3. CASE \E f \in FileSet : Damage(f)
    BY <2>3 DEF Damage, Contents, operator
  <2> QED
    BY <2>1, <2>2, <2>3
<1>3. Vouching' /\ Late'
  BY <1>1 DEF IInv, Vouching, Late, history
<1>4. Complete'
  BY <1>1 DEF IInv, Complete, Progress
<1> QED
  BY <1>2, <1>3, <1>4 DEF IInv

LEMMA NextIInv == IInv /\ [Next]_vars => IInv'
<1> SUFFICES ASSUME IInv, [Next]_vars PROVE IInv'
  OBVIOUS
<1>1. CASE UNCHANGED vars
  BY <1>1 DEF IInv, TypeOK, Vouching, Late, Complete, Progress, vars, store, operator, history
<1>2. ASSUME NEW c \in Calls, Step(c) PROVE IInv'
  BY <1>2, StepType, StepVouching, StepLate, StepComplete DEF IInv
<1> QED
  BY <1>1, <1>2, OperatorStep DEF Next

LEMMA Invariance == Spec => []IInv
BY InitIInv, NextIInv, PTL DEF Spec

\* The release's files, the policies and every call keep their types.
THEOREM TypeCorrect == Spec => []TypeOK
<1>1. IInv => TypeOK
  BY DEF IInv
<1> QED
  BY Invariance, <1>1, PTL

\* A load returns only what an approval checked, for any interleaving of
\* approvals, loads, crashes, policy edits and damage.
THEOREM OnlyVouchedLoads == Spec => []LoadedWasVouched
<1>1. IInv => LoadedWasVouched
  BY DEF IInv, Vouching, Late, LoadedWasVouched
<1> QED
  BY Invariance, <1>1, PTL

\* The approval record is a commit marker, without a lock and for any number
\* of approvals at once.
THEOREM ApprovalAlwaysLast == Spec => []ApprovalIsLast
<1>1. IInv => ApprovalIsLast
  BY FilesShape DEF IInv, Complete, ApprovalIsLast, FileSet
<1> QED
  BY Invariance, <1>1, PTL

-----------------------------------------------------------------------------
(* What holds as long as the operator edits nothing. *)

Loading == {"release", "trust", "sig", "approval", "policy", "parts", "loaded", "crashed"}

Quiet ==
  /\ sidecar = "valid" /\ ~revoked
  /\ sig \in {"none", "valid"}
  /\ \A c \in Calls : pc[c] = "writeSig" => copied[c] = "valid"
  /\ \A r \in vouched : policyFile[r.path] = r.policy
  /\ \A c \in marked : approval # None /\ pc[c] \in Loading /\ at[c] # 0

Stable == ~edited => ~damaged /\ Quiet

LEMMA QuietStep ==
  ASSUME IInv, ~damaged, Quiet, NEW c \in Calls, Step(c)
  PROVE  Quiet'
<1>0. /\ TypeOK /\ Vouching /\ Quiet
      /\ approval # None => sig # "none" /\ \A i \in DOMAIN Files : file[Files[i]] = "signed"
      /\ pc[c] = "writeApproval" => sig # "none"
  BY DEF IInv, Complete, Progress
<1>1. sidecar' = "valid" /\ ~revoked' /\ UNCHANGED policyFile
  BY <1>0
  DEF Quiet, Step, Begin, CheckSourceTrust, CheckSourceSig, CheckSourcePolicy, WriteFile,
      ReadAttestation, WriteSig, WriteApproval, WriteFails, LoadRelease, LoadTrust, LoadSig,
      LoadApproval, LoadPolicy, LoadPart, Crash, operator
<1>2. sig' \in {"none", "valid"}
  BY <1>0
  DEF Quiet, Step, Begin, CheckSourceTrust, CheckSourceSig, CheckSourcePolicy, WriteFile,
      ReadAttestation, WriteSig, WriteApproval, WriteFails, LoadRelease, LoadTrust, LoadSig,
      LoadApproval, LoadPolicy, LoadPart, Crash, store
<1>3. \A d \in Calls \ {c} : pc'[d] = pc[d] /\ at'[d] = at[d] /\ copied'[d] = copied[d]
  BY <1>0
  DEF TypeOK, Step, Begin, BeginLoad, CheckSourceTrust, CheckSourceSig, CheckSourcePolicy,
      WriteFile, ReadAttestation, WriteSig, WriteApproval, WriteFails, LoadRelease, LoadTrust,
      LoadSig, LoadApproval, LoadPolicy, LoadPart, Crash, Check, Goto
<1>4. pc'[c] = "writeSig" => copied'[c] = "valid"
  BY <1>0
  DEF Quiet, TypeOK, Step, Begin, BeginLoad, CheckSourceTrust, CheckSourceSig, CheckSourcePolicy,
      FirstWrite,
      WriteFile, ReadAttestation, WriteSig, WriteApproval, WriteFails, LoadRelease, LoadTrust,
      LoadSig, LoadApproval, LoadPolicy, LoadPart, Crash, Check, Goto
<1>5. \A r \in vouched' : policyFile[r.path] = r.policy
  <2>1. CASE CheckSourcePolicy(c)
    BY <1>0, <2>1 DEF CheckSourcePolicy, Quiet
  <2>2. CASE ~CheckSourcePolicy(c)
    <3>1. UNCHANGED vouched
      BY <2>2
      DEF Step, Begin, BeginLoad, CheckSourceTrust, CheckSourceSig, WriteFile,
          ReadAttestation, WriteSig, WriteApproval, WriteFails, LoadRelease, LoadTrust, LoadSig,
          LoadApproval, LoadPolicy, LoadPart, Crash, history
    <3> QED
      BY <1>0, <3>1 DEF Quiet
  <2> QED
    BY <2>1, <2>2
<1>6. approval # None => approval' # None
  BY <1>0, ReleasesAssumption
  DEF Vouching, Approving, TypeOK, Records, Step, Begin, CheckSourceTrust, CheckSourceSig,
      CheckSourcePolicy, WriteFile, ReadAttestation, WriteSig, WriteApproval, ApprovalOf,
      WriteFails, LoadRelease, LoadTrust, LoadSig, LoadApproval, LoadPolicy, LoadPart, Crash,
      store
<1>7. ASSUME c \in marked'
      PROVE  approval' # None /\ pc'[c] \in Loading /\ at'[c] # 0
  <2>1. CASE Begin(c) \/ WriteApproval(c)
    <3>1. pc[c] \notin Loading
      BY <2>1 DEF Begin, WriteApproval, Loading
    <3>2. c \notin marked
      BY <1>0, <3>1 DEF Quiet
    <3>3. approval' # None /\ pc'[c] = "release" /\ at'[c] = 1
      BY <1>0, <1>7, <2>1, <3>2
      DEF Begin, WriteApproval, BeginLoad, Goto, TypeOK, history
    <3> QED
      BY <3>3 DEF Loading
  <2>2. CASE ~Begin(c) /\ ~WriteApproval(c)
    <3>1. c \in marked /\ approval # None /\ pc[c] \in Loading /\ at[c] # 0
      BY <1>0, <1>7, <2>2
      DEF Quiet, Step, CheckSourceTrust, CheckSourceSig, CheckSourcePolicy, WriteFile,
          ReadAttestation, WriteSig, WriteFails, LoadRelease, LoadTrust, LoadSig,
          LoadApproval, LoadPolicy, LoadPart, Crash, history
    <3>2. sig = "valid" /\ \A i \in DOMAIN Files : file[Files[i]] = "signed"
      BY <1>0, <3>1 DEF Quiet
    <3>3. CASE LoadPart(c)
      <4>1. at[c] > Len(Parts) \/ file[Parts[at[c]]] = "signed"
        BY <1>0, <3>1, <3>2, FilesShape DEF TypeOK
      <4>2. at'[c] \in {at[c], at[c] + 1} /\ at[c] \in Nat
        BY <1>0, <3>3 DEF LoadPart, TypeOK
      <4>3. pc'[c] \in {"loaded", "parts"}
        BY <1>0, <3>3, <4>1 DEF LoadPart, Check, Goto, TypeOK
      <4> QED
        BY <1>6, <3>1, <4>2, <4>3 DEF Loading
    <3>4. CASE LoadPolicy(c)
      <4>1. record[c] \in vouched /\ record[c].policy \in Granting
        BY <1>0, <3>4 DEF LoadPolicy, Check, Vouching
      <4>2. policyFile[record[c].path] = record[c].policy
        BY <1>0, <4>1 DEF Quiet
      <4>3. pc'[c] = "parts" /\ at'[c] = at[c]
        BY <1>0, <3>4, <4>1, <4>2 DEF LoadPolicy, Check, Goto, TypeOK
      <4> QED
        BY <1>6, <3>1, <4>3 DEF Loading
    <3>5. CASE LoadRelease(c) \/ LoadTrust(c) \/ LoadSig(c) \/ LoadApproval(c) \/ Crash(c)
      <4>1. file["release"] = "signed"
        BY <3>2, FilesShape
      <4>2. pc'[c] \in Loading /\ at'[c] = at[c]
        BY <1>0, <3>1, <3>2, <3>5, <4>1
        DEF LoadRelease, LoadTrust, LoadSig, LoadApproval, Crash, Check, Goto, TypeOK, Quiet,
            Loading
      <4> QED
        BY <1>6, <3>1, <4>2
    <3> QED
      BY <2>2, <3>1, <3>3, <3>4, <3>5
      DEF Step, CheckSourceTrust, CheckSourceSig, CheckSourcePolicy, WriteFile,
          ReadAttestation, WriteSig, WriteFails, Writing, Check, Loading
  <2> QED
    BY <2>1, <2>2
<1>8. \A d \in marked' \ {c} : d \in marked
  BY DEF Step, Begin, BeginLoad, CheckSourceTrust, CheckSourceSig, CheckSourcePolicy, WriteFile,
         ReadAttestation, WriteSig, WriteApproval, WriteFails, LoadRelease, LoadTrust, LoadSig,
         LoadApproval, LoadPolicy, LoadPart, Crash, history
<1>9. marked \subseteq Calls
  BY <1>0 DEF TypeOK
<1> QED
  BY <1>0, <1>1, <1>2, <1>3, <1>4, <1>5, <1>6, <1>7, <1>8, <1>9 DEF Quiet

LEMMA StableInvariance == Spec => []Stable
<1>1. Init => Stable
  <2> SUFFICES ASSUME Init PROVE ~damaged /\ Quiet
    BY DEF Stable
  <2> QED
    BY DEF Init, Quiet
<1>2. IInv /\ Stable /\ [Next]_vars => Stable'
  <2> SUFFICES ASSUME IInv, Stable, ~edited', [Next]_vars PROVE (~damaged /\ Quiet)'
    BY DEF Stable
  <2>1. CASE UNCHANGED vars
    BY <2>1 DEF Stable, Quiet, vars, store, operator, history
  <2>2. ASSUME NEW c \in Calls, Step(c) PROVE (~damaged /\ Quiet)'
    <3>1. UNCHANGED <<edited, damaged>>
      BY <2>2, StepOperator DEF operator
    <3> QED
      BY <2>2, <3>1, QuietStep DEF Stable
  <2> QED
    BY <2>1, <2>2 DEF Next, EditPolicy, Revoke, ChangeSidecar, Damage
<1> QED
  BY <1>1, <1>2, Invariance, PTL DEF Spec

\* Nothing but the operator's edits can make a load fail that finds an
\* approval record: re-approvals, failed ones and crashes cannot.
THEOREM ApprovedAlwaysLoadable == Spec => []ApprovedStaysLoadable
<1>1. Stable => ApprovedStaysLoadable
  BY DEF Stable, Quiet, Loading, ApprovedStaysLoadable
<1> QED
  BY StableInvariance, <1>1, PTL

-----------------------------------------------------------------------------
(* Closure: the depth-first traversal of validate_release, for every set of *)
(* releases and every bound.                                               *)

Embedded == release.agents \cup {release.entry}
On(s) == {s[i].node : i \in DOMAIN s}

\* References checked so far: they are pinned, listed and, but for the one
\* whose call is on the stack, visited.
Checked(n, j) == /\ release.refs[n][j].pinned
                 /\ release.refs[n][j].to \in visited

\* The stack is a path from the entry, of distinct agents, at most MaxDepth
\* deep; every frame waits for the next.
Path ==
  /\ Len(stack) <= MaxDepth + 1
  /\ stack # <<>> => stack[1].node = release.entry
  /\ \A i \in DOMAIN stack :
       /\ stack[i].node \in Embedded
       /\ i > 1 => stack[i].node \in release.agents
       /\ stack[i].next <= Len(release.refs[stack[i].node]) + 1
  /\ \A i, k \in DOMAIN stack : i # k => stack[i].node # stack[k].node
  /\ \A i \in DOMAIN stack : i + 1 \in DOMAIN stack =>
       /\ stack[i].next > 1
       /\ release.refs[stack[i].node][stack[i].next - 1].pinned
       /\ release.refs[stack[i].node][stack[i].next - 1].to = stack[i + 1].node

\* active and visited say where each agent is.
Marks ==
  /\ active = On(stack) \ {Workflow}
  /\ visited \subseteq release.agents /\ visited \cap active = {}
  /\ release.entry \in visited \cup active \cup {Workflow}

\* A call checks its references in order.
InOrder == \A i \in DOMAIN stack : \A j \in 1..(stack[i].next - 1) :
  (i + 1 \in DOMAIN stack => j < stack[i].next - 1) => Checked(stack[i].node, j)

\* What a call that has returned needs is pinned and visited.
Finished ==
  /\ \A a \in visited : \A j \in DOMAIN release.refs[a] : Checked(a, j)
  /\ stack = <<>> => \A j \in DOMAIN release.refs[release.entry] : Checked(release.entry, j)

Grounded == \A S \in SUBSET visited : S # {} => \E a \in S : Needs(a) \cap S = {}

\* Only what is needed is visited.
Needed == \A S \in SUBSET release.agents : Closed(S) => visited \cup active \subseteq S

Walk == ClosureTypeOK /\ Path /\ Marks /\ InOrder /\ Finished /\ Grounded /\ Needed

ClosureInv ==
  /\ ClosureTypeOK
  /\ verdict = "running" => Walk
  /\ AcceptedIsWhole /\ RejectedForCause

\* What the assumption says of the release at hand.
LEMMA DocumentShape ==
  ASSUME release \in Documents
  PROVE  /\ release.agents \subseteq Agents /\ Workflow \notin Agents /\ MaxDepth \in Nat
         /\ release.entry \in release.agents \cup {Workflow}
         /\ \A n \in Agents \cup {Workflow} :
              /\ Len(release.refs[n]) \in Nat
              /\ DOMAIN release.refs[n] = 1..Len(release.refs[n])
              /\ \A j \in 1..Len(release.refs[n]) : release.refs[n][j] \in References
<1> SUFFICES ASSUME release \in Documents,
                    NEW n \in Agents \cup {Workflow}
             PROVE  /\ Len(release.refs[n]) \in Nat
                    /\ DOMAIN release.refs[n] = 1..Len(release.refs[n])
                    /\ \A j \in 1..Len(release.refs[n]) : release.refs[n][j] \in References
  BY ClosureAssumption
<1>1. release.refs[n] \in Seq(References)
  BY ClosureAssumption
<1> QED
  BY <1>1

\* The frame a step works on, and the reference it checks.
LEMMA TopShape ==
  ASSUME Walk, stack # <<>>
  PROVE  /\ Len(stack) \in Nat \ {0} /\ DOMAIN stack = 1..Len(stack)
         /\ \A i \in DOMAIN stack : stack[i] \in Frames
         /\ Top \in Frames /\ Top = stack[Len(stack)]
         /\ Top.node \in Embedded /\ Embedded \subseteq Agents \cup {Workflow}
         /\ Checking => /\ Top.next \in DOMAIN release.refs[Top.node]
                        /\ Top.next + 1 <= Len(release.refs[Top.node]) + 1
                        /\ Reference \in References
         /\ Top.node \in active \cup {Workflow}
         /\ Top.node # Workflow => Top.node \in release.agents
         /\ \A j \in 1..(Top.next - 1) : Checked(Top.node, j)
<1>0. release \in Documents /\ stack \in Seq(Frames)
  BY DEF Walk, ClosureTypeOK
<1>1. /\ Len(stack) \in Nat \ {0} /\ DOMAIN stack = 1..Len(stack)
      /\ \A i \in DOMAIN stack : stack[i] \in Frames
  BY <1>0
<1>2. Len(stack) \in DOMAIN stack /\ Len(stack) + 1 \notin DOMAIN stack
  BY <1>1
<1>3. Top \in Frames /\ Top = stack[Len(stack)]
  BY <1>1, <1>2 DEF Top
<1>4. Top.node \in Embedded /\ Embedded \subseteq Agents \cup {Workflow}
  BY <1>0, <1>2, <1>3, DocumentShape DEF Walk, Path, Embedded
<1>5. ASSUME Checking
      PROVE  /\ Top.next \in DOMAIN release.refs[Top.node]
             /\ Top.next + 1 <= Len(release.refs[Top.node]) + 1
             /\ Reference \in References
  <2>1. /\ Len(release.refs[Top.node]) \in Nat
        /\ DOMAIN release.refs[Top.node] = 1..Len(release.refs[Top.node])
        /\ \A j \in 1..Len(release.refs[Top.node]) : release.refs[Top.node][j] \in References
    BY <1>0, <1>4, DocumentShape
  <2>2. Top.next \in Nat \ {0} /\ Top.next <= Len(release.refs[Top.node])
    BY <1>3, <1>5 DEF Checking, Frames
  <2> QED
    BY <2>1, <2>2 DEF Reference
<1>6. Top.node \in active \cup {Workflow}
  BY <1>2, <1>3 DEF Walk, Marks, On
<1>7. \A j \in 1..(Top.next - 1) : Checked(Top.node, j)
  BY <1>2, <1>3 DEF Walk, InOrder
<1>8. Top.node # Workflow => Top.node \in release.agents
  BY <1>0, <1>4, DocumentShape DEF Embedded
<1> QED
  BY <1>1, <1>3, <1>4, <1>5, <1>6, <1>7, <1>8

\* Every agent on the stack is needed by the one below it.
LEMMA StackNeeds ==
  ASSUME Walk, NEW i \in DOMAIN stack, i + 1 \in DOMAIN stack
  PROVE  stack[i + 1].node \in Needs(stack[i].node)
<1>1. /\ release \in Documents /\ stack[i] \in Frames
      /\ stack[i].node \in Agents \cup {Workflow}
      /\ stack[i].next \in Nat \ {0}
  BY TopShape DEF Walk, ClosureTypeOK, Frames
<1>2. /\ stack[i].next > 1 /\ stack[i].next <= Len(release.refs[stack[i].node]) + 1
      /\ release.refs[stack[i].node][stack[i].next - 1].to = stack[i + 1].node
  BY DEF Walk, Path
<1>3. stack[i].next - 1 \in DOMAIN release.refs[stack[i].node]
  BY <1>1, <1>2, DocumentShape
<1> QED
  BY <1>2, <1>3 DEF Needs

\* Only the entry is marked, and it is needed by definition.
LEMMA ClosureInitInv == ClosureInit => ClosureInv
<1> SUFFICES ASSUME ClosureInit PROVE ClosureInv
  OBVIOUS
<1> USE DocumentShape DEF ClosureInit
<1>1. /\ Len(stack) = 1 /\ DOMAIN stack = {1} /\ stack # <<>>
      /\ stack[1] = [node |-> release.entry, next |-> 1]
  OBVIOUS
<1>2. release.entry \in Agents \cup {Workflow}
  OBVIOUS
<1>3. ClosureTypeOK
  BY <1>2 DEF ClosureTypeOK, Frames
<1>4. Path
  BY <1>1, <1>2 DEF Path, Embedded
<1>5. Marks
  BY <1>1 DEF Marks, On
<1>6. InOrder /\ Finished /\ Grounded
  BY <1>1 DEF InOrder, Finished, Grounded
<1>7. Needed
  BY DEF Needed, Closed
<1> QED
  BY <1>3, <1>4, <1>5, <1>6, <1>7 DEF ClosureInv, Walk, AcceptedIsWhole, RejectedForCause

\* A reference to an agent that was visited moves the call on.
LEMMA SkipInv ==
  ASSUME ClosureInv, Skip
  PROVE  ClosureInv'
<1>0. Walk /\ stack # <<>> /\ Checking /\ verdict = "running"
  BY DEF Skip, Checking, ClosureInv
<1>n. PICK n \in Nat \ {0} : n = Len(stack) /\ DOMAIN stack = 1..n
  BY <1>0, TopShape
<1>1. /\ n \in Nat \ {0} /\ DOMAIN stack = 1..n
      /\ \A i \in DOMAIN stack : stack[i] \in Frames
      /\ Top \in Frames /\ Top = stack[n] /\ Top.node \in Embedded
      /\ Top.next \in DOMAIN release.refs[Top.node] /\ Reference \in References
      /\ Embedded \subseteq Agents \cup {Workflow}
  BY <1>0, <1>n, TopShape
<1>2. Reference.pinned /\ Reference.to \in visited
  BY <1>1 DEF Skip, Dangling, References
<1>3. Checked(Top.node, Top.next)
  BY <1>2 DEF Checked, Reference
<1>4. /\ stack' \in Seq(Frames) /\ Len(stack') = n /\ DOMAIN stack' = 1..n /\ stack' # <<>>
      /\ \A i \in 1..n : stack'[i].node = stack[i].node
      /\ \A i \in 1..(n - 1) : stack'[i] = stack[i]
      /\ stack'[n].next = Top.next + 1
  BY <1>0, <1>1 DEF Skip, Advanced, Frames, Walk, ClosureTypeOK
<1>5. UNCHANGED <<release, active, visited, verdict>>
  BY DEF Skip
<1>6. ClosureTypeOK'
  BY <1>0, <1>4, <1>5 DEF Walk, ClosureTypeOK
<1>7. Path'
  <2>1. Top.next + 1 <= Len(release.refs[Top.node]) + 1
    BY <1>0, TopShape
  <2>2. \A i \in 1..n : stack'[i].next <= Len(release.refs[stack[i].node]) + 1
    BY <2>1, <1>0, <1>1, <1>4 DEF Walk, Path
  <2>3. Path
    BY <1>0 DEF Walk
  <2>4. \A i \in 1..n : i + 1 \in 1..n =>
          /\ stack'[i].next > 1
          /\ release.refs[stack'[i].node][stack'[i].next - 1].pinned
          /\ release.refs[stack'[i].node][stack'[i].next - 1].to = stack'[i + 1].node
    <3> SUFFICES ASSUME NEW i \in 1..n, i + 1 \in 1..n
                 PROVE  /\ stack'[i].next > 1
                        /\ release.refs[stack'[i].node][stack'[i].next - 1].pinned
                        /\ release.refs[stack'[i].node][stack'[i].next - 1].to = stack'[i + 1].node
      OBVIOUS
    <3>1. i \in 1..(n - 1)
      BY <1>n
    <3>2. stack'[i] = stack[i] /\ stack'[i + 1].node = stack[i + 1].node
      BY <3>1, <1>4
    <3> QED
      BY <3>2, <2>3, <1>n DEF Path
  <2>5. 1 \in 1..n
    BY <1>n
  <2>6. \A i, k \in 1..n : i # k => stack'[i].node # stack'[k].node
    <3>1. \A i, k \in 1..n : i # k => stack[i].node # stack[k].node
      BY <2>3, <1>n DEF Path
    <3> QED
      BY <3>1, <1>4
  <2>7. \A i \in 1..n : stack'[i].node \in Embedded /\ (i > 1 => stack'[i].node \in release.agents)
    BY <2>3, <1>n, <1>4 DEF Path
  <2>8. \A i \in 1..n : stack'[i].next <= Len(release.refs[stack'[i].node]) + 1
    BY <2>2, <1>4
  <2>9. n <= MaxDepth + 1 /\ stack'[1].node = release.entry
    BY <2>3, <2>5, <1>0, <1>n, <1>4 DEF Path
  <2> QED
    BY <2>4, <2>6, <2>7, <2>8, <2>9, <1>4, <1>5 DEF Path, Embedded
<1>8. Marks'
  <2>1. On(stack)' = On(stack)
    BY <1>1, <1>4 DEF On
  <2> QED
    BY <2>1, <1>0, <1>5 DEF Walk, Marks
<1>9. InOrder'
  <2> SUFFICES ASSUME NEW i \in 1..n, NEW j \in 1..(stack'[i].next - 1),
                      i + 1 \in 1..n => j < stack'[i].next - 1
               PROVE  Checked(stack[i].node, j)
    BY <1>4, <1>5 DEF InOrder, Checked
  <2>1. CASE i = n
    <3>1. j \in 1..(Top.next - 1) \/ j = Top.next
      BY <2>1, <1>1, <1>4 DEF Frames
    <3> QED
      BY <3>1, <2>1, <1>0, <1>1, <1>3, TopShape
  <2>2. CASE i # n
    <3>1. i \in 1..(n - 1) /\ i + 1 \in 1..n
      BY <2>2, <1>n
    <3>2. stack'[i] = stack[i]
      BY <3>1, <1>4
    <3> QED
      BY <3>1, <3>2, <1>0, <1>n DEF Walk, InOrder
  <2> QED
    BY <2>1, <2>2
<1>10. Finished' /\ Grounded' /\ Needed'
  <2>1. Finished /\ Grounded /\ Needed
    BY <1>0 DEF Walk
  <2>2. Finished'
    BY <2>1, <1>4, <1>5 DEF Finished, Checked
  <2>3. Grounded'
    <3>1. \A a : Needs(a)' = Needs(a)
      BY <1>5 DEF Needs
    <3> QED
      BY <2>1, <3>1, <1>5 DEF Grounded
  <2>4. Needed'
    BY <2>1, <1>5 DEF Needed, Closed, Needs
  <2> QED
    BY <2>2, <2>3, <2>4
<1> QED
  BY <1>0, <1>5, <1>6, <1>7, <1>8, <1>9, <1>10
     DEF ClosureInv, Walk, AcceptedIsWhole, RejectedForCause

\* A new agent is on no call yet, so the stack stays a path.
LEMMA EnterInv ==
  ASSUME ClosureInv, Enter
  PROVE  ClosureInv'
<1>0. Walk /\ stack # <<>> /\ Checking /\ verdict = "running"
  BY DEF Enter, Checking, ClosureInv
<1> DEFINE child == Reference.to
<1>n. PICK n \in Nat \ {0} : n = Len(stack) /\ DOMAIN stack = 1..n
  BY <1>0, TopShape
<1>1. /\ n \in Nat \ {0} /\ DOMAIN stack = 1..n
      /\ \A i \in DOMAIN stack : stack[i] \in Frames
      /\ Top \in Frames /\ Top = stack[n] /\ Top.node \in Embedded
      /\ Top.next \in DOMAIN release.refs[Top.node] /\ Reference \in References
      /\ Embedded \subseteq Agents \cup {Workflow}
  BY <1>0, <1>n, TopShape
<1>2. /\ Reference.pinned /\ child \in release.agents /\ child \in Agents /\ child # Workflow
      /\ child \notin active /\ child \notin visited /\ n <= MaxDepth
  BY <1>0, <1>1, ClosureAssumption DEF Enter, Dangling, TooDeep, Cyclic, References, Walk, ClosureTypeOK
<1>3. child \notin On(stack)
  BY <1>0, <1>2 DEF Walk, Marks
<1>4. /\ stack' \in Seq(Frames) /\ Len(stack') = n + 1 /\ DOMAIN stack' = 1..(n + 1) /\ stack' # <<>>
      /\ \A i \in 1..n : stack'[i].node = stack[i].node
      /\ \A i \in 1..(n - 1) : stack'[i] = stack[i]
      /\ stack'[n].next = Top.next + 1
      /\ stack'[n + 1] = [node |-> child, next |-> 1]
  <2>1. /\ Advanced \in Seq(Frames) /\ Len(Advanced) = n /\ DOMAIN Advanced = 1..n
        /\ \A i \in 1..n : Advanced[i].node = stack[i].node
        /\ \A i \in 1..(n - 1) : Advanced[i] = stack[i]
        /\ Advanced[n].next = Top.next + 1
    BY <1>0, <1>1 DEF Advanced, Frames, Walk, ClosureTypeOK
  <2>2. [node |-> child, next |-> 1] \in Frames
    BY <1>2 DEF Frames
  <2>3. stack' = Append(Advanced, [node |-> child, next |-> 1])
    BY DEF Enter
  <2> QED
    BY <2>1, <2>2, <2>3, <1>1
<1>5. UNCHANGED <<release, visited, verdict>> /\ active' = active \cup {child}
  BY DEF Enter
<1>6. ClosureTypeOK'
  BY <1>0, <1>2, <1>4, <1>5 DEF Walk, ClosureTypeOK
<1>7. Path'
  <2>1. Top.next + 1 <= Len(release.refs[Top.node]) + 1
    BY <1>0, TopShape
  <2>2. 1 <= Len(release.refs[child]) + 1
    BY <1>0, <1>2, DocumentShape DEF Walk, ClosureTypeOK
  <2>3. \A i \in 1..(n + 1) : stack'[i].next <= Len(release.refs[stack'[i].node]) + 1
    <3>1. Path
      BY <1>0 DEF Walk
    <3>2. \A i \in 1..(n - 1) : i \in 1..n /\ stack'[i] = stack[i]
      BY <1>n, <1>4
    <3>3. \A i \in 1..(n - 1) : stack'[i].next <= Len(release.refs[stack'[i].node]) + 1
      BY <3>1, <3>2, <1>n DEF Path
    <3>4. n \in 1..n /\ stack'[n].node = Top.node
      BY <1>1, <1>4
    <3>5. \A i \in 1..(n + 1) : i \in 1..(n - 1) \/ i = n \/ i = n + 1
      BY <1>n
    <3>6. stack'[n].next = Top.next + 1 /\ stack'[n + 1].node = child /\ stack'[n + 1].next = 1
      BY <1>4
    <3>7. stack'[n].next <= Len(release.refs[stack'[n].node]) + 1
      BY <3>4, <3>6, <2>1
    <3>8. stack'[n + 1].next <= Len(release.refs[stack'[n + 1].node]) + 1
      BY <3>6, <2>2
    <3> QED
      BY <3>3, <3>5, <3>7, <3>8
  <2>4. \A i, k \in 1..(n + 1) : i # k => stack'[i].node # stack'[k].node
    <3>1. \A i, k \in 1..n : i # k => stack[i].node # stack[k].node
      BY <1>0, <1>1 DEF Walk, Path
    <3>2. \A i \in 1..n : stack[i].node # child
      BY <1>1, <1>3 DEF On
    <3> QED
      BY <3>1, <3>2, <1>1, <1>4
  <2>5. \A i \in 1..(n + 1) : i + 1 \in 1..(n + 1) =>
          /\ stack'[i].next > 1
          /\ release.refs[stack'[i].node][stack'[i].next - 1].pinned
          /\ release.refs[stack'[i].node][stack'[i].next - 1].to = stack'[i + 1].node
    <3> SUFFICES ASSUME NEW i \in 1..n
                 PROVE  /\ stack'[i].next > 1
                        /\ release.refs[stack'[i].node][stack'[i].next - 1].pinned
                        /\ release.refs[stack'[i].node][stack'[i].next - 1].to = stack'[i + 1].node
      <4>1. \A i \in 1..(n + 1) : i + 1 \in 1..(n + 1) => i \in 1..n
        BY <1>n
      <4> QED
        BY <4>1
    <3>1. CASE i = n
      <4>1. Top.next \in Nat \ {0} /\ stack'[n].next - 1 = Top.next /\ stack'[n].node = Top.node
        <5>1. Top.next \in Nat \ {0} /\ Top = stack[n] /\ n \in 1..n
          BY <1>1 DEF Frames
        <5>2. stack'[n].next = Top.next + 1 /\ stack'[n].node = stack[n].node
          BY <5>1, <1>4
        <5> QED
          BY <5>1, <5>2
      <4> QED
        BY <4>1, <3>1, <1>2, <1>4 DEF Reference
    <3>2. CASE i # n
      <4>1. i \in 1..(n - 1) /\ i + 1 \in 1..n
        BY <3>2, <1>n
      <4> QED
        BY <4>1, <1>0, <1>1, <1>4 DEF Walk, Path
    <3> QED
      BY <3>1, <3>2
  <2>6. n + 1 <= MaxDepth + 1 /\ stack'[1].node = release.entry
    <3>1. MaxDepth \in Nat /\ 1 \in 1..n
      BY <1>1, ClosureAssumption
    <3>2. stack[1].node = release.entry
      BY <1>0 DEF Walk, Path
    <3> QED
      BY <3>1, <3>2, <1>1, <1>2, <1>4
  <2>7. \A i \in 1..(n + 1) : stack'[i].node \in Embedded /\ (i > 1 => stack'[i].node \in release.agents)
    <3>1. \A i \in 1..n : stack[i].node \in Embedded /\ (i > 1 => stack[i].node \in release.agents)
      BY <1>0, <1>n DEF Walk, Path
    <3>2. \A i \in 1..(n + 1) : i \in 1..n \/ i = n + 1
      BY <1>n
    <3> QED
      BY <3>1, <3>2, <1>2, <1>4 DEF Embedded
  <2> QED
    BY <2>3, <2>4, <2>5, <2>6, <2>7, <1>4, <1>5 DEF Path, Embedded
<1>8. Marks'
  <2>1. On(stack)' = On(stack) \cup {child}
    <3>1. \A x : x \in On(stack)' <=> x \in On(stack) \/ x = child
      BY <1>1, <1>4 DEF On
    <3> QED
      BY <3>1
  <2>2. active = On(stack) \ {Workflow}
    BY <1>0 DEF Walk, Marks
  <2>3. active' = On(stack)' \ {Workflow}
    BY <2>1, <2>2, <1>2, <1>5
  <2> QED
    BY <2>3, <1>0, <1>2, <1>5 DEF Walk, Marks
<1>9. InOrder'
  <2> SUFFICES ASSUME NEW i \in 1..(n + 1), NEW j \in 1..(stack'[i].next - 1),
                      i + 1 \in 1..(n + 1) => j < stack'[i].next - 1
               PROVE  Checked(stack'[i].node, j)
    BY <1>4, <1>5 DEF InOrder, Checked
  <2>1. i # n + 1
    BY <1>4
  <2>2. CASE i = n
    <3>1. j \in 1..(Top.next - 1) /\ stack'[i].node = Top.node
      BY <2>2, <1>1, <1>4 DEF Frames
    <3> QED
      BY <3>1, <1>0, TopShape
  <2>3. CASE i \in 1..(n - 1)
    BY <2>3, <1>0, <1>1, <1>4 DEF Walk, InOrder
  <2> QED
    BY <2>1, <2>2, <2>3, <1>n
<1>10. Finished' /\ Grounded'
  <2>1. Finished /\ Grounded
    BY <1>0 DEF Walk
  <2>2. Finished'
    BY <2>1, <1>4, <1>5 DEF Finished, Checked
  <2>3. Grounded'
    <3>1. \A a : Needs(a)' = Needs(a)
      BY <1>5 DEF Needs
    <3> QED
      BY <2>1, <3>1, <1>5 DEF Grounded
  <2> QED
    BY <2>2, <2>3
<1>11. Needed'
  <2> SUFFICES ASSUME NEW S \in SUBSET release.agents, Closed(S)
               PROVE  child \in S /\ visited \cup active \subseteq S
    BY <1>5 DEF Needed, Closed, Needs
  <2>1. visited \cup active \subseteq S
    BY <1>0 DEF Walk, Needed
  <2>2. Top.node \in S \cup {release.entry}
    BY <2>1, <1>0, <1>1, TopShape, DocumentShape, ClosureAssumption DEF Walk, ClosureTypeOK, Embedded, Marks
  <2>3. child \in Needs(Top.node)
    BY <1>1 DEF Needs, Reference
  <2> QED
    BY <2>1, <2>2, <2>3 DEF Closed
<1> QED
  BY <1>0, <1>5, <1>6, <1>7, <1>8, <1>9, <1>10, <1>11
     DEF ClosureInv, Walk, AcceptedIsWhole, RejectedForCause

\* All that the call needs is visited, so it grounds what stands on it.
LEMMA ReturnInv ==
  ASSUME ClosureInv, Return
  PROVE  ClosureInv'
<1>0. Walk /\ stack # <<>> /\ verdict = "running" /\ Top.next > Len(release.refs[Top.node])
  BY DEF Return, ClosureInv
<1>n. PICK n \in Nat \ {0} : n = Len(stack) /\ DOMAIN stack = 1..n
  BY <1>0, TopShape
<1> DEFINE node == Top.node
<1>1. /\ \A i \in DOMAIN stack : stack[i] \in Frames
      /\ Top \in Frames /\ Top = stack[n] /\ node \in Embedded
      /\ node \in active \cup {Workflow} /\ (node # Workflow => node \in release.agents)
      /\ Embedded \subseteq Agents \cup {Workflow}
  BY <1>0, <1>n, TopShape
<1>2. /\ stack' = SubSeq(stack, 1, n - 1) /\ stack' \in Seq(Frames)
      /\ Len(stack') = n - 1 /\ DOMAIN stack' = 1..(n - 1)
      /\ \A i \in 1..(n - 1) : stack'[i] = stack[i]
      /\ stack' = <<>> => n = 1
  <2>1. stack \in Seq(Frames)
    BY <1>0 DEF Walk, ClosureTypeOK
  <2>2. stack' = SubSeq(stack, 1, n - 1)
    BY <1>n DEF Return
  <2> QED
    BY <2>1, <2>2, <1>n
<1>3. /\ UNCHANGED <<release, verdict>> /\ active' = active \ {node}
      /\ visited' = visited \cup ({node} \ {Workflow})
  BY DEF Return
<1>4. \A j \in DOMAIN release.refs[node] : Checked(node, j)
  <2>1. \A j \in DOMAIN release.refs[node] : j \in 1..(Top.next - 1)
    BY <1>0, <1>1, DocumentShape DEF Walk, ClosureTypeOK, Frames
  <2> QED
    BY <2>1, <1>0, TopShape
<1>5. Needs(node) \subseteq visited
  BY <1>4 DEF Needs, Checked
<1>7. \A i \in 1..(n - 1) : i \in 1..n
  BY <1>n
<1>8. ClosureTypeOK'
  BY <1>0, <1>1, <1>2, <1>3, DocumentShape DEF Walk, ClosureTypeOK
<1>9. Path'
  <2>1. Path
    BY <1>0 DEF Walk
  <2>2. n - 1 <= MaxDepth + 1
    BY <2>1, <1>n, ClosureAssumption DEF Path
  <2>3. stack' # <<>> => 1 \in 1..(n - 1)
    BY <1>2, <1>n
  <2>4. stack' # <<>> => stack'[1].node = release.entry
    BY <2>1, <2>3, <1>0, <1>2 DEF Path
  <2>5. \A i \in 1..(n - 1) :
          /\ stack'[i].node \in Embedded
          /\ i > 1 => stack'[i].node \in release.agents
          /\ stack'[i].next <= Len(release.refs[stack'[i].node]) + 1
    BY <2>1, <1>2, <1>7, <1>n DEF Path
  <2>6. \A i, k \in 1..(n - 1) : i # k => stack'[i].node # stack'[k].node
    <3>1. \A i, k \in 1..n : i # k => stack[i].node # stack[k].node
      BY <2>1, <1>n DEF Path
    <3> QED
      BY <3>1, <1>2, <1>7
  <2>7. \A i \in 1..(n - 1) : i + 1 \in 1..(n - 1) =>
          /\ stack'[i].next > 1
          /\ release.refs[stack'[i].node][stack'[i].next - 1].pinned
          /\ release.refs[stack'[i].node][stack'[i].next - 1].to = stack'[i + 1].node
    BY <2>1, <1>2, <1>7, <1>n DEF Path
  <2> QED
    BY <2>2, <2>4, <2>5, <2>6, <2>7, <1>2, <1>3 DEF Path, Embedded
<1>10. Marks'
  <2>1. Marks
    BY <1>0 DEF Walk
  <2>2. On(stack)' = On(stack) \ {node}
    <3>1. \A i \in 1..(n - 1) : stack[i].node # node
      BY <1>0, <1>1, <1>n DEF Walk, Path
    <3>2. \A i \in 1..n : i \in 1..(n - 1) \/ i = n
      BY <1>n
    <3>3. On(stack)' = {stack[i].node : i \in 1..(n - 1)}
      BY <1>2 DEF On
    <3>4. On(stack) = {stack[i].node : i \in 1..n}
      BY <1>n DEF On
    <3> QED
      BY <3>1, <3>2, <3>3, <3>4, <1>1, <1>7
  <2>3. active' = On(stack)' \ {Workflow}
    BY <2>1, <2>2, <1>3 DEF Marks
  <2>4. visited' \subseteq release'.agents /\ visited' \cap active' = {}
    BY <2>1, <1>1, <1>3 DEF Marks
  <2>5. release'.entry \in visited' \cup active' \cup {Workflow}
    BY <2>1, <1>3 DEF Marks
  <2> QED
    BY <2>3, <2>4, <2>5 DEF Marks
<1>11. InOrder'
  <2> SUFFICES ASSUME NEW i \in 1..(n - 1), NEW j \in 1..(stack[i].next - 1),
                      i + 1 \in 1..(n - 1) => j < stack[i].next - 1
               PROVE  /\ release.refs[stack[i].node][j].pinned
                      /\ release.refs[stack[i].node][j].to \in visited'
    BY <1>2, <1>3 DEF InOrder, Checked
  <2>1. i \in 1..n /\ i + 1 \in 1..n /\ stack[i].next \in Nat
    BY <1>1, <1>n DEF Frames
  <2>2. CASE j < stack[i].next - 1
    <3>1. Checked(stack[i].node, j)
      BY <2>1, <2>2, <1>0, <1>n DEF Walk, InOrder
    <3> QED
      BY <3>1, <1>3 DEF Checked
  <2>3. CASE j = stack[i].next - 1 /\ i = n - 1
    <3>1. /\ release.refs[stack[i].node][j].pinned
          /\ release.refs[stack[i].node][j].to = node
      BY <2>1, <2>3, <1>0, <1>1, <1>n DEF Walk, Path
    <3>2. node # Workflow
      <4>1. n > 1 /\ n \in 1..n
        BY <2>3, <1>n
      <4>2. node \in release.agents
        BY <4>1, <1>0, <1>1, <1>n DEF Walk, Path
      <4> QED
        BY <4>2, <1>0, DocumentShape DEF Walk, ClosureTypeOK
    <3> QED
      BY <3>1, <3>2, <1>3 DEF Checked
  <2> QED
    BY <2>1, <2>2, <2>3, <1>n
<1>12. Finished'
  <2>1. \A a \in visited : \A j \in DOMAIN release.refs[a] : Checked(a, j)
    BY <1>0 DEF Walk, Finished
  <2>2. ASSUME NEW a \in visited', NEW j \in DOMAIN release.refs[a]
        PROVE  Checked(a, j)'
    <3>1. Checked(a, j)
      BY <2>1, <2>2, <1>3, <1>4
    <3> QED
      BY <3>1, <1>3 DEF Checked
  <2>3. ASSUME stack' = <<>>, NEW j \in DOMAIN release.refs[release.entry]
        PROVE  Checked(release.entry, j)'
    <3>1. stack[1] = Top
      BY <2>3, <1>1, <1>2
    <3>2. release.entry = node
      BY <3>1, <1>0 DEF Walk, Path
    <3>3. Checked(release.entry, j)
      BY <2>3, <3>2, <1>4
    <3> QED
      BY <3>3, <1>3 DEF Checked
  <2>4. release' = release
    BY <1>3
  <2> QED
    BY <2>2, <2>3, <2>4 DEF Finished, Checked
<1>13. Grounded'
  <2>1. Grounded /\ node \notin visited \ {Workflow}
    BY <1>0, <1>1 DEF Walk, Marks
  <2> SUFFICES ASSUME NEW S \in SUBSET visited', S # {}
               PROVE  \E a \in S : Needs(a) \cap S = {}
    <3>1. \A a : Needs(a)' = Needs(a)
      BY <1>3 DEF Needs
    <3> QED
      BY <3>1 DEF Grounded
  <2>2. CASE S \cap visited = {}
    <3>1. node \in S
      BY <2>2, <1>3
    <3>2. Needs(node) \cap S = {}
      BY <2>2, <1>5
    <3> QED
      BY <3>1, <3>2
  <2>3. CASE S \cap visited # {}
    <3>1. PICK a \in S \cap visited : Needs(a) \cap (S \cap visited) = {}
      BY <2>1, <2>3 DEF Grounded
    <3>2. Needs(a) \subseteq visited
      BY <1>0 DEF Walk, Finished, Needs, Checked
    <3> QED
      BY <3>1, <3>2
  <2> QED
    BY <2>2, <2>3
<1>14. Needed'
  <2>1. Needed
    BY <1>0 DEF Walk
  <2>2. visited' \cup active' \subseteq visited \cup active
    BY <1>1, <1>3
  <2> QED
    BY <2>1, <2>2, <1>3 DEF Needed, Closed, Needs
<1> QED
  BY <1>0, <1>3, <1>8, <1>9, <1>10, <1>11, <1>12, <1>13, <1>14
     DEF ClosureInv, Walk, AcceptedIsWhole, RejectedForCause

\* A verdict that refuses has found its cause, and the state stays.
LEMMA RefuseInv ==
  ASSUME ClosureInv, Refuse
  PROVE  ClosureInv'
<1>0. Walk /\ stack # <<>> /\ Checking /\ verdict = "running"
  BY DEF Refuse, Checking, ClosureInv
<1>n. PICK n \in Nat \ {0} : n = Len(stack) /\ DOMAIN stack = 1..n
  BY <1>0, TopShape
<1>1. /\ \A i \in DOMAIN stack : stack[i] \in Frames
      /\ Top = stack[n] /\ Top.node \in Embedded
      /\ Top.next \in DOMAIN release.refs[Top.node] /\ Reference \in References
  BY <1>0, <1>n, TopShape
<1> DEFINE child == Reference.to
<1>2. child \in Needs(Top.node)
  BY <1>1 DEF Needs, Reference
<1>3. ASSUME Dangling
      PROVE  ~Whole
  <2>1. CASE child \notin release.agents
    BY <2>1, <1>1, <1>2 DEF Whole, Closed, Embedded
  <2>2. CASE ~Reference.pinned
    BY <2>2, <1>1 DEF Whole, Reference, Embedded
  <2> QED
    BY <1>3, <2>1, <2>2 DEF Dangling
<1>4. ASSUME ~Dangling, TooDeep
      PROVE  Deep
  <2>1. n = MaxDepth + 1 /\ child \in release.agents
    BY <1>0, <1>4, <1>n, ClosureAssumption DEF Walk, Path, TooDeep, Dangling
  <2> DEFINE path == [i \in 1..(MaxDepth + 2) |-> IF i <= n THEN stack[i].node ELSE child]
  <2>2. path \in [1..(MaxDepth + 2) -> Embedded]
    <3>1. \A i \in 1..(MaxDepth + 2) : i <= n => i \in 1..n
      BY <1>n, ClosureAssumption
    <3>2. \A i \in 1..n : stack[i].node \in Embedded
      BY <1>0, <1>n DEF Walk, Path
    <3> QED
      BY <3>1, <3>2, <2>1 DEF Embedded
  <2>3. path[1] = release.entry
    BY <1>0, <1>n, ClosureAssumption DEF Walk, Path
  <2>4. ASSUME NEW i \in 1..(MaxDepth + 1)
        PROVE  path[i + 1] \in Needs(path[i])
    <3>1. i \in 1..n /\ i \in 1..(MaxDepth + 2) /\ i + 1 \in 1..(MaxDepth + 2)
      BY <2>1, <1>n, ClosureAssumption
    <3>2. path[i] = stack[i].node
      BY <3>1
    <3>3. CASE i = n
      <4>1. path[i + 1] = child
        BY <3>1, <3>3, <1>n
      <4> QED
        BY <4>1, <3>2, <3>3, <1>1, <1>2
    <3>4. CASE i # n
      <4>1. i + 1 \in 1..n
        BY <3>1, <3>4, <1>n
      <4>2. path[i + 1] = stack[i + 1].node
        BY <4>1, <3>1
      <4>3. stack[i + 1].node \in Needs(stack[i].node)
        BY <3>1, <4>1, <1>0, <1>n, StackNeeds
      <4> QED
        BY <4>2, <4>3, <3>2
    <3> QED
      BY <3>3, <3>4
  <2> HIDE DEF path
  <2> QED
    BY <2>2, <2>3, <2>4 DEF Deep, Embedded
<1>5. ASSUME ~Dangling, Cyclic
      PROVE  ~Acyclic
  <2>1. child \in release.agents /\ child # Workflow
    BY <1>0, <1>5, DocumentShape DEF Dangling, Walk, ClosureTypeOK
  <2>2. PICK r \in 1..n : stack[r].node = child
    BY <1>0, <1>5, <1>n DEF Cyclic, Walk, Marks, On
  <2> DEFINE S == {stack[i].node : i \in r..n}
  <2>3. \A i \in r..n : i \in 1..n
    BY <1>n
  <2>4. S \subseteq release.agents
    <3>1. \A i \in r..n : i = r \/ i > 1
      BY <1>n
    <3>2. \A i \in 1..n : i > 1 => stack[i].node \in release.agents
      BY <1>0, <1>n DEF Walk, Path
    <3> QED
      BY <3>1, <3>2, <2>1, <2>2, <2>3
  <2>5. child \in S
    BY <2>2, <1>n
  <2>6. ASSUME NEW i \in r..n
        PROVE  Needs(stack[i].node) \cap S # {}
    <3>1. CASE i = n
      BY <3>1, <2>5, <1>1, <1>2
    <3>2. CASE i # n
      <4>1. i \in 1..n /\ i + 1 \in 1..n /\ i + 1 \in r..n
        BY <3>2, <2>3, <1>n
      <4>2. stack[i + 1].node \in Needs(stack[i].node)
        BY <4>1, <1>0, <1>n, StackNeeds
      <4> QED
        BY <4>1, <4>2
    <3> QED
      BY <3>1, <3>2
  <2>7. \A a \in S : Needs(a) \cap S # {}
    BY <2>6
  <2> HIDE DEF S
  <2> QED
    BY <2>4, <2>5, <2>7 DEF Acyclic
<1>6. ~Whole \/ ~Acyclic \/ Deep
  BY <1>3, <1>4, <1>5 DEF Refuse
<1>7. verdict' = "rejected" /\ UNCHANGED <<release, stack, active, visited>>
  BY DEF Refuse
<1>8. (~Whole \/ ~Acyclic \/ Deep)'
  <2>1. Whole' <=> Whole
    BY <1>7 DEF Whole, Closed, Needs
  <2>2. Acyclic' <=> Acyclic
    BY <1>7 DEF Acyclic, Needs
  <2>3. Deep' <=> Deep
    BY <1>7 DEF Deep, Needs
  <2> QED
    BY <1>6, <2>1, <2>2, <2>3
<1> QED
  BY <1>0, <1>7, <1>8 DEF ClosureInv, Walk, ClosureTypeOK, AcceptedIsWhole, RejectedForCause

\* What is visited is closed, and the least set that is.
LEMMA ConcludeInv ==
  ASSUME ClosureInv, Conclude
  PROVE  ClosureInv'
<1>0. Walk /\ stack = <<>> /\ verdict = "running"
  BY DEF Conclude, ClosureInv
<1>1. active = {}
  BY <1>0 DEF Walk, Marks, On
<1>2. /\ \A a \in visited \cup {release.entry} :
           \A j \in DOMAIN release.refs[a] : Checked(a, j)
      /\ release.entry \in visited \cup {Workflow} /\ visited \subseteq release.agents
  BY <1>0, <1>1 DEF Walk, Finished, Marks
<1>3. Closed(visited)
  BY <1>2 DEF Closed, Needs, Checked
<1>4. \A S \in SUBSET release.agents : Closed(S) => visited \subseteq S
  BY <1>0 DEF Walk, Needed
<1>5. UNCHANGED <<release, stack, active, visited>>
  BY DEF Conclude
<1>6. (Whole' <=> Whole) /\ (Acyclic' <=> Acyclic)
  <2>1. Whole' <=> Whole
    BY <1>5 DEF Whole, Closed, Needs
  <2>2. Acyclic' <=> Acyclic
    BY <1>5 DEF Acyclic, Needs
  <2> QED
    BY <2>1, <2>2
<1>7. CASE visited = release.agents
  <2>1. Whole
    BY <1>2, <1>3, <1>4, <1>7 DEF Whole, Checked
  <2>2. Acyclic
    BY <1>0, <1>7 DEF Walk, Grounded, Acyclic
  <2>3. verdict' = "accepted"
    BY <1>7 DEF Conclude
  <2> QED
    BY <2>1, <2>2, <2>3, <1>0, <1>5, <1>6
       DEF ClosureInv, Walk, ClosureTypeOK, AcceptedIsWhole, RejectedForCause
<1>8. CASE visited # release.agents
  <2>1. ~Whole
    BY <1>2, <1>3, <1>8 DEF Whole
  <2>2. verdict' = "rejected"
    BY <1>8 DEF Conclude
  <2> QED
    BY <2>1, <2>2, <1>0, <1>5, <1>6
       DEF ClosureInv, Walk, ClosureTypeOK, AcceptedIsWhole, RejectedForCause
<1> QED
  BY <1>7, <1>8

\* The stack is a path, visited is closed, grounded and least, for every release.
THEOREM ClosureInvariant == ClosureSpec => []ClosureInv
<1>1. ASSUME ClosureInv, [ClosureNext]_closureVars
      PROVE  ClosureInv'
  <2>1. CASE ClosureNext
    BY <1>1, <2>1, SkipInv, EnterInv, ReturnInv, RefuseInv, ConcludeInv DEF ClosureNext
  <2>2. CASE UNCHANGED closureVars
    <3> USE <2>2 DEF closureVars
    <3>1. \A a : Needs(a)' = Needs(a)
      BY DEF Needs
    <3>2. \A a, j : Checked(a, j)' <=> Checked(a, j)
      BY DEF Checked
    <3>3. (Whole' <=> Whole) /\ (Acyclic' <=> Acyclic) /\ (Deep' <=> Deep)
      BY <3>1 DEF Whole, Closed, Acyclic, Deep
    <3>4. (Path' <=> Path) /\ (Marks' <=> Marks)
      BY DEF Path, Embedded, Marks, On
    <3>5. (InOrder' <=> InOrder) /\ (Finished' <=> Finished)
      BY <3>2 DEF InOrder, Finished
    <3>6. (Grounded' <=> Grounded) /\ (Needed' <=> Needed)
      BY <3>1 DEF Grounded, Needed, Closed
    <3>7. ClosureTypeOK' <=> ClosureTypeOK
      BY DEF ClosureTypeOK
    <3> QED
      BY <1>1, <3>3, <3>4, <3>5, <3>6, <3>7 DEF ClosureInv, Walk, AcceptedIsWhole, RejectedForCause
  <2> QED
    BY <1>1, <2>1, <2>2
<1> QED
  BY <1>1, ClosureInitInv, PTL DEF ClosureSpec

\* The traversal's stack, marks and verdict keep their types.
THEOREM ClosureTypeCorrect == ClosureSpec => []ClosureTypeOK
<1>1. ClosureInv => ClosureTypeOK
  BY DEF ClosureInv
<1> QED
  BY <1>1, ClosureInvariant, PTL

\* validate_release (releases.py:260) accepts only releases that embed, as
\* pinned, exactly what their entry needs, without cycles.
THEOREM AcceptedAlwaysWhole == ClosureSpec => []AcceptedIsWhole
<1>1. ClosureInv => AcceptedIsWhole
  BY DEF ClosureInv
<1> QED
  BY <1>1, ClosureInvariant, PTL

\* It accepts those, and rejects a release only when something is missing,
\* pinned wrongly, not needed, cyclic, or too deep.
THEOREM VerdictAlwaysRight == ClosureSpec => []VerdictIsRight
<1>1. ClosureInv => VerdictIsRight
  BY DEF ClosureInv, VerdictIsRight
<1> QED
  BY <1>1, ClosureInvariant, PTL

-----------------------------------------------------------------------------
(* ReleaseStore: each component keeps its specification in the composition. *)

\* The calls on the store take steps of Releases or none.
THEOREM StoreIsReleases == StoreSpec => Spec
<1>1. StoreInit => Init
  BY DEF StoreInit
<1>2. [StoreNext]_<<vars, closureVars>> => [Next]_vars
  BY DEF StoreNext, Validate, Proceed
<1> QED
  BY <1>1, <1>2, PTL DEF StoreSpec, Spec

\* The validation takes steps of Closure or none.
THEOREM StoreIsClosure == StoreSpec => ClosureSpec
<1>1. StoreInit => ClosureInit
  BY DEF StoreInit
<1>2. [StoreNext]_<<vars, closureVars>> => [ClosureNext]_closureVars
  BY DEF StoreNext, Validate, Proceed
<1> QED
  BY <1>1, <1>2, PTL DEF StoreSpec, ClosureSpec

\* Nothing of the store changes before the release is accepted.
Untouched == verdict # "accepted" =>
  (\A c \in Calls : pc[c] # "loaded") /\ (\A f \in FileSet : file[f] # "signed")

LEMMA StoreUntouched == StoreSpec => []Untouched
<1>1. StoreInit => Untouched
  BY DEF StoreInit, Init, Untouched
<1>2. Untouched /\ [StoreNext]_<<vars, closureVars>> => Untouched'
  <2> SUFFICES ASSUME Untouched, [StoreNext]_<<vars, closureVars>>
               PROVE  Untouched'
    OBVIOUS
  <2>1. CASE Validate
    BY <2>1 DEF Validate, ClosureNext, Refuse, Skip, Enter, Return, Conclude, Checking,
                Untouched, vars, store, FileSet, Files
  <2>2. CASE Proceed
    BY <2>2 DEF Proceed, Untouched, closureVars
  <2>3. CASE UNCHANGED <<vars, closureVars>>
    BY <2>3 DEF Untouched, vars, store, closureVars, FileSet, Files
  <2> QED
    BY <2>1, <2>2, <2>3 DEF StoreNext
<1> QED
  BY <1>1, <1>2, PTL DEF StoreSpec

\* Whatever order its references have, a release whose snapshots an approval
\* has written (releases.py:374) or a load returns (releases.py:449) embeds
\* exactly what its entry needs.
THEOREM OnlyWholeIsUsed == StoreSpec => []UsedIsWhole
<1>1. Untouched /\ AcceptedIsWhole => UsedIsWhole
  BY DEF Untouched, AcceptedIsWhole, UsedIsWhole
<1> QED
  BY <1>1, StoreUntouched, StoreIsClosure, AcceptedAlwaysWhole, PTL
=============================================================================
