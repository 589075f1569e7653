----------------------------- MODULE Releases ------------------------------
(***************************************************************************)
(* Approving one signed release and loading it (services/releases.py):     *)
(* calls of approve_release and load_approved_release on the directory of  *)
(* one release digest. The directory holds a snapshot of every manifest,   *)
(* the release, its signature and, written last, the approval record; each *)
(* file is replaced atomically and nothing locks the directory. Calls      *)
(* interleave file by file, crash, and fail to write, while the operator   *)
(* edits policies, revokes the signer, changes the source's sidecar, or    *)
(* damages the installed snapshots.                                        *)
(*                                                                         *)
(* The digest fixes the release's content, so a file is either what was    *)
(* signed or something else.                                               *)
(***************************************************************************)
EXTENDS Naturals, Sequences

CONSTANTS
  Calls,     \* calls of approve_release and load_approved_release
  Parts,     \* the snapshots, in the order they are written
  Paths,     \* where operators keep policies
  Policies,  \* contents of a policy file
  Granting,  \* those that grant all that the release requests
  None

ASSUME ReleasesAssumption ==
  /\ Parts \in Seq(STRING) /\ "release" \notin {Parts[i] : i \in DOMAIN Parts}
  /\ Granting \subseteq Policies
  /\ None \notin [path: Paths, policy: Policies]

VARIABLES
  file,        \* content of each snapshot and of release.json
  sig,         \* release.json.sig
  approval,    \* approval.json, or None
  policyFile,  \* content of the policy at each path
  revoked,     \* the signer is revoked
  sidecar,     \* the signature beside the source the operator approves
  edited,      \* the operator or another program has changed something (history)
  damaged,     \* a file of the store has been damaged (history)
  pc,          \* where each call is
  task,        \* what each call does; approve is given a policy path
  at,          \* index of the next snapshot to write or to check
  copied,      \* the attestation approve has read for the store
  record,      \* what approve has checked, and what load has read
  late,        \* calls that began to load after the revocation (history)
  marked,      \* calls that began to load with an approval there (history)
  vouched      \* every policy approve has checked, with its path (history)

store == <<file, sig, approval>>
operator == <<policyFile, revoked, sidecar, edited, damaged>>
history == <<late, marked, vouched>>
vars == <<store, operator, pc, task, at, copied, record, history>>

Files == Parts \o <<"release">>
FileSet == {Files[i] : i \in DOMAIN Files}
Records == [path: Paths, policy: Policies]
Contents == {"none", "signed", "other"}
Signatures == {"none", "valid", "other"}

TypeOK ==
  /\ file \in [FileSet -> Contents]
  /\ sig \in Signatures /\ sidecar \in Signatures
  /\ approval \in Records \cup {None}
  /\ policyFile \in [Paths -> Policies]
  /\ revoked \in BOOLEAN /\ edited \in BOOLEAN /\ damaged \in BOOLEAN
  /\ pc \in [Calls -> {"idle", "sourceTrust", "sourceSig", "sourcePolicy", "write",
                       "attest", "writeSig", "writeApproval", "release", "trust", "sig",
                       "approval", "policy", "parts", "loaded", "failed", "crashed"}]
  /\ task \in [Calls -> [op: {"approve", "load"}, path: Paths]]
  /\ at \in [Calls -> Nat]
  /\ copied \in [Calls -> Signatures]
  /\ record \in [Calls -> Records \cup {None}]
  /\ late \subseteq Calls /\ marked \subseteq Calls /\ vouched \subseteq Records

Init ==
  /\ file = [f \in FileSet |-> "none"] /\ sig = "none" /\ approval = None
  /\ policyFile \in [Paths -> Policies] /\ revoked = FALSE /\ sidecar = "valid"
  /\ edited = FALSE /\ damaged = FALSE
  /\ pc = [c \in Calls |-> "idle"]
  /\ task \in [Calls -> [op: {"approve", "load"}, path: Paths]]
  /\ at = [c \in Calls |-> 1]
  /\ copied = [c \in Calls |-> "none"] /\ record = [c \in Calls |-> None]
  /\ late = {} /\ marked = {} /\ vouched = {}

Goto(c, to) == pc' = [pc EXCEPT ![c] = to]

\* A step that goes on only if what it read is acceptable.
Check(c, from, ok, to) ==
  /\ pc[c] = from
  /\ Goto(c, IF ok THEN to ELSE "failed")

\* The beginning of load_approved_release, on its own or at approve's end.
BeginLoad(c) ==
  /\ Goto(c, "release")
  /\ late' = IF revoked THEN late \cup {c} ELSE late
  /\ marked' = IF approval' # None THEN marked \cup {c} ELSE marked
  /\ at' = [at EXCEPT ![c] = 1]
  /\ UNCHANGED vouched

Begin(c) ==
  /\ pc[c] = "idle"
  /\ UNCHANGED <<store, operator, task, copied, record>>
  /\ \/ /\ task[c].op = "approve" /\ Goto(c, "sourceTrust")
        /\ UNCHANGED <<at, history>>
     \/ task[c].op = "load" /\ BeginLoad(c)

-----------------------------------------------------------------------------
(* approve_release *)

\* require_trusted_manifest: revocation is read, and then the sidecar.
CheckSourceTrust(c) ==
  /\ Check(c, "sourceTrust", ~revoked, "sourceSig")
  /\ UNCHANGED <<store, operator, task, at, copied, record, history>>

CheckSourceSig(c) ==
  /\ Check(c, "sourceSig", sidecar = "valid", "sourcePolicy")
  /\ UNCHANGED <<store, operator, task, at, copied, record, history>>

FirstWriteMarker == "writeApproval"  \* mutant: the marker is not written last

FirstWrite == "write"

\* load_policy and check_policy: this policy is what the call approves.
CheckSourcePolicy(c) ==
  LET r == [path |-> task[c].path, policy |-> policyFile[task[c].path]] IN
  /\ Check(c, "sourcePolicy", r.policy \in Granting, FirstWrite)
  /\ record' = [record EXCEPT ![c] = r]
  /\ vouched' = IF r.policy \in Granting THEN vouched \cup {r} ELSE vouched
  /\ UNCHANGED <<store, operator, task, at, copied, late, marked>>

WriteFile(c) ==
  /\ pc[c] = "write"
  /\ file' = [file EXCEPT ![Files[at[c]]] = "signed"]
  /\ at' = [at EXCEPT ![c] = @ + 1]
  /\ Goto(c, IF at[c] = Len(Files) THEN "attest" ELSE "write")
  /\ UNCHANGED <<sig, approval, operator, task, copied, record, history>>

\* The sidecar is read a second time, and no more is asked than that it parses.
ReadAttestation(c) ==
  /\ pc[c] = "attest"
  /\ \/ copied' = [copied EXCEPT ![c] = sidecar] /\ Goto(c, "writeSig")
     \/ sidecar = "other" /\ Goto(c, "failed") /\ UNCHANGED copied
  /\ UNCHANGED <<store, operator, task, at, record, history>>

\* A sidecar that is gone by now is written as null, which no load accepts.
WriteSig(c) ==
  /\ pc[c] = "writeSig"
  /\ sig' = IF copied[c] = "none" THEN "other" ELSE copied[c]
  /\ Goto(c, "writeApproval")
  /\ UNCHANGED <<file, approval, operator, task, at, copied, record, history>>

ApprovalOf(c) == record[c]

WriteApproval(c) ==
  /\ pc[c] = "writeApproval"
  /\ approval' = ApprovalOf(c)
  /\ BeginLoad(c)
  /\ UNCHANGED <<file, sig, operator, task, copied, record>>

Writing == {"write", "writeSig", "writeApproval"}

WriteFailsInPlace(c) ==  \* mutant: files are overwritten in place
  /\ pc[c] \in Writing
  /\ IF pc[c] = "write" THEN file' = [file EXCEPT ![Files[at[c]]] = "other"]
                        ELSE UNCHANGED file
  /\ Goto(c, "failed")
  /\ UNCHANGED <<sig, approval, operator, task, at, copied, record, history>>

\* atomic_write raises: the file keeps its old content.
WriteFails(c) ==
  /\ pc[c] \in Writing
  /\ Goto(c, "failed")
  /\ UNCHANGED <<store, operator, task, at, copied, record, history>>

-----------------------------------------------------------------------------
(* load_approved_release *)

LoadRelease(c) ==
  /\ Check(c, "release", file["release"] = "signed", "trust")
  /\ UNCHANGED <<store, operator, task, at, copied, record, history>>

LoadTrustSkipped(c) ==  \* mutant: revocation is not rechecked
  /\ Check(c, "trust", TRUE, "sig")
  /\ UNCHANGED <<store, operator, task, at, copied, record, history>>

LoadTrust(c) ==
  /\ Check(c, "trust", ~revoked, "sig")
  /\ UNCHANGED <<store, operator, task, at, copied, record, history>>

LoadSig(c) ==
  /\ Check(c, "sig", sig = "valid", "approval")
  /\ UNCHANGED <<store, operator, task, at, copied, record, history>>

LoadApproval(c) ==
  /\ Check(c, "approval", approval # None, "policy")
  /\ record' = [record EXCEPT ![c] = approval]
  /\ UNCHANGED <<store, operator, task, at, copied, history>>

LoadPolicyAnyDigest(c) ==  \* mutant: takes the file's present policy
  LET policy == policyFile[record[c].path] IN
  /\ Check(c, "policy", policy \in Granting, "parts")
  /\ record' = [record EXCEPT ![c].policy = policy]
  /\ UNCHANGED <<store, operator, task, at, copied, history>>

\* The policy at the recorded path must have the recorded digest.
LoadPolicy(c) ==
  LET policy == policyFile[record[c].path] IN
  /\ Check(c, "policy", policy = record[c].policy /\ policy \in Granting, "parts")
  /\ UNCHANGED <<store, operator, task, at, copied, record, history>>

LoadPart(c) ==
  /\ pc[c] = "parts"
  /\ IF at[c] > Len(Parts)
     THEN Goto(c, "loaded") /\ UNCHANGED at
     ELSE /\ Check(c, "parts", file[Parts[at[c]]] = "signed", "parts")
          /\ at' = [at EXCEPT ![c] = @ + 1]
  /\ UNCHANGED <<store, operator, task, copied, record, history>>

Crash(c) ==
  /\ pc[c] \notin {"idle", "loaded", "failed", "crashed"}
  /\ Goto(c, "crashed")
  /\ UNCHANGED <<store, operator, task, at, copied, record, history>>

-----------------------------------------------------------------------------
(* The operator and other programs *)

EditPolicy(path) ==
  /\ \E policy \in Policies \ {policyFile[path]} : policyFile' = [policyFile EXCEPT ![path] = policy]
  /\ edited' = TRUE
  /\ UNCHANGED <<store, revoked, sidecar, damaged, pc, task, at, copied, record, history>>

Revoke ==
  /\ ~revoked
  /\ revoked' = TRUE /\ edited' = TRUE
  /\ UNCHANGED <<store, policyFile, sidecar, damaged, pc, task, at, copied, record, history>>

ChangeSidecar ==
  /\ sidecar' \in Signatures \ {sidecar} /\ edited' = TRUE
  /\ UNCHANGED <<store, policyFile, revoked, damaged, pc, task, at, copied, record, history>>

Damage(f) ==
  /\ file[f] # "other"
  /\ file' = [file EXCEPT ![f] = "other"]
  /\ edited' = TRUE /\ damaged' = TRUE
  /\ UNCHANGED <<sig, approval, policyFile, revoked, sidecar, pc, task, at, copied, record, history>>

Step(c) ==
  \/ Begin(c)
  \/ CheckSourceTrust(c) \/ CheckSourceSig(c) \/ CheckSourcePolicy(c)
  \/ WriteFile(c) \/ ReadAttestation(c) \/ WriteSig(c) \/ WriteApproval(c) \/ WriteFails(c)
  \/ LoadRelease(c) \/ LoadTrust(c) \/ LoadSig(c) \/ LoadApproval(c)
  \/ LoadPolicy(c) \/ LoadPart(c) \/ Crash(c)

Next ==
  \/ \E c \in Calls : Step(c)
  \/ \E path \in Paths : EditPolicy(path)
  \/ Revoke \/ ChangeSidecar
  \/ \E f \in FileSet : Damage(f)

Spec == Init /\ [][Next]_vars

-----------------------------------------------------------------------------
(* Safety *)

\* Whatever crashed, failed or ran at the same time, a load returns only a
\* policy that grants the release and that some approval checked at that
\* path, and nothing when the signer was revoked before it began, also at the
\* end of an approval that began before that (releases.py:398-449).
LoadedWasVouched ==
  \A c \in Calls : pc[c] = "loaded" =>
    record[c] \in vouched /\ record[c].policy \in Granting /\ c \notin late

\* The approval record commits: once it is there, so is every snapshot, the
\* release and a signature, although nothing is locked (releases.py:374).
ApprovalIsLast ==
  approval # None /\ ~damaged =>
    sig # "none" /\ \A f \in FileSet : file[f] = "signed"

\* As long as the operator edits nothing, an approved release stays loadable:
\* no approval beside or after it, complete, failed or crashed, makes a load
\* fail that finds an approval record (releases.py:374-397).
ApprovedStaysLoadable ==
  ~edited => \A c \in marked : pc[c] # "failed"
=============================================================================
