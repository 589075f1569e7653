-------------------------------- MODULE Trust --------------------------------
(***************************************************************************)
(* services/trust.py and the install command of presentation/cli.py: which *)
(* signer is approved for an artifact identifier, which keys are revoked,  *)
(* whether a manifest and its sidecar verify, and how they get from a      *)
(* source file to the registry.                                            *)
(*                                                                         *)
(* Commands run in processes of their own, nothing is locked, and each     *)
(* step below is one access to a file.  The files are those of one         *)
(* artifact; other identifiers, its aliases, may approve the same keys.    *)
(* A fingerprint names its key, and a signature its key and its content    *)
(* (attestation.py, external).                                             *)
(***************************************************************************)
EXTENDS Naturals

CONSTANTS Calls,     \* commands
          Ids,       \* artifact identifiers
          Artifact,  \* the identifier in the manifests
          Keys, Versions,
          Authored,  \* signatures that exist: <<content, key>>
          MaxEdits,  \* bound: changes of the source file and its sidecar
          None,
          Torn       \* a key file that was created and not written

ASSUME ConstantsAssumption ==
  /\ Artifact \in Ids /\ Authored \subseteq Versions \X Keys /\ MaxEdits \in Nat
  /\ None \notin Keys \cup Versions \cup Authored /\ Torn \notin Keys /\ Torn # None

VARIABLES call,       \* each command's place and locals
          trusted,    \* the key files of the trust store
          revoked,    \* the fingerprints in the revocation directory
          source,     \* the source's manifest and sidecar
          installed,  \* the registry's manifest and sidecar
          edits,      \* counted for MaxEdits
          approved,   \* history: keys approved for Artifact, ever
          disturbed,  \* history: commands under which another changed a file
          developed   \* history: a development install has written the registry

files == <<trusted, revoked, source, installed>>
vars  == <<call, trusted, revoked, source, installed, edits, approved, disturbed, developed>>

File == [man : Versions \cup {None}, sig : Authored \cup {None}]

Ops    == {"trust", "revoke", "verify", "install", "develop"}
Places == {"new", "check", "exists", "create", "write", "find", "mark", "manifest", "key",
           "revocation", "sidecar", "replace", "copy", "done", "failed"}

TypeOK ==
  /\ call \in [Calls -> [pc : Places, op : Ops, id : Ids, key : Keys \cup {None},
                         data : Versions \cup {None}, barred : SUBSET Keys]]
  /\ disturbed \subseteq Calls
  /\ trusted \in [Ids -> Keys \cup {None, Torn}] /\ revoked \subseteq Keys
  /\ source \in File /\ installed \in File /\ edits \in 0 .. MaxEdits
  /\ approved \subseteq Keys /\ developed \in BOOLEAN

NoCall == [pc |-> "new", op |-> "verify", id |-> Artifact, key |-> None, data |-> None, barred |-> {}]

\* Earlier commands may have approved and revoked keys.
Init ==
  /\ call = [p \in Calls |-> NoCall]
  /\ disturbed = {}
  /\ trusted \in [Ids -> Keys \cup {None}] /\ revoked \in SUBSET Keys
  /\ source \in [man : Versions, sig : Authored \cup {None}]
  /\ installed = [man |-> None, sig |-> None]
  /\ edits = 0 /\ developed = FALSE
  /\ approved = {trusted[Artifact]} \ {None}

At(p, place) == call[p].pc = place

\* The locals of a command that failed or died are gone.
Goto(p, place) ==
  call' = [call EXCEPT ![p] = IF place = "failed" THEN [NoCall EXCEPT !.pc = place]
                                                  ELSE [@ EXCEPT !.pc = place]]

\* A step that only reads.
Read(p, from, to) ==
  At(p, from) /\ Goto(p, to) /\ UNCHANGED <<trusted, revoked, source, installed, edits, approved, developed>>

Begin(p, op, place, i, k) ==
  /\ At(p, "new")
  /\ call' = [call EXCEPT ![p] = [pc |-> place, op |-> op, id |-> i, key |-> k,
                                  data |-> None, barred |-> revoked]]
  /\ UNCHANGED <<trusted, revoked, source, installed, edits, approved, developed>>

Start(p) ==
  \/ \E i \in Ids, k \in Keys : Begin(p, "trust", "check", i, k)
  \/ \E i \in Ids : Begin(p, "revoke", "find", i, None)
  \/ \E op \in {"verify", "install", "develop"} : Begin(p, op, "manifest", Artifact, None)

(***************************************************************************)
(* trust_key.                                                              *)
(***************************************************************************)
Mine(p) == trusted[call[p].id]

CheckRevoked(p) ==
  \/ Read(p, "check", "exists") /\ call[p].key \notin revoked
  \/ Read(p, "check", "failed") /\ call[p].key \in revoked

\* Another key, or one that cannot be read, is refused.
CheckExisting(p) ==
  \/ Read(p, "exists", "create") /\ Mine(p) = None
  \/ Read(p, "exists", "done") /\ Mine(p) = call[p].key
  \/ Read(p, "exists", "failed") /\ Mine(p) \notin {None, call[p].key}

CreateKeyTruncating(p) ==  \* mutant: O_TRUNC for O_EXCL
  /\ At(p, "create") /\ Goto(p, "write")
  /\ trusted' = [trusted EXCEPT ![call[p].id] = Torn]
  /\ UNCHANGED <<revoked, source, installed, edits, approved, developed>>

\* O_EXCL: who comes second is refused.
CreateKey(p) ==
  \/ /\ At(p, "create") /\ Mine(p) = None /\ Goto(p, "write")
     /\ trusted' = [trusted EXCEPT ![call[p].id] = Torn]
     /\ UNCHANGED <<revoked, source, installed, edits, approved, developed>>
  \/ Read(p, "create", "failed") /\ Mine(p) # None

\* A write that fails or never comes leaves the file empty (Fail).
WriteKey(p) ==
  /\ At(p, "write") /\ Goto(p, "done")
  /\ trusted' = [trusted EXCEPT ![call[p].id] = call[p].key]
  /\ approved' = (IF call[p].id = Artifact THEN approved \cup {call[p].key} ELSE approved)
  /\ UNCHANGED <<revoked, source, installed, edits, developed>>

(***************************************************************************)
(* revoke_key.                                                             *)
(***************************************************************************)
FindKey(p) ==
  \/ /\ At(p, "find") /\ Mine(p) \in Keys
     /\ call' = [call EXCEPT ![p].pc = "mark", ![p].key = Mine(p)]
     /\ UNCHANGED <<trusted, revoked, source, installed, edits, approved, developed>>
  \/ Read(p, "find", "failed") /\ Mine(p) \in {None, Torn}

Revoke(p) ==
  /\ At(p, "mark") /\ Goto(p, "done") /\ revoked' = revoked \cup {call[p].key}
  /\ UNCHANGED <<trusted, source, installed, edits, approved, developed>>

(***************************************************************************)
(* require_trusted_manifest, of the registry's file for verify and of the  *)
(* source for install.                                                     *)
(***************************************************************************)
Subject(p) == IF call[p].op = "verify" THEN installed ELSE source

ReadManifest(p) ==
  \/ /\ At(p, "manifest") /\ Subject(p).man # None
     /\ call' = [call EXCEPT ![p].pc = IF call[p].op = "develop" THEN "replace" ELSE "key",
                             ![p].data = Subject(p).man]
     /\ UNCHANGED <<trusted, revoked, source, installed, edits, approved, developed>>
  \/ Read(p, "manifest", "failed") /\ Subject(p).man = None

ReadKey(p) ==
  \/ /\ At(p, "key") /\ Mine(p) \in Keys
     /\ call' = [call EXCEPT ![p].pc = "revocation", ![p].key = Mine(p)]
     /\ UNCHANGED <<trusted, revoked, source, installed, edits, approved, developed>>
  \/ Read(p, "key", "failed") /\ Mine(p) \in {None, Torn}

RevokedHereOnly(p) ==  \* mutant: a revocation through an alias is not seen
  \E q \in Calls : call[q].op = "revoke" /\ call[q].id = Artifact /\ At(q, "done") /\ call[q].key = call[p].key

IsRevoked(p) == call[p].key \in revoked

CheckRevocation(p) ==
  \/ Read(p, "revocation", "sidecar") /\ ~IsRevoked(p)
  \/ Read(p, "revocation", "failed") /\ IsRevoked(p)

Matches(sig, man, k) == sig # None /\ sig = <<man, k>>

CheckSidecar(p) ==
  \/ /\ Read(p, "sidecar", IF call[p].op = "install" THEN "replace" ELSE "done")
     /\ Matches(Subject(p).sig, call[p].data, call[p].key)
  \/ Read(p, "sidecar", "failed") /\ ~Matches(Subject(p).sig, call[p].data, call[p].key)

(***************************************************************************)
(* _install: two files, each replaced atomically.                          *)
(***************************************************************************)
ReplaceManifestByCopy(p) ==  \* mutant: the source file is copied, not the data verified
  /\ At(p, "replace") /\ Goto(p, "copy") /\ installed' = [installed EXCEPT !.man = source.man]
  /\ developed' = (developed \/ call[p].op = "develop")
  /\ UNCHANGED <<trusted, revoked, source, edits, approved>>

ReplaceManifest(p) ==
  /\ At(p, "replace") /\ Goto(p, "copy") /\ installed' = [installed EXCEPT !.man = call[p].data]
  /\ developed' = (developed \/ call[p].op = "develop")
  /\ UNCHANGED <<trusted, revoked, source, edits, approved>>

CopySidecarIfAny(p) ==  \* mutant: a stale sidecar is not removed
  /\ At(p, "copy") /\ Goto(p, "done")
  /\ installed' = [installed EXCEPT !.sig = IF source.sig = None THEN installed.sig ELSE source.sig]
  /\ UNCHANGED <<trusted, revoked, source, edits, approved, developed>>

\* install_attestation: no sidecar at the source removes the registry's.
CopySidecar(p) ==
  /\ At(p, "copy") /\ Goto(p, "done") /\ installed' = [installed EXCEPT !.sig = source.sig]
  /\ UNCHANGED <<trusted, revoked, source, edits, approved, developed>>

\* A read or an atomic_write fails, or the process dies: nothing is undone.
Fail(p) == \E place \in Places \ {"new", "done", "failed"} : Read(p, place, "failed")

Step(p) ==
  \/ CheckRevoked(p) \/ CheckExisting(p) \/ CreateKey(p) \/ WriteKey(p)
  \/ FindKey(p) \/ Revoke(p)
  \/ ReadManifest(p) \/ ReadKey(p) \/ CheckRevocation(p) \/ CheckSidecar(p)
  \/ ReplaceManifest(p) \/ CopySidecar(p) \/ Fail(p)

(***************************************************************************)
(* The author and the operator.                                            *)
(***************************************************************************)
EditManifest ==
  /\ edits < MaxEdits /\ edits' = edits + 1
  /\ \E v \in Versions \ {source.man} : source' = [source EXCEPT !.man = v]
  /\ UNCHANGED <<trusted, revoked, installed, approved, developed>>

\* sign_manifest_file replaces the sidecar atomically.
Sign ==
  /\ edits < MaxEdits /\ edits' = edits + 1
  /\ \E sig \in Authored \cup {None} : sig # source.sig /\ source' = [source EXCEPT !.sig = sig]
  /\ UNCHANGED <<trusted, revoked, installed, approved, developed>>

\* "Deliberate removal of the old approval", not of a file being written.
RemoveApproval ==
  /\ \E i \in Ids : /\ trusted[i] # None /\ ~\E p \in Calls : At(p, "write") /\ call[p].id = i
                    /\ trusted' = [trusted EXCEPT ![i] = None]
  /\ edits < MaxEdits /\ edits' = edits + 1
  /\ UNCHANGED <<revoked, source, installed, approved, developed>>

Operator == EditManifest \/ Sign \/ RemoveApproval

Began(p) == call[p].pc \notin {"new", "failed"}

Next ==
  \/ \E p \in Calls : Start(p) /\ UNCHANGED disturbed
  \/ \E p \in Calls :
       /\ Step(p)
       /\ disturbed' = {q \in Calls \ {p} : Began(q) /\ files' # files} \cup disturbed
  \/ Operator /\ UNCHANGED call /\ disturbed' = {q \in Calls : Began(q)}

Spec == Init /\ [][Next]_vars

(***************************************************************************)
(* Properties.                                                             *)
(***************************************************************************)
\* "Revocation blocks future verification for that fingerprint, including
\* aliases", and "key import never ... unrevokes it": no verification,
\* installation or approval that began after a key was revoked, through
\* whatever identifier, ends well with that key, also when the revocation ran
\* beside the approval that put the key there.
RevocationIsFinal ==
  \A p \in Calls : At(p, "done") /\ call[p].op \in {"trust", "verify", "install"}
                     => call[p].key \notin call[p].barred

\* "A different key requires deliberate removal of the old approval": of several
\* approvals at once, failing and crashing ones too, none replaces, empties or
\* removes a key another has stored.
ApprovalsAreKept ==
  [][\A p \in Calls : Step(p) => \A i \in Ids : trusted[i] \in Keys => trusted'[i] = trusted[i]]_vars

\* "Callers must use this object": what the registry holds was signed by a key
\* that the operator had approved, however the source is edited and signed while
\* it is installed, unless it was installed for development.
InstalledWasSigned ==
  installed.man # None /\ ~developed => \E k \in approved : <<installed.man, k>> \in Authored

\* An installation that ended well, and during and after which nobody else changed a file,
\* leaves a manifest and a sidecar that verify, and for development the
\* source's two files, whatever an earlier installation that crashed between its
\* two files, or one of another version, had left.
InstalledVerifies ==
  \A p \in Calls :
    At(p, "done") /\ p \notin disturbed =>
      /\ call[p].op = "install" => Matches(installed.sig, installed.man, call[p].key)
      /\ call[p].op \in {"install", "develop"} => installed = source
=============================================================================
