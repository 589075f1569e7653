---------------------------- MODULE Trust_proofs ----------------------------
(***************************************************************************)
(* Proofs about Trust, for every set of commands, identifiers, keys and    *)
(* manifest versions, and every set of signatures that exist.              *)
(***************************************************************************)
EXTENDS Trust, TLAPS

Trusting   == {"check", "exists", "create", "write"}
Revoking   == {"find", "mark"}
Verifying  == {"manifest", "key", "revocation", "sidecar"}
Installing == {"replace", "copy"}

\* Where a command is tells which command it is and what it holds.
Role(p) ==
  /\ call[p].pc \in Trusting => call[p].op = "trust" /\ call[p].key \in Keys
  /\ call[p].pc \in Revoking => call[p].op = "revoke"
  /\ call[p].pc = "mark" => call[p].key \in Keys
  /\ call[p].pc = "manifest" => call[p].op \in {"verify", "install", "develop"}
  /\ call[p].pc \in Verifying \ {"manifest"} => call[p].op \in {"verify", "install"}
  /\ call[p].pc \in Verifying \cup Installing => call[p].id = Artifact
  /\ call[p].pc \in {"revocation", "sidecar"} => call[p].key \in Keys
  /\ call[p].pc \in {"key", "revocation", "sidecar"} \cup Installing => call[p].data \in Versions
  /\ call[p].pc \in Installing => call[p].op \in {"install", "develop"}

\* A key that was revoked when a command began does not pass its check.
Barring(p) ==
  /\ call[p].barred \subseteq revoked
  /\ \/ call[p].pc \in {"exists", "create", "write", "sidecar"}
     \/ call[p].pc \in {"replace", "copy", "done"} /\ call[p].op \in {"trust", "verify", "install"}
     => call[p].key \notin call[p].barred

\* A key file being written is torn, and has one writer.
Writer(p) ==
  call[p].pc = "write" =>
    /\ trusted[call[p].id] = Torn
    /\ \A q \in Calls \ {p} : call[q].pc = "write" => call[q].id # call[p].id

\* What a checked installation is about to put into the registry is signed
\* by a key that was approved.
Vouched(p) ==
  /\ call[p].pc \in {"revocation", "sidecar"} => call[p].key \in approved
  /\ call[p].pc \in Installing /\ call[p].op = "install" =>
       call[p].key \in approved /\ <<call[p].data, call[p].key>> \in Authored

\* As long as no other changes a file, an installation works on the source as
\* it is, and leaves the registry as the source.
Followed(p) ==
  p \notin disturbed /\ call[p].op \in {"install", "develop"} =>
    /\ call[p].pc \in {"key", "revocation", "sidecar"} \cup Installing => call[p].data = source.man
    /\ call[p].pc \in Installing \cup {"done"} /\ call[p].op = "install" =>
         Matches(source.sig, source.man, call[p].key)
    /\ call[p].pc = "copy" => installed.man = source.man
    /\ call[p].pc = "done" => installed = source

Approvals == trusted[Artifact] \in Keys => trusted[Artifact] \in approved

Commands == \A p \in Calls :
  Role(p) /\ Barring(p) /\ Writer(p) /\ Vouched(p) /\ Followed(p)

IInv == TypeOK /\ Commands /\ Approvals /\ InstalledWasSigned

Command == [pc : Places, op : Ops, id : Ids, key : Keys \cup {None},
            data : Versions \cup {None}, barred : SUBSET Keys]

Moved(p, from, to) == call[p].pc = from /\ call'[p].pc = to

LEMMA InitIInv == Init => IInv
<1> SUFFICES ASSUME Init PROVE IInv
  OBVIOUS
<1>1. NoCall \in Command
  BY ConstantsAssumption DEF NoCall, Command, Places, Ops
<1>2. TypeOK
  <2>1. call \in [Calls -> Command]
    BY <1>1 DEF Init
  <2>2. source \in File /\ installed \in File
    BY DEF Init, File
  <2>3. trusted \in [Ids -> Keys \cup {None, Torn}] /\ revoked \subseteq Keys
    BY DEF Init
  <2>4. approved \subseteq Keys
    <3>1. trusted[Artifact] \in Keys \cup {None}
      BY ConstantsAssumption DEF Init
    <3> QED
      BY <3>1 DEF Init
  <2>5. edits \in 0 .. MaxEdits
    BY ConstantsAssumption DEF Init
  <2>6. developed \in BOOLEAN
    BY DEF Init
  <2> QED
    BY <2>1, <2>2, <2>3, <2>4, <2>5, <2>6 DEF Init, TypeOK, Command
<1>3. Commands
  BY DEF Init, Commands, NoCall, Role, Barring, Writer, Vouched, Followed, Trusting, Revoking,
     Verifying, Installing
<1>4. Approvals /\ InstalledWasSigned
  BY ConstantsAssumption DEF Init, Approvals, InstalledWasSigned
<1> QED
  BY <1>2, <1>3, <1>4 DEF IInv

\* A command that goes to another place keeps what it holds; one that fails
\* holds nothing any more.
LEMMA GotoStep ==
  ASSUME TypeOK, NEW p \in Calls, NEW place \in Places, Goto(p, place)
  PROVE  /\ call' \in [Calls -> Command]
         /\ \A q \in Calls \ {p} : call'[q] = call[q]
         /\ call'[p].pc = place
         /\ place = "failed" => call'[p].barred = {}
         /\ place # "failed" =>
              /\ call'[p].op = call[p].op /\ call'[p].id = call[p].id
              /\ call'[p].key = call[p].key /\ call'[p].data = call[p].data
              /\ call'[p].barred = call[p].barred
<1>1. call \in [Calls -> Command]
  BY DEF TypeOK, Command
<1>2. CASE place = "failed"
  <2>1. /\ [NoCall EXCEPT !.pc = place] \in Command
        /\ [NoCall EXCEPT !.pc = place].pc = place /\ [NoCall EXCEPT !.pc = place].barred = {}
    BY ConstantsAssumption DEF NoCall, Command, Places, Ops
  <2> HIDE DEF NoCall
  <2> QED
    BY <1>1, <1>2, <2>1 DEF Goto
<1>3. CASE place # "failed"
  <2>1. call' = [call EXCEPT ![p] = [call[p] EXCEPT !.pc = place]]
    BY <1>3 DEF Goto
  <2>2. call[p] \in Command
    BY <1>1
  <2> QED
    BY <1>1, <1>3, <2>1, <2>2 DEF Command
<1> QED
  BY <1>2, <1>3

\* A command that reads takes what it read.
LEMMA TakeKey ==
  ASSUME TypeOK, NEW p \in Calls, NEW place \in Places, NEW k \in Keys,
         call' = [call EXCEPT ![p].pc = place, ![p].key = k]
  PROVE  /\ call' \in [Calls -> Command]
         /\ \A q \in Calls \ {p} : call'[q] = call[q]
         /\ call'[p].pc = place /\ call'[p].key = k
         /\ call'[p].op = call[p].op /\ call'[p].id = call[p].id
         /\ call'[p].data = call[p].data /\ call'[p].barred = call[p].barred
<1>1. call \in [Calls -> Command] /\ call[p] \in Command
  BY DEF TypeOK, Command
<1> DEFINE c == [call[p] EXCEPT !.pc = place, !.key = k]
<1>2. /\ c \in Command /\ c.pc = place /\ c.key = k /\ c.op = call[p].op
      /\ c.id = call[p].id /\ c.data = call[p].data /\ c.barred = call[p].barred
  BY <1>1 DEF Command
<1>3. call' = [call EXCEPT ![p] = c]
  BY <1>1
<1> HIDE DEF c
<1> QED
  BY <1>1, <1>2, <1>3

LEMMA TakeData ==
  ASSUME TypeOK, NEW p \in Calls, NEW place \in Places, NEW v \in Versions,
         call' = [call EXCEPT ![p].pc = place, ![p].data = v]
  PROVE  /\ call' \in [Calls -> Command]
         /\ \A q \in Calls \ {p} : call'[q] = call[q]
         /\ call'[p].pc = place /\ call'[p].data = v
         /\ call'[p].op = call[p].op /\ call'[p].id = call[p].id
         /\ call'[p].key = call[p].key /\ call'[p].barred = call[p].barred
<1>1. call \in [Calls -> Command] /\ call[p] \in Command
  BY DEF TypeOK, Command
<1> DEFINE c == [call[p] EXCEPT !.pc = place, !.data = v]
<1>2. /\ c \in Command /\ c.pc = place /\ c.data = v /\ c.op = call[p].op
      /\ c.id = call[p].id /\ c.key = call[p].key /\ c.barred = call[p].barred
  BY <1>1 DEF Command
<1>3. call' = [call EXCEPT ![p] = c]
  BY <1>1
<1> HIDE DEF c
<1> QED
  BY <1>1, <1>2, <1>3

LEMMA SubjectType ==
  ASSUME TypeOK, NEW p \in Calls
  PROVE  Subject(p).man \in Versions \cup {None} /\ Subject(p).sig \in Authored \cup {None}
BY DEF TypeOK, File, Subject

\* What the step of one command does not change.
LEMMA StepFrame ==
  ASSUME TypeOK, NEW p \in Calls, Step(p)
  PROVE  /\ call' \in [Calls -> Command]
         /\ \A q \in Calls \ {p} : call'[q] = call[q]
         /\ \/ call'[p].pc = "failed"
            \/ call'[p].op = call[p].op /\ call'[p].id = call[p].id
               /\ call'[p].barred = call[p].barred
         /\ UNCHANGED <<source, edits>>
         /\ revoked \subseteq revoked' /\ approved \subseteq approved'
<1>1. call \in [Calls -> Command] /\ call[p] \in Command
  BY DEF TypeOK, Command
<1>2. ASSUME NEW from, NEW to \in Places, Read(p, from, to) PROVE
         /\ call' \in [Calls -> Command]
         /\ \A q \in Calls \ {p} : call'[q] = call[q]
         /\ \/ call'[p].pc = "failed"
            \/ call'[p].op = call[p].op /\ call'[p].id = call[p].id
               /\ call'[p].barred = call[p].barred
         /\ UNCHANGED <<source, edits>>
         /\ revoked \subseteq revoked' /\ approved \subseteq approved'
  BY <1>2, GotoStep DEF Read
<1>3. CASE CheckRevoked(p)
  BY <1>2, <1>3 DEF CheckRevoked, Places
<1>4. CASE CheckExisting(p)
  BY <1>2, <1>4 DEF CheckExisting, Places
<1>5. CASE CreateKey(p)
  BY <1>2, <1>5, GotoStep DEF CreateKey, Places
<1>6. CASE WriteKey(p)
  BY <1>6, GotoStep DEF WriteKey, Places
<1>7. CASE FindKey(p)
  BY <1>2, <1>7, TakeKey DEF FindKey, Places
<1>8. CASE Revoke(p)
  BY <1>8, GotoStep DEF Revoke, Places
<1>9. CASE ReadManifest(p)
  BY <1>2, <1>9, TakeData, SubjectType DEF ReadManifest, Places
<1>10. CASE ReadKey(p)
  BY <1>2, <1>10, TakeKey DEF ReadKey, Places
<1>11. CASE CheckRevocation(p)
  BY <1>2, <1>11 DEF CheckRevocation, Places
<1>12. CASE CheckSidecar(p)
  BY <1>2, <1>12 DEF CheckSidecar, Places
<1>13. CASE ReplaceManifest(p) \/ CopySidecar(p)
  BY <1>13, GotoStep DEF ReplaceManifest, CopySidecar, Places
<1>14. CASE Fail(p)
  BY <1>2, <1>14 DEF Fail, Places
<1> QED
  BY <1>3, <1>4, <1>5, <1>6, <1>7, <1>8, <1>9, <1>10, <1>11, <1>12, <1>13, <1>14 DEF Step


\* What the step of one command does to the files: a key file is created or
\* written, a key is revoked, or one of the registry's two files is replaced.
LEMMA StepFiles ==
  ASSUME IInv, NEW p \in Calls, Step(p)
  PROVE  \/ UNCHANGED <<trusted, revoked, installed, approved, developed>>
         \/ /\ call[p].pc = "create" /\ call'[p].pc = "write"
            /\ Mine(p) = None /\ trusted' = [trusted EXCEPT ![call[p].id] = Torn]
            /\ UNCHANGED <<revoked, installed, approved, developed>>
         \/ /\ call[p].pc = "write" /\ call'[p].pc = "done"
            /\ trusted' = [trusted EXCEPT ![call[p].id] = call[p].key]
            /\ approved' = (IF call[p].id = Artifact THEN approved \cup {call[p].key} ELSE approved)
            /\ UNCHANGED <<revoked, installed, developed>>
         \/ /\ call[p].pc = "mark" /\ call'[p].pc = "done"
            /\ revoked' = revoked \cup {call[p].key}
            /\ UNCHANGED <<trusted, installed, approved, developed>>
         \/ /\ call[p].pc = "replace" /\ call'[p].pc = "copy"
            /\ installed' = [installed EXCEPT !.man = call[p].data]
            /\ developed' = (developed \/ call[p].op = "develop")
            /\ UNCHANGED <<trusted, revoked, approved>>
         \/ /\ call[p].pc = "copy" /\ call'[p].pc = "done"
            /\ installed' = [installed EXCEPT !.sig = source.sig]
            /\ UNCHANGED <<trusted, revoked, approved, developed>>
<1>t. TypeOK
  BY DEF IInv
<1>1. CASE CreateKey(p)
  BY <1>t, <1>1, GotoStep DEF CreateKey, Read, At, Places
<1>2. CASE WriteKey(p)
  BY <1>t, <1>2, GotoStep DEF WriteKey, At, Places
<1>3. CASE Revoke(p)
  BY <1>t, <1>3, GotoStep DEF Revoke, At, Places
<1>4. CASE ReplaceManifest(p)
  BY <1>t, <1>4, GotoStep DEF ReplaceManifest, At, Places
<1>5. CASE CopySidecar(p)
  BY <1>t, <1>5, GotoStep DEF CopySidecar, At, Places
<1> QED
  BY <1>1, <1>2, <1>3, <1>4, <1>5 DEF Step, CheckRevoked, CheckExisting, FindKey, ReadManifest,
     ReadKey, CheckRevocation, CheckSidecar, Fail, Read

LEMMA StepTyped ==
  ASSUME IInv, NEW p \in Calls, Step(p), disturbed' \subseteq Calls
  PROVE  TypeOK'
<1>1. TypeOK /\ Role(p)
  BY DEF IInv, Commands
<1>2. call' \in [Calls -> Command] /\ UNCHANGED <<source, edits>>
  BY <1>1, StepFrame
<1>3. /\ trusted' \in [Ids -> Keys \cup {None, Torn}] /\ revoked' \subseteq Keys
      /\ approved' \subseteq Keys
  BY <1>1, StepFiles DEF TypeOK, Role, Trusting
<1>4. installed' \in File /\ developed' \in BOOLEAN
  <2>1. installed \in File /\ source.sig \in Authored \cup {None} /\ developed \in BOOLEAN
    BY <1>1 DEF TypeOK, File
  <2>2. call[p].pc = "replace" => call[p].data \in Versions
    BY <1>1 DEF Role, Installing
  <2> QED
    BY <2>1, <2>2, StepFiles DEF File
<1> QED
  BY <1>1, <1>2, <1>3, <1>4 DEF TypeOK, Command

\* A command comes to write a key file by creating it.
LEMMA WriteEntered ==
  ASSUME TypeOK, NEW p \in Calls, Step(p), call'[p].pc = "write"
  PROVE  /\ call[p].pc = "create" /\ Mine(p) = None
         /\ trusted' = [trusted EXCEPT ![call[p].id] = Torn]
         /\ call'[p].id = call[p].id /\ call'[p].key = call[p].key
<1>1. ASSUME NEW from, NEW to \in Places \ {"write"}, Read(p, from, to) PROVE FALSE
  BY <1>1, GotoStep DEF Read
<1>2. CASE CreateKey(p)
  BY <1>1, <1>2, GotoStep DEF CreateKey, At, Places
<1>3. CASE WriteKey(p) \/ Revoke(p) \/ ReplaceManifest(p) \/ CopySidecar(p)
  BY <1>3, GotoStep DEF WriteKey, Revoke, ReplaceManifest, CopySidecar, Places
<1>4. CASE FindKey(p) \/ ReadKey(p)
  BY <1>1, <1>4, TakeKey DEF FindKey, ReadKey, Places
<1>5. CASE ReadManifest(p)
  <2>1. CASE call[p].op = "develop"
    BY <1>1, <1>5, <2>1, TakeData, SubjectType DEF ReadManifest, Places
  <2>2. CASE call[p].op # "develop"
    BY <1>1, <1>5, <2>2, TakeData, SubjectType DEF ReadManifest, Places
  <2> QED
    BY <2>1, <2>2
<1>6. CASE CheckRevoked(p) \/ CheckExisting(p) \/ CheckRevocation(p) \/ CheckSidecar(p) \/ Fail(p)
  BY <1>1, <1>6 DEF CheckRevoked, CheckExisting, CheckRevocation, CheckSidecar, Fail, Places
<1> QED
  BY <1>2, <1>3, <1>4, <1>5, <1>6 DEF Step

LEMMA OthersKept ==
  ASSUME IInv, NEW p \in Calls, Step(p), NEW q \in Calls \ {p},
         disturbed' = {r \in Calls \ {p} : Began(r) /\ files' # files} \cup disturbed
  PROVE  (Role(q) /\ Barring(q) /\ Writer(q) /\ Vouched(q) /\ Followed(q))'
<1>1. /\ TypeOK /\ Role(q) /\ Barring(q) /\ Writer(q) /\ Writer(p) /\ Vouched(q) /\ Followed(q)
  BY DEF IInv, Commands
<1>2. /\ call'[q] = call[q] /\ source' = source
      /\ revoked \subseteq revoked' /\ approved \subseteq approved'
      /\ \A r \in Calls \ {p} : call'[r] = call[r]
  BY <1>1, StepFrame
<1>3. Role(q)' /\ Barring(q)' /\ Vouched(q)'
  BY <1>1, <1>2 DEF Role, Barring, Vouched
<1>4. Writer(q)'
  <2>1. CASE call[q].pc = "write"
    <3>1. trusted[call[q].id] = Torn /\ call[q].id \in Ids
      BY <1>1, <2>1 DEF Writer, TypeOK
    <3>2. call[p].pc = "write" => call[p].id # call[q].id
      BY <1>1, <2>1 DEF Writer
    <3>3. trusted'[call[q].id] = Torn
      BY <1>1, <3>1, <3>2, StepFiles, ConstantsAssumption DEF Mine, TypeOK
    <3>4. call'[p].pc = "write" => call'[p].id # call[q].id
      BY <1>1, <2>1, <3>1, WriteEntered, ConstantsAssumption DEF Mine
    <3> QED
      BY <1>1, <1>2, <2>1, <3>3, <3>4 DEF Writer
  <2>2. CASE call[q].pc # "write"
    BY <1>2, <2>2 DEF Writer
  <2> QED
    BY <2>1, <2>2
<1>5. Followed(q)'
  <2> SUFFICES ASSUME q \notin disturbed', call[q].pc \notin {"new", "failed"}
               PROVE  Followed(q)'
    BY <1>2 DEF Followed, Installing
  <2>1. installed' = installed /\ q \notin disturbed
    BY DEF Began, files
  <2> QED
    BY <1>1, <1>2, <2>1 DEF Followed
<1> QED
  BY <1>3, <1>4, <1>5

\* Where a step leads its command, what the command reads on the way, and what
\* it then holds.
LEMMA StepMoves ==
  ASSUME TypeOK, NEW p \in Calls, Step(p)
  PROVE  \/ call'[p].pc = "failed" /\ call'[p].barred = {}
         \/ /\ call'[p].op = call[p].op /\ call'[p].id = call[p].id
            /\ call'[p].barred = call[p].barred
            /\ \/ /\ call'[p].key = call[p].key /\ call'[p].data = call[p].data
                  /\ \/ Moved(p, "check", "exists") /\ call[p].key \notin revoked
                     \/ Moved(p, "exists", "create")
                     \/ Moved(p, "exists", "done")
                     \/ Moved(p, "create", "write")
                     \/ Moved(p, "write", "done")
                     \/ Moved(p, "mark", "done")
                     \/ Moved(p, "revocation", "sidecar") /\ call[p].key \notin revoked
                     \/ Moved(p, "sidecar", "done") /\ call[p].op # "install"
                     \/ /\ Moved(p, "sidecar", "replace") /\ call[p].op = "install"
                        /\ Matches(source.sig, call[p].data, call[p].key)
                     \/ /\ Moved(p, "replace", "copy")
                        /\ installed' = [installed EXCEPT !.man = call[p].data]
                     \/ /\ Moved(p, "copy", "done")
                        /\ installed' = [installed EXCEPT !.sig = source.sig]
               \/ /\ Moved(p, "find", "mark")
                  /\ call'[p].key \in Keys /\ call'[p].data = call[p].data
               \/ /\ Moved(p, "manifest", IF call[p].op = "develop" THEN "replace" ELSE "key")
                  /\ call'[p].key = call[p].key
                  /\ call'[p].data = Subject(p).man /\ call'[p].data \in Versions
               \/ /\ Moved(p, "key", "revocation") /\ call'[p].data = call[p].data
                  /\ call'[p].key = Mine(p) /\ Mine(p) \in Keys
<1>1. ASSUME NEW from, Read(p, from, "failed")
      PROVE  call'[p].pc = "failed" /\ call'[p].barred = {}
  BY <1>1, GotoStep DEF Read, Places
<1>2. ASSUME NEW from, NEW to \in Places \ {"failed"}, Read(p, from, to)
      PROVE  /\ call'[p].op = call[p].op /\ call'[p].id = call[p].id
             /\ call'[p].barred = call[p].barred
             /\ call'[p].key = call[p].key /\ call'[p].data = call[p].data
             /\ Moved(p, from, to)
  BY <1>2, GotoStep DEF Read, At, Moved
<1>3. CASE CheckRevoked(p)
  BY <1>1, <1>2, <1>3 DEF CheckRevoked, Places
<1>4. CASE CheckExisting(p)
  BY <1>1, <1>2, <1>4 DEF CheckExisting, Places
<1>5. CASE CreateKey(p)
  <2>1. CASE At(p, "create") /\ Goto(p, "write")
    BY <2>1, GotoStep DEF At, Moved, Places
  <2>2. CASE Read(p, "create", "failed")
    BY <1>1, <2>2
  <2> QED
    BY <1>5, <2>1, <2>2 DEF CreateKey
<1>6. CASE WriteKey(p)
  BY <1>6, GotoStep DEF WriteKey, At, Moved, Places
<1>7. CASE FindKey(p)
  <2>1. CASE Read(p, "find", "failed")
    BY <1>1, <2>1
  <2>2. CASE ~Read(p, "find", "failed")
    <3>1. /\ call[p].pc = "find" /\ Mine(p) \in Keys
          /\ call' = [call EXCEPT ![p].pc = "mark", ![p].key = Mine(p)]
      BY <1>7, <2>2 DEF FindKey, At
    <3>2. /\ call'[p].pc = "mark" /\ call'[p].key = Mine(p)
          /\ call'[p].op = call[p].op /\ call'[p].id = call[p].id
          /\ call'[p].data = call[p].data /\ call'[p].barred = call[p].barred
      <4> HIDE DEF Mine
      <4> QED
        BY <3>1, TakeKey DEF Places
    <3> QED
      BY <3>1, <3>2 DEF Moved
  <2> QED
    BY <2>1, <2>2
<1>8. CASE Revoke(p)
  BY <1>8, GotoStep DEF Revoke, At, Moved, Places
<1>9. CASE ReadManifest(p)
  <2>1. CASE Read(p, "manifest", "failed")
    BY <1>1, <2>1
  <2>2. CASE ~Read(p, "manifest", "failed")
    <3> DEFINE v == Subject(p).man
    <3>1. call[p].pc = "manifest" /\ v \in Versions
      BY <1>9, <2>2, SubjectType DEF ReadManifest, At
    <3>2. call' = [call EXCEPT ![p].pc = IF call[p].op = "develop" THEN "replace" ELSE "key",
                               ![p].data = v]
      BY <1>9, <2>2 DEF ReadManifest
    <3> HIDE DEF v
    <3>3. CASE call[p].op = "develop"
      <4>1. call' = [call EXCEPT ![p].pc = "replace", ![p].data = v]
        BY <3>2, <3>3
      <4>2. /\ call'[p].pc = "replace" /\ call'[p].data = v
            /\ call'[p].op = call[p].op /\ call'[p].id = call[p].id
            /\ call'[p].key = call[p].key /\ call'[p].barred = call[p].barred
        BY <3>1, <4>1, TakeData DEF Places
      <4> QED
        BY <3>1, <3>3, <4>2 DEF Moved, v
    <3>4. CASE call[p].op # "develop"
      <4>1. call' = [call EXCEPT ![p].pc = "key", ![p].data = v]
        BY <3>2, <3>4
      <4>2. /\ call'[p].pc = "key" /\ call'[p].data = v
            /\ call'[p].op = call[p].op /\ call'[p].id = call[p].id
            /\ call'[p].key = call[p].key /\ call'[p].barred = call[p].barred
        BY <3>1, <4>1, TakeData DEF Places
      <4> QED
        BY <3>1, <3>4, <4>2 DEF Moved, v
    <3> QED
      BY <3>3, <3>4
  <2> QED
    BY <2>1, <2>2
<1>10. CASE ReadKey(p)
  <2>1. CASE Read(p, "key", "failed")
    BY <1>1, <2>1
  <2>2. CASE ~Read(p, "key", "failed")
    <3>1. /\ call[p].pc = "key" /\ Mine(p) \in Keys
          /\ call' = [call EXCEPT ![p].pc = "revocation", ![p].key = Mine(p)]
      BY <1>10, <2>2 DEF ReadKey, At
    <3>2. /\ call'[p].pc = "revocation" /\ call'[p].key = Mine(p)
          /\ call'[p].op = call[p].op /\ call'[p].id = call[p].id
          /\ call'[p].data = call[p].data /\ call'[p].barred = call[p].barred
      <4> HIDE DEF Mine
      <4> QED
        BY <3>1, TakeKey DEF Places
    <3> QED
      BY <3>1, <3>2 DEF Moved
  <2> QED
    BY <2>1, <2>2
<1>11. CASE CheckRevocation(p)
  BY <1>1, <1>2, <1>11 DEF CheckRevocation, IsRevoked, Places
<1>12. CASE CheckSidecar(p)
  <2>1. CASE call[p].op = "install"
    BY <1>1, <1>2, <1>12, <2>1 DEF CheckSidecar, Subject, Places
  <2>2. CASE call[p].op # "install"
    BY <1>1, <1>2, <1>12, <2>2 DEF CheckSidecar, Places
  <2> QED
    BY <2>1, <2>2
<1>13. CASE ReplaceManifest(p)
  BY <1>13, GotoStep DEF ReplaceManifest, At, Moved, Places
<1>14. CASE CopySidecar(p)
  BY <1>14, GotoStep DEF CopySidecar, At, Moved, Places
<1>15. CASE Fail(p)
  BY <1>1, <1>15 DEF Fail
<1> QED
  BY <1>3, <1>4, <1>5, <1>6, <1>7, <1>8, <1>9, <1>10, <1>11, <1>12, <1>13, <1>14, <1>15 DEF Step

LEMMA OwnKept ==
  ASSUME IInv, NEW p \in Calls, Step(p),
         disturbed' = {r \in Calls \ {p} : Began(r) /\ files' # files} \cup disturbed
  PROVE  (Role(p) /\ Barring(p) /\ Writer(p) /\ Vouched(p) /\ Followed(p))'
<1>1. TypeOK /\ Role(p) /\ Barring(p) /\ Vouched(p) /\ Followed(p)
  BY DEF IInv, Commands
<1>2. /\ UNCHANGED source /\ revoked \subseteq revoked' /\ approved \subseteq approved'
      /\ \A r \in Calls \ {p} : call'[r] = call[r]
  BY <1>1, StepFrame
<1>3. Role(p)'
  BY <1>1, StepMoves DEF Role, Moved, Trusting, Revoking, Verifying, Installing
<1>4. Barring(p)'
  BY <1>1, <1>2, StepMoves DEF Role, Barring, Moved, Trusting, Revoking, Verifying, Installing
<1>5. Writer(p)'
  <2> SUFFICES ASSUME call'[p].pc = "write" PROVE Writer(p)'
    BY DEF Writer
  <2>1. /\ Mine(p) = None /\ trusted' = [trusted EXCEPT ![call[p].id] = Torn]
        /\ call'[p].id = call[p].id /\ call[p].id \in Ids
    BY <1>1, WriteEntered DEF TypeOK
  <2>2. trusted'[call'[p].id] = Torn
    BY <1>1, <2>1 DEF TypeOK
  <2>3. \A q \in Calls \ {p} : call[q].pc = "write" => trusted[call[q].id] = Torn
    BY DEF IInv, Commands, Writer
  <2> QED
    BY <1>2, <2>1, <2>2, <2>3, ConstantsAssumption DEF Writer, Mine
<1>6. Vouched(p)'
  <2>1. call[p].id = Artifact /\ Mine(p) \in Keys => Mine(p) \in approved
    BY DEF IInv, Approvals, Mine
  <2>2. source.sig \in Authored \cup {None}
    BY <1>1 DEF TypeOK, File
  <2> QED
    BY <1>1, <1>2, <2>1, <2>2, StepMoves DEF Role, Vouched, Matches, Moved, Trusting, Revoking,
       Verifying, Installing
<1>7. Followed(p)'
  <2> SUFFICES ASSUME p \notin disturbed', call'[p].op \in {"install", "develop"},
                      call'[p].pc # "failed"
               PROVE  Followed(p)'
    BY DEF Followed, Verifying, Installing
  <2>1. p \notin disturbed /\ call[p].op = call'[p].op /\ Subject(p) = source
    BY StepMoves, <1>1 DEF Subject
  <2>2. call'[p].pc = "copy" => installed'.man = source.man
    <3> SUFFICES ASSUME call'[p].pc = "copy" PROVE installed'.man = source.man
      OBVIOUS
    <3>1. call[p].pc = "replace" /\ call[p].data = source.man
      BY <1>1, <2>1, StepMoves DEF Moved, Followed, Installing
    <3> QED
      BY <1>1, <2>1, <3>1, StepMoves DEF TypeOK, File, Moved
  <2>3. call'[p].pc = "done" => installed' = source
    <3> SUFFICES ASSUME call'[p].pc = "done" PROVE installed' = source
      OBVIOUS
    <3>1. call[p].pc = "copy" /\ installed.man = source.man
      BY <1>1, <2>1, StepMoves DEF Moved, Role, Followed, Trusting, Revoking, Verifying
    <3>2. installed' = [installed EXCEPT !.sig = source.sig]
      BY <1>1, <2>1, <3>1, StepMoves DEF Moved
    <3> QED
      BY <1>1, <3>1, <3>2 DEF TypeOK, File
  <2> QED
    BY <1>1, <1>2, <2>1, <2>2, <2>3, StepMoves DEF Role, Followed, Matches, Moved, Trusting,
       Revoking, Verifying, Installing
<1> QED
  BY <1>3, <1>4, <1>5, <1>6, <1>7

\* An approval is recorded as one when it is written, and the registry's
\* manifest is replaced by one that is vouched for.
LEMMA StoreKept ==
  ASSUME IInv, NEW p \in Calls, Step(p)
  PROVE  (Approvals /\ InstalledWasSigned)'
<1>1. /\ TypeOK /\ Role(p) /\ Vouched(p) /\ Approvals /\ InstalledWasSigned
  BY DEF IInv, Commands
<1>2. Approvals'
  BY <1>1, StepFiles, ConstantsAssumption DEF Approvals, TypeOK
<1>3. InstalledWasSigned'
  <2>1. CASE UNCHANGED <<installed, developed>>
    BY <1>1, <2>1, StepFrame DEF InstalledWasSigned
  <2>2. CASE /\ call[p].pc = "replace" /\ installed' = [installed EXCEPT !.man = call[p].data]
             /\ developed' = (developed \/ call[p].op = "develop") /\ approved' = approved
    BY <1>1, <2>2 DEF InstalledWasSigned, TypeOK, File, Role, Vouched, Installing
  <2>3. CASE installed' = [installed EXCEPT !.sig = source.sig] /\ UNCHANGED <<approved, developed>>
    BY <1>1, <2>3 DEF InstalledWasSigned, TypeOK, File
  <2> QED
    BY <2>1, <2>2, <2>3, StepFiles
<1> QED
  BY <1>2, <1>3

LEMMA StepIInv ==
  ASSUME IInv, NEW p \in Calls, Step(p),
         disturbed' = {r \in Calls \ {p} : Began(r) /\ files' # files} \cup disturbed
  PROVE  IInv'
<1>1. disturbed' \subseteq Calls
  BY DEF IInv, TypeOK
<1>2. Commands'
  BY OthersKept, OwnKept DEF Commands
<1> QED
  BY <1>1, <1>2, StepTyped, StoreKept DEF IInv

LEMMA StartIInv ==
  ASSUME IInv, NEW p \in Calls, Start(p), UNCHANGED disturbed
  PROVE  IInv'
<1>1. /\ TypeOK /\ call \in [Calls -> Command]
      /\ \A q \in Calls : Role(q) /\ Barring(q) /\ Writer(q) /\ Vouched(q) /\ Followed(q)
  BY DEF IInv, Commands, TypeOK, Command
<1>2. /\ \A q \in Calls \ {p} : call'[q] = call[q]
      /\ call' \in [Calls -> Command]
      /\ call'[p].barred = revoked
      /\ \/ call'[p].op = "trust" /\ call'[p].pc = "check" /\ call'[p].key \in Keys
         \/ call'[p].op = "revoke" /\ call'[p].pc = "find"
         \/ /\ call'[p].op \in {"verify", "install", "develop"} /\ call'[p].pc = "manifest"
            /\ call'[p].id = Artifact
      /\ UNCHANGED <<trusted, revoked, source, installed, edits, approved, developed>>
  <2>1. ASSUME NEW op \in Ops, NEW place \in Places, NEW i \in Ids, NEW k \in Keys \cup {None},
               Begin(p, op, place, i, k)
        PROVE  /\ \A q \in Calls \ {p} : call'[q] = call[q]
               /\ call' \in [Calls -> Command]
               /\ call'[p].barred = revoked /\ call'[p].op = op /\ call'[p].pc = place
               /\ call'[p].id = i /\ call'[p].key = k
               /\ UNCHANGED <<trusted, revoked, source, installed, edits, approved, developed>>
    <3> DEFINE c == [pc |-> place, op |-> op, id |-> i, key |-> k, data |-> None, barred |-> revoked]
    <3>1. c \in Command
      BY <1>1 DEF Command, TypeOK
    <3>2. call' = [call EXCEPT ![p] = c]
      BY <2>1 DEF Begin
    <3>3. c.barred = revoked /\ c.op = op /\ c.pc = place /\ c.id = i /\ c.key = k
      OBVIOUS
    <3> HIDE DEF c
    <3> QED
      BY <1>1, <2>1, <3>1, <3>2, <3>3 DEF Begin
  <2>2. CASE \E i \in Ids, k \in Keys : Begin(p, "trust", "check", i, k)
    BY <2>1, <2>2 DEF Ops, Places
  <2>3. CASE \E i \in Ids : Begin(p, "revoke", "find", i, None)
    BY <2>1, <2>3 DEF Ops, Places
  <2>4. CASE \E op \in {"verify", "install", "develop"} : Begin(p, op, "manifest", Artifact, None)
    BY <2>1, <2>4, ConstantsAssumption DEF Ops, Places
  <2> QED
    BY <2>2, <2>3, <2>4 DEF Start
<1>3. TypeOK'
  BY <1>1, <1>2 DEF TypeOK, Command
<1>4. Writer(p)' /\ Vouched(p)' /\ Followed(p)' /\ Barring(p)'
  BY <1>1, <1>2 DEF Writer, Vouched, Followed, Barring, Verifying, Installing
<1>5. Role(p)'
  BY <1>2 DEF Role, Trusting, Revoking, Verifying, Installing
<1>6. ASSUME NEW q \in Calls \ {p}
      PROVE  (Role(q) /\ Barring(q) /\ Writer(q) /\ Vouched(q) /\ Followed(q))'
  <2>1. Role(q)' /\ Barring(q)' /\ Vouched(q)' /\ Followed(q)'
    BY <1>1, <1>2 DEF Role, Barring, Vouched, Followed
  <2>2. Writer(q)'
    BY <1>1, <1>2 DEF Writer
  <2> QED
    BY <2>1, <2>2
<1>7. Approvals' /\ InstalledWasSigned'
  BY <1>2 DEF IInv, Approvals, InstalledWasSigned
<1> QED
  BY <1>3, <1>4, <1>5, <1>6, <1>7 DEF IInv, Commands

LEMMA OperatorIInv ==
  ASSUME IInv, Operator, UNCHANGED call, disturbed' = {q \in Calls : Began(q)}
  PROVE  IInv'
<1>1. TypeOK /\ Commands /\ Approvals /\ InstalledWasSigned
  BY DEF IInv
<1>2. /\ UNCHANGED <<revoked, installed, approved, developed>>
      /\ source' \in File /\ edits' \in 0 .. MaxEdits
      /\ \/ trusted' = trusted
         \/ \E i \in Ids : /\ trusted' = [trusted EXCEPT ![i] = None]
                           /\ ~\E p \in Calls : call[p].pc = "write" /\ call[p].id = i
  <2>1. CASE EditManifest
    BY <1>1, <2>1, ConstantsAssumption DEF EditManifest, TypeOK, File
  <2>2. CASE Sign
    BY <1>1, <2>2, ConstantsAssumption DEF Sign, TypeOK, File
  <2>3. CASE RemoveApproval
    <3>1. edits' \in 0 .. MaxEdits /\ source' \in File
      BY <1>1, <2>3, ConstantsAssumption DEF RemoveApproval, TypeOK
    <3> QED
      BY <2>3, <3>1 DEF RemoveApproval, At
  <2> QED
    BY <2>1, <2>2, <2>3 DEF Operator
<1>3. trusted' \in [Ids -> Keys \cup {None, Torn}]
  BY <1>1, <1>2 DEF TypeOK
<1>4. TypeOK'
  BY <1>1, <1>2, <1>3 DEF TypeOK
<1>5. ASSUME NEW p \in Calls PROVE (Role(p) /\ Barring(p) /\ Writer(p) /\ Vouched(p) /\ Followed(p))'
  <2>1. Role(p) /\ Barring(p) /\ Writer(p) /\ Vouched(p)
    BY <1>1 DEF Commands
  <2>2. Role(p)' /\ Barring(p)' /\ Vouched(p)'
    BY <1>2, <2>1 DEF Role, Barring, Vouched
  <2>3. Writer(p)'
    BY <1>1, <1>2, <2>1 DEF Writer, TypeOK
  <2>4. Followed(p)'
    BY DEF Followed, Began, Verifying, Installing
  <2> QED
    BY <2>2, <2>3, <2>4
<1>6. Approvals' /\ InstalledWasSigned'
  BY <1>1, <1>2, ConstantsAssumption DEF Approvals, InstalledWasSigned, TypeOK
<1> QED
  BY <1>4, <1>5, <1>6 DEF IInv, Commands

LEMMA NextIInv == IInv /\ [Next]_vars => IInv'
<1> SUFFICES ASSUME IInv, [Next]_vars PROVE IInv'
  OBVIOUS
<1>1. ASSUME NEW p \in Calls, Start(p), UNCHANGED disturbed PROVE IInv'
  BY <1>1, StartIInv
<1>2. ASSUME NEW p \in Calls, Step(p),
             disturbed' = {q \in Calls \ {p} : Began(q) /\ files' # files} \cup disturbed
      PROVE  IInv'
  BY <1>2, StepIInv
<1>3. CASE Operator /\ UNCHANGED call /\ disturbed' = {q \in Calls : Began(q)}
  BY <1>3, OperatorIInv
<1>4. CASE UNCHANGED vars
  BY <1>4 DEF vars, IInv, TypeOK, Commands, Role, Barring, Writer, Vouched, Followed, Approvals,
     InstalledWasSigned, Began
<1> QED
  BY <1>1, <1>2, <1>3, <1>4 DEF Next

LEMMA IInvAlways == Spec => []IInv
BY InitIInv, NextIInv, PTL DEF Spec

(***************************************************************************)
(* The theorems.                                                           *)
(***************************************************************************)
\* Every command, key file and artifact file is always one of its kind.
THEOREM TypeCorrect == Spec => []TypeOK
<1>1. IInv => TypeOK
  BY DEF IInv
<1> QED
  BY <1>1, IInvAlways, PTL

\* Whatever commands run beside each other, none that began after a key was
\* revoked approves it again, verifies with it or installs with it.
THEOREM RevocationAlwaysFinal == Spec => []RevocationIsFinal
<1>1. IInv => RevocationIsFinal
  BY DEF IInv, Commands, Barring, RevocationIsFinal, At
<1> QED
  BY <1>1, IInvAlways, PTL

\* The registry never holds a manifest that no approved key signed, except by a
\* development installation.
THEOREM InstalledAlwaysSigned == Spec => []InstalledWasSigned
<1>1. IInv => InstalledWasSigned
  BY DEF IInv
<1> QED
  BY <1>1, IInvAlways, PTL

\* An installation that ran alone leaves files that verify, and the source's.
THEOREM InstalledAlwaysVerifies == Spec => []InstalledVerifies
<1>1. IInv => InstalledVerifies
  BY DEF IInv, Commands, Followed, InstalledVerifies, At, Matches
<1> QED
  BY <1>1, IInvAlways, PTL

\* No step of a command replaces, empties or removes a key that is stored: a key
\* file is created only where there is none, and written only while it is torn.
THEOREM ApprovalsAlwaysKept == Spec => ApprovalsAreKept
<1>1. ASSUME IInv, NEW p \in Calls, Step(p), NEW i \in Ids, trusted[i] \in Keys
      PROVE  trusted'[i] = trusted[i]
  <2>1. TypeOK /\ Writer(p)
    BY <1>1 DEF IInv, Commands
  <2> QED
    BY <1>1, <2>1, StepFiles, ConstantsAssumption DEF TypeOK, Writer, Mine
<1>2. IInv => (\A p \in Calls : Step(p) => \A i \in Ids : trusted[i] \in Keys => trusted'[i] = trusted[i])
  BY <1>1
<1> QED
  BY <1>2, IInvAlways, PTL DEF ApprovalsAreKept
=============================================================================
