-------------------------- MODULE Publication_proofs --------------------------
(***************************************************************************)
(* Proofs about Publication, for every set of builds, commits and file     *)
(* names, any number of attempts and whatever maintainers do.              *)
(***************************************************************************)
EXTENDS Publication, TLAPS

\* A draft of this attempt's build, with the files the attempt has listed.
Drafted == ~twin /\ OwnDraft /\ release.notes /\ names = DOMAIN release.assets

Proven == names \subseteq Assets /\ \A a \in names : Intact(a)

(***************************************************************************)
(* What an attempt knows of the host at each place, when no maintainer has *)
(* acted since it began.                                                   *)
(***************************************************************************)
\* Until it has verified what it found, a host that agreed with its build does.
Agrees ==
  pc \in {"inputs", "tag", "list", "published", "create", "created", "partial"} =>
    (~conflict => ~Conflict(build))

\* The inputs and the tag have been checked when anything is done.
Checked ==
  /\ pc \in Running \ {"inputs"} => build \in Valid
  /\ pc \in Running \ {"inputs", "tag"} => tag \in {None, Sha}
  /\ pc = "list" => (tagged <=> tag = Sha)

\* The release is the one it listed, created or filled.
Known ==
  /\ pc = "published" => Listable /\ release # None /\ ~release.draft /\ tag = Sha
                         /\ names = DOMAIN release.assets
  /\ pc = "create" => release = None /\ ~twin
  /\ pc = "created" => ~twin /\ OwnDraft /\ release.notes
  /\ pc = "partial" => Drafted
  /\ pc \in {"upload", "reread", "complete", "retag", "edit"} => Drafted /\ Proven
  /\ pc \in {"reread", "complete", "retag", "edit"} => names = Assets
  /\ pc = "result" => Whole /\ ~twin

IInv == TypeOK /\ (~meddled => Agrees /\ Checked /\ Known /\ OutcomesAreTrue)


(***************************************************************************)
(* Files of a release.                                                     *)
(***************************************************************************)
LEMMA FileAdded ==
  ASSUME NEW f \in Files, NEW a \in Names, NEW b \in Builds \cup {Bad}
  PROVE  [x \in DOMAIN f \cup {a} |-> IF x = a THEN b ELSE f[x]] \in Files
<1>1. PICK d \in SUBSET Names : f \in [d -> Builds \cup {Bad}]
  BY DEF Files
<1>2. [x \in d \cup {a} |-> IF x = a THEN b ELSE f[x]] \in [d \cup {a} -> Builds \cup {Bad}]
  BY <1>1
<1>3. d \cup {a} \in SUBSET Names /\ DOMAIN f = d
  BY <1>1
<1> QED
  BY <1>2, <1>3 DEF Files

LEMMA FileRemoved ==
  ASSUME NEW f \in Files, NEW a
  PROVE  Restrict(f, DOMAIN f \ {a}) \in Files
<1>1. PICK d \in SUBSET Names : f \in [d -> Builds \cup {Bad}]
  BY DEF Files
<1>2. [x \in d \ {a} |-> f[x]] \in [d \ {a} -> Builds \cup {Bad}]
  BY <1>1
<1>3. d \ {a} \in SUBSET Names /\ DOMAIN f = d
  BY <1>1
<1> QED
  BY <1>2, <1>3 DEF Files, Restrict

LEMMA NoFiles == <<>> \in Files /\ DOMAIN <<>> = {}
<1>1. <<>> \in [{} -> Builds \cup {Bad}]
  OBVIOUS
<1>2. {} \in SUBSET Names
  OBVIOUS
<1> QED
  BY <1>1, <1>2 DEF Files

\* A release that holds an intact file for every asset and no other is the
\* build's.
LEMMA FilesOfBuild ==
  ASSUME NEW f \in Files, NEW b, DOMAIN f = Assets, \A a \in Assets : f[a] = b
  PROVE  f = [a \in Assets |-> b]
<1>1. PICK d \in SUBSET Names : f \in [d -> Builds \cup {Bad}]
  BY DEF Files
<1> QED
  BY <1>1

(***************************************************************************)
(* What the calls do on the host.                                          *)
(***************************************************************************)
LEMMA CreatedHost ==
  ASSUME TypeOK, build \in Builds, Created
  PROVE  /\ release' \in Release /\ tag' = tag /\ twin' \in BOOLEAN
         /\ release # None => release' = release
         /\ release = None => /\ release'.draft /\ release'.target = Sha /\ release'.notes
                              /\ DOMAIN release'.assets = {} /\ twin' = twin
<1>1. DraftFor(Sha) \in Release
  BY NoFiles, ConstantsAssumption DEF Release, DraftFor, Sha
<1> QED
  BY <1>1, NoFiles DEF TypeOK, Created, DraftFor

LEMMA UploadedHost ==
  ASSUME TypeOK, NEW a \in Assets, NEW b \in Builds \cup {Bad}, Uploaded(a, b)
  PROVE  /\ release \in Release /\ release' \in Release /\ UNCHANGED <<tag, twin>>
         /\ release # None /\ a \notin DOMAIN release.assets
         /\ release'.draft = release.draft /\ release'.notes = release.notes
         /\ release'.target = release.target
         /\ DOMAIN release'.assets = DOMAIN release.assets \cup {a}
         /\ release'.assets[a] = b
         /\ \A f \in DOMAIN release.assets : release'.assets[f] = release.assets[f]
<1>1. release \in Release /\ release.assets \in Files /\ a \in Names
  BY ConstantsAssumption DEF TypeOK, Uploaded, Release
<1> DEFINE new == [f \in DOMAIN release.assets \cup {a} |-> IF f = a THEN b ELSE release.assets[f]]
<1>2. new \in Files
  BY <1>1, FileAdded
<1>3. release' = [release EXCEPT !.assets = new] /\ a \notin DOMAIN release.assets
  BY DEF Uploaded
<1>4. /\ DOMAIN new = DOMAIN release.assets \cup {a} /\ new[a] = b
      /\ \A f \in DOMAIN release.assets : f # a => new[f] = release.assets[f]
  OBVIOUS
<1> HIDE DEF new
<1>5. release' \in Release /\ release'.assets = new
  BY <1>1, <1>2, <1>3 DEF Release
<1>6. release'.draft = release.draft /\ release'.notes = release.notes /\ release'.target = release.target
  BY <1>1, <1>3 DEF Release
<1> QED
  BY <1>1, <1>3, <1>4, <1>5, <1>6 DEF Uploaded

LEMMA PublishedHost ==
  ASSUME TypeOK, Published
  PROVE  /\ release # None /\ release \in Release /\ release' \in Release /\ (twin' <=> twin) /\ twin' \in BOOLEAN
         /\ ~release'.draft /\ (release'.notes <=> release.notes)
         /\ release'.target = release.target /\ release'.assets = release.assets
         /\ tag' = (IF tag = None THEN release.target ELSE tag) /\ tag' \in Commits
<1>1. release # None /\ release \in Release
  BY DEF TypeOK, Published
<1> QED
  BY <1>1 DEF TypeOK, Published, Release

\* The host changes only as a call of the place does.
LEMMA ScriptHost ==
  ASSUME TypeOK, Script \/ Break
  PROVE  \/ UNCHANGED host
         \/ pc = "create" /\ Created
         \/ pc = "upload" /\ \E a \in Missing, b \in {build, Bad} : Uploaded(a, b)
         \/ pc = "edit" /\ Published
<1>1. CASE Break
  BY <1>1 DEF Break
<1>2. CASE Upload
  BY <1>2 DEF Upload, Refuse, Goto, host
<1>3. CASE Create \/ Publish
  BY <1>3 DEF Create, Publish, Refuse, Goto, host
<1> QED
  BY <1>1, <1>2, <1>3 DEF Script, CheckInputs, ReadTag, ReadRelease, VerifyPublished, ReadCreated,
     VerifyPartial, Reread, VerifyComplete, RecheckTag, CheckResult, Verify, Take, Refuse, Goto,
     host

LEMMA HostTyped ==
  ASSUME TypeOK, Script \/ Break, build \in Builds
  PROVE  tag' \in Commits \cup {None} /\ release' \in Release \cup {None} /\ twin' \in BOOLEAN
<1>1. CASE UNCHANGED host
  BY <1>1 DEF TypeOK, host
<1>2. CASE Created
  BY <1>2, CreatedHost DEF TypeOK
<1>3. CASE \E a \in Missing, b \in {build, Bad} : Uploaded(a, b)
  BY <1>3, UploadedHost DEF TypeOK, Missing
<1>4. CASE Published
  BY <1>4, PublishedHost DEF TypeOK
<1> QED
  BY <1>1, <1>2, <1>3, <1>4, ScriptHost

\* What a step of an attempt leaves alone, and where it leads.
LEMMA ScriptLocal ==
  ASSUME TypeOK, Script \/ Break
  PROVE  /\ pc \in Running /\ build \in Builds /\ UNCHANGED <<build, meddled, conflict>>
         /\ pc' \in Running \cup Ended /\ tagged' \in BOOLEAN /\ names' \subseteq Names
<1>0. /\ {"inputs", "tag", "list", "published", "create", "created", "partial", "upload",
           "reread", "complete", "retag", "edit", "result"} \subseteq Running
      /\ "refused" \in Ended /\ "succeeded" \in Ended
  BY DEF Running, Ended
<1>1. ASSUME NEW from \in Running, NEW to, Goto(from, to), to \in Running \cup Ended
      PROVE  /\ pc \in Running /\ build \in Builds /\ UNCHANGED <<build, meddled, conflict>>
             /\ pc' \in Running \cup Ended /\ tagged' \in BOOLEAN /\ names' \subseteq Names
  BY <1>1 DEF Goto, TypeOK
<1>2. ASSUME NEW from \in Running, NEW to \in Running, Take(from, to)
      PROVE  /\ pc \in Running /\ build \in Builds /\ UNCHANGED <<build, meddled, conflict>>
             /\ pc' \in Running \cup Ended /\ tagged' \in BOOLEAN /\ names' \subseteq Names
  <2>1. release \in Release
    BY <1>2 DEF Take, TypeOK
  <2>2. DOMAIN release.assets \subseteq Names
    BY <2>1 DEF Release, Files
  <2> QED
    BY <1>2, <2>2 DEF Take, TypeOK
<1>3. CASE Break
  BY <1>3 DEF Break, TypeOK, Ended
<1>4. CASE CheckInputs \/ RecheckTag \/ CheckResult
  <2>1. \/ Goto("inputs", "tag") \/ Goto("inputs", "refused")
        \/ Goto("retag", "edit") \/ Goto("retag", "refused")
        \/ Goto("result", "succeeded") \/ Goto("result", "refused")
    BY <1>4 DEF CheckInputs, RecheckTag, CheckResult, Refuse
  <2> QED
    BY <1>0, <1>1, <2>1
<1>10. CASE VerifyPublished \/ VerifyPartial \/ VerifyComplete
  <2>1. ASSUME NEW from \in Running, NEW c, NEW to \in Running \cup Ended, Verify(from, c, to)
        PROVE  Goto(from, to) \/ Goto(from, "refused")
    BY <2>1 DEF Verify, Refuse
  <2>2. \/ Goto("published", "succeeded") \/ Goto("published", "refused")
        \/ Goto("partial", "upload") \/ Goto("partial", "refused")
        \/ Goto("complete", "retag") \/ Goto("complete", "refused")
    BY <1>10, <2>1 DEF VerifyPublished, VerifyPartial, VerifyComplete, Running, Ended
  <2> QED
    BY <1>0, <1>1, <2>2
<1>5. CASE ReadTag
  BY <1>1, <1>5 DEF ReadTag, Refuse, Running, Ended, TypeOK
<1>6. CASE ReadRelease \/ ReadCreated \/ Reread
  <2>1. \/ Goto("list", "create") \/ Take("list", "published") \/ Take("list", "partial")
        \/ Goto("list", "refused") \/ Take("created", "partial") \/ Goto("created", "refused")
        \/ Take("reread", "complete") \/ Goto("reread", "refused")
    BY <1>6 DEF ReadRelease, ReadCreated, Reread, Refuse
  <2> QED
    BY <1>0, <1>1, <1>2, <2>1
<1>7. CASE Create
  BY <1>7 DEF Create, Running, TypeOK
<1>8. CASE Upload
  BY <1>1, <1>8, ConstantsAssumption DEF Upload, Refuse, Missing, Running, Ended, TypeOK
<1>9. CASE Publish
  BY <1>1, <1>9 DEF Publish, Refuse, Running, Ended, TypeOK
<1> QED
  BY <1>3, <1>4, <1>5, <1>6, <1>7, <1>8, <1>9, <1>10 DEF Script

LEMMA ScriptTyped == ASSUME TypeOK, Script \/ Break PROVE TypeOK'
BY ScriptLocal, HostTyped DEF TypeOK

\* Publishing a verified draft publishes the whole of it.
LEMMA PublishedWhole ==
  ASSUME TypeOK, build \in Valid, build \in Builds, tag \in {None, Sha}, Drafted, Proven,
         names = Assets, Published, UNCHANGED build
  PROVE  Whole' /\ ~twin'
<1>1. /\ ~twin /\ release.target = Sha /\ release.notes /\ release' # None
      /\ Sha \in Commits /\ Sha' = Sha
  BY PublishedHost, NoReleaseAssumption, ConstantsAssumption DEF Drafted, OwnDraft, Sha
<1>2. ~release'.draft /\ release'.notes /\ release'.assets = release.assets /\ ~twin'
  BY <1>1, PublishedHost
<1>3. tag' = Sha
  BY <1>1, PublishedHost
<1>4. release.assets \in Files /\ DOMAIN release.assets = Assets
  BY PublishedHost DEF Release, Drafted
<1>5. release.assets = [a \in Assets |-> build]
  BY <1>4, FilesOfBuild DEF Proven, Intact
<1> QED
  BY <1>1, <1>2, <1>3, <1>5 DEF Whole

\* When nobody else acts, each step of an attempt keeps what it knows.
LEMMA ScriptKnows ==
  ASSUME IInv, ~meddled, Script
  PROVE  (Agrees /\ Checked /\ Known /\ OutcomesAreTrue)'
<1>1. /\ TypeOK /\ Agrees /\ Checked /\ Known /\ build \in Builds /\ Sha \in Commits
      /\ UNCHANGED <<build, conflict>> /\ Sha' = Sha
  BY ScriptLocal, ConstantsAssumption DEF IInv, Sha
<1>2. CASE CheckInputs
  BY <1>1, <1>2, CreatedHost, UploadedHost, PublishedHost DEF CheckInputs, Goto, Refuse, Take, Agrees, Checked, Known,
     OutcomesAreTrue, Conflict, Listable, OwnDraft, Drafted, Proven, Verified, Intact, Whole, Missing, Sha, Running, TypeOK
<1>3. CASE ReadTag
  <2>1. CASE Refuse("tag")
    <3>1. tag \notin {None, Sha} /\ Conflict(build)
      BY <1>3, <2>1 DEF ReadTag, Refuse, Goto, Conflict, Sha
    <3> QED
      BY <1>1, <2>1, <3>1 DEF Refuse, Goto, Agrees, Checked, Known, OutcomesAreTrue, Running
  <2>2. CASE ~Refuse("tag")
    <3>1. /\ pc = "tag" /\ pc' = "list" /\ tag \in {None, Sha} /\ (tagged' <=> tag = Sha)
          /\ UNCHANGED <<build, tag, release, twin, conflict>>
      BY <1>3, <2>2 DEF ReadTag
    <3>2. Conflict(build)' = Conflict(build)
      BY <3>1 DEF Conflict
    <3>3. Agrees' /\ Known' /\ OutcomesAreTrue'
      BY <1>1, <3>1, <3>2 DEF Agrees, Known, OutcomesAreTrue
    <3>4. Checked'
      BY <1>1, <3>1 DEF Checked, Running
    <3> QED
      BY <3>3, <3>4
  <2> QED
    BY <2>1, <2>2
<1>4. CASE ReadRelease
  BY <1>1, <1>4, CreatedHost, UploadedHost, PublishedHost DEF ReadRelease, Goto, Refuse, Take, Agrees, Checked, Known,
     OutcomesAreTrue, Conflict, Listable, OwnDraft, Drafted, Proven, Verified, Intact, Whole, Missing, Sha, Running, TypeOK
<1>5. CASE VerifyPublished
  <2>1. /\ pc = "published" /\ UNCHANGED <<build, names, tag, release, twin, conflict>>
        /\ \/ pc' = "succeeded" /\ Verified(TRUE)
           \/ pc' = "refused" /\ ~Verified(TRUE)
    BY <1>5 DEF VerifyPublished, Verify, Refuse, Goto
  <2>2. /\ Listable /\ release # None /\ ~release.draft /\ tag = Sha /\ build \in Valid
        /\ names = DOMAIN release.assets
    BY <1>1, <2>1 DEF Known, Checked, Running
  <2>3. ASSUME Verified(TRUE) PROVE Whole /\ ~twin
    <3>1. release.assets \in Files /\ DOMAIN release.assets = Assets
      BY <1>1, <2>2, <2>3 DEF TypeOK, Release, Verified
    <3>2. release.assets = [a \in Assets |-> build]
      BY <2>2, <2>3, <3>1, FilesOfBuild DEF Verified, Intact
    <3> QED
      BY <2>2, <3>2 DEF Whole, Listable
  <2>4. ASSUME ~Verified(TRUE) PROVE conflict
    <3>1. Conflict(build)
      BY <2>2, <2>4 DEF Verified, Intact, Conflict
    <3> QED
      BY <1>1, <2>1, <3>1 DEF Agrees
  <2>5. OutcomesAreTrue'
    <3>1. (pc' = "succeeded" => Whole /\ ~twin) /\ (pc' = "refused" => conflict)
      BY <2>1, <2>3, <2>4
    <3>2. Whole' <=> Whole
      BY <2>1 DEF Whole, Sha
    <3> QED
      BY <2>1, <3>1, <3>2 DEF OutcomesAreTrue
  <2> QED
    BY <2>1, <2>5 DEF Agrees, Checked, Known, Running
<1>6. CASE Create
  <2>1. /\ pc = "create" /\ pc' = "created" /\ release = None /\ ~twin /\ Created
        /\ UNCHANGED <<build, conflict>>
    BY <1>1, <1>6 DEF Create, Known
  <2>2. /\ release' \in Release /\ release' # None /\ tag' = tag /\ ~twin'
        /\ release'.draft /\ release'.target = Sha /\ release'.notes
        /\ DOMAIN release'.assets = {}
    BY <1>1, <2>1, CreatedHost, NoReleaseAssumption
  <2>3. ~Conflict(build) => ~Conflict(build)'
    BY <2>1, <2>2 DEF Conflict, Sha
  <2> QED
    BY <1>1, <2>1, <2>2, <2>3 DEF Agrees, Checked, Known, OutcomesAreTrue, OwnDraft, Running
<1>7. CASE ReadCreated
  BY <1>1, <1>7, CreatedHost, UploadedHost, PublishedHost DEF ReadCreated, Goto, Refuse, Take, Agrees, Checked, Known,
     OutcomesAreTrue, Conflict, Listable, OwnDraft, Drafted, Proven, Verified, Intact, Whole, Missing, Sha, Running, TypeOK
<1>8. CASE VerifyPartial
  BY <1>1, <1>8, CreatedHost, UploadedHost, PublishedHost DEF VerifyPartial, Verify, Goto, Refuse, Take, Agrees, Checked, Known,
     OutcomesAreTrue, Conflict, Listable, OwnDraft, Drafted, Proven, Verified, Intact, Whole, Missing, Sha, Running, TypeOK
<1>9. CASE Upload
  <2>1. pc = "upload" /\ Drafted /\ Proven /\ UNCHANGED <<build, conflict>>
    BY <1>1, <1>9 DEF Upload, Goto, Refuse, Known
  <2>2. CASE Refuse("upload")
    BY <1>9, <2>1, <2>2 DEF Upload, Refuse, Goto, Missing, Drafted, OwnDraft
  <2>3. CASE Goto("upload", "reread") /\ Missing = {}
    <3>1. names = Assets
      BY <2>1, <2>3 DEF Missing, Proven
    <3> QED
      BY <1>1, <2>1, <2>3, <3>1 DEF Goto, Agrees, Checked, Known, OutcomesAreTrue, Drafted,
         OwnDraft, Proven, Intact, Running, Sha
  <2>4. ASSUME NEW a \in Missing, pc' = pc, Uploaded(a, build), names' = names \cup {a}, tag' = tag
        PROVE  (Agrees /\ Checked /\ Known /\ OutcomesAreTrue)'
    <3>1. a \in Assets /\ release' # None
      BY <1>1, <2>4, UploadedHost, NoReleaseAssumption DEF Missing
    <3>2. Drafted'
      BY <1>1, <2>1, <2>4, <3>1, UploadedHost DEF Drafted, OwnDraft, Sha
    <3>3. Proven'
      BY <1>1, <2>1, <2>4, <3>1, UploadedHost DEF Proven, Intact
    <3> QED
      BY <1>1, <2>1, <2>4, <3>2, <3>3 DEF Agrees, Checked, Known, OutcomesAreTrue, Running, Sha
  <2> QED
    BY <1>9, <2>2, <2>3, <2>4 DEF Upload, Uploaded
<1>10. CASE Reread
  BY <1>1, <1>10, CreatedHost, UploadedHost, PublishedHost DEF Reread, Goto, Refuse, Take, Agrees, Checked, Known,
     OutcomesAreTrue, Conflict, Listable, OwnDraft, Drafted, Proven, Verified, Intact, Whole, Missing, Sha, Running, TypeOK
<1>11. CASE VerifyComplete
  BY <1>1, <1>11, CreatedHost, UploadedHost, PublishedHost DEF VerifyComplete, Verify, Goto, Refuse, Take, Agrees, Checked, Known,
     OutcomesAreTrue, Conflict, Listable, OwnDraft, Drafted, Proven, Verified, Intact, Whole, Missing, Sha, Running, TypeOK
<1>12. CASE RecheckTag
  BY <1>1, <1>12, CreatedHost, UploadedHost, PublishedHost DEF RecheckTag, Goto, Refuse, Take, Agrees, Checked, Known,
     OutcomesAreTrue, Conflict, Listable, OwnDraft, Drafted, Proven, Verified, Intact, Whole, Missing, Sha, Running, TypeOK
<1>13. CASE Publish
  <2>1. /\ pc = "edit" /\ Drafted /\ Proven /\ names = Assets /\ build \in Valid
        /\ tag \in {None, Sha} /\ UNCHANGED <<build, conflict>>
    BY <1>1, <1>13 DEF Publish, Goto, Refuse, Known, Checked, Running
  <2>2. pc' = "result" /\ Published
    BY <1>13, <2>1 DEF Publish, Refuse, Drafted, OwnDraft
  <2>3. Whole' /\ ~twin'
    BY <1>1, <2>1, <2>2, PublishedWhole
  <2>4. tag' = Sha
    BY <1>1, <2>3 DEF Whole
  <2> QED
    BY <1>1, <2>1, <2>2, <2>3, <2>4 DEF Agrees, Checked, Known, OutcomesAreTrue, Running
<1>14. CASE CheckResult
  BY <1>1, <1>14, CreatedHost, UploadedHost, PublishedHost DEF CheckResult, Goto, Refuse, Take, Agrees, Checked, Known,
     OutcomesAreTrue, Conflict, Listable, OwnDraft, Drafted, Proven, Verified, Intact, Whole, Missing, Sha, Running, TypeOK
<1> QED
  BY <1>2, <1>3, <1>4, <1>5, <1>6, <1>7, <1>8, <1>9, <1>10, <1>11, <1>12, <1>13, <1>14 DEF Script

LEMMA BreakKnows ==
  ASSUME IInv, Break
  PROVE  (Agrees /\ Checked /\ Known /\ OutcomesAreTrue)'
BY DEF Break, Agrees, Checked, Known, OutcomesAreTrue, Running

LEMMA StartIInv ==
  ASSUME IInv, NEW b \in Builds, Start(b)
  PROVE  IInv'
<1>1. TypeOK'
  BY DEF IInv, TypeOK, Start, host, Ended, Running, Conflict
<1>2. Conflict(build)' = Conflict(b)
  BY DEF Start, host, Conflict
<1>3. Agrees' /\ Checked' /\ Known' /\ OutcomesAreTrue'
  BY <1>2 DEF Start, Agrees, Checked, Known, OutcomesAreTrue
<1> QED
  BY <1>1, <1>3 DEF IInv

LEMMA MeddleIInv ==
  ASSUME IInv, Meddle
  PROVE  IInv'
<1>1. TypeOK
  BY DEF IInv
<1>2. CASE MeddleWithRelease /\ UNCHANGED <<tag, twin>>
  <2>1. release' \in Release \cup {None}
    <3>1. CASE release' = None
      BY <3>1
    <3>2. CASE \E c \in Commits : release' = DraftFor(c)
      BY <3>2, NoFiles DEF DraftFor, Release
    <3>3. CASE /\ release # None
               /\ \/ release' = [release EXCEPT !.draft = ~@]
                  \/ release' = [release EXCEPT !.notes = ~@]
                  \/ \E c \in Commits : release' = [release EXCEPT !.target = c]
      BY <1>1, <3>3 DEF TypeOK, Release
    <3>4. CASE release # None /\ \E a \in DOMAIN release.assets :
                 release' = [release EXCEPT !.assets = Restrict(@, DOMAIN @ \ {a})]
      BY <1>1, <3>4, FileRemoved DEF TypeOK, Release
    <3>5. CASE release # None /\ \E a \in Names :
                 release' = [release EXCEPT !.assets = [f \in DOMAIN @ \cup {a} |->
                                                          IF f = a THEN Bad ELSE @[f]]]
      BY <1>1, <3>5, FileAdded DEF TypeOK, Release
    <3> QED
      BY <1>2, <3>1, <3>2, <3>3, <3>4, <3>5 DEF MeddleWithRelease
  <2> QED
    BY <1>1, <1>2, <2>1 DEF Meddle, IInv, TypeOK, local
<1>3. CASE tag' \in Commits \cup {None} /\ UNCHANGED <<release, twin>>
  BY <1>1, <1>3 DEF Meddle, IInv, TypeOK, local
<1>4. CASE twin' = ~twin /\ UNCHANGED <<release, tag>>
  BY <1>1, <1>4 DEF Meddle, IInv, TypeOK, local
<1> QED
  BY <1>2, <1>3, <1>4 DEF Meddle

LEMMA InitIInv == Init => IInv
BY DEF Init, IInv, TypeOK, Agrees, Checked, Known, OutcomesAreTrue, Ended, Running

LEMMA NextIInv == IInv /\ [Next]_vars => IInv'
<1> SUFFICES ASSUME IInv, [Next]_vars PROVE IInv'
  OBVIOUS
<1>1. CASE Script
  <2>1. TypeOK' /\ meddled' = meddled
    BY <1>1, ScriptTyped, ScriptLocal DEF IInv
  <2> QED
    BY <1>1, <2>1, ScriptKnows DEF IInv
<1>2. CASE Break
  BY <1>2, ScriptTyped, BreakKnows DEF IInv
<1>3. CASE Meddle
  BY <1>3, MeddleIInv
<1>4. CASE \E b \in Builds : Start(b)
  BY <1>4, StartIInv
<1>5. CASE UNCHANGED vars
  BY <1>5 DEF vars, IInv, TypeOK, Agrees, Checked, Known, OutcomesAreTrue, Conflict, Sha, Listable,
     OwnDraft, Drafted, Proven, Intact, Whole
<1> QED
  BY <1>1, <1>2, <1>3, <1>4, <1>5 DEF Next

LEMMA IInvAlways == Spec => []IInv
BY InitIInv, NextIInv, PTL DEF Spec

(***************************************************************************)
(* The theorems.                                                           *)
(***************************************************************************)
\* The attempt, the host and the histories are always of their kinds.
THEOREM TypeCorrect == Spec => []TypeOK
<1>1. IInv => TypeOK
  BY DEF IInv
<1> QED
  BY <1>1, IInvAlways, PTL

\* An undisturbed attempt that succeeds has published, or found, the whole
\* release of its build, and one that refuses met a host that conflicted with it
\* from the start.
THEOREM OutcomesAlwaysTrue == Spec => []OutcomesAreTrue
<1>1. IInv => (~meddled => OutcomesAreTrue)
  BY DEF IInv
<1>2. ~meddled \/ OutcomesAreTrue
  BY DEF OutcomesAreTrue
<1> QED
  BY <1>1, <1>2, IInvAlways, PTL

\* However many attempts broke before, the call that makes a release public, its
\* reply lost or not, publishes the build's files and all of them.
THEOREM AlwaysPublishesWhole == Spec => PublishesWhole
<1>1. ASSUME IInv, Script \/ Break, release # None, release'.draft # release.draft, ~meddled
      PROVE  Whole'
  <2>1. TypeOK /\ Checked /\ Known /\ UNCHANGED build /\ build \in Builds
    BY <1>1, ScriptLocal DEF IInv
  <2>2. pc = "edit" /\ Published
    <3>1. ~UNCHANGED host
      BY <1>1 DEF host
    <3>2. ~Created
      BY <1>1, <2>1, CreatedHost
    <3>3. ASSUME NEW a \in Missing, NEW b \in {build, Bad}, Uploaded(a, b) PROVE FALSE
      BY <1>1, <2>1, <3>3, UploadedHost DEF Missing
    <3> QED
      BY <1>1, <2>1, <3>1, <3>2, <3>3, ScriptHost
  <2>3. Drafted /\ Proven /\ names = Assets /\ build \in Valid /\ tag \in {None, Sha}
    BY <2>1, <2>2 DEF Checked, Known, Running
  <2> QED
    BY <2>1, <2>2, <2>3, PublishedWhole
<1>2. IInv => ((Script \/ Break) /\ release # None /\ release'.draft # release.draft /\ ~meddled
                 => Whole')
  BY <1>1
<1> QED
  BY <1>2, IInvAlways, PTL DEF PublishesWhole

\* No call of an attempt moves a tag, removes a release, retargets it, makes it
\* a draft again or replaces one of its files, whatever maintainers do beside it.
THEOREM NothingEverReplaced == Spec => NothingReplaced
<1> DEFINE Kept == /\ tag # None => tag' = tag
                   /\ release # None =>
                        /\ release' # None
                        /\ release'.target = release.target /\ (release'.draft => release.draft)
                        /\ \A a \in DOMAIN release.assets :
                             a \in DOMAIN release'.assets /\ release'.assets[a] = release.assets[a]
<1>1. ASSUME IInv, Script \/ Break PROVE Kept
  <2>1. TypeOK /\ build \in Builds
    BY <1>1, ScriptLocal DEF IInv
  <2>2. CASE UNCHANGED host
    BY <2>2 DEF host
  <2>3. CASE Created
    BY <2>1, <2>3, CreatedHost
  <2>4. CASE \E a \in Missing, b \in {build, Bad} : Uploaded(a, b)
    BY <2>1, <2>4, UploadedHost, NoReleaseAssumption DEF Missing
  <2>5. CASE Published
    BY <2>1, <2>5, PublishedHost, NoReleaseAssumption
  <2> QED
    BY <1>1, <2>1, <2>2, <2>3, <2>4, <2>5, ScriptHost
<1>2. IInv => (Script \/ Break => Kept)
  BY <1>1
<1> QED
  BY <1>2, IInvAlways, PTL DEF NothingReplaced
=============================================================================
