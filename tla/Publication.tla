----------------------------- MODULE Publication -----------------------------
(***************************************************************************)
(* scripts/publish_release.py: one version of the packages is published as *)
(* a GitHub release, through a draft.                                       *)
(*                                                                         *)
(* An attempt is one run of CI's publish job, for the build of one pushed  *)
(* commit; the job's concurrency group lets one run at a time, and the job *)
(* may be run again, also from a rebuild of the same commit or from another*)
(* commit of the same version.  Any call to the host may fail, be timed out*)
(* with its effect done, or be the last before the job is killed: Break.   *)
(* A maintainer may change the release or the tag to anything, at any time.*)
(* An effect of a broken call comes before the next attempt or never.      *)
(***************************************************************************)
EXTENDS Functions

CONSTANTS Builds,    \* sets of distributions, each made by one workflow run
          Commits,   \* the commits that declare this version
          CommitOf,  \* the commit a build was made from
          Valid,     \* the builds whose event, checkout, metadata and notes agree
          Assets,    \* the names of the files a release must hold
          Names,     \* Assets and the other names a file may have
          Bad,       \* bytes of no build: an upload that broke off, another file
          None

ASSUME ConstantsAssumption ==
  /\ CommitOf \in [Builds -> Commits] /\ Valid \subseteq Builds
  /\ Assets \subseteq Names /\ Assets # {}
  /\ Bad \notin Builds /\ None \notin Commits /\ None \notin Builds

VARIABLES pc,       \* the current attempt's place, or how the last one ended
          build,    \* the build it publishes
          tagged,   \* whether it read the tag as its own commit
          names,    \* the asset names it last read
          tag,      \* on the host: the commit the version's tag names
          release,  \* on the host: the release with that tag, drafts included
          twin,     \* on the host: a second release has the same tag
          meddled,  \* history: a maintainer acted since the attempt began
          conflict  \* history: what the attempt found on the host conflicts with its build

local == <<pc, build, tagged, names>>
host  == <<tag, release, twin>>
vars  == <<pc, build, tagged, names, tag, release, twin, meddled, conflict>>

Files   == UNION {[d -> Builds \cup {Bad}] : d \in SUBSET Names}
Release == [draft : BOOLEAN, target : Commits, notes : BOOLEAN, assets : Files]

ASSUME NoReleaseAssumption == None \notin Release

Ended   == {"idle", "succeeded", "refused", "broken"}
Running == {"inputs", "tag", "list", "published", "create", "created", "partial",
            "upload", "reread", "complete", "retag", "edit", "result"}

TypeOK ==
  /\ pc \in Ended \cup Running /\ build \in Builds \cup {None}
  /\ tagged \in BOOLEAN /\ names \subseteq Names
  /\ tag \in Commits \cup {None} /\ release \in Release \cup {None}
  /\ twin \in BOOLEAN /\ meddled \in BOOLEAN /\ conflict \in BOOLEAN
  /\ pc \in Running => build \in Builds

Init ==
  /\ pc = "idle" /\ build = None /\ tagged = FALSE /\ names = {}
  /\ tag = None /\ release = None /\ twin = FALSE /\ meddled = FALSE /\ conflict = FALSE

Sha == CommitOf[build]

Goto(from, to) ==
  pc = from /\ pc' = to /\ UNCHANGED <<build, tagged, names, tag, release, twin, meddled, conflict>>

\* PublicationError: nothing is undone.
Refuse(from) == Goto(from, "refused")

(***************************************************************************)
(* The steps of publish, one per call to the host.                         *)
(***************************************************************************)
\* What no attempt for build b may publish or resume.
Conflict(b) ==
  \/ b \notin Valid \/ twin \/ tag \notin {None, CommitOf[b]}
  \/ /\ release # None
     /\ \/ ~release.notes
        \/ release.draft /\ release.target # CommitOf[b]
        \/ ~release.draft /\ (tag = None \/ DOMAIN release.assets # Assets)
        \/ \E a \in DOMAIN release.assets : a \notin Assets \/ release.assets[a] # b

Start(b) ==
  /\ pc \in Ended
  /\ pc' = "inputs" /\ build' = b /\ tagged' = FALSE /\ names' = {}
  /\ meddled' = FALSE /\ conflict' = Conflict(b)
  /\ UNCHANGED host

\* _context, _artifacts and _notes read the checkout and the downloaded files.
CheckInputs ==
  \/ Goto("inputs", "tag") /\ build \in Valid
  \/ Refuse("inputs") /\ build \notin Valid

ReadTag ==
  \/ /\ pc = "tag" /\ tag \in {None, Sha}
     /\ pc' = "list" /\ tagged' = (tag = Sha)
     /\ UNCHANGED <<build, names, tag, release, twin, meddled, conflict>>
  \/ Refuse("tag") /\ tag \notin {None, Sha}

\* _release: at most one release, with the notes of the changelog.
Listable == ~twin /\ (release # None => release.notes)

OwnDraft == release # None /\ release.draft /\ release.target = Sha

Take(from, to) ==
  /\ pc = from /\ release # None
  /\ pc' = to /\ names' = DOMAIN release.assets
  /\ UNCHANGED <<build, tagged, tag, release, twin, meddled, conflict>>

ReadReleaseByTag ==  \* mutant: the by-tag endpoint, which knows no drafts
  \/ Goto("list", "create") /\ (release = None \/ release.draft)
  \/ Take("list", "published") /\ Listable /\ ~release.draft /\ tagged
  \/ Refuse("list") /\ release # None /\ ~release.draft /\ (~Listable \/ ~tagged)

ReadRelease ==
  \/ Goto("list", "create") /\ Listable /\ release = None
  \/ Take("list", "published") /\ Listable /\ release # None /\ ~release.draft /\ tagged
  \/ Take("list", "partial") /\ Listable /\ OwnDraft
  \/ /\ Refuse("list")
     /\ \/ ~Listable
        \/ release # None /\ ~release.draft /\ ~tagged
        \/ release # None /\ release.draft /\ release.target # Sha

\* _verify_assets: the names as listed, the bytes as downloaded now.
IntactByName(a) ==  \* mutant: the bytes are not compared
  release # None /\ a \in DOMAIN release.assets

Intact(a) == release # None /\ a \in DOMAIN release.assets /\ release.assets[a] = build
Verified(complete) ==
  /\ names \subseteq Assets /\ (complete => names = Assets)
  /\ \A a \in names : Intact(a)

Verify(from, complete, to) ==
  \/ Goto(from, to) /\ Verified(complete)
  \/ Refuse(from) /\ ~Verified(complete)

VerifyPublishedTrusting == Goto("published", "succeeded")  \* mutant: not verified

VerifyPublished == Verify("published", TRUE, "succeeded")
VerifyPartial == Verify("partial", FALSE, "upload")
VerifyComplete == Verify("complete", TRUE, "retag")

DraftFor(c) == [draft |-> TRUE, target |-> c, notes |-> TRUE, assets |-> <<>>]

\* What gh release create does on the host: a draft beside any other release.
Created ==
  /\ release' = (IF release = None THEN DraftFor(Sha) ELSE release)
  /\ twin' = (twin \/ release # None)
  /\ UNCHANGED tag

Create ==
  /\ pc = "create" /\ pc' = "created" /\ Created
  /\ UNCHANGED <<build, tagged, names, meddled, conflict>>

ReadCreated ==
  \/ Take("created", "partial") /\ Listable /\ OwnDraft
  \/ Refuse("created") /\ ~(Listable /\ OwnDraft)

Missing == Assets \ names

\* What gh release upload does with one file; without --clobber it keeps others.
Uploaded(a, bytes) ==
  /\ release # None /\ a \notin DOMAIN release.assets
  /\ release' = [release EXCEPT !.assets =
                   [f \in DOMAIN release.assets \cup {a} |->
                      IF f = a THEN bytes ELSE release.assets[f]]]
  /\ UNCHANGED <<tag, twin>>

UploadClobber ==  \* mutant: gh release upload --clobber with every file
  \/ \E a \in Assets : /\ pc = "upload" /\ release # None /\ names' = names \cup {a}
                        /\ release' = [release EXCEPT !.assets =
                             [f \in DOMAIN @ \cup {a} |-> IF f = a THEN build ELSE @[f]]]
                        /\ UNCHANGED <<pc, build, tagged, meddled, conflict, tag, twin>>
  \/ Goto("upload", "reread") /\ Missing = {}

Upload ==
  \/ \E a \in Missing : /\ pc = "upload" /\ Uploaded(a, build) /\ names' = names \cup {a}
                        /\ UNCHANGED <<pc, build, tagged, meddled, conflict>>
  \/ Goto("upload", "reread") /\ Missing = {}
  \/ /\ Refuse("upload") /\ Missing # {}
     /\ release = None \/ \E a \in Missing : a \in DOMAIN release.assets

Reread ==
  \/ Take("reread", "complete") /\ Listable /\ OwnDraft
  \/ Refuse("reread") /\ ~(Listable /\ OwnDraft)

RecheckTag ==
  \/ Goto("retag", "edit") /\ tag \in {None, Sha}
  \/ Refuse("retag") /\ tag \notin {None, Sha}

\* What gh release edit --draft=false does: the host creates a missing tag.
Published ==
  /\ release # None
  /\ release' = [release EXCEPT !.draft = FALSE]
  /\ tag' = (IF tag = None THEN release.target ELSE tag)
  /\ UNCHANGED twin

Publish ==
  \/ pc = "edit" /\ pc' = "result" /\ Published /\ UNCHANGED <<build, tagged, names, meddled, conflict>>
  \/ Refuse("edit") /\ release = None

CheckResult ==
  \/ Goto("result", "succeeded") /\ tag = Sha
  \/ Refuse("result") /\ tag # Sha

Script ==
  \/ CheckInputs \/ ReadTag \/ ReadRelease \/ VerifyPublished \/ Create \/ ReadCreated
  \/ VerifyPartial \/ Upload \/ Reread \/ VerifyComplete \/ RecheckTag \/ Publish
  \/ CheckResult

(***************************************************************************)
(* Faults and the maintainer.                                              *)
(***************************************************************************)
\* A call fails, loses its reply or runs into its 180 seconds, or the job is
\* killed: what the call in hand does on the host may have happened.
Break ==
  /\ pc \in Running /\ pc' = "broken"
  /\ \/ UNCHANGED host
     \/ pc = "create" /\ Created
     \/ pc = "upload" /\ \E a \in Missing, bytes \in {build, Bad} : Uploaded(a, bytes)
     \/ pc = "edit" /\ Published
  /\ UNCHANGED <<build, tagged, names, meddled, conflict>>

MeddleWithRelease ==
  \/ release' = None
  \/ release = None /\ \E c \in Commits : release' = DraftFor(c)
  \/ /\ release # None
     /\ \/ release' = [release EXCEPT !.draft = ~@]
        \/ release' = [release EXCEPT !.notes = ~@]
        \/ \E c \in Commits : release' = [release EXCEPT !.target = c]
        \/ \E a \in DOMAIN release.assets :
             release' = [release EXCEPT !.assets = Restrict(@, DOMAIN @ \ {a})]
        \/ \E a \in Names :
             release' = [release EXCEPT !.assets = [f \in DOMAIN @ \cup {a} |->
                          IF f = a THEN Bad ELSE @[f]]]

\* One change; several in a row leave any release, tag or twin whatever.
Meddle ==
  /\ \/ MeddleWithRelease /\ UNCHANGED <<tag, twin>>
     \/ tag' \in Commits \cup {None} /\ UNCHANGED <<release, twin>>
     \/ twin' = ~twin /\ UNCHANGED <<release, tag>>
  /\ host' # host /\ meddled' = TRUE
  /\ UNCHANGED <<local, conflict>>

Next == Script \/ Break \/ Meddle \/ \E b \in Builds : Start(b)

Spec == Init /\ [][Next]_vars

(***************************************************************************)
(* Properties.                                                             *)
(***************************************************************************)
Whole == /\ release # None /\ ~release.draft /\ release.notes
         /\ release.assets = [a \in Assets |-> build]
         /\ tag = Sha /\ build \in Valid

\* "leave incomplete releases private": whatever earlier attempts, broken ones
\* and maintainers have left on the host, the script's call that makes a
\* release public, its reply lost or not, makes one public that holds exactly
\* the tested files of its build under a tag of that build's commit, unless a
\* maintainer changed something while the attempt ran.
PublishesWhole ==
  [][(Script \/ Break) /\ release # None /\ release'.draft # release.draft /\ ~meddled
       => Whole']_vars

\* "Reruns verify existing bytes; they never move tags, replace assets": not
\* even with a maintainer acting at the same time.
NothingReplaced ==
  [][Script \/ Break =>
       /\ tag # None => tag' = tag
       /\ release # None =>
            /\ release' # None
            /\ release'.target = release.target /\ (release'.draft => release.draft)
            /\ \A a \in DOMAIN release.assets :
                 a \in DOMAIN release'.assets /\ release'.assets[a] = release.assets[a]]_vars

\* An attempt in which no call broke and no maintainer acted tells the truth.
\* Its success leaves, or has found, the whole release of its build and no
\* other; and it refuses only a host that conflicted with its build when it
\* began (a truncated file among them): a draft whose creation was not
\* confirmed, one that holds some of the files, and a publication whose reply
\* was lost are resumed.
OutcomesAreTrue ==
  ~meddled => /\ pc = "succeeded" => Whole /\ ~twin
              /\ pc = "refused" => conflict
=============================================================================
