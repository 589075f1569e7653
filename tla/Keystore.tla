----------------------------- MODULE Keystore ------------------------------
(***************************************************************************)
(* The signing-key store: infrastructure/keystore.py under its process     *)
(* lock (infrastructure/file_lock.py). Several processes generate and load *)
(* signing keys in one directory; each signing key is encrypted under the  *)
(* key that the OS keyring holds for the directory's store-id. A process   *)
(* may die between any two writes, any write may fail half way, and the    *)
(* operator may lose the keyring or the store-id, or remove a key pair.    *)
(*                                                                         *)
(* A process makes one call, so its name doubles as the random store-id    *)
(* and the random encryption key that this call may create.                *)
(***************************************************************************)
EXTENDS Naturals

CONSTANTS
  Procs,   \* the processes, one call each
  Names,   \* names of signing keys
  Losses,  \* what the operator may lose: "keyring", "identity", "pair"
  None,    \* no such file, no such entry
  Torn     \* a file that was created and not completely written

ASSUME KeystoreAssumption ==
  /\ None # Torn
  /\ {None, Torn} \cap Procs = {}
  /\ Losses \subseteq {"keyring", "identity", "pair"}

VARIABLES
  lock,     \* owner of keys/.lock
  id,       \* content of keys/store-id
  keyring,  \* the encryption key the OS keyring holds for each store-id
  key,      \* the encryption key each <name>.key is encrypted under
  pub,      \* who generated each <name>.pub
  pc,       \* where each call is, or how it ended
  task,     \* what each call does, and to which name
  content,  \* the .key file a load has read
  sid,      \* the store-id a call works with
  secret,   \* the encryption key it has got
  removed   \* history: the names whose pair the operator has removed

files == <<id, key, pub>>
locals == <<task, content, sid, secret>>
vars == <<lock, files, keyring, pc, locals, removed>>

Inside == {"check", "read", "identity", "createId", "writeId", "lookup", "set",
           "decrypt", "openKey", "writeKey", "openPub", "writePub",
           "dropKey", "dropBoth", "dropPub"}
Outcomes == {"busy", "taken", "missing", "refused", "failed", "unclean",
             "stored", "loaded", "damaged", "undecryptable", "crashed"}

TypeOK ==
  /\ lock \in Procs \cup {None}
  /\ id \in Procs \cup {None, Torn}
  /\ keyring \in [Procs -> Procs \cup {None}]
  /\ key \in [Names -> Procs \cup {None, Torn}]
  /\ pub \in [Names -> Procs \cup {None, Torn}]
  /\ pc \in [Procs -> {"waiting"} \cup Inside \cup Outcomes]
  /\ task \in [Procs -> [op: {"generate", "load"}, name: Names]]
  /\ content \in [Procs -> Procs \cup {None, Torn}]
  /\ sid \in [Procs -> Procs \cup {None}]
  /\ secret \in [Procs -> Procs \cup {None}]
  /\ removed \subseteq Names

Init ==
  /\ lock = None /\ id = None
  /\ keyring = [i \in Procs |-> None]
  /\ key = [n \in Names |-> None] /\ pub = [n \in Names |-> None]
  /\ pc = [p \in Procs |-> "waiting"]
  /\ task \in [Procs -> [op: {"generate", "load"}, name: Names]]
  /\ content = [p \in Procs |-> None]
  /\ sid = [p \in Procs |-> None] /\ secret = [p \in Procs |-> None]
  /\ removed = {}

name(p) == task[p].name

Goto(p, to) == pc' = [pc EXCEPT ![p] = to] /\ UNCHANGED lock

\* The call returns or raises; the with statement unlocks.
Finish(p, outcome) == pc' = [pc EXCEPT ![p] = outcome] /\ lock' = None

LockFreeIgnored == TRUE  \* mutant: the lock is not exclusive

LockFree == lock = None

Acquire(p) ==
  /\ pc[p] = "waiting"
  /\ LockFree
  /\ lock' = p
  /\ pc' = [pc EXCEPT ![p] = IF task[p].op = "load" THEN "read" ELSE "check"]
  /\ UNCHANGED <<files, keyring, locals>>

\* The lock was held at every attempt of 30 seconds.
TimeOut(p) ==
  /\ pc[p] = "waiting"
  /\ lock # None
  /\ Goto(p, "busy")
  /\ UNCHANGED <<files, keyring, locals>>

\* generate: a name of which either file exists is refused.
CheckName(p) ==
  /\ pc[p] = "check"
  /\ IF key[name(p)] = None /\ pub[name(p)] = None
     THEN Goto(p, "identity")
     ELSE Finish(p, "taken")
  /\ UNCHANGED <<files, keyring, locals>>

\* load: the encrypted file is read before the encryption key is looked up.
ReadKey(p) ==
  /\ pc[p] = "read"
  /\ IF key[name(p)] = None
     THEN Finish(p, "missing") /\ UNCHANGED content
     ELSE Goto(p, "identity") /\ content' = [content EXCEPT ![p] = key[name(p)]]
  /\ UNCHANGED <<files, keyring, task, sid, secret>>

MayCreateAlways == TRUE  \* mutant: does not look for encrypted keys

MayCreateBesideTorn == \A n \in Names : key[n] \notin Procs  \* mutant: overlooks empty files

\* Neither an identity nor an encryption key is made beside a *.key file.
MayCreate == \A n \in Names : key[n] = None

FindIdentity(p) ==
  /\ pc[p] = "identity"
  /\ \/ /\ id \in Procs
        /\ sid' = [sid EXCEPT ![p] = id]
        /\ Goto(p, "lookup")
     \/ /\ id = None /\ MayCreate
        /\ Goto(p, "createId") /\ UNCHANGED sid
     \/ /\ id = Torn \/ (id = None /\ ~MayCreate)
        /\ Finish(p, "refused") /\ UNCHANGED sid
  /\ UNCHANGED <<files, keyring, task, content, secret>>

\* os.open with O_EXCL: the file exists, and is empty.
CreateIdentity(p) ==
  /\ pc[p] = "createId"
  /\ \/ id = None /\ id' = Torn /\ Goto(p, "writeId")
     \/ UNCHANGED id /\ Finish(p, "failed")
  /\ UNCHANGED <<key, pub, keyring, locals>>

\* What a write leaves in a file that the operator may have unlinked meanwhile.
Written(file, data) == IF file = Torn THEN data ELSE file

\* A failed write leaves the torn file behind: nothing cleans it up.
WriteIdentity(p) ==
  /\ pc[p] = "writeId"
  /\ \/ /\ id' = Written(id, p)
        /\ sid' = [sid EXCEPT ![p] = p]
        /\ Goto(p, "lookup")
     \/ Finish(p, "failed") /\ UNCHANGED <<id, sid>>
  /\ UNCHANGED <<key, pub, keyring, task, content, secret>>

\* With an encryption key in hand, load decrypts and generate writes.
Proceed(p, k) ==
  /\ secret' = [secret EXCEPT ![p] = k]
  /\ Goto(p, IF task[p].op = "load" THEN "decrypt" ELSE "openKey")

LookupUnguarded(p) ==  \* mutant: replaces an encryption key it cannot find
  /\ pc[p] = "lookup"
  /\ \/ keyring[sid[p]] # None /\ Proceed(p, keyring[sid[p]])
     \/ keyring[sid[p]] = None /\ Goto(p, "set") /\ UNCHANGED secret
     \/ Finish(p, "refused") /\ UNCHANGED secret
  /\ UNCHANGED <<files, keyring, task, content, sid>>

\* The keyring may raise at any time; an absent entry is another matter.
Lookup(p) ==
  /\ pc[p] = "lookup"
  /\ \/ keyring[sid[p]] # None /\ Proceed(p, keyring[sid[p]])
     \/ keyring[sid[p]] = None /\ MayCreate /\ Goto(p, "set") /\ UNCHANGED secret
     \/ Finish(p, "refused") /\ UNCHANGED secret
  /\ UNCHANGED <<files, keyring, task, content, sid>>

\* A set that raises may have stored the entry or not.
SetSecret(p) ==
  /\ pc[p] = "set"
  /\ keyring' \in {keyring, [keyring EXCEPT ![sid[p]] = p]}
  /\ \/ keyring'[sid[p]] = p /\ Proceed(p, p)
     \/ Finish(p, "refused") /\ UNCHANGED secret
  /\ UNCHANGED <<files, task, content, sid>>

Decrypt(p) ==
  /\ pc[p] = "decrypt"
  /\ Finish(p, IF content[p] = Torn THEN "damaged"
               ELSE IF content[p] = secret[p] THEN "loaded" ELSE "undecryptable")
  /\ UNCHANGED <<files, keyring, locals>>

OpenKey(p) ==
  /\ pc[p] = "openKey"
  /\ \/ /\ key[name(p)] = None
        /\ key' = [key EXCEPT ![name(p)] = Torn]
        /\ Goto(p, "writeKey")
     \/ Finish(p, "failed") /\ UNCHANGED key
  /\ UNCHANGED <<id, pub, keyring, locals>>

WriteKeyUnnoticed(p) ==  \* mutant: a failed write goes unnoticed
  /\ pc[p] = "writeKey"
  /\ key' \in {key, [key EXCEPT ![name(p)] = Written(@, secret[p])]}
  /\ Goto(p, "openPub")
  /\ UNCHANGED <<id, pub, keyring, locals>>

WriteKey(p) ==
  /\ pc[p] = "writeKey"
  /\ \/ /\ key' = [key EXCEPT ![name(p)] = Written(@, secret[p])]
        /\ Goto(p, "openPub")
     \/ Goto(p, "dropKey") /\ UNCHANGED key
  /\ UNCHANGED <<id, pub, keyring, locals>>

OpenPub(p) ==
  /\ pc[p] = "openPub"
  /\ \/ /\ pub[name(p)] = None
        /\ pub' = [pub EXCEPT ![name(p)] = Torn]
        /\ Goto(p, "writePub")
     \/ Goto(p, "dropKey") /\ UNCHANGED pub
  /\ UNCHANGED <<id, key, keyring, locals>>

WritePub(p) ==
  /\ pc[p] = "writePub"
  /\ \/ /\ pub' = [pub EXCEPT ![name(p)] = Written(@, p)]
        /\ Finish(p, "stored")
     \/ Goto(p, "dropBoth") /\ UNCHANGED pub
  /\ UNCHANGED <<id, key, keyring, locals>>

\* Cleanup in order of creation; an unlink that raises ends it.
DropKey(p) ==
  /\ pc[p] \in {"dropKey", "dropBoth"}
  /\ \/ /\ key' = [key EXCEPT ![name(p)] = None]
        /\ IF pc[p] = "dropBoth" THEN Goto(p, "dropPub") ELSE Finish(p, "failed")
     \/ Finish(p, "unclean") /\ UNCHANGED key
  /\ UNCHANGED <<id, pub, keyring, locals>>

DropPub(p) ==
  /\ pc[p] = "dropPub"
  /\ \/ pub' = [pub EXCEPT ![name(p)] = None] /\ Finish(p, "failed")
     \/ Finish(p, "unclean") /\ UNCHANGED pub
  /\ UNCHANGED <<id, key, keyring, locals>>

\* The process dies, or is interrupted: no cleanup runs, the lock is dropped.
Crash(p) ==
  /\ pc[p] \in Inside
  /\ Finish(p, "crashed")
  /\ UNCHANGED <<files, keyring, locals>>

LoseKeyring ==
  /\ "keyring" \in Losses
  /\ keyring' = [i \in Procs |-> None]
  /\ UNCHANGED <<lock, files, pc, locals, removed>>

LoseIdentity ==
  /\ "identity" \in Losses
  /\ id' = None
  /\ UNCHANGED <<lock, key, pub, keyring, pc, locals, removed>>

RemovePair(n) ==
  /\ "pair" \in Losses
  /\ key' = [key EXCEPT ![n] = None] /\ pub' = [pub EXCEPT ![n] = None]
  /\ removed' = removed \cup {n}
  /\ UNCHANGED <<lock, id, keyring, pc, locals>>

Step(p) ==
  \/ Acquire(p) \/ TimeOut(p) \/ CheckName(p) \/ ReadKey(p)
  \/ FindIdentity(p) \/ CreateIdentity(p) \/ WriteIdentity(p)
  \/ Lookup(p) \/ SetSecret(p) \/ Decrypt(p)
  \/ OpenKey(p) \/ WriteKey(p) \/ OpenPub(p) \/ WritePub(p)
  \/ DropKey(p) \/ DropPub(p) \/ Crash(p)

Next ==
  \/ \E p \in Procs : Step(p) /\ UNCHANGED removed
  \/ LoseKeyring \/ LoseIdentity
  \/ \E n \in Names : RemovePair(n)

Spec == Init /\ [][Next]_vars

-----------------------------------------------------------------------------
(* Safety *)

\* Every complete signing key is encrypted under the encryption key that the
\* keyring holds for the current store-id, if both are there: no crash, loss
\* or concurrent generation makes a good key unreadable (keystore.py:68-96).
Decryptable ==
  id \in Procs /\ keyring[id] # None =>
    \A n \in Names : key[n] \in Procs => key[n] = keyring[id]

\* A torn store-id, which makes every later call refuse (keystore.py:26),
\* never lies beside encrypted keys: removing it can lock no key out.
TornIdentityIsAlone == id = Torn => \A n \in Names : key[n] = None

\* A new store-id or encryption key is stored only while no .key file exists
\* (keystore.py:33, 81): what encrypts existing keys is never replaced.
FreshOnlyWhenEmpty ==
  [][ \/ id' # id /\ id' # None
      \/ \E i \in Procs : keyring'[i] \notin {keyring[i], None}
      => \A n \in Names : key[n] = None ]_vars

\* A pair that generate returned stays on disk, complete and from one call,
\* unless the operator removes it (keystore.py:99-126).
StoredIntact ==
  \A p \in Procs : pc[p] = "stored" /\ name(p) \notin removed =>
    pub[name(p)] = p /\ key[name(p)] = secret[p]

\* A load whose file is whole never ends with a decryption error: it loads,
\* or refuses before it tries (keystore.py:129-132). Only the removal of the
\* file between its two reads could let the load make an encryption key.
LoadsDecrypt ==
  \A p \in Procs : name(p) \notin removed => pc[p] # "undecryptable"

\* What generate returned and the operator keeps is never lost: not from the
\* disk, and not for a load that finds the file.
PairsSurvive == StoredIntact /\ LoadsDecrypt
=============================================================================
