--------------------------- MODULE Keystore_proofs ---------------------------
(***************************************************************************)
(* Proofs about Keystore, for every number of processes and names and for  *)
(* everything the operator may lose.                                       *)
(***************************************************************************)
EXTENDS Keystore, TLAPS

\* A process inside the store holds its lock.
LockHeld == \A p \in Procs : pc[p] \in Inside => lock = p

NoKeys == \A n \in Names : key[n] = None

AllUnder(k) == \A n \in Names : key[n] \in Procs => key[n] = k

Empty == {"createId", "writeId", "set"}
Writing == {"decrypt", "openKey", "writeKey", "openPub", "writePub",
            "dropKey", "dropBoth", "dropPub"}

\* What a process knows of the store while it holds the lock. The operator
\* may still lose the store-id and the keyring: no more than that is known.
Knows(p) ==
  /\ pc[p] \in Empty => NoKeys
  /\ pc[p] = "writeId" => id \in {None, Torn}
  /\ pc[p] \in {"lookup", "set"} \cup Writing =>
       /\ sid[p] \in Procs
       /\ id \in {None, sid[p]}
       /\ keyring[sid[p]] # None => AllUnder(keyring[sid[p]])
  /\ pc[p] \in Writing =>
       /\ secret[p] \in Procs
       /\ keyring[sid[p]] \in {None, secret[p]}
       /\ AllUnder(secret[p])

Knowledge == \A p \in Procs : Knows(p)

IInv == TypeOK /\ LockHeld /\ Knowledge /\ Decryptable /\ TornIdentityIsAlone

LEMMA InitIInv == Init => IInv
BY KeystoreAssumption
DEF Init, IInv, TypeOK, LockHeld, Knowledge, Knows, Decryptable, TornIdentityIsAlone,
    Inside, Empty, Writing

\* Everything but getting the lock and giving up is done inside.
LEMMA StepInside ==
  ASSUME NEW p \in Procs, Step(p), ~Acquire(p), ~TimeOut(p)
  PROVE  pc[p] \in Inside
BY DEF Step, CheckName, ReadKey, FindIdentity, CreateIdentity, WriteIdentity, Lookup,
       SetSecret, Decrypt, OpenKey, WriteKey, OpenPub, WritePub, DropKey, DropPub, Crash,
       Inside

LEMMA StepMoves ==
  ASSUME IInv, NEW p \in Procs, Step(p)
  PROVE  \E to \in Inside \cup Outcomes :
           /\ pc' = [pc EXCEPT ![p] = to]
           /\ to \in Inside => lock' = p
           /\ lock' \in {lock, None, p}
           /\ lock' # lock => lock = p \/ Acquire(p)
<1>0. ASSUME NEW to \in Inside \cup Outcomes, pc[p] \in Inside,
             Goto(p, to) \/ (Finish(p, to) /\ to \in Outcomes)
      PROVE  /\ pc' = [pc EXCEPT ![p] = to]
             /\ to \in Inside => lock' = p
             /\ lock' \in {lock, None, p}
             /\ lock' # lock => lock = p \/ Acquire(p)
  BY <1>0 DEF IInv, LockHeld, Goto, Finish, Inside, Outcomes
<1>1. CASE Acquire(p)
  BY <1>1 DEF Acquire, Inside, Outcomes
<1>2. CASE TimeOut(p)
  BY <1>2 DEF TimeOut, Goto, Inside, Outcomes
<1>3. CASE ~Acquire(p) /\ ~TimeOut(p)
  <2>1. pc[p] \in Inside
    BY <1>3, StepInside
  <2>2. \E to \in Inside \cup Outcomes :
          Goto(p, to) \/ (Finish(p, to) /\ to \in Outcomes)
    BY <1>3
    DEF Step, CheckName, ReadKey, FindIdentity, CreateIdentity, WriteIdentity, Lookup,
        SetSecret, Proceed, Decrypt, OpenKey, WriteKey, OpenPub, WritePub, DropKey, DropPub,
        Crash, Inside, Outcomes
  <2> QED
    BY <1>0, <2>1, <2>2
<1> QED
  BY <1>1, <1>2, <1>3

LEMMA StepLock ==
  ASSUME IInv, NEW p \in Procs, Step(p)
  PROVE  LockHeld'
<1>1. PICK to \in Inside \cup Outcomes :
        /\ pc' = [pc EXCEPT ![p] = to]
        /\ to \in Inside => lock' = p
        /\ lock' \in {lock, None, p}
        /\ lock' # lock => lock = p \/ Acquire(p)
  BY StepMoves
<1>2. SUFFICES ASSUME NEW q \in Procs, pc'[q] \in Inside PROVE lock' = q
  BY DEF LockHeld
<1>3. CASE q = p
  BY <1>1, <1>2, <1>3 DEF IInv, TypeOK
<1>4. CASE q # p
  <2>1. lock = q
    BY <1>1, <1>2, <1>4 DEF IInv, TypeOK, LockHeld
  <2> QED
    BY <1>1, <1>4, <2>1, KeystoreAssumption DEF Acquire, LockFree
<1> QED
  BY <1>3, <1>4

LEMMA StepType ==
  ASSUME IInv, NEW p \in Procs, Step(p), UNCHANGED removed
  PROVE  TypeOK'
<1> DEFINE file == Procs \cup {None, Torn}
<1>1. TypeOK /\ name(p) \in Names
  BY DEF IInv, TypeOK, name
<1>2. /\ lock' \in Procs \cup {None}
      /\ pc' \in [Procs -> {"waiting"} \cup Inside \cup Outcomes]
  BY <1>1, StepMoves DEF TypeOK
<1>3. id' \in file
  BY <1>1
  DEF TypeOK, Step, Acquire, TimeOut, CheckName, ReadKey, FindIdentity, CreateIdentity,
      WriteIdentity, Written, Lookup, SetSecret, Decrypt, OpenKey, WriteKey, OpenPub, WritePub,
      DropKey, DropPub, Crash, files
<1>4. sid' \in [Procs -> Procs \cup {None}]
  BY <1>1
  DEF TypeOK, Step, Acquire, TimeOut, CheckName, ReadKey, FindIdentity, CreateIdentity,
      WriteIdentity, Lookup, SetSecret, Decrypt, OpenKey, WriteKey, OpenPub, WritePub,
      DropKey, DropPub, Crash, locals
<1>5. /\ keyring' \in [Procs -> Procs \cup {None}]
      /\ secret' \in [Procs -> Procs \cup {None}]
  <2>1. CASE Lookup(p)
    <3>1. sid[p] \in Procs
      BY <2>1 DEF Lookup, IInv, Knowledge, Knows
    <3> QED
      BY <1>1, <2>1, <3>1 DEF Lookup, Proceed, TypeOK
  <2>2. CASE SetSecret(p)
    BY <1>1, <2>2 DEF SetSecret, Proceed, TypeOK
  <2>3. CASE ~Lookup(p) /\ ~SetSecret(p)
    BY <1>1, <2>3
    DEF TypeOK, Step, Acquire, TimeOut, CheckName, ReadKey, FindIdentity, CreateIdentity,
        WriteIdentity, Decrypt, OpenKey, WriteKey, OpenPub, WritePub,
        DropKey, DropPub, Crash, locals
  <2> QED
    BY <2>1, <2>2, <2>3
<1>6. key' \in [Names -> file]
  BY <1>1
  DEF TypeOK, Step, Acquire, TimeOut, CheckName, ReadKey, FindIdentity, CreateIdentity,
      WriteIdentity, Lookup, SetSecret, Decrypt, OpenKey, WriteKey, Written, OpenPub, WritePub,
      DropKey, DropPub, Crash, files
<1>7. pub' \in [Names -> file]
  BY <1>1
  DEF TypeOK, Step, Acquire, TimeOut, CheckName, ReadKey, FindIdentity, CreateIdentity,
      WriteIdentity, Lookup, SetSecret, Decrypt, OpenKey, WriteKey, Written, OpenPub, WritePub,
      DropKey, DropPub, Crash, files
<1>8. /\ task' \in [Procs -> [op: {"generate", "load"}, name: Names]]
      /\ content' \in [Procs -> file]
  BY <1>1
  DEF TypeOK, Step, Acquire, TimeOut, CheckName, ReadKey, FindIdentity, CreateIdentity,
      WriteIdentity, Lookup, SetSecret, Decrypt, OpenKey, WriteKey, OpenPub, WritePub,
      DropKey, DropPub, Crash, locals
<1>9. (removed \subseteq Names)'
  BY <1>1 DEF TypeOK
<1> QED
  BY <1>2, <1>3, <1>4, <1>5, <1>6, <1>7, <1>8, <1>9 DEF TypeOK

\* One process is inside at a time, so a step disturbs no other's knowledge.
LEMMA OthersKnow ==
  ASSUME IInv, NEW p \in Procs, Step(p), NEW q \in Procs, q # p
  PROVE  Knows(q)'
<1>1. pc'[q] = pc[q]
  BY StepMoves DEF IInv, TypeOK
<1>2. CASE pc[q] \notin Inside
  BY <1>1, <1>2 DEF Knows, Empty, Writing, Inside
<1>3. CASE pc[q] \in Inside
  <2>1. lock = q
    BY <1>3 DEF IInv, LockHeld
  <2>2. pc[p] \notin Inside
    BY <2>1 DEF IInv, LockHeld
  <2>3. TimeOut(p)
    BY <2>1, <2>2, StepInside, KeystoreAssumption DEF Acquire, LockFree
  <2>4. UNCHANGED <<files, keyring, locals>>
    BY <2>3 DEF TimeOut
  <2>5. Knows(q)
    BY DEF IInv, Knowledge
  <2> QED
    BY <1>1, <2>4, <2>5 DEF Knows, NoKeys, AllUnder, files, locals
<1> QED
  BY <1>2, <1>3

\* Steps that write none of the files and no keyring entry.
LEMMA ReadingStep ==
  ASSUME IInv, NEW p \in Procs,
         \/ Acquire(p) \/ TimeOut(p) \/ CheckName(p) \/ ReadKey(p)
         \/ FindIdentity(p) \/ Lookup(p) \/ Decrypt(p) \/ Crash(p)
  PROVE  Knows(p)' /\ Decryptable' /\ TornIdentityIsAlone'
<1>1. UNCHANGED <<files, keyring>>
  BY DEF Acquire, TimeOut, CheckName, ReadKey, FindIdentity, Lookup, Decrypt, Crash
<1>2. Decryptable' /\ TornIdentityIsAlone'
  BY <1>1 DEF IInv, Decryptable, TornIdentityIsAlone, files
<1>3. TypeOK /\ Knows(p)
  BY DEF IInv, Knowledge
<1>4. CASE FindIdentity(p)
  <2>1. CASE id \in Procs /\ sid' = [sid EXCEPT ![p] = id] /\ Goto(p, "lookup")
    <3>1. pc'[p] = "lookup" /\ sid'[p] = id
      BY <1>3, <2>1 DEF TypeOK, Goto
    <3>2. keyring[id] # None => AllUnder(keyring[id])
      BY <2>1 DEF IInv, Decryptable, AllUnder
    <3> QED
      BY <1>2, <1>1, <2>1, <3>1, <3>2 DEF Knows, AllUnder, files, Empty, Writing
  <2>2. CASE MayCreate /\ Goto(p, "createId")
    BY <1>2, <1>1, <1>3, <2>2 DEF Knows, MayCreate, NoKeys, Goto, TypeOK, files, Empty, Writing
  <2>3. CASE Finish(p, "refused")
    BY <1>2, <1>3, <2>3 DEF Knows, Finish, TypeOK, Empty, Writing
  <2> QED
    BY <1>4, <2>1, <2>2, <2>3 DEF FindIdentity
<1>5. CASE Lookup(p)
  <2>0. /\ UNCHANGED sid /\ sid[p] \in Procs /\ id \in {None, sid[p]}
        /\ keyring[sid[p]] # None => AllUnder(keyring[sid[p]])
    BY <1>3, <1>5 DEF Lookup, Knows
  <2>1. CASE keyring[sid[p]] # None /\ Proceed(p, keyring[sid[p]])
    <3>1. /\ pc'[p] \in {"decrypt", "openKey"} /\ secret'[p] = keyring[sid[p]]
          /\ keyring[sid[p]] \in Procs
      BY <1>3, <2>0, <2>1 DEF TypeOK, Proceed, Goto
    <3> QED
      BY <1>2, <1>1, <2>0, <2>1, <3>1 DEF Knows, AllUnder, files, Empty, Writing
  <2>2. CASE keyring[sid[p]] = None /\ MayCreate /\ Goto(p, "set")
    BY <1>2, <1>1, <1>3, <2>0, <2>2
    DEF Knows, MayCreate, NoKeys, Goto, TypeOK, files, Empty, Writing
  <2>3. CASE Finish(p, "refused")
    BY <1>2, <1>3, <2>3 DEF Knows, Finish, TypeOK, Empty, Writing
  <2> QED
    BY <1>5, <2>1, <2>2, <2>3 DEF Lookup
<1>6. CASE ~FindIdentity(p) /\ ~Lookup(p)
  <2>1. pc'[p] \in {"check", "read", "identity"} \cup Outcomes
    BY <1>3, <1>6
    DEF Acquire, TimeOut, CheckName, ReadKey, Decrypt, Crash, Goto, Finish, TypeOK, Outcomes
  <2> QED
    BY <1>2, <2>1 DEF Knows, Empty, Writing, Outcomes
<1> QED
  BY <1>2, <1>4, <1>5, <1>6

\* Steps that make or fill the store-id and the keyring entry.
LEMMA FoundingStep ==
  ASSUME IInv, NEW p \in Procs,
         CreateIdentity(p) \/ WriteIdentity(p) \/ SetSecret(p)
  PROVE  Knows(p)' /\ Decryptable' /\ TornIdentityIsAlone'
<1>1. TypeOK /\ Knows(p) /\ NoKeys /\ UNCHANGED key
  BY DEF IInv, Knowledge, Knows, Empty, CreateIdentity, WriteIdentity, SetSecret, files
<1>2. NoKeys' /\ Decryptable' /\ TornIdentityIsAlone' /\ \A k : AllUnder(k)'
  BY <1>1, KeystoreAssumption DEF NoKeys, AllUnder, Decryptable, TornIdentityIsAlone
<1>3. CASE CreateIdentity(p)
  <2>1. \/ pc'[p] = "writeId" /\ id' = Torn
        \/ pc'[p] = "failed"
    BY <1>1, <1>3 DEF CreateIdentity, Goto, Finish, TypeOK
  <2> QED
    BY <1>2, <2>1 DEF Knows, Writing
<1>4. CASE WriteIdentity(p)
  <2>1. \/ pc'[p] = "lookup" /\ sid'[p] = p /\ id' \in {None, p}
        \/ pc'[p] = "failed"
    BY <1>1, <1>4 DEF WriteIdentity, Written, Knows, Goto, Finish, TypeOK
  <2> QED
    BY <1>2, <2>1 DEF Knows, Empty, Writing
<1>5. CASE SetSecret(p)
  <2>0. sid[p] \in Procs /\ id \in {None, sid[p]} /\ UNCHANGED <<id, sid>>
    BY <1>1, <1>5 DEF SetSecret, Knows, files
  <2>1. \/ /\ pc'[p] \in {"decrypt", "openKey"} /\ secret'[p] = p
           /\ keyring'[sid[p]] = p
        \/ pc'[p] = "refused"
    BY <1>1, <1>5 DEF SetSecret, Proceed, Goto, Finish, TypeOK
  <2> QED
    BY <1>2, <2>0, <2>1 DEF Knows, Empty, Writing
<1> QED
  BY <1>3, <1>4, <1>5

\* Steps that write or clean up the files of a pair.
LEMMA PairStep ==
  ASSUME IInv, NEW p \in Procs,
         \/ OpenKey(p) \/ WriteKey(p) \/ OpenPub(p) \/ WritePub(p)
         \/ DropKey(p) \/ DropPub(p)
  PROVE  Knows(p)' /\ Decryptable' /\ TornIdentityIsAlone'
<1>1. /\ TypeOK /\ pc[p] \in Writing /\ name(p) \in Names
      /\ UNCHANGED <<id, keyring, sid, secret>>
  BY DEF IInv, TypeOK, name, Writing, OpenKey, WriteKey, OpenPub, WritePub, DropKey, DropPub,
         locals
<1>2. /\ sid[p] \in Procs /\ id \in {None, sid[p]} /\ secret[p] \in Procs
      /\ keyring[sid[p]] \in {None, secret[p]} /\ AllUnder(secret[p])
  BY <1>1 DEF IInv, Knowledge, Knows
<1>3. pc'[p] \in Writing \cup Outcomes
  BY <1>1 DEF TypeOK, Writing, Outcomes, Goto, Finish, OpenKey, WriteKey, OpenPub, WritePub,
              DropKey, DropPub
<1>4. \A n \in Names : key'[n] \in {key[n], Torn, None, secret[p]}
  BY <1>1 DEF TypeOK, OpenKey, WriteKey, Written, OpenPub, WritePub, DropKey, DropPub
<1>5. AllUnder(secret[p])'
  BY <1>1, <1>2, <1>4, KeystoreAssumption DEF AllUnder
<1>6. Knows(p)'
  BY <1>1, <1>2, <1>3, <1>5 DEF Knows, Empty, Writing, Outcomes
<1>7. Decryptable' /\ TornIdentityIsAlone'
  BY <1>1, <1>2, <1>5, KeystoreAssumption DEF Decryptable, TornIdentityIsAlone, AllUnder
<1> QED
  BY <1>6, <1>7

\* What the operator loses makes everything that is known hold the more.
LEMMA OperatorStep ==
  ASSUME IInv, LoseKeyring \/ LoseIdentity \/ \E n \in Names : RemovePair(n)
  PROVE  IInv'
<1>1. UNCHANGED <<lock, pc, locals>>
  BY DEF LoseKeyring, LoseIdentity, RemovePair
<1>2. /\ id' \in {id, None}
      /\ \A i \in Procs : keyring'[i] \in {keyring[i], None}
      /\ \A n \in Names : key'[n] \in {key[n], None}
  BY DEF IInv, TypeOK, LoseKeyring, LoseIdentity, RemovePair, files
<1>3. TypeOK'
  BY <1>1 DEF IInv, TypeOK, LoseKeyring, LoseIdentity, RemovePair, files, locals
<1>4. LockHeld'
  BY <1>1 DEF IInv, LockHeld
<1>5. Decryptable' /\ TornIdentityIsAlone'
  BY <1>2, KeystoreAssumption DEF IInv, Decryptable, TornIdentityIsAlone
<1>6. ASSUME NEW p \in Procs PROVE Knows(p)'
  <2>1. Knows(p) /\ UNCHANGED <<pc, sid, secret>>
    BY <1>1 DEF IInv, Knowledge, locals
  <2>2. NoKeys => NoKeys'
    BY <1>2 DEF NoKeys
  <2>3. \A k \in Procs : AllUnder(k) => AllUnder(k)'
    BY <1>2, KeystoreAssumption DEF AllUnder
  <2>4. sid[p] \in Procs => keyring'[sid[p]] \in {keyring[sid[p]], None}
                            /\ keyring[sid[p]] \in Procs \cup {None}
    BY <1>2 DEF IInv, TypeOK
  <2> QED
    BY <1>2, <2>1, <2>2, <2>3, <2>4 DEF Knows
<1> QED
  BY <1>3, <1>4, <1>5, <1>6 DEF IInv, Knowledge

LEMMA NextIInv == IInv /\ [Next]_vars => IInv'
<1> SUFFICES ASSUME IInv, [Next]_vars PROVE IInv'
  OBVIOUS
<1>1. ASSUME NEW p \in Procs, Step(p), UNCHANGED removed PROVE IInv'
  <2>1. TypeOK' /\ LockHeld'
    BY <1>1, StepType, StepLock
  <2>2. Knows(p)' /\ Decryptable' /\ TornIdentityIsAlone'
    BY <1>1, ReadingStep, FoundingStep, PairStep DEF Step
  <2>3. Knowledge'
    BY <1>1, <2>2, OthersKnow DEF Knowledge
  <2> QED
    BY <2>1, <2>2, <2>3 DEF IInv
<1>2. CASE UNCHANGED vars
  BY <1>2 DEF IInv, TypeOK, LockHeld, Knowledge, Knows, NoKeys, AllUnder, Decryptable,
              TornIdentityIsAlone, vars, files, locals
<1> QED
  BY <1>1, <1>2, OperatorStep DEF Next

LEMMA Invariance == Spec => []IInv
BY InitIInv, NextIInv, PTL DEF Spec

\* The store's files, the keyring and every call keep their types.
THEOREM TypeCorrect == Spec => []TypeOK
<1>1. IInv => TypeOK
  BY DEF IInv
<1> QED
  BY <1>1, Invariance, PTL

\* No crash, loss or concurrent generation leaves a complete signing key
\* beside a store-id whose keyring entry is not the one it is encrypted under.
THEOREM AlwaysDecryptable == Spec => []Decryptable
<1>1. IInv => Decryptable
  BY DEF IInv
<1> QED
  BY Invariance, <1>1, PTL

\* An unusable store-id can be removed at once: no key depends on it.
THEOREM TornIdentityIsAlwaysAlone == Spec => []TornIdentityIsAlone
<1>1. IInv => TornIdentityIsAlone
  BY DEF IInv
<1> QED
  BY Invariance, <1>1, PTL

\* No store-id and no encryption key is ever stored beside a .key file.
THEOREM AlwaysFreshOnlyWhenEmpty == Spec => FreshOnlyWhenEmpty
<1> DEFINE Fresh == \/ id' # id /\ id' # None
                    \/ \E i \in Procs : keyring'[i] \notin {keyring[i], None}
<1>1. IInv /\ [Next]_vars => [Fresh => \A n \in Names : key[n] = None]_vars
  <2> SUFFICES ASSUME IInv, Next, Fresh PROVE NoKeys
    BY DEF NoKeys
  <2>1. ~ (LoseKeyring \/ LoseIdentity \/ \E n \in Names : RemovePair(n))
    BY DEF LoseKeyring, LoseIdentity, RemovePair, files
  <2>2. PICK p \in Procs : Step(p)
    BY <2>1 DEF Next
  <2>3. CreateIdentity(p) \/ WriteIdentity(p) \/ SetSecret(p)
    BY <2>2 DEF Step, Acquire, TimeOut, CheckName, ReadKey, FindIdentity, Lookup, Decrypt,
                OpenKey, WriteKey, OpenPub, WritePub, DropKey, DropPub, Crash, files
  <2> QED
    BY <2>3 DEF IInv, Knowledge, Knows, Empty, CreateIdentity, WriteIdentity, SetSecret
<1> QED
  BY Invariance, <1>1, PTL DEF Spec, FreshOnlyWhenEmpty

-----------------------------------------------------------------------------
(* What a call has returned or read, unless the operator removes its pair. *)

Owning == {"writeKey", "openPub", "writePub", "dropKey", "dropBoth", "dropPub"}
Looking == {"identity", "createId", "writeId", "lookup", "set", "decrypt"}

Stored(p) == pc[p] = "stored" =>
  secret[p] \in Procs /\ pub[name(p)] = p /\ key[name(p)] = secret[p]

\* The files that a call creates belong to no pair that was returned before.
Owns(p) ==
  /\ pc[p] \in Owning => \A q \in Procs : pc[q] = "stored" => name(q) # name(p)
  /\ pc[p] = "writeKey" => key[name(p)] = Torn
  /\ pc[p] \in {"openPub", "writePub"} => key[name(p)] = secret[p]
  /\ pc[p] = "writePub" => pub[name(p)] = Torn

\* What a load has read is still there.
HasRead(p) ==
  /\ pc[p] = "check" => task[p].op # "load"
  /\ pc[p] = "decrypt" => task[p].op = "load"
  /\ pc[p] \in Looking /\ task[p].op = "load" =>
       content[p] = key[name(p)] /\ content[p] # None
  /\ pc[p] # "undecryptable"

KeptBy(p) == Stored(p) /\ Owns(p) /\ HasRead(p)

Kept == \A p \in Procs : name(p) \notin removed => KeptBy(p)

\* A step changes the pair of its own name only, and no other's local state.
LEMMA StepLocal ==
  ASSUME IInv, NEW p \in Procs, Step(p)
  PROVE  /\ UNCHANGED task
         /\ \A q \in Procs \ {p} :
              pc'[q] = pc[q] /\ secret'[q] = secret[q] /\ content'[q] = content[q]
         /\ \A n \in Names \ {name(p)} : key'[n] = key[n] /\ pub'[n] = pub[n]
<1> USE DEF IInv, TypeOK
<1>1. UNCHANGED task /\ \A q \in Procs \ {p} :
        pc'[q] = pc[q] /\ secret'[q] = secret[q] /\ content'[q] = content[q]
  BY StepMoves
  DEF Step, Acquire, TimeOut, CheckName, ReadKey, FindIdentity, CreateIdentity,
      WriteIdentity, Lookup, SetSecret, Proceed, Decrypt, OpenKey, WriteKey, OpenPub, WritePub,
      DropKey, DropPub, Crash, locals
<1>2. \A n \in Names \ {name(p)} : key'[n] = key[n] /\ pub'[n] = pub[n]
  BY DEF Step, Acquire, TimeOut, CheckName, ReadKey, FindIdentity, CreateIdentity,
      WriteIdentity, Lookup, SetSecret, Decrypt, OpenKey, WriteKey, OpenPub, WritePub,
      DropKey, DropPub, Crash, files
<1> QED
  BY <1>1, <1>2

\* So it disturbs nothing that another name's calls know.
LEMMA KeptElsewhere ==
  ASSUME IInv, NEW p \in Procs, Step(p), NEW q \in Procs, name(q) # name(p), KeptBy(q)
  PROVE  KeptBy(q)'
<1>1. q # p /\ name(q) \in Names
  BY DEF IInv, TypeOK, name
<1>2. /\ UNCHANGED task /\ pc'[q] = pc[q] /\ secret'[q] = secret[q] /\ content'[q] = content[q]
      /\ key'[name(q)] = key[name(q)] /\ pub'[name(q)] = pub[name(q)]
  BY <1>1, StepLocal
<1>3. Stored(q)'
  BY <1>2 DEF KeptBy, Stored, name
<1>4. Owns(q)'
  <2>1. \A r \in Procs : name(r) = name(q) => pc'[r] = pc[r]
    BY StepLocal
  <2>2. pc[q] \in Owning => \A r \in Procs : pc'[r] = "stored" => name(r) # name(q)
    BY <2>1 DEF KeptBy, Owns
  <2> QED
    BY <1>2, <2>2 DEF KeptBy, Owns, name
<1>5. HasRead(q)'
  BY <1>2 DEF KeptBy, HasRead, name
<1> QED
  BY <1>3, <1>4, <1>5 DEF KeptBy

\* Apart from the steps that write a pair, nothing disturbs it.
LEMMA KeptByOthers ==
  ASSUME IInv, NEW p \in Procs, Step(p), UNCHANGED <<key, pub>>,
         \A q \in Procs : name(q) = name(p) => KeptBy(q),
         pc'[p] # "stored",
         Owns(p)' \/ pc'[p] \notin Owning, HasRead(p)'
  PROVE  \A q \in Procs : name(q) = name(p) => KeptBy(q)'
<1>1. /\ UNCHANGED task /\ \A q \in Procs \ {p} :
           pc'[q] = pc[q] /\ secret'[q] = secret[q] /\ content'[q] = content[q]
  BY StepLocal
<1>2. Stored(p)' /\ Owns(p)' /\ HasRead(p)'
  BY DEF Stored, Owns, Owning
<1>3. ASSUME NEW q \in Procs, q # p, name(q) = name(p)
      PROVE  Stored(q)' /\ Owns(q)' /\ HasRead(q)'
  <2>1. Stored(q) /\ Owns(q) /\ HasRead(q)
    BY <1>3 DEF KeptBy
  <2>2. Stored(q)'
    BY <1>1, <1>3, <2>1 DEF Stored, name
  <2>3. Owns(q)'
    BY <1>1, <1>3, <2>1 DEF Owns, name
  <2>4. HasRead(q)'
    BY <1>1, <1>3, <2>1 DEF HasRead, name
  <2> QED
    BY <2>2, <2>3, <2>4
<1> QED
  BY <1>2, <1>3 DEF KeptBy

\* A call that writes a pair is alone inside.
LEMMA KeptByWriter ==
  ASSUME IInv, NEW p \in Procs, pc[p] \in {"openKey"} \cup Owning, Step(p),
         UNCHANGED locals,
         \A q \in Procs : name(q) = name(p) => KeptBy(q),
         \A q \in Procs \ {p} : pc[q] = "stored" => name(q) # name(p),
         Stored(p)', pc'[p] \notin {"check", "decrypt", "undecryptable"} \cup Looking,
         pc'[p] = "writeKey" => key'[name(p)] = Torn,
         pc'[p] \in {"openPub", "writePub"} => key'[name(p)] = secret[p],
         pc'[p] = "writePub" => pub'[name(p)] = Torn
  PROVE  \A q \in Procs : name(q) = name(p) => KeptBy(q)'
<1>1. \A q \in Procs \ {p} : pc'[q] = pc[q] /\ pc[q] \notin Inside
  BY StepMoves DEF IInv, TypeOK, LockHeld, Owning, Inside
<1>2. Owns(p)' /\ HasRead(p)'
  BY <1>1 DEF Owns, HasRead, Owning, name, locals
<1>3. ASSUME NEW q \in Procs, q # p, name(q) = name(p)
      PROVE  Stored(q)' /\ Owns(q)' /\ HasRead(q)'
  <2>1. HasRead(q) /\ pc[q] # "stored"
    BY <1>3 DEF KeptBy
  <2>2. Stored(q)'
    BY <1>1, <1>3, <2>1 DEF Stored
  <2>3. Owns(q)' /\ HasRead(q)'
    BY <1>1, <1>3, <2>1 DEF Owns, Owning, HasRead, Looking, Inside
  <2> QED
    BY <2>2, <2>3
<1> QED
  BY <1>2, <1>3 DEF KeptBy

LEMMA KeptHere ==
  ASSUME IInv, NEW p \in Procs, Step(p),
         \A q \in Procs : name(q) = name(p) => KeptBy(q)
  PROVE  \A q \in Procs : name(q) = name(p) => KeptBy(q)'
<1>0. /\ TypeOK /\ Stored(p) /\ Owns(p) /\ HasRead(p) /\ name(p) \in Names
      /\ \A q \in Procs : name(q) = name(p) => Stored(q)
  BY DEF IInv, TypeOK, KeptBy, name
<1>1. CASE Acquire(p) \/ TimeOut(p) \/ CheckName(p) \/ ReadKey(p) \/ Crash(p)
  <2>1. /\ UNCHANGED <<key, pub, task>>
        /\ pc'[p] \in {"check", "read", "identity", "busy", "taken", "missing", "crashed"}
    BY <1>0, <1>1
    DEF TypeOK, Acquire, TimeOut, CheckName, ReadKey, Crash, Goto, Finish, files, locals
  <2>2. pc'[p] = "check" => task[p].op # "load"
    BY <1>0, <1>1
    DEF TypeOK, Acquire, TimeOut, CheckName, ReadKey, Crash, Goto, Finish
  <2>3. pc'[p] = "identity" /\ task[p].op = "load" =>
          content'[p] = key[name(p)] /\ content'[p] # None
    BY <1>0, <1>1
    DEF HasRead, TypeOK, Acquire, TimeOut, CheckName, ReadKey, Crash, Goto, Finish
  <2>4. HasRead(p)'
    BY <2>1, <2>2, <2>3 DEF HasRead, Looking, name
  <2> QED
    BY <2>1, <2>4, KeptByOthers DEF Owning
<1>2. CASE FindIdentity(p) \/ CreateIdentity(p) \/ WriteIdentity(p) \/ Lookup(p) \/ SetSecret(p)
  <2>1. /\ UNCHANGED <<key, pub, task, content>> /\ pc[p] \in Looking
        /\ pc'[p] \in {"createId", "writeId", "lookup", "set", "decrypt", "openKey",
                       "refused", "failed"}
        /\ pc'[p] = "decrypt" => task[p].op = "load"
    BY <1>0, <1>2
    DEF TypeOK, FindIdentity, CreateIdentity, WriteIdentity, Lookup, SetSecret, Proceed,
        Goto, Finish, Looking, files, locals
  <2>2. HasRead(p)'
    BY <1>0, <2>1 DEF HasRead, Looking, name
  <2> QED
    BY <2>1, <2>2, KeptByOthers DEF Owning
<1>3. CASE Decrypt(p)
  <2>1. UNCHANGED <<key, pub, content, task>> /\ secret[p] \in Procs /\ AllUnder(secret[p])
    BY <1>3 DEF Decrypt, files, locals, IInv, Knowledge, Knows, Writing
  <2>2. content[p] = key[name(p)] /\ content[p] # None
    BY <1>0, <1>3 DEF Decrypt, HasRead, Looking
  <2>3. content[p] \in {Torn, secret[p]}
    BY <1>0, <2>1, <2>2 DEF AllUnder, TypeOK
  <2>4. pc'[p] \in {"damaged", "loaded"}
    BY <1>0, <1>3, <2>3 DEF Decrypt, Finish, TypeOK
  <2>5. HasRead(p)'
    BY <2>4 DEF HasRead, Looking
  <2> QED
    BY <2>1, <2>4, <2>5, KeptByOthers DEF Owning
<1>4. CASE OpenKey(p)
  <2>1. CASE Finish(p, "failed") /\ UNCHANGED key
    <3>1. pc'[p] = "failed" /\ UNCHANGED <<key, pub>>
      BY <1>0, <1>4, <2>1 DEF OpenKey, Finish, TypeOK
    <3>2. HasRead(p)'
      BY <3>1 DEF HasRead, Looking
    <3> QED
      BY <3>1, <3>2, KeptByOthers DEF Owning
  <2>2. CASE /\ key[name(p)] = None /\ key' = [key EXCEPT ![name(p)] = Torn]
             /\ Goto(p, "writeKey")
    <3>1. /\ pc'[p] = "writeKey" /\ key'[name(p)] = Torn /\ UNCHANGED <<pub, locals>>
          /\ \A n \in Names \ {name(p)} : key'[n] = key[n]
      BY <1>0, <1>4, <2>2 DEF OpenKey, Goto, TypeOK
    <3>2. \A q \in Procs \ {p} : pc[q] = "stored" => name(q) # name(p)
      BY <1>0, <2>2, KeystoreAssumption DEF Stored
    <3> QED
      BY <1>4, <3>1, <3>2, KeptByWriter DEF OpenKey, Stored, Looking
  <2> QED
    BY <1>4, <2>1, <2>2 DEF OpenKey
<1>5. CASE pc[p] \in Owning /\ ~Crash(p)
  <2>1. /\ secret[p] \in Procs /\ UNCHANGED locals
        /\ \A q \in Procs \ {p} : pc[q] = "stored" => name(q) # name(p)
    <3>1. UNCHANGED locals
      BY <1>5 DEF Owning, Step, Acquire, TimeOut, CheckName, ReadKey, FindIdentity,
                  CreateIdentity, WriteIdentity, Lookup, SetSecret, Decrypt, OpenKey, WriteKey,
                  OpenPub, WritePub, DropKey, DropPub
    <3> QED
      BY <1>0, <1>5, <3>1 DEF Owns, Owning, IInv, Knowledge, Knows, Writing
  <2>2. /\ \A n \in Names \ {name(p)} : key'[n] = key[n] /\ pub'[n] = pub[n]
        /\ pc'[p] \in {"openPub", "dropKey"} =>
             pc[p] \in {"writeKey", "openPub"}
        /\ pc'[p] \in Owning \cup {"stored", "failed", "unclean"} /\ pc'[p] # "writeKey"
    BY <1>0, <1>5
    DEF Owning, Step, Acquire, TimeOut, CheckName, ReadKey, FindIdentity,
        CreateIdentity, WriteIdentity, Lookup, SetSecret, Decrypt, OpenKey, WriteKey,
        OpenPub, WritePub, DropKey, DropPub, Goto, Finish, TypeOK
  <2>3. /\ pc'[p] \in {"openPub", "writePub"} => key'[name(p)] = secret[p]
        /\ pc'[p] = "writePub" => pub'[name(p)] = Torn
        /\ pc'[p] = "stored" => key'[name(p)] = secret[p] /\ pub'[name(p)] = p
    BY <1>0, <1>5
    DEF Owning, Owns, Written, Step, Acquire, TimeOut, CheckName, ReadKey, FindIdentity,
        CreateIdentity, WriteIdentity, Lookup, SetSecret, Decrypt, OpenKey, WriteKey,
        OpenPub, WritePub, DropKey, DropPub, Goto, Finish, TypeOK
  <2>4. Stored(p)'
    BY <2>1, <2>3 DEF Stored, name, locals
  <2> QED
    BY <1>5, <2>1, <2>2, <2>3, <2>4, KeptByWriter DEF Owning, Looking
<1> QED
  BY <1>1, <1>2, <1>3, <1>4, <1>5
  DEF Step, WriteKey, OpenPub, WritePub, DropKey, DropPub, Owning

LEMMA KeptStep ==
  ASSUME IInv, Kept, NEW p \in Procs, Step(p), UNCHANGED removed
  PROVE  Kept'
<1>1. UNCHANGED task
  BY StepLocal
<1>2. SUFFICES ASSUME NEW q \in Procs, name(q) \notin removed PROVE KeptBy(q)'
  BY <1>1 DEF Kept, name
<1>3. CASE name(q) = name(p)
  BY <1>2, <1>3, KeptHere DEF Kept
<1>4. CASE name(q) # name(p)
  BY <1>2, <1>4, KeptElsewhere DEF Kept
<1> QED
  BY <1>3, <1>4

LEMMA KeptRemove ==
  ASSUME IInv, Kept, NEW n \in Names, RemovePair(n)
  PROVE  Kept'
<1>1. UNCHANGED <<pc, locals>>
  BY DEF RemovePair
<1>2. SUFFICES ASSUME NEW q \in Procs, name(q) \notin removed, name(q) # n
               PROVE  KeptBy(q)'
  BY <1>1 DEF Kept, RemovePair, name, locals
<1>3. KeptBy(q) /\ name(q) \in Names
  BY <1>2 DEF Kept, IInv, TypeOK, name
<1>4. key'[name(q)] = key[name(q)] /\ pub'[name(q)] = pub[name(q)]
  BY <1>2, <1>3 DEF RemovePair, IInv, TypeOK
<1>5. Stored(q)'
  BY <1>1, <1>3, <1>4 DEF KeptBy, Stored, name, locals
<1>6. Owns(q)'
  BY <1>1, <1>3, <1>4 DEF KeptBy, Owns, name, locals
<1>7. HasRead(q)'
  BY <1>1, <1>3, <1>4 DEF KeptBy, HasRead, name, locals
<1> QED
  BY <1>5, <1>6, <1>7 DEF KeptBy

LEMMA KeptInvariance == Spec => []Kept
<1>1. Init => Kept
  BY DEF Init, Kept, KeptBy, Stored, Owns, HasRead, Owning, Looking
<1>2. IInv /\ Kept /\ [Next]_vars => Kept'
  <2> SUFFICES ASSUME IInv, Kept, [Next]_vars PROVE Kept'
    OBVIOUS
  <2>1. CASE LoseKeyring \/ LoseIdentity \/ UNCHANGED vars
    <3>1. UNCHANGED <<key, pub, pc, locals, removed>>
      BY <2>1 DEF LoseKeyring, LoseIdentity, vars, files
    <3> QED
      BY <3>1 DEF Kept, KeptBy, Stored, Owns, HasRead, name, locals
  <2> QED
    BY <2>1, KeptStep, KeptRemove DEF Next
<1> QED
  BY <1>1, <1>2, Invariance, PTL DEF Spec

\* Unless the operator removes it, a pair that generate returned stays as it
\* was written, whatever crashes, fails or runs at the same time.
THEOREM StoredAlwaysIntact == Spec => []StoredIntact
<1>1. Kept => StoredIntact
  BY DEF Kept, KeptBy, Stored, StoredIntact
<1> QED
  BY KeptInvariance, <1>1, PTL

\* No load ends with a decryption error over a whole file, unless the operator
\* has removed it.
THEOREM LoadsAlwaysDecrypt == Spec => []LoadsDecrypt
<1>1. Kept => LoadsDecrypt
  BY DEF Kept, KeptBy, HasRead, LoadsDecrypt
<1> QED
  BY KeptInvariance, <1>1, PTL

\* Both together: what generate returned and the operator keeps is intact on the
\* disk, and every load that finds its file decrypts it.
THEOREM PairsAlwaysSurvive == Spec => []PairsSurvive
BY StoredAlwaysIntact, LoadsAlwaysDecrypt, PTL DEF PairsSurvive
=============================================================================
