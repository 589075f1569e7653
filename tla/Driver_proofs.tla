---------------------------- MODULE Driver_proofs ----------------------------
(***************************************************************************)
(* Proofs about Driver, for every set of agents, every delegation between  *)
(* them, every list of servers and every choice of pins and versions.      *)
(***************************************************************************)
EXTENDS Driver, TLAPS

Cleaning == {"cleanup", "remove", "confirm", "closed"}
Before == {"backend", "lock", "setup", "compile", "ready", "invoking"}

\* A back-end's connection is the caller's to close at every place, and the
\* schema's lock is held only while the schema is set up.
Databases ==
  /\ pc \notin {"lock", "setup"} => \A b \in 1..2 : backend[b] # "connected"
  /\ pc \in {"lock", "setup"} =>
       Building # 3 /\ \A b \in 1..2 : backend[b] = "connected" => b = Building
  /\ pc # "setup" => setupLock # "mine"
  /\ owner = "absent" => (\A b \in 1..2 : backend[b] = "none") /\ pc \notin {"lock", "setup"}
  /\ pc \in Cleaning /\ ~failed => \A b \in 1..2 : backend[b] \in {"none", "closed", "abandoned"}

\* Sessions are entered and held by the owner, which a clean close has ended.
Owned ==
  /\ client = "probe" => owner = "absent"
  /\ pc = "probing" => owner = "absent"
  /\ owner # "serving" => InSession("entering") = {}
  /\ owner \in {"absent", "done"} => InSession("open") = {}
  /\ pc = "verify" => client # "probe" /\ owner = "absent" /\ queue = <<>> /\ conn = <<>>
  /\ pc = "closing" => owner = "done"
  /\ pc \in {"backend", "lock", "setup"} => owner # "absent"
  /\ pc \notin Cleaning => ~failed
  /\ pc \in Cleaning /\ ~failed => owner \in {"absent", "done"}

AllIn(states) == \A i \in DOMAIN conn : conn[i].session \in states

\* An owner that has not ended has opened every session it was asked for, except
\* while it is asked for the next ones.
Opened ==
  /\ pc \in Before /\ owner \in {"idle", "serving"} =>
       owner = "idle" /\ queue = <<>> /\ AllIn({"open"})
  /\ pc = "opening" /\ owner = "idle" =>
       \/ future = "pending" /\ queue = <<"open">> /\ AllIn({"none", "open"})
       \/ future \in {"result", "error"} /\ queue = <<>> /\ (future = "result" => AllIn({"open"}))
  /\ pc = "opening" /\ owner = "serving" =>
       future = "pending" /\ queue = <<>> /\ AllIn({"none", "entering", "open"})

\* The callbacks behind the one that runs have run.
Cleaned ==
  /\ pc \notin Cleaning => \A i \in DOMAIN conn : conn[i].cleanup = "pending"
  /\ pc \in Cleaning \ {"closed"} => callback > 0
  /\ pc = "closed" => callback = 0 \/ (client = "probe" /\ failed)
  /\ pc \in Cleaning => \A i \in DOMAIN conn : i > callback =>
       /\ client = "driver" => conn[i].cleanup # "pending"
       /\ ~failed => conn[i].cleanup = "done"

\* What runs after its callback was late.
Tools == \A i \in DOMAIN conn :
  /\ conn[i].kind = "host" => conn[i].tool # "requested"
  /\ conn[i].kind = "host" /\ conn[i].session \in {"none", "ended"} => conn[i].tool # "running"
  /\ ~failed /\ conn[i].cleanup = "done" /\ conn[i].tool = "running" => conn[i].late

\* S holds what the contents compiled of its agents refer to.
Follows(S) ==
  \A b \in S, v \in Versions : <<b, v>> \in graph =>
    \A i \in DOMAIN Subs[b][v] : Subs[b][v][i] \in S

\* What was compiled, or is still to be, is referred to from the root.
Rooted ==
  /\ \A S \in SUBSET Agents : Root \in S /\ Follows(S) =>
       /\ \A b \in Agents, v \in Versions : <<b, v>> \in graph => b \in S
       /\ \A i \in DOMAIN todo : todo[i].agent \in S
  /\ disk[Root] = 1 /\ \A v \in Versions : <<Root, v>> \in graph => v = 1

\* The content last compiled of an agent is in the graph, and is what was
\* checked, if it was read; nothing was left unread for want of an agent
\* compiled twice.
Drift ==
  /\ \A a \in Agents : compiled[a] = 0 => \A v \in Versions : <<a, v>> \notin graph
  /\ \A a \in Agents : compiled[a] # 0 => <<a, compiled[a]>> \in graph
  /\ pc = "invoking" => \A a \in Agents \ {Root} : checked[a] \in {0, compiled[a]}
  /\ pc = "invoking" /\ (\A b \in Agents : ~TwoContents(b)) =>
       \A a \in Agents, v \in Versions : <<a, v>> \in graph => checked[a] # 0

IInv == TypeOK /\ Databases /\ Owned /\ Opened /\ Cleaned /\ Tools /\ Rooted /\ Drift

(***************************************************************************)
(* Sequences and the small operators.                                      *)
(***************************************************************************)
LEMMA Mapped ==
  ASSUME NEW S, NEW s \in Seq(S), NEW T, NEW t \in [DOMAIN s -> T]
  PROVE  t \in Seq(T) /\ Len(t) = Len(s) /\ DOMAIN t = DOMAIN s
<1>1. Len(s) \in Nat /\ DOMAIN s = 1..Len(s)
  OBVIOUS
<1>2. t \in [1..Len(s) -> T] /\ DOMAIN t = 1..Len(s)
  BY <1>1
<1> QED
  BY <1>1, <1>2

LEMMA Joined ==
  ASSUME NEW S, NEW s \in Seq(S), NEW t \in Seq(S)
  PROVE  /\ DOMAIN (s \o t) = 1..(Len(s) + Len(t))
         /\ \A i \in 1..Len(s) : (s \o t)[i] = s[i]
         /\ \A i \in (Len(s) + 1)..(Len(s) + Len(t)) : (s \o t)[i] = t[i - Len(s)]
<1>1. s \o t \in Seq(S) /\ Len(s \o t) = Len(s) + Len(t)
  OBVIOUS
<1>2. DOMAIN (s \o t) = 1..(Len(s) + Len(t))
  BY <1>1
<1> QED
  BY <1>2

LEMMA FirstUnowned ==
  ASSUME NEW bk
  PROVE  (CHOOSE b \in 1..3 : (b = 3 \/ bk[b] # "owned") /\ \A c \in 1..(b - 1) : bk[c] = "owned")
           = IF bk[1] # "owned" THEN 1 ELSE IF bk[2] # "owned" THEN 2 ELSE 3
<1> DEFINE P(b) == (b = 3 \/ bk[b] # "owned") /\ \A c \in 1..(b - 1) : bk[c] = "owned"
           B == IF bk[1] # "owned" THEN 1 ELSE IF bk[2] # "owned" THEN 2 ELSE 3
<1>1. B \in 1..3 /\ P(B)
  OBVIOUS
<1>2. ASSUME NEW b \in 1..3, P(b) PROVE b = B
  BY <1>2
<1>3. (CHOOSE b \in 1..3 : P(b)) \in 1..3 /\ P(CHOOSE b \in 1..3 : P(b))
  BY <1>1
<1> QED
  BY <1>2, <1>3

LEMMA BuildingIs ==
  /\ Building = IF backend[1] # "owned" THEN 1 ELSE IF backend[2] # "owned" THEN 2 ELSE 3
  /\ Building' = IF backend'[1] # "owned" THEN 1 ELSE IF backend'[2] # "owned" THEN 2 ELSE 3
BY FirstUnowned DEF Building

\* close goes to the owner if there is one, else to the callbacks.
LEMMA CloseStep ==
  ASSUME TypeOK, NEW cs \in Seq(Connections), Close(cs)
  PROVE  /\ owner = "absent" => /\ queue' = queue /\ callback' = Len(cs)
                                /\ cs = <<>> => pc' = "closed"
                                /\ cs # <<>> => pc' = "cleanup" /\ Len(cs) > 0
         /\ owner # "absent" => /\ pc' = "stopping" /\ callback' = callback
                                /\ queue' \in Seq({"open", "stop"})
<1>1. CASE owner = "absent"
  <2>1. cs # <<>> => Len(cs) > 0
    OBVIOUS
  <2> QED
    BY <1>1, <2>1 DEF Close, BeginCleanup, Goto
<1>2. CASE owner # "absent"
  <2>1. queue \in Seq({"open", "stop"})
    BY DEF TypeOK
  <2>2. queue' = queue \/ queue' = Append(queue, "stop")
    BY <1>2 DEF Close
  <2>3. queue' \in Seq({"open", "stop"})
    BY <2>1, <2>2
  <2> QED
    BY <1>2, <2>3 DEF Close, Goto
<1> QED
  BY <1>1, <1>2

\* The connections of an agent are appended, with nothing done about them yet.
LEMMA Registered ==
  ASSUME TypeOK, NEW a \in Agents, NEW n \in 0..Len(Servers[a])
  PROVE  /\ Register(a, n) \in Seq(Connections) /\ Len(Register(a, n)) = Len(conn) + n
         /\ \A i \in 1..Len(conn) : Register(a, n)[i] = conn[i]
         /\ \A i \in (Len(conn) + 1)..(Len(conn) + n) :
              /\ Register(a, n)[i].session = "none" /\ Register(a, n)[i].tool = "none"
              /\ Register(a, n)[i].cleanup = "pending" /\ Register(a, n)[i].late = FALSE
<1>1. Servers[a] \in Seq({"container", "host"}) /\ conn \in Seq(Connections)
  BY DriverAssumption DEF TypeOK
<1> DEFINE f == [i \in 1..n |-> Fresh(Servers[a][i])]
<1>2. ASSUME NEW i \in 1..n
      PROVE  /\ f[i] \in Connections /\ f[i].session = "none" /\ f[i].tool = "none"
             /\ f[i].cleanup = "pending" /\ f[i].late = FALSE
  <2>1. Servers[a][i] \in {"container", "host"}
    BY <1>1
  <2> QED
    BY <2>1 DEF Fresh, Connections
<1>3. n \in Nat
  BY <1>1
<1>4. Register(a, n) = conn \o f
  BY DEF Register
<1>5. f \in [1..n -> Connections]
  BY <1>2
<1> HIDE DEF f
<1>6. f \in Seq(Connections) /\ Len(f) = n
  BY <1>3, <1>5
<1>7. conn \o f \in Seq(Connections) /\ Len(conn \o f) = Len(conn) + n
      /\ \A i \in 1..Len(conn) : (conn \o f)[i] = conn[i]
  BY <1>1, <1>6
<1>8. ASSUME NEW i \in (Len(conn) + 1)..(Len(conn) + n)
      PROVE  (conn \o f)[i] = f[i - Len(conn)] /\ i - Len(conn) \in 1..n
  BY <1>1, <1>3, <1>6
<1>9. ASSUME NEW i \in (Len(conn) + 1)..(Len(conn) + n)
      PROVE  /\ Register(a, n)[i].session = "none" /\ Register(a, n)[i].tool = "none"
             /\ Register(a, n)[i].cleanup = "pending" /\ Register(a, n)[i].late = FALSE
  BY <1>2, <1>4, <1>8
<1> QED
  BY <1>4, <1>7, <1>9

\* Ending sessions leaves of a tool at most what it was, and nothing of a host process.
LEMMA Ended ==
  ASSUME TypeOK, NEW S \in SUBSET DOMAIN conn, EndSessions(S)
  PROVE  /\ conn' \in Seq(Connections) /\ Len(conn') = Len(conn) /\ DOMAIN conn' = DOMAIN conn
         /\ \A i \in DOMAIN conn \ S : conn'[i] = conn[i]
         /\ \A i \in S : /\ conn'[i].session = "ended" /\ conn'[i].kind = conn[i].kind
                         /\ conn'[i].cleanup = conn[i].cleanup /\ conn'[i].late = conn[i].late
                         /\ conn'[i].tool \in {"requested", "running", "gone"}
                         /\ conn'[i].tool # "gone" =>
                              conn[i].kind = "container" /\ conn'[i].tool = conn[i].tool
<1>1. conn \in Seq(Connections) /\ \A i \in DOMAIN conn : conn[i] \in Connections
  BY DEF TypeOK
<1>2. PICK left \in [S -> {"requested", "running", "gone"}] :
        /\ \A i \in S : left[i] \in Remains(conn[i])
        /\ conn' = [i \in DOMAIN conn |->
                      IF i \in S THEN [conn[i] EXCEPT !.session = "ended", !.tool = left[i]]
                                 ELSE conn[i]]
  BY DEF EndSessions
<1>3. ASSUME NEW i \in S
      PROVE  [conn[i] EXCEPT !.session = "ended", !.tool = left[i]] \in Connections
  <2>1. conn[i] \in Connections /\ left[i] \in {"requested", "running", "gone"}
    BY <1>1, <1>2
  <2> QED
    BY <2>1 DEF Connections
<1>4. conn' \in [DOMAIN conn -> Connections]
  BY <1>1, <1>2, <1>3
<1>5. conn' \in Seq(Connections) /\ Len(conn') = Len(conn) /\ DOMAIN conn' = DOMAIN conn
  BY <1>1, <1>4, Mapped
<1>6. ASSUME NEW i \in S
      PROVE  /\ conn'[i].session = "ended" /\ conn'[i].kind = conn[i].kind
             /\ conn'[i].cleanup = conn[i].cleanup /\ conn'[i].late = conn[i].late
             /\ conn'[i].tool \in {"requested", "running", "gone"}
             /\ conn'[i].tool # "gone" => conn[i].kind = "container" /\ conn'[i].tool = conn[i].tool
  <2>1. conn'[i] = [conn[i] EXCEPT !.session = "ended", !.tool = left[i]] /\ left[i] \in Remains(conn[i])
        /\ left[i] \in {"requested", "running", "gone"} /\ conn[i] \in Connections
    BY <1>1, <1>2
  <2>2. left[i] # "gone" => conn[i].kind = "container" /\ left[i] = conn[i].tool
    BY <2>1 DEF Remains
  <2> QED
    BY <2>1, <2>2 DEF Connections
<1> QED
  BY <1>2, <1>5, <1>6

\* One connection changes.
LEMMA Changed ==
  ASSUME TypeOK, NEW i \in DOMAIN conn, NEW c \in Connections, conn' = [conn EXCEPT ![i] = c]
  PROVE  /\ conn' \in Seq(Connections) /\ Len(conn') = Len(conn) /\ DOMAIN conn' = DOMAIN conn
         /\ conn'[i] = c /\ \A j \in DOMAIN conn \ {i} : conn'[j] = conn[j]
<1>1. conn \in Seq(Connections)
  BY DEF TypeOK
<1>2. conn' \in [DOMAIN conn -> Connections]
  BY <1>1
<1> QED
  BY <1>1, <1>2, Mapped

\* Only connection i changes, and its kind does not.
OnlyChanges(i) ==
  /\ conn' \in Seq(Connections) /\ Len(conn') = Len(conn) /\ DOMAIN conn' = DOMAIN conn
  /\ \A j \in DOMAIN conn \ {i} : conn'[j] = conn[j]
  /\ conn'[i].kind = conn[i].kind

LEMMA CallbackEnded ==
  ASSUME TypeOK, callback > 0, NEW r \in {"done", "failed"}, EndCallback(r)
  PROVE  /\ OnlyChanges(callback) /\ callback \in DOMAIN conn /\ conn'[callback].cleanup = r
         /\ conn'[callback].session = conn[callback].session
         /\ conn'[callback].tool = conn[callback].tool /\ conn'[callback].late = conn[callback].late
         /\ callback' = callback - 1 /\ callback' \in 0..Len(conn)
         /\ (failed' <=> (failed \/ r = "failed")) /\ failed' \in BOOLEAN
         /\ pc' \in {"closed", "cleanup"}
         /\ pc' = "closed" => callback' = 0 \/ (client = "probe" /\ failed')
         /\ pc' = "cleanup" => callback' > 0
<1>1. /\ conn \in Seq(Connections) /\ DOMAIN conn = 1..Len(conn) /\ Len(conn) \in Nat
      /\ callback \in 1..Len(conn) /\ failed \in BOOLEAN
  BY DEF TypeOK
<1>2. conn[callback] \in Connections
  BY <1>1
<1> DEFINE c == [conn[callback] EXCEPT !.cleanup = r]
<1>3. c \in Connections /\ c.cleanup = r /\ c.session = conn[callback].session /\ c.kind = conn[callback].kind
      /\ c.tool = conn[callback].tool /\ c.late = conn[callback].late
  BY <1>2 DEF Connections
<1>4. conn' = [conn EXCEPT ![callback] = c]
  BY <1>1 DEF EndCallback
<1> HIDE DEF c
<1>5. OnlyChanges(callback) /\ conn'[callback] = c
  BY <1>1, <1>3, <1>4, Changed DEF OnlyChanges
<1>6. /\ callback' = callback - 1 /\ callback' \in 0..Len(conn)
      /\ failed' = (failed \/ r = "failed")
      /\ pc' = IF callback = 1 \/ (r = "failed" /\ client = "probe") THEN "closed" ELSE "cleanup"
  BY <1>1 DEF EndCallback, Goto
<1>7. (failed' <=> (failed \/ r = "failed")) /\ failed' \in BOOLEAN
  BY <1>6
<1>8. /\ pc' \in {"closed", "cleanup"} /\ (pc' = "cleanup" => callback' > 0)
      /\ pc' = "closed" => callback' = 0 \/ (client = "probe" /\ failed')
  <2>1. CASE callback = 1
    BY <1>6, <2>1
  <2>2. CASE callback # 1
    <3>1. callback' > 0
      BY <1>1, <1>6, <2>2
    <3> QED
      BY <1>6, <1>7, <2>2, <3>1
  <2> QED
    BY <2>1, <2>2
<1> QED
  BY <1>1, <1>3, <1>5, <1>6, <1>7, <1>8

LEMMA Entered ==
  ASSUME TypeOK, EnterSession
  PROVE  \E i \in DOMAIN conn :
           /\ OnlyChanges(i) /\ conn[i].session = "none" /\ conn'[i].session = "entering"
           /\ conn'[i].tool = Spawn(conn[i].kind)
           /\ conn'[i].cleanup = conn[i].cleanup /\ conn'[i].late = conn[i].late
<1>1. PICK i \in DOMAIN conn : /\ conn[i].session = "none"
                               /\ conn' = [conn EXCEPT ![i].session = "entering",
                                                       ![i].tool = Spawn(conn[i].kind)]
  BY DEF EnterSession, InSession
<1>2. conn \in Seq(Connections) /\ conn[i] \in Connections
  BY DEF TypeOK
<1> DEFINE c == [conn[i] EXCEPT !.session = "entering", !.tool = Spawn(conn[i].kind)]
<1>3. c \in Connections /\ c.session = "entering" /\ c.kind = conn[i].kind
      /\ c.tool = Spawn(conn[i].kind) /\ c.cleanup = conn[i].cleanup /\ c.late = conn[i].late
  BY <1>2 DEF Connections, Spawn
<1>4. conn' = [conn EXCEPT ![i] = c]
  BY <1>1, <1>2
<1> HIDE DEF c
<1>5. OnlyChanges(i) /\ conn'[i] = c
  BY <1>3, <1>4, Changed DEF OnlyChanges
<1> QED
  BY <1>1, <1>3, <1>5

LEMMA Ready ==
  ASSUME TypeOK, SessionReady
  PROVE  \E i \in DOMAIN conn :
           /\ OnlyChanges(i) /\ conn[i].session = "entering" /\ conn'[i].session = "open"
           /\ conn'[i].tool = conn[i].tool
           /\ conn'[i].cleanup = conn[i].cleanup /\ conn'[i].late = conn[i].late
<1>1. PICK i \in DOMAIN conn : conn[i].session = "entering"
                               /\ conn' = [conn EXCEPT ![i].session = "open"]
  BY DEF SessionReady, InSession
<1>2. conn \in Seq(Connections) /\ conn[i] \in Connections
  BY DEF TypeOK
<1> DEFINE c == [conn[i] EXCEPT !.session = "open"]
<1>3. c \in Connections /\ c.session = "open" /\ c.kind = conn[i].kind
      /\ c.tool = conn[i].tool /\ c.cleanup = conn[i].cleanup /\ c.late = conn[i].late
  BY <1>2 DEF Connections
<1>4. conn' = [conn EXCEPT ![i] = c]
  BY <1>1, <1>2
<1> HIDE DEF c
<1>5. OnlyChanges(i) /\ conn'[i] = c
  BY <1>3, <1>4, Changed DEF OnlyChanges
<1> QED
  BY <1>1, <1>3, <1>5

\* A tool that ends or appears.
LEMMA ToolChanged ==
  ASSUME TypeOK, ContainerAppears \/ ToolExits
  PROVE  \E i \in DOMAIN conn :
           /\ OnlyChanges(i) /\ conn'[i].session = conn[i].session
           /\ conn'[i].cleanup = conn[i].cleanup
           /\ \/ conn'[i].tool = "gone" /\ conn'[i].late = conn[i].late
              \/ /\ conn[i].tool = "requested" /\ conn'[i].tool = "running"
                 /\ conn'[i].late = (conn[i].cleanup = "done")
<1>1. PICK i \in DOMAIN conn :
        \/ conn' = [conn EXCEPT ![i].tool = "gone"]
        \/ /\ conn[i].tool = "requested"
           /\ conn' = [conn EXCEPT ![i].tool = "running", ![i].late = (conn[i].cleanup = "done")]
  BY DEF ContainerAppears, ToolExits
<1>2. conn \in Seq(Connections) /\ conn[i] \in Connections
  BY DEF TypeOK
<1>3. CASE conn' = [conn EXCEPT ![i].tool = "gone"]
  <2> DEFINE c == [conn[i] EXCEPT !.tool = "gone"]
  <2>1. c \in Connections /\ c.session = conn[i].session /\ c.kind = conn[i].kind
        /\ c.tool = "gone" /\ c.cleanup = conn[i].cleanup /\ c.late = conn[i].late
    BY <1>2 DEF Connections
  <2>2. conn' = [conn EXCEPT ![i] = c]
    BY <1>2, <1>3
  <2> HIDE DEF c
  <2>3. OnlyChanges(i) /\ conn'[i] = c
    BY <2>1, <2>2, Changed DEF OnlyChanges
  <2> QED
    BY <2>1, <2>3
<1>4. CASE /\ conn[i].tool = "requested"
           /\ conn' = [conn EXCEPT ![i].tool = "running", ![i].late = (conn[i].cleanup = "done")]
  <2> DEFINE l == (conn[i].cleanup = "done")
             c == [conn[i] EXCEPT !.tool = "running", !.late = l]
  <2>1. c \in Connections /\ c.session = conn[i].session /\ c.kind = conn[i].kind
        /\ c.tool = "running" /\ c.cleanup = conn[i].cleanup /\ c.late = l
    BY <1>2 DEF Connections
  <2>2. conn' = [conn EXCEPT ![i] = c]
    BY <1>2, <1>4
  <2> HIDE DEF c
  <2>3. OnlyChanges(i) /\ conn'[i] = c
    BY <2>1, <2>2, Changed DEF OnlyChanges
  <2> QED
    BY <1>4, <2>1, <2>3
<1> QED
  BY <1>1, <1>3, <1>4

LEMMA Removed ==
  ASSUME TypeOK, callback > 0, Remove
  PROVE  /\ OnlyChanges(callback) /\ callback \in DOMAIN conn
         /\ conn'[callback].session = conn[callback].session
         /\ conn'[callback].tool \in {conn[callback].tool, "gone"}
         /\ conn'[callback].cleanup = conn[callback].cleanup
         /\ conn'[callback].late = conn[callback].late
<1>1. conn \in Seq(Connections) /\ callback \in DOMAIN conn
  BY DEF TypeOK
<1>2. conn[callback] \in Connections
  BY <1>1
<1>3. PICK left \in {conn[callback].tool, "gone"} : conn' = [conn EXCEPT ![callback].tool = left]
  BY DEF Remove
<1> DEFINE c == [conn[callback] EXCEPT !.tool = left]
<1>4. c \in Connections /\ c.session = conn[callback].session /\ c.kind = conn[callback].kind
      /\ c.tool = left /\ c.cleanup = conn[callback].cleanup /\ c.late = conn[callback].late
  BY <1>2, <1>3 DEF Connections
<1>5. conn' = [conn EXCEPT ![callback] = c]
  BY <1>1, <1>3
<1> HIDE DEF c
<1>6. OnlyChanges(callback) /\ conn'[callback] = c
  BY <1>1, <1>4, <1>5, Changed DEF OnlyChanges
<1> QED
  BY <1>1, <1>3, <1>4, <1>6

\* A callback that ends, or asks for a removal.
LEMMA CallbackRuns ==
  ASSUME TypeOK, callback > 0, RunCallback \/ Confirm \/ CallbackFails
  PROVE  \/ RunCallback /\ pc' = "remove" /\ UNCHANGED <<conn, callback, failed>>
         \/ /\ \/ EndCallback("failed")
               \/ EndCallback("done") /\ ~(conn[callback].kind = "container" /\ conn[callback].tool = "running")
               \/ EndCallback("done") /\ conn[callback].tool # "running"
BY DEF RunCallback, Confirm, CallbackFails, Goto

LEMMA Probed ==
  ASSUME TypeOK, Probe
  PROVE  /\ conn' \in Seq(Connections) /\ Len(conn') = Len(conn) /\ DOMAIN conn' = DOMAIN conn
         /\ \A i \in DOMAIN conn :
              /\ conn'[i].kind = conn[i].kind /\ conn'[i].cleanup = conn[i].cleanup
              /\ conn'[i].late = conn[i].late
              /\ \/ conn'[i] = conn[i]
                 \/ conn'[i].session = "ended" /\ (conn[i].kind = "host" => conn'[i].tool = "gone")
         /\ callback' = Len(conn) /\ pc' \in {"closed", "cleanup"}
         /\ pc' = "closed" <=> Len(conn) = 0
<1>1. conn \in Seq(Connections) /\ Len(conn) \in Nat /\ DOMAIN conn = 1..Len(conn)
      /\ \A i \in DOMAIN conn : conn[i] \in Connections
  BY DEF TypeOK
<1> DEFINE R == {"requested", "running", "gone"}
           c(i, left) == [conn[i] EXCEPT !.session = "ended",
                            !.tool = IF conn[i].kind = "host" THEN "gone" ELSE left[i]]
<1>2. PICK n \in 0..Len(conn) : \E left \in [1..n -> R] :
        conn' = [i \in DOMAIN conn |-> IF i <= n THEN c(i, left) ELSE conn[i]]
  BY DEF Probe
<1>3. PICK left \in [1..n -> R] :
        conn' = [i \in DOMAIN conn |-> IF i <= n THEN c(i, left) ELSE conn[i]]
  BY <1>2
<1>4. ASSUME NEW i \in DOMAIN conn, i <= n
      PROVE  /\ c(i, left) \in Connections /\ c(i, left).session = "ended"
             /\ c(i, left).kind = conn[i].kind /\ c(i, left).cleanup = conn[i].cleanup
             /\ c(i, left).late = conn[i].late
             /\ conn[i].kind = "host" => c(i, left).tool = "gone"
  <2>1. conn[i] \in Connections
    BY <1>1
  <2>2. i \in 1..n
    BY <1>1, <1>4
  <2>3. left[i] \in R
    BY <1>3, <2>2
  <2> QED
    BY <2>1, <2>3 DEF Connections
<1> HIDE DEF c
<1>5. conn' \in [DOMAIN conn -> Connections]
  BY <1>1, <1>3, <1>4
<1>6. conn' \in Seq(Connections) /\ Len(conn') = Len(conn) /\ DOMAIN conn' = DOMAIN conn
  BY <1>1, <1>5, Mapped
<1>7. callback' = Len(conn) /\ pc' = (IF conn = <<>> THEN "closed" ELSE "cleanup")
  BY DEF Probe, BeginCleanup, Goto
<1>8. conn = <<>> <=> Len(conn) = 0
  BY <1>1
<1> QED
  BY <1>1, <1>3, <1>4, <1>6, <1>7, <1>8

LEMMA Referred ==
  ASSUME TypeOK, NEW a \in Agents
  PROVE  /\ disk[a] \in Versions /\ References(a) = Subs[a][disk[a]]
         /\ References(a) \in Seq(Agents)
<1>1. disk[a] \in Versions
  BY DEF TypeOK
<1>2. Subs[a] \in [Versions -> Seq(Agents)]
  BY DriverAssumption
<1> QED
  BY <1>1, <1>2 DEF References

(***************************************************************************)
(* Types.                                                                  *)
(***************************************************************************)
Todo == [agent : Agents, ancestry : SUBSET Agents]

LEMMA CompileTyped ==
  ASSUME TypeOK, CompileAgent
  PROVE  /\ todo' \in Seq(Todo) /\ graph' \subseteq Agents \X Versions
         /\ compiled' \in [Agents -> Versions \cup {0}]
         /\ \E a \in Agents :
              /\ compiled' = [compiled EXCEPT ![a] = disk[a]] /\ disk[a] \in Versions
              /\ graph' = graph \cup {<<a, disk[a]>>}
              /\ conn' = Register(a, Len(Servers[a])) /\ Len(Servers[a]) \in 0..Len(Servers[a])
              /\ client # "probe" => (Servers[a] = <<>> => UNCHANGED <<pc, session>>)
              /\ client # "probe" => (Servers[a] # <<>> =>
                   /\ queue' = Append(queue, "open") /\ future' = "pending" /\ pc' = "opening"
                   /\ UNCHANGED <<owner, cancelled>>)
              /\ client = "probe" => pc' = "probing" /\ UNCHANGED session
         /\ UNCHANGED <<client, disk, checked, callback, sqlite, failed>> /\ pc = "compile"
<1> DEFINE a == Head(todo).agent
           refs == References(a)
           next == [i \in DOMAIN refs |->
                      [agent |-> refs[i], ancestry |-> Head(todo).ancestry \cup {a}]]
<1>1. todo \in Seq(Todo) /\ todo # <<>>
  BY DEF TypeOK, Todo, CompileAgent
<1>2. Head(todo) \in Todo /\ Tail(todo) \in Seq(Todo)
  BY <1>1
<1>3. a \in Agents /\ Head(todo).ancestry \subseteq Agents
  BY <1>2 DEF Todo
<1>4. refs \in Seq(Agents) /\ Servers[a] \in Seq({"container", "host"})
  BY <1>3, Referred, DriverAssumption
<1> HIDE DEF refs
<1>5. next \in Seq(Todo)
  <2>1. next \in [DOMAIN refs -> Todo]
    BY <1>3, <1>4 DEF Todo
  <2> QED
    BY <1>4, <2>1, Mapped
<1>6. /\ pc = "compile"
      /\ todo' = next \o Tail(todo) /\ graph' = graph \cup {<<a, disk[a]>>}
      /\ compiled' = [compiled EXCEPT ![a] = disk[a]] /\ conn' = Register(a, Len(Servers[a]))
      /\ UNCHANGED <<client, disk, checked, callback, sqlite, failed>>
      /\ client = "probe" => pc' = "probing" /\ UNCHANGED session
      /\ client # "probe" => (Servers[a] = <<>> => UNCHANGED <<pc, session>>)
      /\ client # "probe" => (Servers[a] # <<>> =>
           /\ queue' = Append(queue, "open") /\ future' = "pending" /\ pc' = "opening"
           /\ UNCHANGED <<owner, cancelled>>)
  BY DEF CompileAgent, Goto, refs
<1>7. disk[a] \in Versions
  BY <1>3 DEF TypeOK
<1>8. Len(Servers[a]) \in 0..Len(Servers[a])
  BY <1>4
<1> HIDE DEF a, next
<1>9. todo' \in Seq(Todo)
  BY <1>2, <1>5, <1>6
<1>10. graph' \subseteq Agents \X Versions /\ compiled' \in [Agents -> Versions \cup {0}]
  BY <1>3, <1>6, <1>7 DEF TypeOK
<1> QED
  BY <1>3, <1>6, <1>7, <1>8, <1>9, <1>10

LEMMA StepTyped ==
  ASSUME TypeOK, Next, pc \in Cleaning \ {"closed"} => callback > 0
  PROVE  TypeOK'
<1> USE DEF build, session, sqlite, Goto
<1>0. conn \in Seq(Connections) /\ Len(conn) \in Nat /\ DOMAIN conn = 1..Len(conn)
      /\ \A i \in DOMAIN conn : conn[i] \in Connections
  BY DEF TypeOK
<1>1. CASE VerifyRoot
  BY <1>0, <1>1, CloseStep DEF VerifyRoot, TypeOK
<1>2. CASE ConnectBackend
  BY <1>2, BuildingIs DEF ConnectBackend, TypeOK
<1>3. CASE LockSetup
  BY <1>3 DEF LockSetup, TypeOK
<1>4. CASE SetUp
  BY <1>4 DEF SetUp, TypeOK
<1>5. CASE SetupFails
  <2>1. backend' \in [1..2 -> {"none", "connected", "owned", "closed", "abandoned"}]
        /\ setupLock' \in {"free", "mine", "other"}
    BY <1>5 DEF SetupFails, TypeOK
  <2> QED
    BY <1>0, <1>5, <2>1, CloseStep DEF SetupFails, TypeOK
<1>6. CASE CompileAgent
  <2>1. PICK a \in Agents :
          /\ conn' = Register(a, Len(Servers[a])) /\ Len(Servers[a]) \in 0..Len(Servers[a])
          /\ client # "probe" => (Servers[a] = <<>> => UNCHANGED <<pc, session>>)
          /\ client # "probe" => (Servers[a] # <<>> =>
               /\ queue' = Append(queue, "open") /\ future' = "pending" /\ pc' = "opening"
               /\ UNCHANGED <<owner, cancelled>>)
          /\ client = "probe" => pc' = "probing" /\ UNCHANGED session
    BY <1>6, CompileTyped
  <2>2. conn' \in Seq(Connections) /\ Len(conn') >= Len(conn) /\ Len(conn') \in Nat
    <3>1. PICK n \in 0..Len(Servers[a]) : n = Len(Servers[a])
      BY <2>1
    <3>2. conn' = Register(a, n)
      BY <2>1, <3>1
    <3>3. Servers[a] \in Seq({"container", "host"})
      BY DriverAssumption
    <3>4. n \in Nat
      BY <3>3
    <3>5. Register(a, n) \in Seq(Connections) /\ Len(Register(a, n)) = Len(conn) + n
      BY Registered
    <3> QED
      BY <1>0, <3>2, <3>4, <3>5
  <2>3. callback \in 0..Len(conn')
    BY <1>0, <2>2 DEF TypeOK
  <2>4. /\ pc' \in {"opening", "probing", "compile"} /\ UNCHANGED <<owner, cancelled>>
        /\ queue' \in Seq({"open", "stop"})
        /\ future' \in {"none", "pending", "result", "error", "cancelled"}
    <3>1. Append(queue, "open") \in Seq({"open", "stop"})
      BY DEF TypeOK
    <3> QED
      BY <1>6, <2>1, <3>1, CompileTyped DEF TypeOK
  <2> QED
    BY <1>6, <2>2, <2>3, <2>4, CompileTyped DEF TypeOK, Todo, sqlite
<1>7. CASE CompileFails
  <2>1. Head(todo).agent \in Agents
    <3>1. todo \in Seq(Todo) /\ todo # <<>>
      BY <1>7 DEF CompileFails, TypeOK, Todo
    <3>2. Head(todo) \in Todo
      BY <3>1
    <3> QED
      BY <3>2 DEF Todo
  <2>2. PICK n \in 0..Len(Servers[Head(todo).agent]) :
          conn' = Register(Head(todo).agent, n) /\ Close(conn')
    BY <1>7 DEF CompileFails
  <2>3. conn' \in Seq(Connections) /\ Len(conn') >= Len(conn) /\ Len(conn') \in Nat
    <3>1. Servers[Head(todo).agent] \in Seq({"container", "host"})
      BY <2>1, DriverAssumption
    <3>2. Len(Register(Head(todo).agent, n)) = Len(conn) + n
          /\ Register(Head(todo).agent, n) \in Seq(Connections)
      BY <2>1, Registered
    <3>3. n \in Nat
      BY <3>1
    <3> QED
      BY <1>0, <2>2, <3>2, <3>3
  <2>4. /\ pc' \in {"closed", "cleanup", "stopping"} /\ callback' \in 0..Len(conn')
        /\ queue' \in Seq({"open", "stop"})
    <3>1. PICK cs \in Seq(Connections) : cs = conn'
      BY <2>3
    <3>2. Close(cs)
      BY <2>2, <3>1 DEF Close, BeginCleanup
    <3> QED
      BY <1>0, <2>3, <3>1, <3>2, CloseStep DEF TypeOK
  <2> QED
    BY <1>7, <2>3, <2>4 DEF CompileFails, TypeOK
<1>8. CASE Compiled
  BY <1>8 DEF Compiled, TypeOK
<1>9. CASE OpenReturns
  BY <1>0, <1>9, CloseStep DEF OpenReturns, TypeOK
<1>10. CASE OpenTimesOut
  BY <1>0, <1>10, CloseStep DEF OpenTimesOut, TypeOK
<1>11. CASE Execute
  BY <1>11 DEF Execute, TypeOK
<1>12. CASE EndExecution
  BY <1>0, <1>12, CloseStep DEF EndExecution, TypeOK
<1>13. CASE GraceEnds
  BY <1>13 DEF GraceEnds, TypeOK
<1>14. CASE OwnerEnded
  BY <1>14 DEF OwnerEnded, TypeOK
<1>15. CASE CloseBackends
  BY <1>0, <1>15 DEF CloseBackends, BeginCleanup, TypeOK
<1>16. CASE RunCallback
  <2>1. callback > 0
    BY <1>16 DEF RunCallback, Cleaning
  <2> QED
    BY <1>0, <1>16, <2>1, CallbackRuns, CallbackEnded DEF RunCallback, OnlyChanges, TypeOK
<1>17. CASE Remove
  <2>1. callback > 0
    BY <1>17 DEF Remove, Cleaning
  <2> QED
    BY <1>0, <1>17, <2>1, Removed DEF Remove, OnlyChanges, TypeOK
<1>18. CASE Confirm
  <2>1. callback > 0
    BY <1>18 DEF Confirm, Cleaning
  <2> QED
    BY <1>0, <1>18, <2>1, CallbackRuns, CallbackEnded DEF Confirm, OnlyChanges, TypeOK
<1>19. CASE CallbackFails
  <2>1. callback > 0
    BY <1>19 DEF CallbackFails, Cleaning
  <2> QED
    BY <1>0, <1>19, <2>1, CallbackRuns, CallbackEnded DEF CallbackFails, OnlyChanges, TypeOK
<1>20. CASE Probe
  <2>1. callback' \in 0..Len(conn')
    BY <1>0, <1>20, Probed
  <2> QED
    BY <1>20, <2>1, Probed DEF Probe, TypeOK
<1>21. CASE TakeItem
  BY <1>21 DEF TakeItem, TypeOK
<1>22. CASE EnterSession
  <2>1. conn' \in Seq(Connections) /\ Len(conn') = Len(conn)
    BY <1>22, Entered DEF OnlyChanges
  <2> QED
    BY <1>22, <2>1 DEF EnterSession, TypeOK
<1>23. CASE SessionReady
  <2>1. conn' \in Seq(Connections) /\ Len(conn') = Len(conn)
    BY <1>23, Ready DEF OnlyChanges
  <2> QED
    BY <1>23, <2>1 DEF SessionReady, TypeOK
<1>24. CASE Deliver
  BY <1>24 DEF Deliver, Answer, TypeOK
<1>25. CASE LoadFails
  BY <1>25, Ended DEF LoadFails, Answer, InSession, TypeOK
<1>26. CASE OwnerCancelled
  BY <1>26, Ended DEF OwnerCancelled, InSession, TypeOK
<1>27. CASE Unwind
  BY <1>27, Ended DEF Unwind, InSession, TypeOK
<1>28. CASE OtherSetup
  BY <1>28 DEF OtherSetup, TypeOK
<1>29. CASE Interrupt
  BY <1>0, <1>29, CloseStep DEF Interrupt, TypeOK
<1>30. CASE InterruptClose
  BY <1>0, <1>30 DEF InterruptClose, BeginCleanup, TypeOK
<1>31. CASE ContainerAppears
  <2>1. conn' \in Seq(Connections) /\ Len(conn') = Len(conn)
    BY <1>31, ToolChanged DEF OnlyChanges
  <2> QED
    BY <1>31, <2>1 DEF ContainerAppears, TypeOK
<1>32. CASE ToolExits
  <2>1. conn' \in Seq(Connections) /\ Len(conn') = Len(conn)
    BY <1>32, ToolChanged DEF OnlyChanges
  <2> QED
    BY <1>32, <2>1 DEF ToolExits, TypeOK
<1>33. CASE EditAgent
  BY <1>33 DEF EditAgent, TypeOK
<1> QED
  BY <1>1, <1>2, <1>3, <1>4, <1>5, <1>6, <1>7, <1>8, <1>9, <1>10, <1>11, <1>12, <1>13, <1>14,
     <1>15, <1>16, <1>17, <1>18, <1>19, <1>20, <1>21, <1>22, <1>23, <1>24, <1>25, <1>26, <1>27,
     <1>28, <1>29, <1>30, <1>31, <1>32, <1>33 DEF Next, Caller, OwnerTask, Environment

(***************************************************************************)
(* What every step keeps of the control: how the callbacks are come to, and *)
(* what never goes back.                                                   *)
(***************************************************************************)
ToCallbacks ==
  /\ callback' = Len(conn') /\ pc' \in {"closed", "cleanup"} /\ (pc' = "closed" <=> Len(conn') = 0)
  /\ \/ owner = "absent" /\ UNCHANGED <<owner, failed>>
     \/ pc = "closing" /\ UNCHANGED owner
     \/ failed'

Control ==
  /\ client' = client /\ (owner' = "absent" => owner = "absent")
  /\ owner = "absent" => owner' = "absent" \/ pc = "verify"
  /\ pc' = "probing" => (pc = "probing" \/ client = "probe") /\ UNCHANGED owner
  /\ pc \in Cleaning => pc' \in Cleaning /\ UNCHANGED owner /\ (failed => failed')
  /\ pc' \in Cleaning => pc \in Cleaning \/ ToCallbacks
  /\ pc' \notin Cleaning => UNCHANGED failed
  /\ pc' = "closing" => owner' = "done" \/ (pc = "closing" /\ UNCHANGED owner)
  /\ pc' \in {"backend", "lock", "setup"} =>
       \/ pc = "verify" /\ owner' = "idle"
       \/ pc \in {"backend", "lock", "setup"} /\ UNCHANGED owner
  /\ pc' = "verify" => pc = "verify" /\ UNCHANGED <<owner, queue>> /\ (conn = <<>> => conn' = <<>>)

LEMMA Controlled ==
  ASSUME TypeOK, Next, pc \in Cleaning \ {"closed"} => callback > 0,
         pc = "probing" => owner = "absent"
  PROVE  Control
<1> USE DEF Goto
<1>0. conn \in Seq(Connections) /\ Len(conn) \in Nat /\ DOMAIN conn = 1..Len(conn)
      /\ (conn = <<>> <=> Len(conn) = 0)
  BY DEF TypeOK
<1>c. ASSUME Close(conn), conn' = conn, failed' = failed, owner' = owner
      PROVE  pc' \in {"closed", "cleanup", "stopping"} /\ (pc' \in Cleaning => ToCallbacks)
  BY <1>0, <1>c, CloseStep DEF ToCallbacks, Cleaning
<1>1. CASE VerifyRoot
  <2>1. CASE Close(conn) /\ UNCHANGED owner
    BY <1>c, <1>1, <2>1 DEF VerifyRoot, Control, build, Cleaning
  <2>2. CASE owner' = "idle" /\ pc' \in {"backend", "compile"}
    <3>1. pc = "verify" /\ UNCHANGED <<client, failed>>
      BY <1>1 DEF VerifyRoot, build
    <3> QED
      BY <2>2, <3>1 DEF Control, Cleaning
  <2> QED
    BY <1>1, <2>1, <2>2 DEF VerifyRoot
<1>2. CASE ConnectBackend \/ LockSetup \/ SetUp
  BY <1>2 DEF ConnectBackend, LockSetup, SetUp, Control, build, session, Cleaning
<1>3. CASE SetupFails \/ OpenTimesOut \/ EndExecution \/ Interrupt
  BY <1>c, <1>3 DEF SetupFails, OpenTimesOut, EndExecution, Interrupt, Control, build, Cleaning
<1>4. CASE OpenReturns
  BY <1>c, <1>4 DEF OpenReturns, Control, build, Cleaning
<1>5. CASE CompileAgent
  <2>1. pc' \in {"opening", "probing", "compile"} /\ UNCHANGED <<client, owner, failed>>
        /\ pc = "compile" /\ (pc' = "probing" => client = "probe")
    BY <1>5 DEF CompileAgent, session
  <2> QED
    BY <2>1 DEF Control, Cleaning
<1>6. CASE CompileFails
  <2>1. PICK n \in 0..Len(Servers[Head(todo).agent]) :
          conn' = Register(Head(todo).agent, n) /\ Close(conn')
    BY <1>6 DEF CompileFails
  <2>2. PICK cs \in Seq(Connections) : cs = conn'
    BY StepTyped DEF TypeOK
  <2>3. Close(cs) /\ UNCHANGED <<client, owner, failed>> /\ pc = "compile"
    BY <1>6, <2>1, <2>2 DEF CompileFails, Close, BeginCleanup, build
  <2>4. cs = <<>> <=> Len(cs) = 0
    OBVIOUS
  <2> QED
    BY <2>2, <2>3, <2>4, CloseStep DEF Control, ToCallbacks, Cleaning
<1>7. CASE Compiled \/ Execute \/ GraceEnds \/ EditAgent \/ OtherSetup
  BY <1>7 DEF Compiled, Execute, GraceEnds, EditAgent, OtherSetup, Control, build, session, Cleaning, Revalidate
<1>8. CASE OwnerEnded
  BY <1>8 DEF OwnerEnded, Control, build, Cleaning
<1>9. CASE CloseBackends \/ InterruptClose
  BY <1>0, <1>9 DEF CloseBackends, InterruptClose, BeginCleanup, Control, ToCallbacks, build, session, Cleaning
<1>10. CASE RunCallback \/ Confirm \/ CallbackFails
  <2>1. callback > 0 /\ pc \in {"cleanup", "remove", "confirm"} /\ UNCHANGED <<client, owner>>
    BY <1>10 DEF RunCallback, Confirm, CallbackFails, Cleaning, build, session
  <2>2. pc' \in Cleaning /\ (failed => failed')
    BY <1>10, <2>1, CallbackRuns, CallbackEnded DEF Cleaning
  <2> QED
    BY <2>1, <2>2 DEF Control, Cleaning
<1>11. CASE Remove
  BY <1>11 DEF Remove, Control, build, session, Cleaning
<1>12. CASE Probe
  <2>1. pc = "probing" /\ UNCHANGED <<client, owner, failed>>
    BY <1>12 DEF Probe, build, session
  <2>2. pc' \in {"closed", "cleanup"} /\ callback' = Len(conn') /\ (pc' = "closed" <=> Len(conn') = 0)
    BY <1>12, Probed
  <2> QED
    BY <2>1, <2>2 DEF Control, ToCallbacks, Cleaning
<1>13. CASE TakeItem \/ EnterSession \/ SessionReady \/ Deliver
  BY <1>13 DEF TakeItem, EnterSession, SessionReady, Deliver, LoopRuns, Control, build, session, Cleaning
<1>14. CASE LoadFails \/ OwnerCancelled \/ Unwind
  BY <1>14 DEF LoadFails, OwnerCancelled, Unwind, LoopRuns, Control, build, session, Cleaning
<1>15. CASE ContainerAppears \/ ToolExits
  <2>1. PICK i \in DOMAIN conn : TRUE
    BY <1>15 DEF ContainerAppears, ToolExits
  <2>2. conn # <<>>
    BY <1>0, <2>1
  <2>3. UNCHANGED <<client, pc, owner, queue, callback, failed>>
    BY <1>15 DEF ContainerAppears, ToolExits, build, session
  <2> QED
    BY <2>2, <2>3 DEF Control, Cleaning
<1> QED
  BY <1>1, <1>2, <1>3, <1>4, <1>5, <1>6, <1>7, <1>8, <1>9, <1>10, <1>11, <1>12, <1>13, <1>14,
     <1>15 DEF Next, Caller, OwnerTask, Environment

(***************************************************************************)
(* The inductive invariant, part by part.                                  *)
(***************************************************************************)
LEMMA InitIInv == Init => IInv
<1> SUFFICES ASSUME Init PROVE IInv
  OBVIOUS
<1>1. conn = <<>> /\ DOMAIN conn = {} /\ Len(conn) = 0
  BY DEF Init
<1>2. pc \in {"verify", "compile"}
  BY DEF Init
<1>3. todo \in Seq(Todo)
  BY DriverAssumption DEF Init, Todo
<1>4. backend \in [1..2 -> {"none", "connected", "owned", "closed", "abandoned"}] /\ \A b \in 1..2 : backend[b] = "none"
  BY DEF Init
<1>5. TypeOK
  <2>1. disk \in [Agents -> Versions] /\ compiled \in [Agents -> Versions \cup {0}]
        /\ checked \in [Agents -> Versions \cup {0}] /\ graph = {}
    BY DriverAssumption DEF Init
  <2>2. conn \in Seq(Connections) /\ callback \in 0..Len(conn)
    BY <1>1 DEF Init
  <2>3. queue \in Seq({"open", "stop"})
    BY DEF Init
  <2>4. cancelled \in BOOLEAN /\ failed \in BOOLEAN /\ client \in Clients
    BY DEF Init
  <2> QED
    BY <1>2, <1>3, <1>4, <2>1, <2>2, <2>3, <2>4 DEF Init, TypeOK, Todo
<1>6. Databases
  BY <1>2, <1>4 DEF Init, Databases, Cleaning
<1>7. Owned /\ Opened
  BY <1>1, <1>2 DEF Init, Owned, Opened, InSession, Cleaning, Before
<1>8. Cleaned /\ Tools
  BY <1>1, <1>2 DEF Cleaned, Tools, Cleaning
<1>9. Drift
  BY <1>2 DEF Init, Drift
<1>10. Rooted
  <2>1. disk[Root] = 1 /\ graph = {} /\ todo = <<[agent |-> Root, ancestry |-> {}]>>
    BY DriverAssumption DEF Init
  <2>2. \A i \in DOMAIN todo : todo[i].agent = Root
    BY <2>1
  <2> QED
    BY <2>1, <2>2 DEF Rooted
<1> QED
  BY <1>5, <1>6, <1>7, <1>8, <1>9, <1>10 DEF IInv

LEMMA NextTyped == IInv /\ Next => TypeOK' /\ Control
BY StepTyped, Controlled DEF IInv, Cleaned, Owned

\* The steps that leave the databases and their lock alone.
Elsewhere ==
  /\ UNCHANGED <<backend, setupLock>>
  /\ pc \in {"lock", "setup"} \/ pc' \in {"lock", "setup"} => UNCHANGED <<pc, owner>>
  /\ pc = "closing" => pc' = "closing" \/ failed'

LEMMA DatabasesLeft ==
  ASSUME Next
  PROVE  ConnectBackend \/ LockSetup \/ SetUp \/ SetupFails \/ CloseBackends \/ OtherSetup \/ Elsewhere
<1> USE DEF Goto, sqlite, session, LoopRuns
<1>1. CASE VerifyRoot
  BY <1>1 DEF VerifyRoot, Close, BeginCleanup, Elsewhere
<1>2. CASE CompileAgent
  BY <1>2 DEF CompileAgent, Elsewhere
<1>3. CASE CompileFails
  <2>1. pc' \in {"closed", "cleanup", "stopping"}
    BY <1>3 DEF CompileFails, Close, BeginCleanup
  <2> QED
    BY <1>3, <2>1 DEF CompileFails, Elsewhere
<1>4. CASE Compiled \/ Execute \/ GraceEnds \/ EditAgent \/ OwnerEnded
  BY <1>4 DEF Compiled, Execute, Revalidate, GraceEnds, EditAgent, OwnerEnded, Elsewhere
<1>5. CASE OpenReturns \/ OpenTimesOut \/ EndExecution \/ Interrupt
  BY <1>5 DEF OpenReturns, OpenTimesOut, EndExecution, Interrupt, Close, BeginCleanup, Elsewhere
<1>6. CASE InterruptClose
  BY <1>6 DEF InterruptClose, BeginCleanup, Elsewhere
<1>7. CASE RunCallback \/ Confirm \/ CallbackFails
  <2>1. pc \in {"cleanup", "remove", "confirm"} /\ UNCHANGED <<backend, setupLock>>
    BY <1>7 DEF RunCallback, Confirm, CallbackFails
  <2>2. pc' \in {"cleanup", "remove", "closed"}
    BY <1>7 DEF RunCallback, Confirm, CallbackFails, EndCallback
  <2> QED
    BY <2>1, <2>2 DEF Elsewhere
<1>8. CASE Remove \/ Probe
  BY <1>8 DEF Remove, Probe, BeginCleanup, Elsewhere
<1>9. CASE TakeItem \/ EnterSession \/ SessionReady \/ Deliver
  BY <1>9 DEF TakeItem, EnterSession, SessionReady, Deliver, Elsewhere
<1>10. CASE LoadFails \/ OwnerCancelled \/ Unwind
  BY <1>10 DEF LoadFails, OwnerCancelled, Unwind, Elsewhere
<1>11. CASE ContainerAppears \/ ToolExits
  BY <1>11 DEF ContainerAppears, ToolExits, Elsewhere
<1> QED
  BY <1>1, <1>2, <1>3, <1>4, <1>5, <1>6, <1>7, <1>8, <1>9, <1>10, <1>11
     DEF Next, Caller, OwnerTask, Environment

LEMMA DatabasesStep == ASSUME IInv, Next PROVE Databases'
<1> USE DEF Goto
<1>1. /\ TypeOK /\ Databases /\ Owned /\ Control /\ TypeOK'
      /\ backend \in [1..2 -> {"none", "connected", "owned", "closed", "abandoned"}]
  BY NextTyped DEF IInv, TypeOK
<1>b. (Building = 3 <=> backend[1] = "owned" /\ backend[2] = "owned") /\ Building \in 1..3
  BY BuildingIs
<1>2. CASE ConnectBackend
  <2>1. CASE Building = 3
    BY <1>1, <1>2, <2>1 DEF ConnectBackend, Databases, build, session, Cleaning
  <2>2. CASE Building # 3
    <3>1. /\ pc = "backend" /\ pc' = "lock" /\ UNCHANGED <<owner, setupLock>>
          /\ backend' = [backend EXCEPT ![Building] = "connected"]
      BY <1>2, <2>2 DEF ConnectBackend, session
    <3>2. Building' = Building
      BY <1>1, <1>b, <2>2, <3>1, BuildingIs
    <3>3. \A b \in 1..2 : backend'[b] = "connected" => b = Building
      BY <1>1, <3>1 DEF Databases
    <3>4. owner # "absent"
      BY <1>1, <3>1 DEF Owned
    <3> QED
      BY <1>1, <2>2, <3>1, <3>2, <3>3, <3>4 DEF Databases, Cleaning
  <2> QED
    BY <2>1, <2>2
<1>3. CASE LockSetup
  BY <1>1, <1>3 DEF LockSetup, Databases, Building, build, session, Cleaning
<1>4. CASE SetUp
  BY <1>1, <1>b, <1>4 DEF SetUp, Databases, Owned, build, session, Cleaning
<1>5. CASE SetupFails
  <2>1. pc \in {"lock", "setup"} /\ UNCHANGED owner /\ owner # "absent"
        /\ \E left \in {"closed", "abandoned"} : backend' = [backend EXCEPT ![Building] = left]
        /\ setupLock' = (IF pc = "setup" THEN "free" ELSE setupLock) /\ Close(conn)
    BY <1>1, <1>5 DEF SetupFails, Owned
  <2>2. pc' = "stopping"
    BY <2>1 DEF Close
  <2> QED
    BY <1>1, <1>b, <2>1, <2>2 DEF Databases, Cleaning
<1>6. CASE CloseBackends
  BY <1>1, <1>6 DEF CloseBackends, BeginCleanup, Databases, Owned, session, Cleaning
<1>7. CASE OtherSetup
  BY <1>1, <1>7 DEF OtherSetup, Databases, Building, session, Cleaning
<1>8. CASE Elsewhere
  <2>1. UNCHANGED <<backend, setupLock>> /\ Building' = Building
    BY <1>8 DEF Elsewhere, Building
  <2>2. pc' \in Cleaning /\ ~failed' => \A b \in 1..2 : backend'[b] \in {"none", "closed", "abandoned"}
    <3> SUFFICES ASSUME pc' \in Cleaning, ~failed' PROVE \A b \in 1..2 : backend[b] \in {"none", "closed", "abandoned"}
      BY <2>1
    <3>1. CASE pc \in Cleaning
      BY <1>1, <3>1 DEF Databases, Control
    <3>2. CASE owner = "absent"
      BY <1>1, <3>2 DEF Databases
    <3>3. pc' # "closing"
      BY DEF Cleaning
    <3> QED
      BY <1>1, <1>8, <3>1, <3>2, <3>3 DEF Control, ToCallbacks, Elsewhere
  <2>3. pc' # "setup" => setupLock' # "mine"
    BY <1>1, <1>8, <2>1 DEF Databases, Elsewhere
  <2>4. pc' \notin {"lock", "setup"} => \A b \in 1..2 : backend'[b] # "connected"
    BY <1>1, <1>8, <2>1 DEF Databases, Elsewhere
  <2>5. pc' \in {"lock", "setup"} =>
          Building' # 3 /\ \A b \in 1..2 : backend'[b] = "connected" => b = Building'
    BY <1>1, <1>8, <2>1 DEF Databases, Elsewhere
  <2>6. owner' = "absent" => (\A b \in 1..2 : backend'[b] = "none") /\ pc' \notin {"lock", "setup"}
    BY <1>1, <1>8, <2>1 DEF Databases, Elsewhere, Control
  <2> QED
    BY <2>2, <2>3, <2>4, <2>5, <2>6 DEF Databases
<1> QED
  BY <1>2, <1>3, <1>4, <1>5, <1>6, <1>7, <1>8, DatabasesLeft

\* The steps that register connections append them.
LEMMA Appended ==
  ASSUME TypeOK, TypeOK', CompileAgent \/ CompileFails
  PROVE  /\ DOMAIN conn \subseteq DOMAIN conn' /\ \A i \in DOMAIN conn : conn'[i] = conn[i]
         /\ \A i \in DOMAIN conn' \ DOMAIN conn :
              /\ conn'[i].session = "none" /\ conn'[i].tool = "none"
              /\ conn'[i].cleanup = "pending" /\ conn'[i].late = FALSE
         /\ pc = "compile" /\ UNCHANGED <<owner, failed>>
         /\ pc' \notin {"verify", "probing", "compile", "opening"} => CompileFails
<1>1. /\ pc = "compile" /\ UNCHANGED <<owner, failed>> /\ todo # <<>> /\ todo \in Seq(Todo)
      /\ pc' \notin {"verify", "probing", "compile", "opening"} => CompileFails
  BY DEF CompileAgent, CompileFails, TypeOK, Todo, session, Goto
<1>2. Head(todo) \in Todo /\ Head(todo).agent \in Agents
  <2>1. Head(todo) \in Todo
    BY <1>1
  <2> QED
    BY <2>1 DEF Todo
<1>3. PICK a \in Agents : a = Head(todo).agent
  BY <1>2
<1>4. Servers[a] \in Seq({"container", "host"})
  BY <1>3, DriverAssumption
<1>5. PICK n \in 0..Len(Servers[a]) : conn' = Register(a, n)
  <2>1. CASE CompileAgent
    <3>1. Len(Servers[a]) \in 0..Len(Servers[a])
      BY <1>4
    <3> QED
      BY <1>3, <2>1, <3>1 DEF CompileAgent
  <2>2. CASE CompileFails
    BY <1>3, <2>2 DEF CompileFails
  <2> QED
    BY <2>1, <2>2
<1>6. PICK cs \in Seq(Connections) : cs = conn'
  BY DEF TypeOK
<1>7. DOMAIN cs = 1..Len(cs) /\ DOMAIN conn = 1..Len(conn) /\ Len(conn) \in Nat /\ n \in Nat
      /\ Len(cs) = Len(conn) + n
  <2>1. Len(Servers[a]) \in Nat
    BY <1>4
  <2>2. n \in Nat
    BY <2>1
  <2>3. conn \in Seq(Connections)
    BY DEF TypeOK
  <2>4. Len(Register(a, n)) = Len(conn) + n
    BY Registered
  <2> QED
    BY <1>5, <1>6, <2>2, <2>3, <2>4
<1>8. \A i \in 1..Len(conn) : cs[i] = conn[i]
  BY <1>5, <1>6, Registered
<1>9. \A i \in (Len(conn) + 1)..(Len(conn) + n) :
        /\ cs[i].session = "none" /\ cs[i].tool = "none"
        /\ cs[i].cleanup = "pending" /\ cs[i].late = FALSE
  BY <1>5, <1>6, Registered
<1>10. \A i \in DOMAIN cs \ DOMAIN conn : i \in (Len(conn) + 1)..(Len(conn) + n)
  BY <1>7
<1>11. DOMAIN conn \subseteq DOMAIN cs
  BY <1>7
<1> QED
  BY <1>1, <1>6, <1>7, <1>8, <1>9, <1>10, <1>11

\* The sessions that end when a request or the owner ends.
LEMMA EnteringEnded ==
  ASSUME TypeOK, EndSessions(InSession("entering"))
  PROVE  /\ DOMAIN conn' = DOMAIN conn
         /\ \A i \in DOMAIN conn : conn'[i].session # "entering"
         /\ \A i \in DOMAIN conn : conn'[i].session = "open" => conn[i].session = "open"
<1>1. InSession("entering") \in SUBSET DOMAIN conn
  BY DEF InSession
<1> QED
  BY <1>1, Ended DEF InSession

\* A step that changes neither the sessions nor their owner, and what it leaves of the
\* caller's request when the caller goes on.
Waits ==
  /\ DOMAIN conn' = DOMAIN conn /\ \A i \in DOMAIN conn : conn'[i].session = conn[i].session
  /\ UNCHANGED owner
  /\ pc' \in Before => UNCHANGED queue /\ (pc \in Before \/ (pc = "opening" /\ future = "result"))
  /\ pc' = "opening" => pc = "opening" /\ UNCHANGED <<queue, future>>

LEMMA SessionsLeft ==
  ASSUME IInv, Next
  PROVE  \/ VerifyRoot \/ CompileAgent \/ CompileFails \/ TakeItem \/ EnterSession \/ SessionReady
         \/ Deliver \/ LoadFails \/ OwnerCancelled \/ Unwind \/ Probe \/ Waits
<1> USE DEF Goto, session, LoopRuns, Before
<1>t. TypeOK
  BY DEF IInv
<1>1. CASE ConnectBackend \/ LockSetup \/ SetUp \/ Compiled \/ Execute \/ GraceEnds \/ OwnerEnded
           \/ OtherSetup \/ EditAgent
  BY <1>1 DEF ConnectBackend, LockSetup, SetUp, Compiled, Execute, Revalidate, GraceEnds, OwnerEnded,
              OtherSetup, EditAgent, Waits
<1>2. CASE SetupFails \/ OpenReturns \/ OpenTimesOut \/ EndExecution \/ Interrupt
  BY <1>2 DEF SetupFails, OpenReturns, OpenTimesOut, EndExecution, Interrupt, Close, BeginCleanup, Waits
<1>3. CASE CloseBackends \/ InterruptClose
  BY <1>3 DEF CloseBackends, InterruptClose, BeginCleanup, Waits
<1>4. CASE RunCallback \/ Confirm \/ CallbackFails
  <2>1. callback > 0
    BY <1>4 DEF RunCallback, Confirm, CallbackFails, IInv, Cleaned, Cleaning
  <2>2. UNCHANGED owner
    BY <1>4 DEF RunCallback, Confirm, CallbackFails
  <2>3. CASE UNCHANGED conn /\ pc' = "remove"
    BY <2>2, <2>3 DEF Waits
  <2>4. CASE EndCallback("done") \/ EndCallback("failed")
    BY <1>t, <2>1, <2>2, <2>4, CallbackEnded DEF OnlyChanges, Waits
  <2> QED
    BY <1>4, <1>t, <2>1, <2>3, <2>4, CallbackRuns
<1>5. CASE Remove
  <2>1. callback > 0 /\ pc' = "confirm" /\ UNCHANGED owner
    BY <1>5 DEF Remove, IInv, Cleaned, Cleaning
  <2> QED
    BY <1>5, <1>t, <2>1, Removed DEF OnlyChanges, Waits
<1>6. CASE ContainerAppears \/ ToolExits
  <2>1. UNCHANGED <<pc, owner, queue, future>>
    BY <1>6 DEF ContainerAppears, ToolExits
  <2>2. DOMAIN conn' = DOMAIN conn /\ \A i \in DOMAIN conn : conn'[i].session = conn[i].session
    BY <1>6, <1>t, ToolChanged DEF OnlyChanges
  <2> QED
    BY <2>1, <2>2 DEF Waits
<1> QED
  BY <1>1, <1>2, <1>3, <1>4, <1>5, <1>6 DEF Next, Caller, OwnerTask, Environment

LEMMA OwnedStep == ASSUME IInv, Next PROVE Owned'
<1>1. TypeOK /\ TypeOK' /\ Owned /\ Control
  BY NextTyped DEF IInv
<1> DEFINE Held(o, cs) == /\ o # "serving" => \A i \in DOMAIN cs : cs[i].session # "entering"
                          /\ o \in {"absent", "done"} => \A i \in DOMAIN cs : cs[i].session # "open"
<1>2. Held(owner, conn)
  BY <1>1 DEF Owned, InSession
<1>3. Held(owner', conn')
  <2>1. CASE VerifyRoot
    <3>1. UNCHANGED conn /\ owner' \in {"idle", owner} /\ owner = "absent"
      BY <1>1, <2>1 DEF VerifyRoot, Owned
    <3> QED
      BY <1>2, <3>1
  <2>2. CASE CompileAgent \/ CompileFails
    <3> HIDE DEF Held
    <3>1. /\ UNCHANGED owner
          /\ \A i \in DOMAIN conn' : conn'[i].session = "none" \/ (i \in DOMAIN conn /\ conn'[i] = conn[i])
      BY <1>1, <2>2, Appended
    <3> QED
      BY <1>2, <3>1 DEF Held
  <2>3. CASE TakeItem \/ Deliver
    BY <1>2, <2>3 DEF TakeItem, Deliver, InSession
  <2>4. CASE EnterSession
    <3>1. owner = "serving" /\ owner' = owner
      BY <2>4 DEF EnterSession, session
    <3> QED
      BY <3>1
  <2>5. CASE SessionReady
    <3>1. owner = "serving" /\ owner' = owner
      BY <2>5 DEF SessionReady, session
    <3> QED
      BY <3>1
  <2>6. CASE LoadFails \/ OwnerCancelled
    <3>1. owner' \in {"idle", "unwinding"} /\ EndSessions(InSession("entering"))
      BY <2>6 DEF LoadFails, OwnerCancelled
    <3> QED
      BY <1>1, <3>1, EnteringEnded
  <2>7. CASE Unwind
    <3>1. CASE InSession("open") = {}
      BY <1>2, <2>7, <3>1 DEF Unwind, InSession
    <3>2. CASE InSession("open") # {}
      <4>1. PICK i \in DOMAIN conn : EndSessions({i})
        BY <2>7, <3>2 DEF Unwind, InSession
      <4>2. {i} \in SUBSET DOMAIN conn
        OBVIOUS
      <4>3. DOMAIN conn' = DOMAIN conn
            /\ \A j \in DOMAIN conn : conn'[j].session = "ended" \/ conn'[j] = conn[j]
        BY <1>1, <4>1, <4>2, Ended
      <4>4. owner = "unwinding" /\ owner' = owner
        BY <2>7, <3>2 DEF Unwind
      <4> QED
        BY <1>2, <4>3, <4>4
    <3> QED
      BY <3>1, <3>2
  <2>8. CASE Probe
    <3>1. owner' = owner
      BY <2>8 DEF Probe, session
    <3> QED
      BY <1>1, <1>2, <2>8, <3>1, Probed
  <2>9. CASE Waits
    BY <1>2, <2>9 DEF Waits
  <2> QED
    BY <2>1, <2>2, <2>3, <2>4, <2>5, <2>6, <2>7, <2>8, <2>9, SessionsLeft
<1>4. /\ owner' # "serving" => InSession("entering")' = {}
      /\ owner' \in {"absent", "done"} => InSession("open")' = {}
  BY <1>3 DEF InSession
<1> HIDE DEF Held
<1>5. client' = "probe" => owner' = "absent"
  BY <1>1 DEF Owned, Control
<1>6. pc' = "probing" => owner' = "absent"
  BY <1>1 DEF Owned, Control
<1>7. /\ pc' = "verify" => client' # "probe" /\ owner' = "absent" /\ queue' = <<>> /\ conn' = <<>>
      /\ pc' = "closing" => owner' = "done"
      /\ pc' \in {"backend", "lock", "setup"} => owner' # "absent"
  BY <1>1 DEF Owned, Control
<1>8. pc' \notin Cleaning => ~failed'
  BY <1>1 DEF Owned, Control
<1>9. pc' \in Cleaning /\ ~failed' => owner' \in {"absent", "done"}
  BY <1>1 DEF Owned, Control, ToCallbacks, Cleaning
<1> QED
  BY <1>4, <1>5, <1>6, <1>7, <1>8, <1>9 DEF Owned, Cleaning

LEMMA OpenedStep == ASSUME IInv, Next PROVE Opened'
<1> USE DEF Goto
<1>1. TypeOK /\ TypeOK' /\ Owned /\ Opened /\ Control
  BY NextTyped DEF IInv
<1>2. CASE VerifyRoot
  <2>1. CASE Close(conn) /\ UNCHANGED owner
    <3>1. pc' \in {"closed", "cleanup", "stopping"}
      BY <2>1 DEF Close, BeginCleanup
    <3> QED
      BY <3>1 DEF Opened, Before
  <2>2. CASE owner' = "idle" /\ pc' \in {"backend", "compile"} /\ UNCHANGED queue
    <3>1. queue = <<>> /\ conn' = <<>>
      BY <1>1, <1>2 DEF VerifyRoot, Owned
    <3>2. AllIn({"open"})'
      BY <3>1 DEF AllIn
    <3> QED
      BY <2>2, <3>1, <3>2 DEF Opened
  <2> QED
    BY <1>2, <2>1, <2>2 DEF VerifyRoot
<1>3. CASE CompileAgent
  <2>1. pc = "compile" /\ UNCHANGED owner
    BY <1>3, <1>1, Appended
  <2>2. CASE owner \notin {"idle", "serving"}
    BY <2>1, <2>2 DEF Opened
  <2>3. CASE owner \in {"idle", "serving"}
    <3>1. owner = "idle" /\ queue = <<>> /\ AllIn({"open"})
      BY <1>1, <2>1, <2>3 DEF Opened, Before
    <3>2. CASE pc' = "probing"
      BY <3>2 DEF Opened, Before
    <3>3. CASE pc' = "opening" /\ queue' = Append(queue, "open") /\ future' = "pending"
      <4>1. queue' = <<"open">>
        BY <3>1, <3>3
      <4>2. AllIn({"none", "open"})'
        BY <1>1, <1>3, <3>1, Appended DEF AllIn
      <4> QED
        BY <2>1, <3>1, <3>3, <4>1, <4>2 DEF Opened, Before
    <3>4. CASE Servers[Head(todo).agent] = <<>> /\ UNCHANGED <<pc, session>>
      <4>1. Register(Head(todo).agent, 0) = conn
        <5>1. conn \in Seq(Connections) /\ [i \in 1..0 |-> Fresh(Servers[Head(todo).agent][i])] = <<>>
          BY <1>1 DEF TypeOK
        <5> QED
          BY <5>1 DEF Register
      <4>2. conn' = conn
        BY <1>3, <3>4, <4>1 DEF CompileAgent
      <4>3. AllIn({"open"})'
        BY <3>1, <4>2 DEF AllIn
      <4> QED
        BY <2>1, <3>1, <3>4, <4>3 DEF Opened, session
    <3> QED
      BY <1>3, <3>2, <3>3, <3>4 DEF CompileAgent
  <2> QED
    BY <2>2, <2>3
<1>4. CASE CompileFails
  <2>1. pc' \in {"closed", "cleanup", "stopping"}
    BY <1>4 DEF CompileFails, Close, BeginCleanup
  <2> QED
    BY <2>1 DEF Opened, Before
<1>5. CASE TakeItem
  <2>1. LoopRuns /\ owner = "idle" /\ queue # <<>> /\ queue' = Tail(queue) /\ UNCHANGED <<pc, conn, future>>
        /\ owner' = (IF Head(queue) = "open" THEN "serving" ELSE "unwinding")
    BY <1>5 DEF TakeItem
  <2>2. CASE pc = "opening"
    <3>1. future = "pending" /\ queue = <<"open">> /\ AllIn({"none", "open"})
      BY <1>1, <2>1, <2>2 DEF Opened
    <3>2. queue' = <<>> /\ owner' = "serving"
      BY <2>1, <3>1
    <3>3. AllIn({"none", "entering", "open"})'
      BY <2>1, <3>1 DEF AllIn
    <3> QED
      BY <2>1, <2>2, <3>1, <3>2, <3>3 DEF Opened, Before
  <2>3. CASE pc = "invoking"
    BY <1>1, <2>1, <2>3 DEF Opened, Before
  <2>4. CASE pc = "stopping"
    BY <2>1, <2>4 DEF Opened, Before
  <2> QED
    BY <2>1, <2>2, <2>3, <2>4 DEF LoopRuns
<1>6. CASE EnterSession \/ SessionReady
  <2>1. owner = "serving" /\ pc \in {"opening", "stopping"} /\ UNCHANGED <<pc, owner, queue, future>>
    BY <1>1, <1>6 DEF EnterSession, SessionReady, LoopRuns, Opened, Before, session
  <2>2. PICK i \in DOMAIN conn : OnlyChanges(i) /\ conn'[i].session \in {"entering", "open"}
    BY <1>1, <1>6, Entered, Ready
  <2>3. pc = "opening" => AllIn({"none", "entering", "open"})'
    BY <1>1, <2>1, <2>2 DEF Opened, AllIn, OnlyChanges
  <2> QED
    BY <1>1, <2>1, <2>3 DEF Opened, Before
<1>7. CASE Deliver \/ LoadFails
  <2>1. owner = "serving" /\ owner' = "idle" /\ pc \in {"opening", "stopping"} /\ UNCHANGED <<pc, queue>>
    BY <1>1, <1>7 DEF Deliver, LoadFails, LoopRuns, Opened, Before
  <2>2. CASE pc = "stopping"
    BY <2>1, <2>2 DEF Opened, Before
  <2>3. CASE pc = "opening"
    <3>1. future = "pending" /\ queue = <<>> /\ AllIn({"none", "entering", "open"})
      BY <1>1, <2>1, <2>3 DEF Opened
    <3>2. CASE Deliver
      <4>1. future' = "result" /\ UNCHANGED conn /\ InSession("entering") = {} /\ InSession("none") = {}
        BY <3>1, <3>2 DEF Deliver, Answer
      <4>2. AllIn({"open"})'
        BY <3>1, <4>1 DEF AllIn, InSession
      <4> QED
        BY <2>1, <2>3, <3>1, <4>1, <4>2 DEF Opened, Before
    <3>3. CASE LoadFails
      <4>1. future' = "error"
        BY <3>1, <3>3 DEF LoadFails, Answer
      <4> QED
        BY <2>1, <2>3, <3>1, <4>1 DEF Opened, Before
    <3> QED
      BY <1>7, <3>2, <3>3
  <2> QED
    BY <2>1, <2>2, <2>3
<1>8. CASE OwnerCancelled \/ Unwind
  <2>1. owner' \in {"unwinding", "done"}
    BY <1>8 DEF OwnerCancelled, Unwind
  <2> QED
    BY <2>1 DEF Opened
<1>9. CASE Probe
  <2>1. pc' \in {"closed", "cleanup"}
    BY <1>1, <1>9, Probed
  <2> QED
    BY <2>1 DEF Opened, Before
<1>10. CASE Waits
  <2>2. AllIn({"open"}) => AllIn({"open"})'
    BY <1>10 DEF AllIn, Waits
  <2>3. /\ AllIn({"none", "open"}) => AllIn({"none", "open"})'
        /\ AllIn({"none", "entering", "open"}) => AllIn({"none", "entering", "open"})'
    BY <1>10 DEF AllIn, Waits
  <2>4. CASE pc' \in Before
    BY <1>1, <1>10, <2>2, <2>4 DEF Waits, Opened, Before
  <2>5. CASE pc' = "opening"
    BY <1>1, <1>10, <2>2, <2>3, <2>5 DEF Waits, Opened, Before
  <2> QED
    BY <2>4, <2>5 DEF Opened
<1> QED
  BY <1>2, <1>3, <1>4, <1>5, <1>6, <1>7, <1>8, <1>9, <1>10, SessionsLeft

\* The steps that change a connection.
LEMMA ConnLeft ==
  ASSUME Next
  PROVE  \/ UNCHANGED conn \/ CompileAgent \/ CompileFails \/ EnterSession \/ SessionReady
         \/ LoadFails \/ OwnerCancelled \/ Unwind \/ RunCallback \/ Confirm \/ CallbackFails \/ Remove
         \/ Probe \/ ContainerAppears \/ ToolExits
<1>1. CASE VerifyRoot \/ ConnectBackend \/ LockSetup \/ SetUp \/ SetupFails \/ Compiled
           \/ OpenReturns \/ OpenTimesOut \/ Execute \/ EndExecution
  BY <1>1 DEF VerifyRoot, ConnectBackend, LockSetup, SetUp, SetupFails, Compiled, OpenReturns,
              OpenTimesOut, Execute, EndExecution
<1>2. CASE GraceEnds \/ OwnerEnded \/ CloseBackends \/ TakeItem \/ Deliver \/ OtherSetup
           \/ Interrupt \/ InterruptClose \/ EditAgent
  BY <1>2 DEF GraceEnds, OwnerEnded, CloseBackends, TakeItem, Deliver, OtherSetup, Interrupt,
              InterruptClose, EditAgent
<1> QED
  BY <1>1, <1>2 DEF Next, Caller, OwnerTask, Environment

\* The sessions that an owner's step ends, and what it leaves of every connection.
LEMMA OwnerEnds ==
  ASSUME TypeOK, LoadFails \/ OwnerCancelled \/ (Unwind /\ ~UNCHANGED conn)
  PROVE  /\ DOMAIN conn' = DOMAIN conn
         /\ \A i \in DOMAIN conn :
              \/ conn'[i] = conn[i]
              \/ /\ conn'[i].kind = conn[i].kind
                 /\ conn'[i].cleanup = conn[i].cleanup /\ conn'[i].late = conn[i].late
                 /\ conn'[i].tool # "gone" => conn[i].kind = "container" /\ conn'[i].tool = conn[i].tool
<1>1. PICK S \in SUBSET DOMAIN conn : EndSessions(S)
  <2>1. CASE LoadFails \/ OwnerCancelled
    BY <2>1 DEF LoadFails, OwnerCancelled, InSession
  <2>2. CASE Unwind /\ ~UNCHANGED conn
    <3>1. PICK i \in DOMAIN conn : EndSessions({i})
      BY <2>2 DEF Unwind, InSession
    <3>2. {i} \in SUBSET DOMAIN conn
      OBVIOUS
    <3> QED
      BY <3>1, <3>2
  <2> QED
    BY <2>1, <2>2
<1> QED
  BY <1>1, Ended

\* A cleanup is recorded by the callback that runs, and by nothing else.
LEMMA CleanupLeft ==
  ASSUME IInv, Next
  PROVE  \/ RunCallback \/ Confirm \/ CallbackFails
         \/ \A i \in DOMAIN conn' : \/ i \in DOMAIN conn /\ conn'[i].cleanup = conn[i].cleanup
                                    \/ i \notin DOMAIN conn /\ conn'[i].cleanup = "pending"
<1>1. TypeOK /\ TypeOK' /\ (pc \in Cleaning \ {"closed"} => callback > 0)
  BY NextTyped DEF IInv, Cleaned
<1>2. CASE CompileAgent \/ CompileFails
  BY <1>1, <1>2, Appended
<1>3. CASE EnterSession \/ SessionReady
  BY <1>1, <1>3, Entered, Ready DEF OnlyChanges
<1>4. CASE LoadFails \/ OwnerCancelled \/ (Unwind /\ ~UNCHANGED conn)
  BY <1>1, <1>4, OwnerEnds
<1>5. CASE Remove
  <2>1. callback > 0
    BY <1>1, <1>5 DEF Remove, Cleaning
  <2> QED
    BY <1>1, <1>5, <2>1, Removed DEF OnlyChanges
<1>6. CASE Probe
  BY <1>1, <1>6, Probed
<1>7. CASE ContainerAppears \/ ToolExits
  BY <1>1, <1>7, ToolChanged DEF OnlyChanges
<1>8. CASE UNCHANGED conn
  BY <1>8
<1> QED
  BY <1>2, <1>3, <1>4, <1>5, <1>6, <1>7, <1>8, ConnLeft

\* While the callbacks run, only they move the caller.
LEMMA CleaningLeft ==
  ASSUME Next, pc \in Cleaning
  PROVE  \/ pc # "closed" /\ (RunCallback \/ Confirm \/ CallbackFails)
         \/ UNCHANGED <<client, failed, callback>> /\ pc' \in Cleaning /\ (pc = "closed" <=> pc' = "closed")
<1> USE DEF Cleaning, Goto, LoopRuns, session, build
<1>1. CASE Caller
  BY <1>1 DEF Caller, VerifyRoot, ConnectBackend, LockSetup, SetUp, SetupFails, CompileAgent, CompileFails,
              Compiled, OpenReturns, OpenTimesOut, Execute, Revalidate, EndExecution, GraceEnds, OwnerEnded,
              CloseBackends, RunCallback, Remove, Confirm, CallbackFails, Probe
<1>2. CASE OwnerTask
  BY <1>2 DEF OwnerTask, TakeItem, EnterSession, SessionReady, Deliver, LoadFails, OwnerCancelled, Unwind
<1>3. CASE Environment
  BY <1>3 DEF Environment, OtherSetup, Interrupt, InterruptClose, ContainerAppears, ToolExits, EditAgent
<1> QED
  BY <1>1, <1>2, <1>3 DEF Next

LEMMA CleanedStep == ASSUME IInv, Next PROVE Cleaned'
<1>1. TypeOK /\ TypeOK' /\ Cleaned /\ Control
  BY NextTyped DEF IInv
<1>2. CASE pc \in Cleaning
  <2>1. CASE pc # "closed" /\ (RunCallback \/ Confirm \/ CallbackFails)
    <3>1. callback > 0 /\ pc \in Cleaning \ {"closed"} /\ client' = client
      BY <1>1, <1>2, <2>1 DEF Cleaned, Control
    <3>2. CASE pc' = "remove" /\ UNCHANGED <<conn, callback, failed>>
      BY <1>1, <3>1, <3>2 DEF Cleaned, Cleaning
    <3>3. ASSUME NEW r \in {"done", "failed"}, EndCallback(r) PROVE Cleaned'
      <4>1. /\ OnlyChanges(callback) /\ callback \in DOMAIN conn /\ conn'[callback].cleanup = r
            /\ callback' = callback - 1 /\ (failed' <=> (failed \/ r = "failed"))
            /\ pc' \in {"closed", "cleanup"}
            /\ pc' = "closed" => callback' = 0 \/ (client = "probe" /\ failed')
            /\ pc' = "cleanup" => callback' > 0
        BY <1>1, <3>1, <3>3, CallbackEnded
      <4>2. ASSUME NEW i \in DOMAIN conn', i > callback'
            PROVE  /\ client = "driver" => conn'[i].cleanup # "pending"
                   /\ ~failed' => conn'[i].cleanup = "done"
        <5>1. i \in DOMAIN conn /\ i \in Nat /\ callback \in Nat
          BY <1>1, <4>1 DEF OnlyChanges, TypeOK
        <5>2. CASE i = callback
          BY <4>1, <5>2
        <5>3. CASE i # callback
          <6>1. i > callback
            BY <4>1, <4>2, <5>1, <5>3
          <6>2. conn'[i] = conn[i]
            BY <4>1, <5>1, <5>3 DEF OnlyChanges
          <6> QED
            BY <1>1, <3>1, <4>1, <5>1, <6>1, <6>2 DEF Cleaned
        <5> QED
          BY <5>2, <5>3
      <4> QED
        BY <3>1, <4>1, <4>2 DEF Cleaned, Cleaning
    <3> QED
      BY <1>1, <2>1, <3>1, <3>2, <3>3, CallbackRuns
  <2>2. CASE /\ UNCHANGED <<client, failed, callback>> /\ pc' \in Cleaning
             /\ (pc = "closed" <=> pc' = "closed") /\ ~(RunCallback \/ Confirm \/ CallbackFails)
    <3>1. \A i \in DOMAIN conn' : \/ i \in DOMAIN conn /\ conn'[i].cleanup = conn[i].cleanup
                                  \/ i \notin DOMAIN conn /\ conn'[i].cleanup = "pending"
      BY <2>2, CleanupLeft
    <3>2. DOMAIN conn' = DOMAIN conn
      <4>1. ~(CompileAgent \/ CompileFails)
        BY <1>2 DEF CompileAgent, CompileFails, Cleaning
      <4>2. CASE EnterSession \/ SessionReady \/ LoadFails \/ OwnerCancelled \/ Unwind
        BY <1>2, <4>2 DEF EnterSession, SessionReady, LoadFails, OwnerCancelled, Unwind, LoopRuns, Cleaning
      <4>3. CASE Remove
        <5>1. callback > 0
          BY <1>1, <4>3 DEF Remove, Cleaned, Cleaning
        <5> QED
          BY <1>1, <4>3, <5>1, Removed DEF OnlyChanges
      <4>4. CASE Probe
        BY <1>1, <4>4, Probed
      <4>5. CASE ContainerAppears \/ ToolExits
        BY <1>1, <4>5, ToolChanged DEF OnlyChanges
      <4> QED
        BY <2>2, <4>1, <4>2, <4>3, <4>4, <4>5, ConnLeft
    <3>3. \A i \in DOMAIN conn' : conn'[i].cleanup = conn[i].cleanup
      BY <3>1, <3>2
    <3> QED
      BY <1>1, <1>2, <2>2, <3>2, <3>3 DEF Cleaned, Cleaning
  <2>3. pc = "closed" => ~(RunCallback \/ Confirm \/ CallbackFails)
    BY DEF RunCallback, Confirm, CallbackFails
  <2> QED
    BY <1>2, <2>1, <2>2, <2>3, CleaningLeft
<1>3. CASE pc \notin Cleaning
  <2>1. \A i \in DOMAIN conn' : conn'[i].cleanup = "pending"
    <3>1. ~(RunCallback \/ Confirm \/ CallbackFails)
      BY <1>3 DEF RunCallback, Confirm, CallbackFails, Cleaning
    <3> QED
      BY <1>1, <1>3, <3>1, CleanupLeft DEF Cleaned
  <2>2. CASE pc' \notin Cleaning
    BY <2>1, <2>2 DEF Cleaned, Cleaning
  <2>3. CASE pc' \in Cleaning
    <3>1. ToCallbacks
      BY <1>1, <1>3, <2>3 DEF Control
    <3>2. conn' \in Seq(Connections) /\ DOMAIN conn' = 1..Len(conn') /\ Len(conn') \in Nat
      <4>1. PICK cs \in Seq(Connections) : cs = conn'
        BY <1>1 DEF TypeOK
      <4>2. DOMAIN cs = 1..Len(cs) /\ Len(cs) \in Nat
        OBVIOUS
      <4> QED
        BY <4>1, <4>2
    <3>3. \A i \in DOMAIN conn' : ~(i > callback')
      BY <3>1, <3>2 DEF ToCallbacks
    <3> QED
      BY <2>3, <3>1, <3>2, <3>3 DEF Cleaned, ToCallbacks, Cleaning
  <2> QED
    BY <2>2, <2>3
<1> QED
  BY <1>2, <1>3

LEMMA ToolsStep == ASSUME IInv, Next PROVE Tools'
<1>1. TypeOK /\ TypeOK' /\ Owned /\ Cleaned /\ Tools /\ Control
  BY NextTyped DEF IInv
<1>2. ~failed' => ~failed
  BY <1>1 DEF Owned, Control
<1> DEFINE Fits(c, f) == /\ c.kind = "host" => c.tool # "requested"
                         /\ c.kind = "host" /\ c.session \in {"none", "ended"} => c.tool # "running"
                         /\ ~f /\ c.cleanup = "done" /\ c.tool = "running" => c.late
<1>3. \A i \in DOMAIN conn : Fits(conn[i], failed)
  BY <1>1 DEF Tools
<1>4. \A i \in DOMAIN conn : Fits(conn[i], failed')
  BY <1>2, <1>3
<1>5. \A i \in DOMAIN conn : pc \notin Cleaning => conn[i].cleanup = "pending"
  BY <1>1 DEF Cleaned
<1>6. SUFFICES \A i \in DOMAIN conn' : Fits(conn'[i], failed')
  BY DEF Tools
<1>7. CASE UNCHANGED conn
  BY <1>4, <1>7
<1>8. CASE CompileAgent \/ CompileFails
  <2>1. ASSUME NEW i \in DOMAIN conn' PROVE Fits(conn'[i], failed')
    <3>1. CASE i \in DOMAIN conn
      <4>1. conn'[i] = conn[i]
        BY <1>1, <1>8, <3>1, Appended
      <4> QED
        BY <1>4, <3>1, <4>1
    <3>2. CASE i \notin DOMAIN conn
      <4>1. conn'[i].tool = "none"
        BY <1>1, <1>8, <2>1, <3>2, Appended
      <4> QED
        BY <4>1
    <3> QED
      BY <3>1, <3>2
  <2> QED
    BY <2>1
<1>9. CASE EnterSession \/ SessionReady
  <2>1. PICK i \in DOMAIN conn :
          /\ OnlyChanges(i) /\ conn'[i].session \in {"entering", "open"}
          /\ conn'[i].tool \in {conn[i].tool, Spawn(conn[i].kind)} /\ conn'[i].cleanup = conn[i].cleanup
    BY <1>1, <1>9, Entered, Ready
  <2>2. conn[i].cleanup = "pending"
    BY <1>5, <1>9 DEF EnterSession, SessionReady, LoopRuns, Cleaning
  <2>3. Fits(conn'[i], failed')
    BY <1>3, <2>1, <2>2 DEF OnlyChanges, Spawn
  <2> QED
    BY <1>4, <2>1, <2>3 DEF OnlyChanges
<1>10. CASE LoadFails \/ OwnerCancelled \/ (Unwind /\ ~UNCHANGED conn)
  <2>1. ASSUME NEW i \in DOMAIN conn PROVE Fits(conn'[i], failed')
    <3>1. conn[i].cleanup = "pending"
      BY <1>5, <1>10 DEF LoadFails, OwnerCancelled, Unwind, LoopRuns, Cleaning
    <3>2. \/ conn'[i] = conn[i]
          \/ /\ conn'[i].kind = conn[i].kind
             /\ conn'[i].cleanup = conn[i].cleanup /\ conn'[i].late = conn[i].late
             /\ conn'[i].tool # "gone" => conn[i].kind = "container" /\ conn'[i].tool = conn[i].tool
      BY <1>1, <1>10, OwnerEnds
    <3> QED
      BY <1>4, <3>1, <3>2
  <2> QED
    BY <1>1, <1>10, <2>1, OwnerEnds
<1>11. CASE RunCallback \/ Confirm \/ CallbackFails
  <2>1. callback > 0 /\ pc \in Cleaning
    BY <1>1, <1>11 DEF RunCallback, Confirm, CallbackFails, Cleaned, Cleaning
  <2>2. ASSUME NEW r \in {"done", "failed"}, EndCallback(r),
               r = "done" => \/ ~(conn[callback].kind = "container" /\ conn[callback].tool = "running")
                             \/ conn[callback].tool # "running"
        PROVE  \A i \in DOMAIN conn' : Fits(conn'[i], failed')
    <3>1. /\ OnlyChanges(callback) /\ callback \in DOMAIN conn /\ conn'[callback].cleanup = r
          /\ conn'[callback].session = conn[callback].session
          /\ conn'[callback].tool = conn[callback].tool /\ conn'[callback].late = conn[callback].late
          /\ (failed' <=> (failed \/ r = "failed"))
      BY <1>1, <2>1, <2>2, CallbackEnded
    <3>2. ~failed' => conn[callback].tool # "running"
      <4> SUFFICES ASSUME ~failed', conn[callback].tool = "running" PROVE FALSE
        OBVIOUS
      <4>1. conn[callback] \in Connections
        BY <1>1, <3>1 DEF TypeOK
      <4>2. conn[callback].kind = "host"
        BY <2>2, <3>1, <4>1 DEF Connections
      <4>3. owner \in {"absent", "done"}
        BY <1>1, <1>2, <2>1 DEF Owned
      <4>4. conn[callback].session \notin {"entering", "open"}
        BY <1>1, <3>1, <4>3 DEF Owned, InSession
      <4>5. conn[callback].session \in {"none", "ended"}
        BY <4>1, <4>4 DEF Connections
      <4> QED
        BY <1>3, <3>1, <4>2, <4>5
    <3>3. Fits(conn'[callback], failed')
      BY <1>4, <3>1, <3>2 DEF OnlyChanges
    <3> QED
      BY <1>4, <3>1, <3>3 DEF OnlyChanges
  <2> HIDE DEF Fits
  <2> QED
    BY <1>1, <1>7, <1>11, <2>1, <2>2, CallbackRuns
<1>12. CASE Remove
  <2>1. callback > 0
    BY <1>1, <1>12 DEF Remove, Cleaned, Cleaning
  <2>2. /\ OnlyChanges(callback) /\ callback \in DOMAIN conn
        /\ conn'[callback].session = conn[callback].session
        /\ conn'[callback].tool \in {conn[callback].tool, "gone"}
        /\ conn'[callback].cleanup = conn[callback].cleanup
        /\ conn'[callback].late = conn[callback].late
    BY <1>1, <1>12, <2>1, Removed
  <2>3. Fits(conn'[callback], failed')
    BY <1>4, <2>2 DEF OnlyChanges
  <2> QED
    BY <1>4, <2>2, <2>3 DEF OnlyChanges
<1>13. CASE Probe
  <2>1. ASSUME NEW i \in DOMAIN conn PROVE Fits(conn'[i], failed')
    <3>1. conn[i].cleanup = "pending"
      BY <1>5, <1>13 DEF Probe, Cleaning
    <3>2. /\ conn'[i].kind = conn[i].kind /\ conn'[i].cleanup = conn[i].cleanup
          /\ \/ conn'[i] = conn[i]
             \/ conn'[i].session = "ended" /\ (conn[i].kind = "host" => conn'[i].tool = "gone")
      BY <1>1, <1>13, Probed
    <3> QED
      BY <1>4, <3>1, <3>2
  <2> QED
    BY <1>1, <1>13, <2>1, Probed
<1>14. CASE ContainerAppears \/ ToolExits
  <2>1. PICK i \in DOMAIN conn :
          /\ OnlyChanges(i) /\ conn'[i].session = conn[i].session
          /\ conn'[i].cleanup = conn[i].cleanup
          /\ \/ conn'[i].tool = "gone" /\ conn'[i].late = conn[i].late
             \/ /\ conn[i].tool = "requested" /\ conn'[i].tool = "running"
                /\ conn'[i].late = (conn[i].cleanup = "done")
    BY <1>1, <1>14, ToolChanged
  <2>2. Fits(conn'[i], failed')
    <3>1. conn'[i].kind = conn[i].kind
      BY <2>1 DEF OnlyChanges
    <3>2. CASE conn'[i].tool = "gone"
      BY <3>2
    <3>3. CASE /\ conn[i].tool = "requested" /\ conn'[i].tool = "running"
               /\ conn'[i].late = (conn[i].cleanup = "done")
      <4>1. conn[i].kind # "host"
        BY <1>3, <2>1, <3>3
      <4>2. conn'[i].cleanup = "done" => conn'[i].late
        BY <2>1, <3>3
      <4> QED
        BY <3>1, <4>1, <4>2
    <3> QED
      BY <2>1, <3>2, <3>3
  <2> QED
    BY <1>4, <2>1, <2>2 DEF OnlyChanges
<1> QED
  BY <1>7, <1>8, <1>9, <1>10, <1>11, <1>12, <1>13, <1>14, ConnLeft

LEMMA RootedStep == ASSUME IInv, Next PROVE Rooted'
<1>1. TypeOK /\ Rooted
  BY DEF IInv
<1>2. CASE CompileAgent
  <2> DEFINE a == Head(todo).agent
             refs == References(a)
             next == [i \in DOMAIN refs |->
                        [agent |-> refs[i], ancestry |-> Head(todo).ancestry \cup {a}]]
  <2>0. todo \in Seq(Todo) /\ todo # <<>>
    BY <1>1, <1>2 DEF TypeOK, Todo, CompileAgent
  <2>1. todo \in Seq(Todo) /\ todo # <<>> /\ Head(todo) \in Todo
    BY <2>0
  <2>2. a \in Agents /\ disk[a] \in Versions /\ refs = Subs[a][disk[a]] /\ refs \in Seq(Agents)
    <3>1. a \in Agents
      BY <2>1 DEF Todo
    <3> QED
      BY <1>1, <3>1, Referred
  <2>3. todo' = next \o Tail(todo) /\ graph' = graph \cup {<<a, disk[a]>>} /\ disk' = disk
    BY <1>2 DEF CompileAgent
  <2>4. todo[1].agent = a /\ 1 \in DOMAIN todo
    BY <2>1
  <2> HIDE DEF a, refs
  <2>5. PICK n \in Nat : n = Len(refs) /\ DOMAIN refs = 1..n
    BY <2>2
  <2>6. next \in [DOMAIN refs -> Todo]
    BY <2>1, <2>2 DEF Todo
  <2>7. next \in Seq(Todo) /\ Len(next) = n /\ \A i \in 1..n : next[i].agent = refs[i]
    BY <2>2, <2>5, <2>6, Mapped
  <2> HIDE DEF next
  <2>8. PICK m \in Nat : m + 1 = Len(todo) /\ DOMAIN todo = 1..(m + 1) /\ Len(Tail(todo)) = m
                          /\ \A i \in 1..m : Tail(todo)[i] = todo[i + 1]
    <3>1. Len(todo) \in Nat /\ Len(todo) > 0 /\ DOMAIN todo = 1..Len(todo)
      BY <2>1
    <3>m. PICK m \in Nat : m = Len(todo) - 1 /\ m + 1 = Len(todo)
      <4>1. Len(todo) - 1 \in Nat /\ (Len(todo) - 1) + 1 = Len(todo)
        BY <3>1
      <4> QED
        BY <4>1
    <3>2. Len(Tail(todo)) = Len(todo) - 1 /\ \A i \in 1..(Len(todo) - 1) : Tail(todo)[i] = todo[i + 1]
      BY <2>1
    <3> QED
      BY <3>1, <3>2, <3>m
  <2>9. Tail(todo) \in Seq(Todo)
    BY <2>1
  <2>10. /\ DOMAIN todo' = 1..(n + m)
         /\ \A i \in 1..n : todo'[i] = next[i]
         /\ \A i \in (n + 1)..(n + m) : todo'[i] = Tail(todo)[i - n]
    <3> DEFINE rest == Tail(todo)
    <3>1. rest \in Seq(Todo) /\ Len(rest) = m /\ todo' = next \o rest
      BY <2>3, <2>8, <2>9
    <3> HIDE DEF rest
    <3>2. /\ DOMAIN (next \o rest) = 1..(n + m)
          /\ \A i \in 1..n : (next \o rest)[i] = next[i]
          /\ \A i \in (n + 1)..(n + m) : (next \o rest)[i] = rest[i - n]
      <4>1. next \in Seq(Todo) /\ rest \in Seq(Todo) /\ n \in Nat /\ m \in Nat /\ Len(next) = n /\ Len(rest) = m
        BY <2>7, <3>1
      <4> QED
        <5>1. /\ DOMAIN (next \o rest) = 1..(Len(next) + Len(rest))
              /\ \A i \in 1..Len(next) : (next \o rest)[i] = next[i]
              /\ \A i \in (Len(next) + 1)..(Len(next) + Len(rest)) :
                   (next \o rest)[i] = rest[i - Len(next)]
          BY <4>1, Joined, Zenon
        <5> QED
          BY <4>1, <5>1
    <3> QED
      BY <3>1, <3>2 DEF rest
  <2>11. ASSUME NEW S \in SUBSET Agents, Root \in S, Follows(S)'
         PROVE  /\ \A b \in Agents, v \in Versions : <<b, v>> \in graph' => b \in S
                /\ \A i \in DOMAIN todo' : todo'[i].agent \in S
    <3>1. Follows(S)
      BY <2>3, <2>11 DEF Follows
    <3>2. /\ \A b \in Agents, v \in Versions : <<b, v>> \in graph => b \in S
          /\ \A i \in DOMAIN todo : todo[i].agent \in S
      BY <1>1, <2>11, <3>1 DEF Rooted
    <3>3. a \in S
      BY <2>4, <3>2
    <3>4. \A i \in 1..n : refs[i] \in S
      BY <2>2, <2>3, <2>5, <2>11, <3>3 DEF Follows
    <3>5. ASSUME NEW i \in (n + 1)..(n + m) PROVE todo'[i].agent \in S
      <4>1. i - n \in 1..m /\ i - n + 1 \in 1..(m + 1)
        OBVIOUS
      <4>2. todo'[i] = todo[i - n + 1]
        BY <2>8, <2>10, <3>5, <4>1
      <4> QED
        BY <2>8, <3>2, <4>1, <4>2
    <3>6. ASSUME NEW i \in 1..(n + m) PROVE todo'[i].agent \in S
      <4>1. i \in 1..n \/ i \in (n + 1)..(n + m)
        OBVIOUS
      <4> QED
        BY <2>7, <2>10, <3>4, <3>5, <4>1
    <3> QED
      BY <2>3, <2>10, <3>2, <3>3, <3>6
  <2>12. disk'[Root] = 1 /\ \A v \in Versions : <<Root, v>> \in graph' => v = 1
    BY <1>1, <2>3 DEF Rooted
  <2> QED
    BY <2>11, <2>12 DEF Rooted
<1>3. CASE EditAgent
  <2>1. PICK b \in Agents \ {Root}, v \in Versions : disk' = [disk EXCEPT ![b] = v]
    BY <1>3 DEF EditAgent
  <2>2. disk'[Root] = disk[Root] /\ UNCHANGED <<todo, graph>>
    BY <1>1, <1>3, <2>1, DriverAssumption DEF EditAgent, build, TypeOK
  <2>3. \A S \in SUBSET Agents : Follows(S)' = Follows(S)
    BY <2>2 DEF Follows
  <2> QED
    BY <1>1, <2>2, <2>3 DEF Rooted
<1>4. CASE UNCHANGED <<todo, graph, disk>>
  <2>1. \A S \in SUBSET Agents : Follows(S)' = Follows(S)
    BY <1>4 DEF Follows
  <2> QED
    BY <1>1, <1>4, <2>1 DEF Rooted
<1>5. CASE VerifyRoot \/ ConnectBackend \/ LockSetup \/ SetUp \/ SetupFails \/ CompileFails \/ Compiled
           \/ OpenReturns \/ OpenTimesOut \/ EndExecution \/ Interrupt \/ Execute
  BY <1>4, <1>5 DEF VerifyRoot, ConnectBackend, LockSetup, SetUp, SetupFails, CompileFails, Compiled,
     OpenReturns, OpenTimesOut, EndExecution, Interrupt, Execute, build
<1>6. CASE GraceEnds \/ OwnerEnded \/ CloseBackends \/ InterruptClose \/ Probe \/ Remove
           \/ RunCallback \/ Confirm \/ CallbackFails
  BY <1>4, <1>6 DEF GraceEnds, OwnerEnded, CloseBackends, InterruptClose, Probe, Remove, RunCallback,
     Confirm, CallbackFails, build
<1>7. CASE OwnerTask \/ OtherSetup \/ ContainerAppears \/ ToolExits
  BY <1>4, <1>7 DEF OwnerTask, TakeItem, EnterSession, SessionReady, Deliver, LoadFails, OwnerCancelled,
     Unwind, OtherSetup, ContainerAppears, ToolExits, build
<1> QED
  BY <1>2, <1>3, <1>5, <1>6, <1>7 DEF Next, Caller, Environment

\* When no agent was compiled in two contents, the revalidation comes to all of them.
LEMMA AllReached ==
  ASSUME IInv, Revalidate, \A b \in Agents : ~TwoContents(b)
  PROVE  \A a \in Agents, v \in Versions : <<a, v>> \in graph => a \in Reached
<1>1. TypeOK /\ Rooted /\ Drift
  BY DEF IInv
<1>2. Root \in Reached /\ Reached \subseteq Agents
  BY DriverAssumption DEF Reached
<1>3. ASSUME NEW b \in Reached, NEW i \in DOMAIN References(b) PROVE References(b)[i] \in Reached
  <2>1. b \in Agents /\ References(b) \in Seq(Agents)
    BY <1>1, <1>2, Referred
  <2>2. References(b)[i] \in Agents
    BY <1>3, <2>1
  <2> QED
    BY <1>3, <2>2 DEF Reached
<1>4. ASSUME NEW b \in Reached, NEW v \in Versions, <<b, v>> \in graph PROVE v = disk[b]
  <2>1. CASE b = Root
    BY <1>1, <1>4, <2>1 DEF Rooted
  <2>2. CASE b # Root
    <3>1. compiled[b] = disk[b] /\ b \in Agents
      BY <1>2, <1>4, <2>2 DEF Revalidate
    <3>2. disk[b] \in Versions /\ disk[b] # 0
      BY <1>1, <3>1, DriverAssumption DEF TypeOK
    <3>3. <<b, disk[b]>> \in graph
      BY <1>1, <3>1, <3>2 DEF Drift
    <3> QED
      BY <1>4, <3>1, <3>2, <3>3 DEF TwoContents
  <2> QED
    BY <2>1, <2>2
<1>5. Follows(Reached)
  BY <1>3, <1>4 DEF Follows, References
<1> QED
  BY <1>1, <1>2, <1>5 DEF Rooted

LEMMA DriftStep == ASSUME IInv, Next PROVE Drift'
<1> USE DEF Goto
<1>1. TypeOK /\ Drift
  BY DEF IInv
<1>2. CASE CompileAgent
  <2>1. todo # <<>> /\ todo \in Seq(Todo)
    BY <1>1, <1>2 DEF CompileAgent, TypeOK, Todo
  <2>2. Head(todo) \in Todo
    BY <2>1
  <2>3. PICK a \in Agents : a = Head(todo).agent
    BY <2>2 DEF Todo
  <2>4. disk[a] \in Versions /\ disk[a] # 0 /\ compiled \in [Agents -> Versions \cup {0}]
    BY <1>1, DriverAssumption DEF TypeOK
  <2>5. /\ graph' = graph \cup {<<a, disk[a]>>} /\ compiled' = [compiled EXCEPT ![a] = disk[a]]
        /\ pc' # "invoking"
    BY <1>2, <2>3 DEF CompileAgent
  <2>6. compiled'[a] = disk[a] /\ \A b \in Agents \ {a} : compiled'[b] = compiled[b]
    BY <2>4, <2>5
  <2>7. \A b \in Agents \ {a}, v \in Versions : <<b, v>> \in graph' => <<b, v>> \in graph
    BY <2>5
  <2> QED
    BY <1>1, <2>4, <2>5, <2>6, <2>7 DEF Drift
<1>3. CASE Execute
  <2>1. UNCHANGED <<graph, compiled>> /\ Revalidate
        /\ checked' = [a \in Agents |-> IF a \in Reached THEN disk[a] ELSE 0]
    BY <1>3 DEF Execute
  <2>2. \A a \in Agents \ {Root} : checked'[a] \in {0, compiled'[a]}
    BY <2>1 DEF Revalidate
  <2>3. \A b \in Agents : TwoContents(b)' = TwoContents(b)
    BY <2>1 DEF TwoContents
  <2>4. ASSUME \A b \in Agents : ~TwoContents(b), NEW a \in Agents, NEW v \in Versions, <<a, v>> \in graph
        PROVE  checked'[a] # 0
    <3>1. a \in Reached
      BY <2>1, <2>4, AllReached
    <3> QED
      BY <1>1, <2>1, <3>1, DriverAssumption DEF TypeOK
  <2> QED
    BY <1>1, <2>1, <2>2, <2>3, <2>4 DEF Drift
<1>4. CASE UNCHANGED <<graph, compiled, checked>> /\ (pc' = "invoking" => pc = "invoking")
  <2>1. \A b \in Agents : TwoContents(b)' = TwoContents(b)
    BY <1>4 DEF TwoContents
  <2> QED
    BY <1>1, <1>4, <2>1 DEF Drift
<1>5. CASE VerifyRoot \/ ConnectBackend \/ LockSetup \/ SetUp \/ SetupFails \/ CompileFails \/ Compiled
           \/ OpenReturns \/ OpenTimesOut \/ EndExecution \/ Interrupt
  <2>1. UNCHANGED <<graph, compiled, checked>>
    BY <1>5 DEF VerifyRoot, ConnectBackend, LockSetup, SetUp, SetupFails, CompileFails, Compiled,
                OpenReturns, OpenTimesOut, EndExecution, Interrupt, build
  <2>2. pc' # "invoking"
    BY <1>5 DEF VerifyRoot, ConnectBackend, LockSetup, SetUp, SetupFails, CompileFails, Compiled,
                OpenReturns, OpenTimesOut, EndExecution, Interrupt, Close, BeginCleanup
  <2> QED
    BY <1>4, <2>1, <2>2
<1>6. CASE GraceEnds \/ OwnerEnded \/ CloseBackends \/ InterruptClose \/ Probe \/ Remove
  <2>1. UNCHANGED <<graph, compiled, checked>> /\ pc' # "invoking"
    BY <1>6 DEF GraceEnds, OwnerEnded, CloseBackends, InterruptClose, Probe, Remove, build, BeginCleanup
  <2> QED
    BY <1>4, <2>1
<1>7. CASE RunCallback \/ Confirm \/ CallbackFails
  <2>1. UNCHANGED <<graph, compiled, checked>> /\ pc' # "invoking"
    BY <1>7 DEF RunCallback, Confirm, CallbackFails, EndCallback, build
  <2> QED
    BY <1>4, <2>1
<1>8. CASE OwnerTask \/ OtherSetup \/ ContainerAppears \/ ToolExits \/ EditAgent
  <2>1. UNCHANGED <<graph, compiled, checked, pc>>
    BY <1>8 DEF OwnerTask, TakeItem, EnterSession, SessionReady, Deliver, LoadFails, OwnerCancelled, Unwind,
                OtherSetup, ContainerAppears, ToolExits, EditAgent, build
  <2> QED
    BY <1>4, <2>1
<1> QED
  BY <1>2, <1>3, <1>5, <1>6, <1>7, <1>8 DEF Next, Caller, Environment

LEMMA NextIInv == IInv /\ [Next]_vars => IInv'
<1> SUFFICES ASSUME IInv, [Next]_vars PROVE IInv'
  OBVIOUS
<1>1. CASE Next
  BY <1>1, NextTyped, DatabasesStep, OwnedStep, OpenedStep, CleanedStep, ToolsStep, RootedStep, DriftStep DEF IInv
<1>2. CASE UNCHANGED vars
  <2>1. UNCHANGED <<pc, disk, client, todo, graph, compiled, checked, conn, callback, owner, cancelled,
                    queue, future, backend, setupLock, failed>>
    BY <1>2 DEF vars, build, session, sqlite
  <2>2. TypeOK' /\ Databases'
    BY <2>1 DEF IInv, TypeOK, Databases, Building
  <2>3. Owned' /\ Opened'
    BY <2>1 DEF IInv, Owned, Opened, InSession, AllIn
  <2>4. Cleaned' /\ Tools'
    BY <2>1 DEF IInv, Cleaned, Tools
  <2>5. \A S \in SUBSET Agents : Follows(S)' = Follows(S)
    BY <2>1 DEF Follows
  <2>6. \A b \in Agents : TwoContents(b)' = TwoContents(b)
    BY <2>1 DEF TwoContents
  <2>7. Rooted' /\ Drift'
    BY <2>1, <2>5, <2>6 DEF IInv, Rooted, Drift
  <2> QED
    BY <2>2, <2>3, <2>4, <2>7 DEF IInv
<1> QED
  BY <1>1, <1>2

\* The inductive invariant holds of every behaviour of the driver and its tools.
LEMMA IInvAlways == Spec => []IInv
BY InitIInv, NextIInv, PTL DEF Spec

(***************************************************************************)
(* The theorems.                                                           *)
(***************************************************************************)

\* The driver, its owner task and its tools stay within their types.
THEOREM TypeCorrect == Spec => []TypeOK
<1>1. IInv => TypeOK
  BY DEF IInv
<1> QED
  BY IInvAlways, <1>1, PTL

\* A close that reports no failure has ended the owner and its sessions, closed
\* and unlocked the databases, and left no container but one the daemon created
\* after its label was found unused.
THEOREM SilentCloseAlwaysClean == Spec => []SilentCloseIsClean
<1>1. IInv => SilentCloseIsClean
  <2> SUFFICES ASSUME IInv, pc = "closed", ~failed
               PROVE  /\ owner \in {"absent", "done"} /\ setupLock # "mine"
                      /\ \A b \in 1..2 : backend[b] \in {"none", "closed", "abandoned"}
                      /\ \A i \in DOMAIN conn :
                           /\ conn[i].session \in {"none", "ended"}
                           /\ conn[i].tool = "running" => conn[i].late
    BY DEF SilentCloseIsClean
  <2>1. owner \in {"absent", "done"} /\ InSession("entering") = {} /\ InSession("open") = {}
    BY DEF IInv, Owned, Cleaning
  <2>2. setupLock # "mine" /\ \A b \in 1..2 : backend[b] \in {"none", "closed", "abandoned"}
    BY DEF IInv, Databases, Cleaning
  <2>3. ASSUME NEW i \in DOMAIN conn
        PROVE  conn[i].session \in {"none", "ended"} /\ (conn[i].tool = "running" => conn[i].late)
    <3>1. conn \in Seq(Connections) /\ i \in Nat /\ i > 0 /\ conn[i] \in Connections
      BY <2>3 DEF IInv, TypeOK
    <3>2. conn[i].session \in {"none", "ended"}
      BY <2>1, <3>1 DEF InSession, Connections
    <3>3. callback = 0
      BY DEF IInv, Cleaned
    <3>4. conn[i].cleanup = "done"
      BY <3>1, <3>3 DEF IInv, Cleaned, Cleaning
    <3> QED
      BY <3>2, <3>4 DEF IInv, Tools
  <2> QED
    BY <2>1, <2>2, <2>3
<1> QED
  BY IInvAlways, <1>1, PTL

\* However it ends, a driver that is closed has run every cleanup callback it
\* has registered.
THEOREM EveryCallbackAlwaysRuns == Spec => []EveryCallbackRuns
<1>1. IInv => EveryCallbackRuns
  <2> SUFFICES ASSUME IInv, pc = "closed", client = "driver", NEW i \in DOMAIN conn
               PROVE  conn[i].cleanup # "pending"
    BY DEF EveryCallbackRuns
  <2>1. callback = 0
    BY DEF IInv, Cleaned
  <2>2. i \in Nat /\ i > 0
    BY DEF IInv, TypeOK
  <2> QED
    BY <2>1, <2>2 DEF IInv, Cleaned, Cleaning
<1> QED
  BY IInvAlways, <1>1, PTL

\* While the graph executes, every tool compiled into it has its session, unless
\* the owner task has ended.
THEOREM SessionsAlwaysOutlive == Spec => []SessionsOutliveRequests
<1>1. IInv => SessionsOutliveRequests
  BY DEF IInv, Opened, AllIn, Before, SessionsOutliveRequests
<1> QED
  BY IInvAlways, <1>1, PTL

\* When no agent was compiled in two contents, what executes is what was read
\* again, for every delegation and every edit of it; otherwise an agent that
\* was compiled once executes as it was read, or was not read at all.
THEOREM DriftAlwaysRefused == Spec => []DriftRefused
<1>1. IInv => DriftRefused
  <2> SUFFICES ASSUME IInv, pc = "invoking", NEW a \in Agents \ {Root}, NEW v \in Versions,
                      <<a, v>> \in graph, ~TwoContents(a),
                      ~(checked[a] = 0 /\ \E b \in Agents : TwoContents(b))
               PROVE  v = checked[a]
    BY DEF DriftRefused
  <2>1. compiled[a] # 0 /\ compiled \in [Agents -> Versions \cup {0}]
    BY DEF IInv, Drift, TypeOK
  <2>2. compiled[a] \in Versions /\ <<a, compiled[a]>> \in graph
    BY <2>1 DEF IInv, Drift
  <2>3. v = compiled[a]
    BY <2>2 DEF TwoContents
  <2>4. checked[a] \in {0, compiled[a]} /\ checked[a] # 0
    BY DEF IInv, Drift
  <2> QED
    BY <2>3, <2>4
<1> QED
  BY IInvAlways, <1>1, PTL
=============================================================================
