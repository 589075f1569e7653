------------------------------- MODULE Driver -------------------------------
(***************************************************************************)
(* The execution driver of one run (services/deepagents_runner.py) and the *)
(* tool containers it owns (infrastructure/tool_execution.py): building    *)
(* the SQLite back-ends, compiling the root agent and its sub-agents depth *)
(* first, opening their MCP sessions through the task that owns them,      *)
(* executing, and closing. Four parties interleave: the caller's thread,   *)
(* the owner task (only while the caller runs the event loop), the Docker  *)
(* daemon, which may create a container after its client was killed, and   *)
(* the editors of the catalog. The caller may instead be preflight's probe,  *)
(* which builds the same connections, lists their tools and runs the same  *)
(* cleanup callbacks.                                                      *)
(***************************************************************************)
EXTENDS Naturals, Sequences

CONSTANTS
  Agents, Root,
  Subs,      \* the sub-agents each content of an agent delegates to, in order
  Servers,   \* its MCP servers, in order: "container" or "host"
  Pinned,    \* the sub-agents every reference to which is pinned by digest
  Versions,  \* what a sub-agent's catalog file may contain; 1 is the pinned one
  Clients    \* who calls: "driver" or "probe"

ASSUME DriverAssumption ==
  /\ Root \in Agents /\ Pinned \subseteq Agents
  /\ Subs \in [Agents -> [Versions -> Seq(Agents)]]
  /\ Servers \in [Agents -> Seq({"container", "host"})]
  /\ Versions \subseteq Nat \ {0} /\ 1 \in Versions
  /\ Clients \subseteq {"driver", "probe"}

VARIABLES
  client,     \* the driver or the probe
  pc,         \* where the caller's thread is
  todo,       \* agents still to compile, the next one first, with their ancestors
  disk,       \* the content of each agent's file
  graph,      \* every <<agent, content>> that was compiled
  compiled,   \* the content compiled last of each agent (_compiled_manifests)
  checked,    \* the content the last revalidation read of an agent, 0 if it read none (history)
  conn,       \* the connections, in order of registration
  callback,   \* the connection whose cleanup callback runs
  owner,      \* the task that owns the sessions
  cancelled,  \* its cancellation was requested
  queue,      \* what was put in its queue
  future,     \* the answer to the request to open
  backend,    \* the connections of the checkpointer and the store
  setupLock,  \* the file lock for the SQLite schema
  failed      \* close has a failure to report

build == <<client, todo, graph, compiled, checked>>
session == <<owner, cancelled, queue, future>>
sqlite == <<backend, setupLock>>
vars == <<pc, disk, build, conn, callback, session, sqlite, failed>>

Connections == [kind: {"container", "host"},
                session: {"none", "entering", "open", "ended"},
                tool: {"none", "requested", "running", "gone"},
                cleanup: {"pending", "done", "failed"},
                late: BOOLEAN]  \* it appeared after its cleanup was done (history)

TypeOK ==
  /\ pc \in {"verify", "backend", "lock", "setup", "compile", "opening", "ready", "invoking",
             "probing", "stopping", "closing", "cleanup", "remove", "confirm", "closed"}
  /\ client \in Clients /\ todo \in Seq([agent: Agents, ancestry: SUBSET Agents])
  /\ disk \in [Agents -> Versions] /\ graph \subseteq Agents \X Versions
  /\ compiled \in [Agents -> Versions \cup {0}] /\ checked \in [Agents -> Versions \cup {0}]
  /\ conn \in Seq(Connections) /\ callback \in 0..Len(conn)
  /\ owner \in {"absent", "idle", "serving", "unwinding", "done"} /\ cancelled \in BOOLEAN
  /\ queue \in Seq({"open", "stop"})
  /\ future \in {"none", "pending", "result", "error", "cancelled"}
  /\ backend \in [1..2 -> {"none", "connected", "owned", "closed", "abandoned"}]
  /\ setupLock \in {"free", "mine", "other"} /\ failed \in BOOLEAN

Init ==
  /\ client \in Clients /\ pc = IF client = "probe" THEN "compile" ELSE "verify"
  /\ todo = <<[agent |-> Root, ancestry |-> {}]>>
  /\ disk = [a \in Agents |-> 1] /\ graph = {}
  /\ compiled = [a \in Agents |-> 0] /\ checked = [a \in Agents |-> 0]
  /\ conn = <<>> /\ callback = 0
  /\ owner = "absent" /\ cancelled = FALSE /\ queue = <<>> /\ future = "none"
  /\ backend = [b \in 1..2 |-> "none"] /\ setupLock = "free" /\ failed = FALSE

Goto(to) == pc' = to

\* Registered callbacks run in reverse order.
BeginCleanup(cs) ==
  /\ callback' = Len(cs)
  /\ Goto(IF cs = <<>> THEN "closed" ELSE "cleanup")

\* close: the owner task is told to end. The probe has no owner task.
Close(cs) ==
  IF owner = "absent"
  THEN BeginCleanup(cs) /\ UNCHANGED queue
  ELSE /\ Goto("stopping")
       /\ queue' = IF owner = "done" THEN queue ELSE Append(queue, "stop")
       /\ UNCHANGED callback

-----------------------------------------------------------------------------
(* Construction *)

\* _verify_root and the other checks that precede the event loop; ephemeral
\* agents keep their state in memory.
VerifyRoot ==
  /\ pc = "verify"
  /\ \/ /\ owner' = "idle" /\ \E to \in {"backend", "compile"} : Goto(to)
        /\ UNCHANGED <<queue, callback>>
     \/ Close(conn) /\ UNCHANGED owner
  /\ UNCHANGED <<disk, build, conn, cancelled, future, sqlite, failed>>

Building == CHOOSE b \in 1..3 : (b = 3 \/ backend[b] # "owned") /\ \A c \in 1..(b - 1) : backend[c] = "owned"

ConnectBackend ==
  /\ pc = "backend"
  /\ IF Building = 3
     THEN Goto("compile") /\ UNCHANGED backend
     ELSE Goto("lock") /\ backend' = [backend EXCEPT ![Building] = "connected"]
  /\ UNCHANGED <<disk, build, conn, callback, session, setupLock, failed>>

LockSetup ==
  /\ pc = "lock" /\ setupLock = "free"
  /\ setupLock' = "mine" /\ Goto("setup")
  /\ UNCHANGED <<disk, build, conn, callback, session, backend, failed>>

SetUp ==
  /\ pc = "setup"
  /\ setupLock' = "free" /\ backend' = [backend EXCEPT ![Building] = "owned"]
  /\ Goto("backend")
  /\ UNCHANGED <<disk, build, conn, callback, session, failed>>

SetupFailsLocked ==  \* mutant: the lock is released on success only
  /\ pc \in {"lock", "setup"}
  /\ backend' = [backend EXCEPT ![Building] = "closed"]
  /\ Close(conn)
  /\ UNCHANGED <<disk, build, conn, owner, cancelled, future, setupLock, failed>>

\* The lock is not had within 30 s, or the schema cannot be set up: what was
\* opened for this back-end is closed, and the driver with it. When that close
\* fails too, the connection is abandoned: the driver never owned it.
SetupFails ==
  /\ pc \in {"lock", "setup"}
  /\ \E left \in {"closed", "abandoned"} : backend' = [backend EXCEPT ![Building] = left]
  /\ setupLock' = IF pc = "setup" THEN "free" ELSE setupLock
  /\ Close(conn)
  /\ UNCHANGED <<disk, build, conn, owner, cancelled, future, failed>>

\* Drivers of other processes set up the same databases; only a driver that
\* waits for the lock sees it.
OtherSetup ==
  /\ pc = "lock"
  /\ \/ setupLock = "free" /\ setupLock' = "other"
     \/ setupLock = "other" /\ setupLock' = "free"
  /\ UNCHANGED <<pc, disk, build, conn, callback, session, backend, failed>>

Fresh(kind) == [kind |-> kind, session |-> "none", tool |-> "none", cleanup |-> "pending",
                late |-> FALSE]

\* The first n connections of an agent, each with its callback.
Register(a, n) == conn \o [i \in 1..n |-> Fresh(Servers[a][i])]

\* _child_manifest: a pinned sub-agent must be what its pin says.
ChildAccepted(a) == a \in Pinned \ {Root} => disk[a] = 1

References(a) == Subs[a][disk[a]]

\* _compile: an agent is read, its servers are registered, and the sub-agents
\* it refers to come next. The session of each server is asked for in one request.
CompileAgent ==
  /\ pc = "compile" /\ todo # <<>>
  /\ LET a == Head(todo).agent
         ancestry == Head(todo).ancestry \cup {a}
     IN  /\ a \notin Head(todo).ancestry
         /\ ChildAccepted(a)
         /\ todo' = [i \in DOMAIN References(a) |->
                      [agent |-> References(a)[i], ancestry |-> ancestry]]
                    \o Tail(todo)
         /\ graph' = graph \cup {<<a, disk[a]>>}
         /\ compiled' = [compiled EXCEPT ![a] = disk[a]]
         /\ conn' = Register(a, Len(Servers[a]))
         /\ IF client = "probe"
            THEN Goto("probing") /\ UNCHANGED session
            ELSE IF Servers[a] = <<>>
            THEN UNCHANGED <<pc, session>>
            ELSE /\ owner # "done"
                 /\ queue' = Append(queue, "open") /\ future' = "pending"
                 /\ Goto("opening") /\ UNCHANGED <<owner, cancelled>>
  /\ UNCHANGED <<client, disk, checked, callback, sqlite, failed>>

\* A cycle, a changed pin, a refused capability, an image that cannot be
\* inspected after some servers of the agent were registered, a session
\* owner that has closed.
CompileFails ==
  /\ pc = "compile" /\ todo # <<>>
  /\ \E n \in 0..Len(Servers[Head(todo).agent]) :
       /\ conn' = Register(Head(todo).agent, n)
       /\ Close(conn')
  /\ UNCHANGED <<disk, build, owner, cancelled, future, sqlite, failed>>

Compiled ==
  /\ pc = "compile" /\ todo = <<>>
  /\ Goto("ready")
  /\ UNCHANGED <<disk, build, conn, callback, session, sqlite, failed>>

-----------------------------------------------------------------------------
(* The caller's side of a session *)

OpenReturns ==
  /\ pc = "opening" /\ future \in {"result", "error"}
  /\ IF future = "result" THEN Goto("compile") /\ UNCHANGED <<queue, callback>>
                          ELSE Close(conn)
  /\ UNCHANGED <<disk, build, conn, owner, cancelled, future, sqlite, failed>>

\* wait_for gives up after 60 s and cancels the future.
OpenTimesOut ==
  /\ pc = "opening" /\ future = "pending"
  /\ future' = "cancelled"
  /\ Close(conn)
  /\ UNCHANGED <<disk, build, conn, owner, cancelled, sqlite, failed>>

\* KeyboardInterrupt leaves the loop with its tasks pending.
Interrupt ==
  /\ pc \in {"opening", "invoking"}
  /\ Close(conn)
  /\ UNCHANGED <<disk, build, conn, owner, cancelled, future, sqlite, failed>>

ReachedDirectly ==  \* mutant: the references of sub-agents are not followed
  {Root} \cup {References(Root)[i] : i \in DOMAIN References(Root)}

\* The agents visit comes to: the root, and what the manifests it reads now
\* refer to.
Reached ==
  {a \in Agents : \A S \in SUBSET Agents :
     Root \in S /\ (\A b \in S : \A i \in DOMAIN References(b) : References(b)[i] \in S) => a \in S}

RevalidateRootOnly == pc = "ready"  \* mutant: sub-agents are not read again

\* _revalidate_execution: each sub-agent that is reached is what was compiled
\* last of it. One that was compiled and is referred to no more is not read.
Revalidate ==
  /\ pc = "ready"
  /\ \A a \in Reached \ {Root} : ChildAccepted(a) /\ compiled[a] = disk[a]

Execute ==
  /\ Revalidate
  /\ checked' = [a \in Agents |-> IF a \in Reached THEN disk[a] ELSE 0]
  /\ Goto("invoking")
  /\ UNCHANGED <<disk, client, todo, graph, compiled, conn, callback, session, sqlite, failed>>

\* The graph answers, fails or exceeds its deadline; a failed revalidation
\* closes the driver at once, an idle driver is closed by its user.
EndExecution ==
  /\ pc \in {"ready", "invoking"}
  /\ Close(conn)
  /\ UNCHANGED <<disk, build, conn, owner, cancelled, future, sqlite, failed>>

-----------------------------------------------------------------------------
(* The owner task, which runs only while the caller runs the loop *)

LoopRuns == pc \in {"opening", "invoking", "stopping"}

\* What may be left of a tool when its client ends: a container may ignore
\* the end of its client, and a creation in flight may still happen.
Remains(c) ==
  CASE c.kind = "container" /\ c.tool = "running" -> {"running", "gone"}
    [] c.kind = "container" /\ c.tool = "requested" -> {"requested", "gone"}
    [] OTHER -> {"gone"}

\* The sessions in S end.
EndSessions(S) ==
  \E left \in [S -> {"requested", "running", "gone"}] :
    /\ \A i \in S : left[i] \in Remains(conn[i])
    /\ conn' = [i \in DOMAIN conn |->
                  IF i \in S THEN [conn[i] EXCEPT !.session = "ended", !.tool = left[i]]
                             ELSE conn[i]]

InSession(state) == {i \in DOMAIN conn : conn[i].session = state}

TakeItem ==
  /\ LoopRuns /\ owner = "idle" /\ queue # <<>>
  /\ owner' = IF Head(queue) = "open" THEN "serving" ELSE "unwinding"
  /\ queue' = Tail(queue)
  /\ UNCHANGED <<pc, disk, build, conn, callback, cancelled, future, sqlite, failed>>

\* A host process runs at once; docker run asks the daemon for a container.
Spawn(kind) == IF kind = "host" THEN "running" ELSE "requested"

\* The client of the next server is spawned.
EnterSession ==
  /\ LoopRuns /\ owner = "serving" /\ InSession("entering") = {}
  /\ \E i \in InSession("none") :
       /\ \A j \in InSession("none") : i <= j
       /\ conn' = [conn EXCEPT ![i].session = "entering",
                                 ![i].tool = Spawn(conn[i].kind)]
  /\ UNCHANGED <<pc, disk, build, callback, session, sqlite, failed>>

SessionReady ==
  /\ LoopRuns /\ owner = "serving"
  /\ \E i \in InSession("entering") :
       /\ conn[i].tool = "running"
       /\ conn' = [conn EXCEPT ![i].session = "open"]
  /\ UNCHANGED <<pc, disk, build, callback, session, sqlite, failed>>

\* A future that was cancelled meanwhile keeps its state.
Answer(result) == future' = IF future = "pending" THEN result ELSE future

DeliverAndEnd ==  \* mutant: the sessions end with the request
  /\ LoopRuns /\ owner = "serving" /\ InSession("entering") \cup InSession("none") = {}
  /\ Answer("result") /\ EndSessions(InSession("open")) /\ owner' = "idle"
  /\ UNCHANGED <<pc, disk, build, callback, cancelled, queue, sqlite, failed>>

Deliver ==
  /\ LoopRuns /\ owner = "serving" /\ InSession("entering") \cup InSession("none") = {}
  /\ Answer("result") /\ owner' = "idle"
  /\ UNCHANGED <<pc, disk, build, conn, callback, cancelled, queue, sqlite, failed>>

\* A session cannot be entered, or required tools are missing from one: the
\* sessions entered before stay on the owner's stack.
LoadFails ==
  /\ LoopRuns /\ owner = "serving"
  /\ Answer("error") /\ EndSessions(InSession("entering")) /\ owner' = "idle"
  /\ UNCHANGED <<pc, disk, build, callback, cancelled, queue, sqlite, failed>>

\* The cancellation of close arrives, or that of a session's task group.
OwnerCancelled ==
  /\ LoopRuns /\ owner \in {"idle", "serving"}
  /\ cancelled \/ InSession("entering") \cup InSession("open") # {}
  /\ EndSessions(InSession("entering")) /\ owner' = "unwinding"
  /\ UNCHANGED <<pc, disk, build, callback, cancelled, queue, future, sqlite, failed>>

\* AsyncExitStack: the last session entered is closed first.
Unwind ==
  /\ LoopRuns /\ owner = "unwinding"
  /\ IF InSession("open") = {}
     THEN owner' = "done" /\ UNCHANGED conn
     ELSE /\ \E i \in InSession("open") :
               (\A j \in InSession("open") : j <= i) /\ EndSessions({i})
          /\ UNCHANGED owner
  /\ UNCHANGED <<pc, disk, build, callback, cancelled, queue, future, sqlite, failed>>

-----------------------------------------------------------------------------
(* close *)

GraceEndsShielded ==  \* mutant: the task is only waited for
  /\ pc = "stopping" /\ owner # "done" /\ ~cancelled
  /\ UNCHANGED vars

\* The owner has not ended within 5 s.
GraceEnds ==
  /\ pc = "stopping" /\ owner # "done" /\ ~cancelled
  /\ cancelled' = TRUE
  /\ UNCHANGED <<pc, disk, build, conn, callback, owner, queue, future, sqlite, failed>>

\* The owner has ended; an abandoned open is cancelled with the other tasks.
OwnerEnded ==
  /\ pc = "stopping" /\ owner = "done"
  /\ future' = IF future = "pending" THEN "cancelled" ELSE future
  /\ Goto("closing")
  /\ UNCHANGED <<disk, build, conn, callback, owner, cancelled, queue, sqlite, failed>>

\* The back-ends' connections are closed, the store's first, and the loop.
CloseBackends ==
  /\ pc = "closing"
  /\ \E bad \in SUBSET {b \in 1..2 : backend[b] = "owned"} :
       /\ backend' = [b \in 1..2 |->
            IF backend[b] = "owned" /\ b \notin bad THEN "closed" ELSE backend[b]]
       /\ failed' = (bad # {})
  /\ BeginCleanup(conn)
  /\ UNCHANGED <<disk, build, conn, session, setupLock>>

\* An interrupt ends the shutdown, not the callbacks; the loop is closed.
InterruptClose ==
  /\ pc \in {"stopping", "closing"}
  /\ failed' = TRUE
  /\ BeginCleanup(conn)
  /\ UNCHANGED <<disk, build, conn, session, sqlite>>

EndCallback(result) ==
  /\ conn' = [conn EXCEPT ![callback].cleanup = result]
  /\ callback' = callback - 1
  /\ Goto(IF callback = 1 \/ (result = "failed" /\ client = "probe") THEN "closed" ELSE "cleanup")
  /\ failed' = (failed \/ result = "failed")

\* proxy.stop for a host process; the inventory of a container's owner label.
RunCallback ==
  /\ pc = "cleanup"
  /\ IF conn[callback].kind = "container" /\ conn[callback].tool = "running"
     THEN Goto("remove") /\ UNCHANGED <<conn, callback, failed>>
     ELSE EndCallback("done")
  /\ UNCHANGED <<disk, build, session, sqlite>>

\* docker rm --force: its exit status is not looked at.
Remove ==
  /\ pc = "remove" /\ Goto("confirm")
  /\ \E left \in {conn[callback].tool, "gone"} : conn' = [conn EXCEPT ![callback].tool = left]
  /\ UNCHANGED <<disk, build, callback, session, sqlite, failed>>

ConfirmUnread ==  \* mutant: the second inventory is left out
  /\ pc = "confirm" /\ EndCallback("done")
  /\ UNCHANGED <<disk, build, session, sqlite>>

Confirm ==
  /\ pc = "confirm"
  /\ EndCallback(IF conn[callback].tool = "running" THEN "failed" ELSE "done")
  /\ UNCHANGED <<disk, build, session, sqlite>>

CallbackFailsLast ==  \* mutant: the first failure ends the cleanup
  /\ pc \in {"cleanup", "remove", "confirm"}
  /\ conn' = [conn EXCEPT ![callback].cleanup = "failed"]
  /\ Goto("closed") /\ failed' = TRUE
  /\ UNCHANGED <<disk, build, callback, session, sqlite>>

\* Docker fails or does not answer in 10 s, the proxy cannot be stopped, or
\* the caller is interrupted.
CallbackFails ==
  /\ pc \in {"cleanup", "remove", "confirm"}
  /\ EndCallback("failed")
  /\ UNCHANGED <<disk, build, session, sqlite>>

-----------------------------------------------------------------------------
(* preflight's probe: each server's tools are listed in a session of its    *)
(* own; an error or the deadline of 60 s ends the listing.                  *)

Probe ==
  /\ pc = "probing"
  /\ \E n \in 0..Len(conn) :
       \E left \in [1..n -> {"requested", "running", "gone"}] :
         conn' = [i \in DOMAIN conn |->
           IF i <= n THEN [conn[i] EXCEPT !.session = "ended",
                             !.tool = IF conn[i].kind = "host" THEN "gone" ELSE left[i]]
                     ELSE conn[i]]
  /\ BeginCleanup(conn)
  /\ UNCHANGED <<disk, build, session, sqlite, failed>>

-----------------------------------------------------------------------------
(* The daemon, the tools and the catalog *)

ContainerAppears ==
  /\ \E i \in DOMAIN conn :
       /\ conn[i].tool = "requested"
       /\ conn' = [conn EXCEPT ![i].tool = "running", ![i].late = (conn[i].cleanup = "done")]
  /\ UNCHANGED <<pc, disk, build, callback, session, sqlite, failed>>

ToolExits ==
  /\ \E i \in DOMAIN conn :
       /\ conn[i].tool = "running"
       /\ conn' = [conn EXCEPT ![i].tool = "gone"]
  /\ UNCHANGED <<pc, disk, build, callback, session, sqlite, failed>>

\* Nothing reads the files once the graph executes.
EditAgent ==
  /\ pc \in {"compile", "opening", "ready"}
  /\ \E a \in Agents \ {Root}, v \in Versions : v # disk[a] /\ disk' = [disk EXCEPT ![a] = v]
  /\ UNCHANGED <<pc, build, conn, callback, session, sqlite, failed>>

-----------------------------------------------------------------------------
Caller ==
  \/ VerifyRoot \/ ConnectBackend \/ LockSetup \/ SetUp \/ SetupFails
  \/ CompileAgent \/ CompileFails \/ Compiled
  \/ OpenReturns \/ OpenTimesOut \/ Execute \/ EndExecution
  \/ GraceEnds \/ OwnerEnded \/ CloseBackends
  \/ RunCallback \/ Remove \/ Confirm \/ CallbackFails \/ Probe

OwnerTask ==
  \/ TakeItem \/ EnterSession \/ SessionReady \/ Deliver \/ LoadFails \/ OwnerCancelled \/ Unwind

Environment ==
  \/ OtherSetup \/ Interrupt \/ InterruptClose \/ ContainerAppears \/ ToolExits \/ EditAgent

Next == Caller \/ OwnerTask \/ Environment

Spec == Init /\ [][Next]_vars

\* The caller's thread runs: the waits it makes are bounded by timers (30 s
\* for the lock, 60 s to open, at most 3600 s to execute, 5 s of grace, 10 s
\* a docker command). A cancellation is delivered and unwinding a session is
\* bounded by the MCP client; a server may leave the rest of a session
\* unanswered for ever.
FairSpec ==
  /\ Spec
  /\ WF_vars(Caller)
  /\ WF_vars(cancelled /\ OwnerCancelled) /\ WF_vars(Unwind)

-----------------------------------------------------------------------------
(* Properties *)

\* A close that reports nothing has left nothing: the owner and its sessions
\* have ended, the databases are closed and unlocked, and no container runs, however a
\* request timed out or a client was killed. A container may only have been
\* created by the daemon after its owner label was found unused, which
\* tool_execution.py:280 cannot see; a database is left open only when its own
\* builder failed and could not close it (deepagents_runner.py:347 and 364).
SilentCloseIsClean ==
  pc = "closed" /\ ~failed =>
    /\ owner \in {"absent", "done"} /\ setupLock # "mine"
    /\ \A b \in 1..2 : backend[b] \in {"none", "closed", "abandoned"}
    /\ \A i \in DOMAIN conn :
         /\ conn[i].session \in {"none", "ended"}
         /\ conn[i].tool = "running" => conn[i].late

\* Whatever fails or is interrupted, every cleanup callback a driver has
\* registered has run when it is closed (deepagents_runner.py:1095).
EveryCallbackRuns ==
  pc = "closed" /\ client = "driver" => \A i \in DOMAIN conn : conn[i].cleanup # "pending"

\* The same of a probe, as docs/OPERATIONS.md:54 says: "Normal completion,
\* errors and cancellation invoke every registered cleanup callback."
ProbeCallbacksRun ==
  pc = "closed" /\ client = "probe" => \A i \in DOMAIN conn : conn[i].cleanup # "pending"

\* While the graph runs, every tool compiled into it has its session, unless
\* the owner task itself has ended: a session outlives the request that
\* opened it (_MCPSessions).
SessionsOutliveRequests ==
  pc = "invoking" /\ owner \in {"idle", "serving"} =>
    \A i \in DOMAIN conn : conn[i].session = "open"

TwoContents(a) == \E v, w \in Versions : v # w /\ {<<a, v>>, <<a, w>>} \subseteq graph

\* When no agent was compiled in two contents, everything that executes is what
\* the revalidation read, however the delegations were edited meanwhile
\* (deepagents_runner.py:965). Otherwise it still holds of each agent the
\* revalidation came to, unless it is one of those compiled twice: only its
\* second content is remembered. An agent that was compiled once and that only
\* a forgotten content refers to is not read again, and executes as it was.
DriftRefused ==
  pc = "invoking" => \A a \in Agents \ {Root}, v \in Versions : <<a, v>> \in graph =>
    \/ v = checked[a]
    \/ TwoContents(a)
    \/ checked[a] = 0 /\ \E b \in Agents : TwoContents(b)

\* Whatever hangs, the driver is closed in the end: cyclic delegations are
\* refused, waits are bounded, and close does not wait for a session that
\* hangs (deepagents_runner.py:607).
Terminates == <>(pc = "closed")
=============================================================================
