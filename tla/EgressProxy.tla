---------------------------- MODULE EgressProxy -----------------------------
(***************************************************************************)
(* The loopback HTTP proxy of one development tool                         *)
(* (infrastructure/egress_proxy.py): an accept loop that hands connections *)
(* to at most Slots daemon threads, a timer per connection that shuts its  *)
(* sockets, and stop, which shuts every socket it knows of and does not    *)
(* wait for the threads. The requests' contents are abstracted: a request  *)
(* is refused, forwarded or tunnelled. Peers may be slow for ever as long  *)
(* as they send something every 10 s, so no exchange with an open socket   *)
(* need end. The formulas of its behaviour are named Proxy..., to stand    *)
(* beside those of TokenLedger in Limits_proofs.                           *)
(***************************************************************************)
EXTENDS Naturals, FiniteSets

CONSTANTS
  Requests,  \* the connections clients make
  Slots      \* how many are served at once

ASSUME ProxyAssumption == Slots \in Nat \ {0}

VARIABLES
  server,    \* how far stop has come
  slots,     \* free slots of the semaphore
  pc,        \* where each connection is
  client,    \* its socket to the client
  upstream,  \* its socket to the origin, once the handler has noted it
  active,    \* the sockets close_connections knows
  timer,     \* the timer of each connection
  unseen,    \* the timer had fired when the origin's socket was noted (history)
  missed     \* the sockets of connections being served that stop did not know (history)

handler == <<client, upstream, active, timer, unseen>>
proxyVars == <<server, slots, pc, handler, missed>>

Serving == {"starting", "reading", "sending", "receiving", "dialing", "relaying", "ending"}

Sockets == Requests \X {"client", "upstream"}

ProxyTypeOK ==
  /\ server \in {"running", "shutdown", "disconnected", "stopped"}
  /\ slots \in 0..Slots
  /\ pc \in [Requests -> Serving \cup {"new", "refused", "done"}]
  /\ client \in [Requests -> {"open", "shut"}]
  /\ upstream \in [Requests -> {"none", "open", "shut"}]
  /\ active \subseteq Sockets
  /\ timer \in [Requests -> {"off", "armed", "fired"}]
  /\ unseen \subseteq Requests /\ missed \subseteq Sockets

ProxyInit ==
  /\ server = "running" /\ slots = Slots
  /\ pc = [r \in Requests |-> "new"]
  /\ client = [r \in Requests |-> "open"] /\ upstream = [r \in Requests |-> "none"]
  /\ active = {} /\ timer = [r \in Requests |-> "off"]
  /\ unseen = {} /\ missed = {}

Goto(r, from, to) == pc[r] = from /\ pc' = [pc EXCEPT ![r] = to]

-----------------------------------------------------------------------------
(* The accept loop *)

Accept(r) ==
  /\ server = "running" /\ slots > 0
  /\ Goto(r, "new", "starting") /\ slots' = slots - 1
  /\ UNCHANGED <<server, handler, missed>>

Refuse(r) ==
  /\ server = "running" /\ slots = 0
  /\ Goto(r, "new", "refused")
  /\ UNCHANGED <<server, slots, handler, missed>>

StartFailsUnreleased(r) ==  \* mutant
  /\ Goto(r, "starting", "refused")
  /\ UNCHANGED <<server, slots, handler, missed>>

\* No thread can be started for an accepted connection.
StartFails(r) ==
  /\ Goto(r, "starting", "refused") /\ slots' = slots + 1
  /\ UNCHANGED <<server, handler, missed>>

-----------------------------------------------------------------------------
(* A connection's thread *)

BeginUntimed(r) ==  \* mutant: the timer is not started
  /\ Goto(r, "starting", "reading")
  /\ active' = active \cup {<<r, "client">>}
  /\ UNCHANGED <<server, slots, client, upstream, timer, unseen, missed>>

Begin(r) ==
  /\ Goto(r, "starting", "reading")
  /\ timer' = [timer EXCEPT ![r] = "armed"]
  /\ active' = active \cup {<<r, "client">>}
  /\ UNCHANGED <<server, slots, client, upstream, unseen, missed>>

\* The request line, the headers and the body are read; a malformed, too
\* large or forbidden request, or the end of what the client sent, ends the
\* connection. What was received before the socket was shut stays readable.
ReadRequest(r) ==
  /\ \E to \in {"ending", "sending", "dialing"} : Goto(r, "reading", to)
  /\ UNCHANGED <<server, slots, handler, missed>>

Note(r) ==
  /\ upstream' = [upstream EXCEPT ![r] = "open"]
  /\ active' = active \cup {<<r, "upstream">>}

Dial(r) ==
  /\ \/ Goto(r, "dialing", "ending") /\ UNCHANGED <<upstream, active>>
     \/ Goto(r, "dialing", "relaying") /\ Note(r)
  /\ UNCHANGED <<server, slots, client, timer, unseen, missed>>

\* The origin is connected to and sent the request before its socket is noted:
\* nobody looks whether the timer has fired meanwhile.
SendRequest(r) ==
  /\ \/ Goto(r, "sending", "ending") /\ UNCHANGED <<upstream, active, unseen>>
     \/ /\ Goto(r, "sending", "receiving") /\ Note(r)
        /\ unseen' = IF timer[r] = "fired" THEN unseen \cup {r} ELSE unseen
  /\ UNCHANGED <<server, slots, client, timer, missed>>

\* The exchange ends and the upstream socket is forgotten.
Leave(r, from) ==
  /\ Goto(r, from, "ending")
  /\ active' = active \ {<<r, "upstream">>} /\ upstream' = [upstream EXCEPT ![r] = "none"]
  /\ UNCHANGED <<server, slots, client, timer, unseen, missed>>

Receive(r) == Leave(r, "receiving")

Relay(r) == Leave(r, "relaying")

\* handle's finally, and the release of the slot.
End(r) ==
  /\ Goto(r, "ending", "done")
  /\ timer' = [timer EXCEPT ![r] = "off"]
  /\ active' = active \ {<<r, "client">>}
  /\ slots' = slots + 1
  /\ UNCHANGED <<server, client, upstream, unseen, missed>>

\* 60 s after its beginning, the connection's sockets are shut: the client's
\* and, if it has been noted, the origin's.
Expire(r) ==
  /\ timer[r] = "armed"
  /\ timer' = [timer EXCEPT ![r] = "fired"]
  /\ client' = [client EXCEPT ![r] = "shut"]
  /\ upstream' = [upstream EXCEPT ![r] = IF @ = "open" THEN "shut" ELSE @]
  /\ UNCHANGED <<server, slots, pc, active, unseen, missed>>

-----------------------------------------------------------------------------
(* stop *)

\* The accept loop has ended.
Shutdown ==
  /\ server = "running" /\ server' = "shutdown"
  /\ UNCHANGED <<slots, pc, handler, missed>>

\* What the sockets of one side are after those that are active were shut.
ShutActive(socket, side) ==
  [r \in Requests |-> IF <<r, side>> \in active THEN "shut" ELSE socket[r]]

Unknown == {s \in Sockets : pc[s[1]] \in Serving} \ active

CloseClientsOnly ==  \* mutant: the origins' sockets are left open
  /\ server = "shutdown" /\ server' = "disconnected"
  /\ client' = ShutActive(client, "client") /\ missed' = Unknown
  /\ UNCHANGED <<slots, pc, upstream, active, timer, unseen>>

CloseConnections ==
  /\ server = "shutdown" /\ server' = "disconnected"
  /\ client' = ShutActive(client, "client")
  /\ upstream' = ShutActive(upstream, "upstream")
  /\ missed' = Unknown
  /\ UNCHANGED <<slots, pc, active, timer, unseen>>

\* The listening socket is closed; connections nobody accepted are reset.
CloseServer ==
  /\ server = "disconnected" /\ server' = "stopped"
  /\ pc' = [r \in Requests |-> IF pc[r] = "new" THEN "refused" ELSE pc[r]]
  /\ UNCHANGED <<slots, handler, missed>>

-----------------------------------------------------------------------------
Handle(r) ==
  Begin(r) \/ ReadRequest(r) \/ Dial(r) \/ SendRequest(r) \/ Receive(r) \/ Relay(r) \/ End(r)

ProxyNext ==
  \/ \E r \in Requests : Accept(r) \/ Refuse(r) \/ StartFails(r) \/ Handle(r) \/ Expire(r)
  \/ Shutdown \/ CloseConnections \/ CloseServer

ProxySpec == ProxyInit /\ [][ProxyNext]_proxyVars

\* Threads run and timers fire. Connecting and sending have timeouts, a tunnel
\* has a deadline of its own, and a socket that is shut answers at once; a
\* peer whose socket is open may go on for ever.
ProxyFairSpec ==
  /\ ProxySpec
  /\ \A r \in Requests :
       /\ WF_proxyVars(Begin(r)) /\ WF_proxyVars(client[r] = "shut" /\ ReadRequest(r))
       /\ WF_proxyVars(Dial(r)) /\ WF_proxyVars(SendRequest(r)) /\ WF_proxyVars(Relay(r))
       /\ WF_proxyVars(upstream[r] = "shut" /\ Receive(r))
       /\ WF_proxyVars(End(r)) /\ WF_proxyVars(Expire(r))

-----------------------------------------------------------------------------
(* Properties *)

\* No path of a connection keeps its slot or gives it back twice, so the
\* proxy never starves (egress_proxy.py:301-315).
SlotsConserved == slots + Cardinality({r \in Requests : pc[r] \in Serving}) = Slots

\* After stop, a socket of a connection that is still served is open only if
\* its thread had not made it known when the others were shut: the accept
\* loop has ended before, and adds none (egress_proxy.py:344-355).
StopShutsWhatItKnows ==
  server \in {"disconnected", "stopped"} => \A r \in Requests : pc[r] \in Serving =>
    /\ client[r] = "open" => <<r, "client">> \in missed
    /\ upstream[r] = "open" => <<r, "upstream">> \in missed

\* Every accepted connection ends and frees its slot, however slow its peers
\* and though stop waits for nobody, unless the timer fired while the handler
\* was still reading or sending the request: the origin's socket is noted after
\* that, and nothing shuts it any more (egress_proxy.py:51, 216-221 and 246).
ConnectionsEnd ==
  \A r \in Requests : pc[r] = "starting" ~> (pc[r] \notin Serving \/ r \in unseen)
=============================================================================
