----------------------------- MODULE RustBridge ------------------------------
(***************************************************************************)
(* apps/bridge/src/main.rs: the bridge users install.  It serves connect,  *)
(* reconnect and disconnect requests of the page, keeps one tunnel per     *)
(* application in the map tunnels and one snapshot in the map snapshots.   *)
(*                                                                         *)
(* Requests run on several threads.  Each map is behind its own lock, so a *)
(* step is one access to a map, or to the operating system's ports, and    *)
(* what the request found out just before on its own (the answer of an SSH *)
(* server, say, concerns nobody else and may be moved into the step after  *)
(* it).                                                                    *)
(*                                                                         *)
(* A request whose client is gone is dropped where it waits, with all it   *)
(* owns: that is what the HTTP server does with a handler when its         *)
(* connection closes.                                                      *)
(***************************************************************************)
CONSTANTS
    Apps,       \* applications
    Ports,      \* local TCP ports
    PortsOf,    \* the local ports the page may send with each application
    AutoStart,  \* applications with auto_start
    HttpApps,   \* applications whose protocol is http
    Reqs,       \* bound: requests in progress at once
    Tunnels,    \* bound: identities of tunnels
    Relays,     \* bound: forwarded connections at once
    None

ASSUME PortsOfAssumption == PortsOf \in [Apps -> SUBSET Ports]
ASSUME OptionsAssumption == AutoStart \subseteq Apps /\ HttpApps \subseteq Apps
ASSUME NoneAssumption == None \notin Apps \union Ports \union Tunnels

VARIABLES
    req,        \* the requests
    tun,        \* the tunnels and their accept loops
    tunnels,    \* the map of the same name
    relay,      \* the connections a tunnel has accepted
    snapshots   \* the map of the same name, the status only

bridgeVars == <<req, tun, tunnels, relay, snapshots>>

\* What a request does next.  "idle": it has been answered, or was not made;
\* "gone": its client went away.
Stages == {"idle", "gone", "stopping", "checking", "opening", "probing", "starting",
           "polling", "binding", "inserting", "health", "publishing", "failing",
           "dropping", "dropped"}

\* tunnel: the tunnel the request owns, between bind and insert.
Request == [at : Stages, app : Apps \union {None}, port : Ports \union {None},
            tunnel : Tunnels \union {None}]

\* "ending": told to stop, the port is not free yet.  "broken": accept failed
\* and the loop is over, but nobody was told.
Tunnel == [at : {"gone", "listening", "ending", "broken"},
           app : Apps \union {None}, port : Ports \union {None}]

Relay == [at : {"none", "opening", "relaying"}, via : Tunnels \union {None}]

Status == {"absent", "checking", "starting", "tunneling", "healthy", "error", "disconnected"}

NoReq(stage) == [at |-> stage, app |-> None, port |-> None, tunnel |-> None]
NoTunnel == [at |-> "gone", app |-> None, port |-> None]
NoRelay == [at |-> "none", via |-> None]

TypeOK ==
    /\ req \in [Reqs -> Request]
    /\ tun \in [Tunnels -> Tunnel]
    /\ tunnels \in [Apps -> Tunnels \union {None}]
    /\ relay \in [Relays -> Relay]
    /\ snapshots \in [Apps -> Status]

InProgress(q) == req[q].at \notin {"idle", "gone"}

Init ==
    /\ req = [q \in Reqs |-> NoReq("idle")]
    /\ tun = [t \in Tunnels |-> NoTunnel]
    /\ tunnels = [a \in Apps |-> None]
    /\ relay = [k \in Relays |-> NoRelay]
    /\ snapshots = [a \in Apps |-> "absent"]

-----------------------------------------------------------------------------
(* Pieces of the handlers. *)

Goto(q, stage) == req' = [req EXCEPT ![q].at = stage]
Return(q) == req' = [req EXCEPT ![q] = NoReq("idle")]
SetSnapshot(a, st) == snapshots' = [snapshots EXCEPT ![a] = st]

\* What becomes of a tunnel when its Tunnel value is dropped: the accept loop
\* is told to stop, if it has not ended already.
Dropped(t) == IF tun[t].at = "listening" THEN [tun[t] EXCEPT !.at = "ending"] ELSE NoTunnel

\* Mutant: the entry stays in the map.
StopTunnelKept(a) ==
    /\ tun' = [t \in Tunnels |-> IF t = tunnels[a] THEN Dropped(t) ELSE tun[t]]
    /\ UNCHANGED tunnels

StopTunnel(a) ==
    /\ tun' = [t \in Tunnels |-> IF t = tunnels[a] THEN Dropped(t) ELSE tun[t]]
    /\ tunnels' = [tunnels EXCEPT ![a] = None]

-----------------------------------------------------------------------------
(* connect, reconnect and disconnect. *)

Call(q, a, p, stage) ==
    /\ ~InProgress(q)
    /\ req' = [req EXCEPT ![q] = [at |-> stage, app |-> a, port |-> p, tunnel |-> None]]
    /\ UNCHANGED <<tun, tunnels, relay, snapshots>>

Connect(q, a, p) == p \in PortsOf[a] /\ Call(q, a, p, "checking")
Reconnect(q, a, p) == p \in PortsOf[a] /\ Call(q, a, p, "stopping")
Disconnect(q, a) == Call(q, a, None, "dropping")

\* reconnect stops the tunnel the application has, then goes on as connect.
StopFirst(q) ==
    /\ req[q].at = "stopping"
    /\ StopTunnel(req[q].app)
    /\ Goto(q, "checking")
    /\ UNCHANGED <<relay, snapshots>>

Check(q) ==
    /\ req[q].at = "checking"
    /\ SetSnapshot(req[q].app, "checking")
    /\ Goto(q, "opening")
    /\ UNCHANGED <<tun, tunnels, relay>>

\* open_session: connected, key accepted, authenticated.
SshUp(q) ==
    /\ req[q].at = "opening"
    /\ Goto(q, "probing")
    /\ UNCHANGED <<tun, tunnels, relay, snapshots>>

RemoteOpen(q) ==
    /\ req[q].at \in {"probing", "polling"}
    /\ SetSnapshot(req[q].app, "tunneling")
    /\ Goto(q, "binding")
    /\ UNCHANGED <<tun, tunnels, relay>>

RemoteClosed(q) ==
    /\ req[q].at = "probing"
    /\ req[q].app \in AutoStart
    /\ SetSnapshot(req[q].app, "starting")
    /\ Goto(q, "starting")
    /\ UNCHANGED <<tun, tunnels, relay>>

Started(q) ==
    /\ req[q].at = "starting"
    /\ Goto(q, "polling")
    /\ UNCHANGED <<tun, tunnels, relay, snapshots>>

\* Every failure but that of bind sets the snapshot and returns.
Fail(q) ==
    /\ \/ req[q].at \in {"opening", "starting", "polling", "failing"}
       \/ req[q].at = "probing" /\ req[q].app \notin AutoStart
    /\ SetSnapshot(req[q].app, "error")
    /\ Return(q)
    /\ UNCHANGED <<tun, tunnels, relay>>

\* start_tunnel: the port is free of other tunnels and the accept loop starts.
Bind(q, t) ==
    /\ req[q].at = "binding"
    /\ tun[t] = NoTunnel
    /\ \A k \in Relays : relay[k].via # t
    /\ \A u \in Tunnels :
           tun[u].port = req[q].port => tun[u].at \notin {"listening", "ending"}
    /\ tun' = [tun EXCEPT ![t] =
                  [at |-> "listening", app |-> req[q].app, port |-> req[q].port]]
    /\ req' = [req EXCEPT ![q].at = "inserting", ![q].tunnel = t]
    /\ UNCHANGED <<tunnels, relay, snapshots>>

\* Mutant: bind publishes a status the bridge does not have.
BindFailedConflict(q) ==
    /\ req[q].at = "binding"
    /\ SetSnapshot(req[q].app, "conflict")
    /\ Return(q)
    /\ UNCHANGED <<tun, tunnels, relay>>

\* The port is taken, by a tunnel or another program: connect_inner returns
\* by "?", which sets no snapshot.
BindFailed(q) ==
    /\ req[q].at = "binding"
    /\ Return(q)
    /\ UNCHANGED <<tun, tunnels, relay, snapshots>>

\* Mutant: the tunnel found in the map is not stopped.
InsertKeepsOld(q) ==
    LET a == req[q].app IN
    /\ req[q].at = "inserting"
    /\ tunnels' = [tunnels EXCEPT ![a] = req[q].tunnel]
    /\ req' = [req EXCEPT ![q].at = IF a \in HttpApps THEN "health" ELSE "publishing",
                          ![q].tunnel = None]
    /\ UNCHANGED <<tun, relay, snapshots>>

\* The tunnel enters the map; the one it replaces is dropped, and so stops.
Insert(q) ==
    LET a == req[q].app IN
    /\ req[q].at = "inserting"
    /\ tun' = [t \in Tunnels |-> IF t = tunnels[a] THEN Dropped(t) ELSE tun[t]]
    /\ tunnels' = [tunnels EXCEPT ![a] = req[q].tunnel]
    /\ req' = [req EXCEPT ![q].at = IF a \in HttpApps THEN "health" ELSE "publishing",
                          ![q].tunnel = None]
    /\ UNCHANGED <<relay, snapshots>>

\* check_local_health had an answer on its port, perhaps one that was on its
\* way when the tunnel stopped.
HealthOk(q) ==
    /\ req[q].at = "health"
    /\ Goto(q, "publishing")
    /\ UNCHANGED <<tun, tunnels, relay, snapshots>>

\* It had none: the tunnel of the application, whichever it is by now, stops.
HealthFailed(q) ==
    /\ req[q].at = "health"
    /\ StopTunnel(req[q].app)
    /\ Goto(q, "failing")
    /\ UNCHANGED <<relay, snapshots>>

Healthy(q) ==
    /\ req[q].at = "publishing"
    /\ SetSnapshot(req[q].app, "healthy")
    /\ Return(q)
    /\ UNCHANGED <<tun, tunnels, relay>>

DropTunnel(q) ==
    /\ req[q].at = "dropping"
    /\ StopTunnel(req[q].app)
    /\ Goto(q, "dropped")
    /\ UNCHANGED <<relay, snapshots>>

Disconnected(q) ==
    /\ req[q].at = "dropped"
    /\ SetSnapshot(req[q].app, "disconnected")
    /\ Return(q)
    /\ UNCHANGED <<tun, tunnels, relay>>

\* Mutant: the tunnel of a dropped request is forgotten.
ClientGoneLeaks(q) ==
    /\ InProgress(q)
    /\ req' = [req EXCEPT ![q] = NoReq("gone")]
    /\ UNCHANGED <<tun, tunnels, relay, snapshots>>

\* The client closes its connection: the handler is dropped where it waits,
\* and with it a tunnel it has not inserted.
ClientGone(q) ==
    /\ InProgress(q)
    /\ tun' = [t \in Tunnels |-> IF t = req[q].tunnel THEN Dropped(t) ELSE tun[t]]
    /\ req' = [req EXCEPT ![q] = NoReq("gone")]
    /\ UNCHANGED <<tunnels, relay, snapshots>>

-----------------------------------------------------------------------------
(* Tunnels and the connections they accept. *)

\* The accept loop that was told to stop ends and frees the port.
LoopEnds(t) ==
    /\ tun[t].at = "ending"
    /\ tun' = [tun EXCEPT ![t] = NoTunnel]
    /\ UNCHANGED <<req, tunnels, relay, snapshots>>

\* accept fails: the loop ends, its Tunnel value stays where it is.
AcceptFails(t) ==
    /\ tun[t].at = "listening"
    /\ tun' = [tun EXCEPT ![t].at = "broken"]
    /\ UNCHANGED <<req, tunnels, relay, snapshots>>

\* Each connection gets a task of its own, which nobody stops.
Accept(t, k) ==
    /\ tun[t].at = "listening"
    /\ relay[k] = NoRelay
    /\ relay' = [relay EXCEPT ![k] = [at |-> "opening", via |-> t]]
    /\ UNCHANGED <<req, tun, tunnels, snapshots>>

ChannelOpen(k) ==
    /\ relay[k].at = "opening"
    /\ relay' = [relay EXCEPT ![k].at = "relaying"]
    /\ UNCHANGED <<req, tun, tunnels, snapshots>>

\* The channel is refused, or either end closes or fails.
RelayEnds(k) ==
    /\ relay[k].at # "none"
    /\ relay' = [relay EXCEPT ![k] = NoRelay]
    /\ UNCHANGED <<req, tun, tunnels, snapshots>>

-----------------------------------------------------------------------------

\* One step of a request, once it has been made.
RequestStep(q) ==
    \/ StopFirst(q) \/ Check(q)
    \/ SshUp(q)
    \/ RemoteOpen(q) \/ RemoteClosed(q)
    \/ Started(q)
    \/ \E t \in Tunnels : Bind(q, t)
    \/ BindFailed(q)
    \/ Insert(q)
    \/ HealthOk(q) \/ HealthFailed(q)
    \/ Healthy(q)
    \/ Fail(q)
    \/ DropTunnel(q) \/ Disconnected(q)

Next ==
    \/ \E q \in Reqs :
           \/ \E a \in Apps :
                  \/ \E p \in Ports : Connect(q, a, p) \/ Reconnect(q, a, p)
                  \/ Disconnect(q, a)
           \/ RequestStep(q)
           \/ ClientGone(q)
    \/ \E t \in Tunnels : LoopEnds(t) \/ AcceptFails(t)
    \/ \E t \in Tunnels, k \in Relays : Accept(t, k)
    \/ \E k \in Relays : ChannelOpen(k) \/ RelayEnds(k)

Spec == Init /\ [][Next]_bridgeVars

-----------------------------------------------------------------------------
(* Correctness. *)

\* The owner of a tunnel that was not told to stop is its application's entry in
\* the map or the request that is about to insert it.
OneOwner(t) ==
    /\ tun[t].at \in {"listening", "broken"} =>
           \/ tunnels[tun[t].app] = t
           \/ \E q \in Reqs : req[q].tunnel = t
    /\ \A a \in Apps : tunnels[a] = t =>
           tun[t].at \in {"listening", "broken"} /\ tun[t].app = a
    /\ \A q \in Reqs : req[q].tunnel = t =>
           /\ tun[t].at \in {"listening", "broken"}
           /\ tun[t].app = req[q].app
           /\ req[q].at = "inserting"
           /\ tunnels[req[q].app] # t
           /\ \A r \in Reqs : req[r].tunnel = t => r = q

(* Every listener has exactly one owner: whatever requests overlap, fail or are
   dropped, none is left that no later request can stop, and none is stopped
   behind the back of the map. *)
TunnelHasOneOwner == \A t \in Tunnels : OneOwner(t)

(* "On success enter healthy; the API returns the URL that can be opened"
   (design section 9.3, line 245): once all requests have been answered, an
   application that is shown as healthy has a tunnel. *)
HealthyCanBeOpened ==
    (\A q \in Reqs : req[q].at = "idle") =>
        \A a \in Apps : snapshots[a] = "healthy" => tunnels[a] # None
=============================================================================
