-------------------------- MODULE RustBridgeProofs ---------------------------
(***************************************************************************)
(* Proofs about RustBridge, for any number of applications, ports,         *)
(* requests, tunnels and forwarded connections.                            *)
(***************************************************************************)
EXTENDS RustBridge, TLAPS

USE PortsOfAssumption, OptionsAssumption, NoneAssumption

-----------------------------------------------------------------------------
(* The inductive invariant. *)

\* What a request or a running tunnel says of its application is about an
\* application of the model: the map has an entry to look at.
AppsAreKnown ==
    /\ \A q \in Reqs : InProgress(q) => req[q].app \in Apps
    /\ \A t \in Tunnels : tun[t].at \in {"listening", "broken"} => tun[t].app \in Apps

BridgeInv ==
    /\ TypeOK
    /\ AppsAreKnown
    /\ TunnelHasOneOwner

(* The pieces of the handlers keep the types. *)
LEMMA GotoType ==
    ASSUME TypeOK, NEW q \in Reqs, NEW stage \in Stages, Goto(q, stage)
    PROVE  req' \in [Reqs -> Request]
BY DEF TypeOK, Goto, Request

LEMMA EndType ==
    ASSUME TypeOK, NEW q \in Reqs, NEW stage \in {"idle", "gone"},
           req' = [req EXCEPT ![q] = NoReq(stage)]
    PROVE  req' \in [Reqs -> Request]
<1>1. NoReq(stage) \in Request
  BY DEF NoReq, Request, Stages
<1> QED
  BY <1>1 DEF TypeOK

LEMMA SnapshotType ==
    ASSUME TypeOK, NEW a \in Apps \union {None}, NEW st \in Status, SetSnapshot(a, st)
    PROVE  snapshots' \in [Apps -> Status]
BY DEF TypeOK, SetSnapshot

LEMMA DroppedType ==
    ASSUME TypeOK, NEW t \in Tunnels
    PROVE  Dropped(t) \in Tunnel
<1>1. tun[t] \in Tunnel
  BY DEF TypeOK
<1> QED
  BY <1>1 DEF Dropped, Tunnel, NoTunnel

LEMMA StopType ==
    ASSUME TypeOK, NEW a \in Apps \union {None}, StopTunnel(a)
    PROVE  tun' \in [Tunnels -> Tunnel] /\ tunnels' \in [Apps -> Tunnels \union {None}]
BY DroppedType DEF TypeOK, StopTunnel

(* A step keeps the types. *)
LEMMA TypeStep == TypeOK /\ [Next]_bridgeVars => TypeOK'
<1> SUFFICES ASSUME TypeOK, [Next]_bridgeVars PROVE TypeOK'
  OBVIOUS
<1>a. \A q \in Reqs : req[q].app \in Apps \union {None}
  BY DEF TypeOK, Request
<1>1. ASSUME NEW q \in Reqs, NEW a \in Apps, NEW p \in Ports \union {None},
             NEW stage \in Stages, Call(q, a, p, stage)
      PROVE  TypeOK'
  <2>1. [at |-> stage, app |-> a, port |-> p, tunnel |-> None] \in Request
    BY DEF Request
  <2>2. QED
    BY <1>1, <2>1 DEF Call, TypeOK
<1>2. ASSUME NEW q \in Reqs, SshUp(q) \/ Started(q) \/ HealthOk(q)
      PROVE  TypeOK'
  <2>1. req' \in [Reqs -> Request]
    BY <1>2, GotoType DEF SshUp, Started, HealthOk, Stages
  <2>2. QED
    BY <1>2, <2>1 DEF SshUp, Started, HealthOk, TypeOK
<1>3. ASSUME NEW q \in Reqs, Check(q) \/ RemoteOpen(q) \/ RemoteClosed(q)
      PROVE  TypeOK'
  <2>1. req' \in [Reqs -> Request]
    BY <1>3, GotoType DEF Check, RemoteOpen, RemoteClosed, Stages
  <2>2. snapshots' \in [Apps -> Status]
    BY <1>3, <1>a, SnapshotType DEF Check, RemoteOpen, RemoteClosed, Status
  <2>3. QED
    BY <1>3, <2>1, <2>2 DEF Check, RemoteOpen, RemoteClosed, TypeOK
<1>4. ASSUME NEW q \in Reqs, Healthy(q) \/ Fail(q) \/ Disconnected(q) \/ BindFailed(q)
      PROVE  TypeOK'
  <2>1. req' \in [Reqs -> Request]
    BY <1>4, EndType DEF Healthy, Fail, Disconnected, BindFailed, Return
  <2>2. snapshots' \in [Apps -> Status]
    BY <1>4, <1>a, SnapshotType
       DEF Healthy, Fail, Disconnected, BindFailed, Status, TypeOK
  <2>3. QED
    BY <1>4, <2>1, <2>2 DEF Healthy, Fail, Disconnected, BindFailed, TypeOK
<1>5. ASSUME NEW q \in Reqs, StopFirst(q) \/ HealthFailed(q) \/ DropTunnel(q)
      PROVE  TypeOK'
  <2>1. req' \in [Reqs -> Request]
    BY <1>5, GotoType DEF StopFirst, HealthFailed, DropTunnel, Stages
  <2>2. tun' \in [Tunnels -> Tunnel] /\ tunnels' \in [Apps -> Tunnels \union {None}]
    BY <1>5, <1>a, StopType DEF StopFirst, HealthFailed, DropTunnel
  <2>3. QED
    BY <1>5, <2>1, <2>2 DEF StopFirst, HealthFailed, DropTunnel, TypeOK
<1>6. ASSUME NEW q \in Reqs, NEW t \in Tunnels, Bind(q, t)
      PROVE  TypeOK'
  <2>1. req[q] \in Request
    BY DEF TypeOK
  <2>2. [req[q] EXCEPT !.at = "inserting", !.tunnel = t] \in Request
    BY <2>1 DEF Request, Stages
  <2>3. req' \in [Reqs -> Request]
    BY <1>6, <2>2 DEF Bind, TypeOK
  <2>4. [at |-> "listening", app |-> req[q].app, port |-> req[q].port] \in Tunnel
    BY <2>1 DEF Request, Tunnel
  <2>5. tun' \in [Tunnels -> Tunnel]
    BY <1>6, <2>4 DEF Bind, TypeOK
  <2>6. QED
    BY <1>6, <2>3, <2>5 DEF Bind, TypeOK
<1>7. ASSUME NEW q \in Reqs, Insert(q)
      PROVE  TypeOK'
  <2>1. req[q] \in Request
    BY DEF TypeOK
  <2>2. [req[q] EXCEPT !.at = IF req[q].app \in HttpApps THEN "health" ELSE "publishing",
                       !.tunnel = None] \in Request
    BY <2>1 DEF Request, Stages
  <2>3. req' \in [Reqs -> Request]
    BY <1>7, <2>2 DEF Insert, TypeOK
  <2>4. tun' \in [Tunnels -> Tunnel]
    BY <1>7, DroppedType DEF Insert, TypeOK
  <2>5. tunnels' \in [Apps -> Tunnels \union {None}]
    BY <1>7, <2>1 DEF Insert, TypeOK, Request
  <2>6. QED
    BY <1>7, <2>3, <2>4, <2>5 DEF Insert, TypeOK
<1>8. ASSUME NEW q \in Reqs, ClientGone(q)
      PROVE  TypeOK'
  <2>1. req' \in [Reqs -> Request]
    BY <1>8, EndType DEF ClientGone
  <2>2. tun' \in [Tunnels -> Tunnel]
    BY <1>8, DroppedType DEF ClientGone, TypeOK
  <2>3. QED
    BY <1>8, <2>1, <2>2 DEF ClientGone, TypeOK
<1>9. ASSUME NEW t \in Tunnels, LoopEnds(t) \/ AcceptFails(t)
      PROVE  TypeOK'
  BY <1>9 DEF LoopEnds, AcceptFails, TypeOK, Tunnel, NoTunnel
<1>10. ASSUME NEW t \in Tunnels, NEW k \in Relays, Accept(t, k)
      PROVE  TypeOK'
  BY <1>10 DEF Accept, TypeOK, Relay
<1>11. ASSUME NEW k \in Relays, ChannelOpen(k) \/ RelayEnds(k)
      PROVE  TypeOK'
  BY <1>11 DEF ChannelOpen, RelayEnds, TypeOK, Relay, NoRelay
<1>12. CASE UNCHANGED bridgeVars
  BY <1>12 DEF bridgeVars, TypeOK
<1>13. ASSUME NEW q \in Reqs, NEW a \in Apps, NEW p \in Ports, Connect(q, a, p) \/ Reconnect(q, a, p)
      PROVE  TypeOK'
  BY <1>1, <1>13 DEF Connect, Reconnect, Stages
<1>14. ASSUME NEW q \in Reqs, NEW a \in Apps, Disconnect(q, a)
      PROVE  TypeOK'
  BY <1>1, <1>14 DEF Disconnect, Stages
<1> QED
  BY <1>2, <1>3, <1>4, <1>5, <1>6, <1>7, <1>8, <1>9, <1>10, <1>11, <1>12, <1>13, <1>14
     DEF Next, RequestStep

(* The bridge's maps, requests and tunnels keep their types. *)
THEOREM BridgeTypeCorrect == Spec => []TypeOK
<1>1. Init => TypeOK
  BY DEF Init, TypeOK, Request, Tunnel, Relay, Stages, Status, NoReq, NoTunnel, NoRelay
<1> QED
  BY <1>1, TypeStep, PTL DEF Spec

-----------------------------------------------------------------------------
(* The invariant, action by action. *)

(* A step that neither touches the tunnels nor changes who is about to insert
   one. *)
LEMMA TunnelsUntouched ==
    ASSUME BridgeInv, TypeOK', UNCHANGED <<tun, tunnels>>,
           \A q \in Reqs :
               \/ req'[q] = req[q]
               \/ /\ req[q].at # "inserting"
                  /\ req'[q].at # "inserting"
                  /\ req'[q].tunnel = None
                  /\ InProgress(q)' => req'[q].app \in Apps
    PROVE  BridgeInv'
<1>1. \A q \in Reqs, t \in Tunnels : req'[q].tunnel = t <=> req[q].tunnel = t /\ req'[q] = req[q]
  BY DEF BridgeInv, TunnelHasOneOwner, OneOwner
<1>2. AppsAreKnown'
  BY DEF BridgeInv, AppsAreKnown, InProgress
<1>3. TunnelHasOneOwner'
  BY <1>1 DEF BridgeInv, TunnelHasOneOwner, OneOwner
<1> QED
  BY <1>2, <1>3 DEF BridgeInv

(* Stopping the tunnel in an application's entry takes it from its only owner. *)
LEMMA StopStep ==
    ASSUME BridgeInv, TypeOK', NEW q \in Reqs, NEW stage \in Stages,
           InProgress(q), req[q].at # "inserting",
           stage \notin {"idle", "gone", "inserting"},
           StopTunnel(req[q].app), Goto(q, stage)
    PROVE  BridgeInv'
<1> DEFINE a == req[q].app
<1>1. a \in Apps
  BY DEF BridgeInv, AppsAreKnown
<1>2. /\ tunnels' = [tunnels EXCEPT ![a] = None]
      /\ \A t \in Tunnels : t # tunnels[a] => tun'[t] = tun[t]
      /\ \A t \in Tunnels : t = tunnels[a] => tun'[t].at \in {"gone", "ending"}
  BY DEF StopTunnel, Dropped, BridgeInv, TypeOK, Tunnel, NoTunnel
<1>3. \A r \in Reqs : req'[r].tunnel = req[r].tunnel /\ req'[r].app = req[r].app
                      /\ (r # q => req'[r] = req[r])
  BY DEF Goto, BridgeInv, TypeOK, Request
<1>4. req'[q].at = stage
  BY DEF Goto, BridgeInv, TypeOK, Request
<1>5. AppsAreKnown'
  BY <1>2, <1>3, <1>4 DEF BridgeInv, AppsAreKnown, InProgress
<1>6. TunnelHasOneOwner'
  <2> SUFFICES ASSUME NEW t \in Tunnels
               PROVE  OneOwner(t)'
    BY DEF TunnelHasOneOwner
  <2>1. CASE t = tunnels[a]
    <3>1. \A r \in Reqs : req[r].tunnel # t
      BY <2>1, <1>1 DEF BridgeInv, TunnelHasOneOwner, OneOwner
    <3>2. \A b \in Apps : tunnels'[b] # t
      BY <2>1, <1>1, <1>2 DEF BridgeInv, TunnelHasOneOwner, OneOwner, TypeOK
    <3>3. QED
      BY <2>1, <3>1, <3>2, <1>2, <1>3 DEF OneOwner
  <2>2. CASE t # tunnels[a]
    <3>1. tun'[t] = tun[t]
      BY <2>2, <1>2
    <3>2. \A b \in Apps : tunnels'[b] = t <=> tunnels[b] = t
      BY <2>2, <1>1, <1>2 DEF BridgeInv, TypeOK
    <3>3. \A r \in Reqs : req[r].tunnel = t => r # q
      BY DEF BridgeInv, TunnelHasOneOwner, OneOwner
    <3>4. QED
      BY <3>1, <3>2, <3>3, <1>3, <1>1 DEF BridgeInv, TunnelHasOneOwner, OneOwner, AppsAreKnown, InProgress
  <2>3. QED
    BY <2>1, <2>2
<1> QED
  BY <1>5, <1>6 DEF BridgeInv

(* A new listener belongs to the request that bound it. *)
LEMMA BindStep ==
    ASSUME BridgeInv, TypeOK', NEW q \in Reqs, NEW t \in Tunnels, Bind(q, t)
    PROVE  BridgeInv'
<1>1. /\ \A a \in Apps : tunnels[a] # t
      /\ \A r \in Reqs : req[r].tunnel # t
  BY DEF Bind, NoTunnel, BridgeInv, TunnelHasOneOwner, OneOwner
<1>2. req[q].app \in Apps /\ \A u \in Tunnels : req[q].tunnel # u
  BY DEF Bind, BridgeInv, AppsAreKnown, InProgress, TunnelHasOneOwner, OneOwner
<1>3. /\ tun'[t] = [at |-> "listening", app |-> req[q].app, port |-> req[q].port]
      /\ \A u \in Tunnels \ {t} : tun'[u] = tun[u]
      /\ req'[q].at = "inserting" /\ req'[q].tunnel = t /\ req'[q].app = req[q].app
      /\ \A r \in Reqs \ {q} : req'[r] = req[r]
      /\ tunnels' = tunnels
  BY DEF Bind, BridgeInv, TypeOK, Request
<1>4. AppsAreKnown'
  BY <1>2, <1>3 DEF BridgeInv, AppsAreKnown, InProgress
<1>5. ASSUME NEW u \in Tunnels PROVE OneOwner(u)'
  BY <1>1, <1>2, <1>3 DEF BridgeInv, TunnelHasOneOwner, OneOwner
<1> QED
  BY <1>4, <1>5 DEF BridgeInv, TunnelHasOneOwner

(* The map becomes the owner of the tunnel inserted, and the tunnel replaced,
   which is another one, has none. *)
LEMMA InsertStep ==
    ASSUME BridgeInv, TypeOK', NEW q \in Reqs, Insert(q)
    PROVE  BridgeInv'
<1> DEFINE a == req[q].app
           t == req[q].tunnel
<1>1. a \in Apps
  BY DEF Insert, BridgeInv, AppsAreKnown, InProgress
<1>2. /\ tunnels' = [tunnels EXCEPT ![a] = t]
      /\ \A u \in Tunnels : u # tunnels[a] => tun'[u] = tun[u]
      /\ \A u \in Tunnels : u = tunnels[a] => tun'[u].at \in {"gone", "ending"}
  BY DEF Insert, Dropped, BridgeInv, TypeOK, Tunnel, NoTunnel
<1>3. /\ req'[q].at \in {"health", "publishing"} /\ req'[q].tunnel = None /\ req'[q].app = a
      /\ \A r \in Reqs \ {q} : req'[r] = req[r]
  BY DEF Insert, BridgeInv, TypeOK, Request
<1>4. AppsAreKnown'
  BY <1>1, <1>2, <1>3 DEF BridgeInv, AppsAreKnown, InProgress
<1>5. ASSUME NEW u \in Tunnels PROVE OneOwner(u)'
  <2>1. CASE u = tunnels[a]
    <3>1. u # t /\ \A r \in Reqs : req[r].tunnel # u
      BY <2>1, <1>1 DEF BridgeInv, TunnelHasOneOwner, OneOwner
    <3>2. \A b \in Apps : tunnels'[b] # u
      BY <2>1, <3>1, <1>1, <1>2 DEF BridgeInv, TunnelHasOneOwner, OneOwner, TypeOK
    <3>3. \A r \in Reqs : req'[r].tunnel # u
      BY <3>1, <1>3
    <3>4. QED
      BY <2>1, <3>2, <3>3, <1>2 DEF OneOwner
  <2>2. CASE u = t
    <3>1. /\ tun[u].at \in {"listening", "broken"} /\ tun[u].app = a
          /\ \A b \in Apps : tunnels[b] # u
          /\ \A r \in Reqs \ {q} : req[r].tunnel # u
      BY <2>2, <1>1 DEF BridgeInv, TunnelHasOneOwner, OneOwner
    <3>2. tun'[u] = tun[u] /\ tunnels'[a] = u /\ \A b \in Apps \ {a} : tunnels'[b] # u
      BY <2>2, <3>1, <1>1, <1>2 DEF BridgeInv, TypeOK
    <3>3. \A r \in Reqs : req'[r].tunnel # u
      BY <3>1, <1>3
    <3>4. QED
      BY <3>1, <3>2, <3>3 DEF OneOwner
  <2>3. CASE u # tunnels[a] /\ u # t
    <3>1. tun'[u] = tun[u]
      BY <2>3, <1>2
    <3>2. \A b \in Apps : tunnels'[b] = u <=> tunnels[b] = u
      BY <2>3, <1>1, <1>2 DEF BridgeInv, TypeOK
    <3>3. \A r \in Reqs : req'[r].tunnel = u <=> req[r].tunnel = u
      BY <2>3, <1>3
    <3>4. \A r \in Reqs : req[r].tunnel = u => r # q /\ req[r].app \in Apps
      BY <2>3 DEF BridgeInv, TunnelHasOneOwner, OneOwner, AppsAreKnown, InProgress
    <3>5. tun[u].at \in {"listening", "broken"} => tun[u].app \in Apps
      BY DEF BridgeInv, AppsAreKnown
    <3>6. OneOwner(u)
      BY DEF BridgeInv, TunnelHasOneOwner
    <3>7. QED
      BY <3>1, <3>2, <3>3, <3>4, <3>5, <3>6, <1>3 DEF OneOwner
  <2>4. QED
    BY <2>1, <2>2, <2>3
<1> QED
  BY <1>4, <1>5 DEF BridgeInv, TunnelHasOneOwner

(* A dropped request takes its tunnel with it. *)
LEMMA ClientGoneStep ==
    ASSUME BridgeInv, TypeOK', NEW q \in Reqs, ClientGone(q)
    PROVE  BridgeInv'
<1> DEFINE t == req[q].tunnel
<1>1. /\ req'[q] = NoReq("gone") /\ \A r \in Reqs \ {q} : req'[r] = req[r]
      /\ \A u \in Tunnels : u # t => tun'[u] = tun[u]
      /\ \A u \in Tunnels : u = t => tun'[u].at \in {"gone", "ending"}
      /\ tunnels' = tunnels
  BY DEF ClientGone, Dropped, BridgeInv, TypeOK, Tunnel, NoTunnel
<1>2. AppsAreKnown'
  BY <1>1 DEF BridgeInv, AppsAreKnown, InProgress, NoReq
<1>3. ASSUME NEW u \in Tunnels PROVE OneOwner(u)'
  <2>1. CASE u = t
    <3>1. /\ \A b \in Apps : tunnels[b] # u
          /\ \A r \in Reqs \ {q} : req[r].tunnel # u
      BY <2>1 DEF BridgeInv, TunnelHasOneOwner, OneOwner, AppsAreKnown, InProgress
    <3>2. \A r \in Reqs : req'[r].tunnel # u
      BY <3>1, <1>1 DEF NoReq
    <3>3. QED
      BY <2>1, <3>1, <3>2, <1>1 DEF OneOwner
  <2>2. CASE u # t
    <3>1. \A r \in Reqs : req'[r].tunnel = u <=> req[r].tunnel = u /\ r # q
      BY <2>2, <1>1 DEF NoReq
    <3>2. QED
      BY <2>2, <3>1, <1>1 DEF BridgeInv, TunnelHasOneOwner, OneOwner
  <2>3. QED
    BY <2>1, <2>2
<1> QED
  BY <1>2, <1>3 DEF BridgeInv, TunnelHasOneOwner

(* The end of a loop that was told to stop concerns no owner, and a loop that
   fails keeps its owner. *)
LEMMA LoopStep ==
    ASSUME BridgeInv, TypeOK', NEW t \in Tunnels, LoopEnds(t) \/ AcceptFails(t)
    PROVE  BridgeInv'
<1>1. /\ \/ tun[t].at = "ending" /\ tun'[t].at = "gone"
         \/ tun[t].at = "listening" /\ tun'[t].at = "broken" /\ tun'[t].app = tun[t].app
      /\ \A u \in Tunnels \ {t} : tun'[u] = tun[u]
      /\ req' = req /\ tunnels' = tunnels
  BY DEF LoopEnds, AcceptFails, BridgeInv, TypeOK, Tunnel, NoTunnel
<1>2. AppsAreKnown'
  BY <1>1 DEF BridgeInv, AppsAreKnown, InProgress
<1>3. ASSUME NEW u \in Tunnels PROVE OneOwner(u)'
  BY <1>1 DEF BridgeInv, TunnelHasOneOwner, OneOwner
<1> QED
  BY <1>2, <1>3 DEF BridgeInv, TunnelHasOneOwner

-----------------------------------------------------------------------------
(* The theorems. *)

(* The inductive invariant of the bridge holds in every reachable state. *)
THEOREM BridgeInvariant == Spec => []BridgeInv
<1>1. Init => BridgeInv
  <2> SUFFICES ASSUME Init PROVE BridgeInv
    OBVIOUS
  <2>1. TypeOK
    BY DEF Init, TypeOK, Request, Tunnel, Relay, Stages, Status, NoReq, NoTunnel, NoRelay
  <2>2. AppsAreKnown /\ TunnelHasOneOwner
    BY DEF Init, AppsAreKnown, TunnelHasOneOwner, OneOwner, InProgress, NoReq, NoTunnel
  <2>3. QED
    BY <2>1, <2>2 DEF BridgeInv
<1>2. BridgeInv /\ [Next]_bridgeVars => BridgeInv'
  <2> SUFFICES ASSUME BridgeInv, [Next]_bridgeVars PROVE BridgeInv'
    OBVIOUS
  <2>1. TypeOK'
    BY TypeStep DEF BridgeInv
  <2>2. \A q \in Reqs : req[q] \in Request
    BY DEF BridgeInv, TypeOK
  <2>3. \A q \in Reqs : /\ req[q].at # "inserting" => req[q].tunnel = None
                        /\ InProgress(q) => req[q].app \in Apps
    BY <2>2 DEF BridgeInv, TunnelHasOneOwner, OneOwner, AppsAreKnown, Request
  <2>4. ASSUME NEW q \in Reqs, NEW a \in Apps, NEW p, NEW stage \in Stages \ {"inserting"},
               Call(q, a, p, stage)
        PROVE  BridgeInv'
    <3>1. /\ req[q].at # "inserting" /\ req'[q].at # "inserting"
          /\ req'[q].tunnel = None /\ req'[q].app \in Apps
          /\ \A r \in Reqs \ {q} : req'[r] = req[r]
      BY <2>4, <2>2 DEF Call, InProgress, BridgeInv, TypeOK
    <3>2. UNCHANGED <<tun, tunnels>>
      BY <2>4 DEF Call
    <3>3. QED
      BY <2>1, <3>1, <3>2, TunnelsUntouched
  <2>5. ASSUME NEW q \in Reqs,
               \/ Check(q) \/ SshUp(q) \/ RemoteOpen(q) \/ RemoteClosed(q) \/ Started(q)
               \/ HealthOk(q)
        PROVE  BridgeInv'
    <3>1. PICK stage \in {"opening", "probing", "binding", "starting", "polling", "publishing"} :
              Goto(q, stage)
      BY <2>5 DEF Check, SshUp, RemoteOpen, RemoteClosed, Started, HealthOk
    <3>2. InProgress(q) /\ req[q].at # "inserting" /\ UNCHANGED <<tun, tunnels>>
      BY <2>5 DEF Check, SshUp, RemoteOpen, RemoteClosed, Started, HealthOk, InProgress
    <3>3. /\ req'[q].at # "inserting" /\ req'[q].tunnel = None /\ req'[q].app \in Apps
          /\ \A r \in Reqs \ {q} : req'[r] = req[r]
      BY <3>1, <3>2, <2>2, <2>3 DEF Goto, BridgeInv, TypeOK, Request
    <3>4. QED
      BY <2>1, <3>2, <3>3, TunnelsUntouched
  <2>6. ASSUME NEW q \in Reqs, BindFailed(q) \/ Healthy(q) \/ Fail(q) \/ Disconnected(q)
        PROVE  BridgeInv'
    <3>1. /\ req[q].at # "inserting" /\ UNCHANGED <<tun, tunnels>>
          /\ req' = [req EXCEPT ![q] = NoReq("idle")]
      BY <2>6 DEF BindFailed, Healthy, Fail, Disconnected, Return
    <3>2. /\ req'[q].at # "inserting" /\ req'[q].tunnel = None /\ ~InProgress(q)'
          /\ \A r \in Reqs \ {q} : req'[r] = req[r]
      BY <3>1 DEF NoReq, InProgress, BridgeInv, TypeOK
    <3>3. QED
      BY <2>1, <3>1, <3>2, TunnelsUntouched
  <2>7. ASSUME NEW q \in Reqs, StopFirst(q) \/ HealthFailed(q) \/ DropTunnel(q)
        PROVE  BridgeInv'
    <3>1. PICK stage \in {"checking", "failing", "dropped"} : Goto(q, stage)
      BY <2>7 DEF StopFirst, HealthFailed, DropTunnel
    <3>2. /\ InProgress(q) /\ req[q].at # "inserting" /\ StopTunnel(req[q].app)
          /\ stage \in Stages /\ stage \notin {"idle", "gone", "inserting"}
      BY <2>7 DEF StopFirst, HealthFailed, DropTunnel, InProgress, Stages
    <3>3. QED
      BY <2>1, <3>1, <3>2, StopStep
  <2>8. ASSUME NEW t \in Tunnels, NEW k \in Relays, Accept(t, k)
        PROVE  BridgeInv'
    BY <2>1, <2>8, TunnelsUntouched DEF Accept
  <2>9. ASSUME NEW k \in Relays, ChannelOpen(k) \/ RelayEnds(k)
        PROVE  BridgeInv'
    BY <2>1, <2>9, TunnelsUntouched DEF ChannelOpen, RelayEnds
  <2>10. CASE UNCHANGED bridgeVars
    BY <2>1, <2>10, TunnelsUntouched DEF bridgeVars
  <2>11. ASSUME NEW q \in Reqs, NEW a \in Apps, NEW p \in Ports,
                Connect(q, a, p) \/ Reconnect(q, a, p)
         PROVE  BridgeInv'
    BY <2>4, <2>11 DEF Connect, Reconnect, Stages
  <2>12. ASSUME NEW q \in Reqs, NEW a \in Apps, Disconnect(q, a)
         PROVE  BridgeInv'
    BY <2>4, <2>12 DEF Disconnect, Stages
  <2> QED
    BY <2>1, <2>5, <2>6, <2>7, <2>8, <2>9, <2>10, <2>11, <2>12,
       BindStep, InsertStep, ClientGoneStep, LoopStep DEF Next, RequestStep
<1> QED
  BY <1>1, <1>2, PTL DEF Spec

(* Every listener of the bridge has exactly one owner, for any number of
   overlapping, failing and dropped requests: none is ever leaked. *)
THEOREM TunnelHasOneOwnerHolds == Spec => []TunnelHasOneOwner
BY BridgeInvariant, PTL DEF BridgeInv
=============================================================================
