------------------------- MODULE TunnelManagerProofs -------------------------
(***************************************************************************)
(* Proofs about the tunnel manager, for every number of applications,      *)
(* ports, reservations and connections: its type, that its maps find every *)
(* reservation, that nothing flows through a released one, and that it     *)
(* implements PortReservations.                                            *)
(***************************************************************************)
EXTENDS TunnelManager, TLAPS

USE NoneAssumption

-----------------------------------------------------------------------------
(* The parts of the invariant that the correctness properties rest on. *)

Held == {r \in Resvs : resv[r].stage = "held"}

\* A reservation in use is of an application and a port, one that ended is
\* blank, and only one that is held has a target.
Shape ==
    /\ \A r \in Resvs : resv[r].stage # "gone" => resv[r].app \in Apps /\ resv[r].port \in Ports
    /\ \A r \in Resvs : resv[r].stage = "gone" => resv[r] = NoResv
    /\ \A r \in Resvs : resv[r].target => resv[r].stage = "held"

\* Until its port is granted, a reservation is the only one of its application.
OneListening ==
    \A r, q \in Resvs : resv[r].stage = "listening" =>
        /\ reservations[resv[r].app] = None
        /\ resv[q].stage = "listening" /\ resv[q].app = resv[r].app => q = r

\* A connection is of a reservation that has not ended, since release waits for
\* it, or its client is gone and release did not wait.  And one of a held
\* reservation found its target set, which stays set.
ConnsAlive ==
    \A k \in Conns :
        conn[k].stage # "none" =>
            /\ conn[k].via \in Resvs
            /\ \/ resv[conn[k].via].stage = "held" /\ resv[conn[k].via].target
               \/ resv[conn[k].via].stage = "closing"
               \/ resv[conn[k].via].stage = "gone" /\ conn[k].stage = "orphaned"

\* What the start of a release of R does, field by field.
Freed(R) ==
    /\ \A q \in R :
           /\ resv[q].stage = "held" /\ resv'[q].stage = "closing"
           /\ resv'[q].target = FALSE
           /\ resv'[q].app = resv[q].app /\ resv'[q].port = resv[q].port
    /\ \A q \in Resvs \ R : resv'[q] = resv[q]
    /\ \A p \in Ports : listener'[p] = IF listener[p] \in R THEN None ELSE listener[p]
    /\ \A k \in Conns :
           \/ conn'[k] = NoConn
           \/ conn'[k] = conn[k] /\ ~(conn[k].stage = "forwarding" /\ conn[k].via \in R)
    /\ reservations' = reservations
    /\ handles' = handles

-----------------------------------------------------------------------------
(* The steps. *)

(* A field of a reservation is set. *)
LEMMA Retyped ==
    ASSUME NEW x \in Reservation, NEW s \in ResvStages, NEW t \in BOOLEAN
    PROVE  /\ [x EXCEPT !.stage = s] \in Reservation
           /\ [x EXCEPT !.target = t] \in Reservation
           /\ [x EXCEPT !.stage = s].stage = s
           /\ [x EXCEPT !.stage = s].app = x.app
           /\ [x EXCEPT !.stage = s].port = x.port
           /\ [x EXCEPT !.stage = s].target = x.target
           /\ [x EXCEPT !.target = t].stage = x.stage
           /\ [x EXCEPT !.target = t].app = x.app
           /\ [x EXCEPT !.target = t].port = x.port
           /\ [x EXCEPT !.target = t].target = t
BY DEF Reservation

(* The start of a release keeps the types, and does what Freed says. *)
LEMMA Releasing ==
    ASSUME TypeOK, NEW R \in SUBSET Held, StartRelease(R)
    PROVE  TypeOK' /\ Freed(R)
<1>1. R \subseteq Resvs
  BY DEF Held
<1>2. \A q \in Resvs : resv[q] \in Reservation
  BY DEF TypeOK
<1>3. \A q \in R : resv'[q] = [resv[q] EXCEPT !.stage = "closing", !.target = FALSE]
  BY <1>1 DEF StartRelease
<1>4. ASSUME NEW q \in R
      PROVE  /\ resv'[q] \in Reservation
             /\ resv'[q].stage = "closing" /\ resv'[q].target = FALSE
             /\ resv'[q].app = resv[q].app /\ resv'[q].port = resv[q].port
  <2>1. resv[q] \in Reservation
    BY <1>1, <1>2
  <2>2. resv'[q] = [resv[q] EXCEPT !.stage = "closing", !.target = FALSE]
    BY <1>3
  <2> QED
    BY <2>1, <2>2 DEF Reservation, ResvStages
<1>5. \A q \in Resvs \ R : resv'[q] = resv[q]
  BY DEF StartRelease
<1>6. resv' \in [Resvs -> Reservation]
  <2>1. resv' = [q \in Resvs |-> resv'[q]]
    BY DEF StartRelease
  <2> QED
    BY <2>1, <1>2, <1>4, <1>5
<1>7. \A p \in Ports : listener'[p] = IF listener[p] \in R THEN None ELSE listener[p]
  BY DEF StartRelease
<1>8. listener' \in [Ports -> Resvs \union {None}]
  BY DEF StartRelease, TypeOK
<1>9. \A k \in Conns : \/ conn'[k] = NoConn
                       \/ conn'[k] = conn[k] /\ ~(conn[k].stage = "forwarding" /\ conn[k].via \in R)
  BY DEF StartRelease
<1>10. conn' \in [Conns -> Connection]
  <2>1. NoConn \in Connection
    BY DEF NoConn, Connection
  <2>2. \A k \in Conns : conn[k] \in Connection
    BY DEF TypeOK
  <2>3. conn' = [k \in Conns |-> conn'[k]]
    BY DEF StartRelease
  <2> QED
    BY <2>1, <2>2, <2>3, <1>9
<1>11. reservations' = reservations /\ handles' = handles
  BY DEF StartRelease
<1> QED
  <2>1. TypeOK'
    BY <1>6, <1>8, <1>10, <1>11 DEF TypeOK
  <2>2. \A q \in R : resv[q].stage = "held"
    BY DEF Held
  <2>3. Freed(R)
    BY <1>4, <1>5, <1>7, <1>9, <1>11, <2>2 DEF Freed
  <2> QED
    BY <2>1, <2>3

(* Every step is one of the actions, where release and closeAll are the start of
   a release of some held reservations. *)
LEMMA ReleaseForms ==
    ASSUME TypeOK, [Next]_tunnelVars
    PROVE  \/ \E r \in Resvs, a \in Apps, p \in Ports : ~InFlight(a) /\ Reserve(r, a, p)
           \/ \E r \in Resvs : ListenOk(r) \/ ListenFailed(r) \/ Activate(r) \/ Released(r)
           \/ \E r \in Resvs, k \in Conns : Accept(r, k)
           \/ \E k \in Conns : ClientGone(k) \/ ForwardOk(k) \/ ForwardFailed(k) \/ ConnEnds(k)
           \/ TypeOK' /\ \E R \in SUBSET Resvs : Freed(R)
           \/ UNCHANGED tunnelVars
<1>1. ASSUME NEW R \in SUBSET Held, StartRelease(R)
      PROVE  TypeOK' /\ \E S \in SUBSET Resvs : Freed(S)
  BY <1>1, Releasing DEF Held
<1>2. ASSUME NEW r \in Resvs, Release(r) PROVE {r} \in SUBSET Held /\ StartRelease({r})
  BY <1>2 DEF Release, Held
<1>3. ASSUME CloseAll PROVE \E R \in SUBSET Held : StartRelease(R)
  BY <1>3 DEF CloseAll, Held
<1> QED
  BY <1>1, <1>2, <1>3 DEF Next

(* Each step keeps the types. *)
LEMMA TypeStep ==
    ASSUME TypeOK, Shape, MapHasEveryReservation, [Next]_tunnelVars
    PROVE  TypeOK'
<1> USE DEF TypeOK, Shape, ResvStages, Reservation, Connection, NoResv, NoConn,
           MapHasEveryReservation
<1>1. ASSUME NEW r \in Resvs, NEW a \in Apps, NEW p \in Ports, Reserve(r, a, p) PROVE TypeOK'
  BY <1>1 DEF Reserve, Unused
<1>2. ASSUME NEW r \in Resvs, ListenOk(r) PROVE TypeOK'
  BY <1>2 DEF ListenOk
<1>3. ASSUME NEW r \in Resvs, ListenFailed(r) PROVE TypeOK'
  BY <1>3 DEF ListenFailed
<1>4. ASSUME NEW r \in Resvs, Activate(r) PROVE TypeOK'
  <2> HIDE DEF Reservation
  <2>1. [resv[r] EXCEPT !.target = TRUE] \in Reservation
    <3>1. resv[r] \in Reservation
      OBVIOUS
    <3> QED
      BY <3>1 DEF Reservation
  <2> QED
    BY <1>4, <2>1 DEF Activate
<1>5. ASSUME NEW r \in Resvs, NEW k \in Conns, Accept(r, k) PROVE TypeOK'
  BY <1>5 DEF Accept
<1>6. ASSUME NEW r \in Resvs, Released(r) PROVE TypeOK'
  BY <1>6 DEF Released, ConnsOf
<1>7. ASSUME NEW k \in Conns, ForwardOk(k) PROVE TypeOK'
  BY <1>7 DEF ForwardOk
<1>8. ASSUME NEW k \in Conns, ForwardFailed(k) PROVE TypeOK'
  BY <1>8 DEF ForwardFailed
<1>9. ASSUME NEW k \in Conns, ConnEnds(k) PROVE TypeOK'
  BY <1>9 DEF ConnEnds
<1>12. ASSUME NEW k \in Conns, ClientGone(k) PROVE TypeOK'
  BY <1>12 DEF ClientGone
<1>11. CASE UNCHANGED tunnelVars
  BY <1>11 DEF tunnelVars
<1> QED
  BY <1>1, <1>2, <1>3, <1>4, <1>5, <1>6, <1>7, <1>8, <1>9, <1>11, <1>12, ReleaseForms

(* Each step keeps the shape of reservations. *)
LEMMA ShapeStep ==
    ASSUME TypeOK, Shape, [Next]_tunnelVars
    PROVE  Shape'
<1> USE DEF TypeOK, Shape, ResvStages, Reservation, Connection, NoResv, NoConn
<1>1. ASSUME NEW r \in Resvs, NEW a \in Apps, NEW p \in Ports, Reserve(r, a, p) PROVE Shape'
  BY <1>1 DEF Reserve, Unused
<1>2. ASSUME NEW r \in Resvs, ListenOk(r) PROVE Shape'
  <2> HIDE DEF Reservation
  <2>1. resv[r] \in Reservation
    OBVIOUS
  <2>2. resv'[r] = [resv[r] EXCEPT !.stage = "held"] /\ \A q \in Resvs : q # r => resv'[q] = resv[q]
    BY <1>2 DEF ListenOk
  <2>3. /\ resv'[r].stage = "held"
        /\ resv'[r].target = resv[r].target
        /\ resv'[r].app = resv[r].app /\ resv'[r].port = resv[r].port
    BY <2>1, <2>2, Retyped
  <2> QED
    BY <1>2, <2>2, <2>3 DEF ListenOk
<1>3. ASSUME NEW r \in Resvs, ListenFailed(r) PROVE Shape'
  BY <1>3 DEF ListenFailed
<1>4. ASSUME NEW r \in Resvs, Activate(r) PROVE Shape'
  <2> HIDE DEF Reservation
  <2>1. resv[r] \in Reservation
    OBVIOUS
  <2>2. resv'[r] = [resv[r] EXCEPT !.target = TRUE] /\ \A q \in Resvs : q # r => resv'[q] = resv[q]
    BY <1>4 DEF Activate
  <2>3. /\ resv'[r].stage = resv[r].stage
        /\ resv'[r].target = TRUE
        /\ resv'[r].app = resv[r].app /\ resv'[r].port = resv[r].port
    BY <2>1, <2>2, Retyped
  <2> QED
    BY <1>4, <2>2, <2>3 DEF Activate
<1>5. ASSUME NEW r \in Resvs, NEW k \in Conns, Accept(r, k) PROVE Shape'
  BY <1>5 DEF Accept
<1>6. ASSUME NEW r \in Resvs, Released(r) PROVE Shape'
  BY <1>6 DEF Released, ConnsOf
<1>7. ASSUME NEW k \in Conns, ForwardOk(k) PROVE Shape'
  BY <1>7 DEF ForwardOk
<1>8. ASSUME NEW k \in Conns, ForwardFailed(k) PROVE Shape'
  BY <1>8 DEF ForwardFailed
<1>9. ASSUME NEW k \in Conns, ConnEnds(k) PROVE Shape'
  BY <1>9 DEF ConnEnds
<1>12. ASSUME NEW k \in Conns, ClientGone(k) PROVE Shape'
  BY <1>12 DEF ClientGone
<1>10. ASSUME NEW R \in SUBSET Resvs, Freed(R) PROVE Shape'
  <2> HIDE DEF TypeOK, Reservation, Connection, ResvStages, NoResv
  <2>1. \A q \in Resvs : resv'[q].app = resv[q].app /\ resv'[q].port = resv[q].port
    BY <1>10 DEF Freed
  <2>2. \A a \in Apps : handles[a] # None => handles[a] \in Resvs
    BY DEF TypeOK
  <2> QED
    BY <1>10, <2>1, <2>2 DEF Freed
<1>11. CASE UNCHANGED tunnelVars
  BY <1>11 DEF tunnelVars
<1> QED
  BY <1>1, <1>2, <1>3, <1>4, <1>5, <1>6, <1>7, <1>8, <1>9, <1>10, <1>11, <1>12, ReleaseForms

(* Each step leaves an application one reservation that waits for its port:
   reserve looks into the map, and nobody else asks for that application. *)
LEMMA ListeningStep ==
    ASSUME TypeOK, Shape, MapHasEveryReservation, OneListening, [Next]_tunnelVars
    PROVE  OneListening'
<1> USE DEF TypeOK, Shape, ResvStages, Reservation, Connection, NoResv, NoConn,
           OneListening, MapHasEveryReservation
<1>1. ASSUME NEW r \in Resvs, NEW a \in Apps, NEW p \in Ports, ~InFlight(a), Reserve(r, a, p) PROVE OneListening'
  BY <1>1 DEF Reserve, Unused, InFlight
<1>2. ASSUME NEW r \in Resvs, ListenOk(r) PROVE OneListening'
  BY <1>2 DEF ListenOk
<1>3. ASSUME NEW r \in Resvs, ListenFailed(r) PROVE OneListening'
  BY <1>3 DEF ListenFailed
<1>4. ASSUME NEW r \in Resvs, Activate(r) PROVE OneListening'
  BY <1>4 DEF Activate
<1>5. ASSUME NEW r \in Resvs, NEW k \in Conns, Accept(r, k) PROVE OneListening'
  BY <1>5 DEF Accept
<1>6. ASSUME NEW r \in Resvs, Released(r) PROVE OneListening'
  BY <1>6 DEF Released, ConnsOf
<1>7. ASSUME NEW k \in Conns, ForwardOk(k) PROVE OneListening'
  BY <1>7 DEF ForwardOk
<1>8. ASSUME NEW k \in Conns, ForwardFailed(k) PROVE OneListening'
  BY <1>8 DEF ForwardFailed
<1>9. ASSUME NEW k \in Conns, ConnEnds(k) PROVE OneListening'
  BY <1>9 DEF ConnEnds
<1>12. ASSUME NEW k \in Conns, ClientGone(k) PROVE OneListening'
  BY <1>12 DEF ClientGone
<1>10. ASSUME NEW R \in SUBSET Resvs, Freed(R) PROVE OneListening'
  <2> HIDE DEF TypeOK, Reservation, Connection, ResvStages, NoResv
  <2>1. \A q \in Resvs : resv'[q].app = resv[q].app /\ resv'[q].port = resv[q].port
    BY <1>10 DEF Freed
  <2>2. \A a \in Apps : handles[a] # None => handles[a] \in Resvs
    BY DEF TypeOK
  <2> QED
    BY <1>10, <2>1, <2>2 DEF Freed
<1>11. CASE UNCHANGED tunnelVars
  BY <1>11 DEF tunnelVars
<1> QED
  BY <1>1, <1>2, <1>3, <1>4, <1>5, <1>6, <1>7, <1>8, <1>9, <1>10, <1>11, <1>12, ReleaseForms

(* The map: onReleased removes the entry of the application, and the invariant
   says that this is the entry of the reservation that ended. *)
LEMMA MapStep ==
    ASSUME TypeOK, Shape, OneListening, MapHasEveryReservation, [Next]_tunnelVars
    PROVE  MapHasEveryReservation'
<1> USE DEF TypeOK, Shape, ResvStages, Reservation, Connection, NoResv, NoConn,
           OneListening, MapHasEveryReservation
<1>1. ASSUME NEW r \in Resvs, NEW a \in Apps, NEW p \in Ports, Reserve(r, a, p) PROVE MapHasEveryReservation'
  BY <1>1 DEF Reserve, Unused
<1>2. ASSUME NEW r \in Resvs, ListenOk(r) PROVE MapHasEveryReservation'
  BY <1>2 DEF ListenOk
<1>3. ASSUME NEW r \in Resvs, ListenFailed(r) PROVE MapHasEveryReservation'
  BY <1>3 DEF ListenFailed
<1>4. ASSUME NEW r \in Resvs, Activate(r) PROVE MapHasEveryReservation'
  BY <1>4 DEF Activate
<1>5. ASSUME NEW r \in Resvs, NEW k \in Conns, Accept(r, k) PROVE MapHasEveryReservation'
  BY <1>5 DEF Accept
<1>6. ASSUME NEW r \in Resvs, Released(r) PROVE MapHasEveryReservation'
  BY <1>6 DEF Released, ConnsOf
<1>7. ASSUME NEW k \in Conns, ForwardOk(k) PROVE MapHasEveryReservation'
  BY <1>7 DEF ForwardOk
<1>8. ASSUME NEW k \in Conns, ForwardFailed(k) PROVE MapHasEveryReservation'
  BY <1>8 DEF ForwardFailed
<1>9. ASSUME NEW k \in Conns, ConnEnds(k) PROVE MapHasEveryReservation'
  BY <1>9 DEF ConnEnds
<1>12. ASSUME NEW k \in Conns, ClientGone(k) PROVE MapHasEveryReservation'
  BY <1>12 DEF ClientGone
<1>10. ASSUME NEW R \in SUBSET Resvs, Freed(R) PROVE MapHasEveryReservation'
  <2> HIDE DEF TypeOK, Reservation, Connection, ResvStages, NoResv
  <2>1. \A q \in Resvs : resv'[q].app = resv[q].app /\ resv'[q].port = resv[q].port
    BY <1>10 DEF Freed
  <2>2. \A a \in Apps : handles[a] # None => handles[a] \in Resvs
    BY DEF TypeOK
  <2> QED
    BY <1>10, <2>1, <2>2 DEF Freed
<1>11. CASE UNCHANGED tunnelVars
  BY <1>11 DEF tunnelVars
<1> QED
  BY <1>1, <1>2, <1>3, <1>4, <1>5, <1>6, <1>7, <1>8, <1>9, <1>10, <1>11, <1>12, ReleaseForms

(* A port follows its reservation. *)
LEMMA ListenerStep ==
    ASSUME TypeOK, Shape, ListenerIsHeld, [Next]_tunnelVars
    PROVE  ListenerIsHeld'
<1> USE DEF TypeOK, Shape, ResvStages, Reservation, Connection, NoResv, NoConn,
           ListenerIsHeld
<1>1. ASSUME NEW r \in Resvs, NEW a \in Apps, NEW p \in Ports, Reserve(r, a, p) PROVE ListenerIsHeld'
  BY <1>1 DEF Reserve, Unused
<1>2. ASSUME NEW r \in Resvs, ListenOk(r) PROVE ListenerIsHeld'
  BY <1>2 DEF ListenOk
<1>3. ASSUME NEW r \in Resvs, ListenFailed(r) PROVE ListenerIsHeld'
  BY <1>3 DEF ListenFailed
<1>4. ASSUME NEW r \in Resvs, Activate(r) PROVE ListenerIsHeld'
  BY <1>4 DEF Activate
<1>5. ASSUME NEW r \in Resvs, NEW k \in Conns, Accept(r, k) PROVE ListenerIsHeld'
  BY <1>5 DEF Accept
<1>6. ASSUME NEW r \in Resvs, Released(r) PROVE ListenerIsHeld'
  BY <1>6 DEF Released, ConnsOf
<1>7. ASSUME NEW k \in Conns, ForwardOk(k) PROVE ListenerIsHeld'
  BY <1>7 DEF ForwardOk
<1>8. ASSUME NEW k \in Conns, ForwardFailed(k) PROVE ListenerIsHeld'
  BY <1>8 DEF ForwardFailed
<1>9. ASSUME NEW k \in Conns, ConnEnds(k) PROVE ListenerIsHeld'
  BY <1>9 DEF ConnEnds
<1>12. ASSUME NEW k \in Conns, ClientGone(k) PROVE ListenerIsHeld'
  BY <1>12 DEF ClientGone
<1>10. ASSUME NEW R \in SUBSET Resvs, Freed(R) PROVE ListenerIsHeld'
  <2> HIDE DEF TypeOK, Reservation, Connection, ResvStages, NoResv
  <2>1. \A q \in Resvs : resv'[q].app = resv[q].app /\ resv'[q].port = resv[q].port
    BY <1>10 DEF Freed
  <2>2. \A a \in Apps : handles[a] # None => handles[a] \in Resvs
    BY DEF TypeOK
  <2> QED
    BY <1>10, <2>1, <2>2 DEF Freed
<1>11. CASE UNCHANGED tunnelVars
  BY <1>11 DEF tunnelVars
<1> QED
  BY <1>1, <1>2, <1>3, <1>4, <1>5, <1>6, <1>7, <1>8, <1>9, <1>10, <1>11, <1>12, ReleaseForms

(* Accepted connections keep their reservation from ending. *)
LEMMA ConnStep ==
    ASSUME TypeOK, Shape, ConnsAlive, [Next]_tunnelVars
    PROVE  ConnsAlive'
<1> USE DEF TypeOK, Shape, ResvStages, Reservation, Connection, NoResv, NoConn,
           ConnsAlive
<1>1. ASSUME NEW r \in Resvs, NEW a \in Apps, NEW p \in Ports, Reserve(r, a, p) PROVE ConnsAlive'
  BY <1>1 DEF Reserve, Unused
<1>2. ASSUME NEW r \in Resvs, ListenOk(r) PROVE ConnsAlive'
  BY <1>2 DEF ListenOk
<1>3. ASSUME NEW r \in Resvs, ListenFailed(r) PROVE ConnsAlive'
  BY <1>3 DEF ListenFailed
<1>4. ASSUME NEW r \in Resvs, Activate(r) PROVE ConnsAlive'
  BY <1>4 DEF Activate
<1>5. ASSUME NEW r \in Resvs, NEW k \in Conns, Accept(r, k) PROVE ConnsAlive'
  BY <1>5 DEF Accept
<1>6. ASSUME NEW r \in Resvs, Released(r) PROVE ConnsAlive'
  BY <1>6 DEF Released, ConnsOf
<1>7. ASSUME NEW k \in Conns, ForwardOk(k) PROVE ConnsAlive'
  BY <1>7 DEF ForwardOk
<1>8. ASSUME NEW k \in Conns, ForwardFailed(k) PROVE ConnsAlive'
  BY <1>8 DEF ForwardFailed
<1>9. ASSUME NEW k \in Conns, ConnEnds(k) PROVE ConnsAlive'
  BY <1>9 DEF ConnEnds
<1>12. ASSUME NEW k \in Conns, ClientGone(k) PROVE ConnsAlive'
  BY <1>12 DEF ClientGone
<1>10. ASSUME NEW R \in SUBSET Resvs, Freed(R) PROVE ConnsAlive'
  <2> HIDE DEF TypeOK, Reservation, Connection, ResvStages, NoResv
  <2>1. \A q \in Resvs : resv'[q].app = resv[q].app /\ resv'[q].port = resv[q].port
    BY <1>10 DEF Freed
  <2>2. \A a \in Apps : handles[a] # None => handles[a] \in Resvs
    BY DEF TypeOK
  <2> QED
    BY <1>10, <2>1, <2>2 DEF Freed
<1>11. CASE UNCHANGED tunnelVars
  BY <1>11 DEF tunnelVars
<1> QED
  BY <1>1, <1>2, <1>3, <1>4, <1>5, <1>6, <1>7, <1>8, <1>9, <1>10, <1>11, <1>12, ReleaseForms

(* A channel that opens late finds the reservation released, and a release ends
   the forwards that exist. *)
LEMMA ForwardStep ==
    ASSUME TypeOK, Shape, ConnsAlive, NoForwardAfterRelease, [Next]_tunnelVars
    PROVE  NoForwardAfterRelease'
<1> USE DEF TypeOK, Shape, ResvStages, Reservation, Connection, NoResv, NoConn,
           NoForwardAfterRelease, ConnsAlive
<1>1. ASSUME NEW r \in Resvs, NEW a \in Apps, NEW p \in Ports, Reserve(r, a, p) PROVE NoForwardAfterRelease'
  BY <1>1 DEF Reserve, Unused
<1>2. ASSUME NEW r \in Resvs, ListenOk(r) PROVE NoForwardAfterRelease'
  BY <1>2 DEF ListenOk
<1>3. ASSUME NEW r \in Resvs, ListenFailed(r) PROVE NoForwardAfterRelease'
  BY <1>3 DEF ListenFailed
<1>4. ASSUME NEW r \in Resvs, Activate(r) PROVE NoForwardAfterRelease'
  BY <1>4 DEF Activate
<1>5. ASSUME NEW r \in Resvs, NEW k \in Conns, Accept(r, k) PROVE NoForwardAfterRelease'
  BY <1>5 DEF Accept
<1>6. ASSUME NEW r \in Resvs, Released(r) PROVE NoForwardAfterRelease'
  BY <1>6 DEF Released, ConnsOf
<1>7. ASSUME NEW k \in Conns, ForwardOk(k) PROVE NoForwardAfterRelease'
  <2>1. conn[k].stage \in {"pending", "orphaned"} /\ resv' = resv
    BY <1>7 DEF ForwardOk
  <2>2. conn'[k].stage = "forwarding" =>
            conn'[k].via = conn[k].via /\ resv[conn[k].via].stage = "held"
    BY <1>7 DEF ForwardOk
  <2>3. \A j \in Conns : j # k => conn'[j] = conn[j]
    BY <1>7 DEF ForwardOk
  <2>4. resv[conn[k].via].stage = "held" => resv[conn[k].via].target
    BY <2>1
  <2>5. ASSUME NEW j \in Conns, conn'[j].stage = "forwarding"
        PROVE  resv'[conn'[j].via].stage = "held" /\ resv'[conn'[j].via].target
    <3>1. CASE j = k
      BY <2>1, <2>2, <2>4, <2>5, <3>1
    <3>2. CASE j # k
      BY <2>1, <2>3, <2>5, <3>2
    <3> QED
      BY <3>1, <3>2
  <2> QED
    BY <2>5
<1>8. ASSUME NEW k \in Conns, ForwardFailed(k) PROVE NoForwardAfterRelease'
  BY <1>8 DEF ForwardFailed
<1>9. ASSUME NEW k \in Conns, ConnEnds(k) PROVE NoForwardAfterRelease'
  BY <1>9 DEF ConnEnds
<1>12. ASSUME NEW k \in Conns, ClientGone(k) PROVE NoForwardAfterRelease'
  BY <1>12 DEF ClientGone
<1>10. ASSUME NEW R \in SUBSET Resvs, Freed(R) PROVE NoForwardAfterRelease'
  <2> HIDE DEF TypeOK, Reservation, Connection, ResvStages, NoResv
  <2>1. \A q \in Resvs : resv'[q].app = resv[q].app /\ resv'[q].port = resv[q].port
    BY <1>10 DEF Freed
  <2>2. \A a \in Apps : handles[a] # None => handles[a] \in Resvs
    BY DEF TypeOK
  <2> QED
    BY <1>10, <2>1, <2>2 DEF Freed
<1>11. CASE UNCHANGED tunnelVars
  BY <1>11 DEF tunnelVars
<1> QED
  BY <1>1, <1>2, <1>3, <1>4, <1>5, <1>6, <1>7, <1>8, <1>9, <1>10, <1>11, <1>12, ReleaseForms

(* The handle goes when the reservation's entry goes. *)
LEMMA HandleStep ==
    ASSUME TypeOK, Shape, MapHasEveryReservation, OneListening, HandleIsCurrent, [Next]_tunnelVars
    PROVE  HandleIsCurrent'
<1> USE DEF TypeOK, Shape, ResvStages, Reservation, Connection, NoResv, NoConn,
           HandleIsCurrent, OneListening, MapHasEveryReservation
<1>1. ASSUME NEW r \in Resvs, NEW a \in Apps, NEW p \in Ports, Reserve(r, a, p) PROVE HandleIsCurrent'
  BY <1>1 DEF Reserve, Unused
<1>2. ASSUME NEW r \in Resvs, ListenOk(r) PROVE HandleIsCurrent'
  BY <1>2 DEF ListenOk
<1>3. ASSUME NEW r \in Resvs, ListenFailed(r) PROVE HandleIsCurrent'
  BY <1>3 DEF ListenFailed
<1>4. ASSUME NEW r \in Resvs, Activate(r) PROVE HandleIsCurrent'
  BY <1>4 DEF Activate
<1>5. ASSUME NEW r \in Resvs, NEW k \in Conns, Accept(r, k) PROVE HandleIsCurrent'
  BY <1>5 DEF Accept
<1>6. ASSUME NEW r \in Resvs, Released(r) PROVE HandleIsCurrent'
  BY <1>6 DEF Released, ConnsOf
<1>7. ASSUME NEW k \in Conns, ForwardOk(k) PROVE HandleIsCurrent'
  BY <1>7 DEF ForwardOk
<1>8. ASSUME NEW k \in Conns, ForwardFailed(k) PROVE HandleIsCurrent'
  BY <1>8 DEF ForwardFailed
<1>9. ASSUME NEW k \in Conns, ConnEnds(k) PROVE HandleIsCurrent'
  BY <1>9 DEF ConnEnds
<1>12. ASSUME NEW k \in Conns, ClientGone(k) PROVE HandleIsCurrent'
  BY <1>12 DEF ClientGone
<1>10. ASSUME NEW R \in SUBSET Resvs, Freed(R) PROVE HandleIsCurrent'
  <2> HIDE DEF TypeOK, Reservation, Connection, ResvStages, NoResv
  <2>1. \A q \in Resvs : resv'[q].app = resv[q].app /\ resv'[q].port = resv[q].port
    BY <1>10 DEF Freed
  <2>2. \A a \in Apps : handles[a] # None => handles[a] \in Resvs
    BY DEF TypeOK
  <2> QED
    BY <1>10, <2>1, <2>2 DEF Freed
<1>11. CASE UNCHANGED tunnelVars
  BY <1>11 DEF tunnelVars
<1> QED
  BY <1>1, <1>2, <1>3, <1>4, <1>5, <1>6, <1>7, <1>8, <1>9, <1>10, <1>11, <1>12, ReleaseForms

-----------------------------------------------------------------------------
(* The invariant as a whole. *)

TunnelInv ==
    /\ TypeOK /\ Shape /\ OneListening
    /\ MapHasEveryReservation /\ ListenerIsHeld /\ HandleIsCurrent
    /\ ConnsAlive /\ NoForwardAfterRelease

(* Together the parts are kept by every step. *)
THEOREM TunnelInvariant == Spec => []TunnelInv
<1>1. Init => TunnelInv
  BY DEF Init, TunnelInv, TypeOK, Shape, OneListening, MapHasEveryReservation,
         ListenerIsHeld, HandleIsCurrent, ConnsAlive, NoForwardAfterRelease,
         Reservation, ResvStages, Connection, NoResv, NoConn
<1>2. TunnelInv /\ [Next]_tunnelVars => TunnelInv'
  BY TypeStep, ShapeStep, ListeningStep, MapStep, ListenerStep, ConnStep,
     ForwardStep, HandleStep DEF TunnelInv
<1> QED
  BY <1>1, <1>2, PTL DEF Spec

(* The manager's state keeps its shape. *)
THEOREM TunnelTypeCorrect == Spec => []TypeOK
<1>1. TunnelInv => TypeOK
  BY DEF TunnelInv
<1> QED
  BY TunnelInvariant, <1>1, PTL

(* The map finds every reservation whose port was granted, the handle reported
   for an application is that of its current reservation, and a port is
   listened on by the reservation held for it (reserve, release and onReleased
   of tunnel-manager.ts). *)
THEOREM ReservationsAreFound ==
    Spec => [](MapHasEveryReservation /\ HandleIsCurrent /\ ListenerIsHeld)
<1>1. TunnelInv => MapHasEveryReservation /\ HandleIsCurrent /\ ListenerIsHeld
  BY DEF TunnelInv
<1> QED
  BY TunnelInvariant, <1>1, PTL

(* No traffic flows through a released reservation, for any number of
   connections whose channels open after the release (accept and release of
   tunnel-manager.ts). *)
THEOREM NoForwardAfterReleaseHolds == Spec => []NoForwardAfterRelease
<1>1. TunnelInv => NoForwardAfterRelease
  BY DEF TunnelInv
<1> QED
  BY TunnelInvariant, <1>1, PTL

-----------------------------------------------------------------------------
(* The manager implements PortReservations. *)

Live(r) == resv[r].stage # "gone"

\* An application has one reservation at most.
OnePerApp ==
    \A r, q \in Resvs : Live(r) /\ Live(q) /\ resv[r].app = resv[q].app => r = q

StageOf(x) == IF x.stage = "held" /\ x.target THEN "forwarding" ELSE x.stage

\* What bookedFor says, without its choice.
BookedFacts ==
    \A a \in Apps :
        /\ \A r \in Resvs : Live(r) /\ resv[r].app = a => bookedFor[a] = StageOf(resv[r])
        /\ (\A r \in Resvs : Live(r) => resv[r].app # a) => bookedFor[a] = "free"

(* The invariant leaves an application one reservation. *)
LEMMA InvOnePerApp == TunnelInv => OnePerApp
<1> SUFFICES ASSUME TunnelInv, NEW r \in Resvs, NEW q \in Resvs,
                    Live(r), Live(q), resv[r].app = resv[q].app
             PROVE  r = q
  BY DEF OnePerApp
<1>1. resv[r].app \in Apps /\ {resv[r].stage, resv[q].stage} \subseteq {"listening", "held", "closing"}
  BY DEF TunnelInv, TypeOK, Shape, Live, Reservation, ResvStages
<1>2. CASE resv[r].stage = "listening" \/ resv[q].stage = "listening"
  <2>1. resv[r].stage = "listening" /\ resv[q].stage = "listening"
    BY <1>1, <1>2 DEF TunnelInv, OneListening, MapHasEveryReservation, TypeOK
  <2> QED
    BY <2>1 DEF TunnelInv, OneListening
<1>3. CASE resv[r].stage # "listening" /\ resv[q].stage # "listening"
  BY <1>1, <1>3 DEF TunnelInv, MapHasEveryReservation
<1> QED
  BY <1>2, <1>3

(* So the choice in bookedFor has one candidate. *)
LEMMA BookedIs == OnePerApp => BookedFacts
<1> SUFFICES ASSUME OnePerApp, NEW a \in Apps
             PROVE  /\ \A r \in Resvs : Live(r) /\ resv[r].app = a =>
                                            bookedFor[a] = StageOf(resv[r])
                    /\ (\A r \in Resvs : Live(r) => resv[r].app # a) => bookedFor[a] = "free"
  BY DEF BookedFacts
<1>1. ASSUME NEW r \in Resvs, Live(r), resv[r].app = a
      PROVE  bookedFor[a] = StageOf(resv[r])
  <2>1. ResvsFor(a) = {r}
    BY <1>1 DEF ResvsFor, OnePerApp, Live
  <2>2. (CHOOSE q \in ResvsFor(a) : TRUE) = r
    BY <2>1
  <2> QED
    BY <2>1, <2>2 DEF bookedFor, StageOf
<1>2. ASSUME \A r \in Resvs : Live(r) => resv[r].app # a
      PROVE  bookedFor[a] = "free"
  <2>1. ResvsFor(a) = {}
    BY <1>2 DEF ResvsFor, Live
  <2> QED
    BY <2>1 DEF bookedFor
<1> QED
  BY <1>1, <1>2

(* The same after a step. *)
LEMMA BookedIsNext == TunnelInv' => OnePerApp' /\ BookedFacts'
BY InvOnePerApp, BookedIs, PTL

(* A step that changes one reservation changes the booking of its application
   only. *)
LEMMA OneMoves ==
    ASSUME TunnelInv, TunnelInv', NEW r \in Resvs, NEW a \in Apps,
           \A q \in Resvs : q # r => resv'[q] = resv[q],
           Live(r) => resv[r].app = a, Live(r)' => resv'[r].app = a
    PROVE  bookedFor' = [bookedFor EXCEPT ![a] = bookedFor'[a]]
<1>1. BookedFacts /\ BookedFacts'
  BY InvOnePerApp, BookedIs, BookedIsNext
<1>2. ASSUME NEW b \in Apps, b # a PROVE bookedFor'[b] = bookedFor[b]
  <2>1. CASE \E q \in Resvs : Live(q) /\ resv[q].app = b
    <3>1. PICK q \in Resvs : Live(q) /\ resv[q].app = b
      BY <2>1
    <3>2. q # r /\ resv'[q] = resv[q] /\ Live(q)'
      BY <1>2, <3>1 DEF Live
    <3> QED
      BY <1>1, <3>1, <3>2 DEF BookedFacts
  <2>2. CASE \A q \in Resvs : Live(q) => resv[q].app # b
    <3>1. \A q \in Resvs : Live(q)' => resv'[q].app # b
      BY <1>2, <2>2 DEF Live
    <3> QED
      BY <1>1, <2>2, <3>1 DEF BookedFacts
  <2> QED
    BY <2>1, <2>2
<1>3. bookedFor = [b \in Apps |-> bookedFor[b]] /\ bookedFor' = [b \in Apps |-> bookedFor'[b]]
  BY DEF bookedFor
<1> QED
  BY <1>2, <1>3

(* While nobody starts or stops to listen and held reservations keep their
   application, the ports keep their owners. *)
LEMMA OwnersKept ==
    ASSUME TunnelInv, listener' = listener,
           \A q \in Resvs : resv[q].stage = "held" => resv'[q].app = resv[q].app
    PROVE  ownerOf' = ownerOf
<1>1. ASSUME NEW p \in Ports, listener[p] # None
      PROVE  resv'[listener[p]].app = resv[listener[p]].app
  <2>1. listener[p] \in Resvs
    BY <1>1 DEF TunnelInv, TypeOK
  <2>2. resv[listener[p]].stage = "held"
    BY <2>1 DEF TunnelInv, ListenerIsHeld
  <2> QED
    BY <2>1, <2>2
<1> QED
  BY <1>1 DEF ownerOf

(* Each step is a step of PortReservations, or none. *)
LEMMA ReservationStep ==
    ASSUME TunnelInv, TunnelInv', [Next]_tunnelVars
    PROVE  [Bookings!Next]_(Bookings!portVars)
<1>0. OnePerApp /\ BookedFacts /\ OnePerApp' /\ BookedFacts' /\ TypeOK
  BY InvOnePerApp, BookedIs, BookedIsNext DEF TunnelInv
<1>1. ASSUME NEW r \in Resvs, NEW a \in Apps, NEW p \in Ports, ~InFlight(a), Reserve(r, a, p)
      PROVE  Bookings!Ask(a)
  <2>1. ~Live(r) /\ \A q \in Resvs : q # r => resv'[q] = resv[q]
    BY <1>1 DEF Reserve, Unused, Live
  <2>2. Live(r)' /\ resv'[r].app = a /\ StageOf(resv'[r]) = "listening"
    BY <1>1, <1>0 DEF Reserve, Live, StageOf, TypeOK
  <2>3. \A q \in Resvs : Live(q) => resv[q].app # a
    BY <1>1, <1>0 DEF Reserve, InFlight, Live, TunnelInv, MapHasEveryReservation, TypeOK,
                      Reservation, ResvStages
  <2>4. bookedFor[a] = "free" /\ bookedFor'[a] = "listening"
    BY <2>2, <2>3, <1>0 DEF BookedFacts
  <2>5. bookedFor' = [bookedFor EXCEPT ![a] = "listening"]
    BY <2>1, <2>2, <2>4, OneMoves
  <2>6. ownerOf' = ownerOf
    BY <1>1, <2>1, OwnersKept DEF Reserve, Live
  <2> QED
    BY <2>4, <2>5, <2>6 DEF Bookings!Ask
<1>2. ASSUME NEW r \in Resvs, ListenOk(r)
      PROVE  \E a \in Apps, p \in Ports : Bookings!Granted(a, p)
  <2> DEFINE a == resv[r].app
             p == resv[r].port
  <2>1. resv[r] \in Reservation /\ a \in Apps /\ p \in Ports /\ Live(r)
    BY <1>2 DEF ListenOk, Live, TunnelInv, TypeOK, Shape
  <2>2. /\ resv[r].stage = "listening" /\ ~resv[r].target
        /\ resv'[r] = [resv[r] EXCEPT !.stage = "held"]
        /\ \A q \in Resvs : q # r => resv'[q] = resv[q]
        /\ listener[p] = None /\ listener' = [listener EXCEPT ![p] = r]
    BY <1>2, <1>0 DEF ListenOk, TypeOK, TunnelInv, Shape
  <2>3. Live(r)' /\ resv'[r].app = a /\ StageOf(resv'[r]) = "held" /\ StageOf(resv[r]) = "listening"
    BY <2>1, <2>2, Retyped DEF Live, StageOf, ResvStages
  <2>4. bookedFor[a] = "listening" /\ bookedFor'[a] = "held"
    BY <2>1, <2>2, <2>3, <1>0 DEF BookedFacts
  <2>5. bookedFor' = [bookedFor EXCEPT ![a] = "held"]
    BY <2>1, <2>2, <2>3, <2>4, OneMoves
  <2>6. ASSUME NEW o \in Ports PROVE ownerOf'[o] = IF o = p THEN a ELSE ownerOf[o]
    <3>1. CASE o = p
      BY <2>2, <2>3, <3>1, <1>0 DEF ownerOf, TypeOK
    <3>2. CASE o # p
      <4>1. listener'[o] = listener[o] /\ listener[o] # r
        BY <2>2, <3>2, <1>0 DEF TypeOK, TunnelInv, ListenerIsHeld
      <4> QED
        BY <2>2, <3>2, <4>1, <1>0 DEF ownerOf, TypeOK
    <3> QED
      BY <3>1, <3>2
  <2>7. ownerOf' = [ownerOf EXCEPT ![p] = a] /\ ownerOf[p] = None
    BY <2>1, <2>2, <2>6 DEF ownerOf
  <2>8. Bookings!Granted(a, p)
    BY <2>4, <2>5, <2>7 DEF Bookings!Granted
  <2> QED
    BY <2>1, <2>8
<1>3. ASSUME NEW r \in Resvs, ListenFailed(r)
      PROVE  \E a \in Apps : Bookings!Refused(a)
  <2> DEFINE a == resv[r].app
  <2>1. a \in Apps /\ Live(r) /\ StageOf(resv[r]) = "listening"
    BY <1>3 DEF ListenFailed, Live, TunnelInv, Shape, StageOf
  <2>2. ~Live(r)' /\ \A q \in Resvs : q # r => resv'[q] = resv[q]
    BY <1>3, <1>0 DEF ListenFailed, Live, NoResv, TypeOK
  <2>3. \A q \in Resvs : Live(q)' => resv'[q].app # a
    BY <2>1, <2>2, <1>0 DEF OnePerApp, Live
  <2>4. bookedFor[a] = "listening" /\ bookedFor'[a] = "free"
    BY <2>1, <2>3, <1>0 DEF BookedFacts
  <2>5. bookedFor' = [bookedFor EXCEPT ![a] = "free"]
    BY <2>1, <2>2, <2>4, OneMoves
  <2>6. ownerOf' = ownerOf
    BY <1>3, <2>2, OwnersKept DEF ListenFailed
  <2>7. Bookings!Refused(a)
    BY <2>4, <2>5, <2>6 DEF Bookings!Refused
  <2> QED
    BY <2>1, <2>7
<1>4. ASSUME NEW r \in Resvs, Activate(r)
      PROVE  \E a \in Apps : Bookings!Activate(a)
  <2> DEFINE a == resv[r].app
  <2>1. resv[r] \in Reservation /\ a \in Apps /\ Live(r) /\ StageOf(resv[r]) = "held"
    BY <1>4 DEF Activate, Live, TunnelInv, TypeOK, Shape, StageOf
  <2>2. /\ resv[r].stage = "held"
        /\ resv'[r] = [resv[r] EXCEPT !.target = TRUE]
        /\ \A q \in Resvs : q # r => resv'[q] = resv[q]
    BY <1>4, <1>0 DEF Activate, TypeOK
  <2>3. Live(r)' /\ resv'[r].app = a /\ StageOf(resv'[r]) = "forwarding"
    BY <2>1, <2>2, Retyped DEF Live, StageOf
  <2>4. bookedFor[a] = "held" /\ bookedFor'[a] = "forwarding"
    BY <2>1, <2>3, <1>0 DEF BookedFacts
  <2>5. bookedFor' = [bookedFor EXCEPT ![a] = "forwarding"]
    BY <2>1, <2>2, <2>3, <2>4, OneMoves
  <2>6. ownerOf' = ownerOf
    BY <1>4, <2>2, <2>3, OwnersKept DEF Activate
  <2>7. Bookings!Activate(a)
    BY <2>4, <2>5, <2>6 DEF Bookings!Activate
  <2> QED
    BY <2>1, <2>7
<1>5. ASSUME NEW r \in Resvs, Released(r)
      PROVE  \E a \in Apps : Bookings!Ended(a)
  <2> DEFINE a == resv[r].app
  <2>1. a \in Apps /\ Live(r) /\ StageOf(resv[r]) = "closing"
    BY <1>5 DEF Released, Live, TunnelInv, Shape, StageOf
  <2>2. ~Live(r)' /\ \A q \in Resvs : q # r => resv'[q] = resv[q]
    BY <1>5, <1>0 DEF Released, Live, NoResv, TypeOK
  <2>3. \A q \in Resvs : Live(q)' => resv'[q].app # a
    BY <2>1, <2>2, <1>0 DEF OnePerApp, Live
  <2>4. bookedFor[a] = "closing" /\ bookedFor'[a] = "free"
    BY <2>1, <2>3, <1>0 DEF BookedFacts
  <2>5. bookedFor' = [bookedFor EXCEPT ![a] = "free"]
    BY <2>1, <2>2, <2>4, OneMoves
  <2>6. ownerOf' = ownerOf
    BY <1>5, <2>2, OwnersKept DEF Released
  <2>7. Bookings!Ended(a)
    BY <2>4, <2>5, <2>6 DEF Bookings!Ended
  <2> QED
    BY <2>1, <2>7
<1>6. ASSUME NEW R \in SUBSET Resvs, Freed(R)
      PROVE  \E A \in SUBSET Apps : Bookings!GiveUp(A)
  <2> DEFINE A == {resv[q].app : q \in R}
  <2>1. \A q \in R : Live(q) /\ resv[q].app \in Apps /\ StageOf(resv[q]) \in {"held", "forwarding"}
    BY <1>6 DEF Freed, Live, StageOf, TunnelInv, Shape
  <2>2. \A q \in R : Live(q)' /\ resv'[q].app = resv[q].app /\ StageOf(resv'[q]) = "closing"
    BY <1>6 DEF Freed, Live, StageOf
  <2>3. \A q \in Resvs : q \notin R => resv'[q] = resv[q]
    BY <1>6 DEF Freed
  <2>4. A \in SUBSET Apps
    BY <2>1
  <2>5. \A a \in A : bookedFor[a] \in {"held", "forwarding"}
    BY <2>1, <1>0 DEF BookedFacts
  <2>6. ASSUME NEW a \in Apps
        PROVE  bookedFor'[a] = IF a \in A THEN "closing" ELSE bookedFor[a]
    <3>1. CASE a \in A
      BY <2>2, <3>1, <1>0 DEF BookedFacts
    <3>2. CASE a \notin A /\ \E q \in Resvs : Live(q) /\ resv[q].app = a
      <4>1. PICK q \in Resvs : Live(q) /\ resv[q].app = a
        BY <3>2
      <4>2. q \notin R /\ resv'[q] = resv[q] /\ Live(q)'
        BY <2>3, <3>2, <4>1 DEF Live
      <4> QED
        BY <3>2, <4>1, <4>2, <1>0 DEF BookedFacts
    <3>3. CASE a \notin A /\ \A q \in Resvs : Live(q) => resv[q].app # a
      <4>1. \A q \in Resvs : Live(q)' => resv'[q].app # a
        BY <2>1, <2>2, <2>3, <3>3 DEF Live
      <4> QED
        BY <3>3, <4>1, <1>0 DEF BookedFacts
    <3> QED
      BY <3>1, <3>2, <3>3
  <2>7. ASSUME NEW p \in Ports
        PROVE  ownerOf'[p] = IF ownerOf[p] \in A THEN None ELSE ownerOf[p]
    <3>1. CASE listener[p] = None
      <4>1. listener'[p] = None
        BY <1>6, <3>1 DEF Freed
      <4> QED
        BY <3>1, <4>1 DEF ownerOf
    <3>2. CASE listener[p] \in R
      <4>1. listener'[p] = None
        BY <1>6, <3>2 DEF Freed
      <4>2. listener[p] # None
        BY <3>2
      <4> QED
        BY <3>2, <4>1, <4>2 DEF ownerOf
    <3>3. CASE listener[p] \notin R /\ listener[p] # None
      <4>1. listener[p] \in Resvs /\ resv'[listener[p]] = resv[listener[p]] /\ listener'[p] = listener[p]
        BY <1>6, <2>3, <3>3, <1>0 DEF Freed, TypeOK
      <4>2. Live(listener[p])
        BY <4>1 DEF TunnelInv, ListenerIsHeld, Live
      <4>3. resv[listener[p]].app \notin A
        BY <2>1, <3>3, <4>1, <4>2, <1>0 DEF OnePerApp
      <4> QED
        BY <3>3, <4>1, <4>3 DEF ownerOf
    <3> QED
      BY <3>1, <3>2, <3>3
  <2>8. /\ bookedFor' = [a \in Apps |-> bookedFor'[a]]
        /\ ownerOf' = [p \in Ports |-> ownerOf'[p]]
    BY DEF bookedFor, ownerOf
  <2>9. Bookings!GiveUp(A)
    BY <2>5, <2>6, <2>7, <2>8 DEF Bookings!GiveUp
  <2> QED
    BY <2>4, <2>9
<1>7. ASSUME resv' = resv, listener' = listener
      PROVE  UNCHANGED Bookings!portVars
  BY <1>7 DEF Bookings!portVars, bookedFor, ownerOf, ResvsFor
<1>8. ASSUME NEW r \in Resvs, NEW k \in Conns, Accept(r, k)
      PROVE  resv' = resv /\ listener' = listener
  BY <1>8 DEF Accept
<1>9. ASSUME NEW k \in Conns, ClientGone(k) \/ ForwardOk(k) \/ ForwardFailed(k) \/ ConnEnds(k)
      PROVE  resv' = resv /\ listener' = listener
  BY <1>9 DEF ClientGone, ForwardOk, ForwardFailed, ConnEnds
<1>10. ASSUME UNCHANGED tunnelVars
       PROVE  resv' = resv /\ listener' = listener
  BY <1>10 DEF tunnelVars
<1> QED
  BY <1>0, <1>1, <1>2, <1>3, <1>4, <1>5, <1>6, <1>7, <1>8, <1>9, <1>10, ReleaseForms
     DEF Bookings!Next

(* The tunnel manager keeps the promise of PortReservations, on which
   AppRuntimeProofs builds, for any number of reservations, connections and
   ports. *)
THEOREM ReservationsImplemented == Spec => ImplementsReservations
<1>1. Init => Bookings!Init
  <2> SUFFICES ASSUME Init PROVE Bookings!Init
    OBVIOUS
  <2>1. \A a \in Apps : ResvsFor(a) = {}
    BY DEF Init, ResvsFor, NoResv
  <2> QED
    BY <2>1 DEF Init, Bookings!Init, bookedFor, ownerOf
<1>2. TunnelInv /\ TunnelInv' /\ [Next]_tunnelVars => [Bookings!Next]_(Bookings!portVars)
  BY ReservationStep
<1> QED
  BY <1>1, <1>2, TunnelInvariant, PTL DEF Spec, ImplementsReservations, Bookings!Spec
=============================================================================
