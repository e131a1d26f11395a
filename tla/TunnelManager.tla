---------------------------- MODULE TunnelManager ----------------------------
(***************************************************************************)
(* apps/server/src/tunnels/tunnel-manager.ts: local ports reserved for     *)
(* applications, and the connections forwarded through them.               *)
(*                                                                         *)
(* Waits, and so step boundaries: the listening socket (reserve), the SSH  *)
(* channel of each connection (openForward), and the close callback of the *)
(* listening socket (release), which comes after the socket's last         *)
(* connection has ended.  A client may leave before its channel is there:  *)
(* nobody listens on the socket yet, and the answer finds a dead one.      *)
(*                                                                         *)
(* A reservation and a connection are identities, used again once nothing  *)
(* refers to them.  reserve checks its map before it waits and enters the  *)
(* reservation after: two overlapping calls for one application would both *)
(* pass.  Only the caller (AppRuntime.tla, the map inFlight) excludes      *)
(* them; Next assumes it, in the conjunct ~InFlight(a).                    *)
(***************************************************************************)
EXTENDS Naturals, FiniteSets

CONSTANTS
    Apps,       \* remote applications
    Ports,      \* local TCP ports
    Resvs,      \* identities of Reservation objects
    Conns,      \* identities of accepted connections
    None        \* no reservation

ASSUME NoneAssumption == None \notin Resvs \union Apps

VARIABLES
    resv,           \* the Reservation objects
    reservations,   \* the map of the same name: the reservation of each app
    handles,        \* the map active: the app's reservation once activated
    listener,       \* the reservation listening on each port
    conn            \* the accepted connections

tunnelVars == <<resv, reservations, handles, listener, conn>>

\* "gone": not created, or its release has run to its end.
ResvStages == {"gone", "listening", "held", "closing"}

\* target: whether activate has set a target that release has not cleared.
Reservation == [stage : ResvStages, app : Apps \union {None},
                port : Ports \union {None}, target : BOOLEAN]

\* "pending": openForward has been asked and has not answered; "orphaned": the
\* same, but the client is gone.
Connection == [stage : {"none", "pending", "orphaned", "forwarding"},
               via : Resvs \union {None}]

TypeOK ==
    /\ resv \in [Resvs -> Reservation]
    /\ reservations \in [Apps -> Resvs \union {None}]
    /\ handles \in [Apps -> Resvs \union {None}]
    /\ listener \in [Ports -> Resvs \union {None}]
    /\ conn \in [Conns -> Connection]

NoResv == [stage |-> "gone", app |-> None, port |-> None, target |-> FALSE]
NoConn == [stage |-> "none", via |-> None]

\* The connections of r whose sockets are open: its server waits for them.
ConnsOf(r) == {k \in Conns : conn[k].via = r /\ conn[k].stage # "orphaned"}

\* A call of reserve for the application waits for its socket.
InFlight(a) == \E r \in Resvs : resv[r].app = a /\ resv[r].stage = "listening"

\* The identity r is free for a new reservation.
Unused(r) == resv[r].stage = "gone" /\ \A k \in Conns : conn[k].via # r

-----------------------------------------------------------------------------
(* Reserving and activating. *)

Init ==
    /\ resv = [r \in Resvs |-> NoResv]
    /\ reservations = [a \in Apps |-> None]
    /\ handles = [a \in Apps |-> None]
    /\ listener = [p \in Ports |-> None]
    /\ conn = [k \in Conns |-> NoConn]

\* Mutant: reserve does not look for a reservation of the application.
ReserveUnchecked(r, a, p) ==
    /\ Unused(r)
    /\ resv' = [resv EXCEPT ![r] =
                  [stage |-> "listening", app |-> a, port |-> p, target |-> FALSE]]
    /\ UNCHANGED <<reservations, handles, listener, conn>>

\* reserve finds no reservation of the application and starts to listen.  (One
\* that finds a reservation throws RESOURCE_BUSY and changes nothing.)
Reserve(r, a, p) ==
    /\ Unused(r)
    /\ reservations[a] = None
    /\ resv' = [resv EXCEPT ![r] =
                  [stage |-> "listening", app |-> a, port |-> p, target |-> FALSE]]
    /\ UNCHANGED <<reservations, handles, listener, conn>>

\* Mutant: the map gets the port instead of the reservation.
ListenOkMapsPort(r) ==
    /\ resv[r].stage = "listening"
    /\ listener[resv[r].port] = None
    /\ resv' = [resv EXCEPT ![r].stage = "held"]
    /\ listener' = [listener EXCEPT ![resv[r].port] = r]
    /\ reservations' = [reservations EXCEPT ![resv[r].app] = resv[r].port]
    /\ UNCHANGED <<handles, conn>>

\* The socket listens and reserve enters the reservation in its map.
ListenOk(r) ==
    /\ resv[r].stage = "listening"
    /\ listener[resv[r].port] = None
    /\ resv' = [resv EXCEPT ![r].stage = "held"]
    /\ listener' = [listener EXCEPT ![resv[r].port] = r]
    /\ reservations' = [reservations EXCEPT ![resv[r].app] = r]
    /\ UNCHANGED <<handles, conn>>

\* The port is taken, by another reservation or by another program.
ListenFailed(r) ==
    /\ resv[r].stage = "listening"
    /\ resv' = [resv EXCEPT ![r] = NoResv]
    /\ UNCHANGED <<reservations, handles, listener, conn>>

\* activate sets the target; it throws on a reservation that is released or
\* active already.
Activate(r) ==
    /\ resv[r].stage = "held"
    /\ ~resv[r].target
    /\ resv' = [resv EXCEPT ![r].target = TRUE]
    /\ handles' = [handles EXCEPT ![resv[r].app] = r]
    /\ UNCHANGED <<reservations, listener, conn>>

-----------------------------------------------------------------------------
(* Connections. *)

\* A client connects to the port and accept asks for an SSH channel.  (Without
\* a target, accept destroys the socket at once.)
Accept(r, k) ==
    /\ resv[r].stage = "held"
    /\ resv[r].target
    /\ conn[k] = NoConn
    /\ conn' = [conn EXCEPT ![k] = [stage |-> "pending", via |-> r]]
    /\ UNCHANGED <<resv, reservations, handles, listener>>

\* The client closes its end before the channel is open.  accept has put no
\* listener on the socket yet, so all that happens is that the socket is gone.
ClientGone(k) ==
    /\ conn[k].stage = "pending"
    /\ conn' = [conn EXCEPT ![k].stage = "orphaned"]
    /\ UNCHANGED <<resv, reservations, handles, listener>>

\* Mutant: the answer does not look whether the reservation was released.
ForwardOkUnchecked(k) ==
    /\ conn[k].stage \in {"pending", "orphaned"}
    /\ conn' = [conn EXCEPT ![k].stage = "forwarding"]
    /\ UNCHANGED <<resv, reservations, handles, listener>>

\* The SSH channel opens.  If the reservation was released meanwhile, stream
\* and socket are destroyed, otherwise they become a forward: with a socket that
\* closed before, one that lasts until its channel ends or the release.
ForwardOk(k) ==
    /\ conn[k].stage \in {"pending", "orphaned"}
    /\ conn' = [conn EXCEPT ![k] =
                  IF resv[@.via].stage = "held" THEN [@ EXCEPT !.stage = "forwarding"]
                                                ELSE NoConn]
    /\ UNCHANGED <<resv, reservations, handles, listener>>

\* The SSH channel is refused: the socket is destroyed.
ForwardFailed(k) ==
    /\ conn[k].stage \in {"pending", "orphaned"}
    /\ conn' = [conn EXCEPT ![k] = NoConn]
    /\ UNCHANGED <<resv, reservations, handles, listener>>

\* Either end of a forward closes or fails: cleanup ends both.
ConnEnds(k) ==
    /\ conn[k].stage = "forwarding"
    /\ conn' = [conn EXCEPT ![k] = NoConn]
    /\ UNCHANGED <<resv, reservations, handles, listener>>

-----------------------------------------------------------------------------
(* Releasing. *)

\* release of the reservations in R up to its wait: target cleared, forwards
\* destroyed, the socket no longer listens.  A connection whose channel is
\* pending is not among the forwards and stays.
StartRelease(R) ==
    /\ resv' = [r \in Resvs |-> IF r \in R THEN [resv[r] EXCEPT !.stage = "closing",
                                                                !.target = FALSE]
                                           ELSE resv[r]]
    /\ listener' = [p \in Ports |-> IF listener[p] \in R THEN None ELSE listener[p]]
    /\ conn' = [k \in Conns |->
                   IF conn[k].stage = "forwarding" /\ conn[k].via \in R
                   THEN NoConn ELSE conn[k]]
    /\ UNCHANGED <<reservations, handles>>

\* The caller releases a reservation, or closes the tunnel handle, which is
\* the same.  (A second release returns at once.)
Release(r) ==
    /\ resv[r].stage = "held"
    /\ StartRelease({r})

\* closeAll releases every reservation of the map.
CloseAll ==
    LET R == {r \in Resvs : \E a \in Apps : reservations[a] = r}
    IN  StartRelease({r \in R : resv[r].stage = "held"})

\* The close callback runs once the last connection has ended; onReleased
\* removes the application's entries, whichever reservation they are of.
Released(r) ==
    LET a == resv[r].app IN
    /\ resv[r].stage = "closing"
    /\ ConnsOf(r) = {}
    /\ reservations' = [reservations EXCEPT ![a] = None]
    /\ handles' = [handles EXCEPT ![a] = None]
    /\ resv' = [resv EXCEPT ![r] = NoResv]
    /\ UNCHANGED <<listener, conn>>

-----------------------------------------------------------------------------

Next ==
    \/ \E r \in Resvs :
           \/ \E a \in Apps, p \in Ports : ~InFlight(a) /\ Reserve(r, a, p)
           \/ ListenOk(r)
           \/ ListenFailed(r)
           \/ Activate(r)
           \/ \E k \in Conns : Accept(r, k)
           \/ Release(r)
           \/ Released(r)
    \/ \E k \in Conns : ClientGone(k) \/ ForwardOk(k) \/ ForwardFailed(k) \/ ConnEnds(k)
    \/ CloseAll

Spec == Init /\ [][Next]_tunnelVars

\* The operating system answers listen and reports closed sockets; ssh2 answers
\* every channel request sooner or later, with a failure when the connection
\* is lost.  Nobody has to connect, disconnect or release.
Fairness ==
    /\ \A r \in Resvs : WF_tunnelVars(ListenOk(r) \/ ListenFailed(r))
    /\ \A r \in Resvs : WF_tunnelVars(Released(r))
    /\ \A k \in Conns : WF_tunnelVars(ForwardOk(k) \/ ForwardFailed(k))

FairSpec == Spec /\ Fairness

-----------------------------------------------------------------------------
(* Correctness. *)

(* Every reservation whose port was granted is the one the map has for its
   application until its release has ended: closeAll, and the check that
   refuses a second reservation, see all of them. *)
MapHasEveryReservation ==
    \A r \in Resvs, a \in Apps :
        (resv[r].stage \in {"held", "closing"} /\ resv[r].app = a) <=> reservations[a] = r

(* A port is listened on by a reservation that is held for that port, and a
   released reservation has left its port. *)
ListenerIsHeld ==
    \A r \in Resvs, p \in Ports :
        listener[p] = r <=> (resv[r].stage = "held" /\ resv[r].port = p)

(* No traffic flows through a reservation that was released, even when the SSH
   channel of a connection opens after the release. *)
NoForwardAfterRelease ==
    \A k \in Conns : conn[k].stage = "forwarding" =>
        resv[conn[k].via].stage = "held" /\ resv[conn[k].via].target

(* The handle the manager reports for an application is that of its current,
   activated reservation, until its release has ended. *)
HandleIsCurrent ==
    \A a \in Apps : handles[a] # None =>
        /\ reservations[a] = handles[a]
        /\ resv[handles[a]].stage = "closing" \/ resv[handles[a]].target

(* A release that has begun ends, whatever clients and channels do, and the
   application can be given a port again. *)
ReleaseEnds ==
    \A r \in Resvs : resv[r].stage = "closing" ~> resv[r].stage = "gone"

\* The stage and the port of each application's reservation.
ResvsFor(a) == {r \in Resvs : resv[r].stage # "gone" /\ resv[r].app = a}
bookedFor ==
    [a \in Apps |->
        IF ResvsFor(a) = {} THEN "free"
        ELSE LET x == resv[CHOOSE r \in ResvsFor(a) : TRUE]
             IN  IF x.stage = "held" /\ x.target THEN "forwarding" ELSE x.stage]
ownerOf == [p \in Ports |-> IF listener[p] = None THEN None ELSE resv[listener[p]].app]

(* The tunnel manager keeps the promise of PortReservations. *)
Bookings == INSTANCE PortReservations WITH booked <- bookedFor, owner <- ownerOf

ImplementsReservations == Bookings!Spec
=============================================================================
