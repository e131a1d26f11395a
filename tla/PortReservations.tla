-------------------------- MODULE PortReservations ---------------------------
(***************************************************************************)
(* What the tunnel manager promises about local ports, one reservation per *)
(* application: a port is asked for, granted or refused, opened for        *)
(* forwarding, and given up.  Giving up frees the port at once, but the    *)
(* application's reservation is not over before all connections through it *)
(* have ended.  TunnelManager.tla is shown to implement this module, and   *)
(* AppRuntime.tla uses it.                                                 *)
(***************************************************************************)
EXTENDS Naturals

CONSTANTS
    Apps,       \* remote applications
    Ports,      \* local TCP ports
    None        \* nobody

VARIABLES
    booked,     \* the stage each application's reservation is in
    owner       \* the application listening on each port, or None

portVars == <<booked, owner>>

Stages == {"free", "listening", "held", "forwarding", "closing"}

PortTypeOK ==
    /\ booked \in [Apps -> Stages]
    /\ owner \in [Ports -> Apps \union {None}]

\* The stages in which reserve finds the application in its map.
Registered(a) == booked[a] \in {"held", "forwarding", "closing"}

-----------------------------------------------------------------------------

Init ==
    /\ booked = [a \in Apps |-> "free"]
    /\ owner = [p \in Ports |-> None]

\* reserve has found no reservation and has started to listen.
Ask(a) ==
    /\ booked[a] = "free"
    /\ booked' = [booked EXCEPT ![a] = "listening"]
    /\ UNCHANGED owner

\* The port was free and is now this application's.
Granted(a, p) ==
    /\ booked[a] = "listening"
    /\ owner[p] = None
    /\ booked' = [booked EXCEPT ![a] = "held"]
    /\ owner' = [owner EXCEPT ![p] = a]

\* Somebody else, inside or outside this program, has the port.
Refused(a) ==
    /\ booked[a] = "listening"
    /\ booked' = [booked EXCEPT ![a] = "free"]
    /\ UNCHANGED owner

\* Connections to the port are forwarded from now on.
Activate(a) ==
    /\ booked[a] = "held"
    /\ booked' = [booked EXCEPT ![a] = "forwarding"]
    /\ UNCHANGED owner

\* The applications of A stop listening: their ports are free, their
\* reservations end when the last connection does.
GiveUp(A) ==
    /\ \A a \in A : booked[a] \in {"held", "forwarding"}
    /\ booked' = [a \in Apps |-> IF a \in A THEN "closing" ELSE booked[a]]
    /\ owner' = [p \in Ports |-> IF owner[p] \in A THEN None ELSE owner[p]]

\* The last connection has ended and so has the reservation.
Ended(a) ==
    /\ booked[a] = "closing"
    /\ booked' = [booked EXCEPT ![a] = "free"]
    /\ UNCHANGED owner

\* Ended and, in the same turn of the event loop, asked for again.
EndedThenAsk(a) ==
    /\ booked[a] = "closing"
    /\ booked' = [booked EXCEPT ![a] = "listening"]
    /\ UNCHANGED owner

Next ==
    \/ \E a \in Apps :
           \/ Ask(a) \/ Refused(a) \/ Activate(a) \/ Ended(a) \/ EndedThenAsk(a)
           \/ \E p \in Ports : Granted(a, p)
    \/ \E A \in SUBSET Apps : GiveUp(A)

Spec == Init /\ [][Next]_portVars

-----------------------------------------------------------------------------

(* An application listens on a port exactly while it holds a reservation that
   nobody has given up, and on one port only. *)
ListeningIsBooked ==
    /\ \A p \in Ports : owner[p] # None => booked[owner[p]] \in {"held", "forwarding"}
    /\ \A a \in Apps : booked[a] \in {"held", "forwarding"} => \E p \in Ports : owner[p] = a
    /\ \A p, q \in Ports : owner[p] = owner[q] /\ owner[p] # None => p = q
=============================================================================
