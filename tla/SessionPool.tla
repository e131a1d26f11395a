----------------------------- MODULE SessionPool -----------------------------
(***************************************************************************)
(* apps/server/src/ssh/session-pool.ts: the pool that lends SSH sessions,  *)
(* one pool entry per server with a count of its leases.                   *)
(*                                                                         *)
(* JavaScript runs one event at a time, so an operation is atomic up to    *)
(* its next real wait.  The only real wait is factory.connect in acquire,  *)
(* which therefore is two steps: AcquireMiss before it, Connected or       *)
(* ConnectFailed after it.  Everything else, session.close included (it    *)
(* only calls client.end()), is one step.                                  *)
(*                                                                         *)
(* A caller is whoever calls acquire and keeps the lease it returns.       *)
(***************************************************************************)
EXTENDS Naturals, FiniteSets

CONSTANTS
    Callers,    \* the callers of acquire
    Servers,    \* configured servers
    Sessions,   \* identities of SSH sessions
    ServerOf,   \* the server each caller connects to
    HostOf,     \* the server each session is connected to
    None        \* no entry, no session

ASSUME CallersAssumption == IsFiniteSet(Callers)
ASSUME ServerOfAssumption == ServerOf \in [Callers -> Servers]
ASSUME HostOfAssumption == HostOf \in [Sessions -> Servers]
ASSUME NoneAssumption == None \notin Sessions

VARIABLES
    pool,       \* the Map sessions: per server an Entry, or None
    sess,       \* what has become of each session
    phase,      \* where each caller is: in acquire, holding a lease, after it
    lease       \* the session of the lease a caller holds or has released

poolVars == <<pool, sess, phase, lease>>

Statuses == {"unused", "open", "closed", "lost", "shutdown"}
Phases == {"idle", "connecting", "holding", "released"}

\* type Entry, without the listener it unregisters
Entry == [session : Sessions, leases : Nat]

\* None is told from an entry by its domain: a model value has no fields.
NoEntry == [session |-> None, leases |-> 0]

TypeOK ==
    /\ pool \in [Servers -> Entry \union {NoEntry}]
    /\ sess \in [Sessions -> Statuses]
    /\ phase \in [Callers -> Phases]
    /\ lease \in [Callers -> Sessions \union {None}]

\* The callers whose unreleased lease is on session s.
Holders(s) == {c \in Callers : phase[c] = "holding" /\ lease[c] = s}

\* A session factory.connect may return: no caller knows it from before.
Fresh(s) == sess[s] # "open" /\ \A c \in Callers : lease[c] # s

-----------------------------------------------------------------------------
(* The operations of the pool. *)

Init ==
    /\ pool = [v \in Servers |-> NoEntry]
    /\ sess = [s \in Sessions |-> "unused"]
    /\ phase = [c \in Callers |-> "idle"]
    /\ lease = [c \in Callers |-> None]

\* Mutant: the lease is not counted.
AcquireHitUncounted(c) ==
    LET v == ServerOf[c] IN
    /\ phase[c] \in {"idle", "released"}
    /\ pool[v] # NoEntry
    /\ phase' = [phase EXCEPT ![c] = "holding"]
    /\ lease' = [lease EXCEPT ![c] = pool[v].session]
    /\ UNCHANGED <<pool, sess>>

\* acquire finds an entry and takes a lease on it without waiting.
AcquireHit(c) ==
    LET v == ServerOf[c] IN
    /\ phase[c] \in {"idle", "released"}
    /\ pool[v] # NoEntry
    /\ pool' = [pool EXCEPT ![v].leases = @ + 1]
    /\ phase' = [phase EXCEPT ![c] = "holding"]
    /\ lease' = [lease EXCEPT ![c] = pool[v].session]
    /\ UNCHANGED sess

\* acquire finds no entry and starts to connect.
AcquireMiss(c) ==
    /\ phase[c] \in {"idle", "released"}
    /\ pool[ServerOf[c]] = NoEntry
    /\ phase' = [phase EXCEPT ![c] = "connecting"]
    /\ lease' = [lease EXCEPT ![c] = None]
    /\ UNCHANGED <<pool, sess>>

\* factory.connect returned a session: the entry is set, whatever the map
\* holds by now, and the caller gets its first lease.
Connected(c, s) ==
    LET v == ServerOf[c] IN
    /\ phase[c] = "connecting"
    /\ HostOf[s] = v
    /\ Fresh(s)
    /\ sess' = [sess EXCEPT ![s] = "open"]
    /\ pool' = [pool EXCEPT ![v] = [session |-> s, leases |-> 1]]
    /\ phase' = [phase EXCEPT ![c] = "holding"]
    /\ lease' = [lease EXCEPT ![c] = s]

\* factory.connect threw, and so does acquire.
ConnectFailed(c) ==
    /\ phase[c] = "connecting"
    /\ phase' = [phase EXCEPT ![c] = "idle"]
    /\ UNCHANGED <<pool, sess, lease>>

\* Mutant: release does not compare the entry's session with its own.
ReleaseStaleUnchecked(c) ==
    LET v == ServerOf[c] IN
    /\ phase[c] = "holding"
    /\ pool[v].session # lease[c]
    /\ pool' = [pool EXCEPT ![v].leases = @ - 1]
    /\ phase' = [phase EXCEPT ![c] = "released"]
    /\ UNCHANGED <<sess, lease>>

\* The lease's release gave up on the entry in the pool: it is not the one
\* the lease was taken on.
ReleaseStale(c) ==
    /\ phase[c] = "holding"
    /\ pool[ServerOf[c]].session # lease[c]
    /\ phase' = [phase EXCEPT ![c] = "released"]
    /\ UNCHANGED <<pool, sess, lease>>

\* A release that leaves other leases on the entry.
ReleaseShared(c) ==
    LET v == ServerOf[c] IN
    /\ phase[c] = "holding"
    /\ pool[v].session = lease[c]
    /\ pool[v].leases > 1
    /\ pool' = [pool EXCEPT ![v].leases = @ - 1]
    /\ phase' = [phase EXCEPT ![c] = "released"]
    /\ UNCHANGED <<sess, lease>>

\* Mutant: off by one, the last but one release closes the session.
ReleaseLastButOne(c) ==
    LET v == ServerOf[c] IN
    /\ phase[c] = "holding"
    /\ pool[v].session = lease[c]
    /\ pool[v].leases <= 2
    /\ pool' = [pool EXCEPT ![v] = NoEntry]
    /\ sess' = [sess EXCEPT ![lease[c]] = "closed"]
    /\ phase' = [phase EXCEPT ![c] = "released"]
    /\ UNCHANGED lease

\* The release of the last lease removes the entry and closes its session.
ReleaseLast(c) ==
    LET v == ServerOf[c] IN
    /\ phase[c] = "holding"
    /\ pool[v].session = lease[c]
    /\ pool[v].leases <= 1
    /\ pool' = [pool EXCEPT ![v] = NoEntry]
    /\ sess' = [sess EXCEPT ![lease[c]] = "closed"]
    /\ phase' = [phase EXCEPT ![c] = "released"]
    /\ UNCHANGED lease

\* A lease released a second time does nothing (the flag released).
ReleaseAgain(c) ==
    /\ phase[c] = "released"
    /\ UNCHANGED poolVars

Release(c) == ReleaseStale(c) \/ ReleaseShared(c) \/ ReleaseLast(c) \/ ReleaseAgain(c)

\* Mutant: the pool does not listen for lost connections.
DropUnnoticed(s) ==
    /\ sess[s] = "open"
    /\ sess' = [sess EXCEPT ![s] = "lost"]
    /\ UNCHANGED <<pool, phase, lease>>

\* The connection under s breaks and the pool's listener on s runs: it
\* removes the entry only if that entry still is the one of s.
Drop(s) ==
    LET v == HostOf[s] IN
    /\ sess[s] = "open"
    /\ sess' = [sess EXCEPT ![s] = "lost"]
    /\ pool' = [pool EXCEPT ![v] = IF pool[v].session = s THEN NoEntry ELSE @]
    /\ UNCHANGED <<phase, lease>>

\* closeAll empties the map and closes the sessions that were in it.
CloseAll ==
    /\ pool' = [v \in Servers |-> NoEntry]
    /\ sess' = [s \in Sessions |->
                   IF pool[HostOf[s]].session = s THEN "shutdown" ELSE sess[s]]
    /\ UNCHANGED <<phase, lease>>

Next ==
    \/ \E c \in Callers :
           \/ AcquireHit(c)
           \/ AcquireMiss(c)
           \/ ConnectFailed(c)
           \/ Release(c)
           \/ \E s \in Sessions : Connected(c, s)
    \/ \E s \in Sessions : Drop(s)
    \/ CloseAll

Spec == Init /\ [][Next]_poolVars

-----------------------------------------------------------------------------
(* Correctness. *)

(* The count of a pool entry is the number of unreleased leases on its
   session, never zero: it is what decides when the session is closed, and it
   survives overwritten entries, lost connections, double releases and leases
   that outlive their entry. *)
LeaseAccounting ==
    \A v \in Servers : pool[v] # NoEntry =>
        /\ pool[v].leases = Cardinality(Holders(pool[v].session))
        /\ pool[v].leases > 0

(* The pool lends only live sessions of the right server: a lost or closed
   session is never left in the map for the next acquire to find. *)
PooledIsOpen ==
    \A v \in Servers : pool[v] # NoEntry =>
        /\ sess[pool[v].session] = "open"
        /\ HostOf[pool[v].session] = v

(* A lease is on a session to the caller's own server, never on one found or
   filed under another server's id. *)
HeldOnOwnServer ==
    \A c \in Callers : phase[c] = "holding" =>
        lease[c] \in Sessions /\ HostOf[lease[c]] = ServerOf[c]

(* No release closes a session that another caller still holds. *)
LeasedNeverClosed ==
    \A c \in Callers : phase[c] = "holding" => sess[lease[c]] \notin {"unused", "closed"}

(* "If no other active application uses the server, the shared SSH session is
   closed" (design section 9.4 item 2): once nobody holds or is acquiring a
   lease for a server, no session to it is open. *)
IdleServerHasNoSession ==
    \A s \in Sessions : sess[s] = "open" =>
        \E c \in Callers : ServerOf[c] = HostOf[s] /\ phase[c] \in {"connecting", "holding"}

\* The lease each caller can still use, as SessionLeases sees it.
heldSession == [c \in Callers |-> IF phase[c] = "holding" THEN lease[c] ELSE None]

(* The pool keeps the promise of SessionLeases. *)
Leases == INSTANCE SessionLeases WITH holder <- heldSession, status <- sess

ImplementsLeases == Leases!Spec
=============================================================================
