---------------------------- MODULE SessionLeases ----------------------------
(***************************************************************************)
(* What the session pool promises to the code that borrows SSH sessions,   *)
(* without pool, reference counts or races: a caller is lent an open       *)
(* session, keeps it until it gives it back, and the service never closes  *)
(* a session that somebody else still holds.  Only the network ("lost") or *)
(* the shutdown of the whole service ("shutdown") may take a session away  *)
(* from its holder.  SessionPool.tla is shown to implement this module.    *)
(***************************************************************************)
EXTENDS Naturals

CONSTANTS
    Callers,    \* whoever borrows sessions (in the server: applications)
    Sessions,   \* identities of SSH sessions
    None        \* no session: not a member of Sessions

VARIABLES
    holder,     \* the session each caller holds, or None
    status      \* what has become of each session

leaseVars == <<holder, status>>

Statuses == {"unused", "open", "closed", "lost", "shutdown"}

LeaseTypeOK ==
    /\ holder \in [Callers -> Sessions \union {None}]
    /\ status \in [Sessions -> Statuses]

HoldersOf(s) == {c \in Callers : holder[c] = s}

-----------------------------------------------------------------------------

Init ==
    /\ holder = [c \in Callers |-> None]
    /\ status = [s \in Sessions |-> "unused"]

\* An open session is lent to one more caller.
Share(c, s) ==
    /\ holder[c] = None
    /\ status[s] = "open"
    /\ holder' = [holder EXCEPT ![c] = s]
    /\ UNCHANGED status

\* A new session is opened for a caller.
Open(c, s) ==
    /\ holder[c] = None
    /\ status[s] # "open"
    /\ HoldersOf(s) = {}
    /\ holder' = [holder EXCEPT ![c] = s]
    /\ status' = [status EXCEPT ![s] = "open"]

\* A caller gives its session back and the session stays as it is.
GiveBack(c) ==
    /\ holder[c] # None
    /\ holder' = [holder EXCEPT ![c] = None]
    /\ UNCHANGED status

\* A caller gives its session back; nobody else holds it, so it is closed.
GiveBackAndClose(c, s) ==
    /\ holder[c] = s
    /\ HoldersOf(s) = {c}
    /\ holder' = [holder EXCEPT ![c] = None]
    /\ status' = [status EXCEPT ![s] = "closed"]

\* The connection under an open session breaks.
Lose(s) ==
    /\ status[s] = "open"
    /\ status' = [status EXCEPT ![s] = "lost"]
    /\ UNCHANGED holder

\* The service stops and takes some of the open sessions down with it.
StopService(S) ==
    /\ \A s \in S : status[s] = "open"
    /\ status' = [s \in Sessions |-> IF s \in S THEN "shutdown" ELSE status[s]]
    /\ UNCHANGED holder

Next ==
    \/ \E c \in Callers : GiveBack(c)
    \/ \E c \in Callers, s \in Sessions :
           Share(c, s) \/ Open(c, s) \/ GiveBackAndClose(c, s)
    \/ \E s \in Sessions : Lose(s)
    \/ \E S \in SUBSET Sessions : StopService(S)

Spec == Init /\ [][Next]_leaseVars

-----------------------------------------------------------------------------

(* A session somebody holds was never closed by the service: no release of
   one borrower ends the session of another. *)
HeldNeverClosed ==
    \A c \in Callers : holder[c] # None => status[holder[c]] \notin {"unused", "closed"}
=============================================================================
