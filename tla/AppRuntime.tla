----------------------------- MODULE AppRuntime ------------------------------
(***************************************************************************)
(* apps/server/src/runtime/app-runtime-service.ts: connecting applications,*)
(* disconnecting them, and reconnecting them when their SSH session is     *)
(* lost.  It composes the session pool (SessionPool, one caller per        *)
(* application) and the reservations of local ports (PortReservations).    *)
(*                                                                         *)
(* An async function of the code is a chain of steps between its waits;    *)
(* "attempt", "teardown" and "loop" are the program counters of            *)
(* connectInternal, of disconnect and handleUnexpectedDisconnect up to     *)
(* their release of the port, and of the retry loop.  The name of a stage  *)
(* is what the function is waiting for.                                    *)
(*                                                                         *)
(* The records of the applications change under way: they are created,     *)
(* edited and deleted without a question to the runtime.                   *)
(*                                                                         *)
(* Not modelled here: shutdown, a server deleted together with the record  *)
(* of its applications (the same NOT_FOUND), logs.                         *)
(***************************************************************************)
EXTENDS Naturals, FiniteSets

CONSTANTS
    Apps,               \* remote applications
    Servers,            \* servers they run on
    Sessions,           \* identities of SSH sessions
    Ports,              \* local ports
    ServerOf,           \* app.serverId
    HostOf,             \* the server a session is connected to
    PortOf,             \* app.localPort, at first
    Editable,           \* bound: the apps whose records change
    AutoStart,          \* apps with autoStart and a startCommand
    StopOnDisconnect,   \* apps with stopOnDisconnect and a stopCommand
    Loops,              \* bound: how many retry loops one app can have at once
    None

ASSUME AppsAssumption == IsFiniteSet(Apps) /\ None \notin Apps
ASSUME ServerOfAssumption == ServerOf \in [Apps -> Servers]
ASSUME HostOfAssumption == HostOf \in [Sessions -> Servers]
ASSUME PortOfAssumption == PortOf \in [Apps -> Ports]
ASSUME EditableAssumption == Editable \subseteq Apps
ASSUME OptionsAssumption == AutoStart \subseteq Apps /\ StopOnDisconnect \subseteq Apps
ASSUME NoneAssumption == None \notin Sessions /\ None \notin Ports

VARIABLES
    pool, sess, phase, lease,   \* the session pool
    booked, owner,              \* the port reservations
    row,        \* the localPort of each record in the database, or None
    localPort,  \* that of the record the attempt, or the active entry, has read
    attempt,    \* connectInternal, at most one per app (map inFlight)
    started,    \* startedByLaunchpad of the attempt or of the active entry
    active,     \* the keys of the map active
    teardown,   \* an entry taken out of active and not yet released
    again,      \* the disconnect under way is the first half of a reconnect
    loop,       \* the retry loops of handleUnexpectedDisconnect
    status      \* the last snapshot published for each app

sessionVars == <<pool, sess, phase, lease>>
portVars == <<booked, owner>>
entryVars == <<active, teardown, again>>
fixed == <<row, localPort, started>>
vars == <<pool, sess, phase, lease, booked, owner, row, localPort,
          attempt, started, active, teardown, again, loop, status>>

Pool == INSTANCE SessionPool WITH Callers <- Apps
Booking == INSTANCE PortReservations

\* The waits of connectInternal, in order; "closing" is that of its catch.
Attempts == {"idle", "reserving", "acquiring", "probing", "starting",
             "polling", "checking", "closing"}

\* "stopping": the stop command runs.  "releasing" and "losing": the port is
\* being released, by disconnect and by handleUnexpectedDisconnect.
Teardowns == {"none", "stopping", "releasing", "losing"}

\* A retry loop and the number of the delay it is at: waiting for the entry's
\* release, for its delay, or for its connect.
LoopStates == [at : {"off", "closing", "sleep", "await"}, n : 0..3]
Off == [at |-> "off", n |-> 0]

Status == {"disconnected", "checking", "connecting", "starting", "tunneling",
           "healthy", "error"}

TypeOK ==
    /\ Pool!TypeOK
    /\ Booking!PortTypeOK
    /\ row \in [Apps -> Ports \union {None}]
    /\ localPort \in [Apps -> Ports \union {None}]
    /\ attempt \in [Apps -> Attempts]
    /\ started \in [Apps -> BOOLEAN]
    /\ active \subseteq Apps
    /\ teardown \in [Apps -> Teardowns]
    /\ again \in [Apps -> BOOLEAN]
    /\ loop \in [Apps -> [Loops -> LoopStates]]
    /\ status \in [Apps -> Status]

Init ==
    /\ Pool!Init
    /\ Booking!Init
    /\ row = PortOf
    /\ localPort = [a \in Apps |-> None]
    /\ attempt = [a \in Apps |-> "idle"]
    /\ started = [a \in Apps |-> FALSE]
    /\ active = {}
    /\ teardown = [a \in Apps |-> "none"]
    /\ again = [a \in Apps |-> FALSE]
    /\ loop = [a \in Apps |-> [l \in Loops |-> Off]]
    /\ status = [a \in Apps |-> "disconnected"]

-----------------------------------------------------------------------------
(* Pieces of the handlers. *)

Publish(a, st) == status' = [status EXCEPT ![a] = st]
Goto(a, stage) == attempt' = [attempt EXCEPT ![a] = stage]

\* connectInternal with the record it has found, up to its first wait, the
\* listening socket.
Begin(a) ==
    /\ row[a] # None
    /\ localPort' = [localPort EXCEPT ![a] = row[a]]
    /\ started' = [started EXCEPT ![a] = FALSE]
    /\ Goto(a, "reserving")
    /\ Publish(a, "checking")
    /\ UNCHANGED row

StartAttempt(a) ==
    /\ attempt[a] = "idle"
    /\ Booking!Ask(a)
    /\ Begin(a)

\* connectInternal fails before its first wait: it finds no record, or the
\* application in the reservations map.
Missing(a) == attempt[a] = "idle" /\ row[a] = None
Busy(a) == attempt[a] = "idle" /\ row[a] # None /\ Booking!Registered(a)

\* Mutant: a loop goes on after its third failure.
LoopsFailForever(a, L) ==
    /\ loop' = [loop EXCEPT ![a] = [l \in Loops |->
                   IF l \notin L THEN @[l]
                   ELSE IF @[l].n = 3 THEN [at |-> "sleep", n |-> 3]
                   ELSE [at |-> "sleep", n |-> @[l].n + 1]]]
    /\ IF L = {} THEN Publish(a, "error") ELSE Publish(a, "connecting")

\* Mutant: there is a fourth delay.
LoopsFailFourTimes(a, L) ==
    /\ loop' = [loop EXCEPT ![a] = [l \in Loops |->
                   IF l \notin L THEN @[l]
                   ELSE [at |-> "sleep", n |-> @[l].n + 1]]]
    /\ IF L = {} THEN Publish(a, "error") ELSE Publish(a, "connecting")

\* Mutant: "connecting" is published after every failure, the last included.
LoopsFailConnecting(a, L) ==
    /\ loop' = [loop EXCEPT ![a] = [l \in Loops |->
                   IF l \notin L THEN @[l]
                   ELSE IF @[l].n = 3 THEN Off
                   ELSE [at |-> "sleep", n |-> @[l].n + 1]]]
    /\ IF L = {} THEN Publish(a, "error") ELSE Publish(a, "connecting")

\* The connect that the loops L of an app wait for has failed: each goes on to
\* its next delay, or gives up after the third.  The last of them to resume
\* publishes last; without loops the attempt's own "error" stays.
LoopsFail(a, L) ==
    /\ loop' = [loop EXCEPT ![a] = [l \in Loops |->
                   IF l \notin L THEN @[l]
                   ELSE IF @[l].n = 3 THEN Off
                   ELSE [at |-> "sleep", n |-> @[l].n + 1]]]
    /\ \/ L = {} /\ Publish(a, "error")
       \/ \E l \in L : loop[a][l].n = 3 /\ Publish(a, "error")
       \/ \E l \in L : loop[a][l].n < 3 /\ Publish(a, "connecting")

Waiting(a) == {l \in Loops : loop[a][l].at = "await"}

\* Mutant: the catch does not release the reservation.
AbandonKeepsPort(a) ==
    /\ Goto(a, "idle")
    /\ UNCHANGED <<portVars, entryVars, loop, status>>

\* The catch of connectInternal up to its wait for the reservation's release.
Abandon(a) ==
    /\ Booking!GiveUp({a})
    /\ Goto(a, "closing")
    /\ UNCHANGED <<entryVars, loop, status>>

\* lease?.release(): nothing when acquire never returned a lease.
GiveLeaseBack(a) ==
    \/ Pool!Release(a)
    \/ phase[a] = "idle" /\ UNCHANGED sessionVars

-----------------------------------------------------------------------------
(* connect. *)

\* The user connects.  With an attempt in flight the call joins it; without a
\* record it is refused.
Connect(a) ==
    \/ /\ StartAttempt(a)
       /\ UNCHANGED <<sessionVars, entryVars, loop>>
    \/ /\ Busy(a)
       /\ Publish(a, "error")
       /\ UNCHANGED <<sessionVars, portVars, attempt, fixed, entryVars, loop>>

\* Mutant: the record is read again after the wait.
ListenOkAnew(a) ==
    /\ attempt[a] = "reserving"
    /\ Booking!Granted(a, localPort[a])
    /\ \/ Pool!AcquireHit(a) /\ Goto(a, "probing")
       \/ Pool!AcquireMiss(a) /\ Goto(a, "acquiring")
    /\ Publish(a, "connecting")
    /\ localPort' = [localPort EXCEPT ![a] = row[a]]
    /\ UNCHANGED <<row, started, entryVars, loop>>

\* The port is ours.  acquire returns at once or waits for a new session.
ListenOk(a) ==
    /\ attempt[a] = "reserving"
    /\ Booking!Granted(a, localPort[a])
    /\ \/ Pool!AcquireHit(a) /\ Goto(a, "probing")
       \/ Pool!AcquireMiss(a) /\ Goto(a, "acquiring")
    /\ Publish(a, "connecting")
    /\ UNCHANGED <<fixed, entryVars, loop>>

\* The port is taken: nothing to release, the attempt is over.
ListenFailed(a) ==
    /\ attempt[a] = "reserving"
    /\ Booking!Refused(a)
    /\ Goto(a, "idle")
    /\ LoopsFail(a, Waiting(a))
    /\ UNCHANGED <<sessionVars, fixed, entryVars>>

SshUp(a, s) ==
    /\ attempt[a] = "acquiring"
    /\ Pool!Connected(a, s)
    /\ Goto(a, "probing")
    /\ UNCHANGED <<portVars, fixed, entryVars, loop, status>>

SshFailed(a) ==
    /\ attempt[a] = "acquiring"
    /\ Pool!ConnectFailed(a)
    /\ Abandon(a)
    /\ UNCHANGED fixed

\* A probe found the remote port open: activate, then check the health.
RemoteOpen(a) ==
    /\ attempt[a] \in {"probing", "polling"}
    /\ sess[lease[a]] = "open"
    /\ Booking!Activate(a)
    /\ Goto(a, "checking")
    /\ Publish(a, "tunneling")
    /\ UNCHANGED <<sessionVars, fixed, entryVars, loop>>

\* The first probe failed, for whatever reason, and the app may be started.
RemoteClosed(a) ==
    /\ attempt[a] = "probing"
    /\ a \in AutoStart
    /\ Goto(a, "starting")
    /\ Publish(a, "starting")
    /\ UNCHANGED <<sessionVars, portVars, fixed, entryVars, loop>>

\* The start command reported a PID.  The SSH channel may report it while its
\* connection is lost: closing the channel ends the command with its output.
StartOk(a) ==
    /\ attempt[a] = "starting"
    /\ Goto(a, "polling")
    /\ started' = [started EXCEPT ![a] = TRUE]
    /\ UNCHANGED <<sessionVars, portVars, row, localPort, entryVars, loop, status>>

\* The remote port is closed and the app not to be started, the start command
\* failed, the port did not open in time, or the health check failed.
AttemptFailed(a) ==
    /\ \/ attempt[a] = "probing" /\ a \notin AutoStart
       \/ attempt[a] \in {"starting", "polling", "checking"}
    /\ Abandon(a)
    /\ UNCHANGED <<sessionVars, fixed>>

\* Mutant: "healthy" is not published.
HealthOkUnpublished(a) ==
    /\ attempt[a] = "checking"
    /\ Goto(a, "idle")
    /\ active' = active \union {a}
    /\ loop' = [loop EXCEPT ![a] = [l \in Loops |-> IF l \in Waiting(a) THEN Off ELSE @[l]]]
    /\ UNCHANGED <<sessionVars, portVars, fixed, teardown, again, status>>

\* The application answered: it becomes active.  The answer may have been on
\* its way when the session was lost.
HealthOk(a) ==
    /\ attempt[a] = "checking"
    /\ Goto(a, "idle")
    /\ active' = active \union {a}
    /\ loop' = [loop EXCEPT ![a] = [l \in Loops |-> IF l \in Waiting(a) THEN Off ELSE @[l]]]
    /\ Publish(a, "healthy")
    /\ UNCHANGED <<sessionVars, portVars, fixed, teardown, again>>

\* Mutant: the catch does not release the lease.
AbandonedKeepsLease(a) ==
    /\ attempt[a] = "closing"
    /\ Booking!Ended(a)
    /\ Goto(a, "idle")
    /\ LoopsFail(a, Waiting(a))
    /\ UNCHANGED <<sessionVars, fixed, entryVars>>

\* The failed attempt's reservation has ended: its lease is released as well
\* and the attempt is over.
Abandoned(a) ==
    /\ attempt[a] = "closing"
    /\ Booking!Ended(a)
    /\ GiveLeaseBack(a)
    /\ Goto(a, "idle")
    /\ LoopsFail(a, Waiting(a))
    /\ UNCHANGED <<fixed, entryVars>>

-----------------------------------------------------------------------------
(* disconnect and reconnect. *)

\* The stop command is run for the last active application of its server, if
\* this connection started the remote program and the user asked for it.
RunsStopCommand(a) ==
    /\ a \in StopOnDisconnect
    /\ started[a]
    /\ \A b \in active \ {a} : ServerOf[b] # ServerOf[a]

\* disconnect of an active app up to its first wait; r: it is a reconnect.
\* For any other app disconnect returns at once.
BeginDisconnect(a, r) ==
    /\ a \in active
    /\ active' = active \ {a}
    /\ again' = [again EXCEPT ![a] = r]
    /\ \/ /\ RunsStopCommand(a)
          /\ teardown' = [teardown EXCEPT ![a] = "stopping"]
          /\ UNCHANGED portVars
       \/ /\ ~RunsStopCommand(a)
          /\ teardown' = [teardown EXCEPT ![a] = "releasing"]
          /\ Booking!GiveUp({a})
    /\ UNCHANGED <<sessionVars, attempt, fixed, loop, status>>

Disconnect(a) == BeginDisconnect(a, FALSE)

\* A reconnect of an app that is not active is a connect.
Reconnect(a) == BeginDisconnect(a, TRUE)

\* The stop command ended, failed or timed out.
StopDone(a) ==
    /\ teardown[a] = "stopping"
    /\ teardown' = [teardown EXCEPT ![a] = "releasing"]
    /\ Booking!GiveUp({a})
    /\ UNCHANGED <<sessionVars, attempt, fixed, active, again, loop, status>>

\* Mutant: "disconnected" is not published.
DisconnectedUnpublished(a) ==
    /\ teardown[a] = "releasing"
    /\ teardown' = [teardown EXCEPT ![a] = "none"]
    /\ again' = [again EXCEPT ![a] = FALSE]
    /\ GiveLeaseBack(a)
    /\ \/ /\ ~again[a] \/ row[a] = None
          /\ Booking!Ended(a)
          /\ UNCHANGED <<attempt, fixed, status>>
       \/ /\ again[a]
          /\ Booking!EndedThenAsk(a)
          /\ Begin(a)
    /\ UNCHANGED <<active, loop>>

\* The reservation has ended: the lease is released, and a reconnect goes on
\* with connect in the same turn of the event loop, if there still is a record.
Disconnected(a) ==
    /\ teardown[a] = "releasing"
    /\ teardown' = [teardown EXCEPT ![a] = "none"]
    /\ again' = [again EXCEPT ![a] = FALSE]
    /\ GiveLeaseBack(a)
    /\ \/ /\ ~again[a] \/ row[a] = None
          /\ Booking!Ended(a)
          /\ Publish(a, "disconnected")
          /\ UNCHANGED <<attempt, fixed>>
       \/ /\ again[a]
          /\ Booking!EndedThenAsk(a)
          /\ Begin(a)
    /\ UNCHANGED <<active, loop>>

-----------------------------------------------------------------------------
(* A lost session and the retry loops. *)

\* The applications that hear of the loss of s: their listener was registered
\* when they became active and is removed when they cease to be.
Losing(s) == {a \in active : lease[a] = s}

\* Mutant: each of two events of the same loss starts a retry loop.
LoseEntriesTwice(A) ==
    /\ active' = active \ A
    /\ teardown' = [a \in Apps |-> IF a \in A THEN "losing" ELSE teardown[a]]
    /\ Booking!GiveUp(A)
    /\ loop' = [a \in Apps |->
                   IF a \in A
                   THEN [l \in Loops |-> IF loop[a][l] = Off THEN [at |-> "closing", n |-> 0]
                                                            ELSE loop[a][l]]
                   ELSE loop[a]]
    /\ UNCHANGED <<attempt, fixed, again, status>>

\* handleUnexpectedDisconnect up to its first wait: the apps of A begin to
\* release their ports and will retry.
LoseEntries(A) ==
    /\ active' = active \ A
    /\ teardown' = [a \in Apps |-> IF a \in A THEN "losing" ELSE teardown[a]]
    /\ Booking!GiveUp(A)
    /\ \E slot \in [A -> Loops] :
           /\ \A a \in A : loop[a][slot[a]] = Off
           /\ loop' = [a \in Apps |->
                          IF a \in A
                          THEN [loop[a] EXCEPT ![slot[a]] = [at |-> "closing", n |-> 0]]
                          ELSE loop[a]]
    /\ UNCHANGED <<attempt, fixed, again, status>>

\* The SSH connection breaks.  In one event the pool forgets the session and
\* every active application on it loses its entry.
SessionDrop(s) == Pool!Drop(s) /\ LoseEntries(Losing(s))

\* A broken connection is reported up to three times (error, end, close): an
\* application that became active in between may hear of a later event.
LateEvent(s) ==
    /\ sess[s] = "lost"
    /\ Losing(s) # {}
    /\ LoseEntries(Losing(s))
    /\ UNCHANGED sessionVars

\* The lost entry's reservation has ended: release its lease, publish
\* "connecting" and wait for the first delay.
LossReleased(a, l) ==
    /\ loop[a][l].at = "closing"
    /\ teardown' = [teardown EXCEPT ![a] = "none"]
    /\ Booking!Ended(a)
    /\ GiveLeaseBack(a)
    /\ loop' = [loop EXCEPT ![a][l] = [at |-> "sleep", n |-> 1]]
    /\ Publish(a, "connecting")
    /\ UNCHANGED <<attempt, fixed, active, again>>

\* The delay is over: the loop calls connect, which starts an attempt, joins
\* the one in flight, or fails at once.
RetryTick(a, l) ==
    /\ loop[a][l].at = "sleep"
    /\ \/ /\ StartAttempt(a)
          /\ loop' = [loop EXCEPT ![a][l].at = "await"]
       \/ /\ attempt[a] # "idle"
          /\ loop' = [loop EXCEPT ![a][l].at = "await"]
          /\ UNCHANGED <<portVars, attempt, fixed, status>>
       \/ /\ Busy(a) \/ Missing(a)
          /\ LoopsFail(a, {l})
          /\ UNCHANGED <<portVars, attempt, fixed>>
    /\ UNCHANGED <<sessionVars, entryVars>>

-----------------------------------------------------------------------------
(* The records. *)

\* A record is created or edited; no two have the same local port.
Edit(a, p) ==
    /\ a \in Editable
    /\ \A b \in Apps : row[b] # p
    /\ row' = [row EXCEPT ![a] = p]
    /\ UNCHANGED <<sessionVars, portVars, localPort, started, attempt, entryVars, loop, status>>

\* Nobody asks whether the application is connected.
Delete(a) ==
    /\ a \in Editable
    /\ row[a] # None
    /\ row' = [row EXCEPT ![a] = None]
    /\ UNCHANGED <<sessionVars, portVars, localPort, started, attempt, entryVars, loop, status>>

-----------------------------------------------------------------------------

SshAnswers(a) == SshFailed(a) \/ \E s \in Sessions : SshUp(a, s)

\* One step of the attempt of a.
AttemptStep(a) ==
    \/ ListenOk(a) \/ ListenFailed(a)
    \/ SshAnswers(a)
    \/ RemoteOpen(a) \/ RemoteClosed(a)
    \/ StartOk(a)
    \/ HealthOk(a)
    \/ AttemptFailed(a)
    \/ Abandoned(a)

UserStep(a) ==
    \/ Connect(a) \/ Disconnect(a) \/ Reconnect(a)
    \/ Delete(a)
    \/ \E p \in Ports : Edit(a, p)

Next ==
    \/ \E a \in Apps :
           \/ UserStep(a)
           \/ AttemptStep(a)
           \/ StopDone(a)
           \/ Disconnected(a)
           \/ \E l \in Loops : LossReleased(a, l) \/ RetryTick(a, l)
    \/ \E s \in Sessions : SessionDrop(s) \/ LateEvent(s)

Spec == Init /\ [][Next]_vars

\* Every wait ends: timeouts bound the connect, the commands, the poll and the
\* health check, timers fire, and the tunnel manager's releases end
\* (TunnelManager!ReleaseEnds).  Users and the network owe nothing.
Fairness ==
    \A a \in Apps :
        /\ WF_vars(AttemptStep(a))
        /\ WF_vars(StopDone(a))
        /\ WF_vars(Disconnected(a))
        /\ \A l \in Loops : WF_vars(LossReleased(a, l)) /\ WF_vars(RetryTick(a, l))

FairSpec == Spec /\ Fairness

-----------------------------------------------------------------------------
(* Correctness. *)

\* The stage of the reservation at each wait of an attempt.
PortDuring == [reserving |-> "listening",
               acquiring |-> "held", probing |-> "held",
               starting |-> "held", polling |-> "held",
               checking |-> "forwarding", closing |-> "closing"]

(* A reserved port has one owner at every moment: the attempt that will pass
   it on or give it up, the active entry, or the teardown that gives it up.
   No failure path forgets a port, and nobody connects into a port that is
   still being released. *)
PortHasOneOwner ==
    \A a \in Apps :
        /\ attempt[a] # "idle" =>
               /\ a \notin active
               /\ teardown[a] = "none"
               /\ booked[a] = PortDuring[attempt[a]]
        /\ a \in active => teardown[a] = "none" /\ booked[a] = "forwarding"
        /\ teardown[a] = "stopping" => booked[a] = "forwarding"
        /\ teardown[a] \in {"releasing", "losing"} => booked[a] = "closing"
        /\ attempt[a] = "idle" /\ a \notin active /\ teardown[a] = "none" => booked[a] = "free"

(* The port an application listens on is the one of the record that its
   attempt has read, and that its url names: an edit or a deletion in between
   neither moves a tunnel nor parts a url from it. *)
PortIsOfItsRecord ==
    \A a \in Apps :
        attempt[a] \in {"acquiring", "probing", "starting", "polling", "checking"}
            \/ a \in active
        => localPort[a] \in Ports /\ owner[localPort[a]] = a

(* So has a lease: it is taken once per attempt, kept while the application is
   active, and released by whoever ends the attempt or the entry.  An acquire
   never replaces a lease that was not released. *)
LeaseHasOneOwner ==
    \A a \in Apps :
        /\ attempt[a] = "acquiring" <=> phase[a] = "connecting"
        /\ \/ attempt[a] \in {"probing", "starting", "polling", "checking"}
           \/ a \in active
           \/ teardown[a] # "none"
           => phase[a] = "holding"
        /\ attempt[a] \in {"idle", "reserving"} /\ a \notin active /\ teardown[a] = "none"
           => phase[a] # "holding"

(* An application is being released after a loss exactly while one retry loop
   waits for that release: no loss goes without its retries, and no two loops
   stand behind one loss. *)
LossHasOneLoop ==
    \A a \in Apps :
        /\ teardown[a] = "losing" => \E l \in Loops : loop[a][l].at = "closing"
        /\ \A l, m \in Loops :
               loop[a][l].at = "closing" /\ loop[a][m].at = "closing" => l = m
        /\ \A l \in Loops : loop[a][l].at = "closing" => teardown[a] = "losing"
        /\ \A l \in Loops : loop[a][l].at = "await" => attempt[a] # "idle"

(* Disconnecting one application never closes the SSH session under another:
   only the network takes the session of an active application away. *)
ActiveSessionNotClosed ==
    \A a \in active : sess[lease[a]] \in {"open", "lost"}

(* The snapshot "healthy" is never left behind: while it stands, the
   application is active or its port is still being released. *)
HealthyIsBacked ==
    \A a \in Apps : status[a] = "healthy" => a \in active \/ teardown[a] # "none"

(* A snapshot that announces progress is backed by an attempt, or, for
   "connecting", by a retry loop: the page never waits for nobody. *)
ProgressIsBacked ==
    \A a \in Apps :
        /\ status[a] \in {"checking", "starting", "tunneling"} => attempt[a] # "idle"
        /\ status[a] = "connecting" =>
               attempt[a] # "idle" \/ \E l \in Loops : loop[a][l].at = "sleep"

(* Every retry loop ends, by a connect that succeeds or after its third
   failure, whatever the user and the network do meanwhile. *)
LoopsEnd ==
    \A a \in Apps, l \in Loops : loop[a][l].at # "off" ~> loop[a][l].at = "off"

(* A snapshot that announces progress is followed by an outcome. *)
ProgressEnds ==
    \A a \in Apps :
        status[a] \in {"checking", "connecting", "starting", "tunneling"}
            ~> status[a] \in {"healthy", "error", "disconnected"}

-----------------------------------------------------------------------------
(* What the documents say and the code does not do. *)

(* "When the active SSH session is lost the applications on it enter
   connecting" (design section 9.5, line 262): none stays active on a session
   that is gone. *)
ActiveSessionIsOpen ==
    \A a \in active : sess[lease[a]] = "open"
=============================================================================
