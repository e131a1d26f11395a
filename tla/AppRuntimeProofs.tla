-------------------------- MODULE AppRuntimeProofs ---------------------------
(***************************************************************************)
(* Proofs about the application runtime, for all applications, servers,    *)
(* ports and sessions, any number of retry loops and any edits of records: *)
(* it uses the pool and the reservations as their modules say, so what is  *)
(* proved of those holds in it; ports, leases, losses and snapshots have   *)
(* the owners the code expects.                                            *)
(***************************************************************************)
EXTENDS AppRuntime, TLAPS

\* The theorems about the pool, with the applications as its callers.
PoolThms == INSTANCE SessionPoolProofs WITH Callers <- Apps

USE AppsAssumption, ServerOfAssumption, HostOfAssumption, PortOfAssumption,
    EditableAssumption, NoneAssumption

-----------------------------------------------------------------------------
(* The runtime and the session pool. *)

(* The assumptions under which the pool's theorems were proved. *)
LEMMA PoolAssumptions ==
    IsFiniteSet(Apps) /\ PoolThms!IsFiniteSet(Apps)
BY DEF IsFiniteSet, PoolThms!IsFiniteSet

(* The pool the runtime calls is the pool the theorems are about. *)
LEMMA SamePool ==
    /\ Pool!Init <=> PoolThms!Init
    /\ Pool!TypeOK <=> PoolThms!TypeOK
    /\ [Pool!Next]_sessionVars <=> [PoolThms!Next]_(PoolThms!poolVars)
<1> USE DEF Pool!NoEntry, PoolThms!NoEntry, Pool!Entry, PoolThms!Entry
<1>1. Pool!Init <=> PoolThms!Init
  BY DEF Pool!Init, PoolThms!Init
<1>2. Pool!TypeOK <=> PoolThms!TypeOK
  BY DEF Pool!TypeOK, PoolThms!TypeOK, Pool!Statuses, PoolThms!Statuses,
         Pool!Phases, PoolThms!Phases
<1>3. [Pool!Next]_sessionVars <=> [PoolThms!Next]_(PoolThms!poolVars)
  <2>1. ASSUME NEW c \in Apps PROVE Pool!AcquireHit(c) <=> PoolThms!AcquireHit(c)
    BY DEF Pool!AcquireHit, PoolThms!AcquireHit
  <2>2. ASSUME NEW c \in Apps PROVE Pool!AcquireMiss(c) <=> PoolThms!AcquireMiss(c)
    BY DEF Pool!AcquireMiss, PoolThms!AcquireMiss
  <2>3. ASSUME NEW c \in Apps PROVE Pool!ConnectFailed(c) <=> PoolThms!ConnectFailed(c)
    BY DEF Pool!ConnectFailed, PoolThms!ConnectFailed
  <2>4. ASSUME NEW c \in Apps, NEW s \in Sessions
        PROVE  Pool!Connected(c, s) <=> PoolThms!Connected(c, s)
    BY DEF Pool!Connected, PoolThms!Connected, Pool!Fresh, PoolThms!Fresh
  <2>5. ASSUME NEW c \in Apps PROVE Pool!Release(c) <=> PoolThms!Release(c)
    BY DEF Pool!Release, PoolThms!Release, Pool!ReleaseStale, PoolThms!ReleaseStale,
           Pool!ReleaseShared, PoolThms!ReleaseShared, Pool!ReleaseLast,
           PoolThms!ReleaseLast, Pool!ReleaseAgain, PoolThms!ReleaseAgain,
           Pool!poolVars, PoolThms!poolVars
  <2>6. ASSUME NEW s \in Sessions PROVE Pool!Drop(s) <=> PoolThms!Drop(s)
    BY DEF Pool!Drop, PoolThms!Drop
  <2>7. Pool!CloseAll <=> PoolThms!CloseAll
    BY DEF Pool!CloseAll, PoolThms!CloseAll
  <2> QED
    BY <2>1, <2>2, <2>3, <2>4, <2>5, <2>6, <2>7
       DEF Pool!Next, PoolThms!Next, sessionVars, PoolThms!poolVars
<1> QED
  BY <1>1, <1>2, <1>3

\* The operations of the pool that are called while the runtime serves.
PoolCall ==
    \/ \E a \in Apps : \/ Pool!AcquireHit(a) \/ Pool!AcquireMiss(a)
                       \/ Pool!ConnectFailed(a) \/ Pool!Release(a)
                       \/ \E s \in Sessions : Pool!Connected(a, s)
    \/ \E s \in Sessions : Pool!Drop(s)

(* Every step of the runtime calls one operation of the pool, or none. *)
LEMMA PoolStep ==
    ASSUME [Next]_vars
    PROVE  [PoolCall]_sessionVars
<1>1. ASSUME NEW a \in Apps, GiveLeaseBack(a) PROVE [PoolCall]_sessionVars
  BY <1>1 DEF GiveLeaseBack, PoolCall
<1>2. ASSUME NEW a \in Apps, UserStep(a) PROVE [PoolCall]_sessionVars
  BY <1>2 DEF UserStep, Connect, Disconnect, Reconnect, BeginDisconnect, Delete, Edit,
              sessionVars
<1>3. ASSUME NEW a \in Apps, AttemptStep(a) PROVE [PoolCall]_sessionVars
  BY <1>1, <1>3 DEF AttemptStep, ListenOk, ListenFailed, SshAnswers, SshFailed, SshUp,
                    RemoteOpen, RemoteClosed, StartOk, HealthOk, AttemptFailed, Abandoned,
                    PoolCall, sessionVars
<1>4. ASSUME NEW a \in Apps,
             \/ StopDone(a) \/ Disconnected(a)
             \/ \E l \in Loops : LossReleased(a, l) \/ RetryTick(a, l)
      PROVE  [PoolCall]_sessionVars
  BY <1>1, <1>4 DEF StopDone, Disconnected, LossReleased, RetryTick, sessionVars
<1>5. ASSUME NEW s \in Sessions, SessionDrop(s) \/ LateEvent(s)
      PROVE  [PoolCall]_sessionVars
  BY <1>5 DEF SessionDrop, LateEvent, PoolCall, sessionVars
<1> QED
  BY <1>2, <1>3, <1>4, <1>5 DEF Next, vars, sessionVars

(* The runtime uses the pool as SessionPool says: all that is proved of the
   pool holds in it (app-runtime-service.ts calls acquire, release and
   onDisconnect, and nothing else of the pool but closeAll). *)
THEOREM RuntimeUsesPool == Spec => PoolThms!Spec
<1>1. Init => PoolThms!Init
  BY SamePool DEF Init
<1>2. [Next]_vars => [PoolThms!Next]_(PoolThms!poolVars)
  BY PoolStep, SamePool DEF PoolCall, Pool!Next
<1> QED
  BY <1>1, <1>2, PTL DEF Spec, PoolThms!Spec

-----------------------------------------------------------------------------
(* Type correctness. *)

\* The part of the type that is the runtime's own.
OwnTypeOK ==
    /\ row \in [Apps -> Ports \union {None}]
    /\ localPort \in [Apps -> Ports \union {None}]
    /\ attempt \in [Apps -> Attempts]
    /\ started \in [Apps -> BOOLEAN]
    /\ active \subseteq Apps
    /\ teardown \in [Apps -> Teardowns]
    /\ again \in [Apps -> BOOLEAN]
    /\ status \in [Apps -> Status]

LoopTypeOK == loop \in [Apps -> [Loops -> LoopStates]]

(* What connectInternal sets before its first wait. *)
LEMMA BeginType ==
    ASSUME OwnTypeOK, NEW a \in Apps, Begin(a)
    PROVE  /\ row' \in [Apps -> Ports \union {None}]
           /\ localPort' \in [Apps -> Ports \union {None}]
           /\ attempt' \in [Apps -> Attempts]
           /\ started' \in [Apps -> BOOLEAN]
           /\ status' \in [Apps -> Status]
<1>1. row' = row /\ localPort' = [localPort EXCEPT ![a] = row[a]]
  BY DEF Begin
<1>2. started' = [started EXCEPT ![a] = FALSE]
  BY DEF Begin
<1>3. /\ attempt' = [attempt EXCEPT ![a] = "reserving"]
      /\ status' = [status EXCEPT ![a] = "checking"]
  BY DEF Begin, Goto, Publish
<1> QED
  BY <1>1, <1>2, <1>3 DEF OwnTypeOK, Attempts, Status

(* The runtime's own variables keep their types. *)
LEMMA OwnTypeStep ==
    ASSUME OwnTypeOK, [Next]_vars
    PROVE  OwnTypeOK'
<1> USE DEF OwnTypeOK, Attempts, Teardowns, Status, Publish, Goto, sessionVars,
           portVars, entryVars, fixed
<1>1. ASSUME NEW a \in Apps, Connect(a) PROVE OwnTypeOK'
  <2>1. CASE StartAttempt(a)
    <3>1. Begin(a) /\ UNCHANGED entryVars
      BY <1>1, <2>1 DEF Connect, StartAttempt, Busy
    <3> QED
      BY <3>1, BeginType
  <2>2. CASE Publish(a, "error") /\ UNCHANGED <<attempt, fixed, entryVars>>
    BY <2>2
  <2> QED
    BY <1>1, <2>1, <2>2 DEF Connect
<1>2. ASSUME NEW a \in Apps, ListenOk(a) PROVE OwnTypeOK'
  BY <1>2 DEF ListenOk
<1>3. ASSUME NEW a \in Apps, ListenFailed(a) PROVE OwnTypeOK'
  BY <1>3 DEF ListenFailed, LoopsFail, Waiting
<1>4. ASSUME NEW a \in Apps, NEW s \in Sessions, SshUp(a, s) PROVE OwnTypeOK'
  BY <1>4 DEF SshUp
<1>5. ASSUME NEW a \in Apps, SshFailed(a) PROVE OwnTypeOK'
  BY <1>5 DEF SshFailed, Abandon
<1>6. ASSUME NEW a \in Apps, RemoteOpen(a) PROVE OwnTypeOK'
  BY <1>6 DEF RemoteOpen
<1>7. ASSUME NEW a \in Apps, RemoteClosed(a) PROVE OwnTypeOK'
  BY <1>7 DEF RemoteClosed
<1>8. ASSUME NEW a \in Apps, StartOk(a) PROVE OwnTypeOK'
  BY <1>8 DEF StartOk
<1>9. ASSUME NEW a \in Apps, AttemptFailed(a) PROVE OwnTypeOK'
  BY <1>9 DEF AttemptFailed, Abandon
<1>10. ASSUME NEW a \in Apps, HealthOk(a) PROVE OwnTypeOK'
  BY <1>10 DEF HealthOk, Waiting
<1>11. ASSUME NEW a \in Apps, Abandoned(a) PROVE OwnTypeOK'
  BY <1>11 DEF Abandoned, LoopsFail, Waiting, GiveLeaseBack
<1>12. ASSUME NEW a \in Apps, Disconnect(a) PROVE OwnTypeOK'
  BY <1>12 DEF Disconnect, BeginDisconnect
<1>13. ASSUME NEW a \in Apps, Reconnect(a) PROVE OwnTypeOK'
  BY <1>13 DEF Reconnect, BeginDisconnect
<1>14. ASSUME NEW a \in Apps, StopDone(a) PROVE OwnTypeOK'
  BY <1>14 DEF StopDone
<1>15. ASSUME NEW a \in Apps, Disconnected(a) PROVE OwnTypeOK'
  <2>1. teardown' \in [Apps -> Teardowns] /\ again' \in [Apps -> BOOLEAN] /\ active' = active
    BY <1>15 DEF Disconnected
  <2>2. CASE Begin(a)
    BY <2>1, <2>2, BeginType
  <2>3. CASE Publish(a, "disconnected") /\ UNCHANGED <<attempt, fixed>>
    BY <2>1, <2>3
  <2> QED
    BY <1>15, <2>2, <2>3 DEF Disconnected
<1>16. ASSUME NEW a \in Apps, NEW l \in Loops, LossReleased(a, l) PROVE OwnTypeOK'
  BY <1>16 DEF LossReleased, GiveLeaseBack
<1>17. ASSUME NEW a \in Apps, NEW l \in Loops, RetryTick(a, l) PROVE OwnTypeOK'
  <2>1. UNCHANGED entryVars
    BY <1>17 DEF RetryTick
  <2>2. CASE StartAttempt(a)
    BY <2>1, <2>2, BeginType DEF StartAttempt
  <2>3. CASE UNCHANGED <<attempt, fixed, status>>
    BY <2>1, <2>3
  <2>4. CASE LoopsFail(a, {l}) /\ UNCHANGED <<attempt, fixed>>
    BY <2>1, <2>4 DEF LoopsFail
  <2> QED
    BY <1>17, <2>2, <2>3, <2>4 DEF RetryTick
<1>18. ASSUME NEW s \in Sessions, SessionDrop(s) PROVE OwnTypeOK'
  BY <1>18 DEF SessionDrop, LoseEntries, Losing
<1>19. ASSUME NEW s \in Sessions, LateEvent(s) PROVE OwnTypeOK'
  BY <1>19 DEF LateEvent, LoseEntries, Losing
<1>20. ASSUME NEW a \in Apps, NEW p \in Ports, Edit(a, p) PROVE OwnTypeOK'
  BY <1>20 DEF Edit
<1>21. ASSUME NEW a \in Apps, Delete(a) PROVE OwnTypeOK'
  BY <1>21 DEF Delete
<1>22. CASE UNCHANGED vars
  BY <1>22 DEF vars
<1> QED
  BY <1>1, <1>2, <1>3, <1>4, <1>5, <1>6, <1>7, <1>8, <1>9, <1>10, <1>11, <1>12,
     <1>13, <1>14, <1>15, <1>16, <1>17, <1>18, <1>19, <1>20, <1>21, <1>22
     DEF Next, UserStep, AttemptStep, SshAnswers

(* What the end of a delay makes of its loop. *)
LEMMA RetryType ==
    ASSUME LoopTypeOK, NEW a \in Apps, NEW l \in Loops, RetryTick(a, l)
    PROVE  LoopTypeOK'
<1>1. CASE loop' = [loop EXCEPT ![a][l].at = "await"]
  <2>1. [loop[a][l] EXCEPT !.at = "await"] \in LoopStates
    BY DEF LoopTypeOK, LoopStates
  <2> QED
    BY <1>1, <2>1 DEF LoopTypeOK
<1>2. CASE LoopsFail(a, {l}) /\ loop[a][l].at = "sleep"
  <2>1. (IF loop[a][l].n = 3 THEN Off ELSE [at |-> "sleep", n |-> loop[a][l].n + 1])
          \in LoopStates
    BY DEF LoopTypeOK, LoopStates, Off
  <2> QED
    BY <1>2, <2>1 DEF LoopTypeOK, LoopsFail
<1> QED
  BY <1>1, <1>2 DEF RetryTick

(* So do the retry loops: after the third delay a loop is off. *)
LEMMA LoopTypeStep ==
    ASSUME LoopTypeOK, OwnTypeOK, [Next]_vars
    PROVE  LoopTypeOK'
<1> USE DEF LoopTypeOK, OwnTypeOK, LoopStates, Off, LoopsFail, Waiting, Publish,
           Goto, sessionVars, portVars, entryVars, fixed
<1>1. ASSUME NEW a \in Apps, Connect(a) PROVE LoopTypeOK'
  BY <1>1 DEF Connect, StartAttempt, Busy, Begin
<1>2. ASSUME NEW a \in Apps, ListenOk(a) PROVE LoopTypeOK'
  BY <1>2 DEF ListenOk
<1>3. ASSUME NEW a \in Apps, ListenFailed(a) PROVE LoopTypeOK'
  BY <1>3 DEF ListenFailed, LoopsFail, Waiting
<1>4. ASSUME NEW a \in Apps, NEW s \in Sessions, SshUp(a, s) PROVE LoopTypeOK'
  BY <1>4 DEF SshUp
<1>5. ASSUME NEW a \in Apps, SshFailed(a) PROVE LoopTypeOK'
  BY <1>5 DEF SshFailed, Abandon
<1>6. ASSUME NEW a \in Apps, RemoteOpen(a) PROVE LoopTypeOK'
  BY <1>6 DEF RemoteOpen
<1>7. ASSUME NEW a \in Apps, RemoteClosed(a) PROVE LoopTypeOK'
  BY <1>7 DEF RemoteClosed
<1>8. ASSUME NEW a \in Apps, StartOk(a) PROVE LoopTypeOK'
  BY <1>8 DEF StartOk
<1>9. ASSUME NEW a \in Apps, AttemptFailed(a) PROVE LoopTypeOK'
  BY <1>9 DEF AttemptFailed, Abandon
<1>10. ASSUME NEW a \in Apps, HealthOk(a) PROVE LoopTypeOK'
  BY <1>10 DEF HealthOk, Waiting
<1>11. ASSUME NEW a \in Apps, Abandoned(a) PROVE LoopTypeOK'
  BY <1>11 DEF Abandoned, LoopsFail, Waiting, GiveLeaseBack
<1>12. ASSUME NEW a \in Apps, Disconnect(a) PROVE LoopTypeOK'
  BY <1>12 DEF Disconnect, BeginDisconnect
<1>13. ASSUME NEW a \in Apps, Reconnect(a) PROVE LoopTypeOK'
  BY <1>13 DEF Reconnect, BeginDisconnect
<1>14. ASSUME NEW a \in Apps, StopDone(a) PROVE LoopTypeOK'
  BY <1>14 DEF StopDone
<1>15. ASSUME NEW a \in Apps, Disconnected(a) PROVE LoopTypeOK'
  BY <1>15 DEF Disconnected, Begin, GiveLeaseBack
<1>16. ASSUME NEW a \in Apps, NEW l \in Loops, LossReleased(a, l) PROVE LoopTypeOK'
  BY <1>16 DEF LossReleased, GiveLeaseBack
<1>17. ASSUME NEW a \in Apps, NEW l \in Loops, RetryTick(a, l) PROVE LoopTypeOK'
  BY <1>17, RetryType
<1>18. ASSUME NEW s \in Sessions, SessionDrop(s) PROVE LoopTypeOK'
  BY <1>18 DEF SessionDrop, LoseEntries, Losing
<1>19. ASSUME NEW s \in Sessions, LateEvent(s) PROVE LoopTypeOK'
  BY <1>19 DEF LateEvent, LoseEntries, Losing
<1>20. ASSUME NEW a \in Apps, NEW p \in Ports, Edit(a, p) PROVE LoopTypeOK'
  BY <1>20 DEF Edit
<1>21. ASSUME NEW a \in Apps, Delete(a) PROVE LoopTypeOK'
  BY <1>21 DEF Delete
<1>22. CASE UNCHANGED vars
  BY <1>22 DEF vars
<1> QED
  BY <1>1, <1>2, <1>3, <1>4, <1>5, <1>6, <1>7, <1>8, <1>9, <1>10, <1>11, <1>12,
     <1>13, <1>14, <1>15, <1>16, <1>17, <1>18, <1>19, <1>20, <1>21, <1>22
     DEF Next, UserStep, AttemptStep, SshAnswers

\* A port to listen on is read before the first wait of an attempt.
RecordRead == \A a \in Apps : attempt[a] # "idle" => localPort[a] \in Ports

(* An attempt knows its port. *)
LEMMA RecordReadStep ==
    ASSUME OwnTypeOK, RecordRead, [Next]_vars
    PROVE  RecordRead'
<1> USE DEF OwnTypeOK, RecordRead, Attempts, Publish, Goto, sessionVars, portVars,
           entryVars, fixed
<1>1. ASSUME NEW a \in Apps, Connect(a) PROVE RecordRead'
  BY <1>1 DEF Connect, StartAttempt, Busy, Begin
<1>2. ASSUME NEW a \in Apps, ListenOk(a) PROVE RecordRead'
  BY <1>2 DEF ListenOk
<1>3. ASSUME NEW a \in Apps, ListenFailed(a) PROVE RecordRead'
  BY <1>3 DEF ListenFailed, LoopsFail, Waiting
<1>4. ASSUME NEW a \in Apps, NEW s \in Sessions, SshUp(a, s) PROVE RecordRead'
  BY <1>4 DEF SshUp
<1>5. ASSUME NEW a \in Apps, SshFailed(a) PROVE RecordRead'
  BY <1>5 DEF SshFailed, Abandon
<1>6. ASSUME NEW a \in Apps, RemoteOpen(a) PROVE RecordRead'
  BY <1>6 DEF RemoteOpen
<1>7. ASSUME NEW a \in Apps, RemoteClosed(a) PROVE RecordRead'
  BY <1>7 DEF RemoteClosed
<1>8. ASSUME NEW a \in Apps, StartOk(a) PROVE RecordRead'
  BY <1>8 DEF StartOk
<1>9. ASSUME NEW a \in Apps, AttemptFailed(a) PROVE RecordRead'
  BY <1>9 DEF AttemptFailed, Abandon
<1>10. ASSUME NEW a \in Apps, HealthOk(a) PROVE RecordRead'
  BY <1>10 DEF HealthOk, Waiting
<1>11. ASSUME NEW a \in Apps, Abandoned(a) PROVE RecordRead'
  BY <1>11 DEF Abandoned, LoopsFail, Waiting, GiveLeaseBack
<1>12. ASSUME NEW a \in Apps, Disconnect(a) PROVE RecordRead'
  BY <1>12 DEF Disconnect, BeginDisconnect
<1>13. ASSUME NEW a \in Apps, Reconnect(a) PROVE RecordRead'
  BY <1>13 DEF Reconnect, BeginDisconnect
<1>14. ASSUME NEW a \in Apps, StopDone(a) PROVE RecordRead'
  BY <1>14 DEF StopDone
<1>15. ASSUME NEW a \in Apps, Disconnected(a) PROVE RecordRead'
  BY <1>15 DEF Disconnected, Begin, GiveLeaseBack
<1>16. ASSUME NEW a \in Apps, NEW l \in Loops, LossReleased(a, l) PROVE RecordRead'
  BY <1>16 DEF LossReleased, GiveLeaseBack
<1>17. ASSUME NEW a \in Apps, NEW l \in Loops, RetryTick(a, l) PROVE RecordRead'
  BY <1>17 DEF RetryTick, StartAttempt, Busy, Missing, Begin, LoopsFail
<1>18. ASSUME NEW s \in Sessions, SessionDrop(s) PROVE RecordRead'
  BY <1>18 DEF SessionDrop, LoseEntries, Losing
<1>19. ASSUME NEW s \in Sessions, LateEvent(s) PROVE RecordRead'
  BY <1>19 DEF LateEvent, LoseEntries, Losing
<1>20. ASSUME NEW a \in Apps, NEW p \in Ports, Edit(a, p) PROVE RecordRead'
  BY <1>20 DEF Edit
<1>21. ASSUME NEW a \in Apps, Delete(a) PROVE RecordRead'
  BY <1>21 DEF Delete
<1>22. CASE UNCHANGED vars
  BY <1>22 DEF vars
<1> QED
  BY <1>1, <1>2, <1>3, <1>4, <1>5, <1>6, <1>7, <1>8, <1>9, <1>10, <1>11, <1>12,
     <1>13, <1>14, <1>15, <1>16, <1>17, <1>18, <1>19, <1>20, <1>21, <1>22
     DEF Next, UserStep, AttemptStep, SshAnswers

-----------------------------------------------------------------------------
(* The runtime and the reservations. *)

(* Every step of the runtime calls one operation of the reservations, or none;
   the ports of several applications are given up at once when their session
   is lost. *)
LEMMA BookingStep ==
    ASSUME OwnTypeOK, RecordRead, [Next]_vars
    PROVE  [Booking!Next]_(Booking!portVars)
<1> USE DEF portVars, Booking!portVars, Booking!Next
<1>1. ASSUME NEW a \in Apps, UserStep(a) PROVE [Booking!Next]_portVars
  BY <1>1 DEF UserStep, Connect, StartAttempt, Disconnect, Reconnect, BeginDisconnect,
              Delete, Edit
<1>2. ASSUME NEW a \in Apps, ListenOk(a) PROVE [Booking!Next]_portVars
  BY <1>2 DEF ListenOk, RecordRead
<1>3. ASSUME NEW a \in Apps, AttemptStep(a) PROVE [Booking!Next]_portVars
  BY <1>2, <1>3 DEF AttemptStep, ListenFailed, SshAnswers, SshFailed, SshUp, RemoteOpen,
                    RemoteClosed, StartOk, HealthOk, AttemptFailed, Abandoned, Abandon
<1>4. ASSUME NEW a \in Apps,
             \/ StopDone(a) \/ Disconnected(a)
             \/ \E l \in Loops : LossReleased(a, l) \/ RetryTick(a, l)
      PROVE  [Booking!Next]_portVars
  BY <1>4 DEF StopDone, Disconnected, LossReleased, RetryTick, StartAttempt
<1>5. ASSUME NEW s \in Sessions, SessionDrop(s) \/ LateEvent(s)
      PROVE  [Booking!Next]_portVars
  <2>1. Losing(s) \in SUBSET Apps
    BY DEF Losing, OwnTypeOK
  <2> QED
    BY <1>5, <2>1 DEF SessionDrop, LateEvent, LoseEntries
<1> QED
  BY <1>1, <1>3, <1>4, <1>5 DEF Next, vars

(* The reservations keep their type. *)
LEMMA BookingTypeStep ==
    ASSUME Booking!PortTypeOK, OwnTypeOK, RecordRead, [Next]_vars
    PROVE  Booking!PortTypeOK'
BY BookingStep DEF Booking!PortTypeOK, Booking!Stages, Booking!Next, Booking!portVars,
   Booking!Ask, Booking!Granted, Booking!Refused, Booking!Activate, Booking!GiveUp,
   Booking!Ended, Booking!EndedThenAsk

-----------------------------------------------------------------------------
(* The owners of ports, leases, losses and snapshots. *)

(* A port keeps its one owner. *)
LEMMA PortStep ==
    ASSUME OwnTypeOK, Booking!PortTypeOK,
           LossHasOneLoop, PortHasOneOwner, [Next]_vars
    PROVE  PortHasOneOwner'
<1> USE DEF OwnTypeOK, Booking!PortTypeOK, Booking!Stages, LossHasOneLoop,
           PortHasOneOwner, PortDuring, Attempts, Teardowns,
           Booking!Ask, Booking!Granted, Booking!Refused,
           Booking!Activate, Booking!GiveUp,        Booking!Ended,
           Booking!EndedThenAsk, Booking!Registered,        Publish,
           Goto, sessionVars, portVars, entryVars, fixed
<1>1. ASSUME NEW a \in Apps, Connect(a) PROVE PortHasOneOwner'
  BY <1>1 DEF Connect, StartAttempt, Busy, Begin
<1>2. ASSUME NEW a \in Apps, ListenOk(a) PROVE PortHasOneOwner'
  BY <1>2 DEF ListenOk
<1>3. ASSUME NEW a \in Apps, ListenFailed(a) PROVE PortHasOneOwner'
  BY <1>3 DEF ListenFailed, LoopsFail, Waiting
<1>4. ASSUME NEW a \in Apps, NEW s \in Sessions, SshUp(a, s) PROVE PortHasOneOwner'
  BY <1>4 DEF SshUp
<1>5. ASSUME NEW a \in Apps, SshFailed(a) PROVE PortHasOneOwner'
  BY <1>5 DEF SshFailed, Abandon
<1>6. ASSUME NEW a \in Apps, RemoteOpen(a) PROVE PortHasOneOwner'
  BY <1>6 DEF RemoteOpen
<1>7. ASSUME NEW a \in Apps, RemoteClosed(a) PROVE PortHasOneOwner'
  BY <1>7 DEF RemoteClosed
<1>8. ASSUME NEW a \in Apps, StartOk(a) PROVE PortHasOneOwner'
  BY <1>8 DEF StartOk
<1>9. ASSUME NEW a \in Apps, AttemptFailed(a) PROVE PortHasOneOwner'
  BY <1>9 DEF AttemptFailed, Abandon
<1>10. ASSUME NEW a \in Apps, HealthOk(a) PROVE PortHasOneOwner'
  BY <1>10 DEF HealthOk, Waiting
<1>11. ASSUME NEW a \in Apps, Abandoned(a) PROVE PortHasOneOwner'
  BY <1>11 DEF Abandoned, LoopsFail, Waiting, GiveLeaseBack
<1>12. ASSUME NEW a \in Apps, Disconnect(a) PROVE PortHasOneOwner'
  BY <1>12 DEF Disconnect, BeginDisconnect
<1>13. ASSUME NEW a \in Apps, Reconnect(a) PROVE PortHasOneOwner'
  BY <1>13 DEF Reconnect, BeginDisconnect
<1>14. ASSUME NEW a \in Apps, StopDone(a) PROVE PortHasOneOwner'
  BY <1>14 DEF StopDone
<1>15. ASSUME NEW a \in Apps, Disconnected(a) PROVE PortHasOneOwner'
  BY <1>15 DEF Disconnected, Begin, GiveLeaseBack
<1>16. ASSUME NEW a \in Apps, NEW l \in Loops, LossReleased(a, l) PROVE PortHasOneOwner'
  BY <1>16 DEF LossReleased, GiveLeaseBack
<1>17. ASSUME NEW a \in Apps, NEW l \in Loops, RetryTick(a, l) PROVE PortHasOneOwner'
  BY <1>17 DEF RetryTick, StartAttempt, Busy, Missing, Begin, LoopsFail
<1>18. ASSUME NEW s \in Sessions, SessionDrop(s) PROVE PortHasOneOwner'
  BY <1>18 DEF SessionDrop, LoseEntries, Losing
<1>19. ASSUME NEW s \in Sessions, LateEvent(s) PROVE PortHasOneOwner'
  BY <1>19 DEF LateEvent, LoseEntries, Losing
<1>20. ASSUME NEW a \in Apps, NEW p \in Ports, Edit(a, p) PROVE PortHasOneOwner'
  BY <1>20 DEF Edit
<1>21. ASSUME NEW a \in Apps, Delete(a) PROVE PortHasOneOwner'
  BY <1>21 DEF Delete
<1>22. CASE UNCHANGED vars
  BY <1>22 DEF vars
<1> QED
  BY <1>1, <1>2, <1>3, <1>4, <1>5, <1>6, <1>7, <1>8, <1>9, <1>10, <1>11, <1>12,
     <1>13, <1>14, <1>15, <1>16, <1>17, <1>18, <1>19, <1>20, <1>21, <1>22
     DEF Next, UserStep, AttemptStep, SshAnswers

(* A lease keeps its one owner. *)
LEMMA LeaseStep ==
    ASSUME Pool!TypeOK, OwnTypeOK,
           PortHasOneOwner, LossHasOneLoop, LeaseHasOneOwner, [Next]_vars
    PROVE  LeaseHasOneOwner'
<1> USE DEF Pool!TypeOK, OwnTypeOK, PortHasOneOwner, LossHasOneLoop,
           LeaseHasOneOwner, Attempts, Teardowns, Pool!Phases,
           Pool!AcquireHit, Pool!AcquireMiss, Pool!Connected,
           Pool!ConnectFailed,        Pool!Release, Pool!ReleaseStale,
           Pool!ReleaseShared, Pool!ReleaseLast,
           Pool!ReleaseAgain, Pool!Drop, Pool!poolVars,        Publish,
           Goto, sessionVars, portVars, entryVars, fixed
<1>1. ASSUME NEW a \in Apps, Connect(a) PROVE LeaseHasOneOwner'
  BY <1>1 DEF Connect, StartAttempt, Busy, Begin
<1>2. ASSUME NEW a \in Apps, ListenOk(a) PROVE LeaseHasOneOwner'
  BY <1>2 DEF ListenOk
<1>3. ASSUME NEW a \in Apps, ListenFailed(a) PROVE LeaseHasOneOwner'
  BY <1>3 DEF ListenFailed, LoopsFail, Waiting
<1>4. ASSUME NEW a \in Apps, NEW s \in Sessions, SshUp(a, s) PROVE LeaseHasOneOwner'
  BY <1>4 DEF SshUp
<1>5. ASSUME NEW a \in Apps, SshFailed(a) PROVE LeaseHasOneOwner'
  BY <1>5 DEF SshFailed, Abandon
<1>6. ASSUME NEW a \in Apps, RemoteOpen(a) PROVE LeaseHasOneOwner'
  BY <1>6 DEF RemoteOpen
<1>7. ASSUME NEW a \in Apps, RemoteClosed(a) PROVE LeaseHasOneOwner'
  BY <1>7 DEF RemoteClosed
<1>8. ASSUME NEW a \in Apps, StartOk(a) PROVE LeaseHasOneOwner'
  BY <1>8 DEF StartOk
<1>9. ASSUME NEW a \in Apps, AttemptFailed(a) PROVE LeaseHasOneOwner'
  BY <1>9 DEF AttemptFailed, Abandon
<1>10. ASSUME NEW a \in Apps, HealthOk(a) PROVE LeaseHasOneOwner'
  BY <1>10 DEF HealthOk, Waiting
<1>11. ASSUME NEW a \in Apps, Abandoned(a) PROVE LeaseHasOneOwner'
  BY <1>11 DEF Abandoned, LoopsFail, Waiting, GiveLeaseBack
<1>12. ASSUME NEW a \in Apps, Disconnect(a) PROVE LeaseHasOneOwner'
  BY <1>12 DEF Disconnect, BeginDisconnect
<1>13. ASSUME NEW a \in Apps, Reconnect(a) PROVE LeaseHasOneOwner'
  BY <1>13 DEF Reconnect, BeginDisconnect
<1>14. ASSUME NEW a \in Apps, StopDone(a) PROVE LeaseHasOneOwner'
  BY <1>14 DEF StopDone
<1>15. ASSUME NEW a \in Apps, Disconnected(a) PROVE LeaseHasOneOwner'
  BY <1>15 DEF Disconnected, Begin, GiveLeaseBack
<1>16. ASSUME NEW a \in Apps, NEW l \in Loops, LossReleased(a, l) PROVE LeaseHasOneOwner'
  BY <1>16 DEF LossReleased, GiveLeaseBack
<1>17. ASSUME NEW a \in Apps, NEW l \in Loops, RetryTick(a, l) PROVE LeaseHasOneOwner'
  BY <1>17 DEF RetryTick, StartAttempt, Busy, Missing, Begin, LoopsFail
<1>18. ASSUME NEW s \in Sessions, SessionDrop(s) PROVE LeaseHasOneOwner'
  BY <1>18 DEF SessionDrop, LoseEntries, Losing
<1>19. ASSUME NEW s \in Sessions, LateEvent(s) PROVE LeaseHasOneOwner'
  BY <1>19 DEF LateEvent, LoseEntries, Losing
<1>20. ASSUME NEW a \in Apps, NEW p \in Ports, Edit(a, p) PROVE LeaseHasOneOwner'
  BY <1>20 DEF Edit
<1>21. ASSUME NEW a \in Apps, Delete(a) PROVE LeaseHasOneOwner'
  BY <1>21 DEF Delete
<1>22. CASE UNCHANGED vars
  BY <1>22 DEF vars
<1> QED
  BY <1>1, <1>2, <1>3, <1>4, <1>5, <1>6, <1>7, <1>8, <1>9, <1>10, <1>11, <1>12,
     <1>13, <1>14, <1>15, <1>16, <1>17, <1>18, <1>19, <1>20, <1>21, <1>22
     DEF Next, UserStep, AttemptStep, SshAnswers

(* A loss keeps its one loop. *)
LEMMA LossStep ==
    ASSUME OwnTypeOK, LoopTypeOK,
           PortHasOneOwner, LossHasOneLoop, [Next]_vars
    PROVE  LossHasOneLoop'
<1> USE DEF OwnTypeOK, LoopTypeOK, LoopStates, Off, PortHasOneOwner, LossHasOneLoop,
           Attempts, Teardowns, LoopsFail, Waiting,        Publish,
           Goto, sessionVars, portVars, entryVars, fixed
<1>1. ASSUME NEW a \in Apps, Connect(a) PROVE LossHasOneLoop'
  BY <1>1 DEF Connect, StartAttempt, Busy, Begin
<1>2. ASSUME NEW a \in Apps, ListenOk(a) PROVE LossHasOneLoop'
  BY <1>2 DEF ListenOk
<1>3. ASSUME NEW a \in Apps, ListenFailed(a) PROVE LossHasOneLoop'
  BY <1>3 DEF ListenFailed, LoopsFail, Waiting
<1>4. ASSUME NEW a \in Apps, NEW s \in Sessions, SshUp(a, s) PROVE LossHasOneLoop'
  BY <1>4 DEF SshUp
<1>5. ASSUME NEW a \in Apps, SshFailed(a) PROVE LossHasOneLoop'
  BY <1>5 DEF SshFailed, Abandon
<1>6. ASSUME NEW a \in Apps, RemoteOpen(a) PROVE LossHasOneLoop'
  BY <1>6 DEF RemoteOpen
<1>7. ASSUME NEW a \in Apps, RemoteClosed(a) PROVE LossHasOneLoop'
  BY <1>7 DEF RemoteClosed
<1>8. ASSUME NEW a \in Apps, StartOk(a) PROVE LossHasOneLoop'
  BY <1>8 DEF StartOk
<1>9. ASSUME NEW a \in Apps, AttemptFailed(a) PROVE LossHasOneLoop'
  BY <1>9 DEF AttemptFailed, Abandon
<1>10. ASSUME NEW a \in Apps, HealthOk(a) PROVE LossHasOneLoop'
  BY <1>10 DEF HealthOk, Waiting
<1>11. ASSUME NEW a \in Apps, Abandoned(a) PROVE LossHasOneLoop'
  BY <1>11 DEF Abandoned, LoopsFail, Waiting, GiveLeaseBack
<1>12. ASSUME NEW a \in Apps, Disconnect(a) PROVE LossHasOneLoop'
  BY <1>12 DEF Disconnect, BeginDisconnect
<1>13. ASSUME NEW a \in Apps, Reconnect(a) PROVE LossHasOneLoop'
  BY <1>13 DEF Reconnect, BeginDisconnect
<1>14. ASSUME NEW a \in Apps, StopDone(a) PROVE LossHasOneLoop'
  BY <1>14 DEF StopDone
<1>15. ASSUME NEW a \in Apps, Disconnected(a) PROVE LossHasOneLoop'
  BY <1>15 DEF Disconnected, Begin, GiveLeaseBack
<1>16. ASSUME NEW a \in Apps, NEW l \in Loops, LossReleased(a, l) PROVE LossHasOneLoop'
  BY <1>16 DEF LossReleased, GiveLeaseBack
<1>17. ASSUME NEW a \in Apps, NEW l \in Loops, RetryTick(a, l) PROVE LossHasOneLoop'
  <2>1. /\ loop[a][l].at = "sleep"
        /\ UNCHANGED entryVars
        /\ \A b \in Apps : attempt[b] # "idle" => attempt'[b] # "idle"
    BY <1>17 DEF RetryTick, StartAttempt, Begin
  <2>2. CASE loop' = [loop EXCEPT ![a][l].at = "await"]
    <3>1. attempt'[a] # "idle"
      BY <1>17, <2>1, <2>2 DEF RetryTick, StartAttempt, Begin
    <3>2. \A b \in Apps, m \in Loops :
              loop'[b][m].at = "closing" <=> loop[b][m].at = "closing"
      BY <2>1, <2>2 DEF LoopTypeOK, LoopStates
    <3>3. \A b \in Apps, m \in Loops :
              loop'[b][m].at = "await" => attempt'[b] # "idle"
      BY <2>1, <2>2, <3>1 DEF LoopTypeOK, LoopStates
    <3>4. teardown' = teardown
      BY <2>1
    <3> QED
      BY <3>2, <3>3, <3>4
  <2>3. CASE LoopsFail(a, {l})
    BY <2>1, <2>3
  <2> QED
    BY <1>17, <2>2, <2>3 DEF RetryTick
<1>18. ASSUME NEW s \in Sessions, SessionDrop(s) PROVE LossHasOneLoop'
  BY <1>18 DEF SessionDrop, LoseEntries, Losing
<1>19. ASSUME NEW s \in Sessions, LateEvent(s) PROVE LossHasOneLoop'
  BY <1>19 DEF LateEvent, LoseEntries, Losing
<1>20. ASSUME NEW a \in Apps, NEW p \in Ports, Edit(a, p) PROVE LossHasOneLoop'
  BY <1>20 DEF Edit
<1>21. ASSUME NEW a \in Apps, Delete(a) PROVE LossHasOneLoop'
  BY <1>21 DEF Delete
<1>22. CASE UNCHANGED vars
  BY <1>22 DEF vars
<1> QED
  BY <1>1, <1>2, <1>3, <1>4, <1>5, <1>6, <1>7, <1>8, <1>9, <1>10, <1>11, <1>12,
     <1>13, <1>14, <1>15, <1>16, <1>17, <1>18, <1>19, <1>20, <1>21, <1>22
     DEF Next, UserStep, AttemptStep, SshAnswers

(* "healthy" stays backed. *)
LEMMA HealthyStep ==
    ASSUME OwnTypeOK,
           PortHasOneOwner, LossHasOneLoop, HealthyIsBacked, [Next]_vars
    PROVE  HealthyIsBacked'
<1> USE DEF OwnTypeOK, HealthyIsBacked, PortHasOneOwner, LossHasOneLoop, LoopsFail,
           Publish, Goto, sessionVars, portVars, entryVars, fixed
<1>1. ASSUME NEW a \in Apps, Connect(a) PROVE HealthyIsBacked'
  BY <1>1 DEF Connect, StartAttempt, Busy, Begin
<1>2. ASSUME NEW a \in Apps, ListenOk(a) PROVE HealthyIsBacked'
  BY <1>2 DEF ListenOk
<1>3. ASSUME NEW a \in Apps, ListenFailed(a) PROVE HealthyIsBacked'
  BY <1>3 DEF ListenFailed, LoopsFail, Waiting
<1>4. ASSUME NEW a \in Apps, NEW s \in Sessions, SshUp(a, s) PROVE HealthyIsBacked'
  BY <1>4 DEF SshUp
<1>5. ASSUME NEW a \in Apps, SshFailed(a) PROVE HealthyIsBacked'
  BY <1>5 DEF SshFailed, Abandon
<1>6. ASSUME NEW a \in Apps, RemoteOpen(a) PROVE HealthyIsBacked'
  BY <1>6 DEF RemoteOpen
<1>7. ASSUME NEW a \in Apps, RemoteClosed(a) PROVE HealthyIsBacked'
  BY <1>7 DEF RemoteClosed
<1>8. ASSUME NEW a \in Apps, StartOk(a) PROVE HealthyIsBacked'
  BY <1>8 DEF StartOk
<1>9. ASSUME NEW a \in Apps, AttemptFailed(a) PROVE HealthyIsBacked'
  BY <1>9 DEF AttemptFailed, Abandon
<1>10. ASSUME NEW a \in Apps, HealthOk(a) PROVE HealthyIsBacked'
  BY <1>10 DEF HealthOk, Waiting
<1>11. ASSUME NEW a \in Apps, Abandoned(a) PROVE HealthyIsBacked'
  BY <1>11 DEF Abandoned, LoopsFail, Waiting, GiveLeaseBack
<1>12. ASSUME NEW a \in Apps, Disconnect(a) PROVE HealthyIsBacked'
  BY <1>12 DEF Disconnect, BeginDisconnect
<1>13. ASSUME NEW a \in Apps, Reconnect(a) PROVE HealthyIsBacked'
  BY <1>13 DEF Reconnect, BeginDisconnect
<1>14. ASSUME NEW a \in Apps, StopDone(a) PROVE HealthyIsBacked'
  BY <1>14 DEF StopDone
<1>15. ASSUME NEW a \in Apps, Disconnected(a) PROVE HealthyIsBacked'
  BY <1>15 DEF Disconnected, Begin, GiveLeaseBack
<1>16. ASSUME NEW a \in Apps, NEW l \in Loops, LossReleased(a, l) PROVE HealthyIsBacked'
  BY <1>16 DEF LossReleased, GiveLeaseBack
<1>17. ASSUME NEW a \in Apps, NEW l \in Loops, RetryTick(a, l) PROVE HealthyIsBacked'
  BY <1>17 DEF RetryTick, StartAttempt, Busy, Missing, Begin, LoopsFail
<1>18. ASSUME NEW s \in Sessions, SessionDrop(s) PROVE HealthyIsBacked'
  BY <1>18 DEF SessionDrop, LoseEntries, Losing
<1>19. ASSUME NEW s \in Sessions, LateEvent(s) PROVE HealthyIsBacked'
  BY <1>19 DEF LateEvent, LoseEntries, Losing
<1>20. ASSUME NEW a \in Apps, NEW p \in Ports, Edit(a, p) PROVE HealthyIsBacked'
  BY <1>20 DEF Edit
<1>21. ASSUME NEW a \in Apps, Delete(a) PROVE HealthyIsBacked'
  BY <1>21 DEF Delete
<1>22. CASE UNCHANGED vars
  BY <1>22 DEF vars
<1> QED
  BY <1>1, <1>2, <1>3, <1>4, <1>5, <1>6, <1>7, <1>8, <1>9, <1>10, <1>11, <1>12,
     <1>13, <1>14, <1>15, <1>16, <1>17, <1>18, <1>19, <1>20, <1>21, <1>22
     DEF Next, UserStep, AttemptStep, SshAnswers

(* So do the snapshots that announce progress. *)
LEMMA ProgressStep ==
    ASSUME OwnTypeOK, LoopTypeOK,
           PortHasOneOwner, LossHasOneLoop, ProgressIsBacked, [Next]_vars
    PROVE  ProgressIsBacked'
<1> USE DEF OwnTypeOK, LoopTypeOK, LoopStates, Off, PortHasOneOwner, LossHasOneLoop,
           ProgressIsBacked, LoopsFail, Waiting,        Publish, Goto,
           sessionVars, portVars, entryVars, fixed
<1>1. ASSUME NEW a \in Apps, Connect(a) PROVE ProgressIsBacked'
  <2>1. CASE StartAttempt(a)
    BY <1>1, <2>1 DEF Connect, StartAttempt, Begin, Busy
  <2>2. CASE Publish(a, "error") /\ UNCHANGED <<attempt, loop>>
    BY <2>2
  <2> QED
    BY <1>1, <2>1, <2>2 DEF Connect
<1>2. ASSUME NEW a \in Apps, ListenOk(a) PROVE ProgressIsBacked'
  BY <1>2 DEF ListenOk
<1>3. ASSUME NEW a \in Apps, ListenFailed(a) PROVE ProgressIsBacked'
  BY <1>3 DEF ListenFailed, LoopsFail, Waiting
<1>4. ASSUME NEW a \in Apps, NEW s \in Sessions, SshUp(a, s) PROVE ProgressIsBacked'
  BY <1>4 DEF SshUp
<1>5. ASSUME NEW a \in Apps, SshFailed(a) PROVE ProgressIsBacked'
  BY <1>5 DEF SshFailed, Abandon
<1>6. ASSUME NEW a \in Apps, RemoteOpen(a) PROVE ProgressIsBacked'
  BY <1>6 DEF RemoteOpen
<1>7. ASSUME NEW a \in Apps, RemoteClosed(a) PROVE ProgressIsBacked'
  BY <1>7 DEF RemoteClosed
<1>8. ASSUME NEW a \in Apps, StartOk(a) PROVE ProgressIsBacked'
  BY <1>8 DEF StartOk
<1>9. ASSUME NEW a \in Apps, AttemptFailed(a) PROVE ProgressIsBacked'
  BY <1>9 DEF AttemptFailed, Abandon
<1>10. ASSUME NEW a \in Apps, HealthOk(a) PROVE ProgressIsBacked'
  BY <1>10 DEF HealthOk, Waiting
<1>11. ASSUME NEW a \in Apps, Abandoned(a) PROVE ProgressIsBacked'
  BY <1>11 DEF Abandoned, LoopsFail, Waiting, GiveLeaseBack
<1>12. ASSUME NEW a \in Apps, Disconnect(a) PROVE ProgressIsBacked'
  BY <1>12 DEF Disconnect, BeginDisconnect
<1>13. ASSUME NEW a \in Apps, Reconnect(a) PROVE ProgressIsBacked'
  BY <1>13 DEF Reconnect, BeginDisconnect
<1>14. ASSUME NEW a \in Apps, StopDone(a) PROVE ProgressIsBacked'
  BY <1>14 DEF StopDone
<1>15. ASSUME NEW a \in Apps, Disconnected(a) PROVE ProgressIsBacked'
  BY <1>15 DEF Disconnected, Begin, GiveLeaseBack
<1>16. ASSUME NEW a \in Apps, NEW l \in Loops, LossReleased(a, l) PROVE ProgressIsBacked'
  BY <1>16 DEF LossReleased, GiveLeaseBack
<1>17. ASSUME NEW a \in Apps, NEW l \in Loops, RetryTick(a, l) PROVE ProgressIsBacked'
  BY <1>17 DEF RetryTick, StartAttempt, Busy, Missing, Begin, LoopsFail
<1>18. ASSUME NEW s \in Sessions, SessionDrop(s) PROVE ProgressIsBacked'
  BY <1>18 DEF SessionDrop, LoseEntries, Losing
<1>19. ASSUME NEW s \in Sessions, LateEvent(s) PROVE ProgressIsBacked'
  BY <1>19 DEF LateEvent, LoseEntries, Losing
<1>20. ASSUME NEW a \in Apps, NEW p \in Ports, Edit(a, p) PROVE ProgressIsBacked'
  BY <1>20 DEF Edit
<1>21. ASSUME NEW a \in Apps, Delete(a) PROVE ProgressIsBacked'
  BY <1>21 DEF Delete
<1>22. CASE UNCHANGED vars
  BY <1>22 DEF vars
<1> QED
  BY <1>1, <1>2, <1>3, <1>4, <1>5, <1>6, <1>7, <1>8, <1>9, <1>10, <1>11, <1>12,
     <1>13, <1>14, <1>15, <1>16, <1>17, <1>18, <1>19, <1>20, <1>21, <1>22
     DEF Next, UserStep, AttemptStep, SshAnswers

(* Applications listen on the port their attempt has read. *)
LEMMA PortRecordStep ==
    ASSUME OwnTypeOK, Booking!PortTypeOK,
           RecordRead, Booking!ListeningIsBooked, PortHasOneOwner, PortIsOfItsRecord, [Next]_vars
    PROVE  PortIsOfItsRecord'
<1> USE DEF OwnTypeOK, Booking!PortTypeOK, RecordRead, PortHasOneOwner, PortDuring,
           Attempts, Booking!ListeningIsBooked, PortIsOfItsRecord,
           Booking!Ask, Booking!Granted, Booking!Refused,
           Booking!Activate, Booking!GiveUp,        Booking!Ended,
           Booking!EndedThenAsk, Booking!Registered,        Publish,
           Goto, sessionVars, portVars, entryVars, fixed
<1>1. ASSUME NEW a \in Apps, Connect(a) PROVE PortIsOfItsRecord'
  BY <1>1 DEF Connect, StartAttempt, Busy, Begin
<1>2. ASSUME NEW a \in Apps, ListenOk(a) PROVE PortIsOfItsRecord'
  BY <1>2 DEF ListenOk
<1>3. ASSUME NEW a \in Apps, ListenFailed(a) PROVE PortIsOfItsRecord'
  BY <1>3 DEF ListenFailed, LoopsFail, Waiting
<1>4. ASSUME NEW a \in Apps, NEW s \in Sessions, SshUp(a, s) PROVE PortIsOfItsRecord'
  BY <1>4 DEF SshUp
<1>5. ASSUME NEW a \in Apps, SshFailed(a) PROVE PortIsOfItsRecord'
  BY <1>5 DEF SshFailed, Abandon
<1>6. ASSUME NEW a \in Apps, RemoteOpen(a) PROVE PortIsOfItsRecord'
  BY <1>6 DEF RemoteOpen
<1>7. ASSUME NEW a \in Apps, RemoteClosed(a) PROVE PortIsOfItsRecord'
  BY <1>7 DEF RemoteClosed
<1>8. ASSUME NEW a \in Apps, StartOk(a) PROVE PortIsOfItsRecord'
  BY <1>8 DEF StartOk
<1>9. ASSUME NEW a \in Apps, AttemptFailed(a) PROVE PortIsOfItsRecord'
  BY <1>9 DEF AttemptFailed, Abandon
<1>10. ASSUME NEW a \in Apps, HealthOk(a) PROVE PortIsOfItsRecord'
  BY <1>10 DEF HealthOk, Waiting
<1>11. ASSUME NEW a \in Apps, Abandoned(a) PROVE PortIsOfItsRecord'
  BY <1>11 DEF Abandoned, LoopsFail, Waiting, GiveLeaseBack
<1>12. ASSUME NEW a \in Apps, Disconnect(a) PROVE PortIsOfItsRecord'
  BY <1>12 DEF Disconnect, BeginDisconnect
<1>13. ASSUME NEW a \in Apps, Reconnect(a) PROVE PortIsOfItsRecord'
  BY <1>13 DEF Reconnect, BeginDisconnect
<1>14. ASSUME NEW a \in Apps, StopDone(a) PROVE PortIsOfItsRecord'
  BY <1>14 DEF StopDone
<1>15. ASSUME NEW a \in Apps, Disconnected(a) PROVE PortIsOfItsRecord'
  BY <1>15 DEF Disconnected, Begin, GiveLeaseBack
<1>16. ASSUME NEW a \in Apps, NEW l \in Loops, LossReleased(a, l) PROVE PortIsOfItsRecord'
  BY <1>16 DEF LossReleased, GiveLeaseBack
<1>17. ASSUME NEW a \in Apps, NEW l \in Loops, RetryTick(a, l) PROVE PortIsOfItsRecord'
  BY <1>17 DEF RetryTick, StartAttempt, Busy, Missing, Begin, LoopsFail
<1>18. ASSUME NEW s \in Sessions, SessionDrop(s) PROVE PortIsOfItsRecord'
  BY <1>18 DEF SessionDrop, LoseEntries, Losing
<1>19. ASSUME NEW s \in Sessions, LateEvent(s) PROVE PortIsOfItsRecord'
  BY <1>19 DEF LateEvent, LoseEntries, Losing
<1>20. ASSUME NEW a \in Apps, NEW p \in Ports, Edit(a, p) PROVE PortIsOfItsRecord'
  BY <1>20 DEF Edit
<1>21. ASSUME NEW a \in Apps, Delete(a) PROVE PortIsOfItsRecord'
  BY <1>21 DEF Delete
<1>22. CASE UNCHANGED vars
  BY <1>22 DEF vars
<1> QED
  BY <1>1, <1>2, <1>3, <1>4, <1>5, <1>6, <1>7, <1>8, <1>9, <1>10, <1>11, <1>12,
     <1>13, <1>14, <1>15, <1>16, <1>17, <1>18, <1>19, <1>20, <1>21, <1>22
     DEF Next, UserStep, AttemptStep, SshAnswers

-----------------------------------------------------------------------------
(* The inductive invariant. *)

\* No part is inductive alone: who may release a port depends on which loops
\* wait for a release, which snapshot stands on who holds the port.
RuntimeInv ==
    /\ TypeOK
    /\ RecordRead
    /\ PortHasOneOwner
    /\ LeaseHasOneOwner
    /\ LossHasOneLoop
    /\ HealthyIsBacked
    /\ ProgressIsBacked

(* Before anything is connected nobody owns anything. *)
LEMMA InitInv == Init => RuntimeInv
<1> SUFFICES ASSUME Init PROVE RuntimeInv
  OBVIOUS
<1>1. TypeOK
  BY DEF Init, TypeOK, Pool!Init, Pool!TypeOK, Pool!NoEntry, Pool!Entry, Pool!Statuses,
         Pool!Phases, Booking!Init, Booking!PortTypeOK, Booking!Stages, Attempts,
         Teardowns, LoopStates, Off, Status
<1>2. RecordRead /\ PortHasOneOwner /\ LeaseHasOneOwner
  BY DEF Init, RecordRead, PortHasOneOwner, LeaseHasOneOwner, Pool!Init, Booking!Init
<1>3. LossHasOneLoop /\ HealthyIsBacked /\ ProgressIsBacked
  BY DEF Init, LossHasOneLoop, HealthyIsBacked, ProgressIsBacked, Off
<1> QED
  BY <1>1, <1>2, <1>3 DEF RuntimeInv

(* Each step keeps all of it. *)
LEMMA InvStep ==
    ASSUME RuntimeInv, [Next]_vars
    PROVE  RuntimeInv'
<1>1. /\ Pool!TypeOK /\ Booking!PortTypeOK /\ OwnTypeOK /\ LoopTypeOK
      /\ RecordRead /\ PortHasOneOwner /\ LeaseHasOneOwner /\ LossHasOneLoop
      /\ HealthyIsBacked /\ ProgressIsBacked
  BY DEF RuntimeInv, TypeOK, OwnTypeOK, LoopTypeOK
<1>2. Pool!TypeOK'
  <2>1. PoolThms!TypeOK'
    BY <1>1, PoolStep, SamePool, PoolAssumptions, PoolThms!TypeStep DEF PoolCall, Pool!Next
  <2> QED
    BY <2>1 DEF Pool!TypeOK, PoolThms!TypeOK, Pool!NoEntry, PoolThms!NoEntry, Pool!Entry,
                PoolThms!Entry, Pool!Statuses, PoolThms!Statuses, Pool!Phases,
                PoolThms!Phases
<1>3. OwnTypeOK' /\ LoopTypeOK' /\ Booking!PortTypeOK' /\ RecordRead'
  BY <1>1, OwnTypeStep, LoopTypeStep, BookingTypeStep, RecordReadStep
<1>4. TypeOK'
  BY <1>2, <1>3 DEF TypeOK, OwnTypeOK, LoopTypeOK
<1>5. PortHasOneOwner' /\ LeaseHasOneOwner' /\ LossHasOneLoop'
  BY <1>1, PortStep, LeaseStep, LossStep
<1>6. HealthyIsBacked' /\ ProgressIsBacked'
  BY <1>1, HealthyStep, ProgressStep
<1> QED
  BY <1>3, <1>4, <1>5, <1>6 DEF RuntimeInv

(* The conjunction is an invariant of the runtime. *)
THEOREM RuntimeInvariant == Spec => []RuntimeInv
<1> QED
  BY InitInv, InvStep, PTL DEF Spec

(* The runtime's state keeps its shape. *)
THEOREM RuntimeTypeCorrect == Spec => []TypeOK
<1>1. RuntimeInv => TypeOK
  BY DEF RuntimeInv
<1> QED
  BY RuntimeInvariant, <1>1, PTL

(* Whatever fails, is lost or overlaps, a reserved port has one owner who will
   pass it on or give it up (connectInternal, disconnect and
   handleUnexpectedDisconnect of app-runtime-service.ts). *)
THEOREM PortHasOneOwnerHolds == Spec => []PortHasOneOwner
<1>1. RuntimeInv => PortHasOneOwner
  BY DEF RuntimeInv
<1> QED
  BY RuntimeInvariant, <1>1, PTL

(* And so has every lease of an SSH session. *)
THEOREM LeaseHasOneOwnerHolds == Spec => []LeaseHasOneOwner
<1>1. RuntimeInv => LeaseHasOneOwner
  BY DEF RuntimeInv
<1> QED
  BY RuntimeInvariant, <1>1, PTL

(* One retry loop stands behind each loss of a session. *)
THEOREM LossHasOneLoopHolds == Spec => []LossHasOneLoop
<1>1. RuntimeInv => LossHasOneLoop
  BY DEF RuntimeInv
<1> QED
  BY RuntimeInvariant, <1>1, PTL

(* While a snapshot says "healthy", its application is active or its port is still
   being released. *)
THEOREM HealthyIsBackedHolds == Spec => []HealthyIsBacked
BY RuntimeInvariant, PTL DEF RuntimeInv

(* A snapshot that announces progress always has somebody at work behind it:
   no early return and no error path leaves one behind. *)
THEOREM ProgressIsBackedHolds == Spec => []ProgressIsBacked
BY RuntimeInvariant, PTL DEF RuntimeInv

(* The runtime uses the reservations as PortReservations says, which
   TunnelManager implements. *)
THEOREM RuntimeUsesReservations == Spec => Booking!Spec
<1>1. Init => Booking!Init
  BY DEF Init
<1>2. RuntimeInv /\ [Next]_vars => [Booking!Next]_(Booking!portVars)
  BY BookingStep DEF RuntimeInv, TypeOK, OwnTypeOK
<1> QED
  BY <1>1, <1>2, RuntimeInvariant, PTL DEF Spec, Booking!Spec

(* The ports and the stages keep their types, for any applications and ports. *)
THEOREM PortsTypeCorrect == Booking!Spec => []Booking!PortTypeOK
<1>1. Booking!Init => Booking!PortTypeOK
  BY DEF Booking!Init, Booking!PortTypeOK, Booking!Stages
<1>2. Booking!PortTypeOK /\ [Booking!Next]_(Booking!portVars) => Booking!PortTypeOK'
  BY DEF Booking!PortTypeOK, Booking!Stages, Booking!Next, Booking!portVars,
         Booking!Ask, Booking!Granted, Booking!Refused, Booking!Activate, Booking!GiveUp,
         Booking!Ended, Booking!EndedThenAsk
<1>3. QED
  BY <1>1, <1>2, PTL DEF Booking!Spec

(* Ports and reservations agree, for any applications and ports: nobody
   listens without a reservation, nobody holds one without listening, and no
   application has two ports (release of
   apps/server/src/tunnels/tunnel-manager.ts as its users may rely on it). *)
THEOREM ListeningMatchesBooking == Booking!Spec => []Booking!ListeningIsBooked
<1>1. Booking!Init => Booking!ListeningIsBooked
  BY DEF Booking!Init, Booking!ListeningIsBooked
<1>2. Booking!PortTypeOK /\ Booking!ListeningIsBooked /\ [Booking!Next]_(Booking!portVars)
        => Booking!ListeningIsBooked'
  <2> SUFFICES ASSUME Booking!PortTypeOK, Booking!ListeningIsBooked, [Booking!Next]_(Booking!portVars)
               PROVE  Booking!ListeningIsBooked'
    OBVIOUS
  <2> USE DEF Booking!PortTypeOK, Booking!ListeningIsBooked
  <2>1. ASSUME NEW a \in Apps, Booking!Ask(a) \/ Booking!Refused(a) \/ Booking!Ended(a) \/ Booking!EndedThenAsk(a)
        PROVE  Booking!ListeningIsBooked'
    <3>1. booked[a] \notin {"held", "forwarding"} /\ booked'[a] \notin {"held", "forwarding"}
      BY <2>1 DEF Booking!Ask, Booking!Refused, Booking!Ended, Booking!EndedThenAsk
    <3>2. owner' = owner /\ \A b \in Apps \ {a} : booked'[b] = booked[b]
      BY <2>1 DEF Booking!Ask, Booking!Refused, Booking!Ended, Booking!EndedThenAsk
    <3>3. QED
      BY <3>1, <3>2
  <2>2. ASSUME NEW a \in Apps, Booking!Activate(a)
        PROVE  Booking!ListeningIsBooked'
    BY <2>2 DEF Booking!Activate
  <2>3. ASSUME NEW a \in Apps, NEW p \in Ports, Booking!Granted(a, p)
        PROVE  Booking!ListeningIsBooked'
    <3>1. \A q \in Ports : owner[q] # a
      BY <2>3 DEF Booking!Granted
    <3>2. /\ booked' = [booked EXCEPT ![a] = "held"]
          /\ owner' = [owner EXCEPT ![p] = a]
          /\ owner[p] = None
      BY <2>3 DEF Booking!Granted
    <3>3. \A q \in Ports : owner'[q] # None => booked'[owner'[q]] \in {"held", "forwarding"}
      BY <3>2
    <3>4. \A b \in Apps : booked'[b] \in {"held", "forwarding"} => \E q \in Ports : owner'[q] = b
      <4> SUFFICES ASSUME NEW b \in Apps, booked'[b] \in {"held", "forwarding"}
                   PROVE  \E q \in Ports : owner'[q] = b
        OBVIOUS
      <4>1. CASE b = a
        BY <4>1, <3>2
      <4>2. CASE b # a
        <5>1. PICK q \in Ports : owner[q] = b
          BY <4>2, <3>2
        <5>2. owner'[q] = b
          BY <5>1, <3>2
        <5>3. QED
          BY <5>2
      <4>3. QED
        BY <4>1, <4>2
    <3>5. \A q, r \in Ports : owner'[q] = owner'[r] /\ owner'[q] # None => q = r
      BY <3>1, <3>2
    <3>6. QED
      BY <3>3, <3>4, <3>5
  <2>4. ASSUME NEW A \in SUBSET Apps, Booking!GiveUp(A)
        PROVE  Booking!ListeningIsBooked'
    <3>1. /\ \A b \in Apps : booked'[b] = IF b \in A THEN "closing" ELSE booked[b]
          /\ \A q \in Ports : owner'[q] = IF owner[q] \in A THEN None ELSE owner[q]
      BY <2>4 DEF Booking!GiveUp
    <3>2. \A q \in Ports : owner'[q] # None => booked'[owner'[q]] \in {"held", "forwarding"}
      BY <3>1
    <3>3. \A b \in Apps : booked'[b] \in {"held", "forwarding"} => \E q \in Ports : owner'[q] = b
      BY <3>1
    <3>4. \A q, r \in Ports : owner'[q] = owner'[r] /\ owner'[q] # None => q = r
      BY <3>1
    <3>5. QED
      BY <3>2, <3>3, <3>4
  <2>5. CASE UNCHANGED Booking!portVars
    BY <2>5 DEF Booking!portVars
  <2>6. QED
    BY <2>1, <2>2, <2>3, <2>4, <2>5 DEF Booking!Next
<1>3. QED
  BY <1>1, <1>2, PortsTypeCorrect, PTL DEF Booking!Spec

(* Edits and deletions of records never part an application from its port:
   that needs every port to have one application, which the reservations
   guarantee. *)
THEOREM PortIsOfItsRecordHolds == Spec => []PortIsOfItsRecord
<1>1. Init => PortIsOfItsRecord
  BY DEF Init, PortIsOfItsRecord
<1>2. RuntimeInv /\ Booking!ListeningIsBooked /\ PortIsOfItsRecord /\ [Next]_vars
        => PortIsOfItsRecord'
  BY PortRecordStep DEF RuntimeInv, TypeOK, OwnTypeOK
<1>3. Spec => []Booking!ListeningIsBooked
  BY ListeningMatchesBooking, RuntimeUsesReservations, PTL
<1> QED
  BY <1>1, <1>2, <1>3, RuntimeInvariant, PTL DEF Spec

(* No release of one application closes the session under another one that is
   active: what the pool promises to the holders of leases, the runtime's
   applications have, since an active application holds its lease. *)
THEOREM ActiveSessionNotClosedHolds == Spec => []ActiveSessionNotClosed
<1> DEFINE NoShutdown == \A s \in Sessions : sess[s] # "shutdown"
<1>1. Spec => []PoolThms!LeasedNeverClosed
  <2>1. PoolThms!Spec => []PoolThms!LeasedNeverClosed
    BY PoolThms!LeasedNeverClosedHolds, PoolAssumptions
  <2> QED
    BY <2>1, RuntimeUsesPool, PTL
<1>2. Spec => []PoolThms!HeldOnOwnServer
  <2>1. PoolThms!Spec => []PoolThms!HeldOnOwnServer
    BY PoolThms!HeldOnOwnServerHolds, PoolAssumptions
  <2> QED
    BY <2>1, RuntimeUsesPool, PTL
<1>3. Spec => []NoShutdown
  <2>1. Init => NoShutdown
    BY DEF Init, Pool!Init
  <2>2. Pool!TypeOK /\ NoShutdown /\ [PoolCall]_sessionVars => NoShutdown'
    BY DEF PoolCall, sessionVars, Pool!TypeOK, Pool!AcquireHit, Pool!AcquireMiss,
           Pool!ConnectFailed, Pool!Connected, Pool!Release, Pool!ReleaseStale,
           Pool!ReleaseShared, Pool!ReleaseLast, Pool!ReleaseAgain, Pool!poolVars, Pool!Drop
  <2>3. RuntimeInv /\ NoShutdown /\ [Next]_vars => NoShutdown'
    BY <2>2, PoolStep DEF RuntimeInv, TypeOK
  <2> QED
    BY <2>1, <2>3, RuntimeInvariant, PTL DEF Spec
<1>4. RuntimeInv /\ PoolThms!LeasedNeverClosed /\ PoolThms!HeldOnOwnServer /\ NoShutdown
        => ActiveSessionNotClosed
  <2>1. ASSUME RuntimeInv, PoolThms!LeasedNeverClosed, PoolThms!HeldOnOwnServer,
               NoShutdown, NEW a \in active
        PROVE  sess[lease[a]] \in {"open", "lost"}
    <3>1. a \in Apps /\ phase[a] = "holding"
      BY <2>1 DEF RuntimeInv, TypeOK, LeaseHasOneOwner
    <3>2. lease[a] \in Sessions /\ sess[lease[a]] \notin {"unused", "closed"}
      BY <2>1, <3>1 DEF PoolThms!LeasedNeverClosed, PoolThms!HeldOnOwnServer
    <3> QED
      BY <2>1, <3>2 DEF RuntimeInv, TypeOK, Pool!TypeOK, Pool!Statuses
  <2> QED
    BY <2>1 DEF ActiveSessionNotClosed
<1> QED
  BY <1>1, <1>2, <1>3, <1>4, RuntimeInvariant, PTL
=============================================================================
