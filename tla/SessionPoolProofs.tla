-------------------------- MODULE SessionPoolProofs --------------------------
(***************************************************************************)
(* Proofs about the session pool, for every number of callers, servers and *)
(* sessions: its type, its lease accounting, that a leased session is not  *)
(* closed by a release, and that it implements SessionLeases.              *)
(***************************************************************************)
EXTENDS SessionPool, FiniteSetTheorems, TLAPS

USE CallersAssumption, ServerOfAssumption, HostOfAssumption, NoneAssumption

-----------------------------------------------------------------------------
(* Type correctness. *)

(* A server without an entry, and one with an entry, are told apart by the
   session of the record. *)
LEMMA EntryOrNone ==
    ASSUME TypeOK, NEW v \in Servers
    PROVE  /\ pool[v] # NoEntry <=> pool[v] \in Entry
           /\ pool[v] # NoEntry <=> pool[v].session \in Sessions
           /\ pool[v] = NoEntry <=> pool[v].session = None
           /\ pool[v].leases \in Nat
BY DEF TypeOK, Entry, NoEntry

(* Each operation keeps the type. *)
LEMMA TypeStep ==
    ASSUME TypeOK, [Next]_poolVars
    PROVE  TypeOK'
<1> USE DEF TypeOK, Statuses, Phases
<1>1. ASSUME NEW c \in Callers, AcquireHit(c) PROVE TypeOK'
  <2>1. pool[ServerOf[c]] \in Entry /\ pool[ServerOf[c]].session \in Sessions
    BY <1>1, EntryOrNone DEF AcquireHit
  <2>2. [pool[ServerOf[c]] EXCEPT !.leases = @ + 1] \in Entry
    BY <2>1 DEF Entry
  <2> QED
    BY <1>1, <2>1, <2>2 DEF AcquireHit
<1>2. ASSUME NEW c \in Callers, AcquireMiss(c) PROVE TypeOK'
  BY <1>2 DEF AcquireMiss
<1>3. ASSUME NEW c \in Callers, ConnectFailed(c) PROVE TypeOK'
  BY <1>3 DEF ConnectFailed
<1>4. ASSUME NEW c \in Callers, NEW s \in Sessions, Connected(c, s) PROVE TypeOK'
  <2>1. [session |-> s, leases |-> 1] \in Entry
    BY DEF Entry
  <2> QED
    BY <1>4, <2>1 DEF Connected
<1>5. ASSUME NEW c \in Callers, ReleaseStale(c) PROVE TypeOK'
  BY <1>5 DEF ReleaseStale
<1>6. ASSUME NEW c \in Callers, ReleaseShared(c) PROVE TypeOK'
  <2>1. pool[ServerOf[c]] # NoEntry
    BY <1>6 DEF ReleaseShared, NoEntry
  <2>2. [pool[ServerOf[c]] EXCEPT !.leases = @ - 1] \in Entry
    BY <1>6, <2>1, EntryOrNone DEF ReleaseShared, Entry
  <2> QED
    BY <1>6, <2>2 DEF ReleaseShared
<1>7. ASSUME NEW c \in Callers, ReleaseLast(c) PROVE TypeOK'
  BY <1>7 DEF ReleaseLast
<1>8. ASSUME NEW c \in Callers, ReleaseAgain(c) PROVE TypeOK'
  BY <1>8 DEF ReleaseAgain, poolVars
<1>9. ASSUME NEW s \in Sessions, Drop(s) PROVE TypeOK'
  BY <1>9 DEF Drop
<1>10. CASE CloseAll
  BY <1>10 DEF CloseAll
<1>11. CASE UNCHANGED poolVars
  BY <1>11 DEF poolVars
<1> QED
  BY <1>1, <1>2, <1>3, <1>4, <1>5, <1>6, <1>7, <1>8, <1>9, <1>10, <1>11
     DEF Next, Release

(* Every state of the pool has the shape the code's Map and leases have. *)
THEOREM PoolTypeCorrect == Spec => []TypeOK
<1>1. Init => TypeOK
  BY DEF Init, TypeOK, NoEntry, Entry, Statuses, Phases
<1>2. TypeOK /\ [Next]_poolVars => TypeOK'
  BY TypeStep
<1> QED
  BY <1>1, <1>2, PTL DEF Spec

-----------------------------------------------------------------------------
(* The inductive invariant. *)

\* None of the parts is inductive alone: that the last release closes nobody's
\* session needs the count to be right, that the count stays right when an
\* entry is overwritten or dropped needs the pooled session to be open and
\* every lease to be on its own server.
PoolInv ==
    /\ TypeOK
    /\ PooledIsOpen
    /\ HeldOnOwnServer
    /\ LeaseAccounting
    /\ LeasedNeverClosed

(* The holders of a session are finitely many, so they can be counted. *)
LEMMA HoldersFinite ==
    ASSUME NEW s
    PROVE  IsFiniteSet(Holders(s)) /\ Cardinality(Holders(s)) \in Nat
<1>1. Holders(s) \subseteq Callers
  BY DEF Holders
<1> QED
  BY <1>1, FS_Subset, FS_CardinalityType

(* Counting one holder more. *)
LEMMA HolderAdded ==
    ASSUME NEW s, NEW c, c \notin Holders(s), Holders(s)' = Holders(s) \union {c}
    PROVE  Cardinality(Holders(s)') = Cardinality(Holders(s)) + 1
BY HoldersFinite, FS_AddElement

(* Counting one holder less. *)
LEMMA HolderRemoved ==
    ASSUME NEW s, NEW c, c \in Holders(s), Holders(s)' = Holders(s) \ {c}
    PROVE  Cardinality(Holders(s)') = Cardinality(Holders(s)) - 1
BY HoldersFinite, FS_RemoveElement

(* A session with one holder has no other. *)
LEMMA OnlyHolder ==
    ASSUME NEW s, NEW c, c \in Holders(s), Cardinality(Holders(s)) <= 1
    PROVE  Holders(s) = {c}
<1>1. Cardinality(Holders(s) \ {c}) = 0
  BY HoldersFinite, FS_RemoveElement, FS_CardinalityType, FS_Subset
<1>2. IsFiniteSet(Holders(s) \ {c})
  BY HoldersFinite, FS_RemoveElement
<1> QED
  BY <1>1, <1>2, FS_EmptySet

-----------------------------------------------------------------------------
(* Preservation, one lemma per operation. *)

(* The accounting after a step, server by server and session by session. *)
LEMMA AccountingAfter ==
    ASSUME TypeOK',
           \A w \in Servers, s \in Sessions :
               pool'[w] # NoEntry /\ pool'[w].session = s =>
                   /\ pool'[w].leases = Cardinality(Holders(s)')
                   /\ pool'[w].leases > 0
    PROVE  LeaseAccounting'
<1> SUFFICES ASSUME NEW w \in Servers, pool'[w] # NoEntry
             PROVE  /\ pool'[w].leases = Cardinality(Holders(pool[w].session)')
                    /\ pool'[w].leases > 0
  BY DEF LeaseAccounting
<1>1. pool'[w].session \in Sessions
  BY DEF TypeOK, Entry, NoEntry
<1>2. PICK s \in Sessions : s = pool'[w].session
  BY <1>1
<1>3. Holders(pool[w].session)' = Holders(s)'
  BY <1>2 DEF Holders
<1> QED
  BY <1>2, <1>3

(* The accounting before a step, for the same session. *)
LEMMA AccountingBefore ==
    ASSUME PoolInv, NEW w \in Servers, NEW s \in Sessions, pool[w].session = s
    PROVE  /\ pool[w] # NoEntry
           /\ pool[w].leases = Cardinality(Holders(s))
           /\ pool[w].leases \in Nat \ {0}
           /\ sess[s] = "open"
           /\ HostOf[s] = w
BY EntryOrNone DEF PoolInv, LeaseAccounting, PooledIsOpen

(* Each entry counts its own session's holders when their set is unchanged. *)
LEMMA AccountingKept ==
    ASSUME PoolInv, TypeOK',
           \A w \in Servers : pool'[w] = NoEntry \/ pool'[w] = pool[w],
           \A w \in Servers, s \in Sessions :
               pool'[w] # NoEntry /\ pool[w].session = s => Holders(s)' = Holders(s)
    PROVE  LeaseAccounting'
<1> SUFFICES ASSUME NEW w \in Servers, NEW s \in Sessions,
                    pool'[w] # NoEntry, pool'[w].session = s
             PROVE  /\ pool'[w].leases = Cardinality(Holders(s)')
                    /\ pool'[w].leases > 0
  BY AccountingAfter
<1>1. pool'[w] = pool[w] /\ pool[w].session = s
  OBVIOUS
<1> QED
  BY <1>1, AccountingBefore

(* A lease on an existing entry: the entry's session gains one holder, no
   other pooled session does. *)
LEMMA AcquireHitStep ==
    ASSUME PoolInv, TypeOK', NEW c \in Callers, AcquireHit(c)
    PROVE  PoolInv'
<1> DEFINE v == ServerOf[c]
<1> USE DEF PoolInv
<1>1. PICK t \in Sessions : t = pool[v].session
  BY EntryOrNone DEF AcquireHit
<1>2. pool[v] \in Entry /\ sess[t] = "open" /\ HostOf[t] = v
  BY <1>1, EntryOrNone, AccountingBefore DEF AcquireHit
<1>3. /\ \A w \in Servers \ {v} : pool'[w] = pool[w]
      /\ pool'[v].session = t
      /\ pool'[v].leases = pool[v].leases + 1
  BY <1>1, <1>2 DEF AcquireHit, TypeOK, Entry
<1>4. PooledIsOpen'
  BY <1>2, <1>3, EntryOrNone DEF PooledIsOpen, AcquireHit
<1>5. HeldOnOwnServer' /\ LeasedNeverClosed'
  BY <1>1, <1>2 DEF HeldOnOwnServer, LeasedNeverClosed, AcquireHit, TypeOK
<1>6. LeaseAccounting'
  <2> SUFFICES ASSUME NEW w \in Servers, NEW s \in Sessions,
                      pool'[w] # NoEntry, pool'[w].session = s
               PROVE  /\ pool'[w].leases = Cardinality(Holders(s)')
                      /\ pool'[w].leases > 0
    BY AccountingAfter
  <2>1. CASE w = v
    <3>1. c \notin Holders(t) /\ Holders(t)' = Holders(t) \union {c}
      BY <1>1 DEF Holders, AcquireHit, TypeOK
    <3>2. Cardinality(Holders(t)') = Cardinality(Holders(t)) + 1
      BY <3>1, HolderAdded
    <3>3. pool[v].leases = Cardinality(Holders(t)) /\ pool[v].leases \in Nat
      BY <1>1, AccountingBefore
    <3> QED
      BY <2>1, <3>2, <3>3, <1>3
  <2>2. CASE w # v
    <3>1. pool[w].session = s
      BY <2>2, <1>3
    <3>2. s # t
      BY <3>1, <2>2, <1>2, AccountingBefore
    <3>3. Holders(s)' = Holders(s)
      BY <3>2, <1>1 DEF Holders, AcquireHit, TypeOK
    <3> QED
      BY <2>2, <3>1, <3>3, <1>3, AccountingBefore
  <2> QED
    BY <2>1, <2>2
<1> QED
  BY <1>4, <1>5, <1>6

(* Starting to connect takes no lease: a caller in acquire holds nothing. *)
LEMMA AcquireMissStep ==
    ASSUME PoolInv, TypeOK', NEW c \in Callers, AcquireMiss(c)
    PROVE  PoolInv'
<1> USE DEF PoolInv
<1>1. \A s \in Sessions : Holders(s)' = Holders(s)
  BY DEF Holders, AcquireMiss, TypeOK
<1>2. LeaseAccounting'
  BY <1>1, AccountingKept DEF AcquireMiss
<1> QED
  BY <1>2 DEF PooledIsOpen, HeldOnOwnServer, LeasedNeverClosed, AcquireMiss, TypeOK

(* A failed connect leaves the leases alone. *)
LEMMA ConnectFailedStep ==
    ASSUME PoolInv, TypeOK', NEW c \in Callers, ConnectFailed(c)
    PROVE  PoolInv'
<1> USE DEF PoolInv
<1>1. \A s \in Sessions : Holders(s)' = Holders(s)
  BY DEF Holders, ConnectFailed, TypeOK
<1>2. LeaseAccounting'
  BY <1>1, AccountingKept DEF ConnectFailed
<1> QED
  BY <1>2 DEF PooledIsOpen, HeldOnOwnServer, LeasedNeverClosed, ConnectFailed, TypeOK

(* A new session replaces whatever the server's entry was; its holders are
   exactly the caller it was opened for. *)
LEMMA ConnectedStep ==
    ASSUME PoolInv, TypeOK', NEW c \in Callers, NEW t \in Sessions, Connected(c, t)
    PROVE  PoolInv'
<1> DEFINE v == ServerOf[c]
<1> USE DEF PoolInv
<1>1. /\ \A w \in Servers \ {v} : pool'[w] = pool[w]
      /\ pool'[v] = [session |-> t, leases |-> 1]
      /\ HostOf[t] = v /\ sess[t] # "open" /\ sess'[t] = "open"
      /\ \A s \in Sessions \ {t} : sess'[s] = sess[s]
  BY DEF Connected, Fresh, TypeOK
<1>2. PooledIsOpen'
  BY <1>1, EntryOrNone DEF PooledIsOpen
<1>3. HeldOnOwnServer'
  BY <1>1 DEF HeldOnOwnServer, Connected, TypeOK
<1>4. LeasedNeverClosed'
  BY <1>1 DEF HeldOnOwnServer, LeasedNeverClosed, Connected, TypeOK
<1>5. LeaseAccounting'
  <2> SUFFICES ASSUME NEW w \in Servers, NEW s \in Sessions,
                      pool'[w] # NoEntry, pool'[w].session = s
               PROVE  /\ pool'[w].leases = Cardinality(Holders(s)')
                      /\ pool'[w].leases > 0
    BY AccountingAfter
  <2>1. CASE w = v
    <3>1. Holders(t)' = {c}
      BY DEF Holders, Connected, Fresh, TypeOK
    <3>2. Cardinality(Holders(t)') = 1
      BY <3>1, FS_Singleton
    <3>3. s = t /\ pool'[w].leases = 1
      BY <2>1, <1>1
    <3> QED
      BY <3>2, <3>3
  <2>2. CASE w # v
    <3>1. pool[w].session = s
      BY <2>2, <1>1
    <3>2. s # t
      BY <3>1, <1>1, AccountingBefore
    <3>3. Holders(s)' = Holders(s)
      BY <3>2 DEF Holders, Connected, TypeOK
    <3> QED
      BY <2>2, <3>1, <3>3, <1>1, AccountingBefore
  <2> QED
    BY <2>1, <2>2
<1> QED
  BY <1>2, <1>3, <1>4, <1>5

(* A stale lease is not among the holders any entry counts. *)
LEMMA ReleaseStaleStep ==
    ASSUME PoolInv, TypeOK', NEW c \in Callers, ReleaseStale(c)
    PROVE  PoolInv'
<1> USE DEF PoolInv
<1>1. ASSUME NEW w \in Servers, NEW s \in Sessions, pool[w].session = s
      PROVE  Holders(s)' = Holders(s)
  <2>1. lease[c] # s
    BY <1>1, AccountingBefore DEF ReleaseStale, HeldOnOwnServer
  <2> QED
    BY <2>1 DEF Holders, ReleaseStale, TypeOK
<1>2. LeaseAccounting'
  BY <1>1, AccountingKept DEF ReleaseStale
<1> QED
  BY <1>2 DEF PooledIsOpen, HeldOnOwnServer, LeasedNeverClosed, ReleaseStale, TypeOK

(* One holder less, one lease less, and at least one of each left. *)
LEMMA ReleaseSharedStep ==
    ASSUME PoolInv, TypeOK', NEW c \in Callers, ReleaseShared(c)
    PROVE  PoolInv'
<1> DEFINE v == ServerOf[c]
<1> USE DEF PoolInv
<1>1. PICK t \in Sessions : t = pool[v].session /\ t = lease[c]
  BY DEF ReleaseShared, HeldOnOwnServer
<1>2. /\ pool[v] \in Entry /\ HostOf[t] = v
      /\ pool[v].leases = Cardinality(Holders(t)) /\ pool[v].leases \in Nat
  BY <1>1, EntryOrNone, AccountingBefore
<1>3. /\ \A w \in Servers \ {v} : pool'[w] = pool[w]
      /\ pool'[v].session = t
      /\ pool'[v].leases = pool[v].leases - 1
      /\ pool[v].leases > 1
  BY <1>1, <1>2 DEF ReleaseShared, TypeOK, Entry
<1>4. PooledIsOpen'
  BY <1>1, <1>3, EntryOrNone, AccountingBefore DEF PooledIsOpen, ReleaseShared
<1>5. HeldOnOwnServer' /\ LeasedNeverClosed'
  BY DEF HeldOnOwnServer, LeasedNeverClosed, ReleaseShared, TypeOK
<1>6. LeaseAccounting'
  <2> SUFFICES ASSUME NEW w \in Servers, NEW s \in Sessions,
                      pool'[w] # NoEntry, pool'[w].session = s
               PROVE  /\ pool'[w].leases = Cardinality(Holders(s)')
                      /\ pool'[w].leases > 0
    BY AccountingAfter
  <2>1. CASE w = v
    <3>1. c \in Holders(t) /\ Holders(t)' = Holders(t) \ {c}
      BY <1>1 DEF Holders, ReleaseShared, TypeOK
    <3>2. Cardinality(Holders(t)') = Cardinality(Holders(t)) - 1
      BY <3>1, HolderRemoved
    <3> QED
      BY <2>1, <3>2, <1>2, <1>3
  <2>2. CASE w # v
    <3>1. pool[w].session = s
      BY <2>2, <1>3
    <3>2. s # t
      BY <3>1, <2>2, <1>2, AccountingBefore
    <3>3. Holders(s)' = Holders(s)
      BY <3>2, <1>1 DEF Holders, ReleaseShared, TypeOK
    <3> QED
      BY <2>2, <3>1, <3>3, <1>3, AccountingBefore
  <2> QED
    BY <2>1, <2>2
<1> QED
  BY <1>4, <1>5, <1>6

(* The session that the last release closes has no other holder. *)
LEMMA LastHolder ==
    ASSUME PoolInv, NEW c \in Callers, ReleaseLast(c)
    PROVE  /\ lease[c] \in Sessions
           /\ sess[lease[c]] = "open"
           /\ \A d \in Callers : phase[d] = "holding" /\ lease[d] = lease[c] => d = c
<1>1. PICK t \in Sessions : t = pool[ServerOf[c]].session /\ t = lease[c]
  BY DEF ReleaseLast, HeldOnOwnServer, PoolInv
<1>2. Cardinality(Holders(t)) <= 1 /\ sess[t] = "open"
  BY <1>1, AccountingBefore DEF ReleaseLast
<1>3. c \in Holders(t)
  BY <1>1 DEF Holders, ReleaseLast
<1>4. Holders(t) = {c}
  BY <1>2, <1>3, OnlyHolder
<1> QED
  BY <1>1, <1>2, <1>4 DEF Holders

(* The last release closes a session nobody holds any more. *)
LEMMA ReleaseLastStep ==
    ASSUME PoolInv, TypeOK', NEW c \in Callers, ReleaseLast(c)
    PROVE  PoolInv'
<1> DEFINE v == ServerOf[c]
<1> USE DEF PoolInv
<1>1. PICK t \in Sessions : t = pool[v].session /\ t = lease[c]
  BY DEF ReleaseLast, HeldOnOwnServer
<1>2. HostOf[t] = v
  BY <1>1, AccountingBefore
<1>3. /\ \A w \in Servers \ {v} : pool'[w] = pool[w]
      /\ pool'[v] = NoEntry
      /\ \A s \in Sessions \ {t} : sess'[s] = sess[s]
  BY <1>1 DEF ReleaseLast, TypeOK
<1>4. PooledIsOpen'
  BY <1>2, <1>3, EntryOrNone DEF PooledIsOpen
<1>5. HeldOnOwnServer'
  BY DEF HeldOnOwnServer, ReleaseLast, TypeOK
<1>6. LeasedNeverClosed'
  <2> SUFFICES ASSUME NEW d \in Callers, phase'[d] = "holding"
               PROVE  sess'[lease'[d]] \notin {"unused", "closed"}
    BY DEF LeasedNeverClosed
  <2>1. d # c /\ phase[d] = "holding" /\ lease'[d] = lease[d]
    BY DEF ReleaseLast, TypeOK
  <2>2. lease[d] # t
    BY <2>1, <1>1, LastHolder
  <2> QED
    BY <2>1, <2>2, <1>3 DEF LeasedNeverClosed, HeldOnOwnServer
<1>7. LeaseAccounting'
  <2>1. ASSUME NEW w \in Servers, NEW s \in Sessions,
               pool'[w] # NoEntry, pool[w].session = s
        PROVE  Holders(s)' = Holders(s)
    <3>1. s # t
      BY <2>1, <1>2, <1>3, AccountingBefore
    <3> QED
      BY <3>1, <1>1 DEF Holders, ReleaseLast, TypeOK
  <2> QED
    BY <2>1, <1>3, AccountingKept
<1> QED
  BY <1>4, <1>5, <1>6, <1>7

(* A lost session leaves the map and keeps its holders. *)
LEMMA DropStep ==
    ASSUME PoolInv, TypeOK', NEW t \in Sessions, Drop(t)
    PROVE  PoolInv'
<1> USE DEF PoolInv
<1>1. /\ \A w \in Servers : pool'[w] = NoEntry \/ pool'[w] = pool[w]
      /\ \A w \in Servers : pool'[w] # NoEntry => pool[w].session # t
      /\ \A s \in Sessions \ {t} : sess'[s] = sess[s]
      /\ sess'[t] = "lost"
  <2>1. \A w \in Servers : pool[w].session = t => w = HostOf[t]
    BY AccountingBefore
  <2> QED
    BY <2>1 DEF Drop, TypeOK
<1>2. PooledIsOpen'
  BY <1>1, EntryOrNone DEF PooledIsOpen
<1>3. HeldOnOwnServer' /\ LeasedNeverClosed'
  BY <1>1 DEF HeldOnOwnServer, LeasedNeverClosed, Drop, TypeOK
<1>4. \A s \in Sessions : Holders(s)' = Holders(s)
  BY DEF Holders, Drop
<1>5. LeaseAccounting'
  BY <1>1, <1>4, AccountingKept
<1> QED
  BY <1>2, <1>3, <1>5

(* closeAll empties the map. *)
LEMMA CloseAllStep ==
    ASSUME PoolInv, TypeOK', CloseAll
    PROVE  PoolInv'
<1> USE DEF PoolInv
<1>1. PooledIsOpen' /\ LeaseAccounting'
  BY DEF PooledIsOpen, LeaseAccounting, CloseAll
<1>2. HeldOnOwnServer' /\ LeasedNeverClosed'
  BY DEF HeldOnOwnServer, LeasedNeverClosed, CloseAll, TypeOK
<1> QED
  BY <1>1, <1>2

(* Nothing but the variables matters. *)
LEMMA UnchangedStep ==
    ASSUME PoolInv, TypeOK', UNCHANGED poolVars
    PROVE  PoolInv'
<1> USE DEF PoolInv
<1>1. \A s \in Sessions : Holders(s)' = Holders(s)
  BY DEF Holders, poolVars
<1>2. LeaseAccounting'
  BY <1>1, AccountingKept DEF poolVars
<1> QED
  BY <1>2 DEF PooledIsOpen, HeldOnOwnServer, LeasedNeverClosed, poolVars

-----------------------------------------------------------------------------
(* The theorems. *)

(* The inductive invariant of the pool holds in every reachable state. *)
THEOREM PoolInvariant == Spec => []PoolInv
<1>1. Init => PoolInv
  BY DEF Init, PoolInv, TypeOK, NoEntry, Entry, Statuses, Phases,
         PooledIsOpen, HeldOnOwnServer, LeaseAccounting, LeasedNeverClosed
<1>2. PoolInv /\ [Next]_poolVars => PoolInv'
  <2> SUFFICES ASSUME PoolInv, [Next]_poolVars PROVE PoolInv'
    OBVIOUS
  <2>1. TypeOK'
    BY TypeStep DEF PoolInv
  <2>2. ASSUME NEW c \in Callers, Release(c) PROVE PoolInv'
    BY <2>1, <2>2, ReleaseStaleStep, ReleaseSharedStep, ReleaseLastStep,
       UnchangedStep DEF Release, ReleaseAgain
  <2> QED
    BY <2>1, <2>2, AcquireHitStep, AcquireMissStep, ConnectFailedStep,
       ConnectedStep, DropStep, CloseAllStep, UnchangedStep DEF Next
<1> QED
  BY <1>1, <1>2, PTL DEF Spec

(* The count of every pool entry is the number of leases on its session, for
   every number of callers, whatever the order of acquires, releases, lost
   connections and overwritten entries. *)
THEOREM LeaseAccountingHolds == Spec => []LeaseAccounting
BY PoolInvariant, PTL DEF PoolInv

(* No release closes a session that somebody still holds. *)
THEOREM LeasedNeverClosedHolds == Spec => []LeasedNeverClosed
BY PoolInvariant, PTL DEF PoolInv

(* The pool never lends a session that is no longer open. *)
THEOREM PooledIsOpenHolds == Spec => []PooledIsOpen
BY PoolInvariant, PTL DEF PoolInv

(* Every lease is on a session to its caller's own server. *)
THEOREM HeldOnOwnServerHolds == Spec => []HeldOnOwnServer
BY PoolInvariant, PTL DEF PoolInv

-----------------------------------------------------------------------------
(* The refinement. *)

(* Each step of the pool is a step of the abstract lending service, or none. *)
LEMMA StepRefines ==
    ASSUME PoolInv, [Next]_poolVars
    PROVE  [Leases!Next]_(Leases!leaseVars)
<1> USE DEF PoolInv, Leases!leaseVars
<1>1. ASSUME NEW c \in Callers, AcquireHit(c) PROVE Leases!Next
  <2>1. PICK t \in Sessions : t = pool[ServerOf[c]].session /\ sess[t] = "open"
    BY <1>1, EntryOrNone, AccountingBefore DEF AcquireHit
  <2>2. Leases!Share(c, t)
    BY <1>1, <2>1 DEF AcquireHit, Leases!Share, heldSession, TypeOK
  <2> QED
    BY <2>2 DEF Leases!Next
<1>2. ASSUME NEW c \in Callers, NEW t \in Sessions, Connected(c, t) PROVE Leases!Next
  <2>1. Leases!Open(c, t)
    BY <1>2 DEF Connected, Fresh, Leases!Open, Leases!HoldersOf, heldSession, TypeOK
  <2> QED
    BY <2>1 DEF Leases!Next
<1>3. ASSUME NEW c \in Callers, AcquireMiss(c) \/ ConnectFailed(c)
      PROVE  UNCHANGED Leases!leaseVars
  BY <1>3 DEF AcquireMiss, ConnectFailed, heldSession, TypeOK
<1>4. ASSUME NEW c \in Callers, ReleaseStale(c) \/ ReleaseShared(c) PROVE Leases!Next
  <2>1. Leases!GiveBack(c)
    BY <1>4 DEF ReleaseStale, ReleaseShared, Leases!GiveBack, heldSession,
                TypeOK, HeldOnOwnServer
  <2> QED
    BY <2>1 DEF Leases!Next
<1>5. ASSUME NEW c \in Callers, ReleaseLast(c) PROVE Leases!Next
  <2>1. PICK t \in Sessions : t = lease[c]
    BY <1>5, LastHolder
  <2>2. Leases!HoldersOf(t) = {c}
    BY <1>5, <2>1, LastHolder DEF Leases!HoldersOf, heldSession, ReleaseLast
  <2>3. Leases!GiveBackAndClose(c, t)
    BY <1>5, <2>1, <2>2 DEF ReleaseLast, Leases!GiveBackAndClose, heldSession, TypeOK
  <2> QED
    BY <2>3 DEF Leases!Next
<1>6. ASSUME NEW t \in Sessions, Drop(t) PROVE Leases!Next
  <2>1. Leases!Lose(t)
    BY <1>6 DEF Drop, Leases!Lose, heldSession
  <2> QED
    BY <2>1 DEF Leases!Next
<1>7. CASE CloseAll
  <2> DEFINE S == {s \in Sessions : pool[HostOf[s]].session = s}
  <2>1. \A s \in S : sess[s] = "open"
    BY AccountingBefore
  <2>2. Leases!StopService(S)
    BY <1>7, <2>1 DEF CloseAll, Leases!StopService, heldSession
  <2> QED
    BY <2>2 DEF Leases!Next
<1>8. CASE UNCHANGED poolVars
  BY <1>8 DEF poolVars, heldSession
<1> QED
  BY <1>1, <1>2, <1>3, <1>4, <1>5, <1>6, <1>7, <1>8 DEF Next, Release, ReleaseAgain

(* The pool implements the abstract lending service of SessionLeases. *)
THEOREM PoolImplementsLeases == Spec => ImplementsLeases
<1>1. Init => Leases!Init
  BY DEF Init, Leases!Init, heldSession
<1>2. PoolInv /\ [Next]_poolVars => [Leases!Next]_(Leases!leaseVars)
  BY StepRefines
<1> QED
  BY <1>1, <1>2, PoolInvariant, PTL DEF Spec, ImplementsLeases, Leases!Spec

-----------------------------------------------------------------------------
(* What the lending service promises, and so the pool. *)

(* Every session lent is a session, and every session has a status. *)
THEOREM LeasesTypeCorrect == Leases!Spec => []Leases!LeaseTypeOK
<1>1. Leases!Init => Leases!LeaseTypeOK
  BY DEF Leases!Init, Leases!LeaseTypeOK, Leases!Statuses
<1>2. Leases!LeaseTypeOK /\ [Leases!Next]_(Leases!leaseVars) => Leases!LeaseTypeOK'
  BY DEF Leases!LeaseTypeOK, Leases!Statuses, Leases!Next, Leases!leaseVars,
         Leases!Share, Leases!Open, Leases!GiveBack, Leases!GiveBackAndClose,
         Leases!Lose, Leases!StopService
<1>3. QED
  BY <1>1, <1>2, PTL DEF Leases!Spec

(* The service never closes a session while somebody holds it, for any number
   of borrowers and sessions: SessionLease.release of
   apps/server/src/ssh/ssh-session.ts as its users may rely on it. *)
THEOREM LeasesNeverClosed == Leases!Spec => []Leases!HeldNeverClosed
<1>1. Leases!Init => Leases!HeldNeverClosed
  BY DEF Leases!Init, Leases!HeldNeverClosed
<1>2. Leases!LeaseTypeOK /\ Leases!HeldNeverClosed /\ [Leases!Next]_(Leases!leaseVars)
        => Leases!HeldNeverClosed'
  <2> SUFFICES ASSUME Leases!LeaseTypeOK, Leases!HeldNeverClosed, [Leases!Next]_(Leases!leaseVars)
               PROVE  Leases!HeldNeverClosed'
    OBVIOUS
  <2>1. ASSUME NEW c \in Callers, Leases!GiveBack(c)
        PROVE  Leases!HeldNeverClosed'
    BY <2>1 DEF Leases!GiveBack, Leases!LeaseTypeOK, Leases!HeldNeverClosed
  <2>2. ASSUME NEW c \in Callers, NEW s \in Sessions, Leases!Share(c, s)
        PROVE  Leases!HeldNeverClosed'
    BY <2>2 DEF Leases!Share, Leases!LeaseTypeOK, Leases!HeldNeverClosed
  <2>3. ASSUME NEW c \in Callers, NEW s \in Sessions, Leases!Open(c, s)
        PROVE  Leases!HeldNeverClosed'
    BY <2>3 DEF Leases!Open, Leases!LeaseTypeOK, Leases!HeldNeverClosed
  <2>4. ASSUME NEW c \in Callers, NEW s \in Sessions, Leases!GiveBackAndClose(c, s)
        PROVE  Leases!HeldNeverClosed'
    BY <2>4 DEF Leases!GiveBackAndClose, Leases!HoldersOf, Leases!LeaseTypeOK,
                Leases!HeldNeverClosed
  <2>5. ASSUME NEW s \in Sessions, Leases!Lose(s)
        PROVE  Leases!HeldNeverClosed'
    BY <2>5 DEF Leases!Lose, Leases!LeaseTypeOK, Leases!HeldNeverClosed
  <2>6. ASSUME NEW S \in SUBSET Sessions, Leases!StopService(S)
        PROVE  Leases!HeldNeverClosed'
    BY <2>6 DEF Leases!StopService, Leases!LeaseTypeOK, Leases!HeldNeverClosed
  <2>7. CASE UNCHANGED Leases!leaseVars
    BY <2>7 DEF Leases!leaseVars, Leases!HeldNeverClosed
  <2>8. QED
    BY <2>1, <2>2, <2>3, <2>4, <2>5, <2>6, <2>7 DEF Leases!Next
<1>3. QED
  BY <1>1, <1>2, LeasesTypeCorrect, PTL DEF Leases!Spec

(* So it is with the pool: whatever others acquire and release, the session a
   lease is on is never closed by the service while its holder has not given it
   back. *)
COROLLARY PoolNeverClosesHeld == Spec => []Leases!HeldNeverClosed
BY PoolImplementsLeases, LeasesNeverClosed, PTL DEF ImplementsLeases
=============================================================================
