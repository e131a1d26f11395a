-------------------------- MODULE ServerStoreProofs --------------------------
(***************************************************************************)
(* Proofs about ServerStore, for any servers, inputs, kinds of credential  *)
(* and secrets.                                                            *)
(***************************************************************************)
EXTENDS ServerStore, TLAPS

USE NoneAssumption, NoCallAssumption DEF Stages

-----------------------------------------------------------------------------
(* The inductive invariant. *)

\* The entry of the call's server under kind k.
Entry(k) == keyring[<<call.server, k>>]

\* The record has been changed and the old secret is still to go.
Recorded == call.op \notin Removals /\ (call.at = "drop" \/ call.fault = "drop")

\* What the call was given.
Given ==
    /\ call.op \in Removals => call.kind = None
    /\ call.op = "remove" => call.server \notin used
    /\ call.op # "remove" => call.input # None
    /\ call.kind # None => call.secret # None
    /\ call.at = "rollback" <=> call.fault # None
    /\ call.fault \in {None, "db", "drop"}
    /\ call.fault = "drop" => call.op \notin Removals

\* What the call has read, against the row.
Read ==
    /\ call.at # "get" /\ call.old.cred # None => call.secretOfOld # None
    /\ ~Recorded => servers[call.server] = call.old
    /\ Recorded => /\ servers[call.server].cred = call.kind
                   /\ call.kind # None /\ call.old.cred # None

\* What is in the keyring at each access.
Held ==
    /\ call.at = "get" =>
           call.old.cred # None /\ (call.server \notin lost => Entry(call.old.cred) # None)
    /\ call.at = "set" =>
           /\ call.op \notin Removals /\ call.kind # None
           /\ call.old.cred # None => Entry(call.old.cred) # None
    /\ call.at = "drop" /\ call.op \in Removals =>
           call.old.cred # None /\ Entry(call.old.cred) # None
    /\ call.at = "db" /\ call.op \notin Removals =>
           IF call.kind # None THEN Entry(call.kind) # None
           ELSE call.old.cred # None => Entry(call.old.cred) # None
    /\ Recorded => call.kind # call.old.cred /\ Entry(call.kind) # None

CallInv == ~Idle => Given /\ Read /\ Held

StoreInv == TypeOK /\ CredentialExists /\ CallInv

-----------------------------------------------------------------------------
(* Each step keeps it. *)

LEMMA InitInv == Init => StoreInv
BY DEF Init, StoreInv, TypeOK, CredentialExists, CallInv, Idle, NoRow, Row, Ids, Exists

\* A call that begins has read the row and changed nothing.
LEMMA BeginInv ==
    ASSUME StoreInv, NEW op \in Ops, NEW s \in Servers, NEW input \in Inputs \union {None},
           NEW kind \in Kinds \union {None}, NEW secret \in Secrets \union {None},
           Begin(op, s, input, kind, secret),
           op \in Removals => kind = None,
           op = "deleteCredential" => servers[s].cred # None,
           op = "remove" => s \notin used,
           op # "remove" => input # None
    PROVE  StoreInv'
<1> DEFINE stage == IF servers[s].cred # None THEN "get"
                    ELSE IF kind # None THEN "set" ELSE "db"
<1>1. /\ servers[s] \in Row /\ Idle /\ (kind = None <=> secret = None)
      /\ UNCHANGED <<servers, used, keyring, lost, strays>>
  BY DEF StoreInv, TypeOK, Begin
<1>2. call' = [op |-> op, server |-> s, input |-> input, kind |-> kind, secret |-> secret,
               old |-> servers[s], secretOfOld |-> None, fault |-> None, at |-> stage]
  BY DEF Begin, Write
<1>3. stage \in {"get", "set", "db"} /\ call' \in Call
  BY <1>1, <1>2 DEF Call
<1>4. TypeOK' /\ CredentialExists'
  BY <1>1, <1>3 DEF StoreInv, TypeOK, CredentialExists, Exists, Idle
<1>5. servers[s].cred # None /\ s \notin lost => keyring[<<s, servers[s].cred>>] # None
  BY <1>1 DEF StoreInv, CredentialExists
<1>6. Given' /\ Read'
  BY <1>1, <1>2, <1>3 DEF Given, Read, Recorded, Ops, Removals
<1>7. Held'
  BY <1>1, <1>2, <1>3, <1>5 DEF Held, Recorded, Entry, Ops, Removals
<1> QED
  BY <1>4, <1>6, <1>7 DEF StoreInv, CallInv

\* A call that is over keeps what it was given, so the rest of the invariant is
\* about the stores.
LEMMA EndInv ==
    ASSUME StoreInv, ~Idle, call' = None,
           servers' \in [Servers -> Row], used' = used,
           \A s \in used : servers'[s].input # None,
           keyring' \in [Ids -> Secrets \union {None}],
           lost \subseteq lost', lost' \subseteq Servers, strays' \subseteq Ids,
           \A s \in Servers \ {call.server} :
               /\ servers'[s] = servers[s]
               /\ \A k \in Kinds : keyring'[<<s, k>>] = keyring[<<s, k>>],
           call.server \notin lost' /\ servers'[call.server].cred # None =>
               keyring'[<<call.server, servers'[call.server].cred>>] # None
    PROVE  StoreInv'
<1>1. TypeOK'
  BY DEF StoreInv, TypeOK, Exists, Idle
<1>2. CredentialExists'
  BY DEF StoreInv, TypeOK, CredentialExists, Row, Idle
<1> QED
  BY <1>1, <1>2 DEF StoreInv, CallInv, Idle

\* What a step of a call in progress can rely on.
LEMMA InCall ==
    ASSUME StoreInv, ~Idle
    PROVE  /\ call \in Call /\ call.server \in Servers
           /\ servers \in [Servers -> Row] /\ servers[call.server] \in Row
           /\ keyring \in [Ids -> Secrets \union {None}]
           /\ lost \subseteq Servers /\ strays \subseteq Ids
           /\ \A k \in Kinds : <<call.server, k>> \in Ids
           /\ \A s \in used : s \in Servers /\ servers[s].input # None
           /\ Given /\ Read /\ Held
           /\ \A ring : Unnamed(ring, call.server) \subseteq Ids
BY DEF StoreInv, TypeOK, CallInv, Call, Ids, Exists, Unnamed

\* What a step that goes on leaves of the call's arguments.
SameCall ==
    /\ call'.op = call.op /\ call'.server = call.server /\ call'.input = call.input
    /\ call'.kind = call.kind /\ call'.secret = call.secret /\ call'.old = call.old

LEMMA GivenStep ==
    ASSUME Given, SameCall, used' = used, call'.at # "rollback", call'.fault = call.fault,
           call.fault = None
    PROVE  Given'
BY DEF Given, SameCall

\* A call that throws without a write since the row was read.
LEMMA ThrowInv ==
    ASSUME StoreInv, ~Idle, Throw(keyring), UNCHANGED <<servers, used>>,
           call.server \notin lost /\ servers[call.server].cred # None =>
               Entry(servers[call.server].cred) # None
    PROVE  StoreInv'
BY InCall, EndInv DEF Throw, Entry

LEMMA GetInv == ASSUME StoreInv, Get PROVE StoreInv'
<1> DEFINE secret == Entry(call.old.cred)
<1>1. ~Idle /\ call.at = "get" /\ UNCHANGED <<servers, used>>
  BY DEF Get
<1>2. /\ servers[call.server] = call.old /\ call.old.cred # None
      /\ call.server \notin lost => secret # None
  BY <1>1, InCall DEF Read, Held, Recorded, Given
<1>3. CASE Throw(keyring)
  BY <1>1, <1>2, <1>3, ThrowInv
<1>4. CASE /\ secret # None
           /\ call' = [call EXCEPT !.secretOfOld = secret, !.at = Write(call.op, call.old.cred, call.kind)]
           /\ UNCHANGED <<keyring, lost, strays>>
  <2>1. /\ call \in Call /\ call.old \in Row /\ secret \in Secrets
        /\ Given /\ call.fault = None
    BY <1>1, <1>2, <1>4, InCall DEF Call, Row, Entry, Given
  <2> DEFINE stage == IF call.op \in Removals THEN "drop"
                      ELSE IF call.kind # None THEN "set" ELSE "db"
  <2>2. call' = [call EXCEPT !.secretOfOld = secret, !.at = stage]
    BY <1>2, <1>4 DEF Write
  <2>3. call' \in Call
    BY <2>1, <2>2, <1>4 DEF Call
  <2>4. SameCall /\ call'.fault = None /\ call'.at = stage /\ call'.secretOfOld = secret
    BY <2>1, <2>2 DEF SameCall, Call
  <2>5. TypeOK' /\ CredentialExists'
    BY <1>1, <1>4, <2>1, <2>3 DEF StoreInv, TypeOK, CredentialExists, Exists, Idle, Call
  <2>6. Given'
    BY <1>1, <2>1, <2>4, GivenStep
  <2>7. Read'
    BY <1>1, <1>2, <1>4, <2>4 DEF Read, Recorded, SameCall
  <2>8. Held'
    BY <1>1, <1>2, <1>4, <2>1, <2>4 DEF Held, Recorded, Entry, SameCall, Given
  <2> QED
    BY <2>5, <2>6, <2>8, <2>7 DEF StoreInv, CallInv
<1> QED
  BY <1>3, <1>4 DEF Get, Entry

LEMMA SetInv == ASSUME StoreInv, Set PROVE StoreInv'
<1>1. /\ ~Idle /\ call.at = "set" /\ UNCHANGED <<servers, used>>
      /\ call.op \notin Removals /\ call.kind # None /\ call.fault = None
      /\ servers[call.server] = call.old
      /\ call.old.cred # None => Entry(call.old.cred) # None
      /\ call.kind # None => call.secret # None
  BY InCall DEF Set, Read, Held, Recorded, Given
<1>2. CASE Throw(keyring)
  BY <1>1, <1>2, ThrowInv
<1>3. CASE /\ keyring' = [keyring EXCEPT ![<<call.server, call.kind>>] = call.secret]
           /\ Goto("db")
  <2>1. /\ call \in Call /\ call.kind \in Kinds /\ call.secret \in Secrets
        /\ <<call.server, call.kind>> \in Ids
        /\ keyring' \in [Ids -> Secrets \union {None}]
        /\ \A s \in Servers \ {call.server}, k \in Kinds :
               keyring'[<<s, k>>] = keyring[<<s, k>>]
        /\ Entry(call.kind)' # None
    BY <1>1, <1>3, InCall DEF Call, Entry, Ids, Goto
  <2>2. call' = [call EXCEPT !.at = "db"] /\ call' \in Call /\ UNCHANGED <<lost, strays>>
    BY <1>3, <2>1 DEF Goto, Call
  <2>3. TypeOK' /\ CredentialExists'
    BY <1>1, <2>1, <2>2 DEF StoreInv, TypeOK, CredentialExists, Exists, Idle, Call, Row
  <2>4. SameCall /\ call'.fault = None /\ call'.at = "db"
        /\ call'.secretOfOld = call.secretOfOld
    BY <1>1, <2>1, <2>2 DEF SameCall, Call
  <2>5. Given'
    BY <1>1, <2>4, InCall, GivenStep
  <2>6. Read'
    BY <1>1, <2>4, InCall DEF Read, Recorded, SameCall
  <2>7. Held'
    BY <1>1, <2>1, <2>4 DEF Held, Recorded, Entry, SameCall
  <2> QED
    BY <2>3, <2>5, <2>6, <2>7 DEF StoreInv, CallInv
<1> QED
  BY <1>2, <1>3 DEF Set

\* A failure that is handled: what the handler needs is there.
LEMMA FailInv ==
    ASSUME StoreInv, ~Idle, NEW stage \in {"db", "drop"}, Fail(stage), call.at = stage,
           UNCHANGED <<servers, used>>,
           stage = "drop" => call.op \notin Removals
    PROVE  StoreInv'
<1>1. call' = [call EXCEPT !.at = "rollback", !.fault = stage] /\ call' \in Call
      /\ UNCHANGED <<keyring, lost, strays>>
  BY InCall DEF Fail, Call
<1>2. /\ SameCall /\ call'.fault = stage /\ call'.at = "rollback"
      /\ call'.secretOfOld = call.secretOfOld
  BY <1>1, InCall DEF SameCall, Call
<1>3. TypeOK' /\ CredentialExists'
  BY <1>1, <1>2, InCall
  DEF StoreInv, TypeOK, CredentialExists, Exists, Idle, SameCall
<1>4. Given'
  BY <1>2, InCall DEF Given, SameCall
<1>5. Read'
  BY <1>2, InCall DEF Read, Recorded, SameCall, Given
<1>6. Held'
  BY <1>1, <1>2, InCall DEF Held, Recorded, Entry, SameCall, Given
<1> QED
  BY <1>3, <1>4, <1>5, <1>6 DEF StoreInv, CallInv

LEMMA DbInv == ASSUME StoreInv, Db PROVE StoreInv'
<1> DEFINE s == call.server
<1>1. /\ ~Idle /\ call.at = "db" /\ call.fault = None /\ servers[s] = call.old
      /\ call.old.cred # None => call.secretOfOld # None
      /\ UNCHANGED used
  BY InCall DEF Db, Read, Recorded, Given
<1>2. NewRow(call) \in Row /\ (s \in used => NewRow(call).input # None)
  BY <1>1, InCall DEF NewRow, NoRow, NewCredential, Call, Row, Given
<1>3. NewRow(call).cred # None =>
          call.op \notin Removals /\ Entry(NewRow(call).cred) # None
  BY <1>1, InCall DEF NewRow, NoRow, NewCredential, Held, Given, Removals
<1>4. CASE /\ servers' = [servers EXCEPT ![s] = NewRow(call)] /\ UNCHANGED keyring
           /\ IF DropsOld(call) THEN Goto("drop") ELSE Return
  <2>1. /\ servers' \in [Servers -> Row] /\ servers'[s] = NewRow(call)
        /\ \A x \in Servers \ {s} : servers'[x] = servers[x]
        /\ \A x \in used : servers'[x].input # None
    BY <1>1, <1>2, <1>4, InCall
  <2>2. CASE Return
    BY <1>1, <1>3, <1>4, <2>1, <2>2, InCall, EndInv DEF Return, Entry
  <2>3. CASE DropsOld(call) /\ Goto("drop")
    <3>1. /\ call.op \notin Removals /\ call.kind # None /\ call.old.cred # None
          /\ call.kind # call.old.cred /\ NewRow(call).cred = call.kind
      BY <2>3 DEF DropsOld, NewRow, NewCredential, Removals
    <3>2. call' = [call EXCEPT !.at = "drop"] /\ call' \in Call /\ UNCHANGED <<lost, strays>>
      BY <1>1, <2>3, InCall DEF Goto, Call
    <3>3. /\ SameCall /\ call'.fault = None /\ call'.at = "drop"
          /\ call'.secretOfOld = call.secretOfOld
      BY <1>1, <3>2, InCall DEF SameCall, Call
    <3>4. TypeOK' /\ CredentialExists'
      BY <1>1, <1>4, <2>1, <3>2, <3>3, InCall
      DEF StoreInv, TypeOK, CredentialExists, Exists, Idle, SameCall
    <3>5. Given'
      BY <1>1, <3>3, InCall, GivenStep
    <3>6. Read'
      BY <1>1, <2>1, <3>1, <3>3 DEF Read, Recorded, SameCall
    <3>7. Held'
      BY <1>3, <1>4, <3>1, <3>3 DEF Held, Recorded, Entry, SameCall
    <3> QED
      BY <3>4, <3>5, <3>6, <3>7 DEF StoreInv, CallInv
  <2> QED
    BY <1>4, <2>2, <2>3
<1>5. CASE UNCHANGED servers /\ Fail("db")
  BY <1>1, <1>5, FailInv
<1>6. CASE UNCHANGED servers /\ ~Undoes(call) /\ Throw(keyring)
  BY <1>1, <1>3, <1>6, ThrowInv, InCall DEF Undoes, Held
<1> QED
  BY <1>4, <1>5, <1>6 DEF Db

LEMMA DropInv == ASSUME StoreInv, Drop PROVE StoreInv'
<1> DEFINE s == call.server
<1>1. /\ ~Idle /\ call.at = "drop" /\ call.fault = None
      /\ call.old.cred # None /\ call.secretOfOld # None
      /\ UNCHANGED <<servers, used>>
  BY InCall DEF Drop, Read, Held, Recorded, Given
<1> DEFINE Dropped == [keyring EXCEPT ![<<s, call.old.cred>>] = None]
<1>2. /\ Dropped \in [Ids -> Secrets \union {None}]
      /\ \A x \in Servers, k \in Kinds :
             x # s \/ k # call.old.cred => Dropped[<<x, k>>] = keyring[<<x, k>>]
  BY <1>1, InCall DEF Ids
<1>3. CASE call.op \in Removals
  <2>1. servers[s] = call.old /\ Entry(call.old.cred) # None
    BY <1>1, <1>3, InCall DEF Read, Held, Recorded
  <2>2. CASE Throw(keyring)
    BY <1>1, <2>1, <2>2, ThrowInv
  <2>3. CASE keyring' = Dropped /\ Goto("db")
    <3>1. call' = [call EXCEPT !.at = "db"] /\ call' \in Call /\ UNCHANGED <<lost, strays>>
      BY <1>1, <2>3, InCall DEF Goto, Call
    <3>2. /\ SameCall /\ call'.fault = None /\ call'.at = "db"
          /\ call'.secretOfOld = call.secretOfOld
      BY <1>1, <3>1, InCall DEF SameCall, Call
    <3>3. TypeOK'
      BY <1>1, <1>2, <2>3, <3>1 DEF StoreInv, TypeOK, Exists
    <3>4. CredentialExists'
      BY <1>1, <1>2, <2>3, <3>1, <3>2 DEF StoreInv, TypeOK, CredentialExists, Idle, SameCall, Row
    <3>5. Given'
      BY <1>1, <3>2, InCall, GivenStep
    <3>6. Read'
      BY <1>1, <1>3, <2>1, <3>2 DEF Read, Recorded, SameCall
    <3>7. Held'
      BY <1>3, <3>2 DEF Held, Recorded, SameCall
    <3> QED
      BY <3>3, <3>4, <3>5, <3>6, <3>7 DEF StoreInv, CallInv
  <2> QED
    BY <1>3, <2>2, <2>3 DEF Drop
<1>4. CASE call.op \notin Removals
  <2>1. /\ servers[s].cred = call.kind /\ call.kind # None
        /\ call.kind # call.old.cred /\ Entry(call.kind) # None
    BY <1>1, <1>4, InCall DEF Read, Held, Recorded
  <2>2. CASE keyring' = Dropped /\ Return
    BY <1>1, <1>2, <2>1, <2>2, InCall, EndInv DEF Return, Entry, Call
  <2>3. CASE Fail("drop")
    BY <1>1, <1>4, <2>1, <2>3, FailInv
  <2> QED
    BY <1>4, <2>2, <2>3 DEF Drop
<1> QED
  BY <1>3, <1>4

\* The row is the one the call found, whose secret is back, or the new one.
LEMMA RollbackInv == ASSUME StoreInv, Rollback PROVE StoreInv'
<1> DEFINE s == call.server
<1>1. /\ ~Idle /\ call.at = "rollback" /\ call.fault \in {"db", "drop"}
      /\ keyring' = Undone(call) /\ Throw(Undone(call)) /\ UNCHANGED <<servers, used>>
      /\ call.old.cred # None => call.secretOfOld # None
  BY InCall DEF Rollback, Read, Given, Throw
<1>2. /\ keyring' \in [Ids -> Secrets \union {None}]
      /\ \A x \in Servers \ {s}, k \in Kinds : keyring'[<<x, k>>] = keyring[<<x, k>>]
  BY <1>1, InCall DEF Undone, Call, Ids
<1>3. servers[s].cred # None => keyring'[<<s, servers[s].cred>>] # None
  <2>1. CASE call.fault = "db"
    BY <1>1, <2>1, InCall DEF Read, Recorded, Undone, Row
  <2>2. CASE call.fault = "drop"
    BY <1>1, <2>2, InCall DEF Read, Held, Recorded, Given, Undone, Entry, Row
  <2> QED
    BY <1>1, <2>1, <2>2
<1> QED
  BY <1>1, <1>2, <1>3, InCall, EndInv DEF Throw

LEMMA CrashInv == ASSUME StoreInv, Crash PROVE StoreInv'
BY InCall, EndInv DEF Crash, CutOff

LEMMA FailedUndoingIsCrash == RollbackFails => Crash
BY DEF RollbackFails, Crash

-----------------------------------------------------------------------------
(* Stray secrets. *)

\* Entries of s that its row does not name, and that the call in progress will
\* name or delete, or count when it throws.
InWork(s) ==
    IF Idle \/ call.server # s THEN {}
    ELSE IF call.at = "db" /\ call.kind # None THEN {<<s, call.kind>>}
    ELSE IF call.at = "drop" /\ call.op \notin Removals THEN {<<s, call.old.cred>>}
    ELSE IF call.at = "rollback" THEN Ids
    ELSE {}

\* A removal deletes the entry before the record.
EntryGone ==
    ~Idle /\ call.at = "db" /\ call.op \in Removals /\ call.old.cred # None
        => Entry(call.old.cred) = None

StrayInv ==
    /\ \A s \in Servers : Unnamed(keyring, s) \subseteq strays \union InWork(s)
    /\ EntryGone

\* The other servers are as they were.
LEMMA OthersNamed ==
    ASSUME StoreInv, StrayInv, ~Idle,
           \A s \in Servers \ {call.server} : servers'[s] = servers[s],
           \A s \in Servers \ {call.server}, k \in Kinds : keyring'[<<s, k>>] = keyring[<<s, k>>],
           strays \subseteq strays',
           call' = None \/ call'.server = call.server
    PROVE  \A s \in Servers \ {call.server} :
               Unnamed(keyring, s)' \subseteq strays' \union InWork(s)'
BY InCall DEF StrayInv, Unnamed, InWork, Idle, Ids

\* A call that throws or is cut off counts what it leaves.
LEMMA LeftBehind ==
    ASSUME StoreInv, StrayInv, ~Idle, call' = None, UNCHANGED servers,
           \A s \in Servers \ {call.server}, k \in Kinds : keyring'[<<s, k>>] = keyring[<<s, k>>],
           strays' = strays \union Unnamed(keyring', call.server)
    PROVE  StrayInv'
<1>1. \A s \in Servers \ {call.server} :
          Unnamed(keyring, s)' \subseteq strays' \union InWork(s)'
  BY OthersNamed
<1>2. Unnamed(keyring', call.server) \subseteq strays'
  OBVIOUS
<1> QED
  BY <1>1, <1>2, InCall DEF StrayInv, Unnamed, EntryGone, Idle

LEMMA BeginStray ==
    ASSUME StoreInv, StrayInv, NEW op \in Ops, NEW s \in Servers,
           NEW input \in Inputs \union {None}, NEW kind \in Kinds \union {None},
           NEW secret \in Secrets \union {None}, Begin(op, s, input, kind, secret),
           op \in Removals => kind = None
    PROVE  StrayInv'
<1> DEFINE stage == IF servers[s].cred # None THEN "get"
                    ELSE IF kind # None THEN "set" ELSE "db"
<1>1. /\ servers[s] \in Row /\ Idle /\ stage \in {"get", "set", "db"}
      /\ UNCHANGED <<servers, keyring, strays>>
  BY DEF StoreInv, TypeOK, Begin
<1>2. call' = [op |-> op, server |-> s, input |-> input, kind |-> kind, secret |-> secret,
               old |-> servers[s], secretOfOld |-> None, fault |-> None, at |-> stage]
  BY DEF Begin, Write
<1>3. \A x \in Servers : Unnamed(keyring, x) \subseteq strays
  BY <1>1 DEF StrayInv, InWork
<1>4. EntryGone'
  BY <1>2 DEF EntryGone
<1>5. \A x \in Servers : Unnamed(keyring, x)' \subseteq strays'
  BY <1>1, <1>3 DEF Unnamed
<1> QED
  BY <1>4, <1>5 DEF StrayInv

LEMMA ThrowStray ==
    ASSUME StoreInv, StrayInv, ~Idle, NEW ring, Throw(ring), UNCHANGED servers,
           \A s \in Servers \ {call.server}, k \in Kinds : ring[<<s, k>>] = keyring[<<s, k>>]
    PROVE  StrayInv'
BY LeftBehind DEF Throw

\* A step that goes on to another access.
LEMMA GotoStray ==
    ASSUME StoreInv, StrayInv, ~Idle, call' # None, SameCall,
           \A s \in Servers \ {call.server} : servers'[s] = servers[s],
           \A s \in Servers \ {call.server}, k \in Kinds : keyring'[<<s, k>>] = keyring[<<s, k>>],
           UNCHANGED strays, EntryGone',
           Unnamed(keyring, call.server)' \subseteq strays \union InWork(call.server)'
    PROVE  StrayInv'
<1>1. \A s \in Servers \ {call.server} :
          Unnamed(keyring, s)' \subseteq strays' \union InWork(s)'
  BY OthersNamed DEF SameCall
<1>2. \A s \in Servers : s = call.server => Unnamed(keyring, s)' \subseteq strays' \union InWork(s)'
  BY DEF SameCall
<1> QED
  BY <1>1, <1>2 DEF StrayInv

LEMMA GetStray == ASSUME StoreInv, StrayInv, Get PROVE StrayInv'
<1> DEFINE secret == Entry(call.old.cred)
<1>1. ~Idle /\ call.at = "get" /\ UNCHANGED servers
  BY DEF Get
<1>2. CASE Throw(keyring)
  BY <1>1, <1>2, ThrowStray
<1>3. CASE /\ secret # None
           /\ call' = [call EXCEPT !.secretOfOld = secret, !.at = Write(call.op, call.old.cred, call.kind)]
           /\ UNCHANGED <<keyring, lost, strays>>
  <2>1. call \in Call /\ call.old.cred # None
    BY <1>1, InCall DEF Held
  <2> DEFINE stage == IF call.op \in Removals THEN "drop"
                      ELSE IF call.kind # None THEN "set" ELSE "db"
  <2>2. call' = [call EXCEPT !.secretOfOld = secret, !.at = stage]
    BY <1>3, <2>1 DEF Write
  <2>3. SameCall /\ call'.at = stage /\ call' # None
    <3>1. secret \in Secrets
      BY <1>1, <1>3, <2>1, InCall DEF Entry, Call, Row
    <3>2. call' \in Call
      BY <2>1, <2>2, <3>1 DEF Call, Stages
    <3> QED
      BY <2>1, <2>2, <3>2 DEF SameCall, Call
  <2>4. Unnamed(keyring, call.server)' \subseteq strays
    BY <1>1, <1>3, <2>3, InCall DEF StrayInv, Unnamed, InWork, SameCall
  <2>5. EntryGone'
    BY <2>3 DEF EntryGone, SameCall
  <2> QED
    BY <1>1, <1>3, <2>3, <2>4, <2>5, GotoStray
<1> QED
  BY <1>2, <1>3 DEF Get, Entry

LEMMA SetStray == ASSUME StoreInv, StrayInv, Set PROVE StrayInv'
<1>1. /\ ~Idle /\ call.at = "set" /\ UNCHANGED servers
      /\ call.op \notin Removals /\ call.kind # None
  BY InCall DEF Set, Held
<1>2. CASE Throw(keyring)
  BY <1>1, <1>2, ThrowStray
<1>3. CASE /\ keyring' = [keyring EXCEPT ![<<call.server, call.kind>>] = call.secret]
           /\ Goto("db")
  <2>1. call' # None /\ SameCall /\ call'.at = "db" /\ UNCHANGED strays
    BY <1>1, <1>3, InCall DEF Goto, SameCall, Call
  <2>2. \A i \in Ids : i # <<call.server, call.kind>> => keyring'[i] = keyring[i]
    BY <1>3, InCall
  <2>3. Unnamed(keyring, call.server) \subseteq strays
    BY <1>1, InCall DEF StrayInv, InWork
  <2>4. InWork(call.server)' = {<<call.server, call.kind>>}
    BY <1>1, <2>1, InCall DEF InWork, SameCall, Idle
  <2>5. Unnamed(keyring, call.server)' \subseteq strays \union InWork(call.server)'
    BY <1>1, <2>1, <2>2, <2>3, <2>4 DEF Unnamed, SameCall
  <2>6. EntryGone'
    BY <1>1, <2>1 DEF EntryGone, SameCall
  <2> QED
    BY <1>1, <2>1, <2>2, <2>5, <2>6, GotoStray DEF Ids
<1> QED
  BY <1>2, <1>3 DEF Set

LEMMA FailStray ==
    ASSUME StoreInv, StrayInv, ~Idle, NEW stage \in {"db", "drop"}, Fail(stage), UNCHANGED servers
    PROVE  StrayInv'
<1>1. call' \in Call /\ SameCall /\ call'.at = "rollback" /\ UNCHANGED <<keyring, strays>>
  BY InCall DEF Fail, SameCall, Call
<1>2. InWork(call.server)' = Ids
  BY <1>1, InCall DEF InWork, SameCall, Idle
<1>3. Unnamed(keyring, call.server)' \subseteq Ids
  BY DEF Unnamed
<1>4. EntryGone'
  BY <1>1 DEF EntryGone
<1> QED
  BY <1>1, <1>2, <1>3, <1>4, GotoStray

LEMMA DbStray == ASSUME StoreInv, StrayInv, Db PROVE StrayInv'
<1> DEFINE s == call.server
<1>1. /\ ~Idle /\ call.at = "db" /\ servers[s] = call.old
      /\ call.op \in Removals => call.kind = None
  BY InCall DEF Db, Read, Recorded, Given
<1>2. CASE /\ servers' = [servers EXCEPT ![s] = NewRow(call)] /\ UNCHANGED keyring
           /\ IF DropsOld(call) THEN Goto("drop") ELSE Return
  <2>1. /\ servers'[s] = NewRow(call)
        /\ \A x \in Servers \ {s} : servers'[x] = servers[x]
        /\ strays' = strays
    BY <1>1, <1>2, InCall DEF Goto, Return
  <2>2. \A k \in Kinds : keyring[<<s, k>>] # None /\ k # call.old.cred /\ k # call.kind
            => <<s, k>> \in strays
    BY <1>1, InCall DEF StrayInv, InWork, Unnamed, Ids
  <2>3. CASE ~DropsOld(call) /\ Return
    <3>1. \A k \in Kinds : keyring[<<s, k>>] # None /\ k # NewRow(call).cred
              => <<s, k>> \in strays
      <4>1. CASE call.op \in Removals
        BY <1>1, <2>2, <4>1, InCall DEF NewRow, NoRow, NewCredential, StrayInv, EntryGone, Entry
      <4>2. CASE call.op \notin Removals /\ call.kind = None
        BY <1>1, <2>2, <4>2, InCall DEF NewRow, NewCredential, Removals
      <4>3. CASE call.op \notin Removals /\ call.kind # None
        BY <1>1, <2>2, <2>3, <4>3, InCall DEF NewRow, NewCredential, Removals, DropsOld
      <4> QED
        BY <4>1, <4>2, <4>3
    <3>2. {i \in Ids : i[1] = s /\ keyring'[i] # None /\ servers'[s].cred # i[2]} \subseteq strays'
      BY <1>2, <2>1, <3>1 DEF Ids
    <3>3. call' = None /\ \A x \in Servers \ {s} :
              Unnamed(keyring, x)' \subseteq strays' \union InWork(x)'
      BY <1>1, <1>2, <2>1, <2>3, OthersNamed DEF Return
    <3> QED
      BY <3>2, <3>3, InCall DEF StrayInv, Unnamed, EntryGone, Idle
  <2>4. CASE DropsOld(call) /\ Goto("drop")
    <3>1. /\ call.op \notin Removals /\ NewRow(call).cred = call.kind
      BY <2>4 DEF DropsOld, NewRow, NewCredential, Removals
    <3>2. call' \in Call /\ SameCall /\ call'.at = "drop"
      BY <1>1, <2>4, InCall DEF Goto, Call, SameCall
    <3>3. InWork(call.server)' = {<<s, call.old.cred>>}
      BY <1>1, <3>1, <3>2, InCall DEF InWork, SameCall, Idle
    <3>4. Unnamed(keyring, call.server)' \subseteq strays \union InWork(call.server)'
      BY <1>2, <2>1, <2>2, <3>1, <3>2, <3>3 DEF Unnamed, Ids, SameCall
    <3>5. EntryGone'
      BY <3>2 DEF EntryGone
    <3> QED
      BY <1>1, <1>2, <2>1, <3>2, <3>4, <3>5, GotoStray
  <2> QED
    BY <1>2, <2>3, <2>4
<1>3. CASE UNCHANGED servers /\ Fail("db")
  BY <1>1, <1>3, FailStray
<1>4. CASE UNCHANGED servers /\ Throw(keyring)
  BY <1>1, <1>4, ThrowStray
<1> QED
  BY <1>2, <1>3, <1>4 DEF Db

LEMMA DropStray == ASSUME StoreInv, StrayInv, Drop PROVE StrayInv'
<1> DEFINE s == call.server
           Dropped == [keyring EXCEPT ![<<s, call.old.cred>>] = None]
<1>1. ~Idle /\ call.at = "drop" /\ UNCHANGED servers /\ call.old.cred \in Kinds
  BY InCall DEF Drop, Held, Read, Recorded, Call, Row
<1>2. /\ Dropped[<<s, call.old.cred>>] = None
      /\ \A i \in Ids : i # <<s, call.old.cred>> => Dropped[i] = keyring[i]
  BY <1>1, InCall
<1>3. CASE Throw(keyring)
  BY <1>1, <1>3, ThrowStray
<1>4. CASE Fail("drop")
  BY <1>1, <1>4, FailStray
<1>5. CASE keyring' = Dropped /\ call.op \in Removals /\ Goto("db")
  <2>1. call' \in Call /\ SameCall /\ call'.at = "db" /\ strays' = strays
    BY <1>1, <1>5, InCall DEF Goto, Call, SameCall
  <2>2. Unnamed(keyring, s) \subseteq strays
    BY <1>1, <1>5, InCall DEF StrayInv, InWork
  <2>3. Unnamed(keyring, call.server)' \subseteq strays
    BY <1>1, <1>2, <1>5, <2>1, <2>2 DEF Unnamed, SameCall
  <2>4. EntryGone'
    BY <1>2, <1>5, <2>1 DEF EntryGone, Entry, SameCall
  <2> QED
    BY <1>1, <1>2, <1>5, <2>1, <2>3, <2>4, GotoStray DEF Ids
<1>6. CASE keyring' = Dropped /\ call.op \notin Removals /\ Return
  <2>1. Unnamed(keyring, s) \subseteq strays \union {<<s, call.old.cred>>}
    BY <1>1, <1>6, InCall DEF StrayInv, InWork
  <2>2. {i \in Ids : i[1] = s /\ keyring'[i] # None /\ servers'[s].cred # i[2]} \subseteq strays
    BY <1>1, <1>2, <1>6, <2>1 DEF Unnamed
  <2>3. call' = None /\ strays' = strays /\ \A x \in Servers \ {s} :
            Unnamed(keyring, x)' \subseteq strays' \union InWork(x)'
    BY <1>1, <1>2, <1>6, OthersNamed DEF Return, Ids
  <2> QED
    BY <2>2, <2>3, InCall DEF StrayInv, Unnamed, EntryGone, Idle
<1> QED
  BY <1>3, <1>4, <1>5, <1>6 DEF Drop

LEMMA RollbackStray == ASSUME StoreInv, StrayInv, Rollback PROVE StrayInv'
<1>1. ~Idle /\ Throw(Undone(call)) /\ UNCHANGED servers
  BY DEF Rollback
<1>2. \A x \in Servers \ {call.server}, k \in Kinds : Undone(call)[<<x, k>>] = keyring[<<x, k>>]
  BY <1>1, InCall DEF Undone, Ids
<1> QED
  BY <1>1, <1>2, ThrowStray

LEMMA CrashStray == ASSUME StoreInv, StrayInv, Crash PROVE StrayInv'
BY LeftBehind DEF Crash, CutOff

LEMMA StrayStep == StoreInv /\ StrayInv /\ [Next]_vars => StrayInv'
<1> SUFFICES ASSUME StoreInv, StrayInv, [Next]_vars PROVE StrayInv'
  OBVIOUS
<1>1. ASSUME NEW s \in Servers, NEW k \in Kinds \union {None}, NEW v \in Secrets \union {None},
             \/ \E i \in Inputs : Create(s, i, k, v) \/ Update(s, i, k, v)
             \/ SetCredential(s, k, v)
      PROVE  StrayInv'
  <2>1. servers[s].input \in Inputs \union {None}
    BY DEF StoreInv, TypeOK, Row
  <2> QED
    BY <1>1, <2>1, BeginStray DEF Create, Update, SetCredential, Ops, Removals
<1>2. ASSUME NEW s \in Servers, DeleteCredential(s) \/ Remove(s)
      PROVE  StrayInv'
  <2>1. servers[s].input \in Inputs \union {None}
    BY DEF StoreInv, TypeOK, Row
  <2> QED
    BY <1>2, <2>1, BeginStray DEF DeleteCredential, Remove, Ops, Removals
<1>3. ASSUME NEW s \in Servers, AddApp(s) \/ RemoveApps(s)
      PROVE  StrayInv'
  BY <1>3 DEF AddApp, RemoveApps, StrayInv, Unnamed, InWork, EntryGone, Idle
<1>4. CASE Access
  BY <1>4, GetStray, SetStray, DbStray, DropStray, RollbackStray, CrashStray,
     FailedUndoingIsCrash DEF Access
<1>5. CASE UNCHANGED vars
  BY <1>5 DEF vars, StrayInv, Unnamed, InWork, EntryGone, Entry, Idle
<1> QED
  BY <1>1, <1>2, <1>3, <1>4, <1>5 DEF Next

-----------------------------------------------------------------------------
(* Theorems. *)

LEMMA NextInv == StoreInv /\ [Next]_vars => StoreInv'
<1> SUFFICES ASSUME StoreInv, [Next]_vars PROVE StoreInv'
  OBVIOUS
<1>1. ASSUME NEW s \in Servers, NEW k \in Kinds \union {None}, NEW v \in Secrets \union {None},
             NEW i \in Inputs, Create(s, i, k, v) \/ Update(s, i, k, v)
      PROVE  StoreInv'
  BY <1>1, BeginInv DEF Create, Update, Ops, Removals
<1>2. ASSUME NEW s \in Servers, NEW k \in Kinds \union {None}, NEW v \in Secrets \union {None},
             SetCredential(s, k, v)
      PROVE  StoreInv'
  <2>1. servers[s].input \in Inputs \union {None} /\ servers[s].input # None
    BY <1>2 DEF SetCredential, Exists, StoreInv, TypeOK, Row
  <2> QED
    BY <1>2, <2>1, BeginInv DEF SetCredential, Ops, Removals
<1>3. ASSUME NEW s \in Servers, DeleteCredential(s)
      PROVE  StoreInv'
  <2>1. servers[s].input \in Inputs \union {None} /\ servers[s].input # None
    BY <1>3 DEF DeleteCredential, Exists, StoreInv, TypeOK, Row
  <2> QED
    BY <1>3, <2>1, BeginInv DEF DeleteCredential, Ops, Removals
<1>4. ASSUME NEW s \in Servers, Remove(s)
      PROVE  StoreInv'
  BY <1>4, BeginInv DEF Remove, Ops, Removals
<1>5. ASSUME NEW s \in Servers, AddApp(s) \/ RemoveApps(s)
      PROVE  StoreInv'
  BY <1>5 DEF AddApp, RemoveApps, StoreInv, TypeOK, CredentialExists, CallInv, Exists, Idle
<1>6. CASE Access
  BY <1>6, GetInv, SetInv, DbInv, DropInv, RollbackInv, CrashInv, FailedUndoingIsCrash
  DEF Access
<1>7. CASE UNCHANGED vars
  BY <1>7 DEF vars, StoreInv, TypeOK, CredentialExists, CallInv, Given, Read, Held, Entry,
              Recorded, Exists, Idle
<1> QED
  BY <1>1, <1>2, <1>3, <1>4, <1>5, <1>6, <1>7 DEF Next

LEMMA StoreInvariant == Spec => []StoreInv
<1> QED
  BY InitInv, NextInv, PTL DEF Spec

(* The two stores hold records and secrets of the right kind, and applications
   belong to servers that exist. *)
THEOREM StoreTypeCorrect == Spec => []TypeOK
BY StoreInvariant, PTL DEF StoreInv

(* The credential a record names is in the keyring, whichever access of a call
   fails, unless the process ended inside a call for that server. *)
THEOREM CredentialExistsHolds == Spec => []CredentialExists
BY StoreInvariant, PTL DEF StoreInv

(* Calls that return leave no secret behind that no record names, for any servers
   and kinds of credential: what is left was left by a call that threw, or that the
   end of the process cut off. *)
THEOREM NoStraySecretsHolds == Spec => []NoStraySecrets
<1>1. Init => StrayInv
  BY DEF Init, StrayInv, Unnamed, EntryGone, Idle
<1>2. StrayInv => NoStraySecrets
  BY DEF StrayInv, NoStraySecrets, InWork
<1> QED
  BY <1>1, <1>2, StrayStep, StoreInvariant, PTL DEF Spec

(* A call whose statement failed and that was undone leaves the row and its secret
   as it found them, and no new secret of a record without a credential (the error
   handlers of create, update, setCredential, deleteCredential and remove). *)
THEOREM FailedStatementRestoresHolds == Spec => FailedStatementRestores
<1> DEFINE Restores == ~Idle /\ Rollback /\ call.fault = "db" =>
               /\ servers'[call.server] = call.old
               /\ call.old.cred # None =>
                      keyring'[<<call.server, call.old.cred>>] = call.secretOfOld
               /\ call.old.cred = None /\ call.kind # None =>
                      keyring'[<<call.server, call.kind>>] = None
<1>1. StoreInv => Restores
  <2> SUFFICES ASSUME StoreInv, ~Idle, Rollback, call.fault = "db" PROVE Restores
    OBVIOUS
  <2>1. keyring' = Undone(call) /\ UNCHANGED servers
    BY DEF Rollback, Throw
  <2>2. servers[call.server] = call.old
    BY InCall DEF Read, Recorded, Given, Rollback
  <2>3. call.old.cred # None => <<call.server, call.old.cred>> \in Ids
    BY InCall DEF Call, Row
  <2>4. call.kind # None => <<call.server, call.kind>> \in Ids
    BY InCall DEF Call
  <2> QED
    BY <2>1, <2>2, <2>3, <2>4, InCall DEF Undone
<1>2. StoreInv /\ [Next]_vars => [Restores]_vars
  BY <1>1
<1> QED
  BY <1>2, StoreInvariant, PTL DEF Spec, FailedStatementRestores
=============================================================================
