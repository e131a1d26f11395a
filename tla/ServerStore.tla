----------------------------- MODULE ServerStore -----------------------------
(***************************************************************************)
(* Servers and their credentials: DefaultServerService                     *)
(* (apps/server/src/servers/server-service.ts) keeps the record of a       *)
(* server in SQLite and its secret in the keyring, with no transaction     *)
(* over both.                                                              *)
(*                                                                         *)
(* A step is one access to either store.  Each may fail, and the process   *)
(* may end between any two.  The accesses of a call wait for nothing       *)
(* outside the program, so calls do not overlap.                           *)
(***************************************************************************)
CONSTANTS
    Servers,    \* bound: ids of servers at once
    Inputs,     \* what a user enters, as far as a test of equality sees it
    Kinds,      \* CredentialKind
    Secrets,
    None

Ops == {"create", "update", "setCredential", "deleteCredential", "remove"}
Removals == {"deleteCredential", "remove"}
Stages == {"get", "set", "drop", "db", "rollback"}

ASSUME NoneAssumption == None \notin Inputs \union Kinds \union Secrets \union Stages

VARIABLES
    servers,    \* the table servers
    used,       \* servers that rows of remote_apps refer to
    keyring,    \* the secret under each credential id
    call,       \* the call in progress
    lost,       \* history: servers with a call that could neither end nor be undone
    strays      \* history: entries left by calls that did not return

vars == <<servers, used, keyring, call, lost, strays>>

\* A credential id is the server's id and the kind; a record holds the kind.
Ids == Servers \X Kinds
Row == [input : Inputs \union {None}, cred : Kinds \union {None}]
NoRow == [input |-> None, cred |-> None]
Exists(s) == servers[s].input # None

\* old, secretOfOld: what the call has read.  kind: None if no secret was given.
\* fault: the access that failed.  The undoing may fail besides.
Call == [op : Ops, server : Servers, input : Inputs \union {None},
         kind : Kinds \union {None}, secret : Secrets \union {None}, old : Row,
         secretOfOld : Secrets \union {None}, at : Stages, fault : Stages \union {None}]

ASSUME NoCallAssumption == None \notin Call

Idle == call = None

TypeOK ==
    /\ servers \in [Servers -> Row]
    /\ used \subseteq {s \in Servers : Exists(s)}
    /\ keyring \in [Ids -> Secrets \union {None}]
    /\ Idle \/ call \in Call
    /\ lost \subseteq Servers
    /\ strays \subseteq Ids

Init ==
    /\ servers = [s \in Servers |-> NoRow]
    /\ used = {}
    /\ keyring = [i \in Ids |-> None]
    /\ call = None
    /\ lost = {}
    /\ strays = {}

-----------------------------------------------------------------------------
(* The order of a call's accesses. *)

\* The first write of a call on a record with credential cred.
Write(op, cred, kind) ==
    IF op \in Removals THEN IF cred # None THEN "drop" ELSE "db"
                       ELSE IF kind # None THEN "set" ELSE "db"

\* Mutant: the old secret is kept when the new one is of another kind.
NeverDropsOld(c) == FALSE

\* After the record: an old secret of another kind goes.
DropsOld(c) ==
    /\ c.op \notin Removals
    /\ c.kind # None
    /\ c.old.cred \notin {None, c.kind}

\* Whether the handler of a failure has anything to undo.
Undoes(c) == c.kind # None \/ (c.op \in Removals /\ c.old.cred # None)

\* Mutant: a secret that replaced one of its kind stays.
UndoneByDeleting(c) ==
    IF c.op \in Removals
       THEN [keyring EXCEPT ![<<c.server, c.old.cred>>] = c.secretOfOld]
       ELSE [i \in Ids |-> IF i = <<c.server, c.kind>> /\ c.kind # c.old.cred
                              THEN None ELSE keyring[i]]

\* The old secret is written back; without one, the new one is deleted.
Undone(c) ==
    IF c.old.cred # None
       THEN [keyring EXCEPT ![<<c.server, c.old.cred>>] = c.secretOfOld]
       ELSE [keyring EXCEPT ![<<c.server, c.kind>>] = None]

\* Mutant: update is called without the null, which keeps the credential id.
KeptCredential(c) == IF c.kind # None THEN c.kind ELSE c.old.cred

\* The credential id the record gets.
NewCredential(c) ==
    IF c.op = "deleteCredential" THEN None
    ELSE IF c.kind # None THEN c.kind ELSE c.old.cred

\* The row after the statement.
NewRow(c) ==
    IF c.op = "remove" THEN NoRow ELSE [input |-> c.input, cred |-> NewCredential(c)]

-----------------------------------------------------------------------------
(* Calls.  Those that fail before they change anything are left out. *)

\* Entries of server s in ring that its row does not name.
Unnamed(ring, s) == {i \in Ids : i[1] = s /\ ring[i] # None /\ servers[s].cred # i[2]}

Goto(stage) == call' = [call EXCEPT !.at = stage] /\ UNCHANGED <<lost, strays>>
Return == call' = None /\ UNCHANGED <<lost, strays>>
Throw(ring) ==
    /\ keyring' = ring
    /\ call' = None
    /\ strays' = strays \union Unnamed(ring, call.server)
    /\ UNCHANGED lost
Fail(stage) ==
    /\ call' = [call EXCEPT !.at = "rollback", !.fault = stage]
    /\ UNCHANGED <<keyring, lost, strays>>

Begin(op, s, input, kind, secret) ==
    LET cred == servers[s].cred IN
    /\ Idle
    /\ kind = None <=> secret = None
    /\ call' = [op |-> op, server |-> s, input |-> input, kind |-> kind, secret |-> secret,
                old |-> servers[s], secretOfOld |-> None, fault |-> None,
                at |-> IF cred # None THEN "get" ELSE Write(op, cred, kind)]
    /\ UNCHANGED <<servers, used, keyring, lost, strays>>

\* Ids are never used twice: s must be forgotten everywhere.
Create(s, input, kind, secret) ==
    /\ ~Exists(s) /\ s \notin lost
    /\ \A k \in Kinds : keyring[<<s, k>>] = None
    /\ Begin("create", s, input, kind, secret)

Update(s, input, kind, secret) ==
    Exists(s) /\ Begin("update", s, input, kind, secret)

SetCredential(s, kind, secret) ==
    /\ Exists(s) /\ kind # None
    /\ Begin("setCredential", s, servers[s].input, kind, secret)

\* Returns at once when there is no credential.
DeleteCredential(s) ==
    /\ Exists(s) /\ servers[s].cred # None
    /\ Begin("deleteCredential", s, servers[s].input, None, None)

\* Refused while applications refer to the server.
Remove(s) ==
    /\ Exists(s) /\ s \notin used
    /\ Begin("remove", s, None, None, None)

MayFail == call.fault = None

\* credentials.get throws when there is no such entry, too.
Get ==
    /\ ~Idle /\ call.at = "get"
    /\ LET secret == keyring[<<call.server, call.old.cred>>] IN
       \/ /\ secret # None
          /\ call' = [call EXCEPT !.secretOfOld = secret, !.at = Write(call.op, call.old.cred, call.kind)]
          /\ UNCHANGED <<keyring, lost, strays>>
       \/ (secret = None \/ MayFail) /\ Throw(keyring)
    /\ UNCHANGED <<servers, used>>

Set ==
    /\ ~Idle /\ call.at = "set"
    /\ \/ /\ keyring' = [keyring EXCEPT ![<<call.server, call.kind>>] = call.secret]
          /\ Goto("db")
       \/ MayFail /\ Throw(keyring)
    /\ UNCHANGED <<servers, used>>

\* The statement of the repository.
Db ==
    /\ ~Idle /\ call.at = "db"
    /\ \/ /\ servers' = [servers EXCEPT ![call.server] = NewRow(call)]
          /\ IF DropsOld(call) THEN Goto("drop") ELSE Return
          /\ UNCHANGED keyring
       \/ /\ MayFail
          /\ IF Undoes(call) THEN Fail("db") ELSE Throw(keyring)
          /\ UNCHANGED servers
    /\ UNCHANGED used

\* The old entry is deleted: after the record when it is replaced, before it
\* when it is removed.
Drop ==
    /\ ~Idle /\ call.at = "drop"
    /\ \/ /\ keyring' = [keyring EXCEPT ![<<call.server, call.old.cred>>] = None]
          /\ IF call.op \in Removals THEN Goto("db") ELSE Return
       \/ /\ MayFail
          /\ IF call.op \in Removals THEN Throw(keyring) ELSE Fail("drop")
    /\ UNCHANGED <<servers, used>>

Rollback ==
    /\ ~Idle /\ call.at = "rollback"
    /\ Throw(Undone(call))
    /\ UNCHANGED <<servers, used>>

CutOff ==
    /\ call' = None
    /\ lost' = lost \union {call.server}
    /\ strays' = strays \union Unnamed(keyring, call.server)
    /\ UNCHANGED <<servers, used, keyring>>

\* The write that should undo the call fails; nobody hears of it.
RollbackFails ==
    /\ ~Idle /\ call.at = "rollback"
    /\ CutOff

\* The process ends in the middle of a call.
Crash ==
    /\ ~Idle
    /\ CutOff

-----------------------------------------------------------------------------
(* Applications, as far as servers see them. *)

\* Mutant: the database does not enforce foreign keys.
AddAppUnchecked(s) ==
    /\ Idle
    /\ used' = used \union {s}
    /\ UNCHANGED <<servers, keyring, call, lost, strays>>

AddApp(s) ==
    /\ Idle /\ Exists(s)
    /\ used' = used \union {s}
    /\ UNCHANGED <<servers, keyring, call, lost, strays>>

RemoveApps(s) ==
    /\ Idle
    /\ used' = used \ {s}
    /\ UNCHANGED <<servers, keyring, call, lost, strays>>

-----------------------------------------------------------------------------

Access == Get \/ Set \/ Db \/ Drop \/ Rollback \/ RollbackFails \/ Crash

Next ==
    \/ \E s \in Servers, k \in Kinds \union {None}, v \in Secrets \union {None} :
           \/ \E i \in Inputs : Create(s, i, k, v) \/ Update(s, i, k, v)
           \/ SetCredential(s, k, v)
    \/ \E s \in Servers : DeleteCredential(s) \/ Remove(s) \/ AddApp(s) \/ RemoveApps(s)
    \/ Access

Spec == Init /\ [][Next]_vars

-----------------------------------------------------------------------------
(* Correctness. *)

(* The credential a record names is in the keyring, unless the process ended
   inside a call for that server or the undoing of a failed one failed, too:
   whichever single access fails, what was deleted is put back before the call
   is over.  Otherwise the server could be neither
   connected nor changed nor removed, since each of these reads the secret. *)
CredentialExists ==
    \A s \in Servers \ lost :
        (Idle \/ call.server # s) /\ servers[s].cred # None
            => keyring[<<s, servers[s].cred>>] # None

(* A call whose statement failed and that was undone has changed nothing the
   record shows: the row is the one the call found, and the secret it names is
   the one it named; a record without a credential has not left the new secret in
   the keyring either.  (One of another kind than the old stays there.) *)
FailedStatementRestores ==
    [][~Idle /\ Rollback /\ call.fault = "db" =>
           /\ servers'[call.server] = call.old
           /\ call.old.cred # None =>
                  keyring'[<<call.server, call.old.cred>>] = call.secretOfOld
           /\ call.old.cred = None /\ call.kind # None =>
                  keyring'[<<call.server, call.kind>>] = None]_vars

(* A call that returns leaves no secret behind that no record names: changing the
   kind, deleting the credential and removing the server clear the keyring. *)
NoStraySecrets ==
    Idle => \A s \in Servers : Unnamed(keyring, s) \subseteq strays
=============================================================================
