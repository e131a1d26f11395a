------------------------------ MODULE HostTrust ------------------------------
(***************************************************************************)
(* Whose key a server's record carries.  The page keeps the records and    *)
(* asks the user (apps/web/src/state/launchpad-store.tsx,                  *)
(* browser-workspace.ts); the bridge on the user's machine sees the keys.  *)
(* It is the Rust one (apps/bridge/src/main.rs) or the Node one            *)
(* (apps/server/src/local-bridge.ts, ssh/server-connection-service.ts).    *)
(*                                                                         *)
(* A step is what either side does between two waits.  Requests overlap,   *)
(* the user edits records meanwhile, hosts change their keys, and the      *)
(* bridge may be restarted.                                                *)
(***************************************************************************)
CONSTANTS
    Servers,
    Hosts,
    Keys,
    Flows,      \* bound: handlers of the page that wait for the bridge
    None

VARIABLES
    bridge,     \* which bridge is installed
    key,        \* the key each host presents
    record,     \* localStorage: the record of each server
    view,       \* the state "servers" of the page
    fetched,    \* what a refresh in progress has read; bound: one at a time
    dialog,     \* pendingFingerprint
    flow,       \* connect or confirmPendingFingerprint, waiting
    rows,       \* the bridge's records: the map servers, or the table
    candidates, \* pending_keys, or the map candidates
    confirmed,  \* history: the keys the user has confirmed for each server
    edited      \* history: the host the user entered last

page == <<record, view, fetched, dialog, confirmed, edited>>
store == <<rows, candidates>>
vars == <<bridge, key, page, flow, store>>

Bridges == {"rust", "node"}
Record == [host : Hosts, fp : Keys \union {None}]
Question == [server : Servers, key : Keys]

\* On the way to the bridge, in the bridge, and on the way back.
Stages == {"sent", "confirm", "handshake", "noted", "consumed",
           "healthy", "unknown", "failed", "confirmed"}
InBridge == {"handshake", "noted", "consumed"}

\* record: what was sent.  cand: the confirmed key.  seen: the key in the answer.
Flow == [at : Stages, server : Servers, record : Record \union {None},
         cand : Keys \union {None}, seen : Keys \union {None}]

ASSUME NoneAssumption ==
    None \notin Keys \union Record \union Question \union Flow \union [Servers -> Record]

TypeOK ==
    /\ bridge \in Bridges
    /\ key \in [Hosts -> Keys]
    /\ record \in [Servers -> Record]
    /\ view \in [Servers -> Record]
    /\ fetched \in [Servers -> Record] \union {None}
    /\ dialog \in Question \union {None}
    /\ flow \in [Flows -> Flow \union {None}]
    /\ rows \in [Servers -> Record \union {None}]
    /\ candidates \in [Servers -> Keys \union {None}]
    /\ \A s \in Servers : candidates[s] # None => rows[s] # None
    /\ confirmed \in [Servers -> SUBSET Keys]
    /\ edited \in [Servers -> Hosts]

Init ==
    /\ bridge \in Bridges
    /\ key \in [Hosts -> Keys]
    /\ edited \in [Servers -> Hosts]
    /\ record = [s \in Servers |-> [host |-> edited[s], fp |-> None]]
    /\ view = record
    /\ fetched = None
    /\ dialog = None
    /\ flow = [q \in Flows |-> None]
    /\ rows = [s \in Servers |-> None]
    /\ candidates = [s \in Servers |-> None]
    /\ confirmed = [s \in Servers |-> {}]

-----------------------------------------------------------------------------
(* The page. *)

Sent(s, rec, cand) ==
    [at |-> "sent", server |-> s, record |-> rec, cand |-> cand, seen |-> None]
At(q, stage) == flow[q] # None /\ flow[q].at = stage

\* fingerprintBusy.
Busy == \E q \in Flows : flow[q] # None /\ flow[q].cand # None

\* connect sends the record the page shows.  An open dialog covers the page.
Open(q, s) ==
    /\ flow[q] = None /\ dialog = None
    /\ flow' = [flow EXCEPT ![q] = Sent(s, view[s], None)]
    /\ UNCHANGED <<bridge, key, page, store>>

\* An answer to connect.  A failure after a confirmation asks again, with the
\* question of before.
Answered(q) ==
    /\ \E stage \in {"healthy", "unknown", "failed"} : At(q, stage)
    /\ flow' = [flow EXCEPT ![q] = None]
    /\ LET f == flow[q] IN
       dialog' = CASE f.at = "healthy" -> dialog
                   [] f.at # "healthy" /\ f.cand # None -> [server |-> f.server, key |-> f.cand]
                   [] f.at = "unknown" /\ f.cand = None -> [server |-> f.server, key |-> f.seen]
                   [] f.at = "failed" /\ f.cand = None -> dialog
    /\ UNCHANGED <<bridge, key, record, view, fetched, confirmed, edited, store>>

\* confirmPendingFingerprint closes the dialog before it waits.
Confirm(q) ==
    /\ flow[q] = None /\ dialog # None /\ ~Busy
    /\ dialog' = None
    /\ confirmed' = [confirmed EXCEPT ![dialog.server] = @ \union {dialog.key}]
    /\ flow' = [flow EXCEPT ![q] = [at |-> "confirm", server |-> dialog.server, record |-> None,
                                    cand |-> dialog.key, seen |-> None]]
    /\ UNCHANGED <<bridge, key, record, view, fetched, edited, store>>

Reject ==
    /\ dialog # None
    /\ dialog' = None
    /\ UNCHANGED <<bridge, key, record, view, fetched, confirmed, edited, flow, store>>

\* Mutant: the record is taken from the page, as the dependency on servers suggests.
ConfirmedFromView(q) ==
    /\ At(q, "confirmed")
    /\ LET s == flow[q].server
           updated == [view[s] EXCEPT !.fp = flow[q].seen] IN
       /\ record' = [record EXCEPT ![s] = updated]
       /\ flow' = [flow EXCEPT ![q] = Sent(s, updated, flow[q].cand)]
    /\ UNCHANGED <<bridge, key, view, fetched, dialog, confirmed, edited, store>>

\* The answer to confirm-fingerprint: the key goes into the stored record, and
\* that is what is sent next.
Confirmed(q) ==
    /\ At(q, "confirmed")
    /\ LET s == flow[q].server
           updated == [record[s] EXCEPT !.fp = flow[q].seen] IN
       /\ record' = [record EXCEPT ![s] = updated]
       /\ flow' = [flow EXCEPT ![q] = Sent(s, updated, flow[q].cand)]
    /\ UNCHANGED <<bridge, key, view, fetched, dialog, confirmed, edited, store>>

\* updateServer keeps what the form does not have: the fingerprint.
Edit(s, h) ==
    /\ record' = [record EXCEPT ![s].host = h]
    /\ edited' = [edited EXCEPT ![s] = h]
    /\ UNCHANGED <<bridge, key, view, fetched, dialog, confirmed, flow, store>>

\* refresh reads the records, waits for the bridge, and shows what it read.
Fetch ==
    /\ fetched = None
    /\ fetched' = record
    /\ UNCHANGED <<bridge, key, record, view, dialog, confirmed, edited, flow, store>>

Show ==
    /\ fetched # None
    /\ view' = fetched
    /\ fetched' = None
    /\ UNCHANGED <<bridge, key, record, dialog, confirmed, edited, flow, store>>

-----------------------------------------------------------------------------
(* The bridge. *)

Step(q, f) == flow' = [flow EXCEPT ![q] = f] /\ UNCHANGED <<bridge, key, page>>
Goto(q, stage) == Step(q, [flow[q] EXCEPT !.at = stage])

\* Mutant: the record is not kept.
ArriveUnkept(q) ==
    /\ At(q, "sent")
    /\ Goto(q, "handshake")
    /\ UNCHANGED store

\* syncRecords: the table keeps its fingerprint when the page sends none.
Synced(s, sent) ==
    IF sent.fp = None /\ rows[s] # None THEN [sent EXCEPT !.fp = rows[s].fp] ELSE sent

\* The record is kept, by the Rust bridge as it was sent.
Arrive(q) ==
    /\ At(q, "sent")
    /\ LET s == flow[q].server
           row == IF bridge = "node" THEN Synced(s, flow[q].record) ELSE flow[q].record IN
       /\ rows' = [rows EXCEPT ![s] = row]
       /\ Step(q, [flow[q] EXCEPT !.at = "handshake", !.record = row])
    /\ UNCHANGED candidates

Presented(q) == key[flow[q].record.host]
Expected(q) == flow[q].record.fp
Ask(q) == Step(q, [flow[q] EXCEPT !.at = "noted", !.seen = Presented(q)])

\* Mutant: without a fingerprint any key is good.
VerifyNodeUnlessNone(q) ==
    /\ bridge = "node" /\ At(q, "handshake")
    /\ \/ Expected(q) \in {Presented(q), None} /\ Goto(q, "healthy")
       \/ Expected(q) \notin {Presented(q), None} /\ Goto(q, "failed")
    /\ UNCHANGED store

\* Every key that is not the expected one is offered for confirmation.
VerifyRust(q) ==
    /\ bridge = "rust" /\ At(q, "handshake")
    /\ \/ Presented(q) = Expected(q) /\ Goto(q, "healthy")
       \/ Presented(q) # Expected(q) /\ Ask(q)
    /\ UNCHANGED store

\* Only a first key is.
VerifyNode(q) ==
    /\ bridge = "node" /\ At(q, "handshake")
    /\ \/ Presented(q) = Expected(q) /\ Goto(q, "healthy")
       \/ Expected(q) = None /\ Ask(q)
       \/ Expected(q) \notin {Presented(q), None} /\ Goto(q, "failed")
    /\ UNCHANGED store

Verify(q) == VerifyRust(q) \/ VerifyNode(q)

Remember(q) ==
    /\ At(q, "noted")
    /\ candidates' = [candidates EXCEPT ![flow[q].server] = flow[q].seen]
    /\ Goto(q, "unknown")
    /\ UNCHANGED rows

\* Anything else that may go wrong with a connection.
OpenFails(q) == At(q, "handshake") /\ Goto(q, "failed") /\ UNCHANGED store

\* Mutant: whatever is pending is accepted.
CheckRustAny(q) ==
    /\ bridge = "rust" /\ At(q, "confirm")
    /\ LET pending == candidates[flow[q].server] IN
       \/ /\ pending # None
          /\ candidates' = [candidates EXCEPT ![flow[q].server] = None]
          /\ Step(q, [flow[q] EXCEPT !.at = "consumed", !.cand = pending])
       \/ pending = None /\ Goto(q, "failed") /\ UNCHANGED candidates
    /\ UNCHANGED rows

\* The key must be the one the bridge saw last; a candidate is good for one
\* confirmation.
Pending(q) == candidates[flow[q].server] = flow[q].cand
Consume(q) == candidates' = [candidates EXCEPT ![flow[q].server] = None]
SetFp(q) ==
    /\ rows' = [rows EXCEPT ![flow[q].server].fp = flow[q].cand]
    /\ Step(q, [flow[q] EXCEPT !.at = "confirmed", !.seen = flow[q].cand])
Forbid(q) == ~Pending(q) /\ Goto(q, "failed") /\ UNCHANGED store

\* One lock is given up before the next is taken.
CheckRust(q) ==
    /\ bridge = "rust" /\ At(q, "confirm")
    /\ \/ Pending(q) /\ Consume(q) /\ Goto(q, "consumed") /\ UNCHANGED rows
       \/ Forbid(q)

ConfirmNode(q) ==
    /\ bridge = "node" /\ At(q, "confirm")
    /\ \/ Pending(q) /\ SetFp(q) /\ Consume(q)
       \/ Forbid(q)

Check(q) == CheckRust(q) \/ ConfirmNode(q)

Trust(q) == At(q, "consumed") /\ SetFp(q) /\ UNCHANGED candidates

-----------------------------------------------------------------------------
(* The world. *)

Rekey(h, k) ==
    /\ key' = [key EXCEPT ![h] = k]
    /\ UNCHANGED <<bridge, page, flow, store>>

\* The request does not reach the bridge.
Unreachable(q) ==
    /\ At(q, "sent") \/ At(q, "confirm")
    /\ Goto(q, "failed")
    /\ UNCHANGED store

\* Either bridge keeps its records in memory only (openDatabase(':memory:')).
Restart ==
    /\ flow' = [q \in Flows |-> IF flow[q] # None /\ flow[q].at \in InBridge
                                   THEN [flow[q] EXCEPT !.at = "failed"] ELSE flow[q]]
    /\ candidates' = [s \in Servers |-> None]
    /\ rows' = [s \in Servers |-> None]
    /\ UNCHANGED <<bridge, key, page>>

-----------------------------------------------------------------------------

PageStep ==
    \/ \E q \in Flows : (\E s \in Servers : Open(q, s)) \/ Answered(q) \/ Confirm(q) \/ Confirmed(q)
    \/ \E s \in Servers, h \in Hosts : Edit(s, h)
    \/ Reject \/ Fetch \/ Show

BridgeStep(q) ==
    \/ Arrive(q) \/ Verify(q) \/ Remember(q) \/ OpenFails(q)
    \/ Check(q) \/ Trust(q) \/ Unreachable(q)

Next ==
    \/ PageStep
    \/ \E q \in Flows : BridgeStep(q)
    \/ \E h \in Hosts, k \in Keys : Rekey(h, k)
    \/ Restart

Spec == Init /\ [][Next]_vars

-----------------------------------------------------------------------------
(* Correctness. *)

(* Every fingerprint in a stored record, in what the page shows or in the bridge
   is one the user said yes to, in a question about that server: a key that the
   bridge has seen while another question was open is never accepted in its place
   (confirm_fingerprint, confirmHostFingerprint).  Not said here: that the key is
   of the host the record names now, for an edit keeps the fingerprint, nor that
   the user was asked once only, see ChangedKeyIsBlocked. *)
TrustIsConfirmed ==
    \A s \in Servers :
        /\ {record[s].fp, view[s].fp} \subseteq confirmed[s] \union {None}
        /\ rows[s] # None => rows[s].fp \in confirmed[s] \union {None}

(* "A change of the fingerprint always blocks the connection" (design, line 307;
   README.md:95, and the dialogue itself, app.tsx:26): a key is offered for
   confirmation only when the request carried no fingerprint.  The Node bridge
   keeps to that; the Rust one offers every key it does not expect. *)
ChangedKeyIsBlocked == \A q \in Flows : At(q, "unknown") => Expected(q) = None

(* A session is opened only when the host presents a key the user confirmed for
   the server, even if the record that was sent is not the stored one any more
   (check_server_key, hostVerifier). *)
SessionOnConfirmedKey ==
    [][\A q \in Flows :
           At(q, "handshake") /\ flow'[q] # None /\ flow'[q].at = "healthy"
               => key[flow[q].record.host] \in confirmed[flow[q].server]]_vars

(* A confirmation that comes back does not undo an edit made while it was on its
   way: the record has the host the user entered last. *)
EditsSurvive == \A s \in Servers : record[s].host = edited[s]
=============================================================================
