--------------------------- MODULE HostTrustProofs ---------------------------
(***************************************************************************)
(* Proofs about HostTrust, for any servers, hosts, keys and number of      *)
(* requests at once.                                                       *)
(***************************************************************************)
EXTENDS HostTrust, TLAPS

-----------------------------------------------------------------------------
(* The inductive invariant. *)

Known(s) == confirmed[s] \union {None}

\* What a refresh has read, too, was confirmed.
Fetched == fetched # None => \A s \in Servers : fetched[s].fp \in Known(s)

\* What a waiting handler carries.
Carries(f) ==
    /\ f.record # None => f.record.fp \in Known(f.server)
    /\ f.cand \in Known(f.server)
    /\ f.at \in {"sent", "handshake", "noted"} => f.record # None
    /\ f.at \in {"confirm", "consumed", "confirmed"} => f.cand # None
    /\ f.at \in {"noted", "unknown"} => f.seen # None
    /\ f.at = "confirmed" => f.seen = f.cand
    /\ f.at \in InBridge => rows[f.server] # None

FlowInv == \A q \in Flows : flow[q] # None => Carries(flow[q])

TrustInv == TypeOK /\ TrustIsConfirmed /\ Fetched /\ FlowInv

-----------------------------------------------------------------------------
(* Each step keeps it. *)

USE NoneAssumption DEF InBridge

LEMMA InitInv == Init => TrustInv
BY DEF Init, TrustInv, TypeOK, TrustIsConfirmed, Fetched, FlowInv, Known, Record

LEMMA OpenInv == ASSUME TrustInv, NEW q \in Flows, NEW s \in Servers, Open(q, s) PROVE TrustInv'
<1>1. TypeOK'
  BY DEF TrustInv, TypeOK, FlowInv, Carries, Known, Open, Sent, Flow, Stages, Record,
         Question, page, store, Bridges
<1>2. TrustIsConfirmed' /\ Fetched'
  BY DEF TrustInv, TypeOK, TrustIsConfirmed, Fetched, FlowInv, Carries, Known, Open,
         Sent, Flow, Record, Question, page, store
<1>3. FlowInv'
  BY DEF TrustInv, TypeOK, TrustIsConfirmed, FlowInv, Carries, Known, Open, Sent, Flow,
         Stages, Record, Question, page, store
<1> QED
  BY <1>1, <1>2, <1>3 DEF TrustInv

LEMMA AnsweredInv == ASSUME TrustInv, NEW q \in Flows, Answered(q) PROVE TrustInv'
<1>1. TypeOK'
  BY DEF TrustInv, TypeOK, FlowInv, Carries, Known, Answered, At, Flow, Stages, Record,
         Question, page, store, Bridges
<1>2. TrustIsConfirmed' /\ Fetched'
  BY DEF TrustInv, TypeOK, TrustIsConfirmed, Fetched, FlowInv, Carries, Known, Answered,
         At, Flow, Record, Question, page, store
<1>3. FlowInv'
  BY DEF TrustInv, TypeOK, TrustIsConfirmed, FlowInv, Carries, Known, Answered, At,
         Flow, Stages, Record, Question, page, store
<1> QED
  BY <1>1, <1>2, <1>3 DEF TrustInv

LEMMA ConfirmInv == ASSUME TrustInv, NEW q \in Flows, Confirm(q) PROVE TrustInv'
<1>1. TypeOK'
  BY DEF TrustInv, TypeOK, FlowInv, Carries, Known, Confirm, Flow, Stages, Record,
         Question, page, store, Bridges
<1>2. TrustIsConfirmed' /\ Fetched'
  BY DEF TrustInv, TypeOK, TrustIsConfirmed, Fetched, FlowInv, Carries, Known, Confirm,
         Flow, Record, Question, page, store
<1>3. FlowInv'
  BY DEF TrustInv, TypeOK, TrustIsConfirmed, FlowInv, Carries, Known, Confirm, Flow,
         Stages, Record, Question, page, store
<1> QED
  BY <1>1, <1>2, <1>3 DEF TrustInv

LEMMA ConfirmedInv == ASSUME TrustInv, NEW q \in Flows, Confirmed(q) PROVE TrustInv'
<1>1. TypeOK'
  BY DEF TrustInv, TypeOK, FlowInv, Carries, Known, Confirmed, At, Sent, Flow, Stages,
         Record, Question, page, store, Bridges
<1>2. TrustIsConfirmed' /\ Fetched'
  BY DEF TrustInv, TypeOK, TrustIsConfirmed, Fetched, FlowInv, Carries, Known,
         Confirmed, At, Sent, Flow, Record, Question, page, store
<1>3. FlowInv'
  BY DEF TrustInv, TypeOK, TrustIsConfirmed, FlowInv, Carries, Known, Confirmed, At,
         Sent, Flow, Stages, Record, Question, page, store
<1> QED
  BY <1>1, <1>2, <1>3 DEF TrustInv

\* Most steps of the bridge change one handler and its own two stores.
LEMMA StepInv ==
    ASSUME TrustInv, NEW q \in Flows, NEW f \in Flow, Step(q, f),
           rows' \in [Servers -> Record \union {None}],
           candidates' \in [Servers -> Keys \union {None}],
           \A s \in Servers : /\ candidates'[s] # None => rows'[s] # None
                              /\ rows[s] # None => rows'[s] # None
                              /\ rows'[s] # None => rows'[s].fp \in Known(s),
           f.record # None => f.record.fp \in Known(f.server),
           f.cand \in Known(f.server),
           f.at \in {"sent", "handshake", "noted"} => f.record # None,
           f.at \in {"confirm", "consumed", "confirmed"} => f.cand # None,
           f.at \in {"noted", "unknown"} => f.seen # None,
           f.at = "confirmed" => f.seen = f.cand,
           f.at \in InBridge => rows'[f.server] # None
    PROVE  TrustInv'
<1>1. /\ flow' = [flow EXCEPT ![q] = f]
      /\ UNCHANGED <<bridge, key, record, view, fetched, dialog, confirmed, edited>>
  BY DEF Step, page
<1>2. TypeOK' /\ TrustIsConfirmed' /\ Fetched'
  BY <1>1 DEF TrustInv, TypeOK, TrustIsConfirmed, Fetched, Known
<1>3. FlowInv'
  <2> SUFFICES ASSUME NEW p \in Flows, flow'[p] # None
               PROVE  Carries(flow[p])'
    BY DEF FlowInv
  <2>1. CASE p = q
    <3>1. flow'[p] = f
      BY <1>1, <2>1 DEF TrustInv, TypeOK
    <3> QED
      BY <1>1, <3>1 DEF Carries, Known
  <2>2. CASE p # q
    <3>1. flow'[p] = flow[p] /\ flow[p] \in Flow /\ Carries(flow[p])
      BY <1>1, <2>2 DEF TrustInv, TypeOK, FlowInv
    <3> QED
      BY <1>1, <3>1 DEF Carries, Known, Flow
  <2> QED
    BY <2>1, <2>2
<1> QED
  BY <1>2, <1>3 DEF TrustInv

LEMMA InFlow ==
    ASSUME TrustInv, NEW q \in Flows, flow[q] # None
    PROVE  flow[q] \in Flow /\ Carries(flow[q])
BY DEF TrustInv, TypeOK, FlowInv

\* What the stores are when a step leaves them alone.
LEMMA Stores ==
    ASSUME TrustInv
    PROVE  /\ rows \in [Servers -> Record \union {None}]
           /\ candidates \in [Servers -> Keys \union {None}]
           /\ \A s \in Servers : /\ candidates[s] # None => rows[s] # None
                                 /\ rows[s] # None => rows[s].fp \in Known(s)
BY DEF TrustInv, TypeOK, TrustIsConfirmed, Known

\* The steps after which a handler has an answer, or nothing new.
LEMMA GotoInv ==
    ASSUME TrustInv, NEW q \in Flows, flow[q] # None, NEW stage \in {"healthy", "failed"},
           Goto(q, stage), UNCHANGED store
    PROVE  TrustInv'
<1> DEFINE f == [flow[q] EXCEPT !.at = stage]
<1>1. flow[q] \in Flow /\ Carries(flow[q])
  BY InFlow
<1>2. /\ f \in Flow /\ f.at = stage
      /\ f.record = flow[q].record /\ f.cand = flow[q].cand /\ f.server = flow[q].server
  BY <1>1 DEF Flow, Stages
<1>3. Step(q, f) /\ rows' = rows /\ candidates' = candidates
  BY DEF Goto, store
<1> HIDE DEF f
<1> QED
  BY <1>1, <1>2, <1>3, StepInv, Stores DEF Carries

LEMMA ArriveInv == ASSUME TrustInv, NEW q \in Flows, Arrive(q) PROVE TrustInv'
<1> DEFINE s == flow[q].server
           sent == flow[q].record
           row == IF bridge = "node" THEN Synced(s, sent) ELSE sent
           f == [flow[q] EXCEPT !.at = "handshake", !.record = row]
<1>1. flow[q] \in Flow /\ Carries(flow[q]) /\ flow[q].at = "sent"
  BY InFlow DEF Arrive, At
<1>2. s \in Servers /\ sent \in Record /\ sent.fp \in Known(s)
  BY <1>1 DEF Flow, Carries
<1>3. rows[s] # None => rows[s] \in Record /\ rows[s].fp \in Known(s)
  BY <1>2, Stores
<1>4. row \in Record /\ row.fp \in Known(s)
  BY <1>2, <1>3 DEF Synced, Record
<1>5. /\ f \in Flow /\ f.at = "handshake" /\ f.record = row
      /\ f.cand = flow[q].cand /\ f.server = s
  BY <1>1, <1>4 DEF Flow, Stages
<1>6. Step(q, f) /\ rows' = [rows EXCEPT ![s] = row] /\ candidates' = candidates
  BY DEF Arrive
<1> HIDE DEF f, row, sent
<1>7. row # None
  BY <1>4 DEF Record
<1>8. /\ rows' \in [Servers -> Record \union {None}]
      /\ \A t \in Servers : /\ rows[t] # None => rows'[t] # None
                            /\ rows'[t] # None => rows'[t].fp \in Known(t)
  BY <1>2, <1>4, <1>6, <1>7, Stores
<1> QED
  BY <1>1, <1>4, <1>5, <1>6, <1>7, <1>8, StepInv, Stores DEF Carries

LEMMA VerifyInv == ASSUME TrustInv, NEW q \in Flows, Verify(q) PROVE TrustInv'
<1> DEFINE presented == key[flow[q].record.host]
           f == [flow[q] EXCEPT !.at = "noted", !.seen = presented]
<1>1. flow[q] \in Flow /\ Carries(flow[q]) /\ flow[q].at = "handshake" /\ flow[q] # None
  BY InFlow DEF Verify, VerifyRust, VerifyNode, At
<1>2. presented \in Keys
  BY <1>1 DEF Flow, Carries, Record, TrustInv, TypeOK
<1>3. UNCHANGED store
  BY DEF Verify, VerifyRust, VerifyNode
<1>4. CASE Goto(q, "healthy") \/ Goto(q, "failed")
  BY <1>1, <1>3, <1>4, GotoInv
<1>5. CASE Step(q, f)
  <2>1. /\ f \in Flow /\ f.at = "noted" /\ f.seen = presented /\ presented # None
        /\ f.record = flow[q].record /\ f.cand = flow[q].cand /\ f.server = flow[q].server
    BY <1>1, <1>2 DEF Flow, Stages
  <2>2. rows' = rows /\ candidates' = candidates
    BY <1>3 DEF store
  <2> HIDE DEF f
  <2> QED
    BY <1>1, <1>5, <2>1, <2>2, StepInv, Stores DEF Carries
<1> QED
  BY <1>4, <1>5 DEF Verify, VerifyRust, VerifyNode, Ask, Presented

LEMMA RememberInv == ASSUME TrustInv, NEW q \in Flows, Remember(q) PROVE TrustInv'
<1> DEFINE f == [flow[q] EXCEPT !.at = "unknown"]
<1>1. flow[q] \in Flow /\ Carries(flow[q]) /\ flow[q].at = "noted"
  BY InFlow DEF Remember, At
<1>2. /\ f \in Flow /\ f.at = "unknown" /\ f.seen = flow[q].seen
      /\ f.record = flow[q].record /\ f.cand = flow[q].cand /\ f.server = flow[q].server
  BY <1>1 DEF Flow, Stages
<1>3. /\ Step(q, f) /\ rows' = rows
      /\ candidates' = [candidates EXCEPT ![flow[q].server] = flow[q].seen]
  BY DEF Remember, Goto
<1>4. flow[q].server \in Servers /\ flow[q].seen \in Keys \union {None}
  BY <1>1 DEF Flow
<1> HIDE DEF f
<1>5. rows[flow[q].server] # None
  BY <1>1 DEF Carries
<1>6. /\ candidates' \in [Servers -> Keys \union {None}]
      /\ \A s \in Servers : candidates'[s] # None => rows[s] # None
  BY <1>3, <1>4, <1>5, Stores
<1> QED
  BY <1>1, <1>2, <1>3, <1>6, StepInv, Stores DEF Carries

\* A confirmed key in a record that is there.
LEMMA FpSet ==
    ASSUME TrustInv, NEW s \in Servers, rows[s] # None, NEW k \in Keys, k \in Known(s),
           rows' = [rows EXCEPT ![s].fp = k]
    PROVE  /\ rows' \in [Servers -> Record \union {None}]
           /\ \A t \in Servers : /\ rows[t] # None => rows'[t] # None
                                 /\ rows'[t] # None => rows'[t].fp \in Known(t)
<1> DEFINE row == [rows[s] EXCEPT !.fp = k]
<1>1. rows[s] \in Record
  BY Stores
<1>2. row \in Record /\ row.fp = k
  BY <1>1 DEF Record
<1>3. rows' = [rows EXCEPT ![s] = row]
  BY Stores
<1> HIDE DEF row
<1> QED
  BY <1>2, <1>3, Stores

LEMMA CheckInv == ASSUME TrustInv, NEW q \in Flows, Check(q) PROVE TrustInv'
<1> DEFINE s == flow[q].server
           cand == flow[q].cand
           consumed == [flow[q] EXCEPT !.at = "consumed"]
           trusted == [flow[q] EXCEPT !.at = "confirmed", !.seen = cand]
<1>1. flow[q] \in Flow /\ Carries(flow[q]) /\ flow[q].at = "confirm" /\ flow[q] # None
  BY InFlow DEF Check, CheckRust, ConfirmNode, At
<1>2. s \in Servers /\ cand \in Keys /\ cand \in Known(s)
  BY <1>1 DEF Flow, Carries
<1>3. CASE candidates[s] # cand
  <2>1. Goto(q, "failed") /\ UNCHANGED store
    BY <1>3 DEF Check, CheckRust, ConfirmNode, Pending, Forbid
  <2> QED
    BY <1>1, <2>1, GotoInv
<1>4. CASE candidates[s] = cand
  <2>1. rows[s] # None /\ rows[s] \in Record
    BY <1>2, <1>4, Stores
  <2>2. /\ candidates' = [candidates EXCEPT ![s] = None]
        /\ \/ Step(q, consumed) /\ rows' = rows
           \/ Step(q, trusted) /\ rows' = [rows EXCEPT ![s].fp = cand]
    BY <1>4 DEF Check, CheckRust, ConfirmNode, Pending, Consume, SetFp, Forbid, Goto
  <2>3. /\ candidates' \in [Servers -> Keys \union {None}]
        /\ \A t \in Servers : candidates'[t] # None => rows[t] # None
    BY <1>2, <2>2, Stores
  <2>4. CASE Step(q, consumed) /\ rows' = rows
    <3>1. /\ consumed \in Flow /\ consumed.at = "consumed" /\ consumed.cand = cand
          /\ consumed.record = flow[q].record /\ consumed.server = s
      BY <1>1 DEF Flow, Stages
    <3> HIDE DEF consumed
    <3> QED
      BY <1>1, <1>2, <2>1, <2>3, <2>4, <3>1, StepInv, Stores DEF Carries
  <2>5. CASE Step(q, trusted) /\ rows' = [rows EXCEPT ![s].fp = cand]
    <3>1. /\ trusted \in Flow /\ trusted.at = "confirmed" /\ trusted.cand = cand
          /\ trusted.seen = cand
          /\ trusted.record = flow[q].record /\ trusted.server = s
      BY <1>1, <1>2 DEF Flow, Stages
    <3> HIDE DEF trusted
    <3>2. /\ rows' \in [Servers -> Record \union {None}]
          /\ \A t \in Servers : /\ rows[t] # None => rows'[t] # None
                                /\ rows'[t] # None => rows'[t].fp \in Known(t)
      BY <1>2, <2>1, <2>5, FpSet
    <3> QED
      BY <1>1, <1>2, <2>3, <2>5, <3>1, <3>2, StepInv DEF Carries
  <2> QED
    BY <2>2, <2>4, <2>5
<1> QED
  BY <1>3, <1>4

LEMMA TrustStepInv == ASSUME TrustInv, NEW q \in Flows, Trust(q) PROVE TrustInv'
<1> DEFINE s == flow[q].server
           cand == flow[q].cand
           f == [flow[q] EXCEPT !.at = "confirmed", !.seen = cand]
<1>1. flow[q] \in Flow /\ Carries(flow[q]) /\ flow[q].at = "consumed"
  BY InFlow DEF Trust, At
<1>2. s \in Servers /\ cand \in Keys /\ cand \in Known(s) /\ rows[s] # None
  BY <1>1 DEF Flow, Carries
<1>3. /\ f \in Flow /\ f.at = "confirmed" /\ f.cand = cand /\ f.seen = cand
      /\ f.record = flow[q].record /\ f.server = s
  BY <1>1, <1>2 DEF Flow, Stages
<1>4. Step(q, f) /\ rows' = [rows EXCEPT ![s].fp = cand] /\ candidates' = candidates
  BY DEF Trust, SetFp
<1> HIDE DEF f
<1>5. /\ rows' \in [Servers -> Record \union {None}]
      /\ \A t \in Servers : /\ rows[t] # None => rows'[t] # None
                            /\ rows'[t] # None => rows'[t].fp \in Known(t)
  BY <1>2, <1>4, FpSet
<1> QED
  BY <1>1, <1>2, <1>3, <1>4, <1>5, StepInv, Stores DEF Carries

LEMMA OpenFailsInv == ASSUME TrustInv, NEW q \in Flows, OpenFails(q) PROVE TrustInv'
BY GotoInv DEF OpenFails, At

LEMMA UnreachableInv == ASSUME TrustInv, NEW q \in Flows, Unreachable(q) PROVE TrustInv'
BY GotoInv DEF Unreachable, At

LEMMA EditInv == ASSUME TrustInv, NEW s \in Servers, NEW h \in Hosts, Edit(s, h) PROVE TrustInv'
<1>1. TypeOK'
  BY DEF TrustInv, TypeOK, Edit, Flow, Stages, Record, Question, page, store, Bridges
<1>2. TrustIsConfirmed' /\ Fetched'
  BY DEF TrustInv, TypeOK, TrustIsConfirmed, Fetched, Known, Edit, Record, page, store
<1>3. FlowInv'
  BY DEF TrustInv, TypeOK, FlowInv, Carries, Known, Edit, Flow, Record, Question, page,
         store
<1> QED
  BY <1>1, <1>2, <1>3 DEF TrustInv

LEMMA RejectInv == ASSUME TrustInv, Reject PROVE TrustInv'
<1>1. TypeOK'
  BY DEF TrustInv, TypeOK, Reject, Flow, Stages, Record, Question, page, store, Bridges
<1>2. TrustIsConfirmed' /\ Fetched'
  BY DEF TrustInv, TypeOK, TrustIsConfirmed, Fetched, Known, Reject, Record, page, store
<1>3. FlowInv'
  BY DEF TrustInv, TypeOK, FlowInv, Carries, Known, Reject, Flow, Record, Question,
         page, store
<1> QED
  BY <1>1, <1>2, <1>3 DEF TrustInv

LEMMA FetchInv == ASSUME TrustInv, Fetch PROVE TrustInv'
<1>1. TypeOK'
  BY DEF TrustInv, TypeOK, Fetch, Flow, Stages, Record, Question, page, store, Bridges
<1>2. TrustIsConfirmed' /\ Fetched'
  BY DEF TrustInv, TypeOK, TrustIsConfirmed, Fetched, Known, Fetch, Record, page, store
<1>3. FlowInv'
  BY DEF TrustInv, TypeOK, FlowInv, Carries, Known, Fetch, Flow, Record, Question, page,
         store
<1> QED
  BY <1>1, <1>2, <1>3 DEF TrustInv

LEMMA ShowInv == ASSUME TrustInv, Show PROVE TrustInv'
<1>1. TypeOK'
  BY DEF TrustInv, TypeOK, Show, Flow, Stages, Record, Question, page, store, Bridges
<1>2. TrustIsConfirmed' /\ Fetched'
  BY DEF TrustInv, TypeOK, TrustIsConfirmed, Fetched, Known, Show, Record, page, store
<1>3. FlowInv'
  BY DEF TrustInv, TypeOK, FlowInv, Carries, Known, Show, Flow, Record, Question, page,
         store
<1> QED
  BY <1>1, <1>2, <1>3 DEF TrustInv

LEMMA RekeyInv == ASSUME TrustInv, NEW h \in Hosts, NEW k \in Keys, Rekey(h, k) PROVE TrustInv'
<1>1. TypeOK'
  BY DEF TrustInv, TypeOK, Rekey, Flow, Stages, Record, Question, page, store, Bridges
<1>2. TrustIsConfirmed' /\ Fetched'
  BY DEF TrustInv, TypeOK, TrustIsConfirmed, Fetched, Known, Rekey, Record, page, store
<1>3. FlowInv'
  BY DEF TrustInv, TypeOK, FlowInv, Carries, Known, Rekey, Flow, Record, Question, page,
         store
<1> QED
  BY <1>1, <1>2, <1>3 DEF TrustInv

LEMMA RestartInv == ASSUME TrustInv, Restart PROVE TrustInv'
<1>1. TypeOK'
  <2>1. flow' \in [Flows -> Flow \union {None}]
    <3> SUFFICES ASSUME NEW q \in Flows
                 PROVE  (IF flow[q] # None /\ flow[q].at \in InBridge
                            THEN [flow[q] EXCEPT !.at = "failed"] ELSE flow[q])
                        \in Flow \union {None}
      BY DEF Restart
    <3>1. CASE flow[q] = None
      BY <3>1
    <3>2. CASE flow[q] # None
      BY <3>2, InFlow DEF Flow, Stages
    <3> QED
      BY <3>1, <3>2
  <2>2. candidates' \in [Servers -> Keys \union {None}] /\ \A s \in Servers : candidates'[s] = None
    BY DEF Restart
  <2>3. rows' \in [Servers -> Record \union {None}]
    BY Stores DEF Restart
  <2> QED
    BY <2>1, <2>2, <2>3 DEF TrustInv, TypeOK, Restart, page
<1>2. TrustIsConfirmed' /\ Fetched'
  BY DEF TrustInv, TypeOK, TrustIsConfirmed, Fetched, Known, Restart, Record, page, store
<1>3. FlowInv'
  BY DEF TrustInv, TypeOK, FlowInv, Carries, Known, Restart, Flow, Record, Question,
         page, store
<1> QED
  BY <1>1, <1>2, <1>3 DEF TrustInv

LEMMA NextInv == TrustInv /\ [Next]_vars => TrustInv'
<1> SUFFICES ASSUME TrustInv, [Next]_vars PROVE TrustInv'
  OBVIOUS
<1>1. CASE PageStep
  BY <1>1, OpenInv, AnsweredInv, ConfirmInv, ConfirmedInv, EditInv, RejectInv, FetchInv, ShowInv
     DEF PageStep
<1>2. ASSUME NEW q \in Flows, BridgeStep(q) PROVE TrustInv'
  BY <1>2, ArriveInv, VerifyInv, RememberInv, OpenFailsInv, CheckInv, TrustStepInv,
     UnreachableInv
     DEF BridgeStep
<1>3. CASE \E h \in Hosts, k \in Keys : Rekey(h, k)
  BY <1>3, RekeyInv
<1>4. CASE Restart
  BY <1>4, RestartInv
<1>5. CASE UNCHANGED vars
  BY <1>5 DEF vars, page, store, TrustInv, TypeOK, TrustIsConfirmed, Fetched, FlowInv,
              Carries, Known
<1> QED
  BY <1>1, <1>2, <1>3, <1>4, <1>5 DEF Next

-----------------------------------------------------------------------------
(* Theorems. *)

LEMMA TrustInvariant == Spec => []TrustInv
BY InitInv, NextInv, PTL DEF Spec

(* The types, and that the bridge knows the server of each key it asks about. *)
THEOREM TrustTypeCorrect == Spec => []TypeOK
<1>1. TrustInv => TypeOK
  BY DEF TrustInv
<1> QED
  BY <1>1, TrustInvariant, PTL

(* No record, shown, stored or in the bridge, has a key the user did not confirm
   for that server. *)
THEOREM TrustIsConfirmedHolds == Spec => []TrustIsConfirmed
<1>1. TrustInv => TrustIsConfirmed
  BY DEF TrustInv
<1> QED
  BY <1>1, TrustInvariant, PTL

(* No session is opened on a key the user did not confirm for that server. *)
THEOREM SessionOnConfirmedKeyHolds == Spec => SessionOnConfirmedKey
<1> DEFINE Good(q) ==
        At(q, "handshake") /\ flow'[q] # None /\ flow'[q].at = "healthy"
            => key[flow[q].record.host] \in confirmed[flow[q].server]
<1>1. TrustInv /\ [Next]_vars => [\A q \in Flows : Good(q)]_vars
  <2> SUFFICES ASSUME TrustInv, Next, NEW q \in Flows, At(q, "handshake"),
                      flow'[q] # None, flow'[q].at = "healthy"
               PROVE  key[flow[q].record.host] \in confirmed[flow[q].server]
    OBVIOUS
  <2>1. /\ flow \in [Flows -> Flow \union {None}] /\ flow[q] # None /\ flow[q].at = "handshake"
        /\ flow[q] \in Flow /\ Carries(flow[q])
    BY InFlow DEF At, TrustInv, TypeOK
  <2>2. Verify(q)
    <3>1. flow'[q] # flow[q]
      BY <2>1
    <3>2. ~Restart
      BY <2>1 DEF Restart, Flow
    <3>3. \A h \in Hosts, k \in Keys : ~Rekey(h, k)
      BY <3>1 DEF Rekey
    <3>4. ~PageStep
      BY <2>1, <3>1 DEF PageStep, Open, Answered, Confirm, Confirmed, Edit, Reject,
                        Fetch, Show, At
    <3>5. PICK p \in Flows : BridgeStep(p)
      BY <3>2, <3>3, <3>4 DEF Next
    <3>6. PICK f : flow' = [flow EXCEPT ![p] = f]
      BY <3>5 DEF BridgeStep, Arrive, Verify, Remember, OpenFails, Check, Trust,
                  VerifyRust, VerifyNode, CheckRust, ConfirmNode, Ask, SetFp, Forbid,
                  Unreachable, Goto, Step
    <3>7. p = q
      BY <2>1, <3>1, <3>6
    <3>8. ~Arrive(q) /\ ~Remember(q) /\ ~Check(q) /\ ~Trust(q) /\ ~Unreachable(q)
      BY <2>1 DEF Arrive, Remember, Check, CheckRust, ConfirmNode, Trust, Unreachable, At
    <3>9. ~OpenFails(q)
      BY <2>1 DEF OpenFails, Goto, Step, Flow
    <3> QED
      BY <3>5, <3>7, <3>8, <3>9 DEF BridgeStep
  <2>3. key[flow[q].record.host] = flow[q].record.fp
    <3>1. flow'[q].at = "healthy" => ~Goto(q, "failed")
      BY <2>1 DEF Goto, Step, Flow
    <3> DEFINE noted == [flow[q] EXCEPT !.at = "noted", !.seen = key[flow[q].record.host]]
    <3>2. ~Step(q, noted)
      <4>1. noted.at = "noted"
        BY <2>1 DEF Flow
      <4> HIDE DEF noted
      <4> QED
        BY <2>1, <4>1 DEF Step
    <3> QED
      BY <2>2, <3>1, <3>2 DEF Verify, VerifyRust, VerifyNode, Ask, Presented, Expected
  <2>4. key[flow[q].record.host] \in Keys
    BY <2>1 DEF Carries, Flow, Record, TrustInv, TypeOK
  <2> QED
    BY <2>1, <2>3, <2>4 DEF Carries, Known
<1> QED
  BY <1>1, TrustInvariant, PTL DEF Spec, SessionOnConfirmedKey

(* No confirmation, however late, undoes an edit of the record. *)
THEOREM EditsSurviveHolds == Spec => []EditsSurvive
<1>1. Init => EditsSurvive
  <2> SUFFICES ASSUME Init, NEW s \in Servers PROVE record[s].host = edited[s]
    BY DEF EditsSurvive
  <2>1. record[s] = [host |-> edited[s], fp |-> None]
    BY DEF Init
  <2> QED
    BY <2>1
<1>2. TrustInv /\ EditsSurvive /\ [Next]_vars => EditsSurvive'
  <2> SUFFICES ASSUME TrustInv, EditsSurvive, [Next]_vars PROVE EditsSurvive'
    OBVIOUS
  <2>1. record \in [Servers -> Record] /\ edited \in [Servers -> Hosts]
    BY DEF TrustInv, TypeOK
  <2>2. ASSUME NEW q \in Flows, Confirmed(q) PROVE EditsSurvive'
    BY <2>1, <2>2 DEF Confirmed, EditsSurvive, Record
  <2>3. ASSUME NEW s \in Servers, NEW h \in Hosts, Edit(s, h) PROVE EditsSurvive'
    BY <2>1, <2>3 DEF Edit, EditsSurvive, Record
  <2>4. CASE UNCHANGED <<record, edited>>
    BY <2>4 DEF EditsSurvive
  <2>5. CASE PageStep
    BY <2>2, <2>3, <2>4, <2>5
       DEF PageStep, Open, Answered, Confirm, Reject, Fetch, Show, page
  <2>6. CASE \/ \E q \in Flows : BridgeStep(q)
             \/ \E h \in Hosts, k \in Keys : Rekey(h, k)
             \/ Restart
             \/ UNCHANGED vars
    BY <2>4, <2>6 DEF BridgeStep, Arrive, Verify, Remember, OpenFails, Check, Trust,
                      VerifyRust, VerifyNode, CheckRust, ConfirmNode, Ask, SetFp, Forbid,
                      Unreachable, Goto, Step, Rekey, Restart, page, vars
  <2> QED
    BY <2>5, <2>6 DEF Next
<1> QED
  BY <1>1, <1>2, TrustInvariant, PTL DEF Spec
=============================================================================
