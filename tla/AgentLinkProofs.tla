--------------------------- MODULE AgentLinkProofs ---------------------------
(***************************************************************************)
(* Proofs about AgentLink, for any agents, codes, sockets and requests:    *)
(* the registry is current, and an agent drops its token only when it was  *)
(* revoked or when the gateway failed.                                     *)
(***************************************************************************)
EXTENDS AgentLink, Naturals, TLAPS

USE NoneAssumption, GatewayAssumption

-----------------------------------------------------------------------------
(* The inductive invariant. *)

Intros == {"hello", "pair"}
Replies == {"paired", "error"}

\* The agent's introduction, or the answer to it, is on its way on the socket c.
HasIntro(c) == c.up # <<>> /\ Head(c.up).type \in Intros
HasReply(c) == c.down # <<>> /\ Head(c.down).type \in Replies

\* Each end's half of a socket: what it has not heard of is not there, an agent
\* introduces itself once, before everything else, and is answered once, or
\* told that something failed.
Orderly(c) ==
    /\ c.client = "connecting" => c.control = "none"
    /\ c.client \in {"none", "connecting"} => c.down = <<>>
    /\ c.control = "none" => c.agent = None /\ c.up = <<>>
    /\ \A i \in DOMAIN c.up : c.up[i].type \in Intros => i = 1 /\ c.agent = None /\ c.down = <<>>
    /\ \A i \in DOMAIN c.down : /\ c.down[i].type \in Replies => i = 1
                                /\ c.down[i].type = "failure" => GatewayFails
    /\ c.control = "open" /\ c.agent = None /\ c.up # <<>> => c.up[1].type \in Intros
    /\ c.control = "open" /\ c.client = "open" /\ c.agent = None => c.up # <<>>

SocketsOrderly == \A s \in Socks : Orderly(conn[s])

RegistryInv == TypeOK /\ SocketsOrderly /\ RegistryIsCurrent

Running == loop \notin Exits

\* The agent has said, or will say, who it is on s, and has not heard the answer.
Introducing(s) ==
    \/ conn[s].client = "connecting"
    \/ conn[s].client # "none" /\ (HasIntro(conn[s]) \/ HasReply(conn[s]))

\* That is so on one socket at most, the newest, and on none while the loop sleeps.
OneIntroduction ==
    /\ \A s \in Socks : Introducing(s) => s = current /\ loop # "sleeping"
    /\ \A s \in Socks : conn[s].learned # None =>
           conn[s].client # "connecting" /\ ~HasIntro(conn[s]) /\ ~HasReply(conn[s])

Revoked(a) == a # None => rows[a] = "revoked"
Known(a) == a # None => rows[a] # "none"

\* What the introduction says is what the agent holds, unless it has dropped that
\* since, and so is what it hears.
SaysWhatItHolds ==
    \A s \in Socks : conn[s].client # "none" =>
        /\ HasIntro(conn[s]) /\ Head(conn[s].up).type = "hello" =>
               token \in {None, Head(conn[s].up).agent} /\ Known(Head(conn[s].up).agent)
        /\ HasIntro(conn[s]) /\ Head(conn[s].up).type = "pair" => token = None
        /\ HasReply(conn[s]) /\ Head(conn[s].down).type = "paired" =>
               token \in {None, Head(conn[s].down).agent} /\ Known(Head(conn[s].down).agent)
        /\ HasReply(conn[s]) /\ Head(conn[s].down).type = "error" => Revoked(token)

\* Every identity the agent has or writes down is one of the table.
TokensKnown == Known(token) /\ Known(saved) /\ \A s \in Socks : Known(conn[s].learned)

NotRunning ==
    ~Running => token = None /\ \A s \in Socks : conn[s].client = "none" /\ conn[s].learned = None

IdentityInv == OneIntroduction /\ SaysWhatItHolds /\ TokensKnown /\ NotRunning

-----------------------------------------------------------------------------
(* Types. *)

LEMMA ConnFields ==
    ASSUME NEW c \in Conn
    PROVE  /\ c.client \in {"none", "connecting", "open", "closing"}
           /\ c.control \in {"none", "open", "closing"}
           /\ c.agent \in Agents \union {None} /\ c.learned \in Agents \union {None}
           /\ c.file \in {"shut", "open", "lost"} /\ c.dropping \in BOOLEAN
           /\ c.shaken \in BOOLEAN /\ c.up \in Seq(UpMsg) /\ c.down \in Seq(DownMsg)
BY DEF Conn

LEMMA UpMessages ==
    /\ \A a \in Agents : [type |-> "hello", agent |-> a] \in UpMsg
    /\ \A c \in Codes : [type |-> "pair", code |-> c] \in UpMsg
    /\ \A r \in Reqs : [type |-> "response", id |-> r] \in UpMsg
    /\ \A m \in UpMsg : /\ m.type \in {"hello", "pair", "response"}
                        /\ m.type = "hello" => m.agent \in Agents
                        /\ m.type = "pair" => m.code \in Codes
                        /\ m.type = "response" => m.id \in Reqs
BY DEF UpMsg

LEMMA DownMessages ==
    /\ \A a \in Agents : [type |-> "paired", agent |-> a] \in DownMsg
    /\ \A r \in Reqs : [type |-> "request", id |-> r] \in DownMsg
    /\ [type |-> "error"] \in DownMsg /\ [type |-> "failure"] \in DownMsg
    /\ \A m \in DownMsg : /\ m.type \in {"paired", "request", "error", "failure"}
                          /\ m.type = "paired" => m.agent \in Agents
                          /\ m.type = "request" => m.id \in Reqs
BY DEF DownMsg, Errors

\* What the steps do to a socket leaves it a socket.
LEMMA SocketSteps ==
    ASSUME NEW c \in Conn
    PROVE  /\ CloseClient(c) \in Conn /\ CloseControl(c) \in Conn
           /\ \A m \in UpMsg : SendUp(c, m) \in Conn
           /\ \A m \in DownMsg : SendDown(c, m) \in Conn
           /\ \A a \in Agents : [c EXCEPT !.learned = a] \in Conn
           /\ [c EXCEPT !.dropping = TRUE] \in Conn
           /\ c.up # <<>> => [c EXCEPT !.up = Tail(@)] \in Conn
           /\ c.down # <<>> => [c EXCEPT !.down = Tail(@)] \in Conn
<1>1. CloseClient(c) \in Conn /\ CloseControl(c) \in Conn
  BY DEF Conn, CloseClient, CloseControl
<1>2. ASSUME NEW m \in UpMsg PROVE SendUp(c, m) \in Conn
  <2>1. Append(c.up, m) \in Seq(UpMsg)
    BY ConnFields
  <2>. QED  BY <2>1 DEF Conn, SendUp
<1>3. ASSUME NEW m \in DownMsg PROVE SendDown(c, m) \in Conn
  <2>1. Append(c.down, m) \in Seq(DownMsg)
    BY ConnFields
  <2>. QED  BY <2>1 DEF Conn, SendDown
<1>4. c.up # <<>> => [c EXCEPT !.up = Tail(@)] \in Conn
  <2>1. c.up # <<>> => Tail(c.up) \in Seq(UpMsg)
    BY ConnFields
  <2>. QED  BY <2>1 DEF Conn
<1>5. c.down # <<>> => [c EXCEPT !.down = Tail(@)] \in Conn
  <2>1. c.down # <<>> => Tail(c.down) \in Seq(DownMsg)
    BY ConnFields
  <2>. QED  BY <2>1 DEF Conn
<1>6. /\ \A a \in Agents : [c EXCEPT !.learned = a] \in Conn
      /\ [c EXCEPT !.dropping = TRUE] \in Conn
  BY DEF Conn
<1>. QED  BY <1>1, <1>2, <1>3, <1>4, <1>5, <1>6

LEMMA HeadOf ==
    ASSUME TypeOK, NEW s \in Socks
    PROVE  /\ conn[s].up # <<>> => Head(conn[s].up) \in UpMsg
           /\ conn[s].down # <<>> => Head(conn[s].down) \in DownMsg
<1>1. conn[s] \in Conn
  BY DEF TypeOK
<1>. QED  BY <1>1, ConnFields

LEMMA NoMessages == <<>> \in Seq(UpMsg) /\ <<>> \in Seq(DownMsg)
OBVIOUS

LEMMA NewConnType == NoConn \in Conn /\ [NoConn EXCEPT !.client = "connecting"] \in Conn
<1>1. NoConn \in Conn
  BY NoMessages DEF NoConn, Conn
<1>. QED  BY <1>1 DEF Conn

\* A socket whose end at the control plane is gone.
LEMMA DetachedType ==
    ASSUME NEW c \in Conn
    PROVE  [c EXCEPT !.control = "none", !.agent = None, !.up = <<>>] \in Conn
BY NoMessages DEF Conn

\* The sockets of the agent's steps.
LEMMA OpenType ==
    ASSUME TypeOK, NEW cs \in [Socks -> Conn], OpenConnection(cs)
    PROVE  conn' \in [Socks -> Conn] /\ current' \in Socks /\ loop' = "waiting"
BY NewConnType DEF OpenConnection

LEMMA TakenType ==
    ASSUME TypeOK, NEW s \in Socks, conn[s].down # <<>>
    PROVE  Taken(s) \in [Socks -> Conn]
<1>1. conn[s] \in Conn /\ conn \in [Socks -> Conn]
  BY DEF TypeOK
<1>. QED  BY <1>1, SocketSteps DEF Taken

\* A socket once the process that held its end is gone.
Abandoned(c) ==
    [NoConn EXCEPT !.control = c.control, !.agent = c.agent, !.up = c.up]

LEMMA AbandonedType ==
    ASSUME NEW c \in Conn
    PROVE  /\ Abandoned(c) \in Conn
           /\ Abandoned(c).client = "none" /\ Abandoned(c).learned = None
           /\ Abandoned(c).down = <<>> /\ Abandoned(c).control = c.control
           /\ Abandoned(c).agent = c.agent /\ Abandoned(c).up = c.up
BY NewConnType, ConnFields DEF Abandoned, NoConn, Conn

LEMMA EndsAbandoned ==
    ASSUME TypeOK, NEW how, ProcessEnds(how), NEW s \in Socks
    PROVE  conn'[s] = Abandoned(conn[s])
BY DEF ProcessEnds, Abandoned

\* What the end of unlink does to the sockets: their queues and ends are as
\* they were, but for the newest, which is closed.
LEMMA UnlinkedSockets ==
    ASSUME TypeOK, NEW s \in Socks, Unlinked(s)
    PROVE  /\ saved' \in {saved, None}
           /\ \A t \in Socks : \E c \in Conn :
                  /\ c.client = conn[t].client /\ c.control = conn[t].control
                  /\ c.agent = conn[t].agent /\ c.learned = conn[t].learned
                  /\ c.up = conn[t].up /\ c.down = conn[t].down
                  /\ conn'[t] \in {c, CloseClient(c)}
           /\ conn' \in [Socks -> Conn]
<1>. DEFINE Left(done, c) == IF done /\ c.file = "open" THEN [c EXCEPT !.file = "lost"] ELSE c
            Cs(done) == [[t \in Socks |-> Left(done, conn[t])] EXCEPT ![s].dropping = FALSE]
<1>1. PICK done \in BOOLEAN : /\ saved' = IF done THEN None ELSE saved
                              /\ conn' = [Cs(done) EXCEPT ![current] = CloseClient(@)]
  BY DEF Unlinked
<1>2. ASSUME NEW t \in Socks
      PROVE  \E c \in Conn :
                 /\ c.client = conn[t].client /\ c.control = conn[t].control
                 /\ c.agent = conn[t].agent /\ c.learned = conn[t].learned
                 /\ c.up = conn[t].up /\ c.down = conn[t].down
                 /\ conn'[t] \in {c, CloseClient(c)}
  <2>0. conn[t] \in Conn
    BY DEF TypeOK
  <2>1. /\ Left(done, conn[t]) \in Conn
        /\ [Left(done, conn[t]) EXCEPT !.dropping = FALSE] \in Conn
    BY <2>0 DEF Conn
  <2>2. Cs(done)[t] \in {Left(done, conn[t]), [Left(done, conn[t]) EXCEPT !.dropping = FALSE]}
    OBVIOUS
  <2>3. PICK c \in Conn : c = Cs(done)[t]
    BY <2>1, <2>2
  <2>4. /\ c.client = conn[t].client /\ c.control = conn[t].control
        /\ c.agent = conn[t].agent /\ c.learned = conn[t].learned
        /\ c.up = conn[t].up /\ c.down = conn[t].down
    BY <2>0, <2>2, <2>3 DEF Conn
  <2>. HIDE DEF Left, Cs
  <2>5. DOMAIN Cs(done) = Socks
    BY DEF Cs
  <2>6. conn'[t] \in {c, CloseClient(c)}
    BY <1>1, <2>3, <2>5
  <2>. QED  BY <2>4, <2>6
<1>3. \A t \in Socks : conn'[t] \in Conn
  BY <1>2, SocketSteps
<1>4. conn' = [t \in Socks |-> conn'[t]]
  <2>1. Cs(done) = [t \in Socks |-> Cs(done)[t]]
    OBVIOUS
  <2>. HIDE DEF Cs
  <2>. QED  BY <1>1, <2>1
<1>5. conn' \in [Socks -> Conn]
  BY <1>3, <1>4
<1>. QED  BY <1>1, <1>2, <1>5

\* Without a pairing code an error closes the newest socket, with one it starts
\* the removal of the file.
LEMMA ErrorSockets ==
    ASSUME TypeOK, NEW s \in Socks, ReceiveError(s)
    PROVE  /\ conn[s].client # "none" /\ conn[s].down # <<>>
           /\ Head(conn[s].down).type \in Errors
           /\ \/ token' = token /\ conn' = [Taken(s) EXCEPT ![current] = CloseClient(@)]
              \/ token' = None /\ conn' = [Taken(s) EXCEPT ![s].dropping = TRUE]
           /\ UNCHANGED <<loop, stopped, current, saved, option, executing>>
BY DEF ReceiveError, Received

LEMMA ClientTypes ==
    ASSUME TypeOK, ClientStep, UNCHANGED controlVars
    PROVE  TypeOK'
<1>. USE DEF TypeOK, Loops
<1>0. \A s \in Socks : conn[s] \in Conn
  OBVIOUS
<1>r. codes' = codes /\ rows' = rows /\ attached' = attached /\ pending' = pending
  BY DEF controlVars
<1>1. ASSUME NEW c \in Codes \union {None}, Start(c) PROVE TypeOK'
  BY <1>1, <1>r, OpenType DEF Start
<1>2. CASE WakeUp
  BY <1>2, <1>r, OpenType DEF WakeUp
<1>3. CASE Stop
  BY <1>3, <1>r, <1>0, SocketSteps DEF Stop
<1>e. ASSUME NEW how \in Exits, ProcessEnds(how) PROVE TypeOK'
  <2>1. conn' = [s \in Socks |-> Abandoned(conn[s])]
    BY <1>e DEF ProcessEnds, Abandoned
  <2>2. conn' \in [Socks -> Conn]
    BY <2>1, <1>0, AbandonedType
  <2>. QED  BY <2>2, <1>e, <1>r DEF ProcessEnds, Exits
<1>4. CASE Exit
  BY <1>4, <1>e DEF Exit, Exits
<1>w. ASSUME NEW s \in Socks, WriteFails(s) PROVE TypeOK'
  BY <1>w, <1>e DEF WriteFails, Exits
<1>5. ASSUME NEW s \in Socks, Opened(s) PROVE TypeOK'
  <2>. DEFINE c == [conn[s] EXCEPT !.client = "open", !.control = "open"]
              m == IF token # None THEN [type |-> "hello", agent |-> token]
                                   ELSE [type |-> "pair", code |-> option]
  <2>1. c \in Conn
    BY <1>0 DEF Conn
  <2>2. ~(token = None /\ option = None) => m \in UpMsg
    BY UpMessages
  <2>3. CloseClient(c) \in Conn /\ (~(token = None /\ option = None) => SendUp(c, m) \in Conn)
    BY <2>1, <2>2, SocketSteps
  <2>4. \/ conn' = [conn EXCEPT ![s] = CloseClient(c)] /\ loop' = Rejected
        \/ /\ ~(token = None /\ option = None)
           /\ conn' = [conn EXCEPT ![s] = SendUp(c, m)] /\ loop' = loop
    BY <1>5 DEF Opened
  <2>5. UNCHANGED <<stopped, current, token, saved, option, executing>>
    BY <1>5 DEF Opened
  <2>. HIDE DEF c, m
  <2>. QED  BY <2>3, <2>4, <2>5, <1>r DEF Rejected
<1>6. ASSUME NEW s \in Socks, ReceivePaired(s) PROVE TypeOK'
  <2>1. conn[s].down # <<>> /\ Head(conn[s].down).type = "paired"
    BY <1>6 DEF ReceivePaired, Received
  <2>2. Head(conn[s].down).agent \in Agents
    BY <2>1, HeadOf, DownMessages
  <2>3. Taken(s) \in [Socks -> Conn]
    BY <2>1, TakenType
  <2>4. [Taken(s)[s] EXCEPT !.learned = Head(conn[s].down).agent] \in Conn
    BY <2>2, <2>3, SocketSteps
  <2>5. conn' = [Taken(s) EXCEPT ![s].learned = Head(conn[s].down).agent]
    BY <1>6 DEF ReceivePaired
  <2>. QED  BY <2>2, <2>3, <2>4, <2>5, <1>6, <1>r DEF ReceivePaired
<1>7. ASSUME NEW s \in Socks, TokenSaved(s) PROVE TypeOK'
  <2>. DEFINE cs == [conn EXCEPT ![s].learned = None, ![s].file = "shut", ![s].shaken = TRUE]
  <2>1. [conn[s] EXCEPT !.learned = None, !.file = "shut", !.shaken = TRUE] \in Conn
    BY <1>0 DEF Conn
  <2>2. cs \in [Socks -> Conn]
    BY <2>1
  <2>3. conn[s].learned \in Agents \union {None}
    BY <1>0, ConnFields
  <2>4. \/ OpenConnection(cs)
        \/ conn' = cs /\ current' = current /\ loop' \in {"ended", loop}
    BY <1>7 DEF TokenSaved
  <2>5. saved' \in {saved, conn[s].learned} /\ UNCHANGED <<stopped, token, option, executing>>
    BY <1>7 DEF TokenSaved
  <2>. HIDE DEF cs
  <2>. QED  BY <2>2, <2>3, <2>4, <2>5, <1>r, OpenType
<1>f. ASSUME NEW s \in Socks, FileOpened(s) PROVE TypeOK'
  <2>1. [conn[s] EXCEPT !.file = "open"] \in Conn
    BY <1>0 DEF Conn
  <2>. QED  BY <2>1, <1>f, <1>r DEF FileOpened
<1>8. ASSUME NEW s \in Socks, ReceiveError(s) PROVE TypeOK'
  <2>1. Taken(s) \in [Socks -> Conn]
    BY <1>8, TakenType, ErrorSockets
  <2>2. \A t \in Socks : /\ CloseClient(Taken(s)[t]) \in Conn
                          /\ [Taken(s)[t] EXCEPT !.dropping = TRUE] \in Conn
    BY <2>1, SocketSteps
  <2>3. /\ \/ token' = token /\ conn' = [Taken(s) EXCEPT ![current] = CloseClient(@)]
           \/ token' = None /\ conn' = [Taken(s) EXCEPT ![s].dropping = TRUE]
        /\ UNCHANGED <<loop, stopped, current, saved, option, executing>>
    BY <1>8, ErrorSockets
  <2>4. conn' \in [Socks -> Conn]
    <3>1. CASE conn' = [Taken(s) EXCEPT ![current] = CloseClient(@)]
      BY <3>1, <2>1, <2>2
    <3>2. CASE conn' = [Taken(s) EXCEPT ![s].dropping = TRUE]
      BY <3>2, <2>1, <2>2
    <3>. QED  BY <3>1, <3>2, <2>3
  <2>. QED  BY <2>3, <2>4, <1>r
<1>n. ASSUME NEW s \in Socks, Unlinked(s) PROVE TypeOK'
  <2>1. conn' \in [Socks -> Conn] /\ saved' \in {saved, None}
    BY <1>n, UnlinkedSockets
  <2>2. UNCHANGED <<loop, stopped, current, token, option, executing>>
    BY <1>n DEF Unlinked
  <2>. QED  BY <2>1, <2>2, <1>r
<1>9. ASSUME NEW s \in Socks, ReceiveRequest(s) PROVE TypeOK'
  <2>1. conn[s].down # <<>> /\ Head(conn[s].down).type = "request"
    BY <1>9 DEF ReceiveRequest, Received
  <2>2. Head(conn[s].down).id \in Reqs
    BY <2>1, HeadOf, DownMessages
  <2>. QED  BY <2>1, <2>2, TakenType, <1>9, <1>r DEF ReceiveRequest
<1>10. ASSUME NEW r \in Reqs, Answer(r) PROVE TypeOK'
  <2>1. CASE ProcessEnds("crashed")
    BY <2>1, <1>e DEF Exits
  <2>2. CASE /\ executing' = executing \ {r}
             /\ conn' = [conn EXCEPT ![current] = SendUp(@, [type |-> "response", id |-> r])]
             /\ UNCHANGED <<loop, stopped, current, token, saved, option>>
    BY <2>2, <1>r, <1>0, SocketSteps, UpMessages
  <2>. QED  BY <2>1, <2>2, <1>10 DEF Answer
<1>11. ASSUME NEW s \in Socks, ClientClosed(s) PROVE TypeOK'
  <2>1. [conn[s] EXCEPT !.client = "none", !.shaken = FALSE, !.down = <<>>] \in Conn
    BY <1>0, NoMessages DEF Conn
  <2>2. conn' = [conn EXCEPT ![s] = [@ EXCEPT !.client = "none", !.shaken = FALSE, !.down = <<>>]]
    BY <1>11 DEF ClientClosed
  <2>3. loop' \in {loop, "ended", "sleeping"}
    BY <1>11 DEF ClientClosed, Rejected
  <2>. QED  BY <2>1, <2>2, <2>3, <1>11, <1>r DEF ClientClosed
<1>. QED  BY <1>1, <1>2, <1>3, <1>4, <1>5, <1>6, <1>7, <1>8, <1>9, <1>10, <1>11, <1>f, <1>n, <1>w
          DEF ClientStep, ClientSocketStep

\* The sockets of the control plane's steps.
LEMMA TakeUpType ==
    ASSUME TypeOK, NEW s \in Socks, conn[s].up # <<>>
    PROVE  /\ Rest(s) \in Conn
           /\ \A a \in Agents : [Rest(s) EXCEPT !.agent = a] \in Conn
<1>1. conn[s] \in Conn
  BY DEF TypeOK
<1>2. Rest(s) \in Conn
  BY <1>1, SocketSteps DEF Rest
<1>. QED  BY <1>2 DEF Conn

LEMMA ThrownType ==
    ASSUME NEW c \in Conn, NEW type \in Errors
    PROVE  /\ Thrown(c, type) \in Conn
           /\ Thrown(c, type).client = c.client /\ Thrown(c, type).learned = c.learned
           /\ Thrown(c, type).agent = c.agent /\ Thrown(c, type).up = c.up
           /\ Thrown(c, type).control = IF c.control = "open" THEN "closing" ELSE c.control
           /\ Thrown(c, type).down = IF c.control = "open" /\ c.client # "none"
                                       THEN Append(c.down, [type |-> type]) ELSE c.down
<1>. DEFINE m == [type |-> type]
            d == SendDown(c, m)
<1>1. m \in DownMsg
  BY DEF DownMsg
<1>2. d \in Conn
  BY <1>1, SocketSteps
<1>3. /\ d.client = c.client /\ d.learned = c.learned /\ d.agent = c.agent /\ d.up = c.up
      /\ d.control = c.control
      /\ d.down = IF c.control = "open" /\ c.client # "none" THEN Append(c.down, m) ELSE c.down
  BY DEF SendDown, Conn
<1>. HIDE DEF d
<1>4. CloseControl(d) \in Conn
  BY <1>2, SocketSteps
<1>5. /\ CloseControl(d).client = d.client /\ CloseControl(d).learned = d.learned
      /\ CloseControl(d).agent = d.agent /\ CloseControl(d).up = d.up
      /\ CloseControl(d).down = d.down
      /\ CloseControl(d).control = IF d.control = "open" THEN "closing" ELSE d.control
  BY <1>2 DEF CloseControl, Conn
<1>6. Thrown(c, type) = CloseControl(d)
  BY DEF Thrown, d
<1>. QED  BY <1>3, <1>4, <1>5, <1>6

LEMMA RefuseType ==
    ASSUME TypeOK, NEW s \in Socks, conn[s].up # <<>>, Refuse(s)
    PROVE  conn' \in [Socks -> Conn]
BY TakeUpType, ThrownType DEF Refuse, TypeOK, Errors

\* The two ways attach ends.
LEMMA AttachForms ==
    ASSUME NEW s \in Socks, NEW a \in Agents, Attach(s, a)
    PROVE  /\ \/ conn'[s] = SendDown([Rest(s) EXCEPT !.agent = a], [type |-> "paired", agent |-> a])
              \/ GatewayFails /\ conn'[s] = Thrown([Rest(s) EXCEPT !.agent = a], "failure")
           /\ \A t \in Socks \ {s} :
                  conn'[t] = IF t = attached[a] THEN CloseControl(conn[t]) ELSE conn[t]
           /\ attached' = [attached EXCEPT ![a] = s]
<1>. DEFINE c == [Rest(s) EXCEPT !.agent = a]
            told == SendDown(c, [type |-> "paired", agent |-> a])
            thrown == Thrown(c, "failure")
<1>1. PICK reply \in {told} \union (IF GatewayFails THEN {thrown} ELSE {}) :
          conn' = [t \in Socks |-> IF t = s THEN reply
                                   ELSE IF t = attached[a] THEN CloseControl(conn[t]) ELSE conn[t]]
  BY DEF Attach
<1>2. reply = told \/ (GatewayFails /\ reply = thrown)
  BY <1>1
<1>. HIDE DEF told, thrown
<1>3. conn'[s] = reply
      /\ \A t \in Socks \ {s} :
             conn'[t] = IF t = attached[a] THEN CloseControl(conn[t]) ELSE conn[t]
  BY <1>1
<1>4. attached' = [attached EXCEPT ![a] = s]
  BY DEF Attach
<1>. QED  BY <1>2, <1>3, <1>4 DEF told, thrown

LEMMA AttachType ==
    ASSUME TypeOK, NEW s \in Socks, NEW a \in Agents, conn[s].up # <<>>, Attach(s, a)
    PROVE  conn' \in [Socks -> Conn] /\ attached' \in [Agents -> Socks \union {None}]
<1>. DEFINE d == [Rest(s) EXCEPT !.agent = a]
            m == [type |-> "paired", agent |-> a]
<1>1. d \in Conn /\ m \in DownMsg /\ "failure" \in Errors
  BY TakeUpType, DownMessages DEF Errors
<1>2. PICK reply \in {SendDown(d, m)} \union (IF GatewayFails THEN {Thrown(d, "failure")} ELSE {}) :
          conn' = [t \in Socks |-> IF t = s THEN reply
                                   ELSE IF t = attached[a] THEN CloseControl(conn[t]) ELSE conn[t]]
  BY DEF Attach
<1>. HIDE DEF d, m
<1>a. SendDown(d, m) \in Conn
  BY <1>1, SocketSteps
<1>b. Thrown(d, "failure") \in Conn
  BY <1>1, ThrownType
<1>3. reply \in Conn
  BY <1>a, <1>b, <1>2
<1>4. \A t \in Socks : conn[t] \in Conn /\ CloseControl(conn[t]) \in Conn
  BY SocketSteps DEF TypeOK
<1>5. conn' \in [Socks -> Conn]
  BY <1>2, <1>3, <1>4
<1>6. attached' = [attached EXCEPT ![a] = s]
  BY DEF Attach
<1>. QED  BY <1>5, <1>6 DEF TypeOK

LEMMA ControlTypes ==
    ASSUME TypeOK, ControlStep, UNCHANGED clientVars
    PROVE  TypeOK'
<1>. USE DEF TypeOK
<1>0. \A s \in Socks : conn[s] \in Conn /\ CloseControl(conn[s]) \in Conn
  BY SocketSteps
<1>r. UNCHANGED <<loop, stopped, current, token, saved, option, executing>>
  BY DEF clientVars
<1>1. ASSUME NEW c \in Codes, CreateCode(c) \/ CodeExpires(c) PROVE TypeOK'
  BY <1>1, <1>r DEF CreateCode, CodeExpires
<1>2. ASSUME NEW s \in Socks, TakePair(s) PROVE TypeOK'
  BY <1>2, <1>r, AttachType, RefuseType DEF TakePair, Arrived
<1>3. ASSUME NEW s \in Socks, TakeHello(s) PROVE TypeOK'
  <2>1. conn[s].up # <<>> /\ Head(conn[s].up).type = "hello"
    BY <1>3 DEF TakeHello, Arrived
  <2>2. Head(conn[s].up).agent \in Agents
    BY <2>1, HeadOf, UpMessages
  <2>. QED  BY <2>1, <2>2, <1>3, <1>r, AttachType, RefuseType DEF TakeHello
<1>4. ASSUME NEW s \in Socks, TakeResponse(s) PROVE TypeOK'
  <2>1. conn[s].up # <<>>
    BY <1>4 DEF TakeResponse, Arrived
  <2>2. conn' \in [Socks -> Conn]
    BY <2>1, <1>4, TakeUpType, RefuseType DEF TakeResponse
  <2>3. pending' \in [Reqs -> Agents \union {None}]
    BY <1>4 DEF TakeResponse
  <2>. QED  BY <2>2, <2>3, <1>4, <1>r DEF TakeResponse
<1>5. ASSUME NEW s \in Socks, ControlClosed(s) PROVE TypeOK'
  <2>1. [conn[s] EXCEPT !.control = "none", !.agent = None, !.up = <<>>] \in Conn
    BY <1>0, DetachedType
  <2>2. conn' \in [Socks -> Conn]
    BY <2>1, <1>5 DEF ControlClosed
  <2>3. attached' \in [Agents -> Socks \union {None}]
    BY <1>5 DEF ControlClosed, Detached
  <2>. QED  BY <2>2, <2>3, <1>5, <1>r DEF ControlClosed
<1>6. ASSUME NEW a \in Agents, Revoke(a) PROVE TypeOK'
  BY <1>6, <1>r, <1>0 DEF Revoke
<1>7. ASSUME NEW r \in Reqs, NEW a \in Agents, Request(r, a) PROVE TypeOK'
  <2>1. attached[a] \in Socks
    BY <1>7 DEF Request
  <2>2. SendDown(conn[attached[a]], [type |-> "request", id |-> r]) \in Conn
    BY <2>1, <1>0, SocketSteps, DownMessages
  <2>3. /\ conn' = [conn EXCEPT ![attached[a]] = SendDown(@, [type |-> "request", id |-> r])]
        /\ pending' = [pending EXCEPT ![r] = a] /\ UNCHANGED <<codes, rows, attached>>
    BY <1>7 DEF Request
  <2>4. conn' \in [Socks -> Conn] /\ pending' \in [Reqs -> Agents \union {None}]
    BY <2>1, <2>2, <2>3
  <2>5. UNCHANGED <<codes, rows, attached>>
    BY <1>7 DEF Request
  <2>. QED  BY <2>4, <2>5, <1>r
<1>8. ASSUME NEW r \in Reqs, Timeout(r) PROVE TypeOK'
  BY <1>8, <1>r DEF Timeout
<1>f. ASSUME NEW s \in Socks, Fails(s) PROVE TypeOK'
  <2>1. Thrown(Rest(s), "failure") \in Conn
    BY <1>f, TakeUpType, ThrownType DEF Fails, Errors
  <2>2. conn' = [conn EXCEPT ![s] = Thrown(Rest(s), "failure")]
        /\ UNCHANGED <<rows, attached, pending>>
    BY <1>f DEF Fails
  <2>3. codes' \in [Codes -> {"none", "valid", "gone"}]
    BY <1>f DEF Fails
  <2>. QED  BY <2>1, <2>2, <2>3, <1>r
<1>9. CASE ControlRestart
  <2>1. ASSUME NEW s \in Socks
        PROVE  [conn[s] EXCEPT !.control = "none", !.agent = None, !.up = <<>>] \in Conn
    BY <1>0, DetachedType
  <2>. QED  BY <2>1, <1>9, <1>r DEF ControlRestart
<1>. QED  BY <1>1, <1>2, <1>3, <1>4, <1>5, <1>6, <1>7, <1>8, <1>9, <1>f
          DEF ControlStep, ControlSocketStep

LEMMA AgentInitTypes == Init => TypeOK
<1>1. [s \in Socks |-> NoConn] \in [Socks -> Conn]
  BY NewConnType
<1>. QED  BY <1>1 DEF Init, TypeOK, Loops, Exits

LEMMA AgentStepTypes == TypeOK /\ [Next]_vars => TypeOK'
<1>1. CASE UNCHANGED vars
  BY <1>1 DEF TypeOK, vars
<1>. QED  BY <1>1, ClientTypes, ControlTypes DEF Next

(* AgentClient, AgentGateway, AgentRegistry, PairingService: every field, table
   and message has its type in every reachable state. *)
THEOREM AgentTypeCorrect == Spec => []TypeOK
BY AgentInitTypes, AgentStepTypes, PTL DEF Spec

-----------------------------------------------------------------------------
(* Sockets are orderly: what each step does to one. *)

LEMMA ClosesOrderly ==
    ASSUME NEW c \in Conn, Orderly(c)
    PROVE  Orderly(CloseClient(c)) /\ Orderly(CloseControl(c))
BY DEF Orderly, CloseClient, CloseControl, Conn

LEMMA NewOrderly == Orderly(NoConn) /\ Orderly([NoConn EXCEPT !.client = "connecting"])
BY DEF Orderly, NoConn

LEMMA AbandonedOrderly ==
    ASSUME NEW c \in Conn, Orderly(c) PROVE Orderly(Abandoned(c))
BY AbandonedType DEF Orderly

LEMMA ResponseOrderly ==
    ASSUME NEW c \in Conn, Orderly(c), NEW r \in Reqs
    PROVE  Orderly(SendUp(c, [type |-> "response", id |-> r]))
<1>. DEFINE m == [type |-> "response", id |-> r]
            d == SendUp(c, m)
<1>1. m \in UpMsg /\ m.type \notin Intros
  BY UpMessages DEF Intros
<1>2. CASE ~(c.client = "open" /\ c.control # "none")
  BY <1>2 DEF SendUp
<1>3. CASE c.client = "open" /\ c.control # "none"
  <2>1. d = [c EXCEPT !.up = Append(c.up, m)]
    BY <1>3 DEF SendUp
  <2>. HIDE DEF m, d
  <2>2. /\ d.client = c.client /\ d.control = c.control /\ d.agent = c.agent
        /\ d.down = c.down /\ d.up = Append(c.up, m) /\ c.up \in Seq(UpMsg)
    BY <2>1 DEF Conn
  <2>3. ASSUME NEW i \in DOMAIN d.up, d.up[i].type \in Intros
        PROVE  i \in DOMAIN c.up /\ d.up[i] = c.up[i]
    BY <2>2, <2>3, <1>1
  <2>4. c.up # <<>> => d.up[1] = c.up[1]
    BY <2>2, <1>1
  <2>5. ASSUME d.control = "open", d.agent = None PROVE d.up # <<>> /\ d.up[1].type \in Intros
    BY <2>2, <2>4, <2>5, <1>1, <1>3 DEF Orderly
  <2>6. Orderly(d)
    BY <2>2, <2>3, <2>5, <1>3 DEF Orderly
  <2>. QED  BY <2>6 DEF d, m
<1>. QED  BY <1>2, <1>3

LEMMA RequestOrderly ==
    ASSUME NEW c \in Conn, Orderly(c), c.agent # None, NEW r \in Reqs
    PROVE  Orderly(SendDown(c, [type |-> "request", id |-> r]))
<1>. DEFINE m == [type |-> "request", id |-> r]
            d == SendDown(c, m)
<1>1. m \in DownMsg /\ m.type \notin Replies /\ m.type # "failure"
  BY DownMessages DEF Replies
<1>2. CASE ~(c.control = "open" /\ c.client # "none")
  BY <1>2 DEF SendDown
<1>3. CASE c.control = "open" /\ c.client # "none"
  <2>1. d = [c EXCEPT !.down = Append(c.down, m)]
    BY <1>3 DEF SendDown
  <2>. HIDE DEF m, d
  <2>2. /\ d.client = c.client /\ d.control = c.control /\ d.agent = c.agent
        /\ d.up = c.up /\ d.down = Append(c.down, m) /\ c.down \in Seq(DownMsg)
    BY <2>1 DEF Conn
  <2>3. ASSUME NEW i \in DOMAIN d.down, d.down[i].type \in Replies \union {"failure"}
        PROVE  i \in DOMAIN c.down /\ d.down[i] = c.down[i]
    BY <2>2, <2>3, <1>1
  <2>4. Orderly(d)
    BY <2>2, <2>3, <1>3 DEF Orderly
  <2>. QED  BY <2>4 DEF d, m
<1>. QED  BY <1>2, <1>3

\* The next message taken at each end.
LEMMA TakenOrderly ==
    ASSUME NEW c \in Conn, Orderly(c), c.down # <<>>
    PROVE  /\ Orderly([c EXCEPT !.down = Tail(@)])
           /\ \A i \in DOMAIN Tail(c.down) : Tail(c.down)[i].type \notin Replies
           /\ Head(c.down).type = "failure" => GatewayFails
<1>1. c.down \in Seq(DownMsg)
  BY ConnFields
<1>2. ASSUME NEW i \in DOMAIN Tail(c.down)
      PROVE  i + 1 \in DOMAIN c.down /\ i + 1 # 1 /\ Tail(c.down)[i] = c.down[i + 1]
  BY <1>1
<1>3. \A i \in DOMAIN Tail(c.down) : /\ Tail(c.down)[i].type \notin Replies
                                      /\ Tail(c.down)[i].type = "failure" => GatewayFails
  BY <1>2 DEF Orderly
<1>4. 1 \in DOMAIN c.down /\ Head(c.down) = c.down[1]
  BY <1>1
<1>. QED  BY <1>3, <1>4 DEF Orderly, Conn

LEMMA RestHasNoIntro ==
    ASSUME NEW c \in Conn, Orderly(c), c.up # <<>>
    PROVE  \A i \in DOMAIN Tail(c.up) : Tail(c.up)[i].type \notin Intros
<1>1. c.up \in Seq(UpMsg)
  BY ConnFields
<1>2. ASSUME NEW i \in DOMAIN Tail(c.up)
      PROVE  i + 1 \in DOMAIN c.up /\ i + 1 # 1 /\ Tail(c.up)[i] = c.up[i + 1]
  BY <1>1
<1>. QED  BY <1>2 DEF Orderly

LEMMA RestOrderly ==
    ASSUME NEW c \in Conn, Orderly(c), c.up # <<>>, c.agent # None
    PROVE  Orderly([c EXCEPT !.up = Tail(@)])
BY RestHasNoIntro DEF Orderly, Conn

\* An introduction is the first message, from an agent the registry has not met.
LEMMA IntroFirst ==
    ASSUME TypeOK, NEW s \in Socks, Orderly(conn[s]), HasIntro(conn[s])
    PROVE  conn[s].agent = None /\ conn[s].down = <<>>
<1>1. conn[s].up \in Seq(UpMsg)
  BY ConnFields DEF TypeOK
<1>2. 1 \in DOMAIN conn[s].up /\ Head(conn[s].up) = conn[s].up[1]
  BY <1>1 DEF HasIntro
<1>. QED  BY <1>2 DEF Orderly, HasIntro

LEMMA ReplyFirst ==
    ASSUME TypeOK, NEW s \in Socks, Orderly(conn[s]), HasReply(conn[s])
    PROVE  \A i \in DOMAIN conn[s].up : conn[s].up[i].type \notin Intros
BY DEF Orderly, HasReply

LEMMA RefuseOrderly ==
    ASSUME NEW c \in Conn, Orderly(c), c.up # <<>>, c.agent = None,
           c.control = "closing" \/ Head(c.up).type \in Intros
    PROVE  Orderly(Thrown([c EXCEPT !.up = Tail(@)], "error"))
<1>. DEFINE e == [type |-> "error"]
            r == [c EXCEPT !.up = Tail(@)]
            d == Thrown(r, "error")
<1>0. /\ r.client = c.client /\ r.control = c.control /\ r.agent = c.agent
      /\ r.up = Tail(c.up) /\ r.down = c.down
  BY DEF Conn
<1>r. r \in Conn /\ e.type = "error"
  BY SocketSteps
<1>. HIDE DEF r
<1>1. /\ d.client = c.client /\ d.agent = None /\ d.up = Tail(c.up)
      /\ d.control = IF c.control = "open" THEN "closing" ELSE c.control
      /\ d.down = IF c.control = "open" /\ c.client # "none" THEN Append(c.down, e) ELSE c.down
  BY <1>0, <1>r, ThrownType DEF Errors
<1>. HIDE DEF e
<1>2. c.control = "open" => c.down = <<>>
  <2>1. c.up \in Seq(UpMsg)
    BY ConnFields
  <2>2. 1 \in DOMAIN c.up /\ Head(c.up) = c.up[1]
    BY <2>1
  <2>. QED  BY <2>2 DEF Orderly
<1>n. Append(<<>>, e) = <<e>>
  OBVIOUS
<1>3. d.down = c.down \/ d.down = <<e>>
  BY <1>1, <1>2, <1>n
<1>4. \A i \in DOMAIN d.down : /\ d.down[i].type \in Replies => i = 1
                               /\ d.down[i].type = "failure" => GatewayFails
  BY <1>3, <1>r DEF Orderly
<1>5. \A i \in DOMAIN d.up : d.up[i].type \notin Intros
  BY <1>1, RestHasNoIntro
<1>6. d.control # "open"
  BY <1>1, ConnFields
<1>7. d.client \in {"none", "connecting"} => d.down = <<>>
  BY <1>1, <1>0 DEF Orderly
<1>8. c.control # "none"
  BY DEF Orderly
<1>. HIDE DEF d
<1>9. Orderly(d)
  BY <1>1, <1>4, <1>5, <1>6, <1>7, <1>8 DEF Orderly
<1>. QED  BY <1>9 DEF d, r

\* A failure may be told at any time; the agent may have been attached before.
LEMMA FailureOrderly ==
    ASSUME NEW c \in Conn, Orderly(c), c.up # <<>>, GatewayFails, NEW r \in Conn,
           r.client = c.client, r.control = c.control, r.up = Tail(c.up), r.down = c.down
    PROVE  Orderly(Thrown(r, "failure"))
<1>. DEFINE e == [type |-> "failure"]
            d == Thrown(r, "failure")
<1>1. /\ d.client = c.client /\ d.up = Tail(c.up)
      /\ d.control = IF c.control = "open" THEN "closing" ELSE c.control
      /\ d.down = IF c.control = "open" /\ c.client # "none" THEN Append(c.down, e) ELSE c.down
  BY ThrownType DEF Errors
<1>e. e.type \notin Replies /\ e \in DownMsg
  BY DownMessages DEF Replies
<1>d. c.down \in Seq(DownMsg)
  BY ConnFields
<1>. HIDE DEF d, e
<1>2. ASSUME NEW i \in DOMAIN d.down, d.down[i].type \in Replies PROVE i = 1
  <2>1. CASE i \in DOMAIN c.down /\ d.down[i] = c.down[i]
    BY <2>1, <1>2 DEF Orderly
  <2>2. CASE ~(i \in DOMAIN c.down /\ d.down[i] = c.down[i])
    <3>1. d.down = Append(c.down, e)
      BY <2>2, <1>1
    <3>2. d.down[i] = e
      BY <3>1, <2>2, <1>d, <1>e
    <3>. QED  BY <3>2, <1>2, <1>e
  <2>. QED  BY <2>1, <2>2
<1>3. \A i \in DOMAIN d.up : d.up[i].type \notin Intros
  BY <1>1, RestHasNoIntro
<1>4. d.control \notin {"open", "none"}
  BY <1>1, ConnFields DEF Orderly
<1>5. d.client \in {"none", "connecting"} => d.down = <<>>
  BY <1>1 DEF Orderly
<1>6. d.client = "connecting" => d.control = "none"
  BY <1>1 DEF Orderly
<1>7. Orderly(d)
  BY <1>2, <1>3, <1>4, <1>5, <1>6 DEF Orderly
<1>. QED  BY <1>7 DEF d

LEMMA AttachOrderly ==
    ASSUME NEW c \in Conn, Orderly(c), c.up # <<>>, Head(c.up).type \in Intros, NEW a \in Agents
    PROVE  Orderly(SendDown([[c EXCEPT !.up = Tail(@)] EXCEPT !.agent = a],
                            [type |-> "paired", agent |-> a]))
<1>. DEFINE e == [type |-> "paired", agent |-> a]
            r == [[c EXCEPT !.up = Tail(@)] EXCEPT !.agent = a]
            d == SendDown(r, e)
<1>0. /\ r.client = c.client /\ r.control = c.control /\ r.agent = a
      /\ r.up = Tail(c.up) /\ r.down = c.down /\ e \in DownMsg
  BY DownMessages DEF Conn
<1>r. r \in Conn
  BY SocketSteps DEF Conn
<1>p. e.type = "paired"
  OBVIOUS
<1>. HIDE DEF r, e
<1>1. /\ d.client = c.client /\ d.agent = a /\ d.up = Tail(c.up)
      /\ d.control = c.control
      /\ d.down = IF c.control = "open" /\ c.client # "none" THEN Append(c.down, e) ELSE c.down
  BY <1>0, <1>r DEF SendDown, Conn
<1>2. c.down = <<>> /\ c.control # "none"
  <2>1. c.up \in Seq(UpMsg)
    BY ConnFields
  <2>2. 1 \in DOMAIN c.up /\ Head(c.up) = c.up[1]
    BY <2>1
  <2>. QED  BY <2>2 DEF Orderly
<1>3. d.down = <<>> \/ (c.control = "open" /\ c.client # "none" /\ d.down = <<e>>)
  BY <1>1, <1>2
<1>4. \A i \in DOMAIN d.down : /\ d.down[i].type \in Replies => i = 1
                               /\ d.down[i].type = "failure" => GatewayFails
  BY <1>3, <1>p
<1>5. \A i \in DOMAIN d.up : d.up[i].type \notin Intros
  BY <1>1, RestHasNoIntro
<1>6. d.agent # None
  BY <1>1
<1>7. d.client \in {"none", "connecting"} => d.down = <<>>
  BY <1>1, <1>2, <1>3 DEF Orderly
<1>. HIDE DEF d
<1>8. Orderly(d)
  BY <1>1, <1>2, <1>4, <1>5, <1>6, <1>7 DEF Orderly
<1>. QED  BY <1>8 DEF d, r, e

-----------------------------------------------------------------------------
(* The registry. *)

\* A step of the agent: the control plane's end stays, unless it has just opened.
EndStays(t) ==
    /\ conn'[t].agent = conn[t].agent
    /\ conn[t].agent # None => conn'[t].control = conn[t].control

LEMMA OpenOrderly ==
    ASSUME TypeOK, SocketsOrderly, NEW cs \in [Socks -> Conn], OpenConnection(cs),
           \A t \in Socks : /\ Orderly(cs[t]) /\ cs[t].agent = conn[t].agent
                            /\ cs[t].control = conn[t].control
    PROVE  \A t \in Socks : Orderly(conn'[t]) /\ EndStays(t)
<1>1. PICK s \in Socks : Unused(s) /\ conn' = [cs EXCEPT ![s] = [NoConn EXCEPT !.client = "connecting"]]
  BY DEF OpenConnection
<1>2. conn'[s] = [NoConn EXCEPT !.client = "connecting"] /\ conn'[s].agent = None
  BY <1>1 DEF NoConn
<1>3. conn[s].agent = None
  BY <1>1 DEF Unused, SocketsOrderly, Orderly
<1>4. \A t \in Socks \ {s} : conn'[t] = cs[t]
  BY <1>1
<1>. QED  BY <1>2, <1>3, <1>4, NewOrderly DEF EndStays

LEMMA OpenedOrderly ==
    ASSUME TypeOK, SocketsOrderly, NEW s \in Socks, Opened(s)
    PROVE  Orderly(conn'[s]) /\ conn[s].agent = None /\ conn'[s].agent = None
<1>0. conn[s] \in Conn /\ conn \in [Socks -> Conn]
  BY DEF TypeOK
<1>1. /\ conn[s].client = "connecting" /\ conn[s].control = "none" /\ conn[s].up = <<>>
      /\ conn[s].down = <<>> /\ conn[s].agent = None
  BY DEF Opened, SocketsOrderly, Orderly
<1>. DEFINE c == [conn[s] EXCEPT !.client = "open", !.control = "open"]
            m == IF token # None THEN [type |-> "hello", agent |-> token]
                                 ELSE [type |-> "pair", code |-> option]
<1>2. m.type \in Intros
  BY DEF Intros
<1>3. conn'[s] = CloseClient(c) \/ conn'[s] = SendUp(c, m)
  BY <1>0 DEF Opened
<1>4. /\ c.client = "open" /\ c.control = "open" /\ c.up = <<>> /\ c.down = <<>>
      /\ c.agent = None /\ c \in Conn
  BY <1>0, <1>1 DEF Conn
<1>. HIDE DEF c, m
<1>5. CASE conn'[s] = CloseClient(c)
  <2>1. conn'[s] = [c EXCEPT !.client = "closing"]
    BY <1>4, <1>5 DEF CloseClient
  <2>2. /\ conn'[s].client = "closing" /\ conn'[s].control = "open" /\ conn'[s].up = <<>>
        /\ conn'[s].down = <<>> /\ conn'[s].agent = None
    BY <2>1, <1>4 DEF Conn
  <2>. QED  BY <2>2, <1>1 DEF Orderly
<1>6. CASE conn'[s] = SendUp(c, m)
  <2>1. conn'[s] = [c EXCEPT !.up = Append(<<>>, m)]
    BY <1>4, <1>6 DEF SendUp
  <2>2. Append(<<>>, m) = <<m>>
    OBVIOUS
  <2>3. /\ conn'[s].up = <<m>> /\ conn'[s].client = "open" /\ conn'[s].control = "open"
        /\ conn'[s].down = <<>> /\ conn'[s].agent = None
    BY <1>4, <2>1, <2>2 DEF Conn
  <2>. QED  BY <2>3, <1>1, <1>2 DEF Orderly
<1>. QED  BY <1>1, <1>3, <1>5, <1>6

LEMMA ClientOrderly ==
    ASSUME TypeOK, SocketsOrderly, ClientStep
    PROVE  \A t \in Socks : Orderly(conn'[t]) /\ EndStays(t)
<1>0. conn \in [Socks -> Conn] /\ \A t \in Socks : conn[t] \in Conn /\ Orderly(conn[t])
  BY DEF TypeOK, SocketsOrderly
<1>. DEFINE Goal == \A t \in Socks : Orderly(conn'[t]) /\ EndStays(t)
<1>u. ASSUME conn' = conn PROVE Goal
  BY <1>0, <1>u DEF EndStays
<1>c. ASSUME NEW s \in Socks, conn' = [conn EXCEPT ![s] = CloseClient(@)] PROVE Goal
  <2>1. Orderly(CloseClient(conn[s])) /\ CloseClient(conn[s]).agent = conn[s].agent
        /\ CloseClient(conn[s]).control = conn[s].control
    BY <1>0, ClosesOrderly DEF CloseClient, Conn
  <2>. QED  BY <1>0, <1>c, <2>1 DEF EndStays
<1>1. ASSUME NEW c \in Codes \union {None}, Start(c) PROVE Goal
  BY <1>0, <1>1, OpenOrderly DEF Start
<1>2. CASE WakeUp
  BY <1>0, <1>2, <1>u, OpenOrderly DEF WakeUp
<1>3. CASE Stop
  <2>1. conn' = [conn EXCEPT ![current] = CloseClient(@)]
    BY <1>3 DEF Stop
  <2>2. CASE current \in Socks
    BY <2>1, <2>2, <1>c
  <2>3. CASE current \notin Socks
    BY <2>1, <2>3, <1>0, <1>u
  <2>. QED  BY <2>2, <2>3
<1>e. ASSUME NEW how, ProcessEnds(how) PROVE Goal
  <2>. SUFFICES ASSUME NEW t \in Socks PROVE Orderly(conn'[t]) /\ EndStays(t)
    OBVIOUS
  <2>. QED  BY <1>0, <1>e, EndsAbandoned, AbandonedOrderly, AbandonedType DEF EndStays
<1>4. CASE Exit
  BY <1>4, <1>e DEF Exit
<1>w. ASSUME NEW s \in Socks, WriteFails(s) PROVE Goal
  BY <1>w, <1>e DEF WriteFails
<1>5. ASSUME NEW s \in Socks, Opened(s) PROVE Goal
  <2>1. \A t \in Socks \ {s} : conn'[t] = conn[t]
    BY <1>5, <1>0 DEF Opened
  <2>. QED  BY <2>1, <1>0, <1>5, OpenedOrderly DEF EndStays
<1>t. ASSUME NEW s \in Socks, conn[s].down # <<>>
      PROVE  /\ Taken(s) \in [Socks -> Conn]
             /\ \A t \in Socks : /\ Orderly(Taken(s)[t]) /\ Taken(s)[t].agent = conn[t].agent
                                 /\ Taken(s)[t].control = conn[t].control
  <2>1. Taken(s) \in [Socks -> Conn]
    BY <1>t, TakenType
  <2>2. Taken(s)[s] = [conn[s] EXCEPT !.down = Tail(@)] /\ \A t \in Socks \ {s} : Taken(s)[t] = conn[t]
    BY <1>0 DEF Taken
  <2>3. Orderly(Taken(s)[s]) /\ Taken(s)[s].agent = conn[s].agent /\ Taken(s)[s].control = conn[s].control
    BY <2>2, <1>0, <1>t, TakenOrderly DEF Conn
  <2>. QED  BY <2>1, <2>2, <2>3, <1>0
<1>6. ASSUME NEW s \in Socks, ReceivePaired(s) PROVE Goal
  <2>. DEFINE a == Head(conn[s].down).agent
  <2>0. conn[s].down # <<>>
    BY <1>6 DEF ReceivePaired, Received
  <2>1. conn' = [Taken(s) EXCEPT ![s].learned = a]
    BY <1>6 DEF ReceivePaired
  <2>. HIDE DEF a
  <2>2. conn'[s] = [Taken(s)[s] EXCEPT !.learned = a] /\ \A t \in Socks \ {s} : conn'[t] = Taken(s)[t]
    BY <2>1, <2>0, <1>t
  <2>3. /\ conn'[s].agent = Taken(s)[s].agent /\ conn'[s].control = Taken(s)[s].control
        /\ conn'[s].client = Taken(s)[s].client
        /\ conn'[s].up = Taken(s)[s].up /\ conn'[s].down = Taken(s)[s].down
    BY <2>2, <2>0, <1>t DEF Conn
  <2>4. Orderly(conn'[s])
    BY <2>3, <2>0, <1>t DEF Orderly
  <2>5. EndStays(s)
    BY <2>3, <2>0, <1>t DEF EndStays
  <2>6. ASSUME NEW t \in Socks \ {s} PROVE Orderly(conn'[t]) /\ EndStays(t)
    BY <2>2, <2>0, <1>t DEF EndStays
  <2>. QED  BY <2>4, <2>5, <2>6
<1>7. ASSUME NEW s \in Socks, TokenSaved(s) PROVE Goal
  <2>. DEFINE cs == [conn EXCEPT ![s].learned = None, ![s].file = "shut", ![s].shaken = TRUE]
  <2>1. cs[s] = [conn[s] EXCEPT !.learned = None, !.file = "shut", !.shaken = TRUE] /\ \A t \in Socks \ {s} : cs[t] = conn[t]
    BY <1>0
  <2>b. [conn[s] EXCEPT !.learned = None, !.file = "shut", !.shaken = TRUE] \in Conn
    BY <1>0 DEF Conn
  <2>a. cs[s] \in Conn
    BY <2>1, <2>b
  <2>2. cs \in [Socks -> Conn]
    BY <1>0, <2>1, <2>a
  <2>3. /\ cs[s].agent = conn[s].agent /\ cs[s].control = conn[s].control
        /\ cs[s].client = conn[s].client
        /\ cs[s].up = conn[s].up /\ cs[s].down = conn[s].down
    BY <2>1, <1>0 DEF Conn
  <2>4. OpenConnection(cs) \/ conn' = cs
    BY <1>7 DEF TokenSaved
  <2>. HIDE DEF cs
  <2>5. Orderly(cs[s])
    BY <2>3, <1>0 DEF Orderly
  <2>6. \A t \in Socks : Orderly(cs[t]) /\ cs[t].agent = conn[t].agent /\ cs[t].control = conn[t].control
    BY <2>1, <2>3, <2>5, <1>0
  <2>. QED  BY <2>2, <2>4, <2>6, OpenOrderly DEF EndStays
<1>f. ASSUME NEW s \in Socks, FileOpened(s) PROVE Goal
  <2>1. conn'[s] = [conn[s] EXCEPT !.file = "open"] /\ \A t \in Socks \ {s} : conn'[t] = conn[t]
    BY <1>f, <1>0 DEF FileOpened
  <2>2. /\ conn'[s].agent = conn[s].agent /\ conn'[s].control = conn[s].control
        /\ conn'[s].client = conn[s].client
        /\ conn'[s].up = conn[s].up /\ conn'[s].down = conn[s].down
    BY <2>1, <1>0 DEF Conn
  <2>3. Orderly(conn'[s])
    BY <2>2, <1>0 DEF Orderly
  <2>. QED  BY <2>1, <2>2, <2>3, <1>0 DEF EndStays
<1>n. ASSUME NEW s \in Socks, Unlinked(s) PROVE Goal
  <2>. SUFFICES ASSUME NEW t \in Socks PROVE Orderly(conn'[t]) /\ EndStays(t)
    OBVIOUS
  <2>1. PICK c \in Conn : /\ c.client = conn[t].client /\ c.control = conn[t].control
                          /\ c.agent = conn[t].agent /\ c.learned = conn[t].learned
                          /\ c.up = conn[t].up /\ c.down = conn[t].down
                          /\ conn'[t] \in {c, CloseClient(c)}
    BY <1>n, UnlinkedSockets
  <2>2. Orderly(c)
    BY <2>1, <1>0 DEF Orderly
  <2>3. /\ Orderly(CloseClient(c)) /\ CloseClient(c).agent = c.agent
        /\ CloseClient(c).control = c.control
    BY <2>2, ClosesOrderly DEF CloseClient, Conn
  <2>. QED  BY <2>1, <2>2, <2>3 DEF EndStays
<1>8. ASSUME NEW s \in Socks, ReceiveError(s) PROVE Goal
  <2>0. conn[s].down # <<>>
    BY <1>8, ErrorSockets
  <2>1. \/ conn' = [Taken(s) EXCEPT ![current] = CloseClient(@)]
        \/ conn' = [Taken(s) EXCEPT ![s].dropping = TRUE]
    BY <1>8, ErrorSockets
  <2>2. ASSUME NEW t \in Socks
        PROVE  conn'[t] \in {Taken(s)[t], CloseClient(Taken(s)[t]), [Taken(s)[t] EXCEPT !.dropping = TRUE]}
    BY <2>0, <2>1, <1>t
  <2>d. ASSUME NEW t \in Socks, NEW d, d = [Taken(s)[t] EXCEPT !.dropping = TRUE]
        PROVE  Orderly(d) /\ d.agent = Taken(s)[t].agent /\ d.control = Taken(s)[t].control
    <3>1. Taken(s)[t] \in Conn /\ Orderly(Taken(s)[t])
      BY <2>0, <1>t
    <3>2. /\ d.agent = Taken(s)[t].agent /\ d.control = Taken(s)[t].control
          /\ d.client = Taken(s)[t].client /\ d.up = Taken(s)[t].up /\ d.down = Taken(s)[t].down
      BY <3>1, <2>d DEF Conn
    <3>. QED  BY <3>1, <3>2 DEF Orderly
  <2>3. ASSUME NEW t \in Socks
        PROVE  /\ Orderly(CloseClient(Taken(s)[t])) /\ CloseClient(Taken(s)[t]).agent = Taken(s)[t].agent
               /\ CloseClient(Taken(s)[t]).control = Taken(s)[t].control
    <3>1. Taken(s)[t] \in Conn /\ Orderly(Taken(s)[t])
      BY <2>0, <1>t
    <3>. QED  BY <3>1, ClosesOrderly DEF CloseClient, Conn
  <2>. QED  BY <2>0, <2>2, <2>3, <2>d, <1>t DEF EndStays
<1>9. ASSUME NEW s \in Socks, ReceiveRequest(s) PROVE Goal
  BY <1>9, <1>t DEF ReceiveRequest, Received, EndStays
<1>10. ASSUME NEW r \in Reqs, Answer(r) PROVE Goal
  <2>1. CASE ProcessEnds("crashed")
    BY <2>1, <1>e
  <2>2. CASE conn' = [conn EXCEPT ![current] = SendUp(@, [type |-> "response", id |-> r])]
    <3>. DEFINE d == SendUp(conn[current], [type |-> "response", id |-> r])
    <3>1. CASE current \in Socks
      <4>1. Orderly(d)
        BY <3>1, <1>0, ResponseOrderly
      <4>2. d.agent = conn[current].agent /\ d.control = conn[current].control
        BY <3>1, <1>0 DEF SendUp, Conn
      <4>3. conn'[current] = d /\ \A t \in Socks \ {current} : conn'[t] = conn[t]
        BY <2>2, <3>1, <1>0
      <4>. QED  BY <4>1, <4>2, <4>3, <3>1, <1>0 DEF EndStays
    <3>2. CASE current \notin Socks
      BY <2>2, <3>2, <1>0, <1>u
    <3>. QED  BY <3>1, <3>2
  <2>. QED  BY <2>1, <2>2, <1>10 DEF Answer
<1>11. ASSUME NEW s \in Socks, ClientClosed(s) PROVE Goal
  <2>1. /\ conn'[s] = [conn[s] EXCEPT !.client = "none", !.shaken = FALSE, !.down = <<>>]
        /\ \A t \in Socks \ {s} : conn'[t] = conn[t]
    BY <1>11, <1>0 DEF ClientClosed
  <2>2. /\ conn'[s].client = "none" /\ conn'[s].down = <<>> /\ conn'[s].control = conn[s].control
        /\ conn'[s].agent = conn[s].agent /\ conn'[s].up = conn[s].up
    BY <2>1, <1>0 DEF Conn
  <2>3. Orderly(conn'[s])
    BY <2>2, <1>0 DEF Orderly
  <2>. QED  BY <2>1, <2>2, <2>3, <1>0 DEF EndStays
<1>. QED  BY <1>1, <1>2, <1>3, <1>4, <1>5, <1>6, <1>7, <1>8, <1>9, <1>10, <1>11, <1>f, <1>n, <1>w
          DEF ClientStep, ClientSocketStep

LEMMA ClientKeepsRegistry ==
    ASSUME RegistryInv, ClientStep, UNCHANGED controlVars
    PROVE  SocketsOrderly' /\ RegistryIsCurrent'
<1>1. \A t \in Socks : Orderly(conn'[t]) /\ EndStays(t)
  BY ClientOrderly DEF RegistryInv
<1>2. attached' = attached /\ rows' = rows /\ attached \in [Agents -> Socks \union {None}]
  BY DEF controlVars, RegistryInv, TypeOK
<1>3. SocketsOrderly'
  BY <1>1 DEF SocketsOrderly, Orderly
<1>. QED  BY <1>1, <1>2, <1>3 DEF EndStays, RegistryInv, RegistryIsCurrent

LEMMA RefuseKeepsRegistry ==
    ASSUME RegistryInv, NEW s \in Socks, conn[s].up # <<>>, conn[s].agent = None,
           Head(conn[s].up).type \in Intros \/ conn[s].control = "closing",
           Refuse(s), UNCHANGED attached, UNCHANGED rows
    PROVE  SocketsOrderly' /\ RegistryIsCurrent'
<1>0. conn \in [Socks -> Conn] /\ \A t \in Socks : conn[t] \in Conn /\ Orderly(conn[t])
  BY DEF RegistryInv, TypeOK, SocketsOrderly
<1>. DEFINE d == Thrown(Rest(s), "error")
<1>1. conn' = [conn EXCEPT ![s] = d]
  BY DEF Refuse
<1>2. Orderly(d)
  BY <1>0, RefuseOrderly DEF Rest
<1>3. d.agent = None
  <2>1. Rest(s) \in Conn /\ Rest(s).agent = None
    BY <1>0, TakeUpType DEF Rest, Conn, RegistryInv
  <2>. QED  BY <2>1, ThrownType DEF Errors
<1>. HIDE DEF d
<1>4. conn'[s] = d /\ \A t \in Socks \ {s} : conn'[t] = conn[t]
  BY <1>0, <1>1
<1>5. \A t \in Socks : Orderly(conn'[t])
  BY <1>0, <1>2, <1>4
<1>6. SocketsOrderly'
  BY <1>5 DEF SocketsOrderly, Orderly
<1>7. attached \in [Agents -> Socks \union {None}]
  BY DEF RegistryInv, TypeOK
<1>8. RegistryIsCurrent'
  BY <1>3, <1>4, <1>7 DEF RegistryInv, RegistryIsCurrent
<1>. QED  BY <1>6, <1>8

LEMMA FailsKeepsRegistry ==
    ASSUME RegistryInv, NEW s \in Socks, Fails(s)
    PROVE  SocketsOrderly' /\ RegistryIsCurrent'
<1>0. conn \in [Socks -> Conn] /\ \A t \in Socks : conn[t] \in Conn /\ Orderly(conn[t])
  BY DEF RegistryInv, TypeOK, SocketsOrderly
<1>. DEFINE d == Thrown(Rest(s), "failure")
<1>1. /\ GatewayFails /\ conn[s].control # "none" /\ conn[s].up # <<>>
      /\ conn' = [conn EXCEPT ![s] = d] /\ attached' = attached /\ rows' = rows
  BY DEF Fails
<1>2. /\ Rest(s) \in Conn /\ Rest(s).client = conn[s].client /\ Rest(s).control = conn[s].control
      /\ Rest(s).up = Tail(conn[s].up) /\ Rest(s).down = conn[s].down
      /\ Rest(s).agent = conn[s].agent
  BY <1>0, <1>1, TakeUpType DEF Rest, Conn, RegistryInv
<1>3. Orderly(d)
  BY <1>0, <1>1, <1>2, FailureOrderly
<1>4. d.agent = conn[s].agent /\ d.control \notin {"none", "open"}
  BY <1>0, <1>1, <1>2, ThrownType, ConnFields DEF Errors
<1>. HIDE DEF d
<1>5. conn'[s] = d /\ \A t \in Socks \ {s} : conn'[t] = conn[t]
  BY <1>0, <1>1
<1>6. \A t \in Socks : Orderly(conn'[t])
  BY <1>0, <1>3, <1>5
<1>7. SocketsOrderly'
  BY <1>6 DEF SocketsOrderly, Orderly
<1>8. attached \in [Agents -> Socks \union {None}]
  BY DEF RegistryInv, TypeOK
<1>9. RegistryIsCurrent'
  BY <1>1, <1>4, <1>5, <1>8 DEF RegistryInv, RegistryIsCurrent
<1>. QED  BY <1>7, <1>9

LEMMA AttachKeepsRegistry ==
    ASSUME RegistryInv, NEW s \in Socks, HasIntro(conn[s]), conn[s].control # "none", NEW a \in Agents,
           Attach(s, a), rows'[a] = "paired",
           \A b \in Agents : rows[b] = "paired" => rows'[b] = "paired"
    PROVE  SocketsOrderly' /\ RegistryIsCurrent'
<1>0. conn \in [Socks -> Conn] /\ \A t \in Socks : conn[t] \in Conn /\ Orderly(conn[t])
  BY DEF RegistryInv, TypeOK, SocketsOrderly
<1>a. attached \in [Agents -> Socks \union {None}]
  BY DEF RegistryInv, TypeOK
<1>i. conn[s].agent = None /\ conn[s].up # <<>> /\ Head(conn[s].up).type \in Intros
  BY <1>0, IntroFirst DEF RegistryInv, HasIntro
<1>. DEFINE r == [Rest(s) EXCEPT !.agent = a]
<1>1. /\ r \in Conn /\ r.agent = a /\ r.client = conn[s].client /\ r.control = conn[s].control
      /\ r.up = Tail(conn[s].up) /\ r.down = conn[s].down
  <2>1. r \in Conn
    BY TakeUpType, <1>i DEF RegistryInv
  <2>. QED  BY <2>1, <1>0 DEF Rest, Conn
<1>2. /\ Orderly(SendDown(r, [type |-> "paired", agent |-> a]))
      /\ SendDown(r, [type |-> "paired", agent |-> a]).agent = a
      /\ SendDown(r, [type |-> "paired", agent |-> a]).control = conn[s].control
  <2>1. Orderly(SendDown(r, [type |-> "paired", agent |-> a]))
    BY <1>0, <1>i, AttachOrderly DEF Rest
  <2>. HIDE DEF r
  <2>. QED  BY <2>1, <1>1 DEF SendDown, Conn
<1>t. GatewayFails => /\ Orderly(Thrown(r, "failure")) /\ Thrown(r, "failure").agent = a
                      /\ Thrown(r, "failure").control # "none"
  <2>. HIDE DEF r
  <2>. QED  BY <1>0, <1>1, <1>i, FailureOrderly, ThrownType DEF Errors
<1>. HIDE DEF r
<1>3. Orderly(conn'[s]) /\ conn'[s].agent = a /\ conn'[s].control # "none"
  BY <1>2, <1>t, AttachForms DEF r
<1>4. \A t \in Socks \ {s} :
          conn'[t] = IF t = attached[a] THEN CloseControl(conn[t]) ELSE conn[t]
  BY AttachForms
<1>5. ASSUME NEW t \in Socks
      PROVE  /\ Orderly(CloseControl(conn[t])) /\ CloseControl(conn[t]).agent = conn[t].agent
             /\ CloseControl(conn[t]).control # "open"
             /\ conn[t].control # "none" => CloseControl(conn[t]).control # "none"
  BY <1>0, ClosesOrderly DEF CloseControl, Conn
<1>6. \A t \in Socks : Orderly(conn'[t])
  BY <1>0, <1>3, <1>4, <1>5
<1>7. SocketsOrderly'
  BY <1>6 DEF SocketsOrderly, Orderly
<1>8. attached' = [attached EXCEPT ![a] = s] /\ attached'[a] = s
      /\ \A b \in Agents \ {a} : attached'[b] = attached[b]
  <2>1. attached' = [attached EXCEPT ![a] = s]
    BY DEF Attach
  <2>. QED  BY <2>1, <1>a
<1>9. ASSUME NEW b \in Agents, attached'[b] # None
      PROVE  /\ conn'[attached'[b]].agent = b /\ conn'[attached'[b]].control # "none"
             /\ rows'[b] = "paired"
  <2>1. CASE b = a
    BY <2>1, <1>3, <1>4, <1>8
  <2>2. CASE b # a
    <3>1. attached[b] \in Socks /\ conn[attached[b]].agent = b
          /\ conn[attached[b]].control # "none" /\ rows[b] = "paired" /\ attached'[b] = attached[b]
      BY <2>2, <1>8, <1>9, <1>a DEF RegistryInv, RegistryIsCurrent
    <3>2. attached[b] # s
      BY <3>1, <1>i
    <3>. QED  BY <3>1, <3>2, <1>4, <1>5
  <2>. QED  BY <2>1, <2>2
<1>10. ASSUME NEW t \in Socks, conn'[t].control = "open", conn'[t].agent # None
       PROVE  attached'[conn'[t].agent] = t
  <2>1. CASE t = s
    BY <2>1, <1>3, <1>4, <1>8
  <2>2. CASE t # s
    <3>1. conn'[t] = conn[t] /\ t # attached[a]
      BY <2>2, <1>4, <1>5, <1>10
    <3>2. attached[conn[t].agent] = t /\ conn[t].agent \in Agents
      BY <3>1, <1>0, <1>10, ConnFields DEF RegistryInv, RegistryIsCurrent
    <3>. QED  BY <3>1, <3>2, <1>8
  <2>. QED  BY <2>1, <2>2
<1>. QED  BY <1>7, <1>9, <1>10 DEF RegistryIsCurrent

LEMMA ControlKeepsRegistry ==
    ASSUME RegistryInv, ControlStep, UNCHANGED clientVars
    PROVE  SocketsOrderly' /\ RegistryIsCurrent'
<1>0. conn \in [Socks -> Conn] /\ \A t \in Socks : conn[t] \in Conn /\ Orderly(conn[t])
  BY DEF RegistryInv, TypeOK, SocketsOrderly
<1>a. attached \in [Agents -> Socks \union {None}] /\ rows \in [Agents -> {"none", "paired", "revoked"}]
  BY DEF RegistryInv, TypeOK
<1>t. TypeOK
  BY DEF RegistryInv
<1>c. ASSUME NEW t \in Socks
      PROVE  /\ Orderly(CloseControl(conn[t])) /\ CloseControl(conn[t]).agent = conn[t].agent
             /\ CloseControl(conn[t]).control # "open"
             /\ conn[t].control # "none" => CloseControl(conn[t]).control # "none"
  BY <1>0, ClosesOrderly DEF CloseControl, Conn
<1>. DEFINE Goal == SocketsOrderly' /\ RegistryIsCurrent'
<1>u. ASSUME conn' = conn, attached' = attached, rows' = rows PROVE Goal
  BY <1>u DEF RegistryInv, SocketsOrderly, Orderly, RegistryIsCurrent
<1>1. ASSUME NEW c \in Codes, CreateCode(c) \/ CodeExpires(c) PROVE Goal
  BY <1>1, <1>u DEF CreateCode, CodeExpires
<1>2. ASSUME NEW s \in Socks, TakePair(s) PROVE Goal
  <2>. DEFINE c == Head(conn[s].up).code
  <2>1. conn[s].control # "none" /\ conn[s].up # <<>> /\ HasIntro(conn[s]) /\ conn[s].agent = None
        /\ Head(conn[s].up).type \in Intros
    BY <1>0, <1>2, <1>t, IntroFirst DEF TakePair, Arrived, HasIntro, Intros
  <2>2. CASE codes[c] # "valid"
    BY <2>1, <2>2, <1>2, RefuseKeepsRegistry DEF TakePair
  <2>3. CASE codes[c] = "valid"
    <3>1. PICK a \in Agents : rows[a] = "none" /\ rows' = [rows EXCEPT ![a] = "paired"] /\ Attach(s, a)
      BY <2>3, <1>2 DEF TakePair
    <3>2. rows'[a] = "paired" /\ \A b \in Agents : rows[b] = "paired" => rows'[b] = "paired"
      BY <3>1, <1>a
    <3>. QED  BY <2>1, <3>1, <3>2, AttachKeepsRegistry
  <2>. QED  BY <2>2, <2>3
<1>3. ASSUME NEW s \in Socks, TakeHello(s) PROVE Goal
  <2>. DEFINE a == Head(conn[s].up).agent
  <2>1. conn[s].control # "none" /\ conn[s].up # <<>> /\ HasIntro(conn[s]) /\ conn[s].agent = None
        /\ Head(conn[s].up).type = "hello" /\ Head(conn[s].up).type \in Intros
    BY <1>0, <1>3, <1>t, IntroFirst DEF TakeHello, Arrived, HasIntro, Intros
  <2>2. a \in Agents
    BY <2>1, <1>t, HeadOf, UpMessages
  <2>3. rows' = rows
    BY <1>3 DEF TakeHello
  <2>4. CASE rows[a] = "paired"
    <3>1. Attach(s, a)
      BY <2>4, <1>3 DEF TakeHello
    <3>. QED  BY <2>1, <2>2, <2>3, <2>4, <3>1, AttachKeepsRegistry
  <2>5. CASE rows[a] # "paired"
    <3>1. Refuse(s) /\ UNCHANGED attached
      BY <2>5, <1>3 DEF TakeHello
    <3>. QED  BY <2>1, <2>3, <3>1, RefuseKeepsRegistry
  <2>. QED  BY <2>4, <2>5
<1>4. ASSUME NEW s \in Socks, TakeResponse(s) PROVE Goal
  <2>1. conn[s].control # "none" /\ conn[s].up # <<>> /\ Head(conn[s].up).type = "response"
        /\ attached' = attached /\ rows' = rows
    BY <1>4 DEF TakeResponse, Arrived
  <2>2. CASE conn[s].agent = None
    <3>1. Refuse(s)
      BY <2>2, <1>4 DEF TakeResponse
    <3>2. conn[s].control # "open"
      <4>1. conn[s].up \in Seq(UpMsg)
        BY <1>0, ConnFields
      <4>2. Head(conn[s].up) = conn[s].up[1]
        BY <4>1, <2>1
      <4>3. Orderly(conn[s])
        BY <1>0
      <4>. QED  BY <4>2, <4>3, <2>1, <2>2 DEF Orderly, Intros
    <3>3. conn[s].control = "closing"
      BY <3>2, <2>1, <1>0, ConnFields
    <3>. QED  BY <2>1, <2>2, <3>1, <3>3, RefuseKeepsRegistry
  <2>3. CASE conn[s].agent # None
    <3>1. conn' = [conn EXCEPT ![s] = Rest(s)]
      BY <2>3, <1>4 DEF TakeResponse
    <3>2. Orderly(Rest(s)) /\ Rest(s).agent = conn[s].agent /\ Rest(s).control = conn[s].control
      BY <2>1, <2>3, <1>0, RestOrderly DEF Rest, Conn
    <3>3. conn'[s] = Rest(s) /\ \A t \in Socks \ {s} : conn'[t] = conn[t]
      BY <3>1, <1>0
    <3>4. \A t \in Socks : /\ Orderly(conn'[t]) /\ conn'[t].agent = conn[t].agent
                           /\ conn'[t].control = conn[t].control
      BY <3>2, <3>3, <1>0
    <3>5. SocketsOrderly'
      BY <3>4 DEF SocketsOrderly, Orderly
    <3>. QED  BY <3>4, <3>5, <2>1, <1>a DEF RegistryInv, RegistryIsCurrent
  <2>. QED  BY <2>2, <2>3
<1>5. ASSUME NEW s \in Socks, ControlClosed(s) PROVE Goal
  <2>1. /\ conn'[s] = [conn[s] EXCEPT !.control = "none", !.agent = None, !.up = <<>>]
        /\ \A t \in Socks \ {s} : conn'[t] = conn[t]
    BY <1>5, <1>0 DEF ControlClosed
  <2>2. /\ conn'[s].control = "none" /\ conn'[s].agent = None /\ conn'[s].up = <<>>
        /\ conn'[s].client = conn[s].client /\ conn'[s].down = conn[s].down
    BY <2>1, <1>0 DEF Conn
  <2>3. Orderly(conn'[s])
    BY <2>2, <1>0 DEF Orderly
  <2>a. \A t \in Socks : Orderly(conn'[t])
    BY <2>1, <2>3, <1>0
  <2>4. SocketsOrderly'
    BY <2>a DEF SocketsOrderly, Orderly
  <2>5. rows' = rows /\ \A b \in Agents : attached'[b] =
            IF conn[s].agent = b /\ attached[b] = s THEN None ELSE attached[b]
    BY <1>5 DEF ControlClosed, Detached
  <2>6. \A b \in Agents : attached[b] = s => conn[s].agent = b
    BY DEF RegistryInv, RegistryIsCurrent
  <2>7. \A b \in Agents : attached'[b] = IF attached[b] = s THEN None ELSE attached[b]
    BY <2>5, <2>6
  <2>8. ASSUME NEW b \in Agents, attached'[b] # None
        PROVE  /\ conn'[attached'[b]].agent = b /\ conn'[attached'[b]].control # "none"
               /\ rows'[b] = "paired"
    <3>1. attached'[b] = attached[b] /\ attached[b] \in Socks \ {s}
      BY <2>7, <2>8, <1>a
    <3>. QED  BY <3>1, <2>1, <2>5, <2>8 DEF RegistryInv, RegistryIsCurrent
  <2>9. ASSUME NEW t \in Socks, conn'[t].control = "open", conn'[t].agent # None
        PROVE  attached'[conn'[t].agent] = t
    <3>1. t # s /\ conn'[t] = conn[t]
      BY <2>1, <2>2, <2>9
    <3>2. conn[t].agent \in Agents /\ attached[conn[t].agent] = t
      BY <3>1, <2>9, <1>0, ConnFields DEF RegistryInv, RegistryIsCurrent
    <3>. QED  BY <3>1, <3>2, <2>7
  <2>. QED  BY <2>4, <2>8, <2>9 DEF RegistryIsCurrent
<1>6. ASSUME NEW a \in Agents, Revoke(a) PROVE Goal
  <2>1. /\ \A t \in Socks : conn'[t] = IF t = attached[a] THEN CloseControl(conn[t]) ELSE conn[t]
        /\ attached'[a] = None /\ \A b \in Agents \ {a} : attached'[b] = attached[b] /\ rows'[b] = rows[b]
    BY <1>6, <1>a DEF Revoke
  <2>2. \A t \in Socks : Orderly(conn'[t])
    BY <2>1, <1>0, <1>c
  <2>3. SocketsOrderly'
    BY <2>2 DEF SocketsOrderly, Orderly
  <2>4. ASSUME NEW b \in Agents, attached'[b] # None
        PROVE  /\ conn'[attached'[b]].agent = b /\ conn'[attached'[b]].control # "none"
               /\ rows'[b] = "paired"
    <3>1. b # a /\ attached'[b] = attached[b] /\ attached[b] \in Socks /\ rows'[b] = rows[b]
      BY <2>1, <2>4, <1>a
    <3>. QED  BY <3>1, <2>1, <2>4, <1>c DEF RegistryInv, RegistryIsCurrent
  <2>5. ASSUME NEW t \in Socks, conn'[t].control = "open", conn'[t].agent # None
        PROVE  attached'[conn'[t].agent] = t
    <3>1. t # attached[a] /\ conn'[t] = conn[t]
      BY <2>1, <2>5, <1>c
    <3>2. conn[t].agent \in Agents /\ attached[conn[t].agent] = t
      BY <3>1, <2>5, <1>0, ConnFields DEF RegistryInv, RegistryIsCurrent
    <3>. QED  BY <3>1, <3>2, <2>1
  <2>. QED  BY <2>3, <2>4, <2>5 DEF RegistryIsCurrent
<1>7. ASSUME NEW r \in Reqs, NEW a \in Agents, Request(r, a) PROVE Goal
  <2>. DEFINE s == attached[a]
              d == SendDown(conn[s], [type |-> "request", id |-> r])
  <2>1. s \in Socks /\ conn' = [conn EXCEPT ![s] = d] /\ attached' = attached /\ rows' = rows
    BY <1>7, <1>a DEF Request
  <2>2. conn[s].agent = a
    BY <1>7 DEF Request, RegistryInv, RegistryIsCurrent
  <2>3. Orderly(d)
    BY <2>1, <2>2, <1>0, RequestOrderly
  <2>4. d.agent = conn[s].agent /\ d.control = conn[s].control
    BY <2>1, <1>0 DEF SendDown, Conn
  <2>5. conn'[s] = d /\ \A t \in Socks \ {s} : conn'[t] = conn[t]
    BY <2>1, <1>0
  <2>. HIDE DEF s, d
  <2>6. \A t \in Socks : /\ Orderly(conn'[t]) /\ conn'[t].agent = conn[t].agent
                         /\ conn'[t].control = conn[t].control
    BY <2>1, <2>3, <2>4, <2>5, <1>0
  <2>7. SocketsOrderly'
    BY <2>6 DEF SocketsOrderly, Orderly
  <2>. QED  BY <2>1, <2>6, <2>7, <1>a DEF RegistryInv, RegistryIsCurrent
<1>8. ASSUME NEW r \in Reqs, Timeout(r) PROVE Goal
  BY <1>8, <1>u DEF Timeout
<1>f. ASSUME NEW s \in Socks, Fails(s) PROVE Goal
  BY <1>f, FailsKeepsRegistry
<1>9. CASE ControlRestart
  <2>1. ASSUME NEW t \in Socks
        PROVE  Orderly(conn'[t]) /\ conn'[t].agent = None
    <3>1. conn'[t] = [conn[t] EXCEPT !.control = "none", !.agent = None, !.up = <<>>]
      BY <1>9 DEF ControlRestart
    <3>2. /\ conn'[t].control = "none" /\ conn'[t].agent = None /\ conn'[t].up = <<>>
          /\ conn'[t].client = conn[t].client /\ conn'[t].down = conn[t].down
      BY <3>1, <1>0 DEF Conn
    <3>. QED  BY <3>2, <1>0 DEF Orderly
  <2>2. SocketsOrderly'
    BY <2>1 DEF SocketsOrderly, Orderly
  <2>. QED  BY <2>1, <2>2, <1>9 DEF ControlRestart, RegistryIsCurrent
<1>. QED  BY <1>1, <1>2, <1>3, <1>4, <1>5, <1>6, <1>7, <1>8, <1>9, <1>f
          DEF ControlStep, ControlSocketStep

LEMMA RegistryInitStep ==
    /\ Init => RegistryInv
    /\ RegistryInv /\ [Next]_vars => RegistryInv'
<1>1. ASSUME Init PROVE RegistryInv
  <2>1. TypeOK
    BY <1>1, AgentInitTypes
  <2>2. \A s \in Socks : conn[s] = NoConn /\ Orderly(conn[s])
    BY <1>1, NewOrderly DEF Init
  <2>. QED  BY <2>1, <2>2, <1>1 DEF RegistryInv, SocketsOrderly, RegistryIsCurrent, Init, NoConn
<1>2. ASSUME RegistryInv, [Next]_vars PROVE RegistryInv'
  <2>0. TypeOK'
    BY <1>2, AgentStepTypes DEF RegistryInv
  <2>1. CASE UNCHANGED vars
    BY <2>1, <2>0, <1>2 DEF RegistryInv, SocketsOrderly, Orderly, RegistryIsCurrent, vars
  <2>2. CASE ClientStep /\ UNCHANGED controlVars
    BY <2>2, <2>0, <1>2, ClientKeepsRegistry DEF RegistryInv
  <2>3. CASE ControlStep /\ UNCHANGED clientVars
    BY <2>3, <2>0, <1>2, ControlKeepsRegistry DEF RegistryInv
  <2>. QED  BY <2>1, <2>2, <2>3, <1>2 DEF Next
<1>. QED  BY <1>1, <1>2

THEOREM RegistryInvariant == Spec => []RegistryInv
BY RegistryInitStep, PTL DEF Spec

(* AgentRegistry's attach, detach and revoke, AgentGateway's close handler:
   whatever order sockets open and close in, the map lists live sockets of agents
   that are paired, and every open socket of an agent. *)
THEOREM RegistryIsCurrentHolds == Spec => []RegistryIsCurrent
BY RegistryInvariant, PTL DEF RegistryInv

-----------------------------------------------------------------------------
(* Identities. *)

LEMMA HeadFacts ==
    ASSUME NEW c \in Conn, Orderly(c)
    PROVE  /\ HasIntro(c) => c.agent = None /\ c.down = <<>> /\ ~HasReply(c)
           /\ c.down # <<>> => ~HasIntro(c) /\ ~HasReply([c EXCEPT !.down = Tail(@)])
           /\ c.up # <<>> => ~HasIntro([c EXCEPT !.up = Tail(@)])
           /\ c.client \in {"none", "connecting"} => ~HasReply(c)
           /\ c.client = "connecting" => ~HasIntro(c)
<1>1. c.up \in Seq(UpMsg) /\ c.down \in Seq(DownMsg)
  BY ConnFields
<1>2. HasIntro(c) => c.agent = None /\ c.down = <<>> /\ ~HasReply(c)
  <2>1. HasIntro(c) => 1 \in DOMAIN c.up /\ c.up[1] = Head(c.up)
    BY <1>1 DEF HasIntro
  <2>. QED  BY <2>1 DEF HasIntro, HasReply, Orderly
<1>3. ASSUME c.down # <<>> PROVE ~HasReply([c EXCEPT !.down = Tail(@)])
  <2>1. Tail(c.down) # <<>> => 1 \in DOMAIN Tail(c.down) /\ Head(Tail(c.down)) = Tail(c.down)[1]
    BY <1>1, <1>3
  <2>2. [c EXCEPT !.down = Tail(@)].down = Tail(c.down)
    BY DEF Conn
  <2>. QED  BY <2>1, <2>2, <1>3, TakenOrderly DEF HasReply
<1>4. ASSUME c.up # <<>> PROVE ~HasIntro([c EXCEPT !.up = Tail(@)])
  <2>1. Tail(c.up) # <<>> => 1 \in DOMAIN Tail(c.up) /\ Head(Tail(c.up)) = Tail(c.up)[1]
    BY <1>1, <1>4
  <2>2. [c EXCEPT !.up = Tail(@)].up = Tail(c.up)
    BY DEF Conn
  <2>. QED  BY <2>1, <2>2, <1>4, RestHasNoIntro DEF HasIntro
<1>5. c.client \in {"none", "connecting"} => ~HasReply(c)
  BY DEF Orderly, HasReply
<1>6. c.client = "connecting" => ~HasIntro(c)
  BY DEF Orderly, HasIntro
<1>. QED  BY <1>2, <1>3, <1>4, <1>5, <1>6

\* A step that sends and answers no introduction.
Quiet(t) ==
    /\ conn'[t].learned = conn[t].learned
    /\ conn'[t].client # "none" => conn[t].client # "none"
    /\ conn'[t].client = "connecting" => conn[t].client = "connecting"
    /\ HasIntro(conn'[t]) => HasIntro(conn[t]) /\ Head(conn'[t].up) = Head(conn[t].up)
    /\ HasReply(conn'[t]) => HasReply(conn[t]) /\ Head(conn'[t].down) = Head(conn[t].down)

LEMMA QuietStep ==
    ASSUME IdentityInv, UNCHANGED <<rows, current>>,
           token' \in {token, None}, saved' \in {saved, None},
           \A t \in Socks : Quiet(t),
           Running' <=> Running,
           loop' = "sleeping" => loop = "sleeping" \/ \A t \in Socks : ~Introducing(t)'
    PROVE  IdentityInv'
<1>1. \A t \in Socks : Introducing(t)' => Introducing(t)
  BY DEF Quiet, Introducing, HasIntro, HasReply
<1>2. OneIntroduction'
  BY <1>1 DEF Quiet, IdentityInv, OneIntroduction, HasIntro, HasReply
<1>3. SaysWhatItHolds'
  BY DEF Quiet, IdentityInv, SaysWhatItHolds, HasIntro, HasReply, Known, Revoked
<1>4. TokensKnown'
  BY DEF Quiet, IdentityInv, TokensKnown, Known, Revoked
<1>5. NotRunning'
  BY DEF Quiet, IdentityInv, NotRunning
<1>. QED  BY <1>2, <1>3, <1>4, <1>5 DEF IdentityInv

LEMMA CalmStep ==
    ASSUME IdentityInv, UNCHANGED <<loop, token, rows, current>>, saved' \in {saved, None},
           \A t \in Socks : /\ conn'[t].client = conn[t].client /\ conn'[t].learned = conn[t].learned
                            /\ conn'[t].up = conn[t].up /\ conn'[t].down = conn[t].down
    PROVE  IdentityInv'
BY QuietStep DEF Quiet, HasIntro, HasReply, Running

\* After a step that leaves no introduction on its way.
Silent(t) ==
    /\ conn'[t].client # "connecting"
    /\ conn'[t].client # "none" => ~HasIntro(conn'[t]) /\ ~HasReply(conn'[t])

LEMMA SilentStep ==
    ASSUME \A t \in Socks : Silent(t) PROVE SaysWhatItHolds' /\ \A t \in Socks : ~Introducing(t)'
BY DEF Silent, SaysWhatItHolds, Introducing, HasIntro, HasReply

\* openConnection, when no introduction is on its way.
LEMMA OpenIdentity ==
    ASSUME RegistryInv, OneIntroduction, NEW cs \in [Socks -> Conn], OpenConnection(cs),
           \A t \in Socks : ~Introducing(t),
           \A t \in Socks : /\ cs[t].client = conn[t].client
                            /\ cs[t].up = conn[t].up /\ cs[t].down = conn[t].down
                            /\ cs[t].learned \in {conn[t].learned, None}
    PROVE  /\ OneIntroduction' /\ SaysWhatItHolds'
           /\ \A t \in Socks : conn'[t].learned \in {conn[t].learned, None}
<1>1. PICK s \in Socks : /\ Unused(s) /\ current' = s /\ loop' = "waiting"
                         /\ conn' = [cs EXCEPT ![s] = [NoConn EXCEPT !.client = "connecting"]]
  BY DEF OpenConnection
<1>2. /\ conn'[s].client = "connecting" /\ conn'[s].learned = None
      /\ conn'[s].up = <<>> /\ conn'[s].down = <<>>
  BY <1>1 DEF NoConn
<1>3. \A t \in Socks \ {s} : conn'[t] = cs[t]
  BY <1>1
<1>4. \A t \in Socks \ {s} : conn'[t].client # "connecting"
        /\ (conn'[t].client # "none" => ~HasIntro(conn'[t]) /\ ~HasReply(conn'[t]))
  BY <1>3 DEF Introducing, HasIntro, HasReply
<1>5. OneIntroduction'
  <2>1. \A t \in Socks : Introducing(t)' => t = current' /\ loop' # "sleeping"
    BY <1>1, <1>4 DEF Introducing, HasIntro, HasReply
  <2>2. ASSUME NEW t \in Socks, conn'[t].learned # None
        PROVE  conn'[t].client # "connecting" /\ ~HasIntro(conn'[t]) /\ ~HasReply(conn'[t])
    <3>1. t # s
      BY <2>2, <1>2
    <3>. QED  BY <3>1, <2>2, <1>3, <1>4 DEF OneIntroduction, HasIntro, HasReply
  <2>. QED  BY <2>1, <2>2 DEF OneIntroduction, HasIntro, HasReply
<1>6. SaysWhatItHolds'
  <2>1. \A t \in Socks : conn'[t].client # "none" => ~HasIntro(conn'[t]) /\ ~HasReply(conn'[t])
    BY <1>2, <1>4 DEF HasIntro, HasReply
  <2>. QED  BY <2>1 DEF SaysWhatItHolds, HasIntro, HasReply
<1>. QED  BY <1>2, <1>3, <1>5, <1>6

\* What TokenLostForReason says of one step.
LostForReason == \A a \in Agents : Forgets(a) => rows[a] = "revoked" \/ FailureTaken

\* On the socket an introduction or its answer is on, and on no other.
LEMMA OnlyHere ==
    ASSUME RegistryInv, IdentityInv, NEW s \in Socks, Introducing(s)
    PROVE  /\ s = current /\ loop # "sleeping" /\ Running
           /\ conn[s].learned = None
           /\ \A t \in Socks \ {s} : ~Introducing(t)
<1>1. s = current /\ loop # "sleeping" /\ \A t \in Socks \ {s} : ~Introducing(t)
  BY DEF IdentityInv, OneIntroduction
<1>2. conn[s].client # "none"
  BY DEF Introducing
<1>3. Running
  BY <1>2 DEF IdentityInv, NotRunning
<1>4. conn[s].learned = None
  BY DEF Introducing, IdentityInv, OneIntroduction
<1>. QED  BY <1>1, <1>3, <1>4

LEMMA EndsIdentity ==
    ASSUME RegistryInv, IdentityInv, NEW how \in Exits, ProcessEnds(how), rows' = rows
    PROVE  IdentityInv' /\ LostForReason
<1>0. \A t \in Socks : conn[t] \in Conn
  BY DEF RegistryInv, TypeOK
<1>1. ASSUME NEW t \in Socks
      PROVE  conn'[t].client = "none" /\ conn'[t].learned = None /\ conn'[t].down = <<>>
  BY <1>0, EndsAbandoned, AbandonedType DEF RegistryInv
<1>2. loop' = how /\ token' = None /\ saved' = saved
  BY DEF ProcessEnds
<1>3. (\A t \in Socks : Silent(t)) /\ ~Running'
  BY <1>1, <1>2 DEF Silent, Running
<1>4. SaysWhatItHolds' /\ \A t \in Socks : ~Introducing(t)'
  BY <1>3, SilentStep
<1>5. OneIntroduction'
  BY <1>1, <1>4 DEF OneIntroduction
<1>6. TokensKnown' /\ NotRunning'
  BY <1>1, <1>2, <1>3 DEF IdentityInv, TokensKnown, NotRunning, Known, Revoked
<1>7. LostForReason
  BY <1>2 DEF LostForReason, Forgets
<1>. QED  BY <1>4, <1>5, <1>6, <1>7 DEF IdentityInv

LEMMA ClientIdentity ==
    ASSUME RegistryInv, IdentityInv, ClientStep, UNCHANGED controlVars
    PROVE  IdentityInv' /\ LostForReason
<1>0. /\ conn \in [Socks -> Conn] /\ \A t \in Socks : conn[t] \in Conn /\ Orderly(conn[t])
      /\ token \in Agents \union {None} /\ saved \in Agents \union {None}
  BY DEF RegistryInv, TypeOK, SocketsOrderly
<1>r. rows' = rows
  BY DEF controlVars
<1>. DEFINE Goal == IdentityInv' /\ LostForReason
<1>k. ASSUME token' = token PROVE LostForReason
  BY <1>k DEF LostForReason, Forgets
<1>1. ASSUME NEW c \in Codes \union {None}, Start(c) PROVE Goal
  <2>1. ~Running /\ token' = saved /\ saved' = saved /\ OpenConnection(conn)
    BY <1>1 DEF Start, Running
  <2>2. token = None /\ \A t \in Socks : conn[t].client = "none" /\ conn[t].learned = None
    BY <2>1 DEF IdentityInv, NotRunning
  <2>3. \A t \in Socks : ~Introducing(t)
    BY <2>2 DEF Introducing
  <2>4. /\ OneIntroduction' /\ SaysWhatItHolds'
        /\ \A t \in Socks : conn'[t].learned \in {conn[t].learned, None}
    BY <2>1, <2>3, <1>0, OpenIdentity DEF IdentityInv
  <2>5. Running'
    BY <2>1 DEF OpenConnection, Running, Exits
  <2>6. TokensKnown' /\ NotRunning'
    BY <2>1, <2>2, <2>4, <2>5, <1>r DEF IdentityInv, TokensKnown, NotRunning, Known, Revoked
  <2>7. LostForReason
    BY <2>1, <2>2 DEF LostForReason, Forgets
  <2>. QED  BY <2>4, <2>6, <2>7 DEF IdentityInv
<1>2. CASE WakeUp
  <2>1. loop = "sleeping" /\ token' = token /\ saved' = saved
    BY <1>2 DEF WakeUp
  <2>2. \A t \in Socks : ~Introducing(t)
    BY <2>1 DEF IdentityInv, OneIntroduction
  <2>3. CASE loop' = "ended" /\ conn' = conn /\ current' = current
    <3>1. (\A t \in Socks : Quiet(t)) /\ Running /\ Running' /\ loop' # "sleeping"
      BY <2>1, <2>3 DEF Quiet, Running, Exits
    <3>. QED  BY <3>1, <2>1, <2>3, <1>r, <1>k, QuietStep
  <2>4. CASE OpenConnection(conn)
    <3>1. /\ OneIntroduction' /\ SaysWhatItHolds'
          /\ \A t \in Socks : conn'[t].learned \in {conn[t].learned, None}
      BY <2>2, <2>4, <1>0, OpenIdentity DEF IdentityInv
    <3>2. Running /\ Running'
      BY <2>1, <2>4 DEF OpenConnection, Running, Exits
    <3>3. TokensKnown' /\ NotRunning'
      BY <2>1, <3>1, <3>2, <1>r DEF IdentityInv, TokensKnown, NotRunning, Known, Revoked
    <3>. QED  BY <3>1, <3>3, <2>1, <1>k DEF IdentityInv
  <2>. QED  BY <2>3, <2>4, <1>2 DEF WakeUp
<1>c. ASSUME NEW t \in Socks, conn'[t] = CloseClient(conn[t]) PROVE Quiet(t)
  <2>1. /\ conn'[t].learned = conn[t].learned /\ conn'[t].up = conn[t].up
        /\ conn'[t].down = conn[t].down /\ conn'[t].client # "connecting"
        /\ conn[t].client = "none" => conn'[t].client = "none"
    BY <1>c, <1>0 DEF CloseClient, Conn
  <2>. QED  BY <2>1 DEF Quiet, HasIntro, HasReply
<1>3. CASE Stop
  <2>1. \A t \in Socks : conn'[t] = conn[t] \/ conn'[t] = CloseClient(conn[t])
    BY <1>3, <1>0 DEF Stop
  <2>2. \A t \in Socks : Quiet(t)
    BY <2>1, <1>c DEF Quiet, HasIntro, HasReply
  <2>3. UNCHANGED <<loop, current, token, saved>>
    BY <1>3 DEF Stop
  <2>. QED  BY <2>2, <2>3, <1>r, <1>k, QuietStep DEF Running
<1>4. CASE Exit
  BY <1>4, <1>r, EndsIdentity DEF Exit, Exits
<1>w. ASSUME NEW s \in Socks, WriteFails(s) PROVE Goal
  BY <1>w, <1>r, EndsIdentity DEF WriteFails, Exits
<1>f. ASSUME NEW s \in Socks, FileOpened(s) PROVE Goal
  <2>1. conn'[s] = [conn[s] EXCEPT !.file = "open"] /\ \A t \in Socks \ {s} : conn'[t] = conn[t]
    BY <1>f, <1>0 DEF FileOpened
  <2>a. /\ conn'[s].client = conn[s].client /\ conn'[s].learned = conn[s].learned
        /\ conn'[s].up = conn[s].up /\ conn'[s].down = conn[s].down
    BY <2>1, <1>0 DEF Conn
  <2>2. \A t \in Socks : /\ conn'[t].client = conn[t].client /\ conn'[t].learned = conn[t].learned
                          /\ conn'[t].up = conn[t].up /\ conn'[t].down = conn[t].down
    BY <2>1, <2>a
  <2>3. UNCHANGED <<loop, current, token>> /\ saved' = None
    BY <1>f DEF FileOpened
  <2>. QED  BY <2>2, <2>3, <1>r, <1>k, CalmStep
<1>n. ASSUME NEW s \in Socks, Unlinked(s) PROVE Goal
  <2>1. UNCHANGED <<loop, current, token>> /\ saved' \in {saved, None}
    BY <1>n, UnlinkedSockets DEF Unlinked, RegistryInv
  <2>2. ASSUME NEW t \in Socks PROVE Quiet(t)
    <3>1. PICK c \in Conn : /\ c.client = conn[t].client /\ c.control = conn[t].control
                            /\ c.agent = conn[t].agent /\ c.learned = conn[t].learned
                            /\ c.up = conn[t].up /\ c.down = conn[t].down
                            /\ conn'[t] \in {c, CloseClient(c)}
      BY <1>n, UnlinkedSockets DEF RegistryInv
    <3>2. /\ conn'[t].learned = conn[t].learned /\ conn'[t].up = conn[t].up
          /\ conn'[t].down = conn[t].down
          /\ conn'[t].client = "connecting" => conn[t].client = "connecting"
          /\ conn[t].client = "none" => conn'[t].client = "none"
      BY <3>1 DEF CloseClient, Conn
    <3>. QED  BY <3>2 DEF Quiet, HasIntro, HasReply
  <2>. QED  BY <2>1, <2>2, <1>r, <1>k, QuietStep DEF Running
<1>5. ASSUME NEW s \in Socks, Opened(s) PROVE Goal
  <2>. DEFINE c == [conn[s] EXCEPT !.client = "open", !.control = "open"]
              m == IF token # None THEN [type |-> "hello", agent |-> token]
                                   ELSE [type |-> "pair", code |-> option]
  <2>1. conn[s].client = "connecting" /\ Introducing(s)
        /\ conn[s].up = <<>> /\ conn[s].down = <<>>
    BY <1>5, <1>0 DEF Opened, Introducing, Orderly
  <2>2. s = current /\ loop # "sleeping" /\ Running /\ conn[s].learned = None
        /\ \A t \in Socks \ {s} : ~Introducing(t)
    BY <2>1, OnlyHere
  <2>3. UNCHANGED <<current, token, saved>> /\ \A t \in Socks \ {s} : conn'[t] = conn[t]
    BY <1>5, <1>0 DEF Opened
  <2>a. c \in Conn
    BY <1>0 DEF Conn
  <2>4. c \in Conn /\ c.client = "open" /\ c.control = "open" /\ c.up = <<>> /\ c.down = <<>>
        /\ c.learned = None
    BY <2>a, <2>1, <2>2, <1>0 DEF Conn
  <2>5. CASE conn'[s] = CloseClient(c) /\ loop' = Rejected
    <3>. HIDE DEF c
    <3>1. conn'[s].client = "closing" /\ conn'[s].up = <<>> /\ conn'[s].down = <<>>
          /\ conn'[s].learned = None
      BY <2>4, <2>5 DEF CloseClient, Conn
    <3>2. \A t \in Socks \ {s} : Silent(t) /\ Quiet(t)
      BY <2>2, <2>3 DEF Silent, Quiet, Introducing, HasIntro, HasReply
    <3>3. Silent(s) /\ Quiet(s)
      BY <3>1, <2>1, <2>2 DEF Silent, Quiet, HasIntro, HasReply
    <3>4. \A t \in Socks : ~Introducing(t)'
      BY <3>2, <3>3, SilentStep
    <3>5. Running'
      BY <2>5 DEF Rejected, Running, Exits
    <3>. QED  BY <3>2, <3>3, <3>4, <3>5, <2>2, <2>3, <1>r, <1>k, QuietStep
  <2>6. CASE conn'[s] = SendUp(c, m) /\ loop' = loop
    <3>0. m.type \in Intros /\ (m.type = "hello" => token = m.agent) /\ (m.type = "pair" => token = None)
      BY DEF Intros
    <3>. HIDE DEF c, m
    <3>1. conn'[s] = [c EXCEPT !.up = Append(<<>>, m)]
      BY <2>4, <2>6 DEF SendUp
    <3>2. Append(<<>>, m) = <<m>> /\ <<m>> # <<>> /\ Head(<<m>>) = m
      OBVIOUS
    <3>3. /\ conn'[s].up = <<m>> /\ conn'[s].client = "open" /\ conn'[s].down = <<>>
          /\ conn'[s].learned = None
      BY <2>4, <3>1, <3>2 DEF Conn
    <3>4. \A t \in Socks \ {s} : conn'[t].client # "connecting"
              /\ (conn'[t].client # "none" => ~HasIntro(conn'[t]) /\ ~HasReply(conn'[t]))
      BY <2>2, <2>3 DEF Introducing, HasIntro, HasReply
    <3>5. OneIntroduction'
      <4>1. \A t \in Socks : Introducing(t)' => t = current' /\ loop' # "sleeping"
        BY <2>2, <2>3, <2>6, <3>4 DEF Introducing, HasIntro, HasReply
      <4>2. ASSUME NEW t \in Socks, conn'[t].learned # None
            PROVE  conn'[t].client # "connecting" /\ ~HasIntro(conn'[t]) /\ ~HasReply(conn'[t])
        BY <4>2, <3>3, <3>4, <2>3 DEF IdentityInv, OneIntroduction, HasIntro, HasReply
      <4>. QED  BY <4>1, <4>2 DEF OneIntroduction, HasIntro, HasReply
    <3>6. SaysWhatItHolds'
      <4>1. Head(conn'[s].up) = m /\ ~HasReply(conn'[s])
        BY <3>2, <3>3 DEF HasReply
      <4>2. m.type = "hello" /\ m.agent # None => rows'[m.agent] # "none"
        BY <3>0, <1>r DEF IdentityInv, TokensKnown, Known
      <4>. QED  BY <4>1, <4>2, <3>0, <3>4, <2>3 DEF SaysWhatItHolds, HasIntro, HasReply, Known
    <3>7. TokensKnown' /\ NotRunning'
      <4>1. \A t \in Socks : conn'[t].learned = conn[t].learned
        BY <2>2, <2>3, <3>3
      <4>. QED  BY <4>1, <2>2, <2>3, <2>6, <1>r
           DEF IdentityInv, TokensKnown, NotRunning, Known, Revoked, Running
    <3>. QED  BY <3>5, <3>6, <3>7, <2>3, <1>k DEF IdentityInv
  <2>7. \/ conn'[s] = CloseClient(c) /\ loop' = Rejected
        \/ conn'[s] = SendUp(c, m) /\ loop' = loop
    BY <1>5, <1>0 DEF Opened
  <2>. QED  BY <2>5, <2>6, <2>7
\* A message is taken.
<1>t. ASSUME NEW s \in Socks, conn[s].client # "none", conn[s].down # <<>>
      PROVE  /\ Taken(s) \in [Socks -> Conn]
             /\ ~HasIntro(Taken(s)[s]) /\ ~HasReply(Taken(s)[s])
             /\ Taken(s)[s].learned = conn[s].learned /\ Taken(s)[s].client = conn[s].client
             /\ Taken(s)[s].client \in {"open", "closing"}
             /\ \A t \in Socks \ {s} : Taken(s)[t] = conn[t]
  <2>1. Taken(s)[s] = [conn[s] EXCEPT !.down = Tail(@)]
    BY <1>0 DEF Taken
  <2>2. /\ Taken(s)[s].up = conn[s].up /\ Taken(s)[s].learned = conn[s].learned
        /\ Taken(s)[s].client = conn[s].client
    BY <2>1, <1>0 DEF Conn
  <2>3. ~HasIntro(conn[s]) /\ ~HasReply(Taken(s)[s])
    BY <2>1, <1>0, <1>t, HeadFacts
  <2>4. conn[s].client \in {"open", "closing"}
    BY <1>0, <1>t, ConnFields DEF Orderly
  <2>5. Taken(s) \in [Socks -> Conn]
    BY <1>t, TakenType DEF RegistryInv
  <2>6. \A t \in Socks \ {s} : Taken(s)[t] = conn[t]
    BY <1>0 DEF Taken
  <2>7. ~HasIntro(Taken(s)[s])
    BY <2>2, <2>3 DEF HasIntro
  <2>. QED  BY <2>2, <2>3, <2>4, <2>5, <2>6, <2>7
<1>6. ASSUME NEW s \in Socks, ReceivePaired(s) PROVE Goal
  <2>. DEFINE a == Head(conn[s].down).agent
  <2>1. conn[s].client # "none" /\ conn[s].down # <<>> /\ Head(conn[s].down).type = "paired"
    BY <1>6 DEF ReceivePaired, Received
  <2>2. HasReply(conn[s]) /\ Introducing(s) /\ a \in Agents
    BY <2>1, HeadOf, DownMessages DEF HasReply, Replies, Introducing, RegistryInv
  <2>3. token \in {None, a} /\ Known(a)
    BY <2>1, <2>2 DEF IdentityInv, SaysWhatItHolds
  <2>4. Running /\ conn[s].learned = None /\ \A t \in Socks \ {s} : ~Introducing(t)
    BY <2>2, OnlyHere
  <2>5. token' = a /\ saved' = saved /\ loop' = loop /\ current' = current
        /\ conn' = [Taken(s) EXCEPT ![s].learned = a]
    BY <1>6 DEF ReceivePaired
  <2>. HIDE DEF a
  <2>6. conn'[s] = [Taken(s)[s] EXCEPT !.learned = a] /\ \A t \in Socks \ {s} : conn'[t] = conn[t]
    BY <2>5, <2>1, <1>t
  <2>7. /\ conn'[s].learned = a /\ conn'[s].client \in {"open", "closing"}
        /\ ~HasIntro(conn'[s]) /\ ~HasReply(conn'[s])
    BY <2>6, <2>1, <1>t DEF Conn, HasIntro, HasReply
  <2>8. \A t \in Socks : Silent(t)
    BY <2>4, <2>6, <2>7 DEF Silent, Introducing, HasIntro, HasReply
  <2>9. SaysWhatItHolds' /\ \A t \in Socks : ~Introducing(t)'
    BY <2>8, SilentStep
  <2>10. OneIntroduction'
    <3>1. ASSUME NEW t \in Socks, conn'[t].learned # None
          PROVE  conn'[t].client # "connecting" /\ ~HasIntro(conn'[t]) /\ ~HasReply(conn'[t])
      BY <3>1, <2>6, <2>7 DEF IdentityInv, OneIntroduction, HasIntro, HasReply
    <3>. QED  BY <3>1, <2>9 DEF OneIntroduction, HasIntro, HasReply
  <2>11. TokensKnown' /\ NotRunning'
    <3>1. \A t \in Socks : conn'[t].learned \in {conn[t].learned, a}
      BY <2>6, <2>7
    <3>. QED  BY <3>1, <2>3, <2>4, <2>5, <1>r
         DEF IdentityInv, TokensKnown, NotRunning, Running, Known
  <2>12. LostForReason
    BY <2>2, <2>5 DEF LostForReason, Forgets
  <2>. QED  BY <2>9, <2>10, <2>11, <2>12 DEF IdentityInv
<1>7. ASSUME NEW s \in Socks, TokenSaved(s) PROVE Goal
  <2>. DEFINE cs == [conn EXCEPT ![s].learned = None, ![s].file = "shut", ![s].shaken = TRUE]
              a == conn[s].learned
  <2>1. a # None /\ a \in Agents /\ ~Introducing(s)
        /\ ~HasIntro(conn[s]) /\ ~HasReply(conn[s]) /\ conn[s].client # "connecting"
    BY <1>7, <1>0, ConnFields DEF TokenSaved, IdentityInv, OneIntroduction, Introducing
  <2>2. cs[s] = [conn[s] EXCEPT !.learned = None, !.file = "shut", !.shaken = TRUE] /\ \A t \in Socks \ {s} : cs[t] = conn[t]
    BY <1>0
  <2>3. /\ cs[s].client = conn[s].client /\ cs[s].up = conn[s].up /\ cs[s].down = conn[s].down
        /\ cs[s].learned = None
    BY <2>2, <1>0 DEF Conn
  <2>b. [conn[s] EXCEPT !.learned = None, !.file = "shut", !.shaken = TRUE] \in Conn
    BY <1>0 DEF Conn
  <2>a. cs[s] \in Conn
    BY <2>2, <2>b
  <2>4. cs \in [Socks -> Conn]
    BY <2>2, <2>a, <1>0
  <2>5. saved' \in {saved, a} /\ token' = token
    BY <1>7 DEF TokenSaved
  <2>6. Running
    BY <2>1 DEF IdentityInv, NotRunning
  <2>7. Known(a)
    BY DEF IdentityInv, TokensKnown
  <2>8. \/ s = current /\ OpenConnection(cs)
        \/ s = current /\ conn' = cs /\ current' = current /\ loop' = "ended"
        \/ conn' = cs /\ current' = current /\ loop' = loop
    BY <1>7 DEF TokenSaved
  <2>. HIDE DEF cs
  <2>9. \A t \in Socks : /\ cs[t].client = conn[t].client
                         /\ cs[t].up = conn[t].up /\ cs[t].down = conn[t].down
                         /\ cs[t].learned \in {conn[t].learned, None}
    BY <2>2, <2>3
  <2>10. /\ OneIntroduction' /\ SaysWhatItHolds' /\ Running'
         /\ \A t \in Socks : conn'[t].learned \in {conn[t].learned, None}
    <3>1. CASE s = current /\ OpenConnection(cs)
      <4>1. \A t \in Socks : ~Introducing(t)
        BY <2>1, <3>1 DEF IdentityInv, OneIntroduction
      <4>2. Running'
        BY <3>1 DEF OpenConnection, Running, Exits
      <4>. QED  BY <4>1, <4>2, <3>1, <2>4, <2>9, OpenIdentity DEF IdentityInv
    <3>2. CASE conn' = cs /\ current' = current /\ loop' \in {loop, "ended"}
      <4>1. \A t \in Socks : Introducing(t)' => Introducing(t)
        BY <2>9, <3>2 DEF Introducing, HasIntro, HasReply
      <4>2. OneIntroduction'
        BY <4>1, <2>9, <3>2 DEF IdentityInv, OneIntroduction, HasIntro, HasReply
      <4>3. SaysWhatItHolds'
        BY <2>5, <2>9, <3>2, <1>r DEF IdentityInv, SaysWhatItHolds, HasIntro, HasReply, Known, Revoked
      <4>. QED  BY <4>2, <4>3, <2>6, <2>9, <3>2 DEF Running, Exits
    <3>. QED  BY <3>1, <3>2, <2>8
  <2>11. TokensKnown' /\ NotRunning'
    <3>1. Known(saved)'
      BY <2>5, <2>7, <1>r DEF IdentityInv, TokensKnown, Known
    <3>2. \A t \in Socks : Known(conn'[t].learned)
      BY <2>10 DEF IdentityInv, TokensKnown, Known
    <3>. QED  BY <3>1, <3>2, <2>5, <2>10, <1>r DEF IdentityInv, TokensKnown, NotRunning, Known
  <2>12. LostForReason
    BY <2>1, <2>5 DEF LostForReason, Forgets
  <2>. QED  BY <2>10, <2>11, <2>12 DEF IdentityInv
<1>8. ASSUME NEW s \in Socks, ReceiveError(s), Head(conn[s].down).type = "error" PROVE Goal
  <2>1. conn[s].client # "none" /\ conn[s].down # <<>> /\ Head(conn[s].down).type = "error"
    BY <1>8, ErrorSockets DEF RegistryInv
  <2>2. HasReply(conn[s]) /\ Introducing(s)
    BY <2>1 DEF HasReply, Replies, Introducing
  <2>3. Revoked(token)
    BY <2>1, <2>2 DEF IdentityInv, SaysWhatItHolds
  <2>4. s = current /\ Running /\ conn[s].learned = None /\ \A t \in Socks \ {s} : ~Introducing(t)
    BY <2>2, OnlyHere
  <2>5. /\ loop' = loop /\ current' = current /\ saved' = saved /\ token' \in {token, None}
        /\ \/ conn' = [Taken(s) EXCEPT ![s] = CloseClient(@)]
           \/ conn' = [Taken(s) EXCEPT ![s].dropping = TRUE]
    BY <1>8, <2>4, ErrorSockets DEF RegistryInv
  <2>6. /\ conn'[s] \in {CloseClient(Taken(s)[s]), [Taken(s)[s] EXCEPT !.dropping = TRUE]}
        /\ \A t \in Socks \ {s} : conn'[t] = conn[t]
    BY <2>5, <2>1, <1>t
  <2>7. /\ conn'[s].learned = None /\ conn'[s].client \in {"open", "closing"}
        /\ ~HasIntro(conn'[s]) /\ ~HasReply(conn'[s])
    <3>1. Taken(s)[s] \in Conn
      BY <2>1, <1>t
    <3>2. CASE conn'[s] = CloseClient(Taken(s)[s])
      BY <3>1, <3>2, <2>1, <2>4, <1>t DEF Conn, CloseClient, HasIntro, HasReply
    <3>3. CASE conn'[s] = [Taken(s)[s] EXCEPT !.dropping = TRUE]
      BY <3>1, <3>3, <2>1, <2>4, <1>t DEF Conn, HasIntro, HasReply
    <3>. QED  BY <3>2, <3>3, <2>6
  <2>8. \A t \in Socks : Silent(t)
    BY <2>4, <2>6, <2>7 DEF Silent, Introducing, HasIntro, HasReply
  <2>9. SaysWhatItHolds' /\ \A t \in Socks : ~Introducing(t)'
    BY <2>8, SilentStep
  <2>10. OneIntroduction'
    <3>1. ASSUME NEW t \in Socks, conn'[t].learned # None
          PROVE  conn'[t].client # "connecting" /\ ~HasIntro(conn'[t]) /\ ~HasReply(conn'[t])
      BY <3>1, <2>6, <2>7 DEF IdentityInv, OneIntroduction, HasIntro, HasReply
    <3>. QED  BY <3>1, <2>9 DEF OneIntroduction, HasIntro, HasReply
  <2>11. Running' /\ \A t \in Socks : conn'[t].learned = conn[t].learned
    BY <2>4, <2>5, <2>6, <2>7 DEF Running
  <2>12. TokensKnown' /\ NotRunning'
    BY <2>3, <2>4, <2>5, <2>11, <1>r DEF IdentityInv, TokensKnown, NotRunning, Known, Revoked
  <2>13. LostForReason
    BY <2>3 DEF LostForReason, Forgets, Revoked
  <2>. QED  BY <2>9, <2>10, <2>12, <2>13 DEF IdentityInv
\* A failure takes the token and leaves every introduction where it is.
<1>e. ASSUME NEW s \in Socks, ReceiveError(s), Head(conn[s].down).type = "failure" PROVE Goal
  <2>1. conn[s].client # "none" /\ conn[s].down # <<>> /\ Received(s, "failure")
    BY <1>e, ErrorSockets DEF RegistryInv, Received
  <2>2. UNCHANGED <<loop, current, saved>>
    BY <1>e, ErrorSockets DEF RegistryInv
  <2>4. CASE token' = token /\ conn' = [Taken(s) EXCEPT ![current] = CloseClient(@)]
    <3>1. ASSUME NEW t \in Socks PROVE Quiet(t)
      <4>1. Taken(s)[t] \in Conn /\ conn'[t] \in {Taken(s)[t], CloseClient(Taken(s)[t])}
        BY <2>1, <2>4, <1>t
      <4>2. /\ conn'[t].learned = Taken(s)[t].learned /\ conn'[t].up = Taken(s)[t].up
            /\ conn'[t].down = Taken(s)[t].down
            /\ conn'[t].client = "connecting" => Taken(s)[t].client = "connecting"
            /\ Taken(s)[t].client = "none" => conn'[t].client = "none"
        BY <4>1 DEF CloseClient, Conn
      <4>3. CASE t = s
        BY <4>2, <4>3, <2>1, <1>t DEF Quiet, HasIntro, HasReply
      <4>4. CASE t # s
        BY <4>2, <4>4, <2>1, <1>t DEF Quiet, HasIntro, HasReply
      <4>. QED  BY <4>3, <4>4
    <3>. QED  BY <3>1, <2>2, <2>4, <1>r, <1>k, QuietStep DEF Running
  <2>5. CASE token' = None /\ conn' = [Taken(s) EXCEPT ![s].dropping = TRUE]
    <3>1. conn'[s] = [Taken(s)[s] EXCEPT !.dropping = TRUE] /\ \A t \in Socks \ {s} : conn'[t] = conn[t]
      BY <2>1, <2>5, <1>t
    <3>2. /\ conn'[s].learned = Taken(s)[s].learned /\ conn'[s].up = Taken(s)[s].up
          /\ conn'[s].down = Taken(s)[s].down /\ conn'[s].client = Taken(s)[s].client
      <4>1. Taken(s)[s] \in Conn
        BY <2>1, <1>t
      <4>. QED  BY <4>1, <3>1 DEF Conn
    <3>3. \A t \in Socks : Quiet(t)
      BY <3>1, <3>2, <2>1, <1>t DEF Quiet, HasIntro, HasReply
    <3>4. Taken(s)[s].down = Tail(conn[s].down)
      BY <1>0 DEF Taken, Conn
    <3>5. FailureTaken
      BY <2>1, <3>2, <3>4 DEF FailureTaken
    <3>6. LostForReason
      BY <3>5 DEF LostForReason
    <3>. QED  BY <3>3, <3>6, <2>2, <2>5, <1>r, QuietStep DEF Running
  <2>. QED  BY <2>4, <2>5, <1>e, ErrorSockets DEF RegistryInv
<1>9. ASSUME NEW s \in Socks, ReceiveRequest(s) PROVE Goal
  <2>1. conn[s].client # "none" /\ conn[s].down # <<>>
        /\ UNCHANGED <<loop, current, token, saved>> /\ conn' = Taken(s)
    BY <1>9 DEF ReceiveRequest, Received
  <2>2. Quiet(s)
    BY <2>1, <1>t DEF Quiet, HasIntro, HasReply
  <2>3. \A t \in Socks : Quiet(t)
    BY <2>1, <2>2, <1>t DEF Quiet, HasIntro, HasReply
  <2>. QED  BY <2>1, <2>3, <1>r, <1>k, QuietStep DEF Running
<1>10. ASSUME NEW r \in Reqs, Answer(r) PROVE Goal
  <2>1. CASE ProcessEnds("crashed")
    BY <2>1, <1>r, EndsIdentity DEF Exits
  <2>2. CASE /\ conn' = [conn EXCEPT ![current] = SendUp(@, [type |-> "response", id |-> r])]
             /\ UNCHANGED <<loop, current, token, saved>>
    <3>. DEFINE m == [type |-> "response", id |-> r]
    <3>1. m \in UpMsg /\ m.type \notin Intros
      BY UpMessages DEF Intros
    <3>2. ASSUME NEW t \in Socks PROVE conn'[t] = conn[t] \/ conn'[t] = SendUp(conn[t], m)
      BY <2>2, <1>0
    <3>. HIDE DEF m
    <3>3. ASSUME NEW t \in Socks PROVE Quiet(t)
      <4>1. CASE conn'[t] = conn[t]
        BY <4>1 DEF Quiet, HasIntro, HasReply
      <4>2. CASE conn'[t] = [conn[t] EXCEPT !.up = Append(@, m)]
        <5>1. /\ conn'[t].learned = conn[t].learned /\ conn'[t].client = conn[t].client
              /\ conn'[t].down = conn[t].down /\ conn'[t].up = Append(conn[t].up, m)
              /\ conn[t].up \in Seq(UpMsg)
          BY <4>2, <1>0 DEF Conn
        <5>2. conn[t].up = <<>> => Head(conn'[t].up) = m
          BY <5>1, <3>1
        <5>3. conn[t].up # <<>> => Head(conn'[t].up) = Head(conn[t].up)
          BY <5>1, <3>1
        <5>. QED  BY <5>1, <5>2, <5>3, <3>1 DEF Quiet, HasIntro, HasReply
      <4>. QED  BY <4>1, <4>2, <3>2 DEF SendUp
    <3>. QED  BY <3>3, <2>2, <1>r, <1>k, QuietStep DEF Running
  <2>. QED  BY <2>1, <2>2, <1>10 DEF Answer
<1>11. ASSUME NEW s \in Socks, ClientClosed(s) PROVE Goal
  <2>1. conn'[s] = [conn[s] EXCEPT !.client = "none", !.shaken = FALSE, !.down = <<>>]
        /\ \A t \in Socks \ {s} : conn'[t] = conn[t]
    BY <1>11, <1>0 DEF ClientClosed
  <2>2. conn'[s].client = "none" /\ conn'[s].learned = conn[s].learned /\ conn'[s].up = conn[s].up
        /\ conn'[s].down = <<>>
    BY <2>1, <1>0 DEF Conn
  <2>3. \A t \in Socks : Quiet(t)
    BY <2>1, <2>2 DEF Quiet, HasIntro, HasReply
  <2>4. UNCHANGED <<current, token, saved>> /\ conn[s].client # "none"
        /\ loop' \in {loop, "ended", "sleeping"} /\ (loop' # loop => s = current)
    BY <1>11 DEF ClientClosed, Rejected
  <2>5. Running
    BY <2>4 DEF IdentityInv, NotRunning
  <2>6. Running'
    BY <2>4, <2>5 DEF Running, Exits
  <2>7. ASSUME loop' = "sleeping", loop # "sleeping", NEW t \in Socks PROVE ~Introducing(t)'
    <3>1. s = current
      BY <2>4, <2>7
    <3>2. CASE t = s
      BY <3>2, <2>2 DEF Introducing
    <3>3. CASE t # s
      BY <3>1, <3>3, <2>1 DEF Introducing, IdentityInv, OneIntroduction, HasIntro, HasReply
    <3>. QED  BY <3>2, <3>3
  <2>. QED  BY <2>3, <2>4, <2>5, <2>6, <2>7, <1>r, <1>k, QuietStep
<1>. QED  BY <1>1, <1>2, <1>3, <1>4, <1>5, <1>6, <1>7, <1>8, <1>9, <1>10, <1>11, <1>e, <1>f, <1>n, <1>w
          DEF ClientStep, ClientSocketStep, ReceiveError, Received, Errors

\* What a step of the control plane may do to the messages of a socket: an
\* introduction goes, and the right answer to it may come.
Answered(t) ==
    /\ conn'[t].client = conn[t].client /\ conn'[t].learned = conn[t].learned
    /\ HasIntro(conn'[t]) => HasIntro(conn[t]) /\ Head(conn'[t].up) = Head(conn[t].up)
    /\ HasReply(conn'[t]) =>
           \/ HasReply(conn[t]) /\ Head(conn'[t].down) = Head(conn[t].down)
           \/ /\ HasIntro(conn[t])
              /\ conn[t].client # "none" =>
                    /\ Head(conn'[t].down).type = "paired" =>
                          /\ token \in {None, Head(conn'[t].down).agent}
                          /\ Head(conn'[t].down).agent # None =>
                                rows'[Head(conn'[t].down).agent] # "none"
                    /\ Head(conn'[t].down).type = "error" => Revoked(token)

\* Pairings are kept, revocations are for good.
RowsOnlyGrow ==
    \A a \in Agents : /\ rows[a] # "none" => rows'[a] # "none"
                      /\ rows[a] = "revoked" => rows'[a] = "revoked"

LEMMA AnsweredStep ==
    ASSUME RegistryInv, IdentityInv, UNCHANGED clientVars, RowsOnlyGrow,
           \A t \in Socks : Answered(t)
    PROVE  IdentityInv'
<1>0. /\ UNCHANGED <<loop, current, token, saved>>
      /\ token \in Agents \union {None} /\ saved \in Agents \union {None}
      /\ \A t \in Socks : conn[t] \in Conn
  BY DEF clientVars, RegistryInv, TypeOK
<1>1. /\ \A a \in Agents \union {None} : Known(a) => (a # None => rows'[a] # "none")
      /\ \A a \in Agents \union {None} : Revoked(a) => (a # None => rows'[a] = "revoked")
  BY DEF RowsOnlyGrow, Known, Revoked
<1>2. \A t \in Socks : Introducing(t)' => Introducing(t)
  BY DEF Answered, Introducing, HasIntro, HasReply
<1>3. OneIntroduction'
  BY <1>0, <1>2 DEF Answered, IdentityInv, OneIntroduction, HasIntro, HasReply
<1>4. SaysWhatItHolds'
  <2>. SUFFICES ASSUME NEW s \in Socks, conn'[s].client # "none"
                PROVE  /\ HasIntro(conn'[s]) /\ Head(conn'[s].up).type = "hello" =>
                              /\ token \in {None, Head(conn'[s].up).agent}
                              /\ Head(conn'[s].up).agent # None => rows'[Head(conn'[s].up).agent] # "none"
                       /\ HasIntro(conn'[s]) /\ Head(conn'[s].up).type = "pair" => token = None
                       /\ HasReply(conn'[s]) /\ Head(conn'[s].down).type = "paired" =>
                              /\ token \in {None, Head(conn'[s].down).agent}
                              /\ Head(conn'[s].down).agent # None => rows'[Head(conn'[s].down).agent] # "none"
                       /\ HasReply(conn'[s]) /\ Head(conn'[s].down).type = "error" =>
                              (token # None => rows'[token] = "revoked")
    BY <1>0 DEF SaysWhatItHolds, HasIntro, HasReply, Known, Revoked
  <2>1. HasIntro(conn'[s]) =>
            /\ Head(conn'[s].up).type = "hello" =>
                   /\ token \in {None, Head(conn'[s].up).agent}
                   /\ Head(conn'[s].up).agent # None => rows'[Head(conn'[s].up).agent] # "none"
            /\ Head(conn'[s].up).type = "pair" => token = None
    <3>. SUFFICES ASSUME HasIntro(conn'[s])
                  PROVE  /\ Head(conn'[s].up).type = "hello" =>
                                /\ token \in {None, Head(conn'[s].up).agent}
                                /\ Head(conn'[s].up).agent # None => rows'[Head(conn'[s].up).agent] # "none"
                         /\ Head(conn'[s].up).type = "pair" => token = None
      OBVIOUS
    <3>1. HasIntro(conn[s]) /\ Head(conn'[s].up) = Head(conn[s].up) /\ conn[s].client # "none"
      BY DEF Answered
    <3>2. conn[s].up # <<>>
      BY <3>1 DEF HasIntro
    <3>3. Head(conn[s].up).type = "hello" => Head(conn[s].up).agent \in Agents
      BY <3>2, HeadOf, UpMessages DEF RegistryInv
    <3>. QED  BY <3>1, <3>3, <1>1 DEF IdentityInv, SaysWhatItHolds
  <2>2. CASE HasReply(conn[s]) /\ Head(conn'[s].down) = Head(conn[s].down)
    <3>1. conn[s].down # <<>>
      BY <2>2 DEF HasReply
    <3>2. Head(conn[s].down).type = "paired" => Head(conn[s].down).agent \in Agents
      BY <3>1, HeadOf, DownMessages DEF RegistryInv
    <3>. QED  BY <2>1, <2>2, <3>2, <1>0, <1>1 DEF Answered, IdentityInv, SaysWhatItHolds
  <2>3. CASE ~(HasReply(conn[s]) /\ Head(conn'[s].down) = Head(conn[s].down))
    BY <2>1, <2>3, <1>0, <1>1 DEF Answered
  <2>. QED  BY <2>2, <2>3
<1>5. TokensKnown'
  <2>1. \A t \in Socks : conn'[t].learned = conn[t].learned /\ conn[t].learned \in Agents \union {None}
    BY <1>0, ConnFields DEF Answered
  <2>. QED  BY <2>1, <1>0, <1>1 DEF IdentityInv, TokensKnown, Known, Revoked, Running
<1>6. NotRunning'
  BY <1>0 DEF Answered, IdentityInv, NotRunning, Running
<1>. QED  BY <1>3, <1>4, <1>5, <1>6 DEF IdentityInv

\* A socket that is closed, or whose queue from the agent is gone.
LEMMA ClosedIsAnswered ==
    ASSUME RegistryInv, NEW t \in Socks
    PROVE  /\ conn'[t] = conn[t] => Answered(t)
           /\ conn'[t] = CloseControl(conn[t]) => Answered(t)
           /\ conn'[t] = [conn[t] EXCEPT !.control = "none", !.agent = None, !.up = <<>>] => Answered(t)
           /\ conn[t].up # <<>> /\ conn'[t] = Rest(t) => Answered(t)
<1>0. conn[t] \in Conn /\ Orderly(conn[t])
  BY DEF RegistryInv, TypeOK, SocketsOrderly
<1>1. conn'[t] = conn[t] => Answered(t)
  BY DEF Answered, HasIntro, HasReply
<1>2. ASSUME conn'[t] = CloseControl(conn[t]) PROVE Answered(t)
  <2>1. /\ conn'[t].client = conn[t].client /\ conn'[t].learned = conn[t].learned
        /\ conn'[t].up = conn[t].up /\ conn'[t].down = conn[t].down
    BY <1>0, <1>2 DEF CloseControl, Conn
  <2>. QED  BY <2>1 DEF Answered, HasIntro, HasReply
<1>3. ASSUME conn'[t] = [conn[t] EXCEPT !.control = "none", !.agent = None, !.up = <<>>]
      PROVE  Answered(t)
  <2>1. /\ conn'[t].client = conn[t].client /\ conn'[t].learned = conn[t].learned
        /\ conn'[t].up = <<>> /\ conn'[t].down = conn[t].down
    BY <1>0, <1>3 DEF Conn
  <2>. QED  BY <2>1 DEF Answered, HasIntro, HasReply
<1>4. ASSUME conn[t].up # <<>>, conn'[t] = Rest(t) PROVE Answered(t)
  <2>1. /\ conn'[t].client = conn[t].client /\ conn'[t].learned = conn[t].learned
        /\ conn'[t].down = conn[t].down
    BY <1>0, <1>4 DEF Rest, Conn
  <2>2. ~HasIntro(conn'[t])
    BY <1>0, <1>4, HeadFacts DEF Rest
  <2>. QED  BY <2>1, <2>2 DEF Answered, HasReply
<1>. QED  BY <1>1, <1>2, <1>3, <1>4

\* The answer m to the introduction on s, or none if s has been closed.
LEMMA ReplyIsAnswer ==
    ASSUME RegistryInv, NEW s \in Socks, HasIntro(conn[s]), NEW m \in DownMsg,
           conn'[s].client = conn[s].client, conn'[s].learned = conn[s].learned,
           conn'[s].up = Tail(conn[s].up),
           conn'[s].down \in {conn[s].down, Append(conn[s].down, m)},
           conn[s].client # "none" => /\ m.type = "paired" => /\ token \in {None, m.agent}
                                                              /\ m.agent # None => rows'[m.agent] # "none"
                                      /\ m.type = "error" => Revoked(token)
    PROVE  Answered(s)
<1>0. conn[s] \in Conn /\ Orderly(conn[s])
  BY DEF RegistryInv, TypeOK, SocketsOrderly
<1>1. conn[s].down = <<>> /\ conn[s].up # <<>>
  BY <1>0, HeadFacts DEF HasIntro
<1>2. Append(<<>>, m) = <<m>> /\ <<m>> # <<>> /\ Head(<<m>>) = m
  OBVIOUS
<1>3. ~HasIntro(conn'[s])
  <2>1. [conn[s] EXCEPT !.up = Tail(@)].up = Tail(conn[s].up)
    BY <1>0 DEF Conn
  <2>. QED  BY <2>1, <1>0, <1>1, HeadFacts DEF HasIntro
<1>4. HasReply(conn'[s]) => Head(conn'[s].down) = m
  BY <1>1, <1>2 DEF HasReply
<1>. QED  BY <1>3, <1>4 DEF Answered

LEMMA RefuseIsAnswer ==
    ASSUME RegistryInv, NEW s \in Socks, conn[s].up # <<>>, Refuse(s),
           HasIntro(conn[s]) \/ conn[s].control = "closing",
           HasIntro(conn[s]) /\ conn[s].client # "none" => Revoked(token)
    PROVE  \A t \in Socks : Answered(t)
<1>0. conn \in [Socks -> Conn] /\ \A t \in Socks : conn[t] \in Conn /\ Orderly(conn[t])
  BY DEF RegistryInv, TypeOK, SocketsOrderly
<1>. DEFINE m == [type |-> "error"]
<1>m. m \in DownMsg /\ m.type = "error"
  BY DownMessages
<1>1. conn'[s] = Thrown(Rest(s), "error") /\ \A t \in Socks \ {s} : conn'[t] = conn[t]
  BY <1>0 DEF Refuse
<1>2. Rest(s) \in Conn
  BY TakeUpType DEF RegistryInv
<1>3. /\ Rest(s).client = conn[s].client /\ Rest(s).learned = conn[s].learned
      /\ Rest(s).up = Tail(conn[s].up) /\ Rest(s).down = conn[s].down
      /\ Rest(s).control = conn[s].control
  BY <1>0 DEF Rest, Conn
<1>4. /\ conn'[s].client = conn[s].client /\ conn'[s].learned = conn[s].learned
      /\ conn'[s].up = Tail(conn[s].up)
      /\ conn'[s].down = IF conn[s].control = "open" /\ conn[s].client # "none"
                            THEN Append(conn[s].down, m) ELSE conn[s].down
  BY <1>1, <1>2, <1>3, ThrownType DEF Errors
<1>. HIDE DEF m
<1>5. Answered(s)
  <2>1. CASE HasIntro(conn[s])
    BY <2>1, <1>4, <1>m, ReplyIsAnswer
  <2>2. CASE ~HasIntro(conn[s])
    <3>1. conn'[s].down = conn[s].down
      BY <2>2, <1>4
    <3>2. ~HasIntro([conn[s] EXCEPT !.up = Tail(@)])
      BY <1>0, HeadFacts
    <3>3. ~HasIntro(conn'[s])
      BY <3>2, <1>4, <1>0 DEF HasIntro, Conn
    <3>. QED  BY <3>1, <3>3, <1>4 DEF Answered, HasReply
  <2>. QED  BY <2>1, <2>2
<1>. QED  BY <1>1, <1>5, ClosedIsAnswered

\* A failure answers nothing.
LEMMA FailureIsAnswer ==
    ASSUME RegistryInv, NEW s \in Socks, conn[s].up # <<>>, NEW r \in Conn,
           r.client = conn[s].client, r.learned = conn[s].learned,
           r.up = Tail(conn[s].up), r.down = conn[s].down,
           conn'[s] = Thrown(r, "failure")
    PROVE  Answered(s)
<1>0. conn[s] \in Conn /\ Orderly(conn[s]) /\ conn[s].down \in Seq(DownMsg)
  BY ConnFields DEF RegistryInv, TypeOK, SocketsOrderly
<1>. DEFINE m == [type |-> "failure"]
<1>m. m \in DownMsg /\ m.type \notin Replies
  BY DEF DownMsg, Errors, Replies
<1>1. /\ conn'[s].client = conn[s].client /\ conn'[s].learned = conn[s].learned
      /\ conn'[s].up = Tail(conn[s].up)
      /\ conn'[s].down \in {conn[s].down, Append(conn[s].down, m)}
  BY ThrownType DEF Errors
<1>. HIDE DEF m
<1>2. ~HasIntro(conn'[s])
  <2>1. [conn[s] EXCEPT !.up = Tail(@)].up = Tail(conn[s].up)
    BY <1>0 DEF Conn
  <2>. QED  BY <2>1, <1>0, <1>1, HeadFacts DEF HasIntro
<1>3. HasReply(conn'[s]) => HasReply(conn[s]) /\ Head(conn'[s].down) = Head(conn[s].down)
  <2>1. CASE conn'[s].down = conn[s].down
    BY <2>1 DEF HasReply
  <2>2. CASE conn'[s].down = Append(conn[s].down, m)
    <3>1. conn[s].down = <<>> => Head(conn'[s].down) = m
      BY <2>2, <1>0, <1>m
    <3>2. conn[s].down # <<>> => Head(conn'[s].down) = Head(conn[s].down)
      BY <2>2, <1>0, <1>m
    <3>. QED  BY <3>1, <3>2, <1>m DEF HasReply
  <2>. QED  BY <2>1, <2>2, <1>1
<1>. QED  BY <1>1, <1>2, <1>3 DEF Answered

LEMMA AttachIsAnswer ==
    ASSUME RegistryInv, NEW s \in Socks, HasIntro(conn[s]), NEW a \in Agents,
           Attach(s, a),
           rows'[a] # "none", conn[s].client # "none" => token \in {None, a}
    PROVE  \A t \in Socks : Answered(t)
<1>0. conn \in [Socks -> Conn] /\ \A t \in Socks : conn[t] \in Conn /\ Orderly(conn[t])
  BY DEF RegistryInv, TypeOK, SocketsOrderly
<1>. DEFINE m == [type |-> "paired", agent |-> a]
            r == [Rest(s) EXCEPT !.agent = a]
<1>m. m \in DownMsg /\ m.type = "paired" /\ m.agent = a
  BY DownMessages
<1>1. conn'[s] = SendDown(r, m) \/ conn'[s] = Thrown(r, "failure")
  BY AttachForms
<1>o. \A t \in Socks \ {s} : conn'[t] = conn[t] \/ conn'[t] = CloseControl(conn[t])
  BY AttachForms
<1>2. r \in Conn
  BY TakeUpType DEF RegistryInv, HasIntro
<1>3. /\ r.client = conn[s].client /\ r.learned = conn[s].learned
      /\ r.up = Tail(conn[s].up) /\ r.down = conn[s].down
  BY <1>0 DEF Rest, Conn
<1>. HIDE DEF m, r
<1>4. CASE conn'[s] = SendDown(r, m)
  <2>1. /\ conn'[s].client = conn[s].client /\ conn'[s].learned = conn[s].learned
        /\ conn'[s].up = Tail(conn[s].up)
        /\ conn'[s].down \in {conn[s].down, Append(conn[s].down, m)}
    BY <1>4, <1>2, <1>3 DEF SendDown, Conn
  <2>. QED  BY <2>1, <1>m, <1>o, ReplyIsAnswer, ClosedIsAnswered
<1>5. CASE conn'[s] = Thrown(r, "failure")
  BY <1>2, <1>3, <1>5, <1>o, FailureIsAnswer, ClosedIsAnswered DEF HasIntro
<1>. QED  BY <1>1, <1>4, <1>5

LEMMA ControlIdentity ==
    ASSUME RegistryInv, IdentityInv, ControlStep, UNCHANGED clientVars
    PROVE  IdentityInv' /\ LostForReason
<1>0. /\ conn \in [Socks -> Conn] /\ \A t \in Socks : conn[t] \in Conn /\ Orderly(conn[t])
      /\ token \in Agents \union {None} /\ saved \in Agents \union {None}
      /\ attached \in [Agents -> Socks \union {None}] /\ rows \in [Agents -> {"none", "paired", "revoked"}]
  BY DEF RegistryInv, TypeOK, SocketsOrderly
<1>k. LostForReason
  BY DEF clientVars, LostForReason, Forgets
<1>r. rows' = rows => RowsOnlyGrow
  BY DEF RowsOnlyGrow
<1>. DEFINE Goal == RowsOnlyGrow /\ \A t \in Socks : Answered(t)
<1>u. ASSUME conn' = conn, rows' = rows PROVE Goal
  BY <1>u, <1>r, ClosedIsAnswered
<1>1. ASSUME NEW c \in Codes, CreateCode(c) \/ CodeExpires(c) PROVE Goal
  BY <1>1, <1>u DEF CreateCode, CodeExpires
<1>2. ASSUME NEW s \in Socks, TakePair(s) PROVE Goal
  <2>. DEFINE c == Head(conn[s].up).code
  <2>1. conn[s].up # <<>> /\ Head(conn[s].up).type = "pair" /\ HasIntro(conn[s])
    BY <1>2 DEF TakePair, Arrived, HasIntro, Intros
  <2>2. conn[s].client # "none" => token = None
    BY <2>1 DEF IdentityInv, SaysWhatItHolds
  <2>3. CASE codes[c] # "valid"
    <3>1. Refuse(s) /\ rows' = rows
      BY <2>3, <1>2 DEF TakePair
    <3>2. conn[s].client # "none" => Revoked(token)
      BY <2>2 DEF Revoked
    <3>. QED  BY <2>1, <3>1, <3>2, <1>r, RefuseIsAnswer
  <2>4. CASE codes[c] = "valid"
    <3>1. PICK a \in Agents : rows[a] = "none" /\ rows' = [rows EXCEPT ![a] = "paired"] /\ Attach(s, a)
      BY <2>4, <1>2 DEF TakePair
    <3>2. RowsOnlyGrow /\ rows'[a] # "none"
      BY <3>1, <1>0 DEF RowsOnlyGrow
    <3>. QED  BY <2>1, <2>2, <3>1, <3>2, AttachIsAnswer
  <2>. QED  BY <2>3, <2>4
<1>3. ASSUME NEW s \in Socks, TakeHello(s) PROVE Goal
  <2>. DEFINE a == Head(conn[s].up).agent
  <2>1. conn[s].up # <<>> /\ Head(conn[s].up).type = "hello" /\ HasIntro(conn[s]) /\ rows' = rows
    BY <1>3 DEF TakeHello, Arrived, HasIntro, Intros
  <2>2. a \in Agents
    BY <2>1, HeadOf, UpMessages DEF RegistryInv
  <2>3. conn[s].client # "none" => token \in {None, a} /\ Known(a)
    BY <2>1 DEF IdentityInv, SaysWhatItHolds
  <2>4. CASE rows[a] = "paired"
    <3>1. Attach(s, a)
      BY <2>4, <1>3 DEF TakeHello
    <3>. QED  BY <2>1, <2>2, <2>3, <2>4, <3>1, <1>r, AttachIsAnswer
  <2>5. CASE rows[a] # "paired"
    <3>1. Refuse(s)
      BY <2>5, <1>3 DEF TakeHello
    <3>2. conn[s].client # "none" => Revoked(token)
      BY <2>2, <2>3, <2>5, <1>0 DEF Known, Revoked
    <3>. QED  BY <2>1, <3>1, <3>2, <1>r, RefuseIsAnswer
  <2>. QED  BY <2>4, <2>5
<1>4. ASSUME NEW s \in Socks, TakeResponse(s) PROVE Goal
  <2>1. conn[s].control # "none" /\ conn[s].up # <<>> /\ Head(conn[s].up).type = "response" /\ rows' = rows
    BY <1>4 DEF TakeResponse, Arrived
  <2>2. ~HasIntro(conn[s])
    BY <2>1 DEF HasIntro, Intros
  <2>3. CASE conn[s].agent = None
    <3>1. Refuse(s)
      BY <2>3, <1>4 DEF TakeResponse
    <3>2. conn[s].control # "open"
      <4>1. conn[s].up \in Seq(UpMsg)
        BY <1>0, ConnFields
      <4>2. Head(conn[s].up) = conn[s].up[1]
        BY <4>1, <2>1
      <4>3. Orderly(conn[s])
        BY <1>0
      <4>. QED  BY <4>2, <4>3, <2>1, <2>3 DEF Orderly, Intros
    <3>3. conn[s].control = "closing"
      BY <3>2, <2>1, <1>0, ConnFields
    <3>. QED  BY <2>1, <2>2, <3>1, <3>3, <1>r, RefuseIsAnswer
  <2>4. CASE conn[s].agent # None
    <3>1. conn'[s] = Rest(s) /\ \A t \in Socks \ {s} : conn'[t] = conn[t]
      BY <2>4, <1>4, <1>0 DEF TakeResponse
    <3>. QED  BY <2>1, <3>1, <1>r, ClosedIsAnswered
  <2>. QED  BY <2>3, <2>4
<1>5. ASSUME NEW s \in Socks, ControlClosed(s) PROVE Goal
  <2>1. /\ conn'[s] = [conn[s] EXCEPT !.control = "none", !.agent = None, !.up = <<>>]
        /\ \A t \in Socks \ {s} : conn'[t] = conn[t]
        /\ rows' = rows
    BY <1>5, <1>0 DEF ControlClosed
  <2>. QED  BY <2>1, <1>r, ClosedIsAnswered
<1>6. ASSUME NEW a \in Agents, Revoke(a) PROVE Goal
  <2>1. \A t \in Socks : conn'[t] = conn[t] \/ conn'[t] = CloseControl(conn[t])
    BY <1>6 DEF Revoke
  <2>2. RowsOnlyGrow
    BY <1>6, <1>0 DEF Revoke, RowsOnlyGrow
  <2>. QED  BY <2>1, <2>2, ClosedIsAnswered
<1>7. ASSUME NEW r \in Reqs, NEW a \in Agents, Request(r, a) PROVE Goal
  <2>. DEFINE s == attached[a]
              m == [type |-> "request", id |-> r]
  <2>1. s \in Socks /\ rows' = rows /\ conn'[s] = SendDown(conn[s], m)
        /\ \A t \in Socks \ {s} : conn'[t] = conn[t]
    BY <1>7, <1>0 DEF Request
  <2>2. m \in DownMsg /\ m.type \notin Replies
    BY DownMessages DEF Replies
  <2>3. Answered(s)
    <3>. HIDE DEF s, m
    <3>1. CASE conn'[s] = [conn[s] EXCEPT !.down = Append(@, m)]
      <4>1. /\ conn'[s].client = conn[s].client /\ conn'[s].learned = conn[s].learned
            /\ conn'[s].up = conn[s].up /\ conn'[s].down = Append(conn[s].down, m)
            /\ conn[s].down \in Seq(DownMsg)
        BY <3>1, <2>1, <1>0 DEF Conn
      <4>2. conn[s].down = <<>> => Head(conn'[s].down) = m
        BY <4>1, <2>2
      <4>3. conn[s].down # <<>> => Head(conn'[s].down) = Head(conn[s].down)
        BY <4>1, <2>2
      <4>. QED  BY <4>1, <4>2, <4>3, <2>2 DEF Answered, HasIntro, HasReply
    <3>2. CASE conn'[s] = conn[s]
      BY <3>2, <2>1, ClosedIsAnswered
    <3>. QED  BY <3>1, <3>2, <2>1 DEF SendDown
  <2>. QED  BY <2>1, <2>3, <1>r, ClosedIsAnswered
<1>8. ASSUME NEW r \in Reqs, Timeout(r) PROVE Goal
  BY <1>8, <1>u DEF Timeout
<1>f. ASSUME NEW s \in Socks, Fails(s) PROVE Goal
  <2>1. /\ conn[s].up # <<>> /\ rows' = rows
        /\ conn'[s] = Thrown(Rest(s), "failure") /\ \A t \in Socks \ {s} : conn'[t] = conn[t]
    BY <1>f, <1>0 DEF Fails
  <2>2. Rest(s) \in Conn
    BY <2>1, TakeUpType DEF RegistryInv
  <2>3. /\ Rest(s).client = conn[s].client /\ Rest(s).learned = conn[s].learned
        /\ Rest(s).up = Tail(conn[s].up) /\ Rest(s).down = conn[s].down
    BY <1>0 DEF Rest, Conn
  <2>. QED  BY <2>1, <2>2, <2>3, <1>r, FailureIsAnswer, ClosedIsAnswered
<1>9. ASSUME ControlRestart PROVE Goal
  <2>1. rows' = rows /\ \A t \in Socks :
            conn'[t] = [conn[t] EXCEPT !.control = "none", !.agent = None, !.up = <<>>]
    BY <1>9 DEF ControlRestart
  <2>. QED  BY <2>1, <1>r, ClosedIsAnswered
<1>10. Goal
  BY <1>1, <1>2, <1>3, <1>4, <1>5, <1>6, <1>7, <1>8, <1>9, <1>f DEF ControlStep, ControlSocketStep
<1>. QED  BY <1>10, <1>k, AnsweredStep

LEMMA IdentityInitStep ==
    /\ Init => IdentityInv
    /\ RegistryInv /\ IdentityInv /\ [Next]_vars =>
           IdentityInv' /\ (UNCHANGED vars \/ LostForReason)
<1>1. ASSUME Init PROVE IdentityInv
  <2>1. \A s \in Socks : conn[s].client = "none" /\ conn[s].learned = None
    BY <1>1 DEF Init, NoConn
  <2>. QED  BY <2>1, <1>1 DEF Init, IdentityInv, OneIntroduction, Introducing, SaysWhatItHolds,
                              TokensKnown, NotRunning, Running, Known, Revoked
<1>2. ASSUME RegistryInv, IdentityInv, [Next]_vars
      PROVE  IdentityInv' /\ (UNCHANGED vars \/ LostForReason)
  <2>1. CASE UNCHANGED vars
    BY <2>1, <1>2 DEF vars, IdentityInv, OneIntroduction, Introducing, SaysWhatItHolds, HasIntro,
                      HasReply, TokensKnown, NotRunning, Running, Known, Revoked
  <2>2. CASE ClientStep /\ UNCHANGED controlVars
    BY <2>2, <1>2, ClientIdentity
  <2>3. CASE ControlStep /\ UNCHANGED clientVars
    BY <2>3, <1>2, ControlIdentity
  <2>. QED  BY <2>1, <2>2, <2>3, <1>2 DEF Next
<1>. QED  BY <1>1, <1>2

THEOREM IdentityInvariant == Spec => []IdentityInv
<1>1. Init => IdentityInv
  BY IdentityInitStep
<1>2. RegistryInv /\ IdentityInv /\ [Next]_vars => IdentityInv'
  BY IdentityInitStep
<1>. QED  BY <1>1, <1>2, RegistryInvariant, PTL DEF Spec

(* AgentClient's handlers of "paired" and "error": of all errors that reach the
   agent, on whichever socket and however late, and whatever becomes of the file
   in between, only one that answers a revoked token makes the agent drop its
   token, or one the gateway sends because something failed (agent-gateway.ts:33). *)
THEOREM TokenLostForReasonHolds == Spec => TokenLostForReason
<1>1. RegistryInv /\ IdentityInv /\ [Next]_vars => [LostForReason]_vars
  BY IdentityInitStep
<1>2. Spec => []IdentityInv
  BY IdentityInvariant
<1>. QED  BY <1>1, <1>2, RegistryInvariant, PTL
          DEF Spec, TokenLostForReason, LostForReason
=============================================================================
