------------------------------ MODULE AgentLink ------------------------------
(***************************************************************************)
(* The link between an agent and the control plane: AgentClient            *)
(* (apps/server/src/agent/agent-client.ts) at one end of each web socket,  *)
(* AgentGateway, AgentRegistry and PairingService (apps/control-plane/src) *)
(* at the other.                                                           *)
(*                                                                         *)
(* Both programs run on one thread, so a step is what one of them does for *)
(* one event.  The network keeps the order of the messages of a socket,    *)
(* may close it at any time, and loses what was not delivered by then.     *)
(* The token file is written and removed by calls that end later and may   *)
(* fail.  What the agent's request handler does is not modelled, and       *)
(* events, which change nothing here, are left out.                        *)
(***************************************************************************)
EXTENDS Sequences

CONSTANTS
    Agents,     \* bound: agents the registry can create
    Codes,      \* bound: pairing codes that can be created
    Socks,      \* bound: sockets at once
    Reqs,       \* bound: requests at once
    GatewayFails,   \* whether a message can be refused for other reasons than
                    \* the credentials: it does not parse, or the database fails
    None

ASSUME NoneAssumption == None \notin Agents \union Codes \union Socks
ASSUME GatewayAssumption == GatewayFails \in BOOLEAN

VARIABLES
    conn,       \* the sockets: both ends and the messages in between
    loop,       \* where the agent's runLoop is
    stopped,    \* the field of the same name
    current,    \* the field socket: the newest one
    token,      \* the field of the same name
    saved,      \* the token file
    option,     \* the option pairingCode of the running process
    executing,  \* requests the agent is working on
    codes,      \* the table pairing_codes
    rows,       \* the table agents
    attached,   \* the registry's map sockets
    pending     \* the registry's map pending: the agent a request was sent to

clientVars == <<loop, stopped, current, token, saved, option, executing>>
controlVars == <<codes, rows, attached, pending>>
vars == <<conn, loop, stopped, current, token, saved, option, executing,
          codes, rows, attached, pending>>

\* An error is PAIRING_INVALID for credentials that are not good ("error"), or
\* for anything else that went wrong ("failure"): only the text differs.
Errors == {"error", "failure"}

UpMsg == [type : {"hello"}, agent : Agents] \union [type : {"pair"}, code : Codes]
             \union [type : {"response"}, id : Reqs]
DownMsg == [type : {"paired"}, agent : Agents] \union [type : {"request"}, id : Reqs]
               \union [type : Errors]

\* client, control: the two ends.  agent: agentId of the gateway's handler.
\* learned: the agent id being written to the file; file: whether the write has
\* opened (and emptied) it, "lost" when it was removed since.  dropping: the
\* file is being removed for an error on this socket.  shaken: handshaken.
Conn == [client : {"none", "connecting", "open", "closing"},
         control : {"none", "open", "closing"},
         agent : Agents \union {None}, learned : Agents \union {None},
         file : {"shut", "open", "lost"}, dropping : BOOLEAN,
         shaken : BOOLEAN, up : Seq(UpMsg), down : Seq(DownMsg)]

NoConn == [client |-> "none", control |-> "none", agent |-> None, learned |-> None,
           file |-> "shut", dropping |-> FALSE, shaken |-> FALSE, up |-> <<>>, down |-> <<>>]

\* "off": the user ended the process.  "crashed", "failed": it ended by itself,
\* for an answer it could not send, for a token it could not write.
Exits == {"off", "crashed", "failed"}
Loops == Exits \union {"waiting", "sleeping", "ended"}

TypeOK ==
    /\ conn \in [Socks -> Conn]
    /\ loop \in Loops /\ stopped \in BOOLEAN
    /\ current \in Socks \union {None}
    /\ token \in Agents \union {None} /\ saved \in Agents \union {None}
    /\ option \in Codes \union {None}
    /\ executing \subseteq Reqs
    /\ codes \in [Codes -> {"none", "valid", "gone"}]
    /\ rows \in [Agents -> {"none", "paired", "revoked"}]
    /\ attached \in [Agents -> Socks \union {None}]
    /\ pending \in [Reqs -> Agents \union {None}]

Init ==
    /\ conn = [s \in Socks |-> NoConn]
    /\ loop = "off" /\ stopped = FALSE /\ current = None
    /\ token = None /\ saved = None /\ option = None /\ executing = {}
    /\ codes = [c \in Codes |-> "none"]
    /\ rows = [a \in Agents |-> "none"]
    /\ attached = [a \in Agents |-> None]
    /\ pending = [r \in Reqs |-> None]

-----------------------------------------------------------------------------
(* Sockets. *)

CloseClient(c) == [c EXCEPT !.client = IF @ \in {"connecting", "open"} THEN "closing" ELSE @]
CloseControl(c) == [c EXCEPT !.control = IF @ = "open" THEN "closing" ELSE @]

\* Sending on a socket that is not open does nothing.
SendUp(c, m) ==
    IF c.client = "open" /\ c.control # "none" THEN [c EXCEPT !.up = Append(@, m)] ELSE c
SendDown(c, m) ==
    IF c.control = "open" /\ c.client # "none" THEN [c EXCEPT !.down = Append(@, m)] ELSE c

Unused(s) ==
    /\ conn[s].client = "none" /\ conn[s].control = "none"
    /\ conn[s].learned = None /\ ~conn[s].dropping

-----------------------------------------------------------------------------
(* The agent. *)

\* runLoop calls openConnection; cs: the sockets as this step leaves them.
OpenConnection(cs) ==
    \E s \in Socks :
        /\ Unused(s)
        /\ conn' = [cs EXCEPT ![s] = [NoConn EXCEPT !.client = "connecting"]]
        /\ current' = s
        /\ loop' = "waiting"

\* openConnection has failed.
Rejected == IF stopped THEN "ended" ELSE "sleeping"

Start(c) ==
    /\ loop \in Exits
    /\ token' = saved
    /\ option' = c
    /\ OpenConnection(conn)
    /\ UNCHANGED <<stopped, saved, executing>>

WakeUp ==
    /\ loop = "sleeping"
    /\ IF stopped
          THEN loop' = "ended" /\ UNCHANGED <<conn, current>>
          ELSE OpenConnection(conn)
    /\ UNCHANGED <<stopped, token, saved, option, executing>>

\* The event open: the agent says who it is, or pairs.
Opened(s) ==
    LET c == [conn[s] EXCEPT !.client = "open", !.control = "open"] IN
    /\ conn[s].client = "connecting"
    /\ IF token = None /\ option = None
          THEN /\ conn' = [conn EXCEPT ![s] = CloseClient(c)]
               /\ loop' = Rejected
          ELSE /\ conn' = [conn EXCEPT ![s] =
                      SendUp(c, IF token # None THEN [type |-> "hello", agent |-> token]
                                                ELSE [type |-> "pair", code |-> option])]
               /\ UNCHANGED loop
    /\ UNCHANGED <<stopped, current, token, saved, option, executing>>

\* Next message for the agent on s; without: the sockets once it is taken.
Received(s, type) ==
    conn[s].client # "none" /\ conn[s].down # <<>> /\ Head(conn[s].down).type = type
Taken(s) == [conn EXCEPT ![s].down = Tail(@)]

\* The token is kept in memory at once and then written to the file.
ReceivePaired(s) ==
    LET a == Head(conn[s].down).agent IN
    /\ Received(s, "paired")
    /\ token' = a
    /\ conn' = [Taken(s) EXCEPT ![s].learned = a]
    /\ UNCHANGED <<loop, stopped, current, saved, option, executing>>

\* The process ends: the system closes its sockets and files.
ProcessEnds(how) ==
    /\ loop' = how /\ stopped' = FALSE /\ current' = None
    /\ token' = None /\ option' = None /\ executing' = {}
    /\ conn' = [s \in Socks |->
           [NoConn EXCEPT !.control = conn[s].control, !.agent = conn[s].agent,
                          !.up = conn[s].up]]
    /\ UNCHANGED saved

\* writeFile opens the file, which empties it; such a file cannot be loaded.
FileOpened(s) ==
    /\ conn[s].learned # None /\ conn[s].file = "shut"
    /\ saved' = None
    /\ conn' = [conn EXCEPT ![s].file = "open"]
    /\ UNCHANGED <<loop, stopped, current, token, option, executing>>

\* mkdir, the opening or the writing fails, and nobody handles the rejection.
WriteFails(s) == conn[s].learned # None /\ ProcessEnds("failed")

\* The file is written.  If the loop still waits for this socket it goes on
\* at once, to open the next one.
TokenSaved(s) ==
    LET cs == [conn EXCEPT ![s].learned = None, ![s].file = "shut", ![s].shaken = TRUE] IN
    /\ conn[s].learned # None /\ conn[s].file # "shut"
    /\ saved' = IF conn[s].file = "open" THEN conn[s].learned ELSE saved
    /\ IF s = current /\ loop = "waiting"
          THEN IF stopped THEN loop' = "ended" /\ conn' = cs /\ UNCHANGED current
                          ELSE OpenConnection(cs)
          ELSE conn' = cs /\ UNCHANGED <<loop, current>>
    /\ UNCHANGED <<stopped, token, option, executing>>

\* With a pairing code the token is forgotten, and its file removed before the
\* newest socket is closed, on whichever the error came.
ReceiveError(s) ==
    /\ \E type \in Errors : Received(s, type)
    /\ IF option # None
          THEN token' = None /\ conn' = [Taken(s) EXCEPT ![s].dropping = TRUE]
          ELSE conn' = [Taken(s) EXCEPT ![current] = CloseClient(@)] /\ UNCHANGED token
    /\ UNCHANGED <<loop, stopped, current, saved, option, executing>>

\* unlink has ended; that it failed is ignored.
Unlinked(s) ==
    /\ conn[s].dropping
    /\ \E done \in BOOLEAN :
           LET Left(c) == IF done /\ c.file = "open" THEN [c EXCEPT !.file = "lost"] ELSE c
               cs == [[t \in Socks |-> Left(conn[t])] EXCEPT ![s].dropping = FALSE] IN
           /\ saved' = IF done THEN None ELSE saved
           /\ conn' = [cs EXCEPT ![current] = CloseClient(@)]
    /\ UNCHANGED <<loop, stopped, current, token, option, executing>>

ReceiveRequest(s) ==
    /\ Received(s, "request")
    /\ executing' = executing \union {Head(conn[s].down).id}
    /\ conn' = Taken(s)
    /\ UNCHANGED <<loop, stopped, current, token, saved, option>>

\* The answer goes to the newest socket.  send throws while that socket is
\* connecting, the catch sends again, and nobody handles the rejection.
Answer(r) ==
    /\ r \in executing
    /\ IF conn[current].client = "connecting"
          THEN ProcessEnds("crashed")
          ELSE /\ executing' = executing \ {r}
               /\ conn' = [conn EXCEPT ![current] = SendUp(@, [type |-> "response", id |-> r])]
               /\ UNCHANGED <<loop, stopped, current, token, saved, option>>

\* The event close at the agent's end.
ClientClosed(s) ==
    /\ conn[s].client # "none"
    /\ conn' = [conn EXCEPT ![s].client = "none", ![s].shaken = FALSE, ![s].down = <<>>]
    /\ loop' = IF s = current /\ loop = "waiting" /\ ~conn[s].shaken THEN Rejected ELSE loop
    /\ UNCHANGED <<stopped, current, token, saved, option, executing>>

Stop ==
    /\ loop \in {"waiting", "sleeping"} /\ ~stopped
    /\ stopped' = TRUE
    /\ conn' = [conn EXCEPT ![current] = CloseClient(@)]
    /\ UNCHANGED <<loop, current, token, saved, option, executing>>

\* The shutdown after stop has ended.
Exit == stopped /\ ProcessEnds("off")

-----------------------------------------------------------------------------
(* The control plane. *)

CreateCode(c) ==
    /\ codes[c] = "none"
    /\ codes' = [codes EXCEPT ![c] = "valid"]
    /\ UNCHANGED <<conn, rows, attached, pending>>

CodeExpires(c) ==
    /\ codes[c] = "valid"
    /\ codes' = [codes EXCEPT ![c] = "gone"]
    /\ UNCHANGED <<conn, rows, attached, pending>>

Arrived(s, type) ==
    conn[s].control # "none" /\ conn[s].up # <<>> /\ Head(conn[s].up).type = type

\* The socket once its next message is taken.
Rest(s) == [conn[s] EXCEPT !.up = Tail(@)]

\* The handler throws: an error is sent and the socket closed.
Thrown(c, type) == CloseControl(SendDown(c, [type |-> type]))
Refuse(s) == conn' = [conn EXCEPT ![s] = Thrown(Rest(s), "error")]

\* registry.attach and the reply: the socket the agent had is closed.  Last of
\* all attach writes last_seen, and the agent stays attached if that fails.
Attach(s, a) ==
    LET c == [Rest(s) EXCEPT !.agent = a] IN
    /\ \E reply \in {SendDown(c, [type |-> "paired", agent |-> a])}
                        \union (IF GatewayFails THEN {Thrown(c, "failure")} ELSE {}) :
           conn' = [t \in Socks |->
               IF t = s THEN reply
               ELSE IF t = attached[a] THEN CloseControl(conn[t]) ELSE conn[t]]
    /\ attached' = [attached EXCEPT ![a] = s]

\* A valid code is used up and a new agent made.
TakePair(s) ==
    LET c == Head(conn[s].up).code IN
    /\ Arrived(s, "pair")
    /\ IF codes[c] = "valid"
          THEN \E a \in Agents :
                   /\ rows[a] = "none"
                   /\ rows' = [rows EXCEPT ![a] = "paired"]
                   /\ codes' = [codes EXCEPT ![c] = "gone"]
                   /\ Attach(s, a)
          ELSE Refuse(s) /\ UNCHANGED <<codes, rows, attached>>
    /\ UNCHANGED pending

\* Mutant: an agent that is already connected is refused.
TakeHelloOnce(s) ==
    LET a == Head(conn[s].up).agent IN
    /\ Arrived(s, "hello")
    /\ IF rows[a] = "paired" /\ attached[a] = None
          THEN Attach(s, a) ELSE Refuse(s) /\ UNCHANGED attached
    /\ UNCHANGED <<codes, rows, pending>>

TakeHello(s) ==
    LET a == Head(conn[s].up).agent IN
    /\ Arrived(s, "hello")
    /\ IF rows[a] = "paired" THEN Attach(s, a) ELSE Refuse(s) /\ UNCHANGED attached
    /\ UNCHANGED <<codes, rows, pending>>

\* registry.accept: the entry of this agent's request is settled.
TakeResponse(s) ==
    LET r == Head(conn[s].up).id IN
    /\ Arrived(s, "response")
    /\ IF conn[s].agent = None
          THEN Refuse(s) /\ UNCHANGED pending
          ELSE /\ conn' = [conn EXCEPT ![s] = Rest(s)]
               /\ pending' = [pending EXCEPT ![r] = IF @ = conn[s].agent THEN None ELSE @]
    /\ UNCHANGED <<codes, rows, attached>>

\* A message that does not parse, or for which the database fails.  Before the
\* agent is made, consume has marked the code.
Fails(s) ==
    /\ GatewayFails
    /\ conn[s].control # "none" /\ conn[s].up # <<>>
    /\ conn' = [conn EXCEPT ![s] = Thrown(Rest(s), "failure")]
    /\ \/ UNCHANGED codes
       \/ \E c \in Codes : /\ codes[c] = "valid"
                            /\ Head(conn[s].up) = [type |-> "pair", code |-> c]
                            /\ codes' = [codes EXCEPT ![c] = "gone"]
    /\ UNCHANGED <<rows, attached, pending>>

\* Mutant: the entry goes, whichever socket it holds.
DetachedAny(s) ==
    [a \in Agents |-> IF conn[s].agent = a THEN None ELSE attached[a]]

\* registry.detach.
Detached(s) ==
    [a \in Agents |-> IF conn[s].agent = a /\ attached[a] = s THEN None ELSE attached[a]]

\* The event close, or error, at the control plane's end.
ControlClosed(s) ==
    /\ conn[s].control # "none"
    /\ attached' = Detached(s)
    /\ conn' = [conn EXCEPT ![s].control = "none", ![s].agent = None, ![s].up = <<>>]
    /\ UNCHANGED <<codes, rows, pending>>

\* Mutant: the row is removed.
RevokeDeletes(a) ==
    /\ rows[a] = "paired"
    /\ rows' = [rows EXCEPT ![a] = "deleted"]
    /\ conn' = [s \in Socks |-> IF s = attached[a] THEN CloseControl(conn[s]) ELSE conn[s]]
    /\ attached' = [attached EXCEPT ![a] = None]
    /\ UNCHANGED <<codes, pending>>

Revoke(a) ==
    /\ rows[a] = "paired"
    /\ rows' = [rows EXCEPT ![a] = "revoked"]
    /\ conn' = [s \in Socks |-> IF s = attached[a] THEN CloseControl(conn[s]) ELSE conn[s]]
    /\ attached' = [attached EXCEPT ![a] = None]
    /\ UNCHANGED <<codes, pending>>

\* Ids are never used twice: r must be forgotten everywhere.
Fresh(r) ==
    /\ pending[r] = None /\ r \notin executing
    /\ \A s \in Socks :
           /\ [type |-> "response", id |-> r] \notin {conn[s].up[i] : i \in DOMAIN conn[s].up}
           /\ [type |-> "request", id |-> r] \notin {conn[s].down[i] : i \in DOMAIN conn[s].down}

\* request: refused unless the agent's socket is open.
Request(r, a) ==
    LET s == attached[a] IN
    /\ Fresh(r)
    /\ s # None
    /\ conn[s].control = "open"
    /\ pending' = [pending EXCEPT ![r] = a]
    /\ conn' = [conn EXCEPT ![s] = SendDown(@, [type |-> "request", id |-> r])]
    /\ UNCHANGED <<codes, rows, attached>>

Timeout(r) ==
    /\ pending[r] # None
    /\ pending' = [pending EXCEPT ![r] = None]
    /\ UNCHANGED <<conn, codes, rows, attached>>

\* The control plane ends and starts again; its database stays.
ControlRestart ==
    /\ conn' = [s \in Socks |-> [conn[s] EXCEPT !.control = "none", !.agent = None, !.up = <<>>]]
    /\ attached' = [a \in Agents |-> None]
    /\ pending' = [r \in Reqs |-> None]
    /\ UNCHANGED <<codes, rows>>

-----------------------------------------------------------------------------

ClientSocketStep(s) ==
    \/ Opened(s) \/ ReceivePaired(s) \/ FileOpened(s) \/ TokenSaved(s)
    \/ ReceiveError(s) \/ Unlinked(s) \/ ReceiveRequest(s)

ClientStep ==
    \/ \E c \in Codes \union {None} : Start(c)
    \/ WakeUp \/ Stop \/ Exit
    \/ \E s \in Socks : ClientSocketStep(s) \/ WriteFails(s) \/ ClientClosed(s)
    \/ \E r \in Reqs : Answer(r)

ControlSocketStep(s) == TakePair(s) \/ TakeHello(s) \/ TakeResponse(s)

ControlStep ==
    \/ \E c \in Codes : CreateCode(c) \/ CodeExpires(c)
    \/ \E s \in Socks : ControlSocketStep(s) \/ Fails(s) \/ ControlClosed(s)
    \/ \E a \in Agents : Revoke(a)
    \/ \E r \in Reqs, a \in Agents : Request(r, a)
    \/ \E r \in Reqs : Timeout(r)
    \/ ControlRestart

Next ==
    \/ ClientStep /\ UNCHANGED controlVars
    \/ ControlStep /\ UNCHANGED clientVars

Spec == Init /\ [][Next]_vars

\* The network gets through again and again, closed sockets are reported at
\* both ends, the file is written, the timer fires.
Fairness ==
    /\ WF_vars(WakeUp /\ UNCHANGED controlVars)
    /\ \A r \in Reqs : WF_vars(Answer(r) /\ UNCHANGED controlVars)
    /\ \A s \in Socks :
           /\ SF_vars(ClientSocketStep(s) /\ UNCHANGED controlVars)
           /\ SF_vars(ControlSocketStep(s) /\ UNCHANGED clientVars)
           /\ WF_vars(/\ conn[s].client = "closing" \/ conn[s].control = "none"
                      /\ ClientClosed(s) /\ UNCHANGED controlVars)
           /\ WF_vars(/\ conn[s].control = "closing" \/ conn[s].client = "none"
                      /\ ControlClosed(s) /\ UNCHANGED clientVars)

FairSpec == Spec /\ Fairness

-----------------------------------------------------------------------------
(* Correctness. *)

(* attach, detach and revoke keep the map right whatever order sockets open and
   close in: an agent is listed on a live socket it has introduced itself on, and
   an open socket of an agent is the one listed, never an older one whose close
   event is still to come, nor one that was removed by it. *)
RegistryIsCurrent ==
    /\ \A a \in Agents : attached[a] # None =>
           /\ conn[attached[a]].agent = a
           /\ conn[attached[a]].control # "none"
           /\ rows[a] = "paired"
    /\ \A s \in Socks : conn[s].control = "open" /\ conn[s].agent # None =>
           attached[conn[s].agent] = s

\* The running agent drops its token for an error that arrives.
Forgets(a) == token = a /\ token' = None /\ loop' \notin Exits

\* This step takes the answer to a failure of the gateway.
FailureTaken ==
    \E s \in Socks : Received(s, "failure") /\ conn'[s].down = Tail(conn[s].down)

(* The agent drops the token it runs with only when that was revoked, or for a
   failure of the gateway that it cannot tell from a refusal.  The code that gave
   it is used up, so an error that belongs to an older connection, or to another
   identity, must not reach agent-client.ts:76 while the token is good. *)
TokenLostForReason ==
    [][\A a \in Agents : Forgets(a) => rows[a] = "revoked" \/ FailureTaken]_vars

-----------------------------------------------------------------------------
(* What the documents say and the code does not do. *)

(* "Agent reconnects use the Agent token ... Tokens can be revoked from the
   control plane" (docs/superpowers/specs/2026-08-24-ssh-launchpad-agent-control-design.md:21):
   nothing else takes the token from an agent.  agent-gateway.ts:33 answers
   PAIRING_INVALID to a message that does not parse and to a failing database,
   too, and agent-client.ts:76 forgets the token. *)
TokenLostOnlyByRevocation ==
    [][\A a \in Agents : Forgets(a) => rows[a] = "revoked"]_vars

(* "Agent disconnect: ... the Agent reconnects with bounded exponential backoff"
   (docs/superpowers/specs/2026-08-24-ssh-launchpad-agent-control-design.md:48):
   an agent with a good token that is not listed is listed again, unless it is
   stopped or revoked. *)
AgentReconnects ==
    \A a \in Agents :
        saved = a /\ rows[a] = "paired" /\ attached[a] = None
            ~> \/ attached[a] # None \/ rows[a] = "revoked"
               \/ saved # a \/ stopped \/ loop \in {"off", "failed"}
=============================================================================
