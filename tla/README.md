# SSH Launchpad in TLA+

SSH Launchpad opens web applications that run on remote machines: it connects
to a server over SSH, starts the application if it is not running, forwards a
local port to it, checks its health, and reports each application's state to
the page. This directory models the parts of that program in which something
can go wrong that a unit test would hardly reach, checks them with TLC, and
proves the central ones with TLAPS.

Paths are relative to the repository.

## 1. The system

| component | source | state | operations |
|---|---|---|---|
| Session pool | `apps/server/src/ssh/session-pool.ts` | one entry per server: a session and the count of its leases | `acquire`, `release`, the disconnect listener, `closeAll` |
| Tunnel manager | `apps/server/src/tunnels/` | the maps `reservations` and `active`, listening sockets, forwarded connections | `reserve`, `activate`, `accept`, `release`, `close`, `closeAll` |
| Application runtime | `apps/server/src/runtime/app-runtime-service.ts`, records in `apps/server/src/db/app-repository.ts` | the maps `active` and `inFlight`, the last published snapshot | `connect`, `disconnect`, `reconnect`, `handleUnexpectedDisconnect`, `shutdown` |
| SSH session | `apps/server/src/ssh/ssh-session.ts`, `apps/server/src/ssh/posix-command.ts` | one ssh2 client and its disconnect listeners | `connect`, `probe`, `exec`, `execDetached`, `openForward`, `close` |
| Rust bridge | `apps/bridge/src/main.rs` | the maps `servers`, `pending_keys`, `tunnels`, `snapshots` | `connect`, `disconnect`, `reconnect`, `confirm_fingerprint` |
| Agent link | `apps/server/src/agent/`, `apps/control-plane/src/agent-gateway.ts`, `apps/control-plane/src/agents/` | sockets, pending requests, pairing codes, the registered connection of each agent | pairing, hello, request, answer, time-out, disconnection, reconnection |
| Servers and credentials | `apps/server/src/servers/server-service.ts`, `apps/server/src/credentials/` | server records in SQLite, secrets in the keyring | `create`, `update`, `setCredential`, `deleteCredential`, `remove` |
| Host keys | `apps/server/src/ssh/server-connection-service.ts`, `apps/server/src/local-bridge.ts`, `apps/web/src/state/`, `check_server_key` and `confirm_fingerprint` of the Rust bridge | candidate fingerprints, the fingerprint in each record, the open question | `connect`, `confirmPendingFingerprint`, `confirmFingerprint`, record synchronisation |
| Log store | `apps/server/src/runtime/log-store.ts` | the log file of each application and its rotations | `append`, `read` |
| Control plane | `apps/control-plane/src/` | users, cookie sessions, credentials of one request | login, logout, routes |
| Web client | `apps/web/src/` | the store of the page, records in the browser | fetch, dispatch, the fingerprint dialogue |
| SSH config import | `apps/server/src/servers/ssh-config-parser.ts`, `apps/web/src/state/ssh-config-parser.ts` | the blocks and warnings collected so far | `parseSshConfig`, twice |
| Icons, schemas, HTTP front ends | `apps/server/src/api/`, `packages/shared/src/`, ... | none of their own | validation, file serving, wiring |

### How they interact

`AppRuntimeServiceImpl.connect` calls, in this order, `TunnelManager.reserve`
(the local port), `SessionPool.acquire` (an SSH session to the server, shared
with the server's other applications), the session's `probe` and `execDetached`,
`PortReservation.activate` and the health checker, which goes through the
tunnel. The way back is `TunnelHandle.close`, `PortReservation.release` and
`SessionLease.release`. The runtime and the pool both listen for the loss of a
session. The HTTP front ends call the runtime for a browser on the same machine;
the agent link carries the same calls from a control plane elsewhere. The Rust
bridge is a second implementation of runtime, tunnels and sessions, for users
who install it as an executable.

### What is hard

* Everything runs on one JavaScript thread, but each function waits: for a
  listening socket, an SSH connection, a command, a timer, a close callback. What
  a function read before a wait may be stale after it, and another call for the
  same application, or server, may run in between.
* A session can be lost at any moment, and is shared: its loss starts a retry
  loop in every active application on it, which overlaps with the user's calls.
* Resources are taken in several steps (port, then lease, then tunnel) and every
  step may fail with the earlier ones in hand.
* The Rust bridge runs its requests on several threads, with one lock per map, and
  its HTTP server drops a handler whose client has gone, wherever it waits.
* A server's record is in SQLite and its secret in the keyring, and no transaction
  covers both: an access may fail, or the process end, with half of a call done.
* A command on a session is settled by its timer, its channel or the loss of the
  connection, whichever comes first, while the remote shell goes its own way.
* Leases and reservations outlive what they were taken on: an entry of the pool
  is overwritten, a port is free while its reservation is not over.

`PROJECT.json` lists these hazards one by one with the line where each bites
and the properties that watch it.

### What correctness means, component by component

This is what the documents ask for. The code falls short of some of it; section 5 says where.

* Session pool: the counts are right, only live sessions are lent, no release
  closes a session somebody else holds.
* Tunnel manager: one reservation per application, one listener per port, no
  traffic through a released reservation, releases end.
* Application runtime: every port and every lease has exactly one owner on every
  path; a lost session is retried by exactly one loop; an application listens on the port
  of the record it was connected with; what the page is told is
  backed by something; retries end.
* SSH session: a call is settled, its output begins with what the command wrote, and a start
  that is reported was made.
* SSH config import: the servers are those the text as a whole describes, and a line that has
  no effect has one warning. (Repeated values and the values of a refused section have none,
  and those below `Match` have an effect they should not have: section 5.)
* Rust bridge: the snapshot of an application agrees with its tunnel; the key of
  a server is trusted only as the user confirmed it.
* Agent link: an agent that reconnects is registered once, on the socket it uses; an agent
  drops its identity only when that was revoked (or the gateway failed: section 5), and comes back
  after a disconnection (unless it ends by itself: section 5).
* Servers and credentials: a record names a secret that is there; a call that fails in the
  database leaves the record, and the secret it names, as they were (a new secret of another
  kind can stay in the keyring); a call that returns leaves no secret behind.
* Host keys: a key is trusted for a server only as the user confirmed it for that server, and
  a changed key is refused (the Rust bridge asks again: section 5). (An edit of the host keeps the fingerprint, so nothing here says
  that it is of the host the record names now.)

## 2. Modules

| module | what it is |
|---|---|
| `SessionLeases` | abstract: lending open sessions, no pool and no counts |
| `SessionPool` | the pool; implements `SessionLeases` |
| `SessionPoolProofs` | the proofs about the pool and about what it implements |
| `PortReservations` | abstract: the stages of each application's reservation and the owner of each port |
| `TunnelManager` | the tunnel manager; implements `PortReservations` |
| `TunnelManagerProofs` | the proofs about it |
| `AppRuntime` | the runtime and the records of its applications, composed with `SessionPool` (one caller per application) and `PortReservations` |
| `AppRuntimeProofs` | the proofs about it and about `PortReservations` as it uses it |
| `SshSession` | commands on one session, and the command line of a start |
| `SshConfig` | the two parsers of OpenSSH configurations |
| `SshProofs` | the proofs about these two |
| `RustBridge` | the bridge's requests, tunnels and snapshots |
| `RustBridgeProofs` | the proofs about the bridge |
| `AgentLink` | the agent's client and the control plane's gateway, registry and pairing over sockets that close at any time |
| `AgentLinkProofs` | the proofs about it |
| `ServerStore` | the server service over the database and the keyring |
| `ServerStoreProofs` | the proofs about it |
| `HostTrust` | the page's records and fingerprint dialogue, over either bridge |
| `HostTrustProofs` | the proofs about it |
| `MC*` | constants for TLC; each `.cfg` is one run |

A comment that starts with "Mutant" marks a wrong variant of the definition
after it; it is used to see that the properties can fail.

### Correspondence

**Steps.** One action is what the program does between two real waits.
`session.close`, `publish`, `activate` and `credentials.get` return promises but
wait for nothing outside the program, so no other event runs inside them; the
listening socket, `factory.connect`, `probe`, `execDetached`, the poll and its
timer, the health check, the stop command, the close callback of the listening
socket and the back-off timers are waits.

**SessionPool.** `pool` is the map `sessions`; `sess` is what has become of each
session ("closed" by a release, "shutdown" by `closeAll`, "lost" by the network);
`phase` and `lease` are the local state of `acquire` and of the lease it returned
(`released` is the phase of that name). `acquire` is `AcquireHit`, or `AcquireMiss`
and later `Connected` or `ConnectFailed`. `release` is four disjuncts, one for each
of its returns. Identities of sessions are used again once they are not open and
no caller refers to them.

**TunnelManager.** `resv` holds the `Reservation` objects, `reservations` and
`handles` the two maps, `listener` the sockets, `conn` the accepted connections.
`release` is `StartRelease` up to its wait and `Released` after it. The socket
stops listening at once, so the port is free for others at once, while the
close callback waits for the last connection. A connection whose `openForward`
has not answered is not in `forwards`, so `release` does not destroy it and
waits for it: this is why `Released` needs `ConnsOf(r) = {}`. A client may close its end
before that (`ClientGone`): `accept` has no listener on the socket yet, so nothing happens
until the channel opens, which then becomes a forward with a socket that is gone
("orphaned", then "forwarding"). That `reserve` is called once at a time for one application is not `reserve`'s
doing but its caller's, the map `inFlight` of the runtime: it is the conjunct `~InFlight(a)` of
`Next`, not a guard of `Reserve`.

**AppRuntime.** `attempt` is the program counter of `connectInternal`, `teardown`
that of `disconnect` and of `handleUnexpectedDisconnect` up to the release of the
lease, `loop` that of the retry loop. `inFlight` needs no variable: an attempt is
in flight when `attempt` is not "idle". A loop that calls `connect` while an
attempt is in flight joins it ("await") and gets the result of that attempt. In
`LoopsFail` several loops resume after one failed attempt; the snapshot is that of
whichever resumes last. `Busy` is the call of `reserve` that throws `RESOURCE_BUSY`
before its first wait.

The health answer and the start command's PID may be on their way when the
session is lost, so `HealthOk` and `StartOk` do not ask for an open session; a
probe needs one to succeed.

`row` is the table `remote_apps` as far as the runtime reads it: the port of each
application, or no record. `localPort` is what the attempt (and later the active entry)
has read; `Edit` and `Delete` change the table at any time, with the table's rule that no
two records have one port, and without asking whether the application is connected, as the
code does. `Missing` is the call that finds no record and throws `NOT_FOUND`. A broken
connection is reported by up to three events of the client (`ssh-session.ts:51-53`):
`SessionDrop` is the first, with what the pool does, `LateEvent` one of the others, which only
an application that became active in between can still hear.

**SshSession.** `channel` is what the client knows of the channel of each call, `shell` and
`job` what the remote machine does about it; they differ while a request or an answer is on
its way. `exec` is `Exec`, `Opened` or `OpenFailed`, `Data`, and one of `Close`, `ChannelError`
and `TimeOut`, of which the first settles the promise (`Settle`). Output is characters that are
told apart by their number: `written` by the command, `received` by the client, `stdout` kept by
it. Those in `Wide` take two bytes and may be cut by two chunks (`half`): each chunk is decoded
alone, so that both halves become U+FFFD (`Replacement`), as `chunk.toString('utf8')` does it.
The limit counts what JavaScript counts, UTF-16 units, of which a character here is one;
characters of three bytes and more, and those of two units, are left out. A call in
`Starts` is made by `execDetached`. `buildDetachedCommand` is the line as the words a shell
reads (the redirections, `&` and `echo $!` belong to every line and are left out);
`RunCommand` is what a POSIX shell does with one command of the list, and is external to the
code.

**SshConfig.** A line is a directive and words, which is what `stripComment` and `tokens` make
of it; quotes, escapes and comments are not modelled. One action per way through the loop of
`parseSshConfig`, then `Finish`. The two parsers read lines alike and differ in what they make
of an empty port and of `~` in an identity file: `imported` has the result of both.
`HostsMeetText` and `LinesAccountedFor` compare it with definitions that look at the text as
a whole and know nothing of blocks, and in which a section ends where OpenSSH ends it, at the
next `Host` or `Match`. The parsers do not end it at `Match`: both properties are about texts
without a value below a `Match` line, and `HostsMeetEveryText`, about the others too, is
violated.

**RustBridge.** `req` is the local state of the handlers: `at` says what
`connect_inner` or `disconnect` does next, `tunnel` is the `Tunnel` value it owns
between `start_tunnel` and the insertion into the map. `tun` is the state of each
tunnel's accept loop and of its port: "listening"; "ending" once its `Tunnel` was
dropped or stopped, until the loop has ended and freed the port; "broken" when
`accept` has failed and the loop is over while its `Tunnel` is still owned.
`tunnels` and `snapshots` are the maps. `relay` holds the accepted connections,
each a task of its own.

Handlers run in parallel, so a step is one access to shared state: a map (each
is locked for a single operation) or the ports of the machine. The answers in
between (SSH connect, probe, health check) are seen by the request alone, and are
part of the next step that others can see; `SshUp`, `Started` and `HealthOk` stay
steps of their own because what a request may do next depends on them. The
insertion into `servers` touches nothing else here and is left to `HostTrust`. `ClientGone` is what the HTTP server does with a handler whose
connection closes: it is dropped, and its `Tunnel` value with it.

**AgentLink.** `conn` holds both ends of each socket and the messages between
them, in order; a message is lost when the end that should read it goes first.
`loop`, `current`, `token`, `saved`, `option` and `executing` are the agent's
process: where `runLoop` is, the field `socket`, the token in memory and in its
file, the pairing code it was started with, the requests whose handler runs.
`codes`, `rows`, `attached` and `pending` are the control plane: two tables and
the two maps of `AgentRegistry`. A step is one event at one end. Two messages wait in the
middle. `paired` writes the token file: `ReceivePaired` is what comes before the write
(`learned` is set during it), `FileOpened` the moment at which `writeFile` has emptied the file,
`TokenSaved` what comes after, and `WriteFails` the write that fails, whose rejection nobody
handles, so that the process ends ("failed"); it may also end by itself in between. `error` removes
the file: `ReceiveError` forgets the token and `Unlinked` closes the newest socket once
`unlink` has ended, well or not; a file removed while it is being written is gone when
the write has ended ("lost"). The gateway answers everything that goes wrong with
`PAIRING_INVALID` (`agent-gateway.ts:32-36`): `Refuse` is that for bad credentials, `Fails` that
for a message that does not parse or a statement that fails, a code being used up or not, and
`Attach` may fail after the socket was attached. The constant `GatewayFails` says whether the
gateway of an instance has these failures, which cost an agent its token (section 5). `openConnection` returns when the agent is introduced, not when the socket
closes (`agent-client.ts:44-65`), so `TokenSaved` opens the next socket at once,
while the one it came on is open: two sockets of one agent overlap all the time, not
only after a loss. `Answer` sends on `this.socket`, the newest; when that is still
connecting `send` throws, the `catch` sends again, and the rejection has no handler,
which ends the process ("crashed"). `ControlRestart` keeps the tables and loses
the maps. At this commit the control plane's `main.ts` does not construct the
gateway: the model takes it as its own tests do. Events of the agent, and what the
handler of a request does, are left out; they change none of this state.

**ServerStore.** `servers` is the table of that name as far as calls see it (what
the user entered, and the kind in the credential id, which is the server's id and the
kind), `used` the servers that rows of `remote_apps` refer to, `keyring` the entries of
the Windows Credential Manager. `call` is the local state of the call in progress; a
step is one access: `Get`, `Set` and `Drop` are the methods of `keyring-store.ts`, `Db`
is the statement of `server-repository.ts`, `Rollback` the handler of the error path and
`RollbackFails` that handler when its own write fails, which it swallows.
The methods of the keyring store are `async` without waiting for anything outside the
program, so a call runs to its end before the next event is taken; two requests of the
agent link that arrive in one read of its socket could alternate, and that is not
modelled. At most one access of a call fails, and then the write that undoes it may fail, too.
`Crash` ends the process between two accesses. Calls that are refused before they change anything (an unknown server, an
invalid input) are left out, except that `Remove` asks for a server no application refers
to. `lost` and `strays` are history: the servers with a call that was interrupted, or could not be
undone, and the entries that failed or interrupted calls left behind. Properties speak of everything
else.

**HostTrust.** `record` is the servers in `localStorage`, `view` the state `servers` of
the page (which is what `connect` sends), `fetched` what a `refresh` in progress has
read, `dialog` is `pendingFingerprint`. `flow` is a handler of the page that waits for
the bridge: `connect`, or `confirmPendingFingerprint`, which sends a confirmation and then
the record; it is one variable from the page through the bridge and back because
a request and its handler have one fate. `rows` is what the bridge keeps (the map
`servers`, or the table), `candidates` is `pending_keys`, or the map of
`ServerConnectionService`; `bridge` is which of the two programs the user installed, chosen
once. A step is what either side does between two waits, and in the Rust bridge
between two locks: `VerifyRust` and `Remember` are the two halves of
`check_server_key`, `CheckRust` and `Trust` those of `confirm_fingerprint`. The open question covers the page, so `Open` needs `dialog = None`;
a question that two handlers bring is the later one. `confirmed` and `edited` are history:
the keys the user has agreed to for each server (whatever host it named then), and the host
entered last. Hosts change
their keys at any time, and the bridge is restarted at any time. Not modelled: an
answer that is lost after the bridge acted (other than by its restart), reloading the page,
creating and removing records, `test` (the page does not call it), and that the Node
bridge reuses an open session without looking at the key again, which is `SessionPool`'s.

### What could follow

The store of the page (`launchpad-store.tsx`) as far as `HostTrust` leaves it; the
sessions of the control plane once its `main.ts` constructs the gateway.

## 3. Runs

| run | shows | bounds and why they are enough |
|---|---|---|
| `pool` | counts, live sessions, no session closed under a holder, refinement of `SessionLeases` | three callers, two on one server: two must miss at once, and a third session must exist for an entry to be overwritten while another lease is out; a second server tells keys apart |
| `tunnel` | the map is exact, no traffic after a release, refinement of `PortReservations`, every release ends | three applications on two ports, so that one is refused; two connections, so that both can be pending on one reservation, or one can outlive a release of its reservation and of another; no symmetry, because of the liveness property |
| `runtime` | one owner per port and lease, sessions not closed under active applications, snapshots backed | two applications on one server share a session; three sessions, so that one is overwritten and another takes over; one retry loop per application, so that a session is lost, and lost again once the loop is over; the record of one of them is edited and deleted |
| `runtime_live` | one loop behind each loss, an application listens on the port of the record its attempt has read, every retry loop ends, every progress snapshot gets an outcome | one application with two loops, so that its session is lost again while a loop sleeps or waits, and a loop can join an attempt of another and of the user; its record moves between two ports and is deleted |
| `bridge` | every listener has one owner | two requests, so that two overlap for one application or two applications; one application with `auto_start` and `http` and two ports, one without; two tunnels, so that one replaces the other, and one connection |
| `agent` | the registry lists the newest open socket of each agent, and an agent drops its token only when that was revoked or for a failure of the gateway | two sockets, so that an old one and a new one overlap; two agents and two codes, so that one process is paired, revoked and paired again; one request; a gateway that may fail on any message |
| `agent_reconnect` | (violation) an agent that answers while its newest socket is connecting ends, and does not come back | one agent, one code, two sockets, one request: the least that shows it |
| `store` | records name secrets that exist, a failed statement that is undone leaves the record and its secret as they were, calls that return leave no secret behind | two servers, since a call for one must leave the other alone; both kinds of credential, because changing the kind is what takes two accesses to the keyring; two inputs and two secrets, so that old and new differ; one failing access in each call, and the undoing of it |
| `trust` | every fingerprint kept anywhere was confirmed by the user for that server, sessions open on confirmed keys only, a confirmation undoes no edit | one server whose record moves between two hosts; two keys, so that one is confirmed and another appears; two handlers, so that a confirmation overlaps a `connect` of the same server; one refresh at a time |
| `ssh` | output begins with what was written, up to the limit or a character cut by two chunks, reported starts were made, calls are settled | two calls, one a start; at most four characters of output, the second of two bytes, of which three are kept, so that a piece can end before, at and beyond the limit, and in a character |
| `start_command` | (violation) a start is reported while its program never runs | one start without a working directory; the line is the same for every command |
| `config` | servers and warnings are those of the text as a whole, in both parsers, for texts without a value below `Match` | texts of up to four lines: two sections with a field each, or one with a field given twice and a line between; a line for each case the parsers tell apart, with ports on both sides of each bound |

Symmetry is used only in runs without liveness, and only over identities no
definition names. `Reqs` bounds the
requests in progress, `Flows` the handlers of the page that wait, `Tunnels` and `Relays` the accept loops and connections at once.
`Loops` bounds the retry loops one application can have at
once (a loss needs a free one for each application that hears of it); `Sessions`, `Resvs` and `Conns` bound how
many of each exist at once, not how many are created.

**Fairness.** `TunnelManager!FairSpec` and `AppRuntime!FairSpec` assume that the
environment's answers come: the system answers `listen` and reports closed
sockets, ssh2 answers channel requests (with a failure when the connection is
gone), timeouts bound the SSH connect, the commands, the poll and the health
check, and timers fire. `SshSession!FairSpec` assumes only that the timer of a call fires: neither the network nor
the remote machine owes anything. `AgentLink!FairSpec` assumes of the network that it gets
through again and again (strong fairness of the delivery of each socket: it may
close sockets for ever, but not before every single message), and that
closed sockets are reported, writing and removing the token file end, the timer fires and
handlers answer. `openForward` has no time-out in the code; that it
answers rests on ssh2. No user, client or network step is fair. That the
runtime's releases end is what `tunnel` shows of the tunnel manager.

## 4. Proofs

All for any numbers of callers, servers, sessions, applications, ports, requests,
tunnels, connections, sockets, messages, texts, calls, secrets, hosts, keys and handlers. Every
invariant and every safety property that a passing run checks is stated by a theorem.

* `SessionPoolProofs`: `PoolTypeCorrect`, `PoolInvariant` and its parts
  (`LeaseAccountingHolds`, `LeasedNeverClosedHolds`, `PooledIsOpenHolds`,
  `HeldOnOwnServerHolds`), `PoolImplementsLeases`; of `SessionLeases` itself
  `LeasesTypeCorrect` and `LeasesNeverClosed`, and with the refinement `PoolNeverClosesHeld`.
* `TunnelManagerProofs`: `TunnelInvariant`, `TunnelTypeCorrect`, `ReservationsAreFound`
  (`MapHasEveryReservation`, `HandleIsCurrent`, `ListenerIsHeld`),
  `NoForwardAfterReleaseHolds`, `ReservationsImplemented`.
* `AppRuntimeProofs`: `RuntimeInvariant`, `RuntimeTypeCorrect`, `PortHasOneOwnerHolds`,
  `LeaseHasOneOwnerHolds`, `LossHasOneLoopHolds`, `HealthyIsBackedHolds`,
  `ProgressIsBackedHolds`; `RuntimeUsesPool`,
  `RuntimeUsesReservations` and what follows from them, `ActiveSessionNotClosedHolds` and
  `PortIsOfItsRecordHolds`; of `PortReservations` itself `PortsTypeCorrect` and
  `ListeningMatchesBooking`.
* `RustBridgeProofs`: `BridgeTypeCorrect`, `BridgeInvariant`,
  `TunnelHasOneOwnerHolds`.
* `ServerStoreProofs`: `StoreTypeCorrect`, `StoreInvariant`, `CredentialExistsHolds`,
  `NoStraySecretsHolds`, `FailedStatementRestoresHolds`.
* `AgentLinkProofs`: `AgentTypeCorrect`, `RegistryInvariant`, `RegistryIsCurrentHolds`,
  `IdentityInvariant`, `TokenLostForReasonHolds`.
* `SshProofs`: of the parsers `ParserTypeCorrect`, `HostsMeetTextHolds`,
  `LinesAccountedForHolds`; of the session `SessionTypeCorrect`, `OutputIsPrefixHolds`,
  `StartedMeansSpawnedHolds`.
* `HostTrustProofs`: `TrustTypeCorrect`, `TrustIsConfirmedHolds`,
  `SessionOnConfirmedKeyHolds`, `EditsSurviveHolds`.

Assumptions of the pool: finitely many callers (the count of an entry is a
cardinality), `ServerOf` and `HostOf` map to servers, `None` is no session.

**The argument for the pool.** That a release closes nobody else's session
(`LeasedNeverClosed`) depends on the count being the number of holders
(`LeaseAccounting`). That in turn is not inductive: when an entry is overwritten or
dropped and a new one made, the count starts at one, which is right only because
the new session has no other holder (`Fresh`), and no later release of a stale lease
may touch it, which needs every lease to be on its own server (`HeldOnOwnServer`) and
each pooled session to be filed under its own server and open (`PooledIsOpen`). The
conjunction, `PoolInv`, is inductive; there is a lemma per action. The refinement
maps each action to the abstract one and uses `PoolInv` in two places: a pooled
session is open when it is shared, and a session has one holder when it is closed.

**The argument for the tunnel manager.** `onReleased` removes the application's entries
whichever reservation they are of, so the map stays exact (`MapHasEveryReservation`) only if
an application never has two reservations. `reserve` looks into the map before its wait and
enters the reservation after it; what keeps a second one out in between is that nobody asks
twice for one application (`OneListening`), which is the conjunct `~InFlight(a)` of `Next` and the
map `inFlight` of the runtime. A channel may open after the release, and then finds the
reservation "closing": `NoForwardAfterRelease` needs that a connection never outlives its
reservation and that one of a held reservation found its target set (`ConnsAlive`). From
one reservation per application it follows that the refinement mapping, which chooses the
application's reservation, has one to choose (`BookedIs`).

**The argument for the runtime.** The module is a composition, and so is the proof. Each
step of the runtime is a step of the pool (`RuntimeUsesPool`) and of the reservations
(`RuntimeUsesReservations`) or leaves them alone, so the theorems proved of those modules
hold in the runtime without a second proof: `ActiveSessionNotClosedHolds` is the pool's
`LeasedNeverClosed` together with "an active application holds its lease", and
`PortIsOfItsRecordHolds` rests on `ListeningIsBooked`. Since `TunnelManagerProofs` shows that the
tunnel manager implements `PortReservations`, and `PortReservations` is all the runtime
knows of it, the two fit together. `RuntimeInv` says, for each stage of an attempt, a
teardown and a loop, which of port and lease is in hand (`PortHasOneOwner`,
`LeaseHasOneOwner`), that a loop in its first stage belongs to one entry being lost
(`LossHasOneLoop`), and what must be behind each snapshot. The lemmas take one group of
actions each.

Assumptions of the runtime: those of the pool; `None` is no application and no port;
editable records are some of the applications. Assumption of the tunnel manager: `None` is
no reservation and no application.

Assumptions of the bridge: `PortsOf` maps applications to sets of ports, `AutoStart`
and `HttpApps` are sets of applications, `None` is none of the others.

**The argument for the bridge.** `TunnelHasOneOwner` is written so that it is nearly
inductive by itself: a tunnel that was not told to stop is in the map under its own
application or belongs to one request, and what the map and the requests refer to is
such a tunnel. A request's tunnel is for the request's application, and only the
stage "inserting" has one; without that the insertion could file it elsewhere, and
a request could end with it in hand. It needs the types, and that the application
of a request in progress is known (`AppsAreKnown`), because the map is only
defined on applications. The conjunction is `BridgeInv`; there is a lemma per
action that touches tunnels, and one for the steps that do not.

Assumptions of the store: `None` is no input, kind, secret, stage or call.

**The argument for the store.** `CredentialExists` says nothing of the server whose call is
in progress, so it is not inductive: while a call has deleted the old secret, what
it has read must be enough to put it back. `CallInv` says so of the call in progress: the
row it read is still the row until its statement has run; it holds an old secret once it
is past `Get`; and the entries that the stage says are still, or already, there are there. With it each way out of a call, whether it returns, throws
or is rolled back, leaves the named secret in place. `FailedStatementRestores` follows from the
same conjunction, `StoreInv`.

`NoStraySecrets` also has an exception for the call in progress, and needs to know which: what
a server has in the keyring beyond what its record names is in `strays` or is what the
call is about to name, to delete or to undo (`InWork`); and a removal whose statement runs
has deleted its entry (`EntryGone`). The two are `StrayInv`, inductive together with `StoreInv`.

Assumption of the host keys: `None` is no key, record, question, waiting handler or table.

**The argument for the host keys.** `TrustIsConfirmed` speaks of what is kept, and what
is kept comes from what is on its way: the record a handler has sent, the key it confirms,
the records a refresh has read. The invariant says of each of them that it is confirmed
(`Carries`, `Fetched`) and, because a confirmation is written into a row, that a request in
the bridge has a row there; `TypeOK` adds that a candidate has one. Confirmed keys
only grow, so no step takes this away. `SessionOnConfirmedKey` then follows from the check of
the key alone: the expected fingerprint is one of a request, and no key is `None`.

Assumption of the agent link: `None` is no agent, code or socket.

**The argument for the agent link.** Two invariants, one for each side. The registry is current
because a socket is attached once and detached when its control end closes; what makes
this inductive is the order on each socket (`SocketsOrderly`): an end that has not heard of
the socket has neither an agent nor messages, the introduction comes first and once,
and a socket without an agent has nothing but an introduction to read. For the token,
`IdentityInv` says that at most one introduction is under way at any time, on the newest
socket (`OneIntroduction`), although older sockets stay open; that it names
the token the agent holds, unless the agent has dropped that since, so that an "error" in
answer to it means that this token was revoked or is gone already (`SaysWhatItHolds`); and that
every identity in memory, in the file or in a write still to come is one of the table
(`TokensKnown`), so that a refused one is a revoked one. An error in answer to an older introduction
would break it, and so would a second introduction. A failure answers no introduction: it may
come at any time, and all it takes is the token. None of it depends on `GatewayFails`, nor on what
becomes of the file.

Assumptions of the parsers: a line is a directive, or `Nothing`, and a sequence of words;
`Nothing` is neither a field nor "host".

**The argument for the parsers.** The properties compare the result with the whole text, so the
invariant does so after each line (`ParserInv`): the blocks are the sections with an
alias, in order, each with the first values its lines have given so far (`BlocksMeetText`);
`current` is the block of the latest section, or 0 when that has no alias
(`CurrentIsLatest`); the warnings list, each once, the lines that neither open nor give a
field to a section (`Warned`). What the parsers give a section goes on to the next `Host` line
(`Body`, `Fills`, `Filled`, `Imports`); for a text without a value below `Match` it is what the
properties give it (`Section`, `Gives`, `Given`, `Importable`), and for such texts the theorems
are stated. After the last line the blocks are a selection of the text's lines, so
two things are left: that sections without servers make no difference to what the others
flatten to (`FlattenGaps`), and that the warnings of refused blocks are added to those of the
lines without a repetition (`FlattenSingles`, `ListsBoth`, `CountInList`). `FlattenSeq` is a recursive
function; that it has a value for every sequence of sequences, only one, and grows by
the last element is proved from the well-foundedness of the numbers: an induction here is the
statement that a set of numbers with 0 and all successors has all numbers
(`NumbersFromZero`).

Assumptions of the session: starts are calls, each with a working directory or none; the limits
are positive; `None` is no result, no job and not the home directory.

**The argument for the session.** Each chunk adds to the output either what was written next or, once
a character has been cut, something else: `OutputIsPrefix` needs that nothing is cut before the
first such character (`TornFirst`) and that nothing is left out below the limit (`NothingLeftOut`).
`SessionInv` adds to the types and to these what the remote side owes: a call has a job exactly if it is a start whose shell was spawned (`JobsSpawned`),
nothing is written without a shell (`Spoken`), and a start that is reported as done has received
something (`PidCame`). What was received was written, so a reported start had a shell, and
with it a job.

**Only model-checked.** Liveness, since fairness and ENABLED are beyond the prover: `ReleaseEnds`,
`LoopsEnd`, `ProgressEnds` and `CallsEnd`. The two runs that end in a counterexample state
nothing that could be proved.

## 5. Where code and documents disagree

Two runs end in a counterexample on purpose; each is a finding in `PROJECT.json` with the
line of the document it contradicts.

* `start_command`: the parts of the start line are joined with spaces, so `mkdir -p` takes the
  rest of it for its arguments (`posix-command.ts:20-24`). Without a working directory it
  fails on `-lc` and the program never runs, though `echo $!` reports a PID; with one, the
  program runs in the home directory. `start_remote` of the Rust bridge has no such line.
* `agent_reconnect`: an agent that answers a request while its newest socket is
  connecting ends by an unhandled rejection instead of reconnecting. Because the
  loop opens the next socket right after each handshake, this needs no
  network failure.

Six more have a definition but no run of their own; adding it to the configuration
named, as an INVARIANT (the first as a PROPERTY), shows the counterexample.

* `TokenLostOnlyByRevocation` (`MCAgentLink.cfg`): whatever goes wrong with a message, be it that
  it does not parse, that the schema refuses it or that the database fails, is answered
  `PAIRING_INVALID` like bad credentials (`agent-gateway.ts:33`), and an agent started with a
  pairing code then forgets its token and removes the file (`agent-client.ts:75-77`). Its code is
  used up, so it cannot come back, though nobody revoked it, which is the way the agent
  design's line 21 names.
* `ChangedKeyIsBlocked` (`MCHostTrust.cfg`): the Rust bridge offers every key it does not expect for
  confirmation, also when a confirmed one was expected (`main.rs:897-905`), and the page asks as
  it does for a first key. `README.md:95`, the design's line 307 and the page itself (`app.tsx:26`)
  say that a change blocks the connection; the Node bridge does so.
* `HostsMeetEveryText` (`MCSshConfig.cfg`): `Match` has a warning, like any directive that is
  not supported, but leaves the section before it open (`ssh-config-parser.ts:102`): the values below
  go to that `Host`, without a warning of their own. The plan's line 426 excludes silent changes.
* `IdleServerHasNoSession` (`MCSessionPool.cfg`): two `acquire`s of one server that both miss
  open two sessions, and the one whose entry is overwritten stays open when everybody has
  released (`session-pool.ts:32`; the design's line 253 wants it closed).
* `ActiveSessionIsOpen` (`MCAppRuntime.cfg`): a session lost while the last health answer is on
  its way is not noticed, since the listener is registered after the check
  (`app-runtime-service.ts:112`; the design's line 262).
* `HealthyCanBeOpened` (`MCRustBridge.cfg`): a `disconnect` during the health check leaves a
  healthy snapshot without a tunnel (`main.rs:459`; the design's line 245).

Further ones are visible in a few lines and are not stated as properties: a taken
port is reported as `error`, never as the `conflict` of the design (section 9.3,
`app-runtime-service.ts:121`), and by the bridge not at all, because the `?` of
`main.rs:444` skips `set_snapshot`; a failed attempt releases its port before the
lease it took after it (`app-runtime-service.ts:118`, against the plan's line 698);
the bridge's `connect` does not stop the tunnel the application has, and collides
with it (`main.rs:393`), and its `stop_tunnel` ends the accept loop but not the
connections it accepted (`main.rs:813`, against the design's line 252). An `update` or
`setCredential` whose deletion of the old secret fails throws although the record was
changed, and writes back a secret the record no longer names, which stays in the keyring
when the server is removed (`server-service.ts:67-73`; the plan's line 821 says that the
service persists configuration and secret "atomically"). A second `connect` of an active
application fails in `reserve` and publishes `error` for it (`app-runtime-service.ts:121`;
the design's line 372 wants calls idempotent). When the connection fails after
a confirmation, the question opens again (`launchpad-store.tsx:109`), but its
candidate is used up: every further confirmation of it is refused. The server reads `Port ""` as
22 and the page refuses it; and the dialogue keeps the identity file of an earlier import when the next host has none
(`server-dialog.tsx:18`). An application or its record is edited or deleted while it is
connected, which the design's line 371 refuses. The plan's line 538 limits the captured output to
64 KiB; the code limits UTF-16 units, and decodes each chunk alone, so that a character cut by two
of them is lost (`ssh-session.ts:149`). A client that resets its connection while `openForward` is
pending emits an error for which there is no listener yet, which ends the process
(`tunnel-manager.ts:69-85`). A failed `update` or `setCredential` that changes the kind of the
credential leaves the new secret in the keyring (`server-service.ts:71-76`). The token file is
emptied and written again at each handshake (`agent-client.ts:102`): a process that ends, or fails to
write, in between has no token the next time.

## 6. Not modelled

* The file log store: nothing calls its `append` at this commit.
* `shutdown` of the runtime: `main` calls `process.exit` when it returns. An attempt in flight
  can reserve a port and connect after `closeAll`, but what it holds ends with the process, so
  no property could tell the orders apart.
* The control plane's sessions and routes, and the page's store beyond records and questions:
  reads and writes of one table or one key each, without a wait between them that another
  call could use.
* The `test` of a server, the agent's events and what its request handler does (it calls the
  services modelled here).
* `disconnect` of an application whose attempt is under way returns at once and the attempt
  goes on: no document says what should happen, so the model has the behaviour and no
  property judges it.
* The choice of keys and SSH agents (`authenticate_*` in `main.rs`), the remote program, `stderr`
  and the exit code of a command, which nobody reads.
* Characters of three bytes and more, or of two UTF-16 units, in the output of a command.
* A client that resets its connection before the SSH channel is open, and `reserve` called twice
  for one application, which its only caller excludes.
* Characters: quotes, escapes and comments in SSH configurations, quoting in command lines,
  validation, icons, HTTP proxying, rendering.
