# Nux-Auth: a verification project

Nux-Auth gives Clients tunnels to private services. A **Guard** sits in front of the
services, a **Client** authenticates to it by challenge and response over libp2p, and each
local connection of the Client becomes a tunnel stream the Guard authorises service by
service. A **relay** lets the two find and reach each other, and a **gateway** holds the
Guards' configurations, which they fetch. Paths below are relative to the repository.

## 1. The system

| component | state it keeps | operations | interacts with |
|---|---|---|---|
| authority (`crates/nux-core/src/auth/`) | whitelist, pending challenges, sessions | issue, verify, revoke, end_session, reload | called by the Guard's loop |
| Guard loop (`node.rs` 742-1037) and stream tasks (`tunnel/mod.rs` 490-581) | per-peer and global semaphores, shutdown deadline, metrics | four `select!` arms: swarm event, tunnel stream, control command, drain timer; one task per stream | the authority, the swarm, the tasks, the control channel |
| Client session (`node.rs` 425-573) | where its one task is; the swarm's view of connections | authenticate, run_client_session, reauthenticate, redial_known_peer | the Guard, by connections and requests |
| rate limiter (`rate_limit.rs`) | a deque of admissions per IP, last sweep | allow, prune, sweep | called by the swarm for each inbound connection |
| Client's redirections (`tunnel/mod.rs` 193-464, `main.rs` 717-772) | listeners, relays, shutdown token, its timers | open, forward_listener, forward_unix_listener, relay_local, run_tunnel_client | local programs, the session's swarm, the Guard's tasks |
| start-up and discovery (`node.rs` 241-415, `nux-cli/src/main.rs` 541-709) | which wait the node is in, dials under way | next_connection, wait_for_peer, wait_for_circuit_reservation, register_namespace, discover_and_dial | the relay, peers |
| configuration (`nux-cli/src/guard_config.rs`, `main.rs` 275-407) | the file, the last version fetched | load, apply_remote_config, sync_config_loop, reload on SIGHUP | the gateway, the Guard's control channel |
| gateway (`nux_gateway/src/`) | database of configurations, HTTP window counters | put_config, get_config, node_state, WindowLimiter | a Guard of its own, by a control channel; Guards that sync |
| relay (`nodes_relay/src/`) | key file, reservations and registrations (libp2p's), counters | start, forward events of libp2p's relay and rendezvous servers | every node |
| wire formats, identity, attestation, hardening, builder | none across calls | encode and decode, load keys, build the swarm | |

What is hard here:

- **interleaving**: the Guard's loop takes swarm events, streams, commands and timer ticks
  from four unordered sources while its stream tasks run, and a peer may hold several
  connections;
- **stale views**: the Client's swarm knows of a connection's fate only when it is polled,
  and nobody polls it while the Client sleeps;
- **failure**: connections break, dials and requests fail or time out, the Guard restarts,
  a peer is taken off the whitelist in the middle of a handshake; the relay crashes and forgets
  whom it knew;
- **waits that drop what they do not wait for**: a node that starts takes its events one wait
  after another, and an event that comes in the wrong wait is lost;
- **timers that do not know of each other**: one shutdown starts a drain in each redirection and
  one in the session, at different times;
- **limits and boundaries**: semaphores, a bounded table, windows compared with `>` and `>=`,
  a wall clock that may be set back;
- **progress**: a shutdown must end, a Client must come back.

PROJECT.json lists each hazard at its line with the properties that cover it.

## 2. Modules

| module | models |
|---|---|
| `Admission` | what the authority promises: challenges that open at most one session each, sessions of listed peers only |
| `Authenticator` | `GuardAuthenticator` and `Whitelist`: nonces, timestamps, signatures by what they commit to, the wall clock |
| `GuardNode` | `run_guard_loop`, its handlers and stream tasks, over the steps of `Admission` |
| `GuardProperties` | what must be true of `GuardNode` |
| `Keeper` | what a session keeper promises to the redirections of its process |
| `ClientSession` | a Client that keeps its session with one Guard |
| `Forwarding` | the redirections of a Client and their shutdown, beside a `Keeper` |
| `Startup` | the start of a Guard behind a relay, and the relay |
| `Discovery` | a Client that looks for a Guard, beside `Startup` |
| `RateLimiter` | `RateLimiter::allow_at` with its sweeps |
| `Gateway` | `put_config`, the roles it derives, the control channel and whitelist of the embedded node, restarts |
| `WindowLimiter` | the gateway's HTTP budget under concurrent requests |
| `SyncConfig` | from the gateway's row of one Guard, through `sync-config` and `guard.toml`, to that Guard's whitelist |
| `AuthenticatorProofs`, `GuardProofs`, `ClientSessionProofs`, `ForwardingProofs`, `DiscoveryProofs` (with `Startup`), `RateLimiterProofs`, `GatewayProofs`, `SyncConfigProofs` | theorems about those modules, and their proofs |
| `MC*` | instances for TLC |

`Authenticator` implements `Admission` (checked by `ImplementsAdmission`, proved by
`AuthorityImplementsAdmission`); `GuardNode` extends `Admission`, so the loop runs over the
promise rather than over nonces and clocks: its handlers are written with the steps of `Admission`, so that
the loop keeps the promise by construction and no property says so. What the Client sees of the Guard is written again in
`ClientSession`, with what only the Client can tell apart.

`ClientSession` implements `Keeper` (`ImplementsKeeper`, with the fairness of the Client's task; its steps
alone are proved by `SessionKeepsPromise`), and
`Forwarding` extends `Keeper`: the redirections are checked beside every keeper that keeps
the promise, and the promise is checked of the one there is. `Discovery` extends `Startup`, and
shares its relay: what a Client finds is what Guards registered and the relay has not forgotten.

### Authenticator

The state is the three tables of `GuardAuthenticator` and the clock `unix_now` reads. `Issue` is
`issue`, `Grant` and `Reject` are the two outcomes of `verify` (which always consumes the
challenge first), `Revoke`, `EndSession` and `ReloadWhitelist` the withdrawals. A reload revokes the peers in
session that it unlists (`Dropped`); a peer it unlists without a session keeps its pending challenge
(`node.rs:851-862`). `cutoff` and `spared` are history: when each peer's access last ended, a reload
included, and the challenges that a reload left pending. A signature
is the record of what was signed and by whom: two signatures are equal when they commit
to the same, and no peer makes another's.

### GuardNode

`conn` is what the swarm knows of each connection and `incoming` the channel of accepted streams
between the swarm and the loop. One action per arm and outcome: `TakeStream`'s disjuncts refuse
a stream while stopping, without a session or over a cap, or start a task; a task goes
through the stages `serve_io` awaits in (`header`, `connect`, `relay`) and then releases its two
permits in the order of the code. `record_tunnel_finished` runs beside the loop and is two steps, the gauge
(`Finish`) and then the counter of the outcome (`CountOutcome`); a task between the two is at the stage
named for its outcome. `perPeer` is the table of semaphores; a task remembers
whether the semaphore its permit came from is the `current` one, because `per_peer.remove`
leaves the old one to the tasks that hold it. `Expel` is what Revoke and ReloadWhitelist do to
a peer that loses its session.

### ClientSession

Each connection has an end at either node, and each end a status that moves apart from the
other's: a connection the network has cut is still "established" to a swarm that has not been
polled. `Unlisted` is a revocation or a reload at the Guard: the pending challenge may outlive it only if the Client
had no session. `control` is the point of the code the Client's only task is at. `Polling` says where that task takes events: in `run_client_session`'s `select!`, in both loops of
`authenticate` and in the drain, but not during the backoff. `calm` is a history variable of
the environment: once it is set nothing goes wrong any more.

### Keeper and Forwarding

`Keeper` has two variables, `keeper` (what the Client's task is doing: serving, asleep
in a backoff, attempting, draining, stopped) and `cancelled`, the shutdown token. The refinement
maps the points of `ClientSession` to them. The keeper may begin to drain while it serves, or at the end of an
attempt; only while it serves is it bound to look at the token.

In `Forwarding`, `listener` holds the task of each redirection (not yet bound, accepting, in the pause after a
failed accept, draining, returned) with the ticks left of its timer, and `local` each connection of a
local program: in the kernel's backlog, being opened (`open` awaits the stream and the Guard's
byte), relayed, relayed though its tunnel is gone, ended by itself or cut by the Client. `link` is the connection to the
Guard as the openings find it. `mode` tells the Client of `nux-cli`, which binds its
redirections one after another (`starting`) and then runs the keeper, from `run_tunnel_client`, which drives
the swarm itself and returns with its one redirection. Time moves by `Tick`, in which every running
timer loses one; `Due` says when a timer that is out or a token that is to be seen comes first.
A relay ends when it likes or never.

### Startup and Discovery

`guard` holds each Guard's place in the waits of `Command::Guard` (connecting, reserving, registering,
serving), the peer that `next_connection` returned and the link to the relay; `relay` the relay's
process, its key file (absent, created but short, whole), its reservations and its registrations.
An action that is an event of the swarm says what the present wait makes of it: `Connected` moves a Guard
only if it is connecting, `LinkLost` only if it awaits a reservation from that peer, and so on; the
event is dropped otherwise. Reservations and registrations are lost with the relay's process, and a
registration also at the end of its lifetime; no action renews them, since no code does.

`client` is a Client between its start and its first authentication: the registrations not
looked at yet, the Guard and the address being dialled, whether `wait_for_peer` is running, and the
dials and connections of its swarm. `DialLate` ends the wait and leaves the dial, which may come up or
fail later; `Engaged` is what makes `Swarm::dial` refuse. A Client given an address
(`GivenAddress`) dials it without a search.

### RateLimiter

`hits` is the table; `admitted`, the full history of admissions, exists only for the
properties. `TableFor` is the table after the sweep that is due and the one that makes room, and
the four actions are the four returns of `allow_at`.

### Gateway

`store` is the table `config_node_guards`, of each configuration the peers it allows. A PUT is a
handler that first writes (`PutWritten`, `PutFailed`), then sends its `Allow` commands one by one
through the bounded channel (`PutPushed`), and may be dropped at either await (`PutDropped`): the
blocking task that was handed the write performs it all the same. `live` is the whitelist of the
embedded node, which replaces the roles of a peer at every command. `GatewayRestarts` rebuilds it
from the rows, in any order, since the query fixes none: `Rebuilt` gives a peer what the last row that
names it says, which is what the loop over the rows leaves. `unsettled` is history: the Guards whose last
stored PUT was cut short.

### WindowLimiter

One action per access of `allow` to its atomics, for each concurrent request: read the clock, load the start of
the window, store the new start, store zero, count. The stores are relaxed: another thread may
see them in either order.

### SyncConfig

`versions` is the sequence of configurations stored for one Guard (`get_config` answers the last).
Stamps are arbitrary: PUTs are stamped before they are written and handled concurrently. `sync` is where
`sync_config_loop` is. `guard.toml` is abstracted to what its readers make of it: the peers, and
whether `load` accepts the text, only the TOML parser does, or neither. `ApplyBegins` truncates and leaves any
beginning of the new text, `ApplyEnds` the whole of it; a write that fails leaves the
beginning. The text outside the three tables is kept from the file that was read, so a file that
lacks a section goes on lacking it. A read has a beginning (`HangupTaken`, `GuardStarts`) and an end
(`ReloadRead`, `GuardLoads`), because `read_to_string` reads until there is no more (`guard_config.rs:169`);
`reading` gathers what the file has been in between. If it stayed as it was, the read returns it; otherwise the
pieces may come from each of its texts: any of their peers, in a text that loads or does not (`Loads`). `overtaken` is
history: the whitelist came from a read of that kind. The Guard is `down`, `loading`, `starting` (it has loaded the
file and builds its node; SIGHUP ends it) or `up` (the reload task listens).

`Served` is what the other end of the tunnel answers. The gateway of the repository answers `GuardRoutes`
(`nux_gateway/src/api/routes.rs:45-76`), and `fetch_remote_config` asks for another path, `FetchRoute`
(`/api/v1/private/configs/:uuid`, `nux-cli/src/main.rs:336`). No file of the repository maps one to the other:
`sync_route` gives the gateway as it is, `sync_config` a stand-in that answers the path, to check the rest of the chain.

## 3. Runs

| run | question | instance |
|---|---|---|
| `authenticator` | does the authority keep its promise? | 2 peers, 3 nonces, a clock moving both ways around the validity window |
| `guard` | do sessions, semaphores, permits, metrics and shutdown stay consistent? | 1 attested peer, 2 connections, 2 tasks, a role, caps 1 and 2 |
| `guard_live` | do shutdowns and cut tunnels end? | 1 connection, 2 streams, 2 shutdowns, fairness |
| `client_session` | does the Client wait for nothing in vain and come back? is it a `Keeper`? | 2 connections, fairness |
| `client_stuck` | *violated*: reauthentication succeeds in the end | 1 connection, fairness |
| `rate_limiter` | are windows, memory and refusals right? | 4 addresses (1 exempt), limit 2, window 2, table of 2, 6 ticks |
| `gateway` | does the live whitelist follow what is stored? | 3 peers, 2 of them Guards, 2 PUTs at once, a channel of 1 |
| `discovery` | do Guards come to serve whatever the relay does? does the Client try them all, and end? | 2 Guards, 2 addresses each, a relay that restarts, early visitors, fairness |
| `forwarding` | do relays get their grace period, and no more? does a local program get an answer? | a port and a Unix socket, 2 programs (1 of a foreign UID), grace 2, pause 1, fairness |
| `window_limiter` | *violated*: a race at the turn of a window never refuses too many | 2 requests, budget 1, window of 1 second, 3 seconds |
| `sync_config` | does the stored configuration reach the Guard, and when can it be mixed with another? | 2 peers, 2 versions, 2 stamps, a stand-in that answers the path, fairness |
| `sync_route` | *violated*: the stored configuration reaches the Guard | as `sync_config`, with the routes of the gateway |

Why the bounds are enough. *Guard*: two connections are what tells a session that survives a
connection from one that does not; two tasks with a cap of one per peer and two in all let a stream
be refused by each semaphore, and one run on an old semaphore beside one on the new;
metrics are counted modulo 2, enough to see a stream counted twice or not at all. Peers meet only
in the global semaphore, which one peer's tasks can fill as well as two peers'; runs have one peer. *Client*: two
connections let the second one of a hole punch hide the loss of the first. *Authority*:
three nonces let a second challenge replace the first and a third follow a grant.
*Rate limiter*: six ticks hold two full windows; three counted addresses fill a table of two.
*Gateway*: two PUTs, of one Guard or of two that list each other, with three peers show every order of
writes, commands and restarts. *Configuration*: two versions without a peer in common are what a mix needs, a
list of two peers what a part needs, and two stamps let them share one, grow or go back; the reload task's channel of 8 is
cut to one, which changes no order, since the loop takes the whitelists first in, first out.
*Discovery*: two Guards let the search go from one to the next, and let a dial of the first come up or fail
while the second is awaited; two addresses let a late dial of one meet the other. *Forwarding*: two
programs let one relay end while another stays, at one redirection or at two; a grace period
longer than the pause is what tells a redirection late by a pause from one late by a drain, as
with the 30 s and 100 ms of the code; openings that reconnect by themselves are those of a
Client whose keeper no longer looks after the link. *Window limiter*: one request resets, the other
comes in between; a run with one request at a time finds no violation.
`CHECK_DEADLOCK FALSE` is given where the model stops by design: the loop has returned, the Client
has stopped, a bound is reached.

### What the violations show

- `client_stuck`: `authenticate` may fail (`OutboundFailure`) before `ConnectionClosed` has been taken. In TLC's
  trace the Client has come back over a new connection and asked for a challenge, the Guard restarts, and the
  request times out while the swarm still counts the connection; a request the Guard refuses, with
  its failure taken before the closing, leads to the same state. The
  backoff loop does not poll the swarm, the swarm refuses to dial a peer it counts as
  connected, and so on for ever, against `node.rs:545`. One connection is enough; no hole punching is
  involved. `ReauthenticatesOrSticks` shows this is the only way not to come back.
- `sync_route`: every fetch of `sync-config` fails, because the gateway has no route for the path it asks for; a stored
  configuration never arrives, against `nux_gateway/README.md:30-33`, which names the route the gateway does serve.
- `window_limiter`: a request that loads `window_start` after another has stored the new one and before
  it has stored zero counts itself in the old window, and is refused by a budget nobody has used
  in the new one, against `nux_gateway/src/rate_limit.rs:56-58`. The extra admissions the comment
  speaks of occur as well.

More disagreements are in the models, without a run of their own:

- `handle_auth_request` refuses a `HandshakeInit` while stopping, not a `ChallengeAnswer` (`node.rs:1000`,
  against `node.rs:52-55`); the session it opens carries no tunnel, since the loop refuses streams
  while stopping;
- a peer that loses its last connection loses its semaphore (`node.rs:767`); back in session it gets a new one, while
  tasks of its earlier tunnels still hold permits of the old. The cap documented for the concurrent flows of one
  peer (`tunnel/mod.rs:112`, `node.rs:709`) does not hold over tasks. It does hold over tunnels whose connection is
  up (`OpenTunnelsWithinPeerCap`);
- the shutdown token is looked at only between reconnections (`node.rs:526`, against `node.rs:502-504`, "la boucle de
  reconnexion s'arrête"). `Keeper` promises what both would: a keeper that stops reconnecting at the token would be one,
  too, so `ImplementsKeeper` says nothing for or against the comment;
- `tunnels_active` counts a stream from the moment it is taken, while its header and the local service are awaited, where
  its HELP text speaks of tunnels being relayed (`metrics.rs:81`); and a tunnel counts as opened when it has ended, not
  when it is acknowledged (`metrics.rs:75`). `MetricsBalanced` states what the counters do;
- a reload rejects an invalid file rather than fall into a partial state, says `main.rs:270-273`; a file caught half-written, or
  rewritten while it is read, may be valid and hold only some of the peers, or peers of two versions. `MixesOnlyWhenOvertaken`
  says which of these needs what;
- a peer of `allow` gets `gw-client` alone, in place of whatever it had (`roles.rs:40`), so a Guard that another
  Guard's configuration lists loses `gw-guard` and, with it, the reading of its own
  configuration, against `roles.rs:4-5` and `main.rs:112-115` of the gateway.

`EveryLocalAnswered` passes under the condition it states, that the keeper comes back to the swarm again and
again: `open` has no time limit, and `client_stuck` shows a keeper that never comes back.
`ConfigurationArrives` passes in `sync_config` under three conditions, each needed (TLC finds a counterexample without
it): stamps grow, since two versions of one second are one to `sync-config`; the file was
not left in a state `load` refuses, since a write that failed half-way is not always repaired
by the next; and someone answers the path, which is what `sync_route` lacks.

## 4. Fairness

- **Guard** (`GuardFairness`): the drain timer ticks, the grace period runs out, a connection told to
  close is reported closed, and a stream task makes progress: a header comes or its
  timeout fires, the connection attempt to the service ends, a relay over a dead connection
  ends, permits are dropped. The end of a relay over a dead connection assumes a local
  service that closes or writes once its input has ended, since `copy_bidirectional` waits
  for both directions; nothing is assumed of a relay over a live connection. Nothing forces
  a message, a stream or a command to come.
- **Client** (`SessionFairness`): the Client's task runs and its timers fire, the Guard serves its
  events and requests, the network reports a broken connection and ends a dial. Nothing
  forces the environment to calm down: the liveness properties start from `calm`.

- **Start** (`StartupFairness`, `Fairness` of `Discovery`): the timers of the waits fire, the
  rendezvous client gives a request an outcome (request-response's own time limit), the loop
  over registrations goes round. Nothing forces the relay to start or to stay, a
  reservation to be granted, or a dial to end.
- **Redirections** (`ForwardFairness`): the loops run, timers fire, and `select!`, which picks a ready
  branch at random, does not pass over one for ever (hence strong fairness of `TokenSeen` and
  `Accepted`); time is strongly fair, because a keeper that loses and regains its session
  disables `Tick` now and then. After the token is cancelled an accept may fail only before time moves on:
  the random choice is not assumed to prefer a failing accept, pause after pause. An opening is
  answered only while the keeper drives the swarm. Nothing makes a relay end or anyone stop the
  Client.
- **Configuration** (`SyncFairness`): `sync_config_loop` goes round, the reload task takes a signal and ends its read, the Guard's
  loop takes a whitelist. Nothing forces a PUT, a process to start or the environment to settle;
  once `calm` holds, sync-config knows the pid of the Guard that runs and nothing fails.

## 5. Proofs

Proved with TLAPS, for any constants that meet the named assumptions. Every safety invariant and
every action property that a passing run checks is stated by a theorem. Each follows from an
inductive invariant; a run checks that one whole, and with it the types it contains, before it
is proved.

*Assumptions on the constants.* Limits are natural numbers (`Modulus`, `Grace`, `Pause` and `Addresses` are not zero, and
`Pause <= Grace`, as the 100 ms and 30 s of the code), services with a requirement are services, attested peers are
peers, and so on: `AuthAssumption`, `GuardAssumption`, `ForwardingAssumption`, `SomeAddress`,
`RateAssumption`, `SyncAssumption`, `GatewayAssumption`. Finite are assumed the addresses of the limiter, because a deque
map holds finitely many, and the Guards of the gateway, because a table does. The others say that
`None` is no value of the types it is optional to (`AdmissionAssumption`, both `NoneAssumption`s of `GuardNode` and
`SyncConfig` and that of `Gateway`, `ClientAssumption`) and that relay, stranger, `None` and Guards are not
confused (`PeersDistinct`). The model values of the runs meet them all, and TLC evaluates them there.

*Authority* (`AuthenticatorProofs`). `AuthInv` adds to
the types that pending challenges carry nonces that were issued under the peer's current access or spared by a reload, that no
two pending challenges share one, that a spent challenge is never pending, that a session rests on a spent one and that
sessions belong to listed peers. It is inductive: `Issue` takes a fresh nonce, `verify` consumes before it decides,
`revoke` and `end_session` take the pending challenge along, and a reload leaves that of a peer without a session. From
it follow `AuthTypes`, `ChallengeSingleUse`, `ReloadAloneSparesChallenge` (which says that last case is the only one) and
`SessionsAlwaysListed`, and, action by action, that every step is a step of `Admission` (`AuthorityImplementsAdmission`).

*Guard loop* (`GuardProofs`). Few of the safety properties are inductive alone. `GuardInv` adds that
sessions belong to listed peers (`InSessionListed`), that a stream in the channel or a task refers only to a
connection that is up and is its peer's (`StreamsOfTheirPeer`), that the permit of a task over an open connection
comes from the semaphore in the table (`OpenTasksCounted`) and that tasks are finitely many. The
argument for tunnels: `Expel`, which Revoke and ReloadWhitelist run, marks every connection of a peer
it takes the session from as closing, and `ConnectionClosed` takes the semaphore away only
with the last connection; so a task over an open connection has both its session and its place in the
table (`NoTunnelWithoutSession`, `PeerCapOverOpenConnections`), though tasks of earlier connections may go on
and be more. The argument for permits compares sets of tasks before and after: one task
is added, leaves or changes stage (`OneMore`, `OneMoreOneLess`), and a semaphore that is dropped orphans its tasks
rather than free them. `MetricsAreBalanced` holds modulo the width of the counters, whatever it is; its
lemmas are about remainders (`DivisionAlgorithm` to `RemainderOfSum`); a task that has left the gauge and is not counted
yet stands in for the count it owes (`UncountedTasks`). `DrainedLoopIsIdle` follows from
the guard of the drain and the gauge.

*Client session* (`ClientSessionProofs`). `SessionInv` says what each wait rests on: a dial exists only
while the Client has no connection (`DialAlone`), a request is awaited over a connection its swarm still
counts (`AwaitedConnected`), who serves has no request left (`ServingAnswered`). That gives
`NeverServesUnconnected` and `EveryWaitCanEnd`. `ServedSessionIsHeld` relates both ends and needs `GrantKept`, which
begins earlier than the property does, when the grant is sent: from there, while no second connection comes
in, the Guard has one connection at most and gives the session up only with it.
`SessionKeepsPromise` maps each step to one of `Keeper` or a stutter.

*Redirections* (`ForwardingProofs`). `DrainBounded` speaks of the time since the token, which no timer of the code
measures. `ForwardInv` ties each timer to it: a redirection still accepting or pausing when the token comes leaves that
within `Pause` ticks, a drain that began then ends between `Grace` and `Pause + Grace`, the keeper's drain does not end before
`Grace` (`RedirectionsInTime`, `KeeperInTime`), and nothing is relayed that no redirection looks after (`CarriedByATask`).
`DrainIsBounded` and `RelaysGetTheirGrace` are the two sides of it.

*Start and discovery* (`DiscoveryProofs`). A search that gives up has dialled everyone (`SearchIsExhaustive`) because a Guard
not dialled yet has neither dial nor connection, so nothing makes the loop pass over its first address
(`UntriedIsAhead`). The address a search returns worked (`ReturnedAddressWorked`) because `Swarm::dial` refuses a peer with a dial
under way, so the wait can only see its own  (`AwaitsItsOwnDial`).

*Rate limiter* (`RateLimiterProofs`). `WindowRespected` speaks of the history,
which the code does not keep, so the invariant relates the two: the deque of a tracked
address is the end of its history, everything it lacks has expired, and an untracked address
has nothing left that counts (`TableComplete`). Pruning keeps this (`PruneCovers`), a sweep prunes every
entry (`SweepPrunes`), time only expires more, and an admission finds fewer than
`MaxPerWindow` entries, so the admission `MaxPerWindow` places back has expired (`AdmitKeeps`).
`RateInvariant`, `RateWindow`, `RateMemory` and `RateTypes` follow. `RateRefusals` needs in addition that histories are
ordered (`HistoryOrdered`): then all of a deque counts once its front does, and a table that is full after a
sweep is full of addresses that count.

*Gateway* (`GatewayProofs`). `GatewayInv` follows a command from the PUT to the whitelist: a PUT pushes only what
it has stored (`PushesItsOwn`), a command that carries `gw-guard` is for a peer with a row
(`GuardRoleCarried`), and no row is ever deleted; that is `GuardRoleIsReserved`. `StoredListed` is not inductive, since it accepts
the command of any PUT: the end of another PUT could take it away. `ListedByItsOwn` asks for a PUT of the list
that is stored, and implies it (`StoredIsListed`).

*Configuration* (`SyncConfigProofs`). `MixtureNeedsOvertaking` is about the whitelist alone; `CarriesOneVersion` says the
same of every place a list passes on its way (what was fetched, what is being written, the file, what a read has seen,
what was loaded). A torn write leaves part of one version, never parts of two, since a writer replaces the tables
(`RewrittenIsTheRow`); a read no write overtakes returns what the file is, and another one peers of the texts it saw
(`WritesCarry`, `LoadsCarry`).

*Model-checked only.* Liveness: `DrainEnds`, `CutTunnelsEnd`, `ReauthenticatesOrSticks`, `EveryLocalAnswered`,
`GuardStartsAnyway`, `DiscoveryEnds`, `ConfigurationArrives`, and the fairness that `ImplementsKeeper` promises
beyond the steps: liveness under fairness and `ENABLED` are out of the proof system's reach. `WindowLimiter` has no theorem:
its run shows a violation.

## 6. Not modelled, and the plan

Not modelled: cryptography (assumed sound); libp2p itself, whose steps are the external actions of
`GuardNode`, `ClientSession`, `Startup`, `Discovery` and `Forwarding`; serialisation and the layout of
frames (pure functions, covered by unit tests and the fuzz targets); hardening, digests and the nodes' own key
files (system calls made once, `identity.rs`); the metrics files and readiness files; the relay's counters and the limits of
libp2p's relay server; the gateway's tokens, proxy, health and node-state endpoints, which keep nothing
from one request to the next; a Client given an address without a peer, which trusts its first
connection (`main.rs:687`).

Planned: what a proof can still add.

1. `WindowLimiter`: a safety property the races keep (how far a window may be overrun by the requests that are
   in `allow` at its turn), checked and then proved.
2. The parts of `ReauthenticatesOrSticks` and `EveryLocalAnswered` that are safety: which states a Client can be stuck in, and
   that an opening is lost only with the keeper.
3. The lemmas about the gateway's live whitelist that would say which peers stay listed although no stored
   configuration names them.
