----------------------------- MODULE GuardNode -----------------------------
(***************************************************************************)
(* A Guard at work: run_guard_loop of src/crates/nux-core/src/node.rs, the *)
(* event and request handlers it calls, and the tasks it spawns for the    *)
(* tunnel streams (serve_stream of tunnel/mod.rs).                         *)
(*                                                                         *)
(* The loop is one thread of control that takes, in any order, a swarm     *)
(* event, an incoming tunnel stream, a control command or a drain tick;    *)
(* each arm of its select! is one action.  The stream tasks run beside it  *)
(* and share with it only the semaphores and the metrics, so each of their *)
(* accesses to those is a step of its own.                                 *)
(*                                                                         *)
(* Streams refer to the connection that carries them, and lose it when it  *)
(* closes.  A semaphore that has left the loop's table can no longer be    *)
(* acquired: all that is kept of it is that a task's permit is not the     *)
(* table's ("current" is FALSE).                                           *)
(***************************************************************************)
EXTENDS Admission, Integers, Sequences

CONSTANTS
    Conn,         \* bound: connections established at one time
    Slot,         \* bound: stream tasks at one time
    Service,      \* service names a header may carry
    Required,     \* exposed services and the role each requires, None for any
    Attested,     \* peers whose binary digest the registry checks
    PeerCap,      \* max_streams_per_peer
    TotalCap,     \* max_streams_total
    QueueCap,     \* streams libp2p-stream holds for the loop
    Modulus,      \* the metrics counters wrap at this value (2^64)
    MaxShutdown   \* bound: Shutdown commands in a behaviour

ASSUME GuardAssumption ==
    /\ DOMAIN Required \subseteq Service
    /\ Attested \subseteq Peer
    /\ PeerCap \in Nat /\ TotalCap \in Nat /\ QueueCap \in Nat
    /\ Modulus \in Nat \ {0}
    /\ MaxShutdown \in Nat

Connection == [peer : Peer, closing : BOOLEAN]
Stream == [peer : Peer, conn : {None} \cup Conn]
Outcome == {"opened", "denied"}
(* Between the two halves of record_finished a task is at the stage named  *)
(* for the outcome it has still to count.                                  *)
Stage == {"header", "connect", "relay", "recorded", "releasing"} \cup Outcome
Task == [peer : Peer, conn : {None} \cup Conn, roles : SUBSET Role,
         current : BOOLEAN, stage : Stage]
Phase == {"serving", "draining", "overdue", "drained", "forced"}

(* Option::None is no value of the types it is optional to. *)
ASSUME NoneAssumption ==
    /\ None \notin Conn /\ None \notin Nat
    /\ None \notin Connection /\ None \notin Stream /\ None \notin Task

VARIABLES
    conn,       \* the swarm's connections
    incoming,   \* tunnel streams accepted by libp2p-stream, not yet by the loop
    perPeer,    \* permits left in each peer's semaphore, None when it has none
    global,     \* permits left in the global semaphore
    task,       \* the stream tasks
    metrics,    \* tunnels_opened, tunnels_denied, tunnels_active
    handled,    \* history: streams the loop has taken
    phase,      \* shutdown_deadline: none, ahead, passed; or how the loop returned
    shutdowns   \* Shutdown commands received

swarmVars == <<conn, incoming>>
streamVars == <<perPeer, global, task, metrics, handled>>
phaseVars == <<phase, shutdowns>>
guardVars == <<admissionVars, swarmVars, streamVars, phaseVars>>

Running == phase \in {"serving", "draining", "overdue"}
Stopping == phase \in {"draining", "overdue"}

ConnectionsOf(p) == {c \in Conn : conn[c] # None /\ conn[c].peer = p}
Tasks == {s \in Slot : task[s] # None}

GuardInit ==
    /\ AdmissionInit
    /\ conn = [c \in Conn |-> None]
    /\ incoming = <<>>
    /\ perPeer = [p \in Peer |-> None]
    /\ global = TotalCap
    /\ task = [s \in Slot |-> None]
    /\ metrics = [opened |-> 0, denied |-> 0, active |-> 0]
    /\ handled = 0
    /\ phase = "serving"
    /\ shutdowns = 0

-----------------------------------------------------------------------------
(* Metrics. *)

Add(counter, delta) == (metrics[counter] + delta) % Modulus

RecordDenied == metrics' = [metrics EXCEPT !.denied = Add("denied", 1)]
RecordStarted == metrics' = [metrics EXCEPT !.active = Add("active", 1)]
(* Variation: an attempt that fails is not counted as denied. *)
RecordOutcomeIfOpened(outcome) ==
    metrics' = [metrics EXCEPT !.opened = IF outcome = "opened" THEN Add("opened", 1) ELSE @]

(* record_finished, in a task beside the loop, is two atomic operations. *)
RecordLeft == metrics' = [metrics EXCEPT !.active = Add("active", Modulus - 1)]
RecordOutcome(outcome) == metrics' = [metrics EXCEPT ![outcome] = Add(outcome, 1)]

-----------------------------------------------------------------------------
(* The swarm (libp2p): connections come and go, streams arrive. *)

Connect(p) ==
    /\ Running
    /\ \E c \in Conn :
        /\ conn[c] = None
        /\ conn' = [conn EXCEPT ![c] = [peer |-> p, closing |-> FALSE]]
    /\ UNCHANGED <<admissionVars, incoming, streamVars, phaseVars>>

(* disconnect_peer_id asks every connection of the peer to close; the      *)
(* swarm reports each ConnectionClosed later.                              *)
Disconnected(S) ==
    [c \in Conn |-> IF conn[c] # None /\ conn[c].peer \in S
                    THEN [conn[c] EXCEPT !.closing = TRUE]
                    ELSE conn[c]]

(* A connection opens a tunnel stream.  libp2p-stream drops it when the    *)
(* loop is behind.                                                         *)
OpenStream(c) ==
    /\ Running
    /\ conn[c] # None
    /\ Len(incoming) < QueueCap
    /\ incoming' = Append(incoming, [peer |-> conn[c].peer, conn |-> c])
    /\ UNCHANGED <<admissionVars, conn, streamVars, phaseVars>>

(* per_peer.remove: tasks keep their permits, of a semaphore that is no    *)
(* longer the table's.                                                     *)
WithoutSemaphores(S) == [p \in Peer |-> IF p \in S THEN None ELSE perPeer[p]]
Orphaned(t, S) == IF t # None /\ t.peer \in S THEN [t EXCEPT !.current = FALSE] ELSE t

(* A stream, or the task serving it, once connection c has closed. *)
Severed(t, c) == IF t # None /\ t.conn = c THEN [t EXCEPT !.conn = None] ELSE t

(* ConnectionClosed: the streams of the connection are dead, and with the  *)
(* peer's last connection go its semaphore and its session.                *)
(* Variations: the number of connections left is not looked at, or the    *)
(* event is not acted upon.                                                *)
AnyOf(c) == {conn[c].peer}
NoneOf(c) == {}

LastOf(c) == LET p == conn[c].peer IN IF ConnectionsOf(p) = {c} THEN {p} ELSE {}

ConnectionClosed(c) ==
    /\ Running
    /\ conn[c] # None
    /\ conn' = [conn EXCEPT ![c] = None]
    /\ incoming' = [i \in DOMAIN incoming |-> Severed(incoming[i], c)]
    /\ task' = [s \in Slot |-> Orphaned(Severed(task[s], c), LastOf(c))]
    /\ perPeer' = WithoutSemaphores(LastOf(c))
    /\ Forget(LastOf(c))
    /\ UNCHANGED <<whitelist, global, metrics, handled, phaseVars>>

-----------------------------------------------------------------------------
(* Authentication requests (handle_auth_request). *)

(* A request may still be delivered from a connection asked to close. *)
CanRequest(p) == Running /\ ConnectionsOf(p) # {}

(* silence: no answer, and the peer is disconnected. *)
Silence(p) == conn' = Disconnected({p})

HandshakeInit(p) ==
    /\ CanRequest(p)
    /\ IF ~Stopping /\ Listed(p)
       THEN Issue(p) /\ UNCHANGED conn
       ELSE Silence(p) /\ UNCHANGED admissionVars
    /\ UNCHANGED <<incoming, streamVars, phaseVars>>

(* The verdict on the answer itself (age, clock, signature) is left open:  *)
(* Authenticator decides it. The rest of verify is Admission's.            *)
AnswerAccepted(p) ==
    /\ CanRequest(p)
    /\ Grant(p)
    /\ UNCHANGED <<swarmVars, streamVars, phaseVars>>

AnswerRefused(p) ==
    /\ CanRequest(p)
    /\ Reject(p)
    /\ Silence(p)
    /\ UNCHANGED <<incoming, streamVars, phaseVars>>

-----------------------------------------------------------------------------
(* Tunnel streams: the arm of the loop that takes one and starts its task. *)

NextPeer == Head(incoming).peer

TakeStream ==
    /\ Running
    /\ incoming # <<>>
    /\ incoming' = Tail(incoming)
    /\ handled' = (handled + 1) % Modulus
    /\ UNCHANGED <<admissionVars, phaseVars>>

RefuseWhileStopping ==
    /\ TakeStream
    /\ Stopping
    /\ RecordDenied
    /\ UNCHANGED <<conn, perPeer, global, task>>

RefuseWithoutSession ==
    /\ TakeStream
    /\ ~Stopping
    /\ SessionRoles(NextPeer) = None
    /\ Silence(NextPeer)
    /\ RecordDenied
    /\ UNCHANGED <<perPeer, global, task>>

(* Variation: a new semaphore for every stream. *)
FreshPermits(p) == PeerCap

(* per_peer.entry(peer).or_insert_with: the first stream makes the peer's  *)
(* semaphore, even when the stream is then refused.                        *)
PeerPermits(p) == IF perPeer[p] = None THEN PeerCap ELSE perPeer[p]

(* Variation: the permit taken from the peer's semaphore is not given back.*)
RefuseAndKeepPermit ==
    /\ TakeStream
    /\ ~Stopping
    /\ SessionRoles(NextPeer) # None
    /\ PeerPermits(NextPeer) = 0 \/ global = 0
    /\ perPeer' = [perPeer EXCEPT ![NextPeer] = PeerPermits(NextPeer) - 1]
    /\ RecordDenied
    /\ UNCHANGED <<conn, global, task>>

(* No permit of the peer's own left, or none of the global one: in the     *)
(* second case the peer's permit, taken first, is given back.              *)
RefuseOverCap ==
    /\ TakeStream
    /\ ~Stopping
    /\ SessionRoles(NextPeer) # None
    /\ PeerPermits(NextPeer) = 0 \/ global = 0
    /\ perPeer' = [perPeer EXCEPT ![NextPeer] = PeerPermits(NextPeer)]
    /\ RecordDenied
    /\ UNCHANGED <<conn, global, task>>

StartTask ==
    /\ TakeStream
    /\ ~Stopping
    /\ SessionRoles(NextPeer) # None
    /\ PeerPermits(NextPeer) > 0
    /\ global > 0
    /\ perPeer' = [perPeer EXCEPT ![NextPeer] = PeerPermits(NextPeer) - 1]
    /\ global' = global - 1
    /\ RecordStarted
    /\ \E s \in Slot :
        /\ task[s] = None
        /\ task' = [task EXCEPT ![s] =
            [peer |-> NextPeer, conn |-> Head(incoming).conn,
             roles |-> SessionRoles(NextPeer), current |-> TRUE, stage |-> "header"]]
    /\ UNCHANGED conn

-----------------------------------------------------------------------------
(* A stream task: serve_stream, then the metrics, then the two permits.    *)

AtStage(s, stage) == Running /\ task[s] # None /\ task[s].stage = stage
MoveTo(s, stage) == task' = [task EXCEPT ![s].stage = stage]

(* serve_stream returns, and the stream leaves the gauge... *)
Finish(s, outcome) ==
    /\ RecordLeft
    /\ MoveTo(s, outcome)
    /\ UNCHANGED <<admissionVars, swarmVars, perPeer, global, handled, phaseVars>>

(* ...before it is counted. *)
CountOutcome(s) ==
    \E outcome \in Outcome :
        /\ AtStage(s, outcome)
        /\ RecordOutcome(outcome)
        /\ MoveTo(s, "recorded")
        /\ UNCHANGED <<admissionVars, swarmVars, perPeer, global, handled, phaseVars>>

(* The service is exposed, the roles captured when the stream was taken    *)
(* include the one it requires, and the digest is the one expected, if any.*)
Authorised(t, service, digestMatches) ==
    /\ service \in DOMAIN Required
    /\ Required[service] \in {None} \cup t.roles
    /\ t.peer \in Attested => digestMatches

ReadHeader(s) ==
    /\ AtStage(s, "header")
    /\ \E service \in Service, digestMatches \in BOOLEAN :
        \/ /\ Authorised(task[s], service, digestMatches)
           /\ MoveTo(s, "connect")
           /\ UNCHANGED <<admissionVars, swarmVars, perPeer, global, metrics, handled, phaseVars>>
        \/ /\ ~Authorised(task[s], service, digestMatches)
           /\ Finish(s, "denied")

(* HEADER_TIMEOUT, or a header that cannot be read. *)
HeaderLost(s) == AtStage(s, "header") /\ Finish(s, "denied")

(* The local service answers and the peer is still there for the ACK. *)
TunnelOpened(s) ==
    /\ AtStage(s, "connect")
    /\ task[s].conn # None
    /\ MoveTo(s, "relay")
    /\ UNCHANGED <<admissionVars, swarmVars, perPeer, global, metrics, handled, phaseVars>>

(* Variation: the failure is noticed only while the peer is there. *)
TunnelFailedForPeer(s) == AtStage(s, "connect") /\ task[s].conn # None /\ Finish(s, "denied")

(* The local service cannot be reached, or the ACK cannot be written. *)
TunnelFailed(s) == AtStage(s, "connect") /\ Finish(s, "denied")

(* copy_bidirectional returns: either end closed, or the connection died. *)
RelayEnds(s) == AtStage(s, "relay") /\ Finish(s, "opened")

ReleasePeerPermit(s) ==
    /\ AtStage(s, "recorded")
    /\ MoveTo(s, "releasing")
    /\ perPeer' = IF task[s].current
                  THEN [perPeer EXCEPT ![task[s].peer] = @ + 1]
                  ELSE perPeer
    /\ UNCHANGED <<admissionVars, swarmVars, global, metrics, handled, phaseVars>>

ReleaseGlobalPermit(s) ==
    /\ AtStage(s, "releasing")
    /\ task' = [task EXCEPT ![s] = None]
    /\ global' = global + 1
    /\ UNCHANGED <<admissionVars, swarmVars, perPeer, metrics, handled, phaseVars>>

-----------------------------------------------------------------------------
(* Control commands. *)

(* The peers S lose their connections and their place in the table of      *)
(* semaphores.                                                             *)
Expel(S) ==
    /\ conn' = Disconnected(S)
    /\ perPeer' = WithoutSemaphores(S)
    /\ task' = [s \in Slot |-> Orphaned(task[s], S)]
    /\ UNCHANGED <<incoming, global, metrics, handled, phaseVars>>

(* GuardControl::Revoke: only a peer in session is disconnected. *)
RevokeCommand(p) == Running /\ Revoke(p) /\ Expel(sessions \cap {p})

AllowCommand(p, roles) ==
    /\ Running
    /\ Allow(p, roles)
    /\ UNCHANGED <<swarmVars, streamVars, phaseVars>>

(* Variation: the list is replaced and no session is looked at. *)
ReplaceCommand(new) ==
    /\ Running
    /\ whitelist' = new
    /\ UNCHANGED <<challenged, sessions, swarmVars, streamVars, phaseVars>>

ReloadCommand(new) == Running /\ ReloadWhitelist(new) /\ Expel(Dropped(new))

(* GuardControl::Shutdown sets the deadline, again if it comes again. *)
ShutdownCommand ==
    /\ Running
    /\ shutdowns < MaxShutdown
    /\ shutdowns' = shutdowns + 1
    /\ phase' = "draining"
    /\ UNCHANGED <<admissionVars, swarmVars, streamVars>>

(* The grace period elapses. *)
GraceExpires ==
    /\ phase = "draining"
    /\ phase' = "overdue"
    /\ UNCHANGED <<admissionVars, swarmVars, streamVars, shutdowns>>

(* Variations: the loop returns as soon as a permit is free; or it waits   *)
(* for the last tunnel without looking at the deadline.                    *)
DrainTickEager ==
    /\ Stopping
    /\ \/ global > 0 /\ phase' = "drained"
       \/ global = 0 /\ phase = "overdue" /\ phase' = "forced"
    /\ UNCHANGED <<admissionVars, swarmVars, streamVars, shutdowns>>
DrainTickPatient ==
    /\ Stopping
    /\ global = TotalCap
    /\ phase' = "drained"
    /\ UNCHANGED <<admissionVars, swarmVars, streamVars, shutdowns>>

(* drain_check: the loop returns once every permit is back, or when the    *)
(* deadline has passed.                                                    *)
DrainTick ==
    /\ Stopping
    /\ \/ global = TotalCap /\ phase' = "drained"
       \/ global # TotalCap /\ phase = "overdue" /\ phase' = "forced"
    /\ UNCHANGED <<admissionVars, swarmVars, streamVars, shutdowns>>

-----------------------------------------------------------------------------
TaskStep(s) ==
    \/ ReadHeader(s)
    \/ HeaderLost(s)
    \/ TunnelOpened(s)
    \/ TunnelFailed(s)
    \/ RelayEnds(s)
    \/ CountOutcome(s)
    \/ ReleasePeerPermit(s)
    \/ ReleaseGlobalPermit(s)

GuardNext ==
    \/ \E p \in Peer : Connect(p) \/ HandshakeInit(p) \/ AnswerAccepted(p) \/ AnswerRefused(p)
    \/ \E c \in Conn : OpenStream(c) \/ ConnectionClosed(c)
    \/ RefuseWhileStopping \/ RefuseWithoutSession \/ RefuseOverCap \/ StartTask
    \/ \E s \in Slot : TaskStep(s)
    \/ \E p \in Peer : RevokeCommand(p) \/ \E roles \in SUBSET Role : AllowCommand(p, roles)
    \/ \E new \in Whitelist : ReloadCommand(new)
    \/ ShutdownCommand \/ GraceExpires \/ DrainTick

GuardSpec == GuardInit /\ [][GuardNext]_guardVars

(* What the runtime and the network do in time: the drain timer ticks, the *)
(* grace period runs out, a connection told to close is reported closed, a *)
(* header arrives or times out, the connection attempt to the local        *)
(* service ends (by the operating system's timeout, if need be), a relay   *)
(* over a dead connection ends, and a finished task gives its permits      *)
(* back.  The relay's end assumes a local service that, at the end of its  *)
(* input, closes its side or sends what the dead stream refuses:           *)
(* copy_bidirectional waits for that.  A relay over a live connection may  *)
(* last forever.                                                           *)
TaskProgress(s) ==
    \/ ReadHeader(s) \/ HeaderLost(s)
    \/ TunnelOpened(s) \/ TunnelFailed(s)
    \/ task[s].conn = None /\ RelayEnds(s)
    \/ CountOutcome(s) \/ ReleasePeerPermit(s) \/ ReleaseGlobalPermit(s)

GuardFairness ==
    /\ WF_guardVars(DrainTick)
    /\ WF_guardVars(GraceExpires)
    /\ \A c \in Conn : WF_guardVars(conn[c] # None /\ conn[c].closing /\ ConnectionClosed(c))
    /\ \A s \in Slot : WF_guardVars(task[s] # None /\ TaskProgress(s))

FairGuardSpec == GuardSpec /\ GuardFairness

=============================================================================
