-------------------------- MODULE GuardProperties --------------------------
(* What the Guard's loop must keep true, across its handlers and tasks. *)
EXTENDS GuardNode, FiniteSets

(* Every variable keeps the shape its code gives it. *)
GuardTypeOK ==
    /\ whitelist \in Whitelist
    /\ challenged \in SUBSET Peer
    /\ sessions \in SUBSET Peer
    /\ conn \in [Conn -> {None} \cup Connection]
    /\ incoming \in Seq(Stream) /\ Len(incoming) <= QueueCap
    /\ perPeer \in [Peer -> {None} \cup 0..PeerCap]
    /\ global \in 0..TotalCap
    /\ task \in [Slot -> {None} \cup Task]
    /\ metrics \in [{"opened", "denied", "active"} -> 0..(Modulus - 1)]
    /\ handled \in 0..(Modulus - 1)
    /\ phase \in Phase
    /\ shutdowns \in 0..MaxShutdown

OnOpenConnection(s) == task[s].conn # None /\ ~conn[task[s].conn].closing
HoldsPeerPermit(s) == task[s].stage # "releasing"
Serving(s) == task[s].stage \in {"header", "connect", "relay"}

(* The tasks that serve, those half-way through record_finished (off the   *)
(* gauge, outcome not counted), those that hold a permit of peer p's       *)
(* semaphore in the table, and those that hold one, of any semaphore, over *)
(* an open connection.                                                     *)
ServingTasks == {s \in Tasks : Serving(s)}
UncountedTasks == {s \in Tasks : task[s].stage \in Outcome}
PermitHolders(p) ==
    {s \in Tasks : task[s].peer = p /\ task[s].current /\ HoldsPeerPermit(s)}
OpenTunnels(p) ==
    {s \in Tasks : task[s].peer = p /\ OnOpenConnection(s) /\ HoldsPeerPermit(s)}

(* No session and no pending challenge outlives the peer's last connection,*)
(* so both tables stay bounded by the peers connected (handle_guard_event).*)
SessionsConnected == \A p \in sessions \cup challenged : ConnectionsOf(p) # {}

(* A tunnel whose connection is up belongs to a peer in session and still  *)
(* listed, whatever was revoked or reloaded while it was being opened: the *)
(* handler that ends a session always cuts the connections it leaves.      *)
LiveTunnelsHaveSession ==
    \A s \in Tasks : OnOpenConnection(s) => SessionRoles(task[s].peer) # None

(* Of one peer, no more tunnels are open over live connections than the    *)
(* cap, whichever semaphore counted them.                                  *)
OpenTunnelsWithinPeerCap == \A p \in Peer : Cardinality(OpenTunnels(p)) <= PeerCap

(* No permit is lost or made up: each semaphore's permits are those of the *)
(* tasks that hold one and those left in it.                               *)
PermitsAccounted ==
    /\ global + Cardinality(Tasks) = TotalCap
    /\ \A p \in Peer : perPeer[p] # None =>
        perPeer[p] + Cardinality(PermitHolders(p)) = PeerCap

(* Every stream the loop took is accounted for once: opened, denied,       *)
(* active, or in the hands of a task between the two halves of             *)
(* record_finished.  The gauge is the number of tasks that serve, those    *)
(* that wait for a header or for the local service included: more than the *)
(* tunnels being relayed that its HELP text speaks of (metrics.rs:81).     *)
MetricsBalanced ==
    /\ (metrics.opened + metrics.denied + metrics.active + Cardinality(UncountedTasks)) % Modulus
            = handled
    /\ metrics.active = Cardinality(ServingTasks) % Modulus

(* When the loop returns before its deadline, every tunnel has ended and   *)
(* the last snapshot of the metrics shows none active.                     *)
DrainedIsIdle == phase = "drained" => Tasks = {} /\ metrics.active = 0

(* Once shutdown is asked, the loop returns. *)
DrainEnds == Stopping ~> ~Running

(* A tunnel over a connection that was cut, by a revocation or a refusal,  *)
(* ends and gives its permits back.                                        *)
CutTunnelsEnd ==
    \A s \in Slot :
        task[s] # None /\ ~OnOpenConnection(s) ~> task[s] = None \/ ~Running

-----------------------------------------------------------------------------
(* What makes the safety properties above inductive.                       *)

(* A peer in session is listed: a session ends with its peer's listing.    *)
InSessionListed == \A p \in sessions : Listed(p)

(* A stream, or the task that serves it, refers to a connection that is up *)
(* and is its own peer's: it loses the reference with the connection, in   *)
(* the same step, wherever it then is.                                     *)
StreamsOfTheirPeer ==
    /\ \A i \in DOMAIN incoming : incoming[i].conn # None =>
        conn[incoming[i].conn] # None /\ conn[incoming[i].conn].peer = incoming[i].peer
    /\ \A s \in Tasks : task[s].conn # None =>
        conn[task[s].conn] # None /\ conn[task[s].conn].peer = task[s].peer

(* The semaphore a task's permit belongs to is the table's as long as the  *)
(* task's connection is open: a semaphore leaves the table only with every *)
(* connection of its peer.                                                 *)
OpenTasksCounted ==
    \A s \in Tasks :
        /\ OnOpenConnection(s) => task[s].current
        /\ task[s].current => perPeer[task[s].peer] # None

(* The inductive invariant of the loop: who is in session is listed and    *)
(* connected, every open tunnel is a counted one of a peer in session, and *)
(* permits and metrics agree with the tasks.                               *)
GuardInv ==
    /\ GuardTypeOK
    /\ InSessionListed
    /\ SessionsConnected
    /\ StreamsOfTheirPeer
    /\ LiveTunnelsHaveSession
    /\ OpenTasksCounted
    /\ IsFiniteSet(Tasks)
    /\ PermitsAccounted
    /\ MetricsBalanced
    /\ DrainedIsIdle

=============================================================================
