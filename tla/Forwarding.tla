----------------------------- MODULE Forwarding -----------------------------
(***************************************************************************)
(* The local redirections of a Client (src/crates/nux-core/src/tunnel:     *)
(* forward_listener, forward_unix_listener, relay_local, open), started    *)
(* one after another by Command::Client of nux-cli beside the session      *)
(* keeper, or alone by run_tunnel_client and run_tunnel_client_unix of     *)
(* node.rs, which drive the swarm themselves and do not reconnect.         *)
(*                                                                         *)
(* Local programs, the redirections, the keeper and the Guard interleave;  *)
(* the shutdown token starts several timers that do not know of each       *)
(* other.  Time moves by ticks, and only when no timer is due and no loop  *)
(* has a cancelled token before it: loops take no time.                    *)
(***************************************************************************)
EXTENDS Keeper, Integers

CONSTANTS
    Listeners,      \* the redirections, ports and Unix sockets
    UnixSockets,    \* those of them that check the UID of the caller
    Programs,       \* bound: local connections
    Allowed,        \* programs whose UID is in allowed_uids
    Grace,          \* grace_period, in ticks
    Pause           \* bound: the pause after a failed accept, in ticks

ASSUME ForwardingAssumption ==
    /\ UnixSockets \subseteq Listeners /\ Allowed \subseteq Programs
    /\ Grace \in Nat \ {0} /\ Pause \in Nat \ {0} /\ Pause <= Grace

VARIABLES
    mode,       \* "session": Command::Client; "single": run_tunnel_client
    starting,   \* Command::Client still binds its redirections
    listener,   \* each redirection: where its task is, ticks left of its timer
    local,      \* each local connection: its redirection, how far it got
    link,       \* to the Guard: "down", "bare" (not authenticated), "session"
    left,       \* ticks left of the keeper's drain
    since       \* ticks since the token was cancelled

forwardVars == <<mode, starting, listener, local, link, left, since>>
vars == <<keeperVars, forwardVars>>

Task == [pc : {"unbound", "accepting", "pausing", "draining", "returned"}, left : 0 .. Grace]

(* A connection waits in the kernel's backlog, is being opened, relayed,   *)
(* or relayed after its tunnel has ended; it ends by itself ("done"), or   *)
(* is cut by the Client ("cut").                                           *)
Stage == {"absent", "backlog", "opening", "relaying", "severed", "done", "cut"}
Relayed == {"opening", "relaying", "severed"}
Local == [at : Listeners, stage : Stage]

(* Bound: time is told no further than this. *)
Horizon == Pause + Grace + 1

ForwardTypeOK ==
    /\ keeper \in Activity /\ cancelled \in BOOLEAN /\ starting \in BOOLEAN
    /\ mode \in {"session", "single"}
    /\ listener \in [Listeners -> Task]
    /\ local \in [Programs -> Local]
    /\ link \in {"down", "bare", "session"}
    /\ left \in 0 .. Grace /\ since \in 0 .. Horizon

Running == keeper # "stopped"
Doing(l, pc) == listener[l].pc = pc
Enters(l, pc, ticks) == listener' = [listener EXCEPT ![l] = [pc |-> pc, left |-> ticks]]
Reaches(p, stage) == local' = [local EXCEPT ![p].stage = stage]

ForwardInit ==
    /\ KeeperInit
    /\ link = "session" /\ left = 0 /\ since = 0
    /\ local \in [Programs -> [at : Listeners, stage : {"absent"}]]
    /\ \/ /\ mode = "session" /\ starting = TRUE
          /\ listener = [l \in Listeners |-> [pc |-> "unbound", left |-> 0]]
       \/ /\ mode = "single" /\ starting = FALSE
          /\ \E one \in Listeners :
                listener = [l \in Listeners |->
                    [pc |-> IF l = one THEN "accepting" ELSE "unbound", left |-> 0]]

(* What becomes of local connections when their task or the process ends:  *)
(* listening sockets and relays are closed with it.                        *)
Cut(dropped) ==
    local' = [p \in Programs |->
                IF local[p].stage \in Relayed \cup {"backlog"} /\ local[p].at \in dropped
                THEN [local[p] EXCEPT !.stage = "cut"] ELSE local[p]]

-----------------------------------------------------------------------------
(* The start: each redirection is bound and its task spawned before the    *)
(* next one is tried; nobody drives the swarm meanwhile.                   *)

(* A socket left at the path by an earlier Client is removed first. *)
Binds(l) ==
    /\ Running /\ starting /\ Doing(l, "unbound")
    /\ Enters(l, "accepting", 0)
    /\ UNCHANGED <<keeperVars, mode, starting, local, link, left, since>>

(* The port is taken, the path is a file or cannot be protected: the `?`   *)
(* ends the process, with the redirections already at work.                *)
BindFails ==
    /\ Running /\ starting
    /\ \E l \in Listeners : Doing(l, "unbound")
    /\ keeper' = "stopped"
    /\ Cut(Listeners)
    /\ UNCHANGED <<cancelled, mode, starting, listener, link, left, since>>

SessionBegins ==
    /\ Running /\ starting
    /\ \A l \in Listeners : ~Doing(l, "unbound")
    /\ starting' = FALSE
    /\ UNCHANGED <<keeperVars, mode, listener, local, link, left, since>>

-----------------------------------------------------------------------------
(* The accept loops. *)

Connects(p) ==
    /\ Running /\ local[p].stage = "absent"
    /\ listener[local[p].at].pc \notin {"unbound", "returned"}
    /\ Reaches(p, "backlog")
    /\ UNCHANGED <<keeperVars, mode, starting, listener, link, left, since>>

(* SO_PEERCRED tells the UID at the other end of a Unix socket. *)
Refused(p) == local[p].at \in UnixSockets /\ p \notin Allowed

(* Accepted: refused to a UID that is not allowed, relayed by a task of    *)
(* its own otherwise.  The cancelled token and a connection may both be    *)
(* ready: select! takes either.                                            *)
Accepted(p) ==
    /\ Running /\ local[p].stage = "backlog"
    /\ Doing(local[p].at, "accepting")
    /\ Reaches(p, IF Refused(p) THEN "done" ELSE "opening")
    /\ UNCHANGED <<keeperVars, mode, starting, listener, link, left, since>>

(* Out of descriptors: the loop sleeps, without an eye on the token.       *)
(* Bound: select!, whose order is random, is not assumed to prefer a       *)
(* failing accept to the token time after time, a pause between each.      *)
AcceptFails(l) ==
    /\ Running /\ Doing(l, "accepting")
    /\ cancelled => since = 0
    /\ \E p \in Programs : local[p] = [at |-> l, stage |-> "backlog"]
    /\ Enters(l, "pausing", Pause)
    /\ UNCHANGED <<keeperVars, mode, starting, local, link, left, since>>

PauseEnds(l) ==
    /\ Running /\ Doing(l, "pausing") /\ listener[l].left = 0
    /\ Enters(l, "accepting", 0)
    /\ UNCHANGED <<keeperVars, mode, starting, local, link, left, since>>

(* The token is cancelled: the relays of the JoinSet are awaited. *)
TokenSeen(l) ==
    /\ Running /\ Doing(l, "accepting") /\ cancelled
    /\ Enters(l, "draining", Grace)
    /\ UNCHANGED <<keeperVars, mode, starting, local, link, left, since>>

RelaysOf(l) == {p \in Programs : local[p].at = l /\ local[p].stage \in Relayed}

(* Variation: the relays are joined without a time limit. *)
ReturnsWhenJoined(l) ==
    /\ Running /\ Doing(l, "draining")
    /\ RelaysOf(l) = {}
    /\ Enters(l, "returned", 0)
    /\ Cut({l})
    /\ UNCHANGED <<keeperVars, mode, starting, link, left, since>>

(* The last relay was joined, or the grace period is over: the function    *)
(* returns, and drops its socket and its JoinSet.                          *)
Returns(l) ==
    /\ Running /\ Doing(l, "draining")
    /\ RelaysOf(l) = {} \/ listener[l].left = 0
    /\ Enters(l, "returned", 0)
    /\ Cut({l})
    /\ UNCHANGED <<keeperVars, mode, starting, link, left, since>>

-----------------------------------------------------------------------------
(* One relay: open, then copy_bidirectional. *)

(* No stream, no header, or the stream ends before the acknowledgement.    *)
(* A Guard that has not authenticated the peer also closes the connection. *)
OpenFails(p) ==
    /\ Running /\ local[p].stage = "opening"
    /\ Reaches(p, "done")
    /\ link' = IF link = "bare" THEN "down" ELSE link
    /\ UNCHANGED <<keeperVars, mode, starting, listener, left, since>>

Acknowledged(p) ==
    /\ Running /\ local[p].stage = "opening" /\ link = "session"
    /\ Reaches(p, "relaying")
    /\ UNCHANGED <<keeperVars, mode, starting, listener, link, left, since>>

(* Variation: the drain's time limit is set anew for each relay it joins. *)
JoinRestarts(p) ==
    /\ Running /\ local[p].stage \in {"relaying", "severed"}
    /\ Reaches(p, "done")
    /\ LET l == local[p].at IN
        listener' = IF Doing(l, "draining") THEN [listener EXCEPT ![l].left = Grace]
                                            ELSE listener
    /\ UNCHANGED <<keeperVars, mode, starting, link, left, since>>

(* Both sides have finished, or one of them fails. *)
RelayEnds(p) ==
    /\ Running /\ local[p].stage \in {"relaying", "severed"}
    /\ Reaches(p, "done")
    /\ UNCHANGED <<keeperVars, mode, starting, listener, link, left, since>>

-----------------------------------------------------------------------------
(* The link to the Guard and the keeper that looks after it. *)

(* Every tunnel ends; its relay is left with its local program. *)
LinkLost ==
    /\ Running /\ link # "down"
    /\ link' = "down"
    /\ local' = [p \in Programs |->
                    IF local[p].stage = "relaying" THEN [local[p] EXCEPT !.stage = "severed"]
                                                   ELSE local[p]]
    /\ UNCHANGED <<keeperVars, mode, starting, listener, left, since>>

(* The keeper's dial, or that of an opening without a connection (once the *)
(* keeper no longer looks after it).                                       *)
LinkBack ==
    /\ link = "down"
    /\ \/ keeper = "attempting"
       \/ /\ keeper = "draining" \/ (mode = "single" /\ Running)
          /\ \E p \in Programs : local[p].stage = "opening"
    /\ link' = "bare"
    /\ UNCHANGED <<keeperVars, mode, starting, listener, local, left, since>>

KeeperMoves ==
    /\ mode = "session" /\ ~starting
    /\ \/ Loses /\ link = "down" /\ UNCHANGED <<link, left>>
       \/ (Attempts \/ GivesUp) /\ UNCHANGED <<link, left>>
       \/ Regains /\ link = "bare" /\ link' = "session" /\ UNCHANGED left
       \/ Drains /\ left' = Grace /\ UNCHANGED link
    /\ UNCHANGED <<mode, starting, listener, local, since>>

(* Variation: the keeper leaves as soon as it has seen the token. *)
LeavesAtOnce ==
    /\ Stops
    /\ Cut(Listeners)
    /\ UNCHANGED <<mode, starting, listener, link, left, since>>

(* The keeper's grace period is over, whatever the redirections do: main   *)
(* returns, and the runtime ends their tasks.                              *)
ProcessEnds ==
    /\ Stops /\ left = 0
    /\ Cut(Listeners)
    /\ UNCHANGED <<mode, starting, listener, link, left, since>>

(* run_tunnel_client returns with its redirection. *)
SingleEnds ==
    /\ mode = "single" /\ Running
    /\ \E l \in Listeners : Doing(l, "returned")
    /\ keeper' = "stopped"
    /\ UNCHANGED <<cancelled, forwardVars>>

Signal == Running /\ Cancel /\ UNCHANGED forwardVars

-----------------------------------------------------------------------------
(* Time. *)

Timed == {"pausing", "draining"}

Due ==
    \/ starting
    \/ \E l \in Listeners :
        \/ listener[l].pc \in Timed /\ listener[l].left = 0
        \/ cancelled /\ Doing(l, "accepting")
    \/ keeper = "draining" /\ left = 0
    \/ mode = "session" /\ keeper = "serving" /\ cancelled

(* Variation: a deadline subtracted from below zero. *)
Unchecked(n) == n - 1

Less(n) == IF n = 0 THEN 0 ELSE n - 1

Tick ==
    /\ Running /\ ~Due
    /\ \/ cancelled
       \/ \E l \in Listeners : Doing(l, "pausing")
    /\ listener' = [l \in Listeners |-> [listener[l] EXCEPT !.left = Less(@)]]
    /\ left' = Less(left)
    /\ since' = IF cancelled /\ since < Horizon THEN since + 1 ELSE since
    /\ UNCHANGED <<keeperVars, mode, starting, local, link>>

-----------------------------------------------------------------------------
Redirection ==
    \/ \E l \in Listeners :
        Binds(l) \/ AcceptFails(l) \/ PauseEnds(l) \/ TokenSeen(l) \/ Returns(l)
    \/ \E p \in Programs :
        Connects(p) \/ Accepted(p) \/ OpenFails(p) \/ Acknowledged(p) \/ RelayEnds(p)

Process ==
    \/ BindFails \/ SessionBegins \/ KeeperMoves \/ ProcessEnds \/ SingleEnds
    \/ LinkLost \/ LinkBack \/ Signal

ForwardNext == Redirection \/ Process \/ Tick

ForwardSpec == ForwardInit /\ [][ForwardNext]_vars

(* Time passes, the loops run; select! does not pass over one of its       *)
(* branches for ever; the Guard ends or acknowledges an opening (its own   *)
(* time limits see to it) if the swarm is driven.  Nothing makes a relay   *)
(* end, a keeper regain its session, or anyone cancel the token.           *)
ForwardFairness ==
    /\ SF_vars(Tick) /\ WF_vars(ProcessEnds) /\ WF_vars(SingleEnds)
    /\ WF_vars(SessionBegins \/ BindFails)
    /\ WF_vars(mode = "session" /\ keeper = "serving" /\ Drains /\ KeeperMoves)
    /\ \A l \in Listeners :
        WF_vars(Binds(l)) /\ WF_vars(PauseEnds(l)) /\ SF_vars(TokenSeen(l)) /\ WF_vars(Returns(l))
    /\ \A p \in Programs :
        /\ SF_vars(Accepted(p))
        /\ SF_vars(keeper \in Polled /\ ~starting /\ (OpenFails(p) \/ Acknowledged(p)))

FairForwardSpec == ForwardSpec /\ ForwardFairness

-----------------------------------------------------------------------------
(* What must hold. *)

(* Whatever the relays and their programs do, no relay and no listening    *)
(* socket outlives the token by more than a pause and a grace period:      *)
(* neither relays that end one after another, nor a keeper that is away    *)
(* and has not seen the token, stretch a drain (tunnel/mod.rs 398, 456).   *)
DrainBounded ==
    since > Pause + Grace =>
        /\ \A l \in Listeners : listener[l].pc \in {"unbound", "returned"}
        /\ \A p \in Programs : local[p].stage \notin Relayed \cup {"backlog"}

(* Once started, the Client cuts no relay before a grace period has passed *)
(* since the signal: it does not end while a redirection still drains      *)
(* within its time ("maintient le swarm actif pour elles", main.rs 716).   *)
GraceGranted ==
    [][\A p \in Programs :
        ~starting /\ local[p].stage \in Relayed /\ local'[p].stage = "cut"
            => since >= Grace]_vars

(* The time of the token: it starts with it, and not before the start of   *)
(* the Client is over.                                                     *)
TimeSinceToken == ~cancelled \/ starting => since = 0

(* What the timer of a redirection has left, against the time since the    *)
(* token: a pause is over in the first Pause ticks, a drain begins then    *)
(* and lasts a grace period.                                               *)
InTime(l) ==
    /\ Doing(l, "accepting") => since <= Pause
    /\ Doing(l, "pausing") => since + listener[l].left <= Pause
    /\ Doing(l, "draining") => cancelled /\ since + listener[l].left \in Grace .. Pause + Grace

RedirectionsInTime == \A l \in Listeners : InTime(l)

KeeperInTime == keeper = "draining" => cancelled /\ since + left >= Grace

(* What is in a backlog or relayed has a redirection that looks after it.  *)
Carried(p) == local[p].stage \in Relayed \cup {"backlog"}
Carrying(l) == listener[l].pc \notin {"unbound", "returned"}
CarriedByATask == \A p \in Programs : Carried(p) => Carrying(local[p].at)

(* The inductive invariant. *)
ForwardInv ==
    /\ ForwardTypeOK /\ TimeSinceToken /\ RedirectionsInTime /\ KeeperInTime
    /\ CarriedByATask /\ DrainBounded

(* A local connection is accepted, and its opening answered, or closed: it *)
(* never hangs, if the swarm is driven again and again.  (A keeper that    *)
(* stays away leaves it hanging: open has no time limit of its own.)       *)
Pending(p) == local[p].stage \in {"backlog", "opening"}

EveryLocalAnswered ==
    ([]<>(keeper \in Polled \cup {"stopped"})) =>
        \A p \in Programs : Pending(p) ~> ~Pending(p)
=============================================================================
