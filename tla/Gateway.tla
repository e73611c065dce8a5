------------------------------ MODULE Gateway ------------------------------
(***************************************************************************)
(* The gateway's configurations: put_config, the roles it derives and the  *)
(* whitelist of the Guard node it embeds                                   *)
(* (src/nux_gateway/src/handlers/configs.rs, roles.rs, main.rs).           *)
(*                                                                         *)
(* A PUT stores the configuration of a Guard, then sends one Allow command *)
(* per peer to the embedded node's loop, in a task that axum drops when    *)
(* its caller goes away.  A configuration is what the whitelists retain of *)
(* it: the peers it allows.  A request validate_input refuses changes      *)
(* nothing and is left out; entries that do not parse never get stored.    *)
(***************************************************************************)
EXTENDS Naturals, Sequences, FiniteSets, FiniteSetsExt

CONSTANTS
    Peer,       \* peers of the embedded node
    AllowLists, \* bound: the sets of peers a configuration may allow
    Uuid,       \* Guards that may have a configuration, by their PeerId
    Put,        \* bound: PUT requests at one time
    MaxPuts,    \* bound: PUT requests in a behaviour
    Commands,   \* GUARD_CONTROL_CHANNEL_CAPACITY
    None

ASSUME GatewayAssumption ==
    /\ Uuid \subseteq Peer /\ IsFiniteSet(Uuid)
    /\ AllowLists \subseteq SUBSET Peer
    /\ {MaxPuts, Commands} \subseteq Nat

Roles == {"gw-guard", "gw-client"}
Command == [peer : Peer, roles : SUBSET Roles]
Request == [uuid : Uuid, allow : AllowLists, stage : {"write", "push"}, todo : SUBSET Command]

ASSUME NoneAssumption ==
    /\ \A roles \in SUBSET Roles : roles # None
    /\ \A allow \in AllowLists : allow # None
    /\ None \notin Request

VARIABLES
    store,      \* config_node_guards: what each Guard allows
    puts,       \* the PUT requests being handled
    accepted,   \* bound: PUT requests so far
    commands,   \* the control channel of the embedded node
    live,       \* its whitelist: the roles of each peer
    unsettled   \* history: uuids whose last stored PUT was cut short since the start

gatewayVars == <<store, puts, accepted, commands, live, unsettled>>

Nobody == [p \in Peer |-> None]

GatewayInit ==
    /\ store = [u \in Uuid |-> None]
    /\ puts = [k \in Put |-> None]
    /\ accepted = 0
    /\ commands = <<>>
    /\ live = Nobody
    /\ unsettled = {}

-----------------------------------------------------------------------------
(* roles_for_config: the Guard itself, then each peer it allows. *)
GuardCommand(u) == [peer |-> u, roles |-> Roles]
ClientCommands(allow) == {[peer |-> p, roles |-> {"gw-client"}] : p \in allow}
RolesForConfig(u, allow) == {GuardCommand(u)} \cup ClientCommands(allow)

(* The Guard's command goes first, the others in the order of the list. *)
First(u, todo) == IF GuardCommand(u) \in todo THEN {GuardCommand(u)} ELSE todo

Arrival(k, u, allow, stage, todo) ==
    /\ puts[k] = None
    /\ accepted < MaxPuts
    /\ accepted' = accepted + 1
    /\ puts' = [puts EXCEPT ![k] = [uuid |-> u, allow |-> allow, stage |-> stage, todo |-> todo]]
    /\ UNCHANGED <<store, commands, live, unsettled>>

(* Variation: the whitelist is updated before the configuration is stored. *)
PutReceivedPushing(k, u, allow) == Arrival(k, u, allow, "push", RolesForConfig(u, allow))

(* put_config, up to the blocking task. *)
PutReceived(k, u, allow) == Arrival(k, u, allow, "write", {})

PutWritten(k) ==
    /\ puts[k] # None /\ puts[k].stage = "write"
    /\ LET u == puts[k].uuid IN
        /\ store' = [store EXCEPT ![u] = puts[k].allow]
        /\ puts' = [puts EXCEPT ![k].stage = "push",
                                ![k].todo = RolesForConfig(u, puts[k].allow)]
        /\ unsettled' = unsettled \ {u}
    /\ UNCHANGED <<accepted, commands, live>>

(* The database refuses, and the request fails with nothing pushed. *)
PutFailed(k) ==
    /\ puts[k] # None /\ puts[k].stage = "write"
    /\ puts' = [puts EXCEPT ![k] = None]
    /\ UNCHANGED <<store, accepted, commands, live, unsettled>>

Advance(k, command) ==
    LET todo == puts[k].todo \ {command}
    IN  puts' = IF todo = {} THEN [puts EXCEPT ![k] = None]
                ELSE [puts EXCEPT ![k].todo = todo]

(* Variation: the channel has no bound. *)
Unbounded == TRUE

Room == Len(commands) < Commands

(* Variation: try_send, its error logged. *)
PutPushedOrLost(k) ==
    /\ puts[k] # None /\ puts[k].stage = "push"
    /\ \E command \in First(puts[k].uuid, puts[k].todo) :
        /\ commands' = IF Room THEN Append(commands, command) ELSE commands
        /\ Advance(k, command)
    /\ UNCHANGED <<store, accepted, live, unsettled>>

(* guard_ctl.send(..).await, once per entry; the last answers the request. *)
PutPushed(k) ==
    /\ puts[k] # None /\ puts[k].stage = "push"
    /\ Room
    /\ \E command \in First(puts[k].uuid, puts[k].todo) :
        /\ commands' = Append(commands, command)
        /\ Advance(k, command)
    /\ UNCHANGED <<store, accepted, live, unsettled>>

(* The caller goes away and the handler is dropped where it awaits.  The   *)
(* blocking task, already handed over, writes or fails all the same.  A    *)
(* later PUT may have stored another list by now, and pushes its own.      *)
PutDropped(k) ==
    /\ puts[k] # None
    /\ LET u == puts[k].uuid IN
        \/ /\ puts[k].stage = "write"
           /\ store' = [store EXCEPT ![u] = puts[k].allow]
           /\ unsettled' = unsettled \cup {u}
        \/ /\ puts[k].stage = "push"
           /\ unsettled' = IF store[u] = puts[k].allow THEN unsettled \cup {u} ELSE unsettled
           /\ UNCHANGED store
    /\ puts' = [puts EXCEPT ![k] = None]
    /\ UNCHANGED <<accepted, commands, live>>

(* The embedded node's loop takes an Allow command. *)
CommandTaken ==
    /\ commands # <<>>
    /\ live' = [live EXCEPT ![Head(commands).peer] = Head(commands).roles]
    /\ commands' = Tail(commands)
    /\ UNCHANGED <<store, puts, accepted, unsettled>>

Rows == {u \in Uuid : store[u] # None}

(* The query returns the rows in an order of its own. *)
Orders == {rows \in [1..Cardinality(Rows) -> Rows] :
            \A u \in Rows : \E i \in DOMAIN rows : rows[i] = u}

(* The rows that name a peer: its own, and those that allow it.            *)
Named(u) == {u} \cup store[u]
Naming(rows, p) == {i \in DOMAIN rows : p \in Named(rows[i])}

(* The roles a row gives a peer it names.  The Guard's come first: its own *)
(* entry in the list it allows replaces them.                              *)
Given(u, p) == IF p \in store[u] THEN {"gw-client"} ELSE Roles

(* rebuild_whitelist, row by row: the last one that names a peer replaces  *)
(* the roles that the others gave it.                                      *)
Rebuilt(rows) ==
    [p \in Peer |-> IF Naming(rows, p) = {} THEN None
                    ELSE Given(rows[Max(Naming(rows, p))], p)]

GatewayRestarts ==
    /\ puts' = [k \in Put |-> None]
    /\ commands' = <<>>
    /\ \E rows \in Orders : live' = Rebuilt(rows)
    /\ unsettled' = {}
    /\ UNCHANGED <<store, accepted>>

-----------------------------------------------------------------------------
GatewayNext ==
    \/ CommandTaken \/ GatewayRestarts
    \/ \E k \in Put : PutWritten(k) \/ PutPushed(k) \/ PutFailed(k) \/ PutDropped(k)
    \/ \E k \in Put, u \in Uuid, allow \in AllowLists : PutReceived(k, u, allow)

GatewaySpec == GatewayInit /\ [][GatewayNext]_gatewayVars

GatewayTypeOK ==
    /\ store \in [Uuid -> {None} \cup AllowLists]
    /\ puts \in [Put -> {None} \cup Request]
    /\ accepted \in 0..MaxPuts
    /\ commands \in Seq(Command) /\ Len(commands) <= Commands
    /\ live \in [Peer -> {None} \cup SUBSET Roles]
    /\ unsettled \in SUBSET Uuid

(* ROLE_GUARD is kept for Guards: a peer holds it only if a configuration  *)
(* of its own is stored, whatever PUT failed or was cut short.             *)
Holds(p, role) == live[p] # None /\ role \in live[p]
GuardRoleStored == \A p \in Peer : Holds(p, "gw-guard") => p \in Rows

(* put_config brings the whitelist up to what it stored, and a restart     *)
(* does the same: every peer of a stored configuration is on the live      *)
(* whitelist or the command that lists it is on its way, unless the last   *)
(* PUT of that Guard was cut short and nothing restarted since.            *)
Coming(p) ==
    \/ \E i \in DOMAIN commands : commands[i].peer = p
    \/ \E k \in Put : puts[k] # None /\ \E command \in puts[k].todo : command.peer = p

StoredListed ==
    \A u \in Rows \ unsettled :
        \A p \in Named(u) : live[p] # None \/ Coming(p)

(* A PUT that pushes commands has stored its configuration, and pushes the *)
(* roles of that one alone; before, it has nothing to push.                *)
PushesItsOwn ==
    \A k \in Put : puts[k] # None =>
        /\ puts[k].stage = "write" => puts[k].todo = {}
        /\ puts[k].stage = "push" =>
            /\ puts[k].uuid \in Rows
            /\ puts[k].todo \subseteq RolesForConfig(puts[k].uuid, puts[k].allow)

GuardRoleCarried ==
    \A i \in DOMAIN commands : "gw-guard" \in commands[i].roles => commands[i].peer \in Rows

(* The command that lists a peer is on its way by a PUT of the list that   *)
(* names it: the end of any other PUT takes nothing from it.               *)
ToBePushed(u, p) ==
    \E k \in Put :
        /\ puts[k] # None /\ puts[k].uuid = u /\ puts[k].allow = store[u]
        /\ \E command \in puts[k].todo : command.peer = p

ListedByItsOwn ==
    \A u \in Rows \ unsettled : \A p \in Named(u) :
        \/ live[p] # None
        \/ \E i \in DOMAIN commands : commands[i].peer = p
        \/ ToBePushed(u, p)

(* The inductive invariant. *)
GatewayInv ==
    /\ GatewayTypeOK /\ PushesItsOwn /\ GuardRoleCarried /\ GuardRoleStored /\ ListedByItsOwn
=============================================================================
