------------------------------ MODULE Startup ------------------------------
(***************************************************************************)
(* The start of a Guard behind a relay (Command::Guard of nux-cli up to    *)
(* run_guard_with_control, with next_connection, listen_on,                *)
(* wait_for_circuit_reservation and register_namespace of node.rs) and the *)
(* relay node it depends on (nodes_relay), which is also the rendezvous    *)
(* point.                                                                  *)
(*                                                                         *)
(* During its start a Guard takes one event after another from its swarm,  *)
(* keeps the one it waits for and drops the others: an action that is an   *)
(* event for the Guard says what the wait of the moment makes of it.  What *)
(* libp2p does of its own (reservations, the rendezvous server and its     *)
(* clients, dials) is external; time is that of the timers, each of which  *)
(* may fire whenever it runs.                                              *)
(***************************************************************************)

CONSTANTS
    Guards,     \* Guards configured with this relay and one namespace
    Relay,      \* the relay, as a peer
    Stranger,   \* any other peer that connects to a Guard
    None        \* no peer

ASSUME PeersDistinct ==
    Relay # Stranger /\ Relay # None /\ Stranger # None /\ None \notin Guards

VARIABLES
    relay,      \* the relay node: process, key file and tables
    guard       \* each Guard: where its start is, and its link to the relay

startupVars == <<relay, guard>>

Stage == {"down", "connecting", "reserving", "registering", "serving"}
Starting == {"connecting", "reserving", "registering"}

RelayNode == [pc : {"down", "writing", "up"}, key : {"absent", "short", "whole"},
              holding : SUBSET Guards,   \* reservations of circuits
              listed : SUBSET Guards]    \* registrations under the namespace

(* named is the peer next_connection returned: the one whose reservation   *)
(* is awaited, and that is asked for the registration.                     *)
StartingGuard == [pc : Stage, named : {Relay, Stranger, None}, link : {"none", "dialing", "up"}]

Down == [pc |-> "down", named |-> None, link |-> "none"]

StartupTypeOK == relay \in RelayNode /\ guard \in [Guards -> StartingGuard]

StartupInit ==
    /\ \E k \in {"absent", "whole"} :
        relay = [pc |-> "down", key |-> k, holding |-> {}, listed |-> {}]
    /\ guard = [g \in Guards |-> Down]

Moves(g, stage) == guard' = [guard EXCEPT ![g].pc = stage]

(* What a start leads to in the end: the services, the authority, the      *)
(* reload and shutdown tasks are set up, and the loop of GuardNode runs.   *)
Serves(g) == Moves(g, "serving")

-----------------------------------------------------------------------------
(* The relay node. *)

(* load_or_generate_keypair.  The file is created empty before the key is  *)
(* in it; what a crash leaves of it is not read back: the start then fails,*)
(* as every later one does.                                                *)
RelayStarts ==
    /\ relay.pc = "down"
    /\ \/ relay.key = "whole" /\ relay' = [relay EXCEPT !.pc = "up"]
       \/ relay.key = "absent" /\ relay' = [relay EXCEPT !.pc = "writing", !.key = "short"]
    /\ UNCHANGED guard

(* The key is in the file; its permissions are set, or cannot be. *)
KeyWritten ==
    /\ relay.pc = "writing"
    /\ \E pc \in {"up", "down"} : relay' = [relay EXCEPT !.pc = pc, !.key = "whole"]
    /\ UNCHANGED guard

(* Reservations and registrations are kept in memory. *)
RelayStops ==
    /\ relay.pc # "down"
    /\ relay' = [relay EXCEPT !.pc = "down", !.holding = {}, !.listed = {}]
    /\ UNCHANGED guard

(* The lifetime of a registration is over: nothing renews it. *)
RegistrationExpires(g) ==
    /\ g \in relay.listed
    /\ relay' = [relay EXCEPT !.listed = @ \ {g}]
    /\ UNCHANGED guard

-----------------------------------------------------------------------------
(* The start of a Guard. *)

(* A node listens from its construction on, and reacts to nobody yet. *)
Built == [pc |-> "connecting", named |-> None, link |-> "none"]

(* The relay is dialled.  A start that fails before, or whose dial fails   *)
(* at once ("?"), leaves the Guard down.                                   *)
GuardStarts(g) ==
    /\ guard[g].pc = "down"
    /\ guard' = [guard EXCEPT ![g] = [Built EXCEPT !.link = "dialing"]]
    /\ UNCHANGED relay

(* ConnectionEstablished with peer p: next_connection returns p, whoever   *)
(* it is, and the circuit is asked for (listen_on); no other wait of the   *)
(* start looks at the event.                                               *)
Connected(g, p) ==
    IF guard[g].pc = "connecting" THEN [guard[g] EXCEPT !.pc = "reserving", !.named = p]
                                  ELSE guard[g]

LinkUp(g) ==
    /\ guard[g].link = "dialing" /\ relay.pc = "up"
    /\ guard' = [guard EXCEPT ![g] = [Connected(g, Relay) EXCEPT !.link = "up"]]
    /\ UNCHANGED relay

(* A Client, or anyone, joins a Guard that is still connecting. *)
StrangerConnects(g) ==
    /\ guard[g].pc = "connecting"
    /\ guard' = [guard EXCEPT ![g] = Connected(g, Stranger)]
    /\ UNCHANGED relay

(* OutgoingConnectionError: an error of next_connection, dropped later on. *)
LinkFails(g) ==
    /\ guard[g].link = "dialing"
    /\ guard' = [guard EXCEPT ![g].link = "none",
                              ![g].pc = IF @ = "connecting" THEN "serving" ELSE @]
    /\ UNCHANGED relay

(* RELAY_CONNECT_TIMEOUT over next_connection; the dial goes on. *)
ConnectTimesOut(g) ==
    /\ guard[g].pc = "connecting"
    /\ Serves(g)
    /\ UNCHANGED relay

(* ConnectionClosed with the named peer ends the wait for the reservation. *)
(* The reservation goes with the link.                                     *)
LinkLost(g) ==
    /\ guard[g].link = "up"
    /\ guard' = [guard EXCEPT ![g].link = "none",
                              ![g].pc = IF @ = "reserving" /\ guard[g].named = Relay
                                        THEN "serving" ELSE @]
    /\ relay' = [relay EXCEPT !.holding = @ \ {g}]

StrangerLeaves(g) ==
    /\ guard[g].pc = "reserving" /\ guard[g].named = Stranger
    /\ Serves(g)
    /\ UNCHANGED relay

Grants(g) ==
    /\ guard[g].named # None /\ guard[g].link = "up" /\ relay.pc = "up"
    /\ g \notin relay.holding
    /\ relay' = [relay EXCEPT !.holding = @ \cup {g}]

(* ReservationReqAccepted: the wait ends if the relay is the named peer,   *)
(* and the registration is asked for.                                      *)
ReservationAccepted(g) ==
    /\ Grants(g)
    /\ Moves(g, IF guard[g].pc = "reserving" /\ guard[g].named = Relay
                THEN "registering" ELSE guard[g].pc)

(* Variation: the wait for the reservation has no time limit. *)
NeverTimesOut(g) == FALSE /\ UNCHANGED startupVars

(* RELAY_CONNECT_TIMEOUT over wait_for_circuit_reservation: a reservation  *)
(* refused, late, or accepted by a relay other than the named peer.        *)
ReservationTimesOut(g) ==
    /\ guard[g].pc = "reserving"
    /\ Serves(g)
    /\ UNCHANGED relay

(* Registered. *)
Registered(g) ==
    /\ guard[g].pc = "registering"
    /\ guard[g].link = "up" /\ relay.pc = "up"
    /\ relay' = [relay EXCEPT !.listed = @ \cup {g}]
    /\ Serves(g)

(* The registration is stored, its answer has yet to reach the Guard. *)
RegistrationStored(g) ==
    /\ guard[g].pc = "registering"
    /\ guard[g].link = "up" /\ relay.pc = "up"
    /\ g \notin relay.listed
    /\ relay' = [relay EXCEPT !.listed = @ \cup {g}]
    /\ UNCHANGED guard

(* RegisterFailed: refused, or the request was lost on its way. *)
RegistrationFails(g) ==
    /\ guard[g].pc = "registering"
    /\ Serves(g)
    /\ UNCHANGED relay

(* The process ends, its connections with it; a registration stays. *)
GuardStops(g) ==
    /\ guard[g].pc # "down"
    /\ guard' = [guard EXCEPT ![g] = Down]
    /\ relay' = [relay EXCEPT !.holding = @ \ {g}]

GuardStep(g) ==
    \/ GuardStarts(g) \/ LinkUp(g) \/ StrangerConnects(g) \/ LinkFails(g)
    \/ ConnectTimesOut(g) \/ LinkLost(g) \/ StrangerLeaves(g)
    \/ ReservationAccepted(g) \/ ReservationTimesOut(g)
    \/ Registered(g) \/ RegistrationStored(g) \/ RegistrationFails(g)
    \/ GuardStops(g) \/ RegistrationExpires(g)

StartupNext ==
    \/ RelayStarts \/ KeyWritten \/ RelayStops
    \/ \E g \in Guards : GuardStep(g)

StartupSpec == StartupInit /\ [][StartupNext]_startupVars

(* The two timers of the start fire; the rendezvous client gives every     *)
(* request an outcome (request_response's own timeout).                    *)
StartupFairness ==
    \A g \in Guards :
        /\ WF_startupVars(ConnectTimesOut(g))
        /\ WF_startupVars(ReservationTimesOut(g))
        /\ WF_startupVars(Registered(g) \/ RegistrationFails(g))

-----------------------------------------------------------------------------
(* What must hold. *)

(* Whatever the relay and early visitors do, a Guard that starts comes to  *)
(* serve, or its process is ended: "Un echec ici n'empeche pas le Guard de *)
(* demarrer" (main.rs 557).                                                *)
GuardStartsAnyway ==
    \A g \in Guards : guard[g].pc \in Starting ~> guard[g].pc \in {"serving", "down"}
=============================================================================
