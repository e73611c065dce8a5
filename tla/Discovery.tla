----------------------------- MODULE Discovery -----------------------------
(***************************************************************************)
(* A Client that joins its Guard, by an address it was given or by a       *)
(* namespace (Command::Client of nux-cli, discover_and_dial, wait_for_peer *)
(* and redial_known_peer of node.rs), beside the Guards and the relay of   *)
(* Startup.                                                                *)
(*                                                                         *)
(* A Guard's record holds one circuit address per address of the relay.    *)
(* The Client dials them one after another, each for ten seconds at most;  *)
(* a dial it no longer waits for goes on in its swarm and may still come   *)
(* up.  Its circuits need the Guard's reservation.                         *)
(***************************************************************************)
EXTENDS Startup, Naturals

CONSTANTS
    Addresses   \* bound: how many addresses each record holds

ASSUME SomeAddress == Addresses \in Nat \ {0}

VARIABLES
    client      \* the Client: where its start is, and its swarm's dials

vars == <<startupVars, client>>

Dial == Guards \X (1 .. Addresses)

Phase == {"idle", "rendezvous", "discovering", "dialing", "joining",
          "authenticating", "running", "failed", "exhausted"}
Searching == {"rendezvous", "discovering", "dialing"}

ClientNode == [pc : Phase,
               left : SUBSET Guards,           \* registrations not looked at yet
               current : Guards \cup {None},   \* the one being dialled
               next : 1 .. Addresses + 1,      \* its next address
               waiting : BOOLEAN,              \* wait_for_peer(current) is running
               pending : SUBSET Dial,          \* dials without an outcome
               open : SUBSET Dial,             \* connections
               untried : SUBSET Guards]        \* history: found, never dialled

DiscoveryTypeOK == StartupTypeOK /\ client \in ClientNode

Fresh(pc) == [pc |-> pc, left |-> {}, current |-> None, next |-> 1, waiting |-> FALSE,
              pending |-> {}, open |-> {}, untried |-> {}]

Init == StartupInit /\ client = Fresh("idle")

Engaged(g) == \E d \in client.pending \cup client.open : d[1] = g

-----------------------------------------------------------------------------
(* An address that names the Guard: its peer is awaited, without a limit   *)
(* but that of the dial.                                                   *)

GivenAddress ==
    /\ client.pc \in {"idle", "failed", "exhausted"}
    /\ \E g \in Guards :
        client' = [Fresh("joining") EXCEPT !.current = g, !.pending = {<<g, 1>>}]
    /\ UNCHANGED startupVars

(* The address may be a direct one, that needs no reservation. *)
Joined ==
    /\ client.pc = "joining"
    /\ guard[client.current].pc # "down"
    /\ client' = [client EXCEPT !.pc = "authenticating", !.pending = {}, !.open = client.pending]
    /\ UNCHANGED startupVars

JoinFails ==
    /\ client.pc = "joining"
    /\ client' = Fresh("failed")
    /\ UNCHANGED startupVars

-----------------------------------------------------------------------------
(* The rendezvous point is dialled and asked for the namespace. *)

ClientStarts ==
    /\ client.pc \in {"idle", "failed", "exhausted"}
    /\ client' = Fresh("rendezvous")
    /\ UNCHANGED startupVars

RendezvousJoined ==
    /\ client.pc = "rendezvous" /\ relay.pc = "up"
    /\ client' = [client EXCEPT !.pc = "discovering"]
    /\ UNCHANGED startupVars

(* Each `?` of the command ends the process. *)
LookupFails ==
    /\ client.pc \in {"rendezvous", "discovering"}
    /\ client' = Fresh("failed")
    /\ UNCHANGED startupVars

Discovered ==
    /\ client.pc = "discovering" /\ relay.pc = "up"
    /\ client' = IF relay.listed = {} THEN Fresh("failed")
                 ELSE [client EXCEPT !.pc = "dialing", !.left = relay.listed,
                                     !.untried = relay.listed]
    /\ UNCHANGED startupVars

-----------------------------------------------------------------------------
(* The loop over registrations and their addresses. *)

Idling == client.pc = "dialing" /\ ~client.waiting
AddressLeft == client.current # None /\ client.next <= Addresses

NextPeer ==
    /\ Idling /\ ~AddressLeft
    /\ \E g \in client.left :
        client' = [client EXCEPT !.current = g, !.next = 1, !.left = @ \ {g}]
    /\ UNCHANGED startupVars

Exhausted ==
    /\ Idling /\ ~AddressLeft /\ client.left = {}
    /\ client' = [Fresh("exhausted") EXCEPT !.untried = client.untried]
    /\ UNCHANGED startupVars

Dialled(g, a) == [client EXCEPT !.pending = @ \cup {<<g, a>>}, !.waiting = TRUE,
                                !.untried = @ \ {g}]

(* Variation: the swarm is asked to dial whatever it is doing already. *)
DialAddressAlways ==
    /\ Idling /\ AddressLeft
    /\ client' = Dialled(client.current, client.next)
    /\ UNCHANGED startupVars

(* redial_known_peer.  Swarm::dial refuses a peer that is connected or     *)
(* being dialled: the address is passed over.                              *)
DialAddress ==
    /\ Idling /\ AddressLeft
    /\ client' = IF Engaged(client.current) THEN [client EXCEPT !.next = @ + 1]
                 ELSE Dialled(client.current, client.next)
    /\ UNCHANGED startupVars

(* ConnectionEstablished on d: wait_for_peer looks at the peer alone, and  *)
(* the address returned is the loop's.                                     *)
DialUp(d) ==
    /\ d \in client.pending /\ client.pc # "joining"
    /\ guard[d[1]].pc # "down" /\ d[1] \in relay.holding
    /\ client' = [client EXCEPT
                    !.pending = @ \ {d}, !.open = @ \cup {d},
                    !.waiting = @ /\ client.current # d[1],
                    !.pc = IF client.waiting /\ client.current = d[1]
                           THEN "authenticating" ELSE @]
    /\ UNCHANGED startupVars

(* Variation: a failed dial is tried again at the same address. *)
DialRetried(d) ==
    /\ d \in client.pending
    /\ client' = [client EXCEPT !.pending = @ \ {d},
                                !.waiting = @ /\ client.current # d[1]]
    /\ UNCHANGED startupVars

(* Variation: the peer of a failed dial is not compared. *)
DialDownOfAny(d) ==
    /\ d \in client.pending
    /\ client' = [client EXCEPT !.pending = @ \ {d}, !.waiting = FALSE, !.next = @ + 1]
    /\ UNCHANGED startupVars

(* OutgoingConnectionError of d: the wait for its peer ends. *)
DialDown(d) ==
    LET awaited == client.waiting /\ client.current = d[1] IN
    /\ d \in client.pending /\ client.pc # "joining"
    /\ client' = [client EXCEPT !.pending = @ \ {d},
                                !.waiting = @ /\ ~awaited,
                                !.next = IF awaited THEN @ + 1 ELSE @]
    /\ UNCHANGED startupVars

(* Variation: a wait that runs out ends the search. *)
DialLateFails ==
    /\ client.waiting
    /\ client' = [Fresh("exhausted") EXCEPT !.untried = client.untried]
    /\ UNCHANGED startupVars

(* PER_ADDRESS_DIAL_TIMEOUT: the wait is over, the dial is not. *)
DialLate ==
    /\ client.waiting
    /\ client' = [client EXCEPT !.waiting = FALSE, !.next = @ + 1]
    /\ UNCHANGED startupVars

(* ConnectionClosed: nothing looks at it during the search. *)
ConnectionLost(d) ==
    /\ d \in client.open
    /\ client' = [client EXCEPT !.open = @ \ {d}]
    /\ UNCHANGED startupVars

-----------------------------------------------------------------------------
(* The first authentication.  A Guard that is still starting drops the     *)
(* request; its failure, a refusal or a lost connection ends the process.  *)

Authenticated ==
    /\ client.pc = "authenticating" /\ guard[client.current].pc = "serving"
    /\ \E d \in client.open : d[1] = client.current
    /\ client' = Fresh("running")
    /\ UNCHANGED startupVars

AuthenticationFails ==
    /\ client.pc = "authenticating"
    /\ client' = Fresh("failed")
    /\ UNCHANGED startupVars

ClientStops ==
    /\ client.pc = "running"
    /\ client' = Fresh("idle")
    /\ UNCHANGED startupVars

Searches ==
    \/ NextPeer \/ Exhausted \/ DialAddress \/ DialLate
    \/ \E d \in Dial : DialUp(d) \/ DialDown(d) \/ ConnectionLost(d)

ClientStep ==
    \/ GivenAddress \/ Joined \/ JoinFails
    \/ ClientStarts \/ RendezvousJoined \/ LookupFails \/ Discovered
    \/ Searches \/ Authenticated \/ AuthenticationFails \/ ClientStops

Next == (StartupNext /\ UNCHANGED client) \/ ClientStep

Spec == Init /\ [][Next]_vars

(* The loop runs on, its ten seconds pass; the library gives a request to  *)
(* the rendezvous point and a dial of it an outcome.                       *)
Fairness ==
    /\ StartupFairness
    /\ WF_vars(NextPeer) /\ WF_vars(Exhausted) /\ WF_vars(DialAddress) /\ WF_vars(DialLate)
    /\ WF_vars(RendezvousJoined \/ Discovered \/ LookupFails)

FairSpec == Spec /\ Fairness

-----------------------------------------------------------------------------
(* What must hold. *)

(* The address discover_and_dial returns is the one the connection came    *)
(* by, though wait_for_peer compares peers only and earlier dials of the   *)
(* same Guard may still be under way: run_client_session replays it at     *)
(* each reconnection ("l'adresse qui a fonctionne", node.rs 352).          *)
JoinedAddressWorked ==
    [][client.pc = "dialing" /\ client'.pc = "authenticating"
        => <<client'.current, client'.next>> \in client'.open]_vars

(* The search gives up only after each Guard found was really dialled, at  *)
(* least once: no late dial and no refusal of the swarm makes it pass over *)
(* a Guard ("compose chaque pair renvoye", node.rs 349).                   *)
EveryGuardDialled == client.pc = "exhausted" => client.untried = {}

(* While wait_for_peer runs, the only dial of its peer that may come up is *)
(* the one of the loop's address: Swarm::dial refused the others.          *)
AwaitsItsOwnDial ==
    client.waiting =>
        /\ client.pc = "dialing" /\ client.current # None /\ client.next <= Addresses
        /\ \A d \in client.pending : d[1] = client.current => d[2] = client.next

(* A search begins with no dial of an earlier one. *)
BeginsAfresh ==
    client.pc \in {"rendezvous", "discovering"} => client.pending = {} /\ client.open = {}

(* A Guard found and not dialled yet is ahead of the loop, or the one it   *)
(* is about to dial at its first address, which nothing makes it pass over.*)
UntriedIsAhead ==
    client.pc = "dialing" =>
        \A g \in client.untried :
            /\ ~Engaged(g)
            /\ \/ g \in client.left
               \/ g = client.current /\ client.next = 1 /\ ~client.waiting

(* The inductive invariant. *)
DiscoveryInv ==
    /\ DiscoveryTypeOK /\ AwaitsItsOwnDial /\ BeginsAfresh /\ UntriedIsAhead
    /\ EveryGuardDialled

(* A search ends, with a Guard or without. *)
DiscoveryEnds == client.pc \in Searching ~> client.pc \notin Searching
=============================================================================
