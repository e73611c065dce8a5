-------------------------- MODULE DiscoveryProofs --------------------------
(***************************************************************************)
(* Proofs about the start of the Guards and the search of a Client, for    *)
(* any Guards and any number of addresses in their records: the invariant  *)
(* DiscoveryInv is inductive, a Guard registers with the relay that        *)
(* granted its reservation, the address a search returns is the one the    *)
(* connection came by, and a search gives up only once it has dialled      *)
(* every Guard it found.                                                   *)
(*                                                                         *)
(* The argument: Swarm::dial refuses a peer that is being dialled, so the  *)
(* wait for a peer sees no dial of it but its own; and a Guard that was    *)
(* never dialled has neither dial nor connection, so its first address is  *)
(* never the one that is passed over.                                      *)
(***************************************************************************)
EXTENDS Discovery, TLAPS

USE PeersDistinct, SomeAddress

(* A step of the Guards and the relay leaves the search alone. *)
LEMMA SearchFrame ==
    ASSUME DiscoveryInv, UNCHANGED client
    PROVE  AwaitsItsOwnDial' /\ BeginsAfresh' /\ UntriedIsAhead' /\ EveryGuardDialled'
BY DEF DiscoveryInv, AwaitsItsOwnDial, BeginsAfresh, UntriedIsAhead, EveryGuardDialled, Engaged

(* What a Client that starts afresh knows: nothing. *)
LEMMA FreshKeeps ==
    ASSUME NEW pc \in Phase \ {"dialing"}, client' = Fresh(pc)
    PROVE  /\ client' \in ClientNode
           /\ AwaitsItsOwnDial' /\ BeginsAfresh' /\ UntriedIsAhead' /\ EveryGuardDialled'
<1>1. client' \in ClientNode
  BY DEF Fresh, ClientNode
<1>2. AwaitsItsOwnDial' /\ BeginsAfresh' /\ UntriedIsAhead' /\ EveryGuardDialled'
  BY DEF Fresh, AwaitsItsOwnDial, BeginsAfresh, UntriedIsAhead, EveryGuardDialled
<1> QED
  BY <1>1, <1>2

-----------------------------------------------------------------------------
(* The Guards and the relay.                                               *)

LEMMA ConnectedTypes ==
    ASSUME StartupTypeOK, NEW g \in Guards, NEW p \in {Relay, Stranger}
    PROVE  Connected(g, p) \in StartingGuard
BY DEF StartupTypeOK, Connected, StartingGuard, Stage

LEMMA GuardStepTypes ==
    ASSUME StartupTypeOK, NEW g \in Guards, GuardStep(g)
    PROVE  StartupTypeOK'
<1> USE DEF StartupTypeOK
<1>1. ASSUME NEW stage \in Stage, Moves(g, stage)
      PROVE  guard' \in [Guards -> StartingGuard]
  BY <1>1 DEF Moves, StartingGuard
<1>2. relay' \in RelayNode
  BY DEF GuardStep, GuardStarts, LinkUp, StrangerConnects, LinkFails, ConnectTimesOut, LinkLost,
         StrangerLeaves, ReservationAccepted, ReservationTimesOut, Registered,
         RegistrationStored, RegistrationFails, GuardStops, RegistrationExpires, Grants,
         RelayNode
<1>3. CASE GuardStarts(g) \/ GuardStops(g)
  BY <1>2, <1>3 DEF GuardStarts, GuardStops, Built, Down, StartingGuard, Stage
<1>4. CASE LinkUp(g) \/ StrangerConnects(g)
  BY <1>2, <1>4, ConnectedTypes DEF LinkUp, StrangerConnects, StartingGuard
<1>5. CASE LinkFails(g) \/ LinkLost(g)
  BY <1>2, <1>5 DEF LinkFails, LinkLost, StartingGuard, Stage
<1>6. CASE \/ ConnectTimesOut(g) \/ StrangerLeaves(g) \/ ReservationTimesOut(g)
           \/ Registered(g) \/ RegistrationFails(g)
  BY <1>1, <1>2, <1>6 DEF ConnectTimesOut, StrangerLeaves, ReservationTimesOut, Registered,
                          RegistrationFails, Serves, Stage
<1>7. CASE ReservationAccepted(g)
  <2>1. guard[g].pc \in Stage
    BY DEF StartingGuard
  <2> QED
    BY <1>1, <1>2, <1>7, <2>1 DEF ReservationAccepted, Stage
<1>8. CASE RegistrationStored(g) \/ RegistrationExpires(g)
  BY <1>2, <1>8 DEF RegistrationStored, RegistrationExpires
<1> QED
  BY <1>3, <1>4, <1>5, <1>6, <1>7, <1>8 DEF GuardStep

LEMMA StartupTypes ==
    ASSUME StartupTypeOK, StartupNext
    PROVE  StartupTypeOK'
<1>1. CASE RelayStarts \/ KeyWritten \/ RelayStops
  BY <1>1 DEF StartupTypeOK, RelayStarts, KeyWritten, RelayStops, RelayNode
<1> QED
  BY <1>1, GuardStepTypes DEF StartupNext

-----------------------------------------------------------------------------
(* The steps of the Client that end or begin a search.                     *)

LEMMA FreshSteps ==
    ASSUME DiscoveryInv,
           \/ JoinFails \/ ClientStarts \/ LookupFails
           \/ Authenticated \/ AuthenticationFails \/ ClientStops
    PROVE  DiscoveryInv'
<1>1. UNCHANGED startupVars
  BY DEF JoinFails, ClientStarts, LookupFails, Authenticated, AuthenticationFails, ClientStops
<1>2. \E pc \in Phase \ {"dialing"} : client' = Fresh(pc)
  BY DEF JoinFails, ClientStarts, LookupFails, Authenticated, AuthenticationFails, ClientStops,
         Phase
<1> QED
  BY <1>1, <1>2, FreshKeeps DEF DiscoveryInv, DiscoveryTypeOK, StartupTypeOK, startupVars

LEMMA GivenAddressKeeps ==
    ASSUME DiscoveryInv, GivenAddress
    PROVE  DiscoveryInv'
<1>1. PICK g \in Guards :
        client' = [Fresh("joining") EXCEPT !.current = g, !.pending = {<<g, 1>>}]
  BY DEF GivenAddress
<1>2. client' \in ClientNode
  <2>1. <<g, 1>> \in Dial
    BY DEF Dial
  <2>2. Fresh("joining") \in ClientNode
    BY DEF Fresh, ClientNode, Phase
  <2> QED
    BY <1>1, <2>1, <2>2 DEF ClientNode
<1>3. client'.pc = "joining" /\ client'.waiting = FALSE
  BY <1>1 DEF Fresh
<1> QED
  BY <1>2, <1>3 DEF GivenAddress, DiscoveryInv, DiscoveryTypeOK, StartupTypeOK, startupVars,
     AwaitsItsOwnDial, BeginsAfresh, UntriedIsAhead, EveryGuardDialled

LEMMA RendezvousSteps ==
    ASSUME DiscoveryInv, Joined \/ RendezvousJoined
    PROVE  DiscoveryInv'
<1> USE DEF Joined, RendezvousJoined
<1>1. client \in ClientNode /\ client.waiting = FALSE
  BY DEF DiscoveryInv, DiscoveryTypeOK, AwaitsItsOwnDial, ClientNode
<1>2. client' \in ClientNode /\ UNCHANGED startupVars
  BY <1>1 DEF ClientNode, Phase, Dial
<1>3. client'.pc \in {"authenticating", "discovering"} /\ client'.waiting = FALSE
  BY <1>1 DEF ClientNode
<1>4. BeginsAfresh'
  BY <1>1 DEF DiscoveryInv, BeginsAfresh, ClientNode
<1> QED
  BY <1>2, <1>3, <1>4 DEF DiscoveryInv, DiscoveryTypeOK, StartupTypeOK, startupVars,
     AwaitsItsOwnDial, UntriedIsAhead, EveryGuardDialled

LEMMA DiscoveredKeeps ==
    ASSUME DiscoveryInv, Discovered
    PROVE  DiscoveryInv'
<1>1. UNCHANGED startupVars /\ DiscoveryTypeOK
  BY DEF Discovered, DiscoveryInv
<1>2. CASE relay.listed = {}
  BY <1>1, <1>2, FreshKeeps DEF Discovered, Phase, DiscoveryInv, DiscoveryTypeOK,
     StartupTypeOK, startupVars
<1>3. CASE relay.listed # {}
  <2>1. client \in ClientNode /\ relay.listed \in SUBSET Guards
    BY <1>1 DEF DiscoveryTypeOK, StartupTypeOK, RelayNode
  <2>2. client.waiting = FALSE /\ client.pending = {} /\ client.open = {}
    BY <2>1 DEF Discovered, DiscoveryInv, AwaitsItsOwnDial, BeginsAfresh, ClientNode
  <2>3. client' = [client EXCEPT !.pc = "dialing", !.left = relay.listed,
                                 !.untried = relay.listed]
    BY <1>3 DEF Discovered
  <2>4. /\ client' \in ClientNode /\ client'.pc = "dialing" /\ client'.waiting = FALSE
        /\ client'.untried = client'.left /\ client'.pending = {} /\ client'.open = {}
    BY <2>1, <2>2, <2>3 DEF ClientNode, Phase
  <2> QED
    BY <1>1, <2>4 DEF DiscoveryInv, DiscoveryTypeOK, StartupTypeOK, startupVars,
       AwaitsItsOwnDial, BeginsAfresh, UntriedIsAhead, EveryGuardDialled, Engaged
<1> QED
  BY <1>2, <1>3

-----------------------------------------------------------------------------
(* The loop over registrations and their addresses.                        *)

LEMMA NextPeerKeeps ==
    ASSUME DiscoveryInv, NextPeer
    PROVE  DiscoveryInv'
<1>1. PICK g \in client.left :
        client' = [client EXCEPT !.current = g, !.next = 1, !.left = @ \ {g}]
  BY DEF NextPeer
<1>2. /\ client \in ClientNode /\ client.pc = "dialing" /\ client.waiting = FALSE
      /\ UNCHANGED startupVars
  BY DEF NextPeer, Idling, DiscoveryInv, DiscoveryTypeOK, ClientNode
<1>3. client' \in ClientNode
  <2>1. g \in Guards /\ client.left \ {g} \in SUBSET Guards /\ 1 \in 1 .. Addresses + 1
    BY <1>2 DEF ClientNode
  <2> QED
    BY <1>1, <1>2, <2>1 DEF ClientNode
<1>4. /\ client'.pc = "dialing" /\ client'.waiting = FALSE /\ client'.current = g
      /\ client'.next = 1 /\ client'.left = client.left \ {g}
      /\ client'.untried = client.untried
      /\ client'.pending = client.pending /\ client'.open = client.open
  BY <1>1, <1>2 DEF ClientNode
<1>5. \A h \in client.untried : h \in client.left
  BY <1>2 DEF NextPeer, AddressLeft, DiscoveryInv, UntriedIsAhead, ClientNode
<1>6. UntriedIsAhead'
  BY <1>2, <1>4, <1>5 DEF DiscoveryInv, UntriedIsAhead, Engaged
<1> QED
  BY <1>2, <1>3, <1>4, <1>6 DEF DiscoveryInv, DiscoveryTypeOK, StartupTypeOK, startupVars,
     AwaitsItsOwnDial, BeginsAfresh, EveryGuardDialled

(* The end of the loop: nobody is left, and the last Guard was dialled.    *)
LEMMA ExhaustedKeeps ==
    ASSUME DiscoveryInv, Exhausted
    PROVE  DiscoveryInv'
<1>1. client \in ClientNode /\ UNCHANGED startupVars
  BY DEF Exhausted, DiscoveryInv, DiscoveryTypeOK
<1>2. client.untried = {}
  BY <1>1 DEF Exhausted, Idling, AddressLeft, DiscoveryInv, UntriedIsAhead, ClientNode
<1>3. client' = [Fresh("exhausted") EXCEPT !.untried = {}]
  BY <1>2 DEF Exhausted
<1>4. client' = Fresh("exhausted")
  BY <1>3 DEF Fresh
<1> QED
  BY <1>1, <1>4, FreshKeeps DEF Phase, DiscoveryInv, DiscoveryTypeOK, StartupTypeOK, startupVars

(* An untried Guard is never the one whose address is passed over: it has  *)
(* neither dial nor connection.                                            *)
LEMMA DialAddressKeeps ==
    ASSUME DiscoveryInv, DialAddress
    PROVE  DiscoveryInv'
<1>1. /\ client \in ClientNode /\ client.pc = "dialing" /\ client.waiting = FALSE
      /\ UNCHANGED startupVars
      /\ client.current \in Guards /\ client.next \in 1 .. Addresses
  BY DEF DialAddress, Idling, AddressLeft, DiscoveryInv, DiscoveryTypeOK, ClientNode
<1>2. CASE Engaged(client.current)
  <2>1. client' = [client EXCEPT !.next = @ + 1]
    BY <1>2 DEF DialAddress
  <2>2. client' \in ClientNode
    BY <1>1, <2>1 DEF ClientNode
  <2>3. \A g \in client.untried : g \in client.left
    BY <1>2 DEF DiscoveryInv, UntriedIsAhead, DialAddress, Idling
  <2>4. UntriedIsAhead'
    BY <1>1, <2>1, <2>3 DEF DiscoveryInv, UntriedIsAhead, Engaged, ClientNode
  <2> QED
    BY <1>1, <2>1, <2>2, <2>4 DEF DiscoveryInv, DiscoveryTypeOK, StartupTypeOK, startupVars,
       AwaitsItsOwnDial, BeginsAfresh, EveryGuardDialled, ClientNode
<1>3. CASE ~Engaged(client.current)
  <2>1. PICK g \in Guards : g = client.current
    BY <1>1
  <2>2. PICK a \in 1 .. Addresses : a = client.next
    BY <1>1
  <2>3. client' = Dialled(g, a)
    BY <1>3, <2>1, <2>2 DEF DialAddress
  <2>4. /\ client'.pc = "dialing" /\ client'.waiting = TRUE
        /\ client'.current = g /\ client'.next = a /\ client'.left = client.left
        /\ client'.untried = client.untried \ {g}
        /\ client'.pending = client.pending \cup {<<g, a>>} /\ client'.open = client.open
    BY <1>1, <2>1, <2>2, <2>3 DEF Dialled, ClientNode
  <2>5. client' \in ClientNode
    <3>1. <<g, a>> \in Dial
      BY DEF Dial
    <3> QED
      BY <1>1, <2>3, <3>1 DEF Dialled, ClientNode
  <2>6. \A d \in client'.pending : d[1] = g => d = <<g, a>>
    BY <1>3, <2>1, <2>4 DEF Engaged
  <2>7. AwaitsItsOwnDial'
    BY <1>1, <2>4, <2>6 DEF AwaitsItsOwnDial
  <2>8. UntriedIsAhead'
    BY <1>1, <2>1, <2>4 DEF DiscoveryInv, UntriedIsAhead, Engaged
  <2> QED
    BY <1>1, <2>4, <2>5, <2>7, <2>8 DEF DiscoveryInv, DiscoveryTypeOK, StartupTypeOK,
       startupVars, BeginsAfresh, EveryGuardDialled
<1> QED
  BY <1>2, <1>3

LEMMA DialUpKeeps ==
    ASSUME DiscoveryInv, NEW d \in Dial, DialUp(d)
    PROVE  DiscoveryInv'
<1>1. /\ client \in ClientNode /\ UNCHANGED startupVars
      /\ d \in client.pending /\ client.pc \notin {"joining", "rendezvous", "discovering"}
  BY DEF DialUp, DiscoveryInv, DiscoveryTypeOK, BeginsAfresh
<1>2. /\ client'.pending = client.pending \ {d} /\ client'.open = client.open \cup {d}
      /\ client'.waiting = (client.waiting /\ client.current # d[1])
      /\ client'.pc = IF client.waiting /\ client.current = d[1] THEN "authenticating"
                                                                 ELSE client.pc
      /\ client'.current = client.current /\ client'.next = client.next
      /\ client'.left = client.left /\ client'.untried = client.untried
  BY <1>1 DEF DialUp, ClientNode
<1>3. client' \in ClientNode
  BY <1>1 DEF DialUp, ClientNode, Phase
<1>4. AwaitsItsOwnDial' /\ BeginsAfresh' /\ EveryGuardDialled'
  BY <1>1, <1>2 DEF DiscoveryInv, AwaitsItsOwnDial, BeginsAfresh, EveryGuardDialled, ClientNode
<1>5. \A g : Engaged(g)' => Engaged(g)
  BY <1>1, <1>2 DEF Engaged
<1>6. UntriedIsAhead'
  BY <1>1, <1>2, <1>5 DEF DiscoveryInv, UntriedIsAhead, ClientNode
<1> QED
  BY <1>1, <1>3, <1>4, <1>6 DEF DiscoveryInv, DiscoveryTypeOK, StartupTypeOK, startupVars

(* A wait ends without the Guard: the loop goes on to the next address.    *)
LEMMA WaitOverKeeps ==
    ASSUME DiscoveryInv, DialLate \/ \E d \in Dial : DialDown(d)
    PROVE  DiscoveryInv'
<1>1. client \in ClientNode /\ UNCHANGED startupVars
  BY DEF DialLate, DialDown, DiscoveryInv, DiscoveryTypeOK
<1>2. /\ client'.pending \subseteq client.pending /\ client'.open = client.open
      /\ client'.pc = client.pc /\ client'.current = client.current
      /\ client'.left = client.left /\ client'.untried = client.untried
      /\ \/ client.waiting = TRUE /\ client'.waiting = FALSE /\ client'.next = client.next + 1
         \/ client'.waiting = client.waiting /\ client'.next = client.next
  <2>1. CASE DialLate
    <3>1. /\ client.waiting = TRUE
          /\ client' = [client EXCEPT !.waiting = FALSE, !.next = client.next + 1]
      BY <1>1, <2>1 DEF DialLate, ClientNode
    <3> QED
      BY <1>1, <3>1 DEF ClientNode
  <2>2. CASE \E d \in Dial : DialDown(d)
    BY <1>1, <2>2 DEF DialDown, ClientNode
  <2> QED
    BY <2>1, <2>2
<1>3. client.waiting => client.next \in 1 .. Addresses
  BY <1>1 DEF DiscoveryInv, AwaitsItsOwnDial, ClientNode
<1>4. client' \in ClientNode
  <2>1. client'.next \in 1 .. Addresses + 1
    BY <1>1, <1>2, <1>3 DEF ClientNode
  <2>2. /\ client' = [client EXCEPT !.pending = client'.pending, !.waiting = client'.waiting,
                                    !.next = client'.next]
        /\ client'.waiting \in BOOLEAN
    BY <1>1 DEF DialLate, DialDown, ClientNode
  <2> QED
    BY <1>1, <1>2, <2>1, <2>2 DEF ClientNode
<1>5. AwaitsItsOwnDial' /\ BeginsAfresh' /\ EveryGuardDialled'
  BY <1>1, <1>2 DEF DiscoveryInv, AwaitsItsOwnDial, BeginsAfresh, EveryGuardDialled, ClientNode
<1>6. \A g : Engaged(g)' => Engaged(g)
  BY <1>2 DEF Engaged
<1>7. UntriedIsAhead'
  BY <1>1, <1>2, <1>6 DEF DiscoveryInv, UntriedIsAhead, ClientNode
<1> QED
  BY <1>1, <1>4, <1>5, <1>7 DEF DiscoveryInv, DiscoveryTypeOK, StartupTypeOK, startupVars

LEMMA ConnectionLostKeeps ==
    ASSUME DiscoveryInv, NEW d \in Dial, ConnectionLost(d)
    PROVE  DiscoveryInv'
<1>1. client \in ClientNode /\ UNCHANGED startupVars
  BY DEF ConnectionLost, DiscoveryInv, DiscoveryTypeOK
<1>2. client' \in ClientNode
  BY <1>1 DEF ConnectionLost, ClientNode
<1>3. AwaitsItsOwnDial' /\ BeginsAfresh' /\ EveryGuardDialled'
  BY <1>1 DEF ConnectionLost, DiscoveryInv, AwaitsItsOwnDial, BeginsAfresh, EveryGuardDialled,
     ClientNode
<1>4. \A g : Engaged(g)' => Engaged(g)
  BY <1>1 DEF ConnectionLost, Engaged, ClientNode
<1>5. UntriedIsAhead'
  BY <1>1, <1>4 DEF ConnectionLost, DiscoveryInv, UntriedIsAhead, ClientNode
<1> QED
  BY <1>1, <1>2, <1>3, <1>5 DEF DiscoveryInv, DiscoveryTypeOK, StartupTypeOK, startupVars

-----------------------------------------------------------------------------
LEMMA InitDiscoveryInv ==
    ASSUME Init
    PROVE  DiscoveryInv
<1>1. StartupTypeOK
  BY DEF Init, StartupInit, StartupTypeOK, RelayNode, Down, StartingGuard, Stage
<1>2. client = Fresh("idle") /\ client \in ClientNode
  BY DEF Init, Fresh, ClientNode, Phase
<1> QED
  BY <1>1, <1>2 DEF DiscoveryInv, DiscoveryTypeOK, AwaitsItsOwnDial, BeginsAfresh,
     UntriedIsAhead, EveryGuardDialled, Fresh

LEMMA NextDiscoveryInv ==
    ASSUME DiscoveryInv, [Next]_vars
    PROVE  DiscoveryInv'
<1>1. CASE StartupNext /\ UNCHANGED client
  BY <1>1, StartupTypes, SearchFrame DEF DiscoveryInv, DiscoveryTypeOK
<1>2. CASE ClientStep
  BY <1>2, GivenAddressKeeps, RendezvousSteps, FreshSteps, DiscoveredKeeps, NextPeerKeeps,
     ExhaustedKeeps, DialAddressKeeps, WaitOverKeeps, DialUpKeeps, ConnectionLostKeeps
     DEF ClientStep, Searches
<1>3. CASE UNCHANGED vars
  BY <1>3, SearchFrame DEF vars, startupVars, DiscoveryInv, DiscoveryTypeOK, StartupTypeOK
<1> QED
  BY <1>1, <1>2, <1>3 DEF Next

(* The search of a Client, the dials its swarm has under way, the Guards'  *)
(* starts and the relay's tables stay where the code can put them: the     *)
(* invariant every other theorem here rests on.                            *)
THEOREM DiscoveryInvariant == Spec => []DiscoveryInv
<1>1. Init => DiscoveryInv
  BY InitDiscoveryInv
<1>2. DiscoveryInv /\ [Next]_vars => DiscoveryInv'
  BY NextDiscoveryInv
<1> QED
  BY <1>1, <1>2, PTL DEF Spec

(* discover_and_dial gives up only once it really dialled each Guard of    *)
(* the answer (node.rs 349).                                               *)
THEOREM SearchIsExhaustive == Spec => []EveryGuardDialled
<1>1. DiscoveryInv => EveryGuardDialled
  BY DEF DiscoveryInv
<1> QED
  BY <1>1, DiscoveryInvariant, PTL

(* The address discover_and_dial returns is the one the connection came    *)
(* by, whatever dials of other addresses are still under way (node.rs 352).*)
THEOREM ReturnedAddressWorked == Spec => JoinedAddressWorked
<1> DEFINE Found == client.pc = "dialing" /\ client'.pc = "authenticating"
<1>1. ASSUME DiscoveryInv, Next, Found
      PROVE  <<client'.current, client'.next>> \in client'.open
  <2>1. client \in ClientNode
    BY <1>1 DEF DiscoveryInv, DiscoveryTypeOK
  <2>2. PICK d \in Dial : DialUp(d)
    BY <1>1, <2>1 DEF Next, ClientStep, Searches, GivenAddress, Joined, JoinFails, ClientStarts,
       RendezvousJoined, LookupFails, Discovered, NextPeer, Exhausted, DialAddress, Dialled,
       DialLate, DialDown, ConnectionLost, Authenticated, AuthenticationFails, ClientStops,
       Fresh, ClientNode
  <2>3. client.waiting /\ client.current = d[1]
    BY <1>1, <2>1, <2>2 DEF DialUp, ClientNode
  <2>4. d \in client.pending /\ d = <<client.current, client.next>>
    BY <1>1, <2>2, <2>3 DEF DialUp, DiscoveryInv, AwaitsItsOwnDial, Dial
  <2> QED
    BY <2>1, <2>2, <2>4 DEF DialUp, ClientNode
<1>2. DiscoveryInv /\ [Next]_vars
        => [Found => <<client'.current, client'.next>> \in client'.open]_vars
  BY <1>1
<1> QED
  BY <1>2, DiscoveryInvariant, PTL DEF Spec, JoinedAddressWorked

=============================================================================
