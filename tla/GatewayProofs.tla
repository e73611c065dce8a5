--------------------------- MODULE GatewayProofs ---------------------------
(***************************************************************************)
(* Proofs about the gateway's configurations and the whitelist of its      *)
(* embedded node, for any Guards, peers and configurations and any number  *)
(* of PUTs at one time: GatewayInv is inductive, the role of Guards goes   *)
(* to those with a stored configuration alone, and every peer of a stored  *)
(* configuration is listed or about to be.                                 *)
(*                                                                         *)
(* The argument follows a command from the PUT that makes it, through the  *)
(* channel, to the whitelist.  A PUT pushes what it has stored, and no row *)
(* is ever taken away; and the entries of a stored configuration come from *)
(* PUTs of its own Guard, so that the end of another Guard's PUT, or of a  *)
(* PUT that had stored nothing yet, takes none of them back.               *)
(***************************************************************************)
EXTENDS Gateway, FiniteSetTheorems, WellFoundedInduction, TLAPS

USE GatewayAssumption, NoneAssumption

(* A set of positions that is not empty has a last one. *)
LEMMA LastPosition ==
    ASSUME NEW n \in Nat, NEW S, S \subseteq 1 .. n, S # {}
    PROVE  Max(S) \in S
<1> DEFINE After == {n - i : i \in S}
<1>1. After \subseteq Nat /\ After # {}
  <2>1. \A i \in S : i \in 1 .. n /\ n - i \in Nat
    OBVIOUS
  <2> QED
    BY <2>1
<1> HIDE DEF After
<1>2. \E x \in After : \A y \in After : ~(<<y, x>> \in OpToRel(<, Nat))
  BY <1>1, WFMin, NatLessThanWellFounded, Zenon
<1>3. PICK x \in After : \A y \in After : x <= y
  <2>1. PICK x \in After : \A y \in After : ~(<<y, x>> \in OpToRel(<, Nat))
    BY <1>2
  <2>2. \A y \in After : y < x => <<y, x>> \in OpToRel(<, Nat)
    BY <1>1, Zenon DEF OpToRel
  <2>3. \A y \in After : ~(y < x)
    BY <2>1, <2>2, Zenon
  <2> QED
    BY <1>1, <2>3
<1> USE DEF After
<1>4. PICK i \in S : x = n - i
  BY <1>3
<1>5. \A j \in S : i >= j
  <2> SUFFICES ASSUME NEW j \in S PROVE i >= j
    OBVIOUS
  <2>1. x <= n - j
    BY <1>3
  <2> QED
    BY <1>4, <2>1
<1> QED
  BY <1>4, <1>5 DEF Max

(* The positions of the rows are numbers from 1 on. *)
LEMMA RowsArePositions ==
    ASSUME NEW rows \in Orders
    PROVE  Cardinality(Rows) \in Nat /\ DOMAIN rows = 1 .. Cardinality(Rows)
<1>1. IsFiniteSet(Rows)
  BY FS_Subset DEF Rows
<1> QED
  BY <1>1, FS_CardinalityType DEF Orders

(* What a restart makes of the rows: each peer they name is listed, and    *)
(* holds the role of Guards only if one of the rows is its own.            *)
LEMMA RebuiltFromRows ==
    ASSUME GatewayTypeOK, NEW rows \in Orders
    PROVE  /\ Rebuilt(rows) \in [Peer -> {None} \cup SUBSET Roles]
           /\ \A u \in Rows : \A p \in Peer \cap Named(u) : Rebuilt(rows)[p] # None
           /\ \A p \in Peer : Rebuilt(rows)[p] # None /\ "gw-guard" \in Rebuilt(rows)[p]
                                => p \in Rows
<1>1. \A u, p : Given(u, p) \in SUBSET Roles
  BY DEF Given, Roles
<1>2. ASSUME NEW p \in Peer, Naming(rows, p) # {}
      PROVE  Max(Naming(rows, p)) \in Naming(rows, p)
  BY <1>2, RowsArePositions, LastPosition DEF Naming
<1>3. ASSUME NEW u \in Rows, NEW p \in Peer \cap Named(u)
      PROVE  Rebuilt(rows)[p] # None
  <2>1. PICK i \in DOMAIN rows : rows[i] = u
    BY DEF Orders
  <2>2. Naming(rows, p) # {}
    BY <2>1 DEF Naming
  <2> QED
    BY <1>1, <2>2 DEF Rebuilt
<1>4. ASSUME NEW p \in Peer, Rebuilt(rows)[p] # None, "gw-guard" \in Rebuilt(rows)[p]
      PROVE  p \in Rows
  <2>1. Naming(rows, p) # {}
    BY <1>4 DEF Rebuilt
  <2>2. PICK u \in Rows : p \in Named(u) /\ Rebuilt(rows)[p] = Given(u, p)
    <3>1. Max(Naming(rows, p)) \in DOMAIN rows /\ p \in Named(rows[Max(Naming(rows, p))])
      BY <1>2, <2>1 DEF Naming
    <3>2. rows[Max(Naming(rows, p))] \in Rows
      BY <3>1 DEF Orders
    <3> QED
      BY <2>1, <3>1, <3>2 DEF Rebuilt
  <2>3. p \notin store[u]
    BY <1>4, <2>2 DEF Given
  <2> QED
    BY <2>2, <2>3 DEF Named
<1>5. Rebuilt(rows) \in [Peer -> {None} \cup SUBSET Roles]
  BY <1>1 DEF Rebuilt
<1> QED
  BY <1>3, <1>4, <1>5

(* The commands of a configuration: the Guard's alone carries its role,    *)
(* and each peer the configuration names has one.                          *)
LEMMA CommandsOfAConfiguration ==
    ASSUME NEW u \in Uuid, NEW allow \in AllowLists
    PROVE  /\ RolesForConfig(u, allow) \subseteq Command
           /\ \A command \in RolesForConfig(u, allow) :
                "gw-guard" \in command.roles => command.peer = u
           /\ \A p \in {u} \cup allow :
                \E command \in RolesForConfig(u, allow) : command.peer = p
<1>1. GuardCommand(u) \in Command /\ GuardCommand(u).peer = u
  BY DEF GuardCommand, Command
<1>2. \A p \in allow : [peer |-> p, roles |-> {"gw-client"}] \in Command
  BY DEF Command, Roles
<1>3. RolesForConfig(u, allow) \subseteq Command
  BY <1>1, <1>2 DEF RolesForConfig, ClientCommands
<1>4. \A command \in RolesForConfig(u, allow) :
        "gw-guard" \in command.roles => command.peer = u
  BY <1>1 DEF RolesForConfig, ClientCommands
<1>5. ASSUME NEW p \in {u} \cup allow
      PROVE  \E command \in RolesForConfig(u, allow) : command.peer = p
  <2>1. CASE p = u
    BY <1>1, <2>1 DEF RolesForConfig
  <2>2. CASE p \in allow
    <3>1. [peer |-> p, roles |-> {"gw-client"}] \in RolesForConfig(u, allow)
      BY <2>2 DEF RolesForConfig, ClientCommands
    <3> QED
      BY <3>1
  <2> QED
    BY <2>1, <2>2
<1> QED
  BY <1>3, <1>4, <1>5

-----------------------------------------------------------------------------
(* The steps.                                                              *)

(* What the parts of the invariant that a step leaves alone rest on. *)
LEMMA WhitelistFrame ==
    ASSUME GatewayInv, UNCHANGED <<commands, live>>, Rows \subseteq Rows'
    PROVE  GuardRoleCarried' /\ GuardRoleStored'
BY DEF GatewayInv, GuardRoleCarried, GuardRoleStored, Holds

LEMMA PutReceivedKeeps ==
    ASSUME GatewayInv, NEW k \in Put, NEW u \in Uuid, NEW allow \in AllowLists,
           PutReceived(k, u, allow)
    PROVE  GatewayInv'
<1> USE DEF GatewayInv, PutReceived, Arrival
<1> DEFINE request == [uuid |-> u, allow |-> allow, stage |-> "write", todo |-> {}]
<1>1. request \in Request
  BY DEF Request
<1>2. /\ puts \in [Put -> {None} \cup Request] /\ puts[k] = None
      /\ puts' \in [Put -> {None} \cup Request] /\ puts'[k] = request
      /\ \A j \in Put : j # k => puts'[j] = puts[j]
      /\ UNCHANGED <<store, commands, live, unsettled>> /\ UNCHANGED Rows
  BY <1>1 DEF GatewayTypeOK, Rows
<1>3. GatewayTypeOK'
  BY <1>2 DEF GatewayTypeOK
<1>4. PushesItsOwn'
  BY <1>2 DEF PushesItsOwn
<1>5. ListedByItsOwn'
  BY <1>2 DEF ListedByItsOwn, Named, ToBePushed
<1> QED
  BY <1>2, <1>3, <1>4, <1>5, WhitelistFrame

(* The configuration is stored, and everything it names is to be pushed.   *)
LEMMA PutWrittenKeeps ==
    ASSUME GatewayInv, NEW k \in Put, PutWritten(k)
    PROVE  GatewayInv'
<1> USE DEF GatewayInv
<1>1. puts[k] \in Request /\ puts[k] # None /\ puts \in [Put -> {None} \cup Request]
  BY DEF PutWritten, GatewayTypeOK
<1>2. PICK u \in Uuid : u = puts[k].uuid
  BY <1>1 DEF Request
<1>3. PICK allow \in AllowLists : allow = puts[k].allow
  BY <1>1 DEF Request
<1>4. /\ store' = [store EXCEPT ![u] = allow]
      /\ puts' = [puts EXCEPT ![k].stage = "push", ![k].todo = RolesForConfig(u, allow)]
      /\ unsettled' = unsettled \ {u}
      /\ UNCHANGED <<accepted, commands, live>>
  BY <1>2, <1>3 DEF PutWritten
<1>5. /\ puts' \in [Put -> {None} \cup Request]
      /\ puts'[k] # None /\ puts'[k].uuid = u /\ puts'[k].allow = allow
      /\ puts'[k].stage = "push" /\ puts'[k].todo = RolesForConfig(u, allow)
      /\ \A j \in Put : j # k => puts'[j] = puts[j]
  <2>1. RolesForConfig(u, allow) \in SUBSET Command
    BY CommandsOfAConfiguration
  <2>2. /\ puts'[k] = [puts[k] EXCEPT !.stage = "push", !.todo = RolesForConfig(u, allow)]
        /\ \A j \in Put : j # k => puts'[j] = puts[j]
        /\ puts' = [puts EXCEPT ![k] = puts'[k]]
    BY <1>1, <1>4
  <2>3. puts'[k] \in Request
    BY <1>1, <2>1, <2>2 DEF Request
  <2> QED
    BY <1>1, <1>2, <1>3, <2>2, <2>3 DEF Request
<1>6. /\ store' \in [Uuid -> {None} \cup AllowLists] /\ store'[u] = allow
      /\ \A v \in Uuid : v # u => store'[v] = store[v]
  BY <1>4 DEF GatewayTypeOK
<1>7. u \in Rows' /\ Rows \subseteq Rows' /\ \A v \in Rows' : v # u => v \in Rows
  BY <1>6 DEF Rows
<1>8. GatewayTypeOK'
  BY <1>4, <1>5, <1>6 DEF GatewayTypeOK
<1>9. PushesItsOwn'
  BY <1>5, <1>7 DEF PushesItsOwn
<1>10. ListedByItsOwn'
  <2> SUFFICES ASSUME NEW v \in Rows' \ unsettled', NEW p \in Named(v)'
               PROVE  \/ live'[p] # None
                      \/ \E i \in DOMAIN commands' : commands'[i].peer = p
                      \/ ToBePushed(v, p)'
    BY DEF ListedByItsOwn
  <2>1. CASE v = u
    <3>1. p \in {u} \cup allow
      BY <1>6, <2>1 DEF Named
    <3> QED
      BY <1>5, <1>6, <2>1, <3>1, CommandsOfAConfiguration DEF ToBePushed
  <2>2. CASE v # u
    <3>1. v \in Rows \ unsettled /\ p \in Named(v)
      BY <1>4, <1>6, <1>7, <2>2 DEF Named, Rows
    <3>2. ToBePushed(v, p) => ToBePushed(v, p)'
      <4>1. store'[v] = store[v]
        BY <1>6, <2>2, <3>1 DEF Rows
      <4> QED
        BY <1>2, <1>5, <2>2, <4>1 DEF ToBePushed
    <3> QED
      BY <1>4, <3>1, <3>2 DEF ListedByItsOwn
  <2> QED
    BY <2>1, <2>2
<1> QED
  BY <1>4, <1>7, <1>8, <1>9, <1>10, WhitelistFrame

(* A PUT ends with nothing to push, or leaves its Guard unsettled. *)
LEMMA PutFailedKeeps ==
    ASSUME GatewayInv, NEW k \in Put, PutFailed(k)
    PROVE  GatewayInv'
<1> USE DEF GatewayInv, PutFailed
<1>1. /\ puts' \in [Put -> {None} \cup Request] /\ puts'[k] = None
      /\ \A j \in Put : j # k => puts'[j] = puts[j]
      /\ UNCHANGED <<store, commands, live, unsettled>> /\ UNCHANGED Rows
  BY DEF GatewayTypeOK, Rows
<1>2. GatewayTypeOK'
  BY <1>1 DEF GatewayTypeOK
<1>3. PushesItsOwn'
  BY <1>1 DEF PushesItsOwn
<1>4. puts[k].todo = {}
  BY DEF PushesItsOwn
<1>5. ListedByItsOwn'
  BY <1>1, <1>4 DEF ListedByItsOwn, Named, ToBePushed
<1> QED
  BY <1>1, <1>2, <1>3, <1>5, WhitelistFrame

LEMMA PutDroppedKeeps ==
    ASSUME GatewayInv, NEW k \in Put, PutDropped(k)
    PROVE  GatewayInv'
<1> USE DEF GatewayInv
<1>1. puts[k] \in Request /\ puts[k] # None /\ puts \in [Put -> {None} \cup Request]
  BY DEF PutDropped, GatewayTypeOK
<1>2. PICK u \in Uuid : u = puts[k].uuid
  BY <1>1 DEF Request
<1>3. /\ puts' \in [Put -> {None} \cup Request] /\ puts'[k] = None
      /\ \A j \in Put : j # k => puts'[j] = puts[j]
      /\ UNCHANGED <<accepted, commands, live>>
      /\ unsettled' \in {unsettled, unsettled \cup {u}}
      /\ u \in unsettled' \/ u \in unsettled
         \/ (store'[u] = store[u] /\ store[u] # puts[k].allow)
  BY <1>1, <1>2 DEF PutDropped
<1>4. /\ store' \in [Uuid -> {None} \cup AllowLists]
      /\ \A v \in Uuid : v # u => store'[v] = store[v]
      /\ store'[u] = store[u] \/ store'[u] \in AllowLists
  BY <1>1, <1>2 DEF PutDropped, GatewayTypeOK, Request
<1>5. Rows \subseteq Rows' /\ \A v \in Rows' : v # u => v \in Rows
  BY <1>4 DEF Rows
<1>6. GatewayTypeOK'
  BY <1>3, <1>4 DEF GatewayTypeOK
<1>7. PushesItsOwn'
  BY <1>3, <1>5 DEF PushesItsOwn
<1>8. ListedByItsOwn'
  <2> SUFFICES ASSUME NEW v \in Rows' \ unsettled', NEW p \in Named(v)'
               PROVE  \/ live'[p] # None
                      \/ \E i \in DOMAIN commands' : commands'[i].peer = p
                      \/ ToBePushed(v, p)'
    BY DEF ListedByItsOwn
  <2>1. v \notin unsettled
    BY <1>3
  <2>2. /\ v \in Rows /\ store'[v] = store[v]
        /\ v = u => store[u] # puts[k].allow
    <3>1. CASE v = u
      BY <1>2, <1>3, <2>1, <3>1 DEF Rows
    <3>2. CASE v # u
      BY <1>4, <1>5, <3>2 DEF Rows
    <3> QED
      BY <3>1, <3>2
  <2>3. p \in Named(v)
    BY <2>2 DEF Named
  <2>4. ToBePushed(v, p) => ToBePushed(v, p)'
    BY <1>2, <1>3, <2>2 DEF ToBePushed
  <2> QED
    BY <1>3, <2>1, <2>2, <2>3, <2>4 DEF ListedByItsOwn
<1> QED
  BY <1>3, <1>5, <1>6, <1>7, <1>8, WhitelistFrame

(* A command goes from its PUT to the channel: its peer is on the way.     *)
LEMMA PutPushedKeeps ==
    ASSUME GatewayInv, NEW k \in Put, PutPushed(k)
    PROVE  GatewayInv'
<1> USE DEF GatewayInv
<1>1. /\ puts[k] \in Request /\ puts[k] # None /\ puts \in [Put -> {None} \cup Request]
      /\ puts[k].stage = "push" /\ Len(commands) < Commands
      /\ commands \in Seq(Command)
      /\ UNCHANGED <<store, accepted, live, unsettled>>
  BY DEF PutPushed, Room, GatewayTypeOK
<1>2. PICK command \in First(puts[k].uuid, puts[k].todo) :
        commands' = Append(commands, command) /\ Advance(k, command)
  BY DEF PutPushed
<1>3. command \in puts[k].todo /\ command \in Command
  BY <1>1, <1>2 DEF First, Request
<1>4. PICK u \in Uuid : u = puts[k].uuid
  BY <1>1 DEF Request
<1>5. PICK todo \in SUBSET Command : todo = puts[k].todo \ {command}
  BY <1>1 DEF Request
<1>6. /\ \A j \in Put : j # k => puts'[j] = puts[j]
      /\ \/ todo = {} /\ puts'[k] = None
         \/ /\ puts'[k] # None /\ puts'[k].uuid = u /\ puts'[k].allow = puts[k].allow
            /\ puts'[k].stage = "push" /\ puts'[k].todo = todo
      /\ puts' \in [Put -> {None} \cup Request]
  <2>1. CASE todo = {}
    BY <1>1, <1>2, <1>5, <2>1 DEF Advance
  <2>2. CASE todo # {}
    <3>1. puts' = [puts EXCEPT ![k].todo = todo]
      BY <1>2, <1>5, <2>2 DEF Advance
    <3>2. [puts[k] EXCEPT !.todo = todo] \in Request
      BY <1>1 DEF Request
    <3> QED
      BY <1>1, <1>4, <3>1, <3>2 DEF Request
  <2> QED
    BY <2>1, <2>2
<1>7. /\ commands' \in Seq(Command) /\ Len(commands') = Len(commands) + 1
      /\ \A i \in DOMAIN commands : i \in DOMAIN commands' /\ commands'[i] = commands[i]
      /\ Len(commands') \in DOMAIN commands' /\ commands'[Len(commands')] = command
      /\ \A i \in DOMAIN commands' : i \in DOMAIN commands \/ commands'[i] = command
  BY <1>1, <1>2, <1>3
<1>8. GatewayTypeOK'
  <2>1. Len(commands') <= Commands
    BY <1>1, <1>7
  <2> QED
    BY <1>1, <1>6, <1>7, <2>1 DEF GatewayTypeOK
<1>9. UNCHANGED Rows /\ \A v : Named(v)' = Named(v)
  BY <1>1 DEF Rows, Named
<1>10. /\ u \in Rows /\ puts[k].todo \subseteq RolesForConfig(u, puts[k].allow)
  BY <1>1, <1>4 DEF PushesItsOwn
<1>11. PushesItsOwn'
  <2> SUFFICES ASSUME NEW j \in Put, puts'[j] # None
               PROVE  /\ puts'[j].stage = "write" => puts'[j].todo = {}
                      /\ puts'[j].stage = "push" =>
                          /\ puts'[j].uuid \in Rows
                          /\ puts'[j].todo \subseteq RolesForConfig(puts'[j].uuid, puts'[j].allow)
    BY <1>9 DEF PushesItsOwn
  <2>1. CASE j = k
    BY <1>5, <1>6, <1>10, <2>1
  <2>2. CASE j # k
    BY <1>6, <2>2 DEF PushesItsOwn
  <2> QED
    BY <2>1, <2>2
<1>12. GuardRoleCarried'
  <2>1. "gw-guard" \in command.roles => command.peer = u
    <3>1. puts[k].allow \in AllowLists
      BY <1>1 DEF Request
    <3> QED
      BY <1>3, <1>10, <3>1, CommandsOfAConfiguration
  <2> QED
    BY <1>7, <1>9, <1>10, <2>1 DEF GuardRoleCarried
<1>13. GuardRoleStored'
  BY <1>1, <1>9 DEF GuardRoleStored, Holds
<1>14. ListedByItsOwn'
  <2> SUFFICES ASSUME NEW v \in Rows \ unsettled, NEW p \in Named(v)
               PROVE  \/ live[p] # None
                      \/ \E i \in DOMAIN commands' : commands'[i].peer = p
                      \/ ToBePushed(v, p)'
    BY <1>1, <1>9 DEF ListedByItsOwn
  <2>1. CASE live[p] # None
    BY <2>1
  <2>2. CASE \E i \in DOMAIN commands : commands[i].peer = p
    BY <1>7, <2>2
  <2>3. CASE ToBePushed(v, p)
    <3>1. PICK j \in Put : /\ puts[j] # None /\ puts[j].uuid = v /\ puts[j].allow = store[v]
                           /\ \E c \in puts[j].todo : c.peer = p
      BY <2>3 DEF ToBePushed
    <3>2. PICK c \in puts[j].todo : c.peer = p
      BY <3>1
    <3>3. CASE j # k
      BY <1>1, <1>6, <3>1, <3>2, <3>3 DEF ToBePushed
    <3>4. CASE j = k /\ c = command
      BY <1>7, <3>2, <3>4
    <3>5. CASE j = k /\ c # command
      <4>1. c \in todo /\ v = u
        BY <1>4, <1>5, <3>1, <3>2, <3>5
      <4>2. /\ puts'[k] # None /\ puts'[k].uuid = v /\ puts'[k].allow = store'[v]
            /\ c \in puts'[k].todo
        BY <1>1, <1>6, <3>1, <3>5, <4>1
      <4> QED
        BY <3>2, <4>2 DEF ToBePushed
    <3> QED
      BY <3>3, <3>4, <3>5
  <2> QED
    BY <2>1, <2>2, <2>3 DEF ListedByItsOwn
<1> QED
  BY <1>8, <1>11, <1>12, <1>13, <1>14

(* The command that is taken lists its peer; the others stay on their way. *)
LEMMA CommandTakenKeeps ==
    ASSUME GatewayInv, CommandTaken
    PROVE  GatewayInv'
<1> USE DEF GatewayInv
<1>1. /\ commands \in Seq(Command) /\ commands # <<>> /\ Len(commands) <= Commands
      /\ commands' = Tail(commands) /\ live \in [Peer -> {None} \cup SUBSET Roles]
      /\ live' = [live EXCEPT ![Head(commands).peer] = Head(commands).roles]
      /\ UNCHANGED <<store, puts, accepted, unsettled>>
  BY DEF CommandTaken, GatewayTypeOK
<1>2. PICK command \in Command : command = Head(commands)
  BY <1>1
<1>3. command.peer \in Peer /\ command.roles \in SUBSET Roles
  BY DEF Command
<1>4. /\ live' \in [Peer -> {None} \cup SUBSET Roles]
      /\ live'[command.peer] = command.roles
      /\ \A p \in Peer : p # command.peer => live'[p] = live[p]
  BY <1>1, <1>2, <1>3
<1>5. /\ commands' \in Seq(Command) /\ Len(commands') <= Len(commands)
      /\ \A i \in DOMAIN commands' : i + 1 \in DOMAIN commands /\ commands'[i] = commands[i + 1]
      /\ \A i \in DOMAIN commands :
            commands[i] = command \/ (i - 1 \in DOMAIN commands' /\ commands'[i - 1] = commands[i])
  BY <1>1, <1>2
<1>6. UNCHANGED Rows /\ \A v : Named(v)' = Named(v)
  BY <1>1 DEF Rows, Named
<1>7. GatewayTypeOK'
  <2>1. Len(commands') <= Commands
    BY <1>1, <1>5
  <2> QED
    BY <1>1, <1>4, <1>5, <2>1 DEF GatewayTypeOK
<1>8. PushesItsOwn'
  BY <1>1, <1>6 DEF PushesItsOwn
<1>9. GuardRoleCarried'
  BY <1>5, <1>6 DEF GuardRoleCarried
<1>10. GuardRoleStored'
  <2>1. "gw-guard" \in command.roles => command.peer \in Rows
    <3>1. 1 \in DOMAIN commands /\ commands[1] = command
      BY <1>1, <1>2
    <3> QED
      BY <3>1 DEF GuardRoleCarried
  <2> QED
    BY <1>4, <1>6, <2>1 DEF GuardRoleStored, Holds
<1>11. ListedByItsOwn'
  <2> SUFFICES ASSUME NEW v \in Rows \ unsettled, NEW p \in Named(v)
               PROVE  \/ live'[p] # None
                      \/ \E i \in DOMAIN commands' : commands'[i].peer = p
                      \/ ToBePushed(v, p)
    BY <1>1, <1>6 DEF ListedByItsOwn, ToBePushed
  <2>1. p \in Peer
    BY DEF Named, Rows, GatewayTypeOK
  <2>2. CASE live[p] # None
    BY <1>3, <1>4, <2>1, <2>2
  <2>3. CASE \E i \in DOMAIN commands : commands[i].peer = p
    BY <1>3, <1>4, <1>5, <2>1, <2>3
  <2>4. CASE ToBePushed(v, p)
    BY <2>4
  <2> QED
    BY <2>2, <2>3, <2>4 DEF ListedByItsOwn
<1> QED
  BY <1>7, <1>8, <1>9, <1>10, <1>11

LEMMA GatewayRestartsKeeps ==
    ASSUME GatewayInv, GatewayRestarts
    PROVE  GatewayInv'
<1> USE DEF GatewayInv
<1>1. /\ puts' = [k \in Put |-> None] /\ commands' = <<>> /\ unsettled' = {}
      /\ UNCHANGED <<store, accepted>>
  BY DEF GatewayRestarts
<1>2. PICK rows \in Orders : live' = Rebuilt(rows)
  BY DEF GatewayRestarts
<1>3. UNCHANGED Rows /\ \A v : Named(v)' = Named(v)
  BY <1>1 DEF Rows, Named
<1>4. GatewayTypeOK'
  <2>1. commands' \in Seq(Command) /\ Len(commands') <= Commands
    BY <1>1
  <2> QED
    BY <1>1, <1>2, <2>1, RebuiltFromRows DEF GatewayTypeOK
<1>5. PushesItsOwn' /\ GuardRoleCarried'
  BY <1>1 DEF PushesItsOwn, GuardRoleCarried
<1>6. GuardRoleStored'
  BY <1>2, <1>3, RebuiltFromRows DEF GuardRoleStored, Holds
<1>7. ListedByItsOwn'
  <2>1. \A u \in Rows : Named(u) \subseteq Peer
    BY DEF Named, Rows, GatewayTypeOK
  <2> QED
    BY <1>2, <1>3, <2>1, RebuiltFromRows DEF ListedByItsOwn
<1> QED
  BY <1>4, <1>5, <1>6, <1>7

-----------------------------------------------------------------------------
LEMMA InitGatewayInv ==
    ASSUME GatewayInit
    PROVE  GatewayInv
<1>1. commands \in Seq(Command) /\ Len(commands) <= Commands /\ accepted \in 0..MaxPuts
  BY DEF GatewayInit
<1>2. GatewayTypeOK
  BY <1>1 DEF GatewayInit, GatewayTypeOK, Nobody
<1>3. Rows = {}
  BY DEF GatewayInit, Rows
<1> QED
  BY <1>2, <1>3 DEF GatewayInit, GatewayInv, PushesItsOwn, GuardRoleCarried, GuardRoleStored,
     Holds, Nobody, ListedByItsOwn

LEMMA NextGatewayInv ==
    ASSUME GatewayInv, [GatewayNext]_gatewayVars
    PROVE  GatewayInv'
<1>1. CASE GatewayNext
  BY <1>1, CommandTakenKeeps, GatewayRestartsKeeps, PutWrittenKeeps, PutPushedKeeps,
     PutFailedKeeps, PutDroppedKeeps, PutReceivedKeeps DEF GatewayNext
<1>2. CASE UNCHANGED gatewayVars
  BY <1>2 DEF gatewayVars, GatewayInv, GatewayTypeOK, PushesItsOwn, GuardRoleCarried,
     GuardRoleStored, Holds, ListedByItsOwn, ToBePushed, Named, Rows
<1> QED
  BY <1>1, <1>2

(* The rows, the PUTs under way, the commands in the channel and the live  *)
(* whitelist agree with each other, whatever PUT fails, is dropped or is   *)
(* overtaken, and over every restart.                                      *)
THEOREM GatewayInvariant == GatewaySpec => []GatewayInv
<1>1. GatewayInit => GatewayInv
  BY InitGatewayInv
<1>2. GatewayInv /\ [GatewayNext]_gatewayVars => GatewayInv'
  BY NextGatewayInv
<1> QED
  BY <1>1, <1>2, PTL DEF GatewaySpec

(* ROLE_GUARD is held only by a peer with a stored configuration of its    *)
(* own (roles.rs).                                                         *)
THEOREM GuardRoleIsReserved == GatewaySpec => []GuardRoleStored
<1>1. GatewayInv => GuardRoleStored
  BY DEF GatewayInv
<1> QED
  BY <1>1, GatewayInvariant, PTL

(* Every peer a stored configuration names is listed, or the command that  *)
(* lists it is on its way, unless the last PUT of that Guard was cut short *)
(* (put_config, rebuild_whitelist).                                        *)
THEOREM StoredIsListed == GatewaySpec => []StoredListed
<1>1. GatewayInv => StoredListed
  BY DEF GatewayInv, ListedByItsOwn, StoredListed, ToBePushed, Coming
<1> QED
  BY <1>1, GatewayInvariant, PTL

=============================================================================
