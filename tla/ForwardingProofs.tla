-------------------------- MODULE ForwardingProofs --------------------------
(***************************************************************************)
(* Proofs about the local redirections of a Client, for any redirections,  *)
(* any number of local connections and any pause and grace period: the     *)
(* invariant ForwardInv is inductive, a drain is bounded, and nobody's     *)
(* relay is cut before a grace period has passed since the signal.         *)
(*                                                                         *)
(* The argument is about timers that do not know of each other.  Each is   *)
(* tied to the time since the token was cancelled: a pause that the token  *)
(* overtakes is over within Pause ticks of it, so a drain begins within    *)
(* those and lasts Grace more; and whoever cuts a relay (a redirection or  *)
(* the keeper, whose process ends with it) has waited Grace ticks itself.  *)
(***************************************************************************)
EXTENDS Forwarding, TLAPS

USE ForwardingAssumption

(* What the timers are about. *)
Clocks == <<keeper, cancelled, starting, listener, left, since>>

LEMMA ClocksFrame ==
    ASSUME ForwardInv, UNCHANGED Clocks
    PROVE  TimeSinceToken' /\ RedirectionsInTime' /\ KeeperInTime'
BY DEF ForwardInv, Clocks, TimeSinceToken, RedirectionsInTime, KeeperInTime, InTime, Doing

(* The bound of a drain follows from the timers; it is stated of the state *)
(* a step leads to, where it is wanted.                                    *)
LEMMA BoundFollows ==
    ASSUME ForwardTypeOK', RedirectionsInTime', CarriedByATask'
    PROVE  DrainBounded'
<1> SUFFICES ASSUME since' > Pause + Grace
             PROVE  /\ \A l \in Listeners : listener'[l].pc \in {"unbound", "returned"}
                    /\ \A p \in Programs : local'[p].stage \notin Relayed \cup {"backlog"}
  BY DEF DrainBounded
<1>1. ASSUME NEW l \in Listeners
      PROVE  listener'[l].pc \in {"unbound", "returned"}
  <2>1. /\ listener'[l].pc \in {"unbound", "accepting", "pausing", "draining", "returned"}
        /\ listener'[l].left \in Nat /\ since' \in Nat
    BY DEF ForwardTypeOK, Task
  <2>2. InTime(l)'
    BY DEF RedirectionsInTime
  <2> QED
    BY <2>1, <2>2 DEF InTime, Doing
<1>2. ASSUME NEW p \in Programs
      PROVE  local'[p].stage \notin Relayed \cup {"backlog"}
  <2>1. local'[p].at \in Listeners
    BY DEF ForwardTypeOK, Local
  <2> QED
    BY <1>1, <2>1 DEF CarriedByATask, Carried, Carrying
<1> QED
  BY <1>1, <1>2

(* Local connections that are cut are cut, the others are left as they are.*)
LEMMA CutTypes ==
    ASSUME local \in [Programs -> Local], NEW dropped, Cut(dropped)
    PROVE  /\ local' \in [Programs -> Local]
           /\ \A p \in Programs :
                /\ local'[p].at = local[p].at
                /\ Carried(p)' => Carried(p) /\ local[p].at \notin dropped
<1>1. local' \in [Programs -> Local]
  BY DEF Cut, Local, Stage
<1>2. ASSUME NEW p \in Programs
      PROVE  local'[p].at = local[p].at
             /\ (Carried(p)' => Carried(p) /\ local[p].at \notin dropped)
  BY DEF Cut, Local, Carried, Relayed
<1> QED
  BY <1>1, <1>2

(* A local connection that goes on keeps its redirection.                  *)
LEMMA ReachesTypes ==
    ASSUME local \in [Programs -> Local], NEW p \in Programs, NEW stage \in Stage,
           Reaches(p, stage)
    PROVE  /\ local' \in [Programs -> Local]
           /\ \A q \in Programs :
                /\ local'[q].at = local[q].at
                /\ q # p => local'[q].stage = local[q].stage
           /\ local'[p].stage = stage
BY DEF Reaches, Local

(* A redirection that moves on leaves the others where they are. *)
LEMMA EntersTypes ==
    ASSUME listener \in [Listeners -> Task], NEW l \in Listeners,
           NEW pc \in {"unbound", "accepting", "pausing", "draining", "returned"},
           NEW ticks \in 0 .. Grace, Enters(l, pc, ticks)
    PROVE  /\ listener' \in [Listeners -> Task]
           /\ listener'[l].pc = pc /\ listener'[l].left = ticks
           /\ \A k \in Listeners : k # l => listener'[k] = listener[k]
BY DEF Enters, Task

-----------------------------------------------------------------------------
(* The redirections.                                                       *)

(* A redirection that goes on serving, in time. *)
LEMMA MovesInTime ==
    ASSUME ForwardInv, NEW l \in Listeners,
           NEW pc \in {"accepting", "pausing", "draining"}, NEW ticks \in 0 .. Grace,
           Enters(l, pc, ticks),
           UNCHANGED <<keeperVars, mode, starting, local, link, left, since>>,
           pc = "accepting" => since <= Pause,
           pc = "pausing" => since + ticks <= Pause,
           pc = "draining" => cancelled /\ since + ticks \in Grace .. Pause + Grace
    PROVE  ForwardInv'
<1> USE DEF ForwardInv
<1>1. /\ listener' \in [Listeners -> Task]
      /\ listener'[l].pc = pc /\ listener'[l].left = ticks
      /\ \A k \in Listeners : k # l => listener'[k] = listener[k]
  BY EntersTypes DEF ForwardTypeOK
<1>2. ForwardTypeOK'
  BY <1>1 DEF ForwardTypeOK, keeperVars
<1>3. TimeSinceToken' /\ KeeperInTime'
  BY DEF TimeSinceToken, KeeperInTime, keeperVars
<1>4. RedirectionsInTime'
  <2> SUFFICES ASSUME NEW k \in Listeners PROVE InTime(k)'
    BY DEF RedirectionsInTime
  <2>1. CASE k = l
    BY <1>1, <2>1 DEF InTime, Doing, keeperVars
  <2>2. CASE k # l
    BY <1>1, <2>2 DEF RedirectionsInTime, InTime, Doing, keeperVars
  <2> QED
    BY <2>1, <2>2
<1>5. CarriedByATask'
  BY <1>1 DEF CarriedByATask, Carried, Carrying, ForwardTypeOK, Local
<1> QED
  BY <1>2, <1>3, <1>4, <1>5, BoundFollows

LEMMA BindsKeeps ==
    ASSUME ForwardInv, NEW l \in Listeners, Binds(l)
    PROVE  ForwardInv'
<1>1. since <= Pause /\ 0 \in 0 .. Grace
  BY DEF ForwardInv, TimeSinceToken, Binds
<1> QED
  BY <1>1, MovesInTime DEF Binds

LEMMA AcceptFailsKeeps ==
    ASSUME ForwardInv, NEW l \in Listeners, AcceptFails(l)
    PROVE  ForwardInv'
<1>1. since = 0 /\ Pause \in 0 .. Grace
  BY DEF ForwardInv, ForwardTypeOK, TimeSinceToken, AcceptFails
<1>2. since + Pause <= Pause
  BY <1>1
<1> QED
  BY <1>1, <1>2, MovesInTime DEF AcceptFails

LEMMA PauseEndsKeeps ==
    ASSUME ForwardInv, NEW l \in Listeners, PauseEnds(l)
    PROVE  ForwardInv'
<1>1. since <= Pause /\ 0 \in 0 .. Grace
  BY DEF ForwardInv, ForwardTypeOK, RedirectionsInTime, InTime, PauseEnds
<1> QED
  BY <1>1, MovesInTime DEF PauseEnds

LEMMA TokenSeenKeeps ==
    ASSUME ForwardInv, NEW l \in Listeners, TokenSeen(l)
    PROVE  ForwardInv'
<1>1. since \in Nat /\ since <= Pause /\ cancelled
  BY DEF ForwardInv, ForwardTypeOK, RedirectionsInTime, InTime, TokenSeen
<1>2. since + Grace \in Grace .. Pause + Grace /\ Grace \in 0 .. Grace
  BY <1>1
<1> QED
  BY <1>1, <1>2, MovesInTime DEF TokenSeen

LEMMA ReturnsKeeps ==
    ASSUME ForwardInv, NEW l \in Listeners, Returns(l)
    PROVE  ForwardInv'
<1> USE DEF ForwardInv
<1>1. /\ listener' \in [Listeners -> Task] /\ listener'[l].pc = "returned"
      /\ \A k \in Listeners : k # l => listener'[k] = listener[k]
  BY EntersTypes DEF ForwardTypeOK, Returns
<1>2. /\ local' \in [Programs -> Local]
      /\ \A p \in Programs : /\ local'[p].at = local[p].at
                             /\ Carried(p)' => Carried(p) /\ local[p].at # l
  BY CutTypes DEF ForwardTypeOK, Returns
<1>3. ForwardTypeOK'
  BY <1>1, <1>2 DEF ForwardTypeOK, Returns, keeperVars
<1>4. TimeSinceToken' /\ KeeperInTime'
  BY DEF TimeSinceToken, KeeperInTime, Returns, keeperVars
<1>5. RedirectionsInTime'
  BY <1>1 DEF RedirectionsInTime, InTime, Doing, Returns, keeperVars
<1>6. CarriedByATask'
  BY <1>1, <1>2 DEF CarriedByATask, Carrying, ForwardTypeOK, Local
<1> QED
  BY <1>3, <1>4, <1>5, <1>6, BoundFollows

-----------------------------------------------------------------------------
(* Local connections.                                                      *)

Links == {"down", "bare", "session"}

(* A local connection that moves on, with a redirection if it needs one.   *)
LEMMA LocalMoves ==
    ASSUME ForwardInv, NEW p \in Programs, NEW stage \in Stage, Reaches(p, stage),
           UNCHANGED <<Clocks, mode>>, link' \in Links,
           stage \in Relayed \cup {"backlog"} => Carrying(local[p].at)
    PROVE  ForwardInv'
<1> USE DEF ForwardInv
<1>1. /\ local' \in [Programs -> Local] /\ local'[p].stage = stage
      /\ \A q \in Programs : /\ local'[q].at = local[q].at
                             /\ q # p => local'[q].stage = local[q].stage
  BY ReachesTypes DEF ForwardTypeOK
<1>2. ForwardTypeOK'
  BY <1>1 DEF ForwardTypeOK, Clocks, Links
<1>3. TimeSinceToken' /\ RedirectionsInTime' /\ KeeperInTime'
  BY ClocksFrame DEF Clocks
<1>4. CarriedByATask'
  BY <1>1 DEF CarriedByATask, Carried, Carrying, Clocks
<1> QED
  BY <1>2, <1>3, <1>4, BoundFollows

LEMMA LocalSteps ==
    ASSUME ForwardInv, NEW p \in Programs,
           \/ Connects(p) \/ Accepted(p) \/ OpenFails(p) \/ Acknowledged(p) \/ RelayEnds(p)
    PROVE  ForwardInv'
<1>1. UNCHANGED <<Clocks, mode>> /\ link' \in Links
  BY DEF Connects, Accepted, OpenFails, Acknowledged, RelayEnds, keeperVars, Clocks,
         ForwardInv, ForwardTypeOK, Links
<1>2. Carried(p) => Carrying(local[p].at)
  BY DEF ForwardInv, CarriedByATask
<1>3. CASE Connects(p)
  BY <1>1, <1>3, LocalMoves DEF Connects, Carrying, Stage
<1>4. CASE Accepted(p)
  BY <1>1, <1>2, <1>4, LocalMoves DEF Accepted, Carried, Stage
<1>5. CASE OpenFails(p)
  BY <1>1, <1>5, LocalMoves DEF OpenFails, Relayed, Stage
<1>6. CASE Acknowledged(p)
  BY <1>1, <1>2, <1>6, LocalMoves DEF Acknowledged, Carried, Relayed, Stage
<1>7. CASE RelayEnds(p)
  BY <1>1, <1>7, LocalMoves DEF RelayEnds, Relayed, Stage
<1> QED
  BY <1>3, <1>4, <1>5, <1>6, <1>7

-----------------------------------------------------------------------------
(* The process, its keeper and the link.                                   *)

(* The process ends, and everything local with it. *)
LEMMA EndKeeps ==
    ASSUME ForwardInv, keeper' = "stopped", Cut(Listeners),
           UNCHANGED <<cancelled, mode, starting, listener, link, left, since>>
    PROVE  ForwardInv'
<1> USE DEF ForwardInv
<1>1. /\ local' \in [Programs -> Local]
      /\ \A p \in Programs : /\ local'[p].at = local[p].at
                             /\ Carried(p)' => local[p].at \notin Listeners
  BY CutTypes DEF ForwardTypeOK
<1>2. ForwardTypeOK'
  BY <1>1 DEF ForwardTypeOK, Activity
<1>3. TimeSinceToken' /\ RedirectionsInTime' /\ KeeperInTime'
  BY DEF TimeSinceToken, RedirectionsInTime, InTime, Doing, KeeperInTime
<1>4. CarriedByATask'
  BY <1>1 DEF CarriedByATask, ForwardTypeOK, Local
<1> QED
  BY <1>2, <1>3, <1>4, BoundFollows

(* Steps that move no timer and no local connection. *)
LEMMA QuietSteps ==
    ASSUME ForwardInv, SessionBegins \/ SingleEnds \/ LinkBack \/ Signal \/ UNCHANGED vars
    PROVE  ForwardInv'
<1> USE DEF ForwardInv
<1>1. UNCHANGED <<mode, listener, local, left, since>>
  BY DEF SessionBegins, SingleEnds, LinkBack, Signal, forwardVars, vars
<1>2. /\ keeper' \in {keeper, "stopped"} /\ link' \in {link, "bare"}
      /\ cancelled' \in {cancelled, TRUE} /\ starting' \in {starting, FALSE}
  <2>1. keeper' \in {keeper, "stopped"} /\ link' \in {link, "bare"}
    BY DEF SessionBegins, SingleEnds, LinkBack, Signal, Cancel, keeperVars, forwardVars, vars
  <2>2. cancelled' = cancelled \/ cancelled' = TRUE
    BY DEF SessionBegins, SingleEnds, LinkBack, Signal, Cancel, keeperVars, forwardVars, vars
  <2>3. starting' = starting \/ starting' = FALSE
    BY DEF SessionBegins, SingleEnds, LinkBack, Signal, Cancel, keeperVars, forwardVars, vars
  <2> QED
    BY <2>1, <2>2, <2>3
<1>3. since # 0 => UNCHANGED cancelled
  BY DEF SessionBegins, SingleEnds, LinkBack, Signal, Cancel, keeperVars, forwardVars, vars,
         TimeSinceToken, ForwardTypeOK
<1>4. ForwardTypeOK'
  BY <1>1, <1>2 DEF ForwardTypeOK, Activity
<1>5. TimeSinceToken' /\ RedirectionsInTime' /\ KeeperInTime'
  <2>1. cancelled => cancelled'
    BY <1>2
  <2>2. TimeSinceToken'
    <3>1. CASE since = 0
      BY <1>1, <3>1 DEF TimeSinceToken
    <3>2. CASE since # 0
      <4>1. cancelled = TRUE /\ starting = FALSE
        BY <3>2 DEF TimeSinceToken, ForwardTypeOK
      <4>2. cancelled' = TRUE /\ starting' = FALSE
        BY <1>2, <1>3, <3>2, <4>1
      <4> QED
        BY <4>2 DEF TimeSinceToken
    <3> QED
      BY <3>1, <3>2
  <2>3. RedirectionsInTime'
    BY <1>1, <2>1 DEF RedirectionsInTime, InTime, Doing
  <2>4. KeeperInTime'
    BY <1>1, <1>2, <2>1 DEF KeeperInTime
  <2> QED
    BY <2>2, <2>3, <2>4
<1>6. CarriedByATask'
  BY <1>1 DEF CarriedByATask, Carried, Carrying
<1> QED
  BY <1>4, <1>5, <1>6, BoundFollows

LEMMA KeeperMovesKeeps ==
    ASSUME ForwardInv, KeeperMoves
    PROVE  ForwardInv'
<1> USE DEF ForwardInv
<1>1. UNCHANGED <<cancelled, mode, starting, listener, local, since>>
  BY DEF KeeperMoves, Loses, Attempts, GivesUp, Regains, Drains, Turns
<1>2. /\ keeper' \in Activity /\ link' \in Links /\ left' \in 0 .. Grace
      /\ keeper' = "draining" => cancelled /\ left' = Grace
  BY DEF KeeperMoves, Loses, Attempts, GivesUp, Regains, Drains, Turns, Activity, Links,
         ForwardTypeOK
<1>3. ForwardTypeOK'
  BY <1>1, <1>2 DEF ForwardTypeOK, Links
<1>4. TimeSinceToken' /\ RedirectionsInTime'
  BY <1>1 DEF TimeSinceToken, RedirectionsInTime, InTime, Doing
<1>5. KeeperInTime'
  BY <1>1, <1>2 DEF KeeperInTime, ForwardTypeOK
<1>6. CarriedByATask'
  BY <1>1 DEF CarriedByATask, Carried, Carrying
<1> QED
  BY <1>3, <1>4, <1>5, <1>6, BoundFollows

LEMMA LinkLostKeeps ==
    ASSUME ForwardInv, LinkLost
    PROVE  ForwardInv'
<1> USE DEF ForwardInv
<1>1. /\ local' \in [Programs -> Local]
      /\ \A p \in Programs : local'[p].at = local[p].at /\ (Carried(p)' => Carried(p))
  <2>1. local' \in [Programs -> Local]
    BY DEF LinkLost, ForwardTypeOK, Local, Stage
  <2>2. ASSUME NEW p \in Programs
        PROVE  local'[p].at = local[p].at /\ (Carried(p)' => Carried(p))
    BY DEF LinkLost, ForwardTypeOK, Local, Carried, Relayed
  <2> QED
    BY <2>1, <2>2
<1>2. ForwardTypeOK'
  BY <1>1 DEF LinkLost, ForwardTypeOK, keeperVars
<1>3. TimeSinceToken' /\ RedirectionsInTime' /\ KeeperInTime'
  BY ClocksFrame DEF LinkLost, keeperVars, Clocks
<1>4. CarriedByATask'
  BY <1>1 DEF LinkLost, CarriedByATask, Carrying
<1> QED
  BY <1>2, <1>3, <1>4, BoundFollows

(* A tick: no timer is due, so each has one tick to give, and a token that *)
(* is cancelled finds no redirection at its accept.                        *)
LEMMA TickKeeps ==
    ASSUME ForwardInv, Tick
    PROVE  ForwardInv'
<1> USE DEF ForwardInv
<1>1. /\ since \in 0 .. Horizon /\ left \in 0 .. Grace /\ cancelled \in BOOLEAN
      /\ listener \in [Listeners -> Task]
      /\ UNCHANGED <<keeper, cancelled, mode, starting, local, link>>
  BY DEF ForwardTypeOK, Tick, keeperVars
<1>2. /\ since' \in 0 .. Horizon /\ since' <= since + 1
      /\ ~cancelled => since' = since
      /\ since' = since + 1 \/ since' = Horizon \/ ~cancelled
  <2>1. Horizon \in Nat
    BY DEF Horizon
  <2>2. since' = IF cancelled /\ since < Horizon THEN since + 1 ELSE since
    BY DEF Tick
  <2> QED
    BY <1>1, <2>1, <2>2
<1>3. left' \in 0 .. Grace /\ left' = IF left = 0 THEN 0 ELSE left - 1
  BY <1>1 DEF Tick, Less
<1>4. /\ listener' \in [Listeners -> Task]
      /\ \A l \in Listeners :
            /\ listener'[l].pc = listener[l].pc
            /\ listener'[l].left = IF listener[l].left = 0 THEN 0 ELSE listener[l].left - 1
  BY <1>1 DEF Tick, Less, Task
<1>5. ForwardTypeOK'
  BY <1>1, <1>2, <1>3, <1>4 DEF ForwardTypeOK
<1>6. TimeSinceToken'
  BY <1>1, <1>2 DEF TimeSinceToken, Tick, Due
<1>7. RedirectionsInTime'
  <2> SUFFICES ASSUME NEW l \in Listeners PROVE InTime(l)'
    BY DEF RedirectionsInTime
  <2>1. InTime(l) /\ listener[l].left \in Nat
    BY <1>1 DEF RedirectionsInTime, Task
  <2>2. Doing(l, "accepting") => ~cancelled
    BY DEF Tick, Due
  <2>3. listener[l].pc \in Timed => listener[l].left # 0
    BY DEF Tick, Due
  <2>4. Doing(l, "accepting")' => since' <= Pause
    BY <1>1, <1>2, <1>4, <2>1, <2>2 DEF InTime, Doing
  <2>5. Doing(l, "pausing")' => since' + listener'[l].left <= Pause
    BY <1>1, <1>2, <1>4, <2>1, <2>3 DEF InTime, Doing, Timed
  <2>6. Doing(l, "draining")'
          => cancelled' /\ since' + listener'[l].left \in Grace .. Pause + Grace
    <3> SUFFICES ASSUME Doing(l, "draining")
                 PROVE  cancelled /\ since' + listener'[l].left \in Grace .. Pause + Grace
      BY <1>1, <1>4 DEF Doing
    <3>1. since' = since + 1
      BY <1>1, <1>2, <2>1 DEF InTime, Horizon, Tick
    <3>2. listener'[l].left = listener[l].left - 1
      BY <1>4, <2>3 DEF Doing, Timed
    <3> QED
      BY <1>1, <2>1, <3>1, <3>2 DEF InTime
  <2> QED
    BY <2>4, <2>5, <2>6 DEF InTime
<1>8. KeeperInTime'
  BY <1>1, <1>2, <1>3 DEF KeeperInTime, Tick, Due, Horizon
<1>9. CarriedByATask'
  BY <1>1, <1>4 DEF CarriedByATask, Carried, Carrying, ForwardTypeOK, Local
<1> QED
  BY <1>5, <1>6, <1>7, <1>8, <1>9, BoundFollows

-----------------------------------------------------------------------------
LEMMA InitForwardInv ==
    ASSUME ForwardInit
    PROVE  ForwardInv
<1>1. since = 0 /\ left = 0 /\ keeper = "serving" /\ cancelled = FALSE
  BY DEF ForwardInit, KeeperInit
<1>2. /\ listener \in [Listeners -> Task]
      /\ \A l \in Listeners : listener[l].pc \in {"unbound", "accepting"}
  BY DEF ForwardInit, Task
<1>3. /\ local \in [Programs -> Local]
      /\ \A p \in Programs : local[p].stage = "absent"
  <2>1. local \in [Programs -> [at : Listeners, stage : {"absent"}]]
    BY DEF ForwardInit
  <2> QED
    BY <2>1 DEF Local, Stage
<1>4. ForwardTypeOK
  <2>1. /\ mode \in {"session", "single"} /\ link \in {"down", "bare", "session"}
        /\ starting = TRUE \/ starting = FALSE
    BY DEF ForwardInit
  <2>2. since \in 0 .. Horizon /\ left \in 0 .. Grace
    BY <1>1 DEF Horizon
  <2> QED
    BY <1>1, <1>2, <1>3, <2>1, <2>2 DEF ForwardTypeOK, Activity
<1>5. TimeSinceToken /\ RedirectionsInTime /\ KeeperInTime /\ DrainBounded
  BY <1>1, <1>2 DEF TimeSinceToken, RedirectionsInTime, InTime, Doing, KeeperInTime,
     DrainBounded
<1>6. CarriedByATask
  BY <1>3 DEF CarriedByATask, Carried, Relayed
<1> QED
  BY <1>4, <1>5, <1>6 DEF ForwardInv

LEMMA NextForwardInv ==
    ASSUME ForwardInv, [ForwardNext]_vars
    PROVE  ForwardInv'
<1>1. CASE Redirection
  BY <1>1, BindsKeeps, AcceptFailsKeeps, PauseEndsKeeps, TokenSeenKeeps, ReturnsKeeps,
     LocalSteps DEF Redirection
<1>2. CASE BindFails \/ ProcessEnds
  BY <1>2, EndKeeps DEF BindFails, ProcessEnds, Stops, Turns
<1>3. CASE SessionBegins \/ SingleEnds \/ LinkBack \/ Signal \/ UNCHANGED vars
  BY <1>3, QuietSteps
<1>4. CASE KeeperMoves \/ LinkLost \/ Tick
  BY <1>4, KeeperMovesKeeps, LinkLostKeeps, TickKeeps
<1> QED
  BY <1>1, <1>2, <1>3, <1>4 DEF ForwardNext, Process

(* The timers of the redirections and of the keeper, and the local         *)
(* connections they look after, stay in step with the shutdown token.      *)
THEOREM ForwardInvariant == ForwardSpec => []ForwardInv
<1>1. ForwardInit => ForwardInv
  BY InitForwardInv
<1>2. ForwardInv /\ [ForwardNext]_vars => ForwardInv'
  BY NextForwardInv
<1> QED
  BY <1>1, <1>2, PTL DEF ForwardSpec

(* No relay and no listening socket outlives the token by more than a      *)
(* pause and a grace period (tunnel/mod.rs 398, 456).                      *)
THEOREM DrainIsBounded == ForwardSpec => []DrainBounded
<1>1. ForwardInv => DrainBounded
  BY DEF ForwardInv
<1> QED
  BY <1>1, ForwardInvariant, PTL

(* A started Client cuts no relay before a grace period has passed since   *)
(* the signal: whoever may cut one, a redirection or the end of the        *)
(* process, has let its own timer run out (main.rs 716).                   *)
THEOREM RelaysGetTheirGrace == ForwardSpec => GraceGranted
<1> DEFINE Granted == \A p \in Programs :
                        ~starting /\ local[p].stage \in Relayed /\ local'[p].stage = "cut"
                          => since >= Grace
<1>1. ASSUME ForwardInv, ForwardNext,
             NEW p \in Programs, ~starting, local[p].stage \in Relayed, local'[p].stage = "cut"
      PROVE  since >= Grace
  <2>1. local \in [Programs -> Local] /\ since \in Nat
    BY <1>1 DEF ForwardInv, ForwardTypeOK
  <2>2. local[p].stage # "cut"
    BY <1>1 DEF Relayed
  <2>3. local' # local
    BY <1>1, <2>2
  <2>4. ASSUME NEW q \in Programs, NEW stage \in Stage \ {"cut"}
        PROVE  ~Reaches(q, stage)
    BY <1>1, <2>1, <2>2, <2>4 DEF Reaches, Local
  <2>5. (\E l \in Listeners : Returns(l)) \/ ProcessEnds
    <3>1. ~(\E q \in Programs : \/ Connects(q) \/ Accepted(q) \/ OpenFails(q)
                                \/ Acknowledged(q) \/ RelayEnds(q))
      BY <2>4 DEF Connects, Accepted, OpenFails, Acknowledged, RelayEnds, Stage
    <3>2. ~(\E l \in Listeners : Binds(l) \/ AcceptFails(l) \/ PauseEnds(l) \/ TokenSeen(l))
      BY <2>3 DEF Binds, AcceptFails, PauseEnds, TokenSeen
    <3>3. ~LinkLost
      BY <1>1, <2>1, <2>2 DEF LinkLost, Local
    <3>4. ~(\/ BindFails \/ SessionBegins \/ KeeperMoves \/ SingleEnds \/ LinkBack
            \/ Signal \/ Tick)
      BY <1>1, <2>3 DEF BindFails, SessionBegins, KeeperMoves, SingleEnds, LinkBack, Signal,
         Tick, forwardVars
    <3> QED
      BY <1>1, <3>1, <3>2, <3>3, <3>4 DEF ForwardNext, Redirection, Process
  <2>6. CASE \E l \in Listeners : Returns(l)
    <3>1. PICK l \in Listeners : Returns(l)
      BY <2>6
    <3>2. local[p].at = l
      BY <1>1, <2>1, <2>2, <3>1 DEF Returns, Cut
    <3>3. listener[l].left = 0
      BY <1>1, <3>1, <3>2 DEF Returns, RelaysOf
    <3>4. since + listener[l].left \in Grace .. Pause + Grace
      BY <1>1, <3>1 DEF Returns, ForwardInv, RedirectionsInTime, InTime
    <3> QED
      BY <2>1, <3>3, <3>4
  <2>7. CASE ProcessEnds
    BY <1>1, <2>1, <2>7 DEF ProcessEnds, Stops, Turns, ForwardInv, KeeperInTime
  <2> QED
    BY <2>5, <2>6, <2>7
<1>2. ForwardInv /\ [ForwardNext]_vars => [Granted]_vars
  BY <1>1
<1> QED
  BY <1>2, ForwardInvariant, PTL DEF ForwardSpec, GraceGranted

=============================================================================
