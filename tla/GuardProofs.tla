---------------------------- MODULE GuardProofs ----------------------------
(***************************************************************************)
(* Proofs that the Guard's loop keeps its inductive invariant GuardInv,    *)
(* for any peers, connections, tasks, caps and width of the counters.      *)
(***************************************************************************)
EXTENDS GuardProperties, FiniteSetTheorems, TLAPS

-----------------------------------------------------------------------------
(* Counters that wrap.                                                     *)

LEMMA DivisionAlgorithm ==
    ASSUME NEW m \in Nat \ {0}, NEW a \in Int
    PROVE  a \div m \in Int /\ a % m \in 0..(m - 1) /\ a = m * (a \div m) + (a % m)
OBVIOUS

LEMMA RemainderUnique ==
    ASSUME NEW m \in Nat \ {0}, NEW a \in Int, NEW q \in Int, NEW r \in 0..(m - 1),
           a = m * q + r
    PROVE  a % m = r
<1>1. ASSUME NEW k \in Int, k >= 1 PROVE m * k >= m
  BY <1>1
<1>2. ASSUME NEW k \in Int, k <= -1 PROVE m * k <= -m
  BY <1>2
<1>3. ASSUME NEW u \in Int, NEW t \in 0..(m - 1), m * q + r = m * u + t
      PROVE  r = t
  <2>1. m * (q - u) = t - r /\ q - u \in Int
    BY <1>3
  <2>2. ~(q - u >= 1) /\ ~(q - u <= -1)
    BY <2>1, <1>1, <1>2
  <2> QED
    BY <2>1, <2>2
<1> QED
  BY <1>3, DivisionAlgorithm

(* A sum may be reduced at any time. *)
LEMMA RemainderAdd ==
    ASSUME NEW m \in Nat \ {0}, NEW a \in Int, NEW b \in Int
    PROVE  ((a % m) + b) % m = (a + b) % m
<1> DEFINE q == a \div m
           d == (a % m) + b
<1>1. q \in Int /\ a % m \in 0..(m - 1) /\ a = m * q + (a % m)
  BY DivisionAlgorithm
<1>2. d \in Int
  BY <1>1
<1>3. d \div m \in Int /\ d % m \in 0..(m - 1) /\ d = m * (d \div m) + (d % m)
  <2> HIDE DEF d
  <2> QED
    BY <1>2, DivisionAlgorithm
<1>4. a + b = m * q + d
  BY <1>1
<1>5. a + b = m * (q + (d \div m)) + (d % m)
  <2>1. ASSUME NEW u \in Int, NEW v \in Int, NEW r \in 0..(m - 1),
               d = m * u + r, a + b = m * v + d
        PROVE  a + b = m * (v + u) + r
    <3> HIDE DEF d
    <3> QED
      BY <2>1
  <2> HIDE DEF d, q
  <2> QED
    BY <1>1, <1>3, <1>4, <2>1
<1>6. (a + b) % m = d % m
  <2> DEFINE e == a + b
             w == q + (d \div m)
             r == d % m
  <2>1. e \in Int /\ w \in Int /\ r \in 0..(m - 1) /\ e = m * w + r
    BY <1>1, <1>3, <1>5
  <2> HIDE DEF e, w, r
  <2>2. e % m = r
    BY <2>1, RemainderUnique
  <2> QED
    BY <2>2 DEF e, r
<1> QED
  BY <1>6

LEMMA RemainderTurn ==
    ASSUME NEW m \in Nat \ {0}, NEW a \in Int
    PROVE  (a + m) % m = a % m
<1>1. a \div m \in Int /\ a % m \in 0..(m - 1) /\ a = m * (a \div m) + (a % m)
  BY DivisionAlgorithm
<1>2. ASSUME NEW q \in Int, NEW r \in 0..(m - 1), a = m * q + r
      PROVE  (a + m) % m = r
  <2>1. a + m = m * (q + 1) + r /\ q + 1 \in Int /\ a + m \in Int
    BY <1>2
  <2> QED
    BY <2>1, RemainderUnique
<1> QED
  BY <1>1, <1>2

(* One more, and one less, before and after the reduction. *)
LEMMA RemainderSteps ==
    ASSUME NEW m \in Nat \ {0}, NEW n \in Int
    PROVE  /\ ((n % m) + 1) % m = (n + 1) % m
           /\ ((n % m) + (m - 1)) % m = (n - 1) % m
<1>1. 1 \in Int /\ m - 1 \in Int /\ n - 1 \in Int
  OBVIOUS
<1>2. \A b \in Int : ((n % m) + b) % m = (n + b) % m
  BY RemainderAdd
<1>3. ((n - 1) + m) % m = (n - 1) % m
  BY <1>1, RemainderTurn, Zenon
<1>4. (n - 1) + m = n + (m - 1)
  OBVIOUS
<1> QED
  BY <1>1, <1>2, <1>3, <1>4, Zenon

(* The sum of the counters, when one of them is reduced after a change.    *)
LEMMA RemainderOfSum ==
    ASSUME NEW m \in Nat \ {0}, NEW x \in Int, NEW y \in Int
    PROVE  (x + (y % m)) % m = (x + y) % m
<1>1. y % m \in Int
  BY DivisionAlgorithm
<1>2. (y % m) + x = x + (y % m) /\ y + x = x + y
  BY <1>1
<1> QED
  BY <1>2, RemainderAdd, Zenon

-----------------------------------------------------------------------------
(* The metrics, by what each record_* does to them.                        *)

USE AdmissionAssumption, GuardAssumption, NoneAssumption

(* Two totals that differ by whole turns of the counter still do when the  *)
(* same is added to both.                                                  *)
LEMMA SameTurnBeside ==
    ASSUME NEW x \in Int, NEW y \in Int, NEW u \in Int, x % Modulus = y % Modulus
    PROVE  (x + u) % Modulus = (y + u) % Modulus
<1>1. \A z \in Int : ((z % Modulus) + u) % Modulus = (z + u) % Modulus
  BY RemainderAdd
<1> QED
  BY <1>1, Zenon

Total(m) == m.opened + m.denied + m.active
Metrics == [{"opened", "denied", "active"} -> 0..(Modulus - 1)]

(* record_denied, and the second half of record_finished, count one stream *)
(* more, and leave the gauge alone.                                        *)
LEMMA OutcomeCounted ==
    ASSUME metrics \in Metrics, NEW outcome \in Outcome, RecordOutcome(outcome)
    PROVE  /\ metrics' \in Metrics
           /\ metrics'.active = metrics.active
           /\ Total(metrics') % Modulus = (Total(metrics) + 1) % Modulus
<1> DEFINE other == IF outcome = "opened" THEN "denied" ELSE "opened"
           x == metrics[other]
           y == metrics[outcome]
           a == metrics.active
<1>1. x \in Nat /\ y \in Nat /\ a \in Nat
  BY DEF Metrics, Outcome
<1>2. (y + 1) % Modulus \in 0..(Modulus - 1)
  <2> y + 1 \in Int
    BY <1>1
  <2> HIDE DEF y
  <2> QED
    BY DivisionAlgorithm, Zenon
<1>3. /\ metrics' \in Metrics
      /\ metrics'[other] = x /\ metrics'[outcome] = (y + 1) % Modulus /\ metrics'.active = a
  BY <1>2 DEF RecordOutcome, Add, Metrics, Outcome
<1>4. ((x + a) + ((y + 1) % Modulus)) % Modulus = ((x + a) + (y + 1)) % Modulus
  <2> x + a \in Int /\ y + 1 \in Int
    BY <1>1
  <2> HIDE DEF x, y, a
  <2> QED
    BY RemainderOfSum, Zenon
<1>5. ASSUME NEW m \in Metrics
      PROVE  Total(m) = (m[other] + m.active) + m[outcome]
  BY <1>5 DEF Total, Metrics, Outcome
<1>6. /\ Total(metrics') = (x + a) + ((y + 1) % Modulus)
      /\ Total(metrics) = (x + a) + y
      /\ ((x + a) + y) + 1 = (x + a) + (y + 1)
  <2>1. Total(metrics') = (x + a) + ((y + 1) % Modulus) /\ Total(metrics) = (x + a) + y
    BY <1>3, <1>5
  <2> HIDE DEF other, x, y, a
  <2> QED
    BY <1>1, <2>1
<1> QED
  BY <1>3, <1>4, <1>6, Zenon

(* record_started counts one stream more, active; the first half of        *)
(* record_finished takes one off the gauge.                                *)
LEMMA GaugeMoved ==
    ASSUME metrics \in Metrics, NEW delta \in Nat,
           metrics' = [metrics EXCEPT !.active = Add("active", delta)]
    PROVE  /\ metrics' \in Metrics
           /\ metrics'.active = (metrics.active + delta) % Modulus
           /\ Total(metrics') % Modulus = (Total(metrics) + delta) % Modulus
<1> DEFINE o == metrics.opened
           d == metrics.denied
           a == metrics.active
<1>1. o \in Nat /\ d \in Nat /\ a \in Nat
  BY DEF Metrics
<1>2. (a + delta) % Modulus \in 0..(Modulus - 1)
  <2> a + delta \in Int
    BY <1>1
  <2> HIDE DEF a
  <2> QED
    BY DivisionAlgorithm, Zenon
<1>3. /\ metrics' \in Metrics
      /\ metrics'.opened = o /\ metrics'.denied = d /\ metrics'.active = (a + delta) % Modulus
  BY <1>2 DEF Add, Metrics
<1>4. ((o + d) + ((a + delta) % Modulus)) % Modulus = ((o + d) + (a + delta)) % Modulus
  <2> o + d \in Int /\ a + delta \in Int
    BY <1>1
  <2> HIDE DEF o, d, a
  <2> QED
    BY RemainderOfSum, Zenon
<1>5. /\ Total(metrics') = (o + d) + ((a + delta) % Modulus)
      /\ Total(metrics) + delta = (o + d) + (a + delta)
  BY <1>1, <1>2, <1>3 DEF Total
<1> QED
  BY <1>3, <1>4, <1>5, Zenon

(* The balance, as a total taken with the tasks whose outcome is still to  *)
(* be counted.                                                             *)
LEMMA BalanceIs ==
    ASSUME metrics \in Metrics, IsFiniteSet(UncountedTasks)
    PROVE  /\ Total(metrics) \in Int /\ Cardinality(UncountedTasks) \in Int
           /\ MetricsBalanced <=>
                /\ (Total(metrics) + Cardinality(UncountedTasks)) % Modulus = handled
                /\ metrics.active = Cardinality(ServingTasks) % Modulus
<1>1. Cardinality(UncountedTasks) \in Int /\ Total(metrics) \in Int
  BY FS_CardinalityType DEF Total, Metrics
<1> QED
  BY <1>1 DEF MetricsBalanced, Total

(* One stream more on either side of the balance. *)
LEMMA OneMoreBeside ==
    ASSUME NEW x \in Int, NEW y \in Int, NEW u \in Int,
           y % Modulus = (x + 1) % Modulus, (x + u) % Modulus = handled,
           handled' = (handled + 1) % Modulus
    PROVE  (y + u) % Modulus = handled'
<1>1. (y + u) % Modulus = ((x + 1) + u) % Modulus
  <2> x + 1 \in Int
    OBVIOUS
  <2> QED
    BY SameTurnBeside, Zenon
<1>2. (x + 1) + u = (x + u) + 1 /\ x + u \in Int /\ 1 \in Int
  OBVIOUS
<1>3. (((x + u) % Modulus) + 1) % Modulus = ((x + u) + 1) % Modulus
  BY <1>2, RemainderAdd, Zenon
<1> QED
  BY <1>1, <1>2, <1>3, Zenon

LEMMA DeniedKeepsBalance ==
    ASSUME metrics \in Metrics, MetricsBalanced, RecordDenied,
           handled' = (handled + 1) % Modulus, IsFiniteSet(UncountedTasks),
           ServingTasks' = ServingTasks, UncountedTasks' = UncountedTasks
    PROVE  metrics' \in Metrics /\ MetricsBalanced'
<1>0. /\ metrics' \in Metrics /\ metrics'.active = metrics.active
      /\ Total(metrics') % Modulus = (Total(metrics) + 1) % Modulus
  BY OutcomeCounted DEF RecordDenied, RecordOutcome, Outcome
<1> DEFINE u == Cardinality(UncountedTasks)
           x == Total(metrics)
           y == Total(metrics)'
<1>1. /\ x \in Int /\ y \in Int /\ u \in Int /\ (x + u) % Modulus = handled
      /\ y % Modulus = (x + 1) % Modulus
  BY <1>0, BalanceIs DEF Total, Metrics
<1>2. (y + u) % Modulus = handled'
  <2> HIDE DEF x, y, u
  <2> QED
    BY <1>1, OneMoreBeside
<1>3. Cardinality(UncountedTasks)' = u /\ Cardinality(ServingTasks)' = Cardinality(ServingTasks)
  OBVIOUS
<1>4. metrics'.active = Cardinality(ServingTasks)' % Modulus
  BY <1>0, <1>3, Zenon DEF MetricsBalanced
<1> QED
  BY <1>0, <1>2, <1>3, <1>4, Zenon DEF MetricsBalanced, Total

LEMMA StartedKeepsBalance ==
    ASSUME metrics \in Metrics, MetricsBalanced, RecordStarted,
           handled' = (handled + 1) % Modulus, IsFiniteSet(UncountedTasks),
           IsFiniteSet(ServingTasks), NEW s, s \notin ServingTasks,
           ServingTasks' = ServingTasks \cup {s}, UncountedTasks' = UncountedTasks
    PROVE  metrics' \in Metrics /\ MetricsBalanced'
<1>0. /\ metrics' \in Metrics /\ metrics'.active = (metrics.active + 1) % Modulus
      /\ Total(metrics') % Modulus = (Total(metrics) + 1) % Modulus
  BY GaugeMoved DEF RecordStarted
<1> DEFINE n == Cardinality(ServingTasks)
           u == Cardinality(UncountedTasks)
           x == Total(metrics)
           y == Total(metrics)'
<1>1. n \in Int /\ Cardinality(ServingTasks') = n + 1
  <2>1. n \in Nat
    BY FS_CardinalityType
  <2>2. Cardinality(ServingTasks \cup {s}) = n + 1
    BY FS_AddElement, Zenon
  <2> QED
    BY <2>1, <2>2
<1>2. ((n % Modulus) + 1) % Modulus = (n + 1) % Modulus
  <2> HIDE DEF n
  <2> QED
    BY <1>1, RemainderSteps, Zenon
<1>3. metrics.active = n % Modulus
  BY DEF MetricsBalanced
<1>4. metrics'.active = Cardinality(ServingTasks)' % Modulus
  <2> HIDE DEF n
  <2> QED
    BY <1>0, <1>1, <1>2, <1>3, Zenon
<1>5. /\ x \in Int /\ y \in Int /\ u \in Int /\ (x + u) % Modulus = handled
      /\ y % Modulus = (x + 1) % Modulus
  BY <1>0, BalanceIs DEF Total, Metrics
<1>6. (y + u) % Modulus = handled'
  <2> HIDE DEF x, y, u
  <2> QED
    BY <1>5, OneMoreBeside
<1>7. Cardinality(UncountedTasks)' = u
  OBVIOUS
<1> QED
  BY <1>0, <1>4, <1>6, <1>7, Zenon DEF MetricsBalanced, Total

(* The gauge goes down; the task is now one of those still to be counted.  *)
LEMMA LeftKeepsBalance ==
    ASSUME metrics \in Metrics, MetricsBalanced, RecordLeft, handled' = handled,
           IsFiniteSet(ServingTasks), IsFiniteSet(UncountedTasks),
           NEW s \in ServingTasks, s \notin UncountedTasks,
           ServingTasks' = ServingTasks \ {s}, UncountedTasks' = UncountedTasks \cup {s}
    PROVE  metrics' \in Metrics /\ MetricsBalanced'
<1>0. /\ metrics' \in Metrics /\ metrics'.active = (metrics.active + (Modulus - 1)) % Modulus
      /\ Total(metrics') % Modulus = (Total(metrics) + (Modulus - 1)) % Modulus
  BY GaugeMoved DEF RecordLeft
<1> DEFINE n == Cardinality(ServingTasks)
           u == Cardinality(UncountedTasks)
           x == Total(metrics)
           y == Total(metrics)'
<1>1. n \in Int /\ Cardinality(ServingTasks') = n - 1
  <2>1. n \in Nat
    BY FS_CardinalityType
  <2>2. Cardinality(ServingTasks \ {s}) = n - 1
    BY FS_RemoveElement, Zenon
  <2> QED
    BY <2>1, <2>2
<1>2. ((n % Modulus) + (Modulus - 1)) % Modulus = (n - 1) % Modulus
  <2> HIDE DEF n
  <2> QED
    BY <1>1, RemainderSteps, Zenon
<1>3. metrics.active = n % Modulus
  BY DEF MetricsBalanced
<1>4. metrics'.active = Cardinality(ServingTasks)' % Modulus
  <2> HIDE DEF n
  <2> QED
    BY <1>0, <1>1, <1>2, <1>3, Zenon
<1>5. /\ x \in Int /\ y \in Int /\ u \in Int /\ (x + u) % Modulus = handled
      /\ y % Modulus = (x + (Modulus - 1)) % Modulus
  BY <1>0, BalanceIs DEF Total, Metrics
<1>6. (y + (u + 1)) % Modulus = handled'
  <2> HIDE DEF x, y, u
  <2>1. /\ x + (Modulus - 1) \in Int /\ u + 1 \in Int /\ x + u \in Int
        /\ (x + (Modulus - 1)) + (u + 1) = (x + u) + Modulus
    BY <1>5
  <2>2. (y + (u + 1)) % Modulus = ((x + (Modulus - 1)) + (u + 1)) % Modulus
    BY <1>5, <2>1, SameTurnBeside, Zenon
  <2>3. ((x + u) + Modulus) % Modulus = (x + u) % Modulus
    BY <2>1, RemainderTurn, Zenon
  <2> QED
    BY <1>5, <2>1, <2>2, <2>3, Zenon
<1>7. Cardinality(UncountedTasks)' = u + 1
  BY FS_AddElement
<1> QED
  BY <1>0, <1>4, <1>6, <1>7, Zenon DEF MetricsBalanced, Total

(* The outcome is counted; the task is no longer one of those to be.       *)
LEMMA OutcomeKeepsBalance ==
    ASSUME metrics \in Metrics, MetricsBalanced, NEW outcome \in Outcome,
           RecordOutcome(outcome), handled' = handled,
           IsFiniteSet(UncountedTasks), NEW s \in UncountedTasks,
           ServingTasks' = ServingTasks, UncountedTasks' = UncountedTasks \ {s}
    PROVE  metrics' \in Metrics /\ MetricsBalanced'
<1>0. /\ metrics' \in Metrics /\ metrics'.active = metrics.active
      /\ Total(metrics') % Modulus = (Total(metrics) + 1) % Modulus
  BY OutcomeCounted
<1> DEFINE u == Cardinality(UncountedTasks)
           x == Total(metrics)
           y == Total(metrics)'
<1>1. /\ x \in Int /\ y \in Int /\ u \in Int /\ (x + u) % Modulus = handled
      /\ y % Modulus = (x + 1) % Modulus
  BY <1>0, BalanceIs DEF Total, Metrics
<1>2. (y + (u - 1)) % Modulus = handled'
  <2> HIDE DEF x, y, u
  <2>1. x + 1 \in Int /\ u - 1 \in Int /\ (x + 1) + (u - 1) = x + u
    BY <1>1
  <2>2. (y + (u - 1)) % Modulus = ((x + 1) + (u - 1)) % Modulus
    BY <1>1, <2>1, SameTurnBeside, Zenon
  <2> QED
    BY <1>1, <2>1, <2>2, Zenon
<1>3. Cardinality(UncountedTasks)' = u - 1
  BY FS_RemoveElement, Zenon
<1>4. metrics'.active = Cardinality(ServingTasks)' % Modulus
  <2> Cardinality(ServingTasks)' = Cardinality(ServingTasks)
    OBVIOUS
  <2> QED
    BY <1>0, Zenon DEF MetricsBalanced
<1> QED
  BY <1>0, <1>2, <1>3, <1>4, Zenon DEF MetricsBalanced, Total

-----------------------------------------------------------------------------
(* Connections.                                                            *)

Connections == [Conn -> {None} \cup Connection]

(* Asking peers to disconnect takes no connection away, and leaves none of *)
(* theirs open.                                                            *)
LEMMA DisconnectedConnections ==
    ASSUME conn \in Connections, NEW S
    PROVE  /\ Disconnected(S) \in Connections
           /\ \A c \in Conn : Disconnected(S)[c] = None <=> conn[c] = None
           /\ \A c \in Conn : conn[c] # None =>
                 /\ Disconnected(S)[c].peer = conn[c].peer
                 /\ ~Disconnected(S)[c].closing <=> ~conn[c].closing /\ conn[c].peer \notin S
<1>1. \A c \in Conn : conn[c] # None => [conn[c] EXCEPT !.closing = TRUE] \in Connection
  BY DEF Connections, Connection
<1>2. ASSUME NEW c \in Conn, conn[c] # None, conn[c].peer \in S
      PROVE  Disconnected(S)[c] = [peer |-> conn[c].peer, closing |-> TRUE]
  BY <1>2 DEF Disconnected, Connections, Connection
<1>3. ASSUME NEW c \in Conn, conn[c] = None \/ conn[c].peer \notin S
      PROVE  Disconnected(S)[c] = conn[c]
  BY <1>3 DEF Disconnected
<1>4. Disconnected(S) \in Connections
  BY <1>1 DEF Disconnected, Connections
<1> QED
  BY <1>1, <1>2, <1>3, <1>4 DEF Connections, Connection

(* What the guard's other tables rest on: connections only ever close.     *)
LEMMA ConnectionsFrame ==
    ASSUME conn \in Connections, NEW S, conn' = Disconnected(S)
    PROVE  \A p \in Peer : ConnectionsOf(p)' = ConnectionsOf(p)
BY DisconnectedConnections DEF ConnectionsOf

-----------------------------------------------------------------------------
(* Tasks.                                                                  *)

TaskTable == [Slot -> {None} \cup Task]

(* A task that moves to another stage keeps everything else. *)
LEMMA MovedTask ==
    ASSUME task \in TaskTable, NEW s \in Slot, task[s] # None,
           NEW stage \in Stage, MoveTo(s, stage)
    PROVE  /\ task' \in TaskTable
           /\ Tasks' = Tasks
           /\ \A r \in Tasks : /\ task'[r].peer = task[r].peer
                               /\ task'[r].conn = task[r].conn
                               /\ task'[r].current = task[r].current
           /\ \A r \in Tasks : r # s => task'[r].stage = task[r].stage
           /\ task'[s].stage = stage
<1>1. task[s] \in Task /\ task' = [task EXCEPT ![s] = [task[s] EXCEPT !.stage = stage]]
  BY DEF TaskTable, MoveTo
<1>2. /\ [task[s] EXCEPT !.stage = stage] \in Task
      /\ [task[s] EXCEPT !.stage = stage].peer = task[s].peer
      /\ [task[s] EXCEPT !.stage = stage].conn = task[s].conn
      /\ [task[s] EXCEPT !.stage = stage].current = task[s].current
      /\ [task[s] EXCEPT !.stage = stage].stage = stage
  BY <1>1 DEF Task
<1>3. task' \in TaskTable
  BY <1>1, <1>2 DEF TaskTable
<1>4. \A r \in Slot : r # s => task'[r] = task[r]
  BY <1>1 DEF TaskTable
<1>5. task'[s] = [task[s] EXCEPT !.stage = stage] /\ task'[s] # None
  BY <1>1, <1>2 DEF TaskTable
<1>6. Tasks' = Tasks
  BY <1>4, <1>5 DEF Tasks
<1> QED
  BY <1>2, <1>3, <1>4, <1>5, <1>6 DEF Tasks

(* A move of one task leaves sessions, connections and ownership alone. *)
LEMMA MovedFrame ==
    ASSUME GuardInv, NEW s \in Slot, task[s] # None, NEW stage \in Stage, MoveTo(s, stage),
           UNCHANGED <<admissionVars, swarmVars>>,
           \A p \in Peer : perPeer[p] # None => perPeer'[p] # None
    PROVE  /\ InSessionListed' /\ SessionsConnected' /\ StreamsOfTheirPeer'
           /\ LiveTunnelsHaveSession' /\ OpenTasksCounted' /\ IsFiniteSet(Tasks)'
<1> USE DEF GuardInv
<1>0. task \in TaskTable
  BY DEF GuardTypeOK, TaskTable
<1>1. /\ Tasks' = Tasks
      /\ \A r \in Tasks : /\ task'[r].peer = task[r].peer
                          /\ task'[r].conn = task[r].conn
                          /\ task'[r].current = task[r].current
  BY <1>0, MovedTask
<1>2. \A r \in Tasks : task[r].peer \in Peer
  BY DEF GuardTypeOK, Tasks, Task
<1>3. InSessionListed' /\ SessionsConnected'
  BY DEF admissionVars, swarmVars, InSessionListed, Listed, SessionsConnected, ConnectionsOf
<1>4. StreamsOfTheirPeer'
  BY <1>1 DEF swarmVars, StreamsOfTheirPeer
<1>5. \A r \in Tasks : OnOpenConnection(r)' <=> OnOpenConnection(r)
  BY <1>1 DEF swarmVars, OnOpenConnection
<1>6. LiveTunnelsHaveSession'
  BY <1>1, <1>5 DEF admissionVars, LiveTunnelsHaveSession, SessionRoles
<1>7. OpenTasksCounted'
  BY <1>1, <1>2, <1>5 DEF OpenTasksCounted
<1>8. IsFiniteSet(Tasks)'
  BY <1>1
<1> QED
  BY <1>3, <1>4, <1>6, <1>7, <1>8

(* The sets behind the properties are finite: the tasks are. *)
LEMMA FiniteTasks ==
    ASSUME IsFiniteSet(Tasks)
    PROVE  /\ IsFiniteSet(ServingTasks) /\ ServingTasks \subseteq Tasks
           /\ IsFiniteSet(UncountedTasks)
           /\ \A p \in Peer : IsFiniteSet(PermitHolders(p)) /\ PermitHolders(p) \subseteq Tasks
<1>1. ServingTasks \in SUBSET Tasks /\ UncountedTasks \in SUBSET Tasks
  BY DEF ServingTasks, UncountedTasks
<1>2. \A p \in Peer : PermitHolders(p) \in SUBSET Tasks
  BY DEF PermitHolders
<1> QED
  BY <1>1, <1>2, FS_Subset

(* serve_stream goes on to its next stage. *)
LEMMA AdvanceKeeps ==
    ASSUME GuardInv, NEW s \in Slot, task[s] # None, NEW stage \in Stage,
           \/ AtStage(s, "header") /\ stage = "connect"
           \/ AtStage(s, "connect") /\ stage = "relay",
           MoveTo(s, stage),
           UNCHANGED <<admissionVars, swarmVars, perPeer, global, metrics, handled, phaseVars>>
    PROVE  GuardInv'
<1>0. GuardTypeOK /\ task \in TaskTable /\ GuardInv
  BY DEF GuardInv, GuardTypeOK, TaskTable
<1>1. /\ Tasks' = Tasks /\ task' \in TaskTable
      /\ \A r \in Tasks : task'[r].peer = task[r].peer /\ task'[r].current = task[r].current
      /\ \A r \in Tasks : r # s => task'[r].stage = task[r].stage
      /\ task'[s].stage = stage
  BY <1>0, MovedTask
<1>2. ServingTasks' = ServingTasks /\ UncountedTasks' = UncountedTasks
  BY <1>1 DEF ServingTasks, UncountedTasks, Outcome, Serving, AtStage
<1>3. \A p \in Peer : PermitHolders(p)' = PermitHolders(p)
  BY <1>1 DEF PermitHolders, HoldsPeerPermit, AtStage
<1>4. GuardTypeOK'
  BY <1>0, <1>1 DEF GuardTypeOK, TaskTable, admissionVars, swarmVars, phaseVars
<1>5. PermitsAccounted'
  BY <1>0, <1>1, <1>3 DEF GuardInv, PermitsAccounted
<1>6. MetricsBalanced'
  BY <1>0, <1>2 DEF GuardInv, MetricsBalanced
<1>7. DrainedIsIdle'
  BY <1>0, <1>1 DEF GuardInv, DrainedIsIdle, phaseVars
<1> QED
  BY <1>0, <1>4, <1>5, <1>6, <1>7, MovedFrame DEF GuardInv

(* A step of record_finished moves one task, which keeps its permits.      *)
LEMMA CountedKeeps ==
    ASSUME GuardInv, NEW s \in Slot, task[s] # None, Running, NEW stage \in Stage,
           MoveTo(s, stage), Tasks' = Tasks, task' \in TaskTable,
           \A p \in Peer : PermitHolders(p)' = PermitHolders(p),
           metrics' \in Metrics, MetricsBalanced',
           UNCHANGED <<admissionVars, swarmVars, perPeer, global, handled, phaseVars>>
    PROVE  GuardInv'
<1>0. GuardTypeOK
  BY DEF GuardInv
<1>1. GuardTypeOK'
  BY <1>0 DEF Metrics, GuardTypeOK, TaskTable, admissionVars, swarmVars, phaseVars
<1>2. PermitsAccounted'
  BY DEF GuardInv, PermitsAccounted
<1>3. DrainedIsIdle'
  BY DEF DrainedIsIdle, phaseVars, Running
<1>4. /\ InSessionListed' /\ SessionsConnected' /\ StreamsOfTheirPeer'
      /\ LiveTunnelsHaveSession' /\ OpenTasksCounted' /\ IsFiniteSet(Tasks)'
  BY MovedFrame
<1> QED
  BY <1>1, <1>2, <1>3, <1>4 DEF GuardInv

(* serve_stream returns: the task no longer serves, and leaves the gauge.  *)
LEMMA FinishKeeps ==
    ASSUME GuardInv, NEW s \in Slot, task[s] # None, Running, Serving(s),
           NEW outcome \in Outcome, Finish(s, outcome)
    PROVE  GuardInv'
<1>0. GuardTypeOK /\ task \in TaskTable /\ metrics \in Metrics /\ GuardInv /\ IsFiniteSet(Tasks)
  BY DEF GuardInv, GuardTypeOK, TaskTable, Metrics
<1>1. outcome \in Stage /\ MoveTo(s, outcome)
  BY DEF Stage, Finish
<1>2. /\ Tasks' = Tasks /\ task' \in TaskTable
      /\ \A r \in Tasks : task'[r].peer = task[r].peer /\ task'[r].current = task[r].current
      /\ \A r \in Tasks : r # s => task'[r].stage = task[r].stage
      /\ task'[s].stage = outcome
  BY <1>0, <1>1, MovedTask
<1>3. /\ ServingTasks' = ServingTasks \ {s} /\ s \in ServingTasks
      /\ UncountedTasks' = UncountedTasks \cup {s} /\ s \notin UncountedTasks
  BY <1>2 DEF ServingTasks, UncountedTasks, Outcome, Serving, Tasks
<1>4. \A p \in Peer : PermitHolders(p)' = PermitHolders(p)
  BY <1>2 DEF PermitHolders, HoldsPeerPermit, Serving, Outcome
<1>5. metrics' \in Metrics /\ MetricsBalanced'
  BY <1>0, <1>3, FiniteTasks, LeftKeepsBalance DEF Finish, GuardInv
<1> QED
  BY <1>0, <1>1, <1>2, <1>4, <1>5, CountedKeeps DEF Finish

(* The outcome is counted: the task has its permits still to give back.    *)
LEMMA CountOutcomeKeeps ==
    ASSUME GuardInv, NEW s \in Slot, CountOutcome(s)
    PROVE  GuardInv'
<1>0. GuardTypeOK /\ task \in TaskTable /\ metrics \in Metrics /\ GuardInv /\ IsFiniteSet(Tasks)
  BY DEF GuardInv, GuardTypeOK, TaskTable, Metrics
<1> DEFINE stage == "recorded"
<1> PICK outcome \in Outcome :
        /\ AtStage(s, outcome) /\ RecordOutcome(outcome) /\ MoveTo(s, stage)
        /\ UNCHANGED <<admissionVars, swarmVars, perPeer, global, handled, phaseVars>>
  BY DEF CountOutcome
<1>1. stage \in Stage /\ Running /\ task[s] # None /\ task[s].stage = outcome
  BY DEF Stage, AtStage
<1>2. /\ Tasks' = Tasks /\ task' \in TaskTable
      /\ \A r \in Tasks : task'[r].peer = task[r].peer /\ task'[r].current = task[r].current
      /\ \A r \in Tasks : r # s => task'[r].stage = task[r].stage
      /\ task'[s].stage = stage
  <2> HIDE DEF stage
  <2> QED
    BY <1>0, <1>1, MovedTask
<1>3. /\ ServingTasks' = ServingTasks
      /\ UncountedTasks' = UncountedTasks \ {s} /\ s \in UncountedTasks
  BY <1>1, <1>2 DEF ServingTasks, UncountedTasks, Outcome, Serving, Tasks
<1>4. \A p \in Peer : PermitHolders(p)' = PermitHolders(p)
  BY <1>1, <1>2 DEF PermitHolders, HoldsPeerPermit, Outcome
<1>5. metrics' \in Metrics /\ MetricsBalanced'
  BY <1>0, <1>3, FiniteTasks, OutcomeKeepsBalance DEF GuardInv
<1> QED
  BY <1>0, <1>1, <1>2, <1>4, <1>5, CountedKeeps

(* The peer's permit goes back to its semaphore if that one is still in    *)
(* the table.                                                              *)
LEMMA ReleasePeerPermitKeeps ==
    ASSUME GuardInv, NEW s \in Slot, ReleasePeerPermit(s)
    PROVE  GuardInv'
<1>0. /\ GuardTypeOK /\ task \in TaskTable /\ IsFiniteSet(Tasks) /\ task[s] # None
      /\ s \in Tasks /\ task[s].peer \in Peer
  BY DEF GuardInv, GuardTypeOK, TaskTable, ReleasePeerPermit, AtStage, Tasks, Task
<1> PICK q \in Peer : q = task[s].peer
  BY <1>0
<1> DEFINE stage == "releasing"
<1>1. stage \in Stage /\ MoveTo(s, stage) /\ task[s].stage = "recorded" /\ Running
  BY DEF Stage, ReleasePeerPermit, AtStage
<1>2. /\ Tasks' = Tasks /\ task' \in TaskTable
      /\ \A r \in Tasks : task'[r].peer = task[r].peer /\ task'[r].current = task[r].current
      /\ \A r \in Tasks : r # s => task'[r].stage = task[r].stage
      /\ task'[s].stage = stage
  <2> HIDE DEF stage
  <2> QED
    BY <1>0, <1>1, MovedTask
<1>3. ServingTasks' = ServingTasks /\ UncountedTasks' = UncountedTasks
  BY <1>1, <1>2 DEF ServingTasks, Serving, UncountedTasks, Outcome
<1>4. \A p \in Peer : p # q \/ ~task[s].current => PermitHolders(p)' = PermitHolders(p)
  BY <1>1, <1>2 DEF PermitHolders, HoldsPeerPermit
<1>5. task[s].current => PermitHolders(q)' = PermitHolders(q) \ {s} /\ s \in PermitHolders(q)
  BY <1>0, <1>1, <1>2 DEF PermitHolders, HoldsPeerPermit
<1>6. \A p \in Peer : p # q \/ ~task[s].current => perPeer'[p] = perPeer[p]
  BY <1>0 DEF ReleasePeerPermit, GuardTypeOK
<1>7. ASSUME task[s].current
      PROVE  /\ perPeer[q] \in 0..PeerCap /\ perPeer'[q] = perPeer[q] + 1
             /\ perPeer[q] + Cardinality(PermitHolders(q)) = PeerCap
             /\ Cardinality(PermitHolders(q)') = Cardinality(PermitHolders(q)) - 1
             /\ Cardinality(PermitHolders(q)) \in Nat
             /\ Cardinality(PermitHolders(q)') \in Nat
  <2>1. perPeer[q] # None
    BY <1>0, <1>7 DEF GuardInv, OpenTasksCounted
  <2>2. perPeer[q] \in 0..PeerCap /\ perPeer'[q] = perPeer[q] + 1
    BY <1>0, <1>7, <2>1 DEF GuardTypeOK, ReleasePeerPermit
  <2>3. perPeer[q] + Cardinality(PermitHolders(q)) = PeerCap
    BY <1>0, <2>1 DEF GuardInv, PermitsAccounted
  <2>4. IsFiniteSet(PermitHolders(q))
    BY <1>0, FiniteTasks
  <2>5. Cardinality(PermitHolders(q) \ {s}) = Cardinality(PermitHolders(q)) - 1
    BY <1>5, <1>7, <2>4, FS_RemoveElement, Zenon
  <2>6. IsFiniteSet(PermitHolders(q) \ {s})
    BY <2>4, FS_RemoveElement
  <2>7. Cardinality(PermitHolders(q)) \in Nat /\ Cardinality(PermitHolders(q) \ {s}) \in Nat
    BY <2>4, <2>6, FS_CardinalityType
  <2> QED
    BY <1>5, <1>7, <2>2, <2>3, <2>5, <2>7
<1>8. perPeer' \in [Peer -> {None} \cup 0..PeerCap]
  <2>1. CASE task[s].current
    <3>1. perPeer[q] + 1 \in 0..PeerCap
      BY <1>0, <1>7, <2>1
    <3> QED
      BY <1>0, <2>1, <3>1 DEF GuardTypeOK, ReleasePeerPermit
  <2>2. CASE ~task[s].current
    BY <1>0, <2>2 DEF GuardTypeOK, ReleasePeerPermit
  <2> QED
    BY <2>1, <2>2
<1>9. GuardTypeOK'
  BY <1>0, <1>2, <1>8
  DEF ReleasePeerPermit, GuardTypeOK, TaskTable, admissionVars, swarmVars, phaseVars
<1>10. PermitsAccounted'
  <2>1. global' + Cardinality(Tasks') = TotalCap
    BY <1>2 DEF GuardInv, PermitsAccounted, ReleasePeerPermit
  <2>2. ASSUME NEW p \in Peer, perPeer'[p] # None
        PROVE  perPeer'[p] + Cardinality(PermitHolders(p)') = PeerCap
    <3>1. CASE p # q \/ ~task[s].current
      BY <1>4, <1>6, <2>2, <3>1 DEF GuardInv, PermitsAccounted
    <3>2. CASE p = q /\ task[s].current
      BY <1>7, <3>2
    <3> QED
      BY <3>1, <3>2
  <2> QED
    BY <2>1, <2>2 DEF PermitsAccounted
<1>11. MetricsBalanced' /\ DrainedIsIdle'
  BY <1>1, <1>2, <1>3
  DEF GuardInv, MetricsBalanced, DrainedIsIdle, ReleasePeerPermit, phaseVars, Running
<1>12. \A p \in Peer : perPeer[p] # None => perPeer'[p] # None
  BY <1>6, <1>7
<1>13. /\ InSessionListed' /\ SessionsConnected' /\ StreamsOfTheirPeer'
       /\ LiveTunnelsHaveSession' /\ OpenTasksCounted' /\ IsFiniteSet(Tasks)'
  BY <1>0, <1>1, <1>12, MovedFrame DEF ReleasePeerPermit
<1> QED
  BY <1>9, <1>10, <1>11, <1>13 DEF GuardInv

(* The task ends, and the global permit goes back. *)
LEMMA ReleaseGlobalPermitKeeps ==
    ASSUME GuardInv, NEW s \in Slot, ReleaseGlobalPermit(s)
    PROVE  GuardInv'
<1> USE DEF GuardInv
<1>0. /\ GuardTypeOK /\ IsFiniteSet(Tasks) /\ s \in Tasks /\ task[s].stage = "releasing"
      /\ task' = [task EXCEPT ![s] = None] /\ Running
      /\ UNCHANGED <<admissionVars, swarmVars, perPeer, metrics, handled, phaseVars>>
  BY DEF ReleaseGlobalPermit, AtStage, Tasks
<1>1. /\ Tasks' = Tasks \ {s} /\ task' \in TaskTable
      /\ \A r \in Tasks' : task'[r] = task[r]
  BY <1>0 DEF Tasks, GuardTypeOK, TaskTable
<1>2. ServingTasks' = ServingTasks /\ UncountedTasks' = UncountedTasks
  BY <1>0, <1>1 DEF ServingTasks, Serving, UncountedTasks, Outcome
<1>3. \A p \in Peer : PermitHolders(p)' = PermitHolders(p)
  BY <1>0, <1>1 DEF PermitHolders, HoldsPeerPermit
<1>4. /\ IsFiniteSet(Tasks') /\ Cardinality(Tasks') \in Nat
      /\ Cardinality(Tasks) \in Nat /\ Cardinality(Tasks') = Cardinality(Tasks) - 1
  <2>1. IsFiniteSet(Tasks \ {s}) /\ Cardinality(Tasks \ {s}) = Cardinality(Tasks) - 1
    BY <1>0, FS_RemoveElement, Zenon
  <2> QED
    BY <1>0, <1>1, <2>1, FS_CardinalityType
<1>5. global' \in 0..TotalCap /\ global' + Cardinality(Tasks') = TotalCap
  BY <1>4 DEF GuardTypeOK, PermitsAccounted, ReleaseGlobalPermit
<1>6. GuardTypeOK'
  BY <1>0, <1>1, <1>5 DEF GuardTypeOK, TaskTable, admissionVars, swarmVars, phaseVars
<1>7. PermitsAccounted'
  BY <1>0, <1>3, <1>5 DEF PermitsAccounted
<1>8. MetricsBalanced' /\ DrainedIsIdle'
  BY <1>0, <1>2 DEF MetricsBalanced, DrainedIsIdle, Running, phaseVars
<1>9. InSessionListed' /\ SessionsConnected'
  BY <1>0
  DEF admissionVars, swarmVars, InSessionListed, Listed, SessionsConnected, ConnectionsOf
<1>10. StreamsOfTheirPeer'
  BY <1>0, <1>1 DEF swarmVars, StreamsOfTheirPeer
<1>11. \A r \in Tasks' : OnOpenConnection(r)' <=> OnOpenConnection(r)
  BY <1>0, <1>1 DEF swarmVars, OnOpenConnection
<1>12. LiveTunnelsHaveSession' /\ OpenTasksCounted'
  BY <1>0, <1>1, <1>11
  DEF admissionVars, LiveTunnelsHaveSession, SessionRoles, OpenTasksCounted
<1> QED
  BY <1>4, <1>6, <1>7, <1>8, <1>9, <1>10, <1>12

-----------------------------------------------------------------------------
(* Tunnel streams.                                                         *)

Streams == Seq(Stream)

(* Taking a stream leaves the others in their order. *)
LEMMA TakenStream ==
    ASSUME incoming \in Streams, incoming # <<>>
    PROVE  /\ Tail(incoming) \in Streams /\ Len(Tail(incoming)) = Len(incoming) - 1
           /\ \A i \in DOMAIN Tail(incoming) :
                i + 1 \in DOMAIN incoming /\ Tail(incoming)[i] = incoming[i + 1]
           /\ 1 \in DOMAIN incoming /\ Head(incoming) = incoming[1] /\ incoming[1] \in Stream
BY DEF Streams

(* A stream refused leaves every task and session as it is; at most the    *)
(* peer's connections are asked to close.                                  *)
LEMMA RefusedKeeps ==
    ASSUME GuardInv, TakeStream, RecordDenied, UNCHANGED <<global, task>>,
           \/ UNCHANGED <<conn, perPeer>>
           \/ conn' = Disconnected({NextPeer}) /\ UNCHANGED perPeer
           \/ /\ UNCHANGED conn
              /\ perPeer' = [perPeer EXCEPT ![NextPeer] = PeerPermits(NextPeer)]
    PROVE  GuardInv'
<1> USE DEF GuardInv
<1>0. /\ GuardTypeOK /\ conn \in Connections /\ incoming \in Streams /\ metrics \in Metrics
      /\ Running /\ incoming # <<>> /\ incoming' = Tail(incoming)
      /\ UNCHANGED <<admissionVars, phaseVars, global, task>>
      /\ handled' = (handled + 1) % Modulus
  BY DEF GuardTypeOK, Connections, Streams, Metrics, TakeStream
<1>1. /\ incoming' \in Streams /\ Len(incoming') = Len(incoming) - 1
      /\ \A i \in DOMAIN incoming' : i + 1 \in DOMAIN incoming /\ incoming'[i] = incoming[i + 1]
  BY <1>0, TakenStream
<1>2. NextPeer \in Peer
  BY <1>0, TakenStream DEF NextPeer, Stream
<1>3. /\ conn' \in Connections
      /\ \A c \in Conn : conn'[c] = None <=> conn[c] = None
      /\ \A c \in Conn : conn[c] # None =>
            conn'[c].peer = conn[c].peer /\ (conn[c].closing => conn'[c].closing)
  <2>1. CASE UNCHANGED conn
    BY <1>0, <2>1
  <2>2. CASE conn' = Disconnected({NextPeer})
    BY <1>0, <2>2, DisconnectedConnections
  <2> QED
    BY <2>1, <2>2
<1>4. \A p \in Peer : ConnectionsOf(p)' = ConnectionsOf(p)
  BY <1>3 DEF ConnectionsOf
<1>5. /\ \A p \in Peer : perPeer[p] # None => perPeer'[p] = perPeer[p]
      /\ \A p \in Peer : perPeer[p] = None => perPeer'[p] \in {None, PeerCap}
      /\ perPeer' \in [Peer -> {None} \cup 0..PeerCap]
  <2> PICK q \in Peer : q = NextPeer
    BY <1>2
  <2>0. perPeer \in [Peer -> {None} \cup 0..PeerCap]
    BY <1>0 DEF GuardTypeOK
  <2>1. PeerPermits(q) \in 0..PeerCap
    BY <2>0 DEF PeerPermits
  <2>2. UNCHANGED perPeer \/ perPeer' = [perPeer EXCEPT ![q] = PeerPermits(q)]
    OBVIOUS
  <2> QED
    BY <2>0, <2>1, <2>2 DEF PeerPermits
<1>6. ServingTasks' = ServingTasks /\ UncountedTasks' = UncountedTasks
  BY <1>0 DEF ServingTasks, UncountedTasks, Tasks, Serving
<1>7. metrics' \in Metrics /\ MetricsBalanced'
  BY <1>0, <1>6, FiniteTasks, DeniedKeepsBalance
<1>8. handled' \in 0..(Modulus - 1)
  <2> handled + 1 \in Int
    BY <1>0 DEF GuardTypeOK
  <2> QED
    BY <1>0, DivisionAlgorithm, Zenon
<1>9. GuardTypeOK'
  BY <1>0, <1>1, <1>3, <1>5, <1>7, <1>8
  DEF GuardTypeOK, Connections, Streams, Metrics, admissionVars, phaseVars
<1>10. InSessionListed' /\ SessionsConnected'
  BY <1>0, <1>4 DEF GuardTypeOK, admissionVars, InSessionListed, Listed, SessionsConnected
<1>11. StreamsOfTheirPeer'
  <2>1. \A s \in Tasks : task[s].conn \in {None} \cup Conn
    BY <1>0 DEF GuardTypeOK, Tasks, Task
  <2>2. \A i \in DOMAIN incoming : incoming[i].conn \in {None} \cup Conn
    <3> \A i \in DOMAIN incoming : incoming[i] \in Stream
      BY <1>0 DEF Streams
    <3> QED
      BY DEF Stream
  <2>3. \A i \in DOMAIN incoming' : incoming'[i].conn # None =>
          /\ conn'[incoming'[i].conn] # None
          /\ conn'[incoming'[i].conn].peer = incoming'[i].peer
    BY <1>1, <1>3, <2>2 DEF StreamsOfTheirPeer
  <2>4. \A s \in Tasks : task[s].conn # None =>
          conn'[task[s].conn] # None /\ conn'[task[s].conn].peer = task[s].peer
    BY <1>3, <2>1 DEF StreamsOfTheirPeer
  <2> QED
    BY <1>0, <2>3, <2>4 DEF StreamsOfTheirPeer, Tasks
<1>12. \A s \in Tasks : OnOpenConnection(s)' => OnOpenConnection(s)
  <2>1. \A s \in Tasks : task[s].conn \in {None} \cup Conn
    BY <1>0 DEF GuardTypeOK, Tasks, Task
  <2> QED
    BY <1>0, <1>3, <2>1 DEF OnOpenConnection, StreamsOfTheirPeer
<1>13. LiveTunnelsHaveSession'
  BY <1>0, <1>12 DEF admissionVars, LiveTunnelsHaveSession, SessionRoles, Tasks
<1>14. OpenTasksCounted'
  BY <1>0, <1>5, <1>12 DEF GuardTypeOK, OpenTasksCounted, Tasks, Task
<1>15. PermitsAccounted' /\ IsFiniteSet(Tasks)'
  <2>1. Tasks' = Tasks /\ \A p \in Peer : PermitHolders(p)' = PermitHolders(p)
    BY <1>0 DEF Tasks, PermitHolders, HoldsPeerPermit
  <2>2. ASSUME NEW p \in Peer, perPeer[p] = None
        PROVE  Cardinality(PermitHolders(p)) = 0
    <3> PermitHolders(p) = {}
      BY <2>2 DEF PermitHolders, OpenTasksCounted
    <3> QED
      BY FS_EmptySet
  <2>3. ASSUME NEW p \in Peer, perPeer'[p] # None
        PROVE  perPeer'[p] + Cardinality(PermitHolders(p)') = PeerCap
    BY <1>5, <2>1, <2>2, <2>3 DEF PermitsAccounted
  <2> QED
    BY <1>0, <2>1, <2>3 DEF PermitsAccounted
<1>16. DrainedIsIdle'
  BY <1>0 DEF DrainedIsIdle, phaseVars, Running
<1> QED
  BY <1>7, <1>9, <1>10, <1>11, <1>13, <1>14, <1>15, <1>16

(* A stream taken with a permit of each semaphore starts a task. *)
LEMMA StartTaskKeeps ==
    ASSUME GuardInv, StartTask
    PROVE  GuardInv'
<1> USE DEF GuardInv
<1>0. /\ GuardTypeOK /\ incoming \in Streams /\ metrics \in Metrics /\ task \in TaskTable
      /\ perPeer \in [Peer -> {None} \cup 0..PeerCap]
      /\ Running /\ incoming # <<>> /\ incoming' = Tail(incoming)
      /\ UNCHANGED <<admissionVars, phaseVars, conn>>
      /\ handled' = (handled + 1) % Modulus
      /\ global > 0 /\ global' = global - 1
  BY DEF GuardTypeOK, Streams, Metrics, TaskTable, TakeStream, StartTask
<1>1. /\ incoming' \in Streams /\ Len(incoming') = Len(incoming) - 1
      /\ \A i \in DOMAIN incoming' : i + 1 \in DOMAIN incoming /\ incoming'[i] = incoming[i + 1]
      /\ 1 \in DOMAIN incoming /\ Head(incoming) = incoming[1] /\ incoming[1] \in Stream
  BY <1>0, TakenStream
<1> PICK q \in Peer, b \in {None} \cup Conn :
        NextPeer = q /\ Head(incoming).conn = b /\ Head(incoming).peer = q
  BY <1>1 DEF NextPeer, Stream
<1>2. SessionRoles(q) # None /\ SessionRoles(q) \in SUBSET Role
  BY <1>0 DEF StartTask, SessionRoles, GuardTypeOK, Whitelist
<1> PICK roles \in SUBSET Role : roles = SessionRoles(q)
  BY <1>2
<1> PICK s \in Slot :
        /\ task[s] = None
        /\ task' = [task EXCEPT ![s] =
            [peer |-> q, conn |-> b, roles |-> roles, current |-> TRUE, stage |-> "header"]]
  BY DEF StartTask
<1> DEFINE t == [peer |-> q, conn |-> b, roles |-> roles, current |-> TRUE, stage |-> "header"]
<1>3. t \in Task /\ t # None
  <2>1. t \in Task
    BY DEF Task, Stage
  <2> HIDE DEF t
  <2> QED
    BY <2>1
<1>4. /\ task' \in TaskTable /\ Tasks' = Tasks \cup {s} /\ s \notin Tasks /\ task'[s] = t
      /\ \A r \in Tasks : task'[r] = task[r]
  BY <1>0, <1>3 DEF TaskTable, Tasks
<1>5. /\ perPeer'[q] = PeerPermits(q) - 1 /\ PeerPermits(q) > 0 /\ PeerPermits(q) \in 0..PeerCap
      /\ \A p \in Peer : p # q => perPeer'[p] = perPeer[p]
      /\ perPeer' \in [Peer -> {None} \cup 0..PeerCap]
  <2>1. PeerPermits(q) \in 0..PeerCap
    BY <1>0 DEF PeerPermits
  <2>2. PeerPermits(q) > 0 /\ perPeer' = [perPeer EXCEPT ![q] = PeerPermits(q) - 1]
    BY DEF StartTask
  <2> QED
    BY <1>0, <2>1, <2>2
<1>6. /\ ServingTasks' = ServingTasks \cup {s} /\ s \notin ServingTasks
      /\ UncountedTasks' = UncountedTasks
  BY <1>4 DEF ServingTasks, Serving, UncountedTasks, Outcome
<1>7. metrics' \in Metrics /\ MetricsBalanced'
  BY <1>0, <1>6, FiniteTasks, StartedKeepsBalance DEF StartTask
<1>8. handled' \in 0..(Modulus - 1)
  <2> handled + 1 \in Int
    BY <1>0 DEF GuardTypeOK
  <2> QED
    BY <1>0, DivisionAlgorithm, Zenon
<1>9. IsFiniteSet(Tasks') /\ global' + Cardinality(Tasks') = TotalCap /\ global' \in 0..TotalCap
  <2>1. IsFiniteSet(Tasks \cup {s}) /\ Cardinality(Tasks \cup {s}) = Cardinality(Tasks) + 1
    BY <1>4, FS_AddElement
  <2>2. Cardinality(Tasks) \in Nat
    BY FS_CardinalityType
  <2>3. global \in 0..TotalCap /\ global + Cardinality(Tasks) = TotalCap
    BY DEF GuardTypeOK, PermitsAccounted
  <2>4. Cardinality(Tasks') = Cardinality(Tasks) + 1 /\ IsFiniteSet(Tasks')
    BY <1>4, <2>1
  <2>5. global > 0 /\ global' = global - 1 /\ TotalCap \in Nat
    BY <1>0
  <2> QED
    BY <2>2, <2>3, <2>4, <2>5
<1>10. GuardTypeOK'
  <2>1. /\ whitelist' \in Whitelist /\ challenged' \in SUBSET Peer /\ sessions' \in SUBSET Peer
        /\ conn' \in [Conn -> {None} \cup Connection]
        /\ phase' \in Phase /\ shutdowns' \in 0..MaxShutdown
    BY <1>0 DEF GuardTypeOK, admissionVars, phaseVars
  <2>2. incoming' \in Seq(Stream) /\ Len(incoming') <= QueueCap
    BY <1>0, <1>1 DEF GuardTypeOK, Streams
  <2> QED
    BY <1>4, <1>5, <1>7, <1>8, <1>9, <2>1, <2>2 DEF GuardTypeOK, Metrics, TaskTable
<1>11. ASSUME NEW p \in Peer, perPeer'[p] # None
       PROVE  perPeer'[p] + Cardinality(PermitHolders(p)') = PeerCap
  <2>1. CASE p # q
    <3> PermitHolders(p)' = PermitHolders(p)
      BY <1>4, <2>1 DEF PermitHolders, HoldsPeerPermit
    <3> QED
      BY <1>5, <1>11, <2>1 DEF PermitsAccounted
  <2>2. CASE p = q
    <3>1. PermitHolders(p)' = PermitHolders(p) \cup {s} /\ s \notin PermitHolders(p)
      BY <1>4, <2>2 DEF PermitHolders, HoldsPeerPermit
    <3>2. IsFiniteSet(PermitHolders(p))
      BY FiniteTasks
    <3>3. /\ Cardinality(PermitHolders(p)) \in Nat
          /\ Cardinality(PermitHolders(p)') = Cardinality(PermitHolders(p)) + 1
      BY <3>1, <3>2, FS_AddElement, FS_CardinalityType
    <3>4. CASE perPeer[p] = None
      <4>1. PermitHolders(p) = {}
        BY <3>4 DEF PermitHolders, OpenTasksCounted
      <4>2. Cardinality(PermitHolders(p)) = 0
        BY <4>1, FS_EmptySet
      <4> QED
        BY <1>5, <2>2, <3>3, <3>4, <4>2 DEF PeerPermits
    <3>5. CASE perPeer[p] # None
      BY <1>5, <2>2, <3>3, <3>5 DEF PeerPermits, PermitsAccounted
    <3> QED
      BY <3>4, <3>5
  <2> QED
    BY <2>1, <2>2
<1>12. PermitsAccounted'
  BY <1>9, <1>11 DEF PermitsAccounted
<1>13. InSessionListed' /\ SessionsConnected'
  BY <1>0 DEF admissionVars, InSessionListed, Listed, SessionsConnected, ConnectionsOf
<1>14. StreamsOfTheirPeer'
  <2>1. b # None => conn[b] # None /\ conn[b].peer = q
    BY <1>1 DEF StreamsOfTheirPeer
  <2>2. \A i \in DOMAIN incoming' : incoming'[i].conn # None =>
          conn[incoming'[i].conn] # None /\ conn[incoming'[i].conn].peer = incoming'[i].peer
    BY <1>1 DEF StreamsOfTheirPeer
  <2>3. \A r \in Tasks' : task'[r].conn # None =>
          conn[task'[r].conn] # None /\ conn[task'[r].conn].peer = task'[r].peer
    BY <1>4, <2>1 DEF StreamsOfTheirPeer
  <2> QED
    BY <1>0, <2>2, <2>3 DEF StreamsOfTheirPeer
<1>15. \A r \in Tasks : OnOpenConnection(r)' <=> OnOpenConnection(r)
  BY <1>0, <1>4 DEF OnOpenConnection
<1>16. LiveTunnelsHaveSession'
  BY <1>0, <1>2, <1>4, <1>15 DEF admissionVars, LiveTunnelsHaveSession, SessionRoles
<1>17. OpenTasksCounted'
  <2>1. \A r \in Tasks : task[r].peer \in Peer
    BY DEF GuardTypeOK, Tasks, Task
  <2>2. perPeer'[q] # None /\ \A p \in Peer : perPeer[p] # None => perPeer'[p] # None
    BY <1>5
  <2>3. task'[s].current /\ task'[s].peer = q
    BY <1>4
  <2> QED
    BY <1>4, <1>15, <2>1, <2>2, <2>3 DEF OpenTasksCounted
<1>18. DrainedIsIdle'
  BY <1>0 DEF DrainedIsIdle, phaseVars, Running
<1> QED
  BY <1>7, <1>9, <1>10, <1>12, <1>13, <1>14, <1>16, <1>17, <1>18

-----------------------------------------------------------------------------
(* Connections opened and lost.                                            *)

LEMMA ConnectKeeps ==
    ASSUME GuardInv, NEW p \in Peer, Connect(p)
    PROVE  GuardInv'
<1> USE DEF GuardInv
<1>0. /\ GuardTypeOK /\ conn \in Connections /\ Running
      /\ UNCHANGED <<admissionVars, incoming, streamVars, phaseVars>>
  BY DEF GuardTypeOK, Connections, Connect
<1> PICK c \in Conn :
        conn[c] = None /\ conn' = [conn EXCEPT ![c] = [peer |-> p, closing |-> FALSE]]
  BY DEF Connect
<1>1. [peer |-> p, closing |-> FALSE] \in Connection
  BY DEF Connection
<1>2. /\ conn' \in Connections /\ conn'[c] # None
      /\ \A d \in Conn : conn[d] # None => conn'[d] = conn[d]
  BY <1>0, <1>1 DEF Connections
<1>3. GuardTypeOK'
  BY <1>0, <1>2 DEF GuardTypeOK, Connections, admissionVars, streamVars, phaseVars
<1>4. \A q \in Peer : ConnectionsOf(q) \subseteq ConnectionsOf(q)'
  BY <1>2 DEF ConnectionsOf
<1>5. InSessionListed' /\ SessionsConnected'
  BY <1>0, <1>4 DEF GuardTypeOK, admissionVars, InSessionListed, Listed, SessionsConnected
<1>6. /\ \A s \in Tasks : task[s].conn \in {None} \cup Conn
      /\ \A i \in DOMAIN incoming : incoming[i].conn \in {None} \cup Conn
  <2> \A i \in DOMAIN incoming : incoming[i] \in Stream
    BY <1>0 DEF GuardTypeOK
  <2> \A s \in Tasks : task[s] \in Task
    BY <1>0 DEF GuardTypeOK, Tasks
  <2> QED
    BY DEF Task, Stream
<1>7. StreamsOfTheirPeer'
  BY <1>0, <1>2, <1>6 DEF streamVars, StreamsOfTheirPeer, Tasks
<1>8. \A s \in Tasks : OnOpenConnection(s)' <=> OnOpenConnection(s)
  BY <1>0, <1>2, <1>6 DEF streamVars, OnOpenConnection, StreamsOfTheirPeer
<1>9. LiveTunnelsHaveSession' /\ OpenTasksCounted'
  BY <1>0, <1>8
  DEF streamVars, admissionVars, LiveTunnelsHaveSession, SessionRoles, OpenTasksCounted, Tasks
<1>10. IsFiniteSet(Tasks)' /\ PermitsAccounted' /\ MetricsBalanced' /\ DrainedIsIdle'
  BY <1>0 DEF streamVars, phaseVars, Tasks, PermitsAccounted, PermitHolders, HoldsPeerPermit,
              MetricsBalanced, UncountedTasks, ServingTasks, Serving, DrainedIsIdle
<1> QED
  BY <1>3, <1>5, <1>7, <1>9, <1>10

LEMMA OpenStreamKeeps ==
    ASSUME GuardInv, NEW c \in Conn, OpenStream(c)
    PROVE  GuardInv'
<1> USE DEF GuardInv
<1>0. /\ GuardTypeOK /\ incoming \in Streams /\ Running /\ conn[c] # None
      /\ UNCHANGED <<admissionVars, conn, streamVars, phaseVars>>
  BY DEF GuardTypeOK, Streams, OpenStream
<1> DEFINE t == [peer |-> conn[c].peer, conn |-> c]
<1>1. t \in Stream
  BY <1>0 DEF GuardTypeOK, Connection, Stream
<1>2. /\ incoming' \in Streams /\ Len(incoming') = Len(incoming) + 1
      /\ Len(incoming) < QueueCap
      /\ \A i \in DOMAIN incoming' : i \in DOMAIN incoming \/ i = Len(incoming) + 1
      /\ \A i \in DOMAIN incoming : incoming'[i] = incoming[i]
      /\ incoming'[Len(incoming) + 1] = t
  <2> incoming' = Append(incoming, t) /\ Len(incoming) < QueueCap
    BY DEF OpenStream
  <2> HIDE DEF t
  <2> QED
    BY <1>0, <1>1 DEF Streams
<1>3. GuardTypeOK'
  BY <1>0, <1>2 DEF GuardTypeOK, Streams, admissionVars, streamVars, phaseVars
<1>4. InSessionListed' /\ SessionsConnected'
  BY <1>0 DEF admissionVars, InSessionListed, Listed, SessionsConnected, ConnectionsOf
<1>5. StreamsOfTheirPeer'
  <2>1. \A i \in DOMAIN incoming' : incoming'[i].conn # None =>
          conn[incoming'[i].conn] # None /\ conn[incoming'[i].conn].peer = incoming'[i].peer
    BY <1>0, <1>2 DEF StreamsOfTheirPeer
  <2>2. \A s \in Tasks : task[s].conn # None =>
          conn[task[s].conn] # None /\ conn[task[s].conn].peer = task[s].peer
    BY DEF StreamsOfTheirPeer
  <2> QED
    BY <1>0, <2>1, <2>2 DEF StreamsOfTheirPeer, streamVars, Tasks
<1>6. LiveTunnelsHaveSession' /\ OpenTasksCounted'
  BY <1>0
  DEF streamVars, admissionVars, LiveTunnelsHaveSession, SessionRoles, OpenTasksCounted, Tasks,
      OnOpenConnection
<1>7. IsFiniteSet(Tasks)' /\ PermitsAccounted' /\ MetricsBalanced' /\ DrainedIsIdle'
  BY <1>0 DEF streamVars, phaseVars, Tasks, PermitsAccounted, PermitHolders, HoldsPeerPermit,
              MetricsBalanced, UncountedTasks, ServingTasks, Serving, DrainedIsIdle
<1> QED
  BY <1>3, <1>4, <1>5, <1>6, <1>7

(* A task of a peer whose semaphore left the table, and one whose          *)
(* connection closed, lose that reference and nothing else.                *)
LEMMA OrphanedTask ==
    ASSUME NEW t \in Task, NEW S
    PROVE  /\ Orphaned(t, S) \in Task
           /\ Orphaned(t, S).peer = t.peer
           /\ Orphaned(t, S).conn = t.conn
           /\ Orphaned(t, S).stage = t.stage
           /\ Orphaned(t, S).current <=> t.current /\ t.peer \notin S
BY DEF Orphaned, Task

LEMMA SeveredTask ==
    ASSUME NEW t \in Task, NEW c \in Conn
    PROVE  /\ Severed(t, c) \in Task
           /\ Severed(t, c).peer = t.peer
           /\ Severed(t, c).conn = IF t.conn = c THEN None ELSE t.conn
           /\ Severed(t, c).stage = t.stage
           /\ Severed(t, c).current = t.current
BY DEF Severed, Task

(* Semaphores that leave the table take their permits out of the account. *)
LEMMA WithoutSemaphoresAccounted ==
    ASSUME GuardInv, NEW S, perPeer' = WithoutSemaphores(S), UNCHANGED global,
           Tasks' = Tasks,
           \A s \in Tasks : /\ task'[s].peer = task[s].peer
                            /\ task'[s].stage = task[s].stage
                            /\ task'[s].current <=> task[s].current /\ task[s].peer \notin S
    PROVE  /\ PermitsAccounted'
           /\ ServingTasks' = ServingTasks /\ UncountedTasks' = UncountedTasks
           /\ perPeer' \in [Peer -> {None} \cup 0..PeerCap]
           /\ \A s \in Tasks : task'[s].current => perPeer'[task[s].peer] # None
<1> USE DEF GuardInv
<1>1. perPeer \in [Peer -> {None} \cup 0..PeerCap] /\ \A s \in Tasks : task[s].peer \in Peer
  BY DEF GuardTypeOK, Tasks, Task
<1>2. perPeer' \in [Peer -> {None} \cup 0..PeerCap]
  BY <1>1 DEF WithoutSemaphores
<1>3. \A p \in Peer : p \notin S => perPeer'[p] = perPeer[p] /\ PermitHolders(p)' = PermitHolders(p)
  BY DEF WithoutSemaphores, PermitHolders, HoldsPeerPermit
<1>4. \A p \in Peer : p \in S => perPeer'[p] = None
  BY DEF WithoutSemaphores
<1>5. PermitsAccounted'
  BY <1>3, <1>4 DEF PermitsAccounted
<1>6. ServingTasks' = ServingTasks /\ UncountedTasks' = UncountedTasks
  BY DEF ServingTasks, Serving, UncountedTasks
<1>7. \A s \in Tasks : task'[s].current => perPeer'[task[s].peer] # None
  BY <1>1, <1>3 DEF OpenTasksCounted
<1> QED
  BY <1>2, <1>5, <1>6, <1>7

(* ConnectionClosed: with the connection go the references to it, and with *)
(* the peer's last one its session, its challenge and its semaphore.       *)
LEMMA ConnectionClosedKeeps ==
    ASSUME GuardInv, NEW c \in Conn, ConnectionClosed(c)
    PROVE  GuardInv'
<1> USE DEF GuardInv
<1>0. /\ GuardTypeOK /\ conn \in Connections /\ incoming \in Streams /\ task \in TaskTable
      /\ Running /\ conn[c] # None /\ conn' = [conn EXCEPT ![c] = None]
      /\ UNCHANGED <<whitelist, global, metrics, handled, phaseVars>>
  BY DEF GuardTypeOK, Connections, Streams, TaskTable, ConnectionClosed
<1> PICK p \in Peer : p = conn[c].peer
  BY <1>0 DEF Connections, Connection
<1> PICK S \in SUBSET {p} :
        /\ S = IF ConnectionsOf(p) = {c} THEN {p} ELSE {}
        /\ S = LastOf(c)
  BY DEF LastOf
<1>1. /\ incoming' = [i \in DOMAIN incoming |-> Severed(incoming[i], c)]
      /\ task' = [s \in Slot |-> Orphaned(Severed(task[s], c), S)]
      /\ perPeer' = WithoutSemaphores(S)
      /\ challenged' = challenged \ S /\ sessions' = sessions \ S
  BY DEF ConnectionClosed, Forget
<1>2. /\ conn' \in Connections /\ conn'[c] = None
      /\ \A d \in Conn : d # c => conn'[d] = conn[d]
      /\ \A q \in Peer : ConnectionsOf(q)' = ConnectionsOf(q) \ {c}
  BY <1>0 DEF Connections, ConnectionsOf
<1>3. c \in ConnectionsOf(p) /\ \A q \in Peer : q # p => c \notin ConnectionsOf(q)
  BY <1>0 DEF ConnectionsOf
<1>4. \A q \in Peer : q \notin S /\ ConnectionsOf(q) # {} => ConnectionsOf(q)' # {}
  BY <1>2, <1>3
<1>5. \A q \in S : ConnectionsOf(q)' = {}
  BY <1>2
<1>6. \A s \in Slot : task[s] = None => task'[s] = None
  BY <1>1 DEF Orphaned, Severed
<1>7. \A s \in Slot : task[s] # None =>
        /\ task'[s] \in Task
        /\ task'[s].peer = task[s].peer /\ task'[s].stage = task[s].stage
        /\ task'[s].conn = IF task[s].conn = c THEN None ELSE task[s].conn
        /\ task'[s].current <=> task[s].current /\ task[s].peer \notin S
  <2> TAKE s \in Slot
  <2> HAVE task[s] # None
  <2>1. task[s] \in Task
    BY <1>0 DEF TaskTable
  <2>2. Severed(task[s], c) \in Task
    BY <2>1, SeveredTask
  <2>3. task'[s] = Orphaned(Severed(task[s], c), S)
    BY <1>1
  <2> QED
    BY <2>1, <2>2, <2>3, OrphanedTask, SeveredTask
<1>8. task' \in TaskTable /\ Tasks' = Tasks
  <2>1. \A s \in Slot : task'[s] \in {None} \cup Task
    BY <1>6, <1>7
  <2>2. \A s \in Slot : task[s] # None => task'[s] # None
    BY <1>7
  <2>3. task' = [s \in Slot |-> task'[s]]
    BY <1>1
  <2> QED
    BY <1>6, <2>1, <2>2, <2>3 DEF TaskTable, Tasks
<1>9. \A s \in Tasks :
        /\ task'[s].peer = task[s].peer /\ task'[s].stage = task[s].stage
        /\ task'[s].conn = IF task[s].conn = c THEN None ELSE task[s].conn
        /\ task'[s].current <=> task[s].current /\ task[s].peer \notin S
  BY <1>7 DEF Tasks
<1>10. /\ PermitsAccounted'
       /\ ServingTasks' = ServingTasks /\ UncountedTasks' = UncountedTasks
       /\ perPeer' \in [Peer -> {None} \cup 0..PeerCap]
       /\ \A s \in Tasks : task'[s].current => perPeer'[task[s].peer] # None
  BY <1>0, <1>1, <1>8, <1>9, WithoutSemaphoresAccounted
<1>11. /\ incoming' \in Streams /\ Len(incoming') = Len(incoming)
       /\ DOMAIN incoming' = DOMAIN incoming
       /\ \A i \in DOMAIN incoming :
            /\ incoming[i] \in Stream
            /\ incoming'[i].peer = incoming[i].peer
            /\ incoming'[i].conn = IF incoming[i].conn = c THEN None ELSE incoming[i].conn
  <2>1. \A i \in DOMAIN incoming : incoming[i] \in Stream
    BY <1>0 DEF Streams
  <2>2. \A t \in Stream : /\ Severed(t, c) \in Stream
                          /\ Severed(t, c).peer = t.peer
                          /\ Severed(t, c).conn = IF t.conn = c THEN None ELSE t.conn
    BY DEF Severed, Stream
  <2>3. \A i \in DOMAIN incoming : incoming'[i] = Severed(incoming[i], c)
    BY <1>1
  <2>4. DOMAIN incoming = 1..Len(incoming) /\ Len(incoming) \in Nat
    BY <1>0 DEF Streams
  <2>5. incoming' \in Streams /\ Len(incoming') = Len(incoming)
        /\ DOMAIN incoming' = DOMAIN incoming
    BY <1>1, <2>1, <2>2, <2>4 DEF Streams
  <2> QED
    BY <2>1, <2>2, <2>3, <2>5
<1>12. GuardTypeOK'
  BY <1>0, <1>1, <1>2, <1>8, <1>10, <1>11
  DEF GuardTypeOK, Connections, TaskTable, Streams, phaseVars
<1>13. InSessionListed' /\ SessionsConnected'
  BY <1>0, <1>1, <1>4 DEF GuardTypeOK, InSessionListed, Listed, SessionsConnected
<1>14. StreamsOfTheirPeer'
  <2>1. \A i \in DOMAIN incoming' : incoming'[i].conn # None =>
          conn'[incoming'[i].conn] # None /\ conn'[incoming'[i].conn].peer = incoming'[i].peer
    BY <1>2, <1>11 DEF StreamsOfTheirPeer, Stream
  <2>2. \A s \in Tasks : task[s].conn \in {None} \cup Conn
    BY <1>0 DEF Tasks, TaskTable, Task
  <2>3. \A s \in Tasks : task'[s].conn # None =>
          conn'[task'[s].conn] # None /\ conn'[task'[s].conn].peer = task'[s].peer
    BY <1>2, <1>9, <2>2 DEF StreamsOfTheirPeer
  <2> QED
    BY <1>8, <2>1, <2>3 DEF StreamsOfTheirPeer
<1>15. \A s \in Tasks : OnOpenConnection(s)' =>
         OnOpenConnection(s) /\ task[s].peer \notin S
  <2> TAKE s \in Tasks
  <2> HAVE OnOpenConnection(s)'
  <2>1. /\ task[s].conn # None /\ task[s].conn # c /\ task[s].conn \in Conn
        /\ task[s].peer \in Peer
    BY <1>0, <1>9 DEF OnOpenConnection, Tasks, TaskTable, Task
  <2> PICK d \in Conn, q \in Peer : d = task[s].conn /\ q = task[s].peer
    BY <2>1
  <2>2. OnOpenConnection(s)
    BY <1>2, <1>9, <2>1 DEF OnOpenConnection
  <2>3. d # c /\ conn[d] # None /\ conn[d].peer = q
    BY <2>1 DEF StreamsOfTheirPeer
  <2>4. d \in ConnectionsOf(q)'
    BY <1>2, <2>3 DEF ConnectionsOf
  <2> QED
    BY <1>5, <2>2, <2>4
<1>16. LiveTunnelsHaveSession'
  BY <1>0, <1>1, <1>8, <1>9, <1>15 DEF LiveTunnelsHaveSession, SessionRoles
<1>17. OpenTasksCounted'
  BY <1>8, <1>9, <1>10, <1>15 DEF OpenTasksCounted
<1>18. IsFiniteSet(Tasks)' /\ MetricsBalanced' /\ DrainedIsIdle'
  BY <1>0, <1>8, <1>10 DEF MetricsBalanced, DrainedIsIdle, phaseVars, Running
<1> QED
  BY <1>10, <1>12, <1>13, <1>14, <1>16, <1>17, <1>18

-----------------------------------------------------------------------------
(* Commands and requests.                                                  *)

(* Whoever loses access loses the connections, and the semaphore, with it. *)
LEMMA ExpelKeeps ==
    ASSUME GuardInv, NEW S \in SUBSET Peer, Running, Expel(S),
           whitelist' \in Whitelist, challenged' \subseteq challenged,
           sessions' = sessions \ S, \A p \in sessions' : whitelist'[p] # None
    PROVE  GuardInv'
<1> USE DEF GuardInv
<1>0. /\ GuardTypeOK /\ conn \in Connections /\ task \in TaskTable
      /\ conn' = Disconnected(S) /\ perPeer' = WithoutSemaphores(S)
      /\ task' = [s \in Slot |-> Orphaned(task[s], S)]
      /\ UNCHANGED <<incoming, global, metrics, handled, phaseVars>>
  BY DEF GuardTypeOK, Connections, TaskTable, Expel
<1>1. /\ conn' \in Connections
      /\ \A c \in Conn : conn'[c] = None <=> conn[c] = None
      /\ \A c \in Conn : conn[c] # None =>
            /\ conn'[c].peer = conn[c].peer
            /\ ~conn'[c].closing <=> ~conn[c].closing /\ conn[c].peer \notin S
  BY <1>0, DisconnectedConnections
<1>2. \A p \in Peer : ConnectionsOf(p)' = ConnectionsOf(p)
  BY <1>0, ConnectionsFrame
<1>3. \A s \in Slot : task[s] # None =>
        /\ task'[s] \in Task
        /\ task'[s].peer = task[s].peer /\ task'[s].stage = task[s].stage
        /\ task'[s].conn = task[s].conn
        /\ task'[s].current <=> task[s].current /\ task[s].peer \notin S
  BY <1>0, OrphanedTask DEF TaskTable
<1>4. task' \in TaskTable /\ Tasks' = Tasks
  <2>1. \A s \in Slot : task[s] = None => task'[s] = None
    BY <1>0 DEF Orphaned
  <2>2. \A s \in Slot : task[s] # None => task'[s] # None
    BY <1>3
  <2>3. task' = [s \in Slot |-> task'[s]]
    BY <1>0
  <2> QED
    BY <1>3, <2>1, <2>2, <2>3 DEF TaskTable, Tasks
<1>5. \A s \in Tasks :
        /\ task'[s].peer = task[s].peer /\ task'[s].stage = task[s].stage
        /\ task'[s].conn = task[s].conn
        /\ task'[s].current <=> task[s].current /\ task[s].peer \notin S
  BY <1>3 DEF Tasks
<1>6. /\ PermitsAccounted'
      /\ ServingTasks' = ServingTasks /\ UncountedTasks' = UncountedTasks
      /\ perPeer' \in [Peer -> {None} \cup 0..PeerCap]
      /\ \A s \in Tasks : task'[s].current => perPeer'[task[s].peer] # None
  BY <1>0, <1>4, <1>5, WithoutSemaphoresAccounted
<1>7. GuardTypeOK'
  BY <1>0, <1>1, <1>4, <1>6 DEF GuardTypeOK, Connections, TaskTable, phaseVars
<1>8. InSessionListed' /\ SessionsConnected'
  BY <1>2 DEF GuardTypeOK, InSessionListed, Listed, SessionsConnected
<1>9. \A s \in Tasks : task[s].conn \in {None} \cup Conn /\ task[s].peer \in Peer
  BY <1>0 DEF Tasks, TaskTable, Task
<1>10. \A i \in DOMAIN incoming : incoming[i].conn \in {None} \cup Conn
  <2> \A i \in DOMAIN incoming : incoming[i] \in Stream
    BY <1>0 DEF GuardTypeOK
  <2> QED
    BY DEF Stream
<1>11. StreamsOfTheirPeer'
  <2>1. \A i \in DOMAIN incoming' : incoming'[i].conn # None =>
          conn'[incoming'[i].conn] # None /\ conn'[incoming'[i].conn].peer = incoming'[i].peer
    BY <1>0, <1>1, <1>10 DEF StreamsOfTheirPeer
  <2>2. \A s \in Tasks : task'[s].conn # None =>
          conn'[task'[s].conn] # None /\ conn'[task'[s].conn].peer = task'[s].peer
    BY <1>1, <1>5, <1>9 DEF StreamsOfTheirPeer
  <2> QED
    BY <1>4, <2>1, <2>2 DEF StreamsOfTheirPeer
<1>12. \A s \in Tasks : OnOpenConnection(s)' =>
         OnOpenConnection(s) /\ task[s].peer \notin S
  BY <1>1, <1>5, <1>9 DEF OnOpenConnection, StreamsOfTheirPeer
<1>13. LiveTunnelsHaveSession'
  BY <1>4, <1>5, <1>12 DEF LiveTunnelsHaveSession, SessionRoles
<1>14. OpenTasksCounted'
  BY <1>4, <1>5, <1>6, <1>12 DEF OpenTasksCounted
<1>15. IsFiniteSet(Tasks)' /\ MetricsBalanced' /\ DrainedIsIdle'
  BY <1>0, <1>4, <1>6 DEF MetricsBalanced, DrainedIsIdle, phaseVars, Running
<1> QED
  BY <1>6, <1>7, <1>8, <1>11, <1>13, <1>14, <1>15

(* Requests and Allow take no session away; a refusal only asks            *)
(* connections to close.                                                   *)
LEMMA RequestKeeps ==
    ASSUME GuardInv, NEW S, UNCHANGED conn \/ conn' = Disconnected(S),
           UNCHANGED <<incoming, streamVars, phaseVars>>,
           whitelist' \in Whitelist, challenged' \in SUBSET Peer, sessions' \in SUBSET Peer,
           sessions \subseteq sessions', \A p \in sessions' : whitelist'[p] # None,
           \A p \in sessions' \cup challenged' : ConnectionsOf(p) # {}
    PROVE  GuardInv'
<1> USE DEF GuardInv
<1>0. GuardTypeOK /\ conn \in Connections
  BY DEF GuardTypeOK, Connections
<1>1. /\ conn' \in Connections
      /\ \A c \in Conn : conn'[c] = None <=> conn[c] = None
      /\ \A c \in Conn : conn[c] # None =>
            conn'[c].peer = conn[c].peer /\ (conn[c].closing => conn'[c].closing)
  <2>1. CASE UNCHANGED conn
    BY <1>0, <2>1
  <2>2. CASE conn' = Disconnected(S)
    BY <1>0, <2>2, DisconnectedConnections
  <2> QED
    BY <2>1, <2>2
<1>2. \A p \in Peer : ConnectionsOf(p)' = ConnectionsOf(p)
  BY <1>1 DEF ConnectionsOf
<1>3. GuardTypeOK'
  BY <1>0, <1>1 DEF GuardTypeOK, Connections, streamVars, phaseVars
<1>4. InSessionListed' /\ SessionsConnected'
  BY <1>2 DEF InSessionListed, Listed, SessionsConnected
<1>5. \A s \in Tasks : task[s].conn \in {None} \cup Conn /\ task[s].peer \in Peer
  BY <1>0 DEF GuardTypeOK, Tasks, Task
<1>6. \A i \in DOMAIN incoming : incoming[i].conn \in {None} \cup Conn
  <2> \A i \in DOMAIN incoming : incoming[i] \in Stream
    BY <1>0 DEF GuardTypeOK
  <2> QED
    BY DEF Stream
<1>7. StreamsOfTheirPeer'
  BY <1>1, <1>5, <1>6 DEF streamVars, StreamsOfTheirPeer, Tasks
<1>8. \A s \in Tasks : OnOpenConnection(s)' => OnOpenConnection(s)
  BY <1>1, <1>5 DEF streamVars, OnOpenConnection, StreamsOfTheirPeer
<1>9. LiveTunnelsHaveSession'
  <2>1. Tasks' = Tasks /\ task' = task
    BY DEF streamVars, Tasks
  <2>2. \A s \in Tasks : OnOpenConnection(s) => task[s].peer \in sessions
    BY DEF LiveTunnelsHaveSession, SessionRoles
  <2> QED
    BY <1>8, <2>1, <2>2 DEF LiveTunnelsHaveSession, SessionRoles
<1>10. OpenTasksCounted'
  BY <1>8 DEF streamVars, OpenTasksCounted, Tasks
<1>11. IsFiniteSet(Tasks)' /\ PermitsAccounted' /\ MetricsBalanced' /\ DrainedIsIdle'
  BY DEF streamVars, phaseVars, Tasks, PermitsAccounted, PermitHolders, HoldsPeerPermit,
         MetricsBalanced, UncountedTasks, ServingTasks, Serving, DrainedIsIdle
<1> QED
  BY <1>3, <1>4, <1>7, <1>9, <1>10, <1>11

(* A change of phase changes no table; the loop returns as drained only    *)
(* when the account of permits leaves no task.                             *)
LEMMA PhaseKeeps ==
    ASSUME GuardInv, UNCHANGED <<admissionVars, swarmVars, streamVars>>,
           phase' \in Phase, shutdowns' \in 0..MaxShutdown,
           phase' = "drained" => global = TotalCap
    PROVE  GuardInv'
<1> USE DEF GuardInv
<1>1. GuardTypeOK'
  BY DEF GuardTypeOK, admissionVars, swarmVars, streamVars
<1>2. /\ InSessionListed' /\ SessionsConnected' /\ StreamsOfTheirPeer'
      /\ LiveTunnelsHaveSession' /\ OpenTasksCounted'
  BY DEF admissionVars, swarmVars, streamVars, InSessionListed, Listed, SessionsConnected,
         ConnectionsOf, StreamsOfTheirPeer, LiveTunnelsHaveSession, SessionRoles,
         OpenTasksCounted, OnOpenConnection, Tasks
<1>3. IsFiniteSet(Tasks)' /\ PermitsAccounted' /\ MetricsBalanced'
  BY DEF streamVars, Tasks, PermitsAccounted, PermitHolders, HoldsPeerPermit,
         MetricsBalanced, UncountedTasks, ServingTasks, Serving
<1>4. ASSUME global = TotalCap
      PROVE  Tasks = {} /\ metrics.active = 0
  <2>1. Cardinality(Tasks) \in Nat /\ global + Cardinality(Tasks) = TotalCap
    BY FS_CardinalityType DEF PermitsAccounted
  <2>2. Cardinality(Tasks) = 0
    BY <1>4, <2>1
  <2>3. Tasks = {}
    BY <2>2, FS_EmptySet
  <2>4. Cardinality(ServingTasks) = 0
    BY <2>3, FS_EmptySet DEF ServingTasks
  <2>5. 0 % Modulus = 0
    BY RemainderUnique
  <2> QED
    BY <2>3, <2>4, <2>5, Zenon DEF MetricsBalanced
<1>5. DrainedIsIdle'
  BY <1>4 DEF DrainedIsIdle, streamVars, Tasks
<1> QED
  BY <1>1, <1>2, <1>3, <1>5

-----------------------------------------------------------------------------
LEMMA GuardInitHolds == GuardInit => GuardInv
<1> SUFFICES ASSUME GuardInit PROVE GuardInv
  OBVIOUS
<1> USE DEF GuardInit, AdmissionInit
<1>1. /\ Tasks = {} /\ ServingTasks = {} /\ UncountedTasks = {}
      /\ \A p \in Peer : PermitHolders(p) = {}
  BY DEF Tasks, ServingTasks, UncountedTasks, PermitHolders
<1>2. /\ IsFiniteSet(Tasks) /\ Cardinality(Tasks) = 0
      /\ Cardinality(ServingTasks) = 0 /\ Cardinality(UncountedTasks) = 0
  BY <1>1, FS_EmptySet
<1>3. GuardTypeOK
  BY DEF GuardTypeOK, Phase
<1>4. InSessionListed /\ SessionsConnected /\ StreamsOfTheirPeer
  BY <1>1 DEF InSessionListed, SessionsConnected, StreamsOfTheirPeer
<1>5. LiveTunnelsHaveSession /\ OpenTasksCounted /\ DrainedIsIdle
  BY <1>1 DEF LiveTunnelsHaveSession, OpenTasksCounted, DrainedIsIdle
<1>6. PermitsAccounted
  BY <1>2 DEF PermitsAccounted
<1>7. 0 % Modulus = 0
  BY RemainderUnique
<1>8. MetricsBalanced
  <2>1. /\ metrics.opened + metrics.denied + metrics.active + 0 = 0
        /\ handled = 0 /\ metrics.active = 0
    OBVIOUS
  <2> QED
    BY <1>2, <1>7, <2>1, Zenon DEF MetricsBalanced
<1> QED
  BY <1>2, <1>3, <1>4, <1>5, <1>6, <1>8 DEF GuardInv

(* Every step of a task, one stage after the other. *)
LEMMA TaskStepKeeps ==
    ASSUME GuardInv, NEW s \in Slot, TaskStep(s)
    PROVE  GuardInv'
<1> USE DEF AtStage
<1>0. "opened" \in Outcome /\ "denied" \in Outcome
  BY DEF Outcome
<1>1. CASE ReadHeader(s)
  <2>1. CASE Finish(s, "denied")
    BY <1>0, <1>1, <2>1, FinishKeeps DEF ReadHeader, Serving
  <2>2. CASE /\ MoveTo(s, "connect")
             /\ UNCHANGED <<admissionVars, swarmVars, perPeer, global, metrics, handled, phaseVars>>
    <3> "connect" \in Stage
      BY DEF Stage
    <3> QED
      BY <1>1, <2>2, AdvanceKeeps DEF ReadHeader
  <2> QED
    BY <1>1, <2>1, <2>2 DEF ReadHeader
<1>2. CASE HeaderLost(s)
  BY <1>0, <1>2, FinishKeeps DEF HeaderLost, Serving
<1>3. CASE TunnelOpened(s)
  <2> "relay" \in Stage
    BY DEF Stage
  <2> QED
    BY <1>3, AdvanceKeeps DEF TunnelOpened
<1>4. CASE TunnelFailed(s)
  BY <1>0, <1>4, FinishKeeps DEF TunnelFailed, Serving
<1>5. CASE RelayEnds(s)
  BY <1>0, <1>5, FinishKeeps DEF RelayEnds, Serving
<1>6. CASE CountOutcome(s)
  BY <1>6, CountOutcomeKeeps
<1>7. CASE ReleasePeerPermit(s)
  BY <1>7, ReleasePeerPermitKeeps
<1>8. CASE ReleaseGlobalPermit(s)
  BY <1>8, ReleaseGlobalPermitKeeps
<1> QED
  BY <1>1, <1>2, <1>3, <1>4, <1>5, <1>6, <1>7, <1>8 DEF TaskStep

LEMMA GuardStepKeeps == GuardInv /\ [GuardNext]_guardVars => GuardInv'
<1> SUFFICES ASSUME GuardInv, [GuardNext]_guardVars
             PROVE  GuardInv'
  OBVIOUS
<1>0. GuardTypeOK /\ InSessionListed /\ SessionsConnected
  BY DEF GuardInv
<1>1. ASSUME NEW p \in Peer, Connect(p)
      PROVE  GuardInv'
  BY <1>1, ConnectKeeps
<1>2. ASSUME NEW p \in Peer, HandshakeInit(p)
      PROVE  GuardInv'
  <2>1. CASE Issue(p) /\ UNCHANGED conn
    BY <1>0, <1>2, <2>1, RequestKeeps
    DEF HandshakeInit, CanRequest, Issue, GuardTypeOK, InSessionListed, Listed, SessionsConnected
  <2>2. CASE Silence(p) /\ UNCHANGED admissionVars
    BY <1>0, <1>2, <2>2, RequestKeeps
    DEF HandshakeInit, Silence, admissionVars, GuardTypeOK, InSessionListed, Listed,
        SessionsConnected
  <2> QED
    BY <1>2, <2>1, <2>2 DEF HandshakeInit
<1>3. ASSUME NEW p \in Peer, AnswerAccepted(p)
      PROVE  GuardInv'
  BY <1>0, <1>3, RequestKeeps
  DEF AnswerAccepted, CanRequest, Grant, swarmVars, GuardTypeOK, InSessionListed, Listed,
      SessionsConnected
<1>4. ASSUME NEW p \in Peer, AnswerRefused(p)
      PROVE  GuardInv'
  BY <1>0, <1>4, RequestKeeps
  DEF AnswerRefused, Silence, Reject, GuardTypeOK, InSessionListed, Listed, SessionsConnected
<1>5. ASSUME NEW c \in Conn, OpenStream(c) \/ ConnectionClosed(c)
      PROVE  GuardInv'
  BY <1>5, OpenStreamKeeps, ConnectionClosedKeeps
<1>6. CASE RefuseWhileStopping \/ RefuseWithoutSession \/ RefuseOverCap
  BY <1>6, RefusedKeeps DEF RefuseWhileStopping, RefuseWithoutSession, RefuseOverCap, Silence
<1>7. CASE StartTask
  BY <1>7, StartTaskKeeps
<1>8. ASSUME NEW s \in Slot, TaskStep(s)
      PROVE  GuardInv'
  BY <1>8, TaskStepKeeps
<1>9. ASSUME NEW p \in Peer, RevokeCommand(p)
      PROVE  GuardInv'
  <2>1. whitelist' = [whitelist EXCEPT ![p] = None]
    BY <1>9 DEF RevokeCommand, Revoke
  <2>2. whitelist' \in Whitelist
    BY <1>0, <2>1 DEF GuardTypeOK, Whitelist
  <2>3. /\ sessions' = sessions \ (sessions \cap {p}) /\ challenged' \subseteq challenged
        /\ sessions \cap {p} \in SUBSET Peer
    BY <1>9 DEF RevokeCommand, Revoke, Forget
  <2>4. \A q \in sessions' : whitelist'[q] # None
    BY <1>0, <2>1, <2>3 DEF GuardTypeOK, Whitelist, InSessionListed, Listed
  <2> QED
    BY <1>9, <2>2, <2>3, <2>4, ExpelKeeps DEF RevokeCommand
<1>10. ASSUME NEW p \in Peer, NEW roles \in SUBSET Role, AllowCommand(p, roles)
       PROVE  GuardInv'
  <2>1. /\ whitelist' = [whitelist EXCEPT ![p] = roles]
        /\ UNCHANGED <<challenged, sessions, swarmVars, streamVars, phaseVars>>
    BY <1>10 DEF AllowCommand, Allow
  <2>2. whitelist' \in Whitelist /\ \A q \in sessions : whitelist'[q] # None
    BY <1>0, <2>1 DEF GuardTypeOK, Whitelist, InSessionListed, Listed
  <2> QED
    BY <1>0, <2>1, <2>2, RequestKeeps DEF swarmVars, GuardTypeOK, SessionsConnected
<1>11. ASSUME NEW new \in Whitelist, ReloadCommand(new)
       PROVE  GuardInv'
  <2>1. /\ whitelist' = new /\ sessions' = sessions \ Dropped(new)
        /\ challenged' \subseteq challenged /\ Running /\ Expel(Dropped(new))
    BY <1>11 DEF ReloadCommand, ReloadWhitelist, Forget
  <2>2. Dropped(new) \in SUBSET Peer /\ \A q \in sessions \ Dropped(new) : new[q] # None
    BY <1>0 DEF GuardTypeOK, Dropped
  <2> QED
    BY <2>1, <2>2, ExpelKeeps
<1>12. CASE ShutdownCommand \/ GraceExpires \/ DrainTick
  <2>1. /\ UNCHANGED <<admissionVars, swarmVars, streamVars>>
        /\ phase' \in Phase /\ shutdowns' \in 0..MaxShutdown
        /\ phase' = "drained" => global = TotalCap
    BY <1>0, <1>12 DEF ShutdownCommand, GraceExpires, DrainTick, GuardTypeOK, Phase
  <2> QED
    BY <2>1, PhaseKeeps
<1>13. CASE UNCHANGED guardVars
  <2>1. /\ UNCHANGED <<admissionVars, swarmVars, streamVars>>
        /\ phase' = phase /\ shutdowns' = shutdowns
    BY <1>13 DEF guardVars, phaseVars
  <2>2. phase = "drained" => global = TotalCap
    <3>1. phase = "drained" => Cardinality(Tasks) = 0
      BY FS_EmptySet DEF GuardInv, DrainedIsIdle
    <3> QED
      BY <1>0, <3>1 DEF GuardInv, PermitsAccounted, GuardTypeOK
  <2> QED
    BY <1>0, <2>1, <2>2, PhaseKeeps DEF GuardTypeOK
<1> QED
  BY <1>1, <1>2, <1>3, <1>4, <1>5, <1>6, <1>7, <1>8, <1>9, <1>10, <1>11, <1>12, <1>13
  DEF GuardNext

-----------------------------------------------------------------------------
(* The inductive invariant of the Guard's loop holds in every reachable    *)
(* state, whatever the order of swarm events, streams, commands, drain     *)
(* ticks and steps of the tasks.                                           *)
THEOREM GuardInvariant == GuardSpec => []GuardInv
<1>1. GuardInit => GuardInv
  BY GuardInitHolds
<1>2. GuardInv /\ [GuardNext]_guardVars => GuardInv'
  BY GuardStepKeeps
<1> QED
  BY <1>1, <1>2, PTL DEF GuardSpec

(* Type correctness of the loop's tables: no permit beyond the caps, no    *)
(* queue beyond libp2p-stream's.                                           *)
THEOREM GuardTypes == GuardSpec => []GuardTypeOK
<1>1. GuardInv => GuardTypeOK
  BY DEF GuardInv
<1> QED
  BY <1>1, GuardInvariant, PTL

(* handle_guard_event ends the session and voids the challenge of a peer   *)
(* with its last connection, for any number of connections of each peer.   *)
THEOREM NoSessionWithoutConnection == GuardSpec => []SessionsConnected
<1>1. GuardInv => SessionsConnected
  BY DEF GuardInv
<1> QED
  BY <1>1, GuardInvariant, PTL

(* No tunnel over an open connection outlives its peer's session or        *)
(* listing, whatever revocation or reload came while it was being opened.  *)
THEOREM NoTunnelWithoutSession == GuardSpec => []LiveTunnelsHaveSession
<1>1. GuardInv => LiveTunnelsHaveSession
  BY DEF GuardInv
<1> QED
  BY <1>1, GuardInvariant, PTL

(* Neither semaphore loses or invents a permit, across refusals, cut       *)
(* connections and semaphores dropped while their permits are held.        *)
THEOREM PermitsAreAccounted == GuardSpec => []PermitsAccounted
<1>1. GuardInv => PermitsAccounted
  BY DEF GuardInv
<1> QED
  BY <1>1, GuardInvariant, PTL

(* Every stream the loop took is counted exactly once, modulo the width of *)
(* the counters, or is in the hands of a task between the two atomic       *)
(* operations of record_finished; and the gauge is the number of tasks     *)
(* serving, those that still wait for a header or a local service included.*)
THEOREM MetricsAreBalanced == GuardSpec => []MetricsBalanced
<1>1. GuardInv => MetricsBalanced
  BY DEF GuardInv
<1> QED
  BY <1>1, GuardInvariant, PTL

(* A loop that returns before its deadline leaves no task behind and shows *)
(* no active tunnel.                                                       *)
THEOREM DrainedLoopIsIdle == GuardSpec => []DrainedIsIdle
<1>1. GuardInv => DrainedIsIdle
  BY DEF GuardInv
<1> QED
  BY <1>1, GuardInvariant, PTL

(* Over live connections max_streams_per_peer holds: every open tunnel is  *)
(* counted by the semaphore in the table, although others may be counted   *)
(* by one that was dropped.                                                *)
THEOREM PeerCapOverOpenConnections == GuardSpec => []OpenTunnelsWithinPeerCap
<1>1. GuardInv => OpenTunnelsWithinPeerCap
  <2> SUFFICES ASSUME GuardInv, NEW p \in Peer
               PROVE  Cardinality(OpenTunnels(p)) <= PeerCap
    BY DEF OpenTunnelsWithinPeerCap
  <2> USE DEF GuardInv
  <2> DEFINE open == OpenTunnels(p)
  <2>1. open \in SUBSET PermitHolders(p) /\ IsFiniteSet(PermitHolders(p))
    BY FiniteTasks DEF PermitHolders, OpenTunnels, OpenTasksCounted
  <2>2. /\ Cardinality(open) \in Nat /\ Cardinality(PermitHolders(p)) \in Nat
        /\ Cardinality(open) <= Cardinality(PermitHolders(p))
    BY <2>1, FS_Subset, FS_CardinalityType
  <2>3. CASE perPeer[p] = None
    <3>1. open = {}
      BY <2>3 DEF OpenTunnels, OpenTasksCounted
    <3> QED
      BY <3>1, FS_EmptySet
  <2>4. CASE perPeer[p] # None
    <3>1. perPeer[p] \in 0..PeerCap /\ perPeer[p] + Cardinality(PermitHolders(p)) = PeerCap
      BY <2>4 DEF GuardTypeOK, PermitsAccounted
    <3> QED
      BY <2>2, <3>1
  <2> QED
    BY <2>3, <2>4
<1> QED
  BY <1>1, GuardInvariant, PTL

=============================================================================
