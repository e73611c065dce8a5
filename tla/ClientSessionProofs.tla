------------------------ MODULE ClientSessionProofs ------------------------
(***************************************************************************)
(* Proofs that the session keeper keeps its inductive invariant            *)
(* SessionInv, for any number of connections, and that each of its steps   *)
(* is one Keeper promises to the redirections.                             *)
(*                                                                         *)
(* The argument: a dial starts only without a connection, so authenticate  *)
(* always waits for something under way; a request is made over a          *)
(* connection the swarm still counts, and every ConnectionClosed ends the  *)
(* wait, so the connection is there when the grant is taken; and the Guard *)
(* gives up a granted session only with, or after asking for the end of,   *)
(* the only connection it has.                                             *)
(***************************************************************************)
EXTENDS ClientSession, TLAPS

USE ClientAssumption

ClientSide == <<control, client, dialing, request>>
GuardSide == <<guard, session, sole>>

(* What the Client relies on changes only in the Client's own steps and    *)
(* those that change its connections, its dial or its request.             *)
LEMMA ClientSideFrame ==
    ASSUME SessionInv, UNCHANGED ClientSide
    PROVE  ServingConnected' /\ NoEndlessWait' /\ AwaitedConnected' /\ DialAlone'
           /\ ServingAnswered' /\ (Granted' <=> Granted)
BY DEF SessionInv, ClientSide, ServingConnected, NoEndlessWait, AwaitedConnected, DialAlone,
       ServingAnswered, Granted, Established, Underway

(* A step that grants nothing leaves the Guard's side of a grant in place. *)
LEMMA GuardSideFrame ==
    ASSUME SessionInv, UNCHANGED GuardSide, Granted' => Granted
    PROVE  GrantKept'
BY DEF SessionInv, GuardSide, GrantKept

-----------------------------------------------------------------------------
(* The Client's steps.                                                     *)

LEMMA RedialKeeps ==
    ASSUME SessionInv, Redial
    PROVE  SessionInv'
<1> USE DEF SessionInv, Redial
<1>1. SessionTypeOK'
  BY DEF SessionTypeOK, Control, guardVars
<1>2. ServingConnected' /\ AwaitedConnected' /\ ServingAnswered'
  BY DEF ServingConnected, AwaitedConnected, ServingAnswered
<1>3. NoEndlessWait'
  BY DEF NoEndlessWait, Underway
<1>4. DialAlone'
  BY DEF SessionTypeOK, DialAlone, Established, Underway, End
<1>5. GrantKept'
  BY GuardSideFrame DEF Granted, guardVars, GuardSide
<1> QED
  BY <1>1, <1>2, <1>3, <1>4, <1>5

(* Steps of the task that end or begin a wait without touching the swarm.  *)
LEMMA TurnKeeps ==
    ASSUME SessionInv, BackoffEnds \/ ShutdownSeen \/ GraceEnds \/ FailureTaken
    PROVE  SessionInv'
<1> USE DEF SessionInv, BackoffEnds, ShutdownSeen, GraceEnds, FailureTaken
<1>1. SessionTypeOK'
  BY DEF SessionTypeOK, Control, guardVars
<1>2. ServingConnected' /\ AwaitedConnected' /\ ServingAnswered' /\ NoEndlessWait'
  BY DEF ServingConnected, AwaitedConnected, ServingAnswered, NoEndlessWait
<1>3. DialAlone'
  BY DEF DialAlone
<1>4. GrantKept'
  BY GuardSideFrame DEF Granted, guardVars, GuardSide
<1> QED
  BY <1>1, <1>2, <1>3, <1>4

LEMMA DialErrorTakenKeeps ==
    ASSUME SessionInv, DialErrorTaken
    PROVE  SessionInv'
<1> USE DEF SessionInv, DialErrorTaken
<1>1. SessionTypeOK'
  BY DEF SessionTypeOK, Control, guardVars
<1>2. control = "connecting" /\ control' = "backoff"
  BY DEF DialAlone
<1>3. ServingConnected' /\ AwaitedConnected' /\ ServingAnswered' /\ NoEndlessWait' /\ DialAlone'
  BY <1>2 DEF ServingConnected, AwaitedConnected, ServingAnswered, NoEndlessWait, DialAlone
<1>4. GrantKept'
  BY <1>2, GuardSideFrame DEF Granted, guardVars, GuardSide
<1> QED
  BY <1>1, <1>3, <1>4

LEMMA EstablishedTakenKeeps ==
    ASSUME SessionInv, NEW c \in Conn, EstablishedTaken(c)
    PROVE  SessionInv'
<1> USE DEF SessionInv, EstablishedTaken
<1>0. /\ client[c] = "arriving" /\ client' = [client EXCEPT ![c] = "open"]
      /\ client \in [Conn -> End] /\ dialing = "no" /\ dialing' = dialing
      /\ guardVars' = guardVars /\ shutdown' = shutdown /\ calm' = calm
  BY DEF SessionTypeOK, DialAlone
<1>1. c \in Established' /\ Established \subseteq Established'
  BY <1>0 DEF Established
<1>2. CASE control = "connecting"
  <2>1. /\ control' = "challenge"
        /\ request' = [kind |-> "init", conn |-> c, status |-> "sent"]
    BY <1>2 DEF Send
  <2>2. request' \in Request
    BY <2>1 DEF Request, Status
  <2>3. SessionTypeOK'
    BY <1>0, <2>1, <2>2 DEF SessionTypeOK, Control, End, guardVars
  <2>4. request'.kind = "init" /\ request'.conn = c /\ request' # None
    BY <2>1, <2>2
  <2>5. AwaitedConnected' /\ NoEndlessWait'
    BY <1>1, <2>1, <2>4 DEF AwaitedConnected, NoEndlessWait
  <2>6. ServingConnected' /\ ServingAnswered' /\ DialAlone'
    BY <1>0, <2>1 DEF ServingConnected, ServingAnswered, DialAlone
  <2>7. GrantKept'
    BY <1>0, <2>1, GuardSideFrame DEF Granted, guardVars, GuardSide
  <2> QED
    BY <2>3, <2>5, <2>6, <2>7
<1>3. CASE control # "connecting"
  <2>1. control' = control /\ request' = request
    BY <1>3
  <2>2. SessionTypeOK'
    BY <1>0, <2>1 DEF SessionTypeOK, End, guardVars
  <2>3. ServingConnected' /\ AwaitedConnected' /\ NoEndlessWait'
    BY <1>1, <1>3, <2>1 DEF ServingConnected, AwaitedConnected, NoEndlessWait
  <2>4. ServingAnswered' /\ DialAlone'
    BY <1>0, <2>1 DEF ServingAnswered, DialAlone
  <2>5. GrantKept'
    BY <1>0, <2>1, GuardSideFrame DEF Granted, guardVars, GuardSide
  <2> QED
    BY <2>2, <2>3, <2>4, <2>5
<1> QED
  BY <1>2, <1>3

(* ConnectionClosed ends the wait of authenticate, whichever connection it *)
(* is, and the service after the last.                                     *)
LEMMA ClosedTakenKeeps ==
    ASSUME SessionInv, NEW c \in Conn, ClosedTaken(c)
    PROVE  SessionInv'
<1> USE DEF SessionInv, ClosedTaken
<1>0. /\ client[c] = "ending" /\ client' = [client EXCEPT ![c] = "absent"]
      /\ client \in [Conn -> End] /\ control \in Control /\ dialing = "no"
  BY DEF SessionTypeOK, DialAlone
<1>1. /\ control' \in Control /\ control' \notin {"challenge", "grant"}
      /\ control' = "serving" => control = "serving" /\ Established # {c}
      /\ control' = "connecting" => control = "connecting"
  BY <1>0 DEF AfterClosing, Control
<1>2. SessionTypeOK'
  BY <1>0, <1>1 DEF SessionTypeOK, End, guardVars
<1>3. Established' = Established \ {c} /\ c \in Established
  BY <1>0 DEF Established
<1>4. ServingConnected'
  BY <1>1, <1>3 DEF ServingConnected
<1>5. NoEndlessWait'
  BY <1>0, <1>1 DEF NoEndlessWait, Underway
<1>6. AwaitedConnected' /\ ServingAnswered' /\ DialAlone'
  BY <1>0, <1>1 DEF AwaitedConnected, ServingAnswered, DialAlone
<1>7. GrantKept'
  BY <1>1, GuardSideFrame DEF Granted, guardVars, GuardSide
<1> QED
  BY <1>2, <1>4, <1>5, <1>6, <1>7

LEMMA ChallengeTakenKeeps ==
    ASSUME SessionInv, ChallengeTaken
    PROVE  SessionInv'
<1> USE DEF SessionInv, ChallengeTaken
<1> PICK c \in Established : request' = [kind |-> "answer", conn |-> c, status |-> "sent"]
  BY DEF Send
<1>1. c \in Conn /\ request' \in Request
  BY DEF Established, Request, Status
<1>2. /\ request' # None /\ request'.kind = "answer" /\ request'.conn = c
      /\ request'.status = "sent"
  BY <1>1
<1>3. SessionTypeOK'
  BY <1>1 DEF SessionTypeOK, Control, guardVars
<1>4. AwaitedConnected' /\ NoEndlessWait'
  BY <1>2 DEF AwaitedConnected, NoEndlessWait, Established
<1>5. ServingConnected' /\ ServingAnswered' /\ DialAlone'
  BY DEF ServingConnected, ServingAnswered, DialAlone
<1>6. GrantKept'
  BY <1>2, GuardSideFrame DEF Granted, guardVars, GuardSide
<1> QED
  BY <1>3, <1>4, <1>5, <1>6

LEMMA GrantTakenKeeps ==
    ASSUME SessionInv, GrantTaken
    PROVE  SessionInv'
<1> USE DEF SessionInv, GrantTaken
<1>1. SessionTypeOK'
  BY DEF SessionTypeOK, Control, guardVars
<1>2. ServingConnected' /\ NoEndlessWait' /\ AwaitedConnected'
  BY DEF ServingConnected, NoEndlessWait, AwaitedConnected, Established
<1>3. ServingAnswered' /\ DialAlone'
  BY DEF ServingAnswered, DialAlone
<1>4. GrantKept'
  BY GuardSideFrame DEF Granted, guardVars, GuardSide
<1> QED
  BY <1>1, <1>2, <1>3, <1>4

-----------------------------------------------------------------------------
(* The Guard's steps.                                                      *)

LEMMA GuardEstablishedKeeps ==
    ASSUME SessionInv, NEW c \in Conn, GuardEstablished(c)
    PROVE  SessionInv'
<1> USE DEF SessionInv, GuardEstablished
<1>1. SessionTypeOK'
  BY DEF SessionTypeOK, End, clientVars
<1>2. UNCHANGED ClientSide
  BY DEF ClientSide, clientVars
<1>3. GrantKept'
  BY <1>2, ClientSideFrame DEF SessionTypeOK, GrantKept
<1> QED
  BY <1>1, <1>2, <1>3, ClientSideFrame

(* The Guard ends a session with its end of the last connection. *)
LEMMA GuardClosedKeeps ==
    ASSUME SessionInv, NEW c \in Conn, GuardClosed(c)
    PROVE  SessionInv'
<1> USE DEF SessionInv, GuardClosed
<1>1. SessionTypeOK'
  BY DEF SessionTypeOK, End, clientVars
<1>2. UNCHANGED ClientSide
  BY DEF ClientSide, clientVars
<1>3. /\ guard' = [guard EXCEPT ![c] = "absent"] /\ guard \in [Conn -> End]
      /\ guard[c] = "ending" /\ sole' = sole
  BY DEF SessionTypeOK
<1>4. \A d \in Conn : guard'[d] = IF d = c THEN "absent" ELSE guard[d]
  BY <1>3
<1>5. GrantKept'
  <2> SUFFICES ASSUME Granted, sole
               PROVE  /\ \A d, e \in Conn : guard'[d] # "absent" /\ guard'[e] # "absent" => d = e
                      /\ \A d \in Conn : guard'[d] # "arriving"
                      /\ \A d \in Conn : guard'[d] # "open"
    BY <1>2, <1>3, ClientSideFrame DEF GrantKept
  <2> QED
    BY <1>3, <1>4 DEF GrantKept
<1> QED
  BY <1>1, <1>2, <1>5, ClientSideFrame

(* A request with the Guard is answered: a granted answer makes the        *)
(* session, and "sole" tells whether its connection is the only one.       *)
LEMMA GuardAnswersKeeps ==
    ASSUME SessionInv, GuardAnswers
    PROVE  SessionInv'
<1> USE DEF SessionInv, GuardAnswers
<1>0. /\ request \in Request /\ request.status = "sent" /\ request.conn \in Conn
      /\ guard[request.conn] = "open" /\ guard' = guard
  BY DEF SessionTypeOK, Awaited, Request
<1> PICK status \in {"answered", "lost"} : request' = [request EXCEPT !.status = status]
  BY DEF Reply
<1>1. /\ request' \in Request /\ request' # None
      /\ request'.kind = request.kind /\ request'.conn = request.conn
      /\ request'.status = status
  BY <1>0 DEF Request, Status
<1>2. SessionTypeOK'
  BY <1>1 DEF SessionTypeOK
<1>3. /\ control' = control /\ client' = client /\ dialing' = dialing
      /\ status = "lost" => client[request.conn] # "open"
  BY <1>0, <1>1 DEF Reply, Request, Status
<1>4. ServingConnected' /\ AwaitedConnected' /\ DialAlone'
  BY <1>0, <1>1, <1>3 DEF ServingConnected, AwaitedConnected, DialAlone, Established
<1>5. NoEndlessWait'
  BY <1>1, <1>3 DEF NoEndlessWait, AwaitedConnected, Established, Underway
<1>6. control # "serving"
  BY <1>0 DEF ServingAnswered
<1>7. ServingAnswered'
  BY <1>3, <1>6 DEF ServingAnswered
<1>8. GrantKept'
  <2> SUFFICES ASSUME Granted', sole'
               PROVE  /\ \A c, d \in Conn : guard[c] # "absent" /\ guard[d] # "absent" => c = d
                      /\ \A c \in Conn : guard[c] # "arriving"
                      /\ session'
    BY <1>0 DEF GrantKept
  <2>1. control = "grant" /\ request.kind = "answer"
    BY <1>3, <1>6 DEF Granted, AwaitedConnected
  <2>2. session' = TRUE /\ \A c \in Conn : guard[c] = "absent" \/ c = request.conn
    BY <2>1
  <2> QED
    BY <1>0, <2>2
<1> QED
  BY <1>2, <1>4, <1>5, <1>7, <1>8

(* The Guard asks its connections to close: none is open any more. *)
LEMMA DisconnectedSide ==
    ASSUME guard \in [Conn -> End]
    PROVE  /\ Disconnected \in [Conn -> End]
           /\ \A c \in Conn : Disconnected[c] # "open"
           /\ \A c \in Conn : Disconnected[c] = "arriving" <=> guard[c] = "arriving"
           /\ \A c \in Conn : Disconnected[c] = "absent" <=> guard[c] = "absent"
BY DEF Disconnected, End

LEMMA GuardRefusesKeeps ==
    ASSUME SessionInv, GuardRefuses
    PROVE  SessionInv'
<1> USE DEF SessionInv, GuardRefuses
<1>0. /\ request \in Request /\ request.status = "sent" /\ guard \in [Conn -> End]
      /\ guard' = Disconnected
  BY DEF SessionTypeOK, Awaited
<1> PICK status \in {"failed", "lost"} : request' = [request EXCEPT !.status = status]
  BY DEF Reply
<1>1. /\ request' \in Request /\ request' # None
      /\ request'.kind = request.kind /\ request'.conn = request.conn
      /\ request'.status = status
  BY <1>0 DEF Request, Status
<1>2. control' = control /\ client' = client /\ dialing' = dialing
  OBVIOUS
<1>3. SessionTypeOK'
  BY <1>0, <1>1, DisconnectedSide DEF SessionTypeOK
<1>4. ServingConnected' /\ AwaitedConnected' /\ DialAlone' /\ NoEndlessWait'
  BY <1>1, <1>2
  DEF ServingConnected, AwaitedConnected, DialAlone, NoEndlessWait, Established, Underway
<1>5. control # "serving"
  BY <1>0 DEF ServingAnswered
<1>6. ServingAnswered' /\ GrantKept'
  BY <1>1, <1>2, <1>5 DEF ServingAnswered, GrantKept, Granted
<1> QED
  BY <1>3, <1>4, <1>6

-----------------------------------------------------------------------------
(* The network, and what may go wrong.                                     *)

LEMMA TunnelRefusedKeeps ==
    ASSUME SessionInv, TunnelRefused
    PROVE  SessionInv'
<1> USE DEF SessionInv, TunnelRefused
<1>0. guard \in [Conn -> End] /\ guard' = Disconnected /\ UNCHANGED ClientSide
  BY DEF SessionTypeOK, clientVars, ClientSide
<1>1. SessionTypeOK'
  BY <1>0, DisconnectedSide DEF SessionTypeOK, clientVars
<1>2. GrantKept'
  BY <1>0, ClientSideFrame, DisconnectedSide DEF GrantKept
<1> QED
  BY <1>0, <1>1, <1>2, ClientSideFrame

(* A connection that ends stays in the swarm's table until it is taken. *)
LEMMA ClientEndKeeps ==
    ASSUME SessionInv, NEW c \in Conn, client[c] = "open",
           client' = [client EXCEPT ![c] = "ending"],
           UNCHANGED <<guard, control, dialing, request, session, sole>>
    PROVE  /\ client' \in [Conn -> End]
           /\ ServingConnected' /\ NoEndlessWait' /\ AwaitedConnected' /\ DialAlone'
           /\ ServingAnswered' /\ GrantKept'
<1> USE DEF SessionInv
<1>1. client \in [Conn -> End] /\ client' \in [Conn -> End]
  BY DEF SessionTypeOK, End
<1>2. Established' = Established /\ (Underway' <=> Underway)
  BY <1>1 DEF Established, Underway
<1>3. ServingConnected' /\ NoEndlessWait' /\ AwaitedConnected' /\ ServingAnswered'
  BY <1>2 DEF ServingConnected, NoEndlessWait, AwaitedConnected, ServingAnswered
<1>4. DialAlone'
  BY <1>1 DEF DialAlone
<1>5. GrantKept'
  BY GuardSideFrame DEF Granted, GuardSide
<1> QED
  BY <1>1, <1>3, <1>4, <1>5

LEMMA GuardEndKeeps ==
    ASSUME SessionInv, NEW c \in Conn, guard[c] = "open",
           guard' = [guard EXCEPT ![c] = "ending"],
           UNCHANGED <<client, control, dialing, request, session, sole>>
    PROVE  /\ guard' \in [Conn -> End]
           /\ ServingConnected' /\ NoEndlessWait' /\ AwaitedConnected' /\ DialAlone'
           /\ ServingAnswered' /\ GrantKept'
<1> USE DEF SessionInv
<1>1. guard \in [Conn -> End] /\ guard' \in [Conn -> End]
  BY DEF SessionTypeOK, End
<1>2. UNCHANGED ClientSide
  BY DEF ClientSide
<1>3. GrantKept'
  BY <1>1, <1>2, ClientSideFrame DEF GrantKept
<1> QED
  BY <1>1, <1>2, <1>3, ClientSideFrame

LEMMA NoticedKeeps ==
    ASSUME SessionInv, NEW c \in Conn, Noticed(c) \/ Breaks(c)
    PROVE  SessionInv'
<1>1. CASE client[c] = "open" /\ client' = [client EXCEPT ![c] = "ending"] /\ UNCHANGED guard
  BY <1>1, ClientEndKeeps DEF Noticed, Breaks, SessionInv, SessionTypeOK
<1>2. CASE guard[c] = "open" /\ guard' = [guard EXCEPT ![c] = "ending"] /\ UNCHANGED client
  BY <1>2, GuardEndKeeps DEF Noticed, Breaks, SessionInv, SessionTypeOK
<1> QED
  BY <1>1, <1>2 DEF Noticed, Breaks

(* A connection is there, by the dial or by hole punching: in the first    *)
(* case the Client was not in session, in the second it is no longer sole. *)
LEMMA ArrivesKeeps ==
    ASSUME SessionInv, NEW c \in Conn, DialReaches(c) \/ HolePunched(c)
    PROVE  SessionInv'
<1> USE DEF SessionInv
<1>0. /\ client \in [Conn -> End] /\ guard \in [Conn -> End] /\ client[c] = "absent"
      /\ client' = [client EXCEPT ![c] = "arriving"]
      /\ guard' = [guard EXCEPT ![c] = "arriving"]
      /\ dialing' = "no" /\ UNCHANGED <<control, request, session>>
  <2>1. CASE DialReaches(c)
    BY <2>1 DEF SessionTypeOK, DialReaches
  <2>2. CASE HolePunched(c)
    BY <2>2 DEF SessionTypeOK, DialAlone, HolePunched
  <2> QED
    BY <2>1, <2>2
<1>1. SessionTypeOK'
  BY <1>0 DEF SessionTypeOK, End, DialReaches, HolePunched
<1>2. Established' = Established /\ Underway'
  BY <1>0 DEF Established, Underway
<1>3. ServingConnected' /\ NoEndlessWait' /\ AwaitedConnected' /\ DialAlone' /\ ServingAnswered'
  BY <1>0, <1>2 DEF ServingConnected, NoEndlessWait, AwaitedConnected, DialAlone, ServingAnswered
<1>4. sole' => ~Granted'
  BY <1>0 DEF DialReaches, HolePunched, DialAlone, Granted
<1> QED
  BY <1>1, <1>3, <1>4 DEF GrantKept

LEMMA DialFailsKeeps ==
    ASSUME SessionInv, DialFails
    PROVE  SessionInv'
<1> USE DEF SessionInv, DialFails
<1>1. SessionTypeOK'
  BY DEF SessionTypeOK, guardVars
<1>2. ServingConnected' /\ NoEndlessWait' /\ AwaitedConnected' /\ DialAlone' /\ ServingAnswered'
  BY DEF ServingConnected, NoEndlessWait, AwaitedConnected, DialAlone, ServingAnswered,
         Established, Underway
<1>3. GrantKept'
  BY GuardSideFrame DEF Granted, guardVars, GuardSide
<1> QED
  BY <1>1, <1>2, <1>3

LEMMA RequestTimesOutKeeps ==
    ASSUME SessionInv, RequestTimesOut
    PROVE  SessionInv'
<1> USE DEF SessionInv, RequestTimesOut
<1>1. /\ request \in Request /\ request' \in Request /\ request' # None
      /\ request'.kind = request.kind /\ request'.conn = request.conn
      /\ request'.status = "failed"
  BY DEF SessionTypeOK, Request, Status
<1>2. SessionTypeOK'
  BY <1>1 DEF SessionTypeOK, guardVars
<1>3. ServingConnected' /\ NoEndlessWait' /\ AwaitedConnected' /\ DialAlone'
  BY <1>1 DEF ServingConnected, NoEndlessWait, AwaitedConnected, DialAlone, Established, Underway
<1>4. control # "serving"
  BY DEF ServingAnswered
<1>5. ServingAnswered' /\ GrantKept'
  BY <1>1, <1>4 DEF ServingAnswered, GrantKept, Granted
<1> QED
  BY <1>2, <1>3, <1>5

(* The Guard restarts, or changes its list: a session that ends takes the  *)
(* open connections with it.                                               *)
LEMMA GuardChangesKeeps ==
    ASSUME SessionInv, GuardStops \/ GuardStarts \/ Unlisted \/ Relisted
    PROVE  SessionInv'
<1> USE DEF SessionInv, GuardStops, GuardStarts, Unlisted, Relisted
<1>0. guard \in [Conn -> End] /\ UNCHANGED ClientSide /\ sole' = sole
  BY DEF SessionTypeOK, clientVars, ClientSide
<1>1. SessionTypeOK'
  BY <1>0, DisconnectedSide DEF SessionTypeOK, clientVars, End
<1>2. GrantKept'
  BY <1>0, ClientSideFrame, DisconnectedSide DEF GrantKept
<1> QED
  BY <1>0, <1>1, <1>2, ClientSideFrame

(* Signals and the calming of the environment touch neither side. *)
LEMMA SignalKeeps ==
    ASSUME SessionInv, ShutdownSignal \/ CalmSets \/ UNCHANGED sessionVars
    PROVE  SessionInv'
<1> USE DEF SessionInv, ShutdownSignal, CalmSets, sessionVars
<1>0. UNCHANGED ClientSide /\ UNCHANGED GuardSide
  BY DEF clientVars, guardVars, ClientSide, GuardSide
<1>1. SessionTypeOK'
  BY DEF SessionTypeOK, clientVars, guardVars
<1> QED
  BY <1>0, <1>1, ClientSideFrame, GuardSideFrame

-----------------------------------------------------------------------------
LEMMA SessionInitHolds == SessionInit => SessionInv
<1> SUFFICES ASSUME SessionInit PROVE SessionInv
  OBVIOUS
<1> PICK c \in Conn :
        /\ client = [d \in Conn |-> IF d = c THEN "open" ELSE "absent"]
        /\ guard = [d \in Conn |-> IF d = c THEN "open" ELSE "absent"]
  BY DEF SessionInit
<1> USE DEF SessionInit
<1>1. SessionTypeOK
  BY DEF SessionTypeOK, Control, End
<1>2. c \in Established
  BY DEF Established
<1>3. ServingConnected /\ NoEndlessWait /\ AwaitedConnected
  BY <1>2 DEF ServingConnected, NoEndlessWait, AwaitedConnected
<1>4. DialAlone /\ ServingAnswered /\ GrantKept
  BY DEF DialAlone, ServingAnswered, GrantKept
<1> QED
  BY <1>1, <1>3, <1>4 DEF SessionInv

LEMMA SessionStepKeeps == SessionInv /\ [SessionNext]_sessionVars => SessionInv'
<1> SUFFICES ASSUME SessionInv, [SessionNext]_sessionVars
             PROVE  SessionInv'
  OBVIOUS
<1>1. CASE ClientNext
  BY <1>1, RedialKeeps, TurnKeeps, DialErrorTakenKeeps, ChallengeTakenKeeps, GrantTakenKeeps,
     EstablishedTakenKeeps, ClosedTakenKeeps
  DEF ClientNext
<1>2. CASE GuardNext
  BY <1>2, GuardAnswersKeeps, GuardRefusesKeeps, GuardEstablishedKeeps, GuardClosedKeeps
  DEF GuardNext
<1>3. CASE NetworkNext
  BY <1>3, NoticedKeeps, ArrivesKeeps DEF NetworkNext
<1>4. CASE Trouble
  BY <1>4, SignalKeeps, TunnelRefusedKeeps, RequestTimesOutKeeps, DialFailsKeeps,
     GuardChangesKeeps, NoticedKeeps, ArrivesKeeps
  DEF Trouble
<1>5. CASE UNCHANGED sessionVars
  BY <1>5, SignalKeeps
<1> QED
  BY <1>1, <1>2, <1>3, <1>4, <1>5 DEF SessionNext

(* The inductive invariant of the session keeper, whatever the Guard, the  *)
(* network and the shutdown token do meanwhile.                            *)
THEOREM SessionInvariant == SessionSpec => []SessionInv
<1>1. SessionInit => SessionInv
  BY SessionInitHolds
<1>2. SessionInv /\ [SessionNext]_sessionVars => SessionInv'
  BY SessionStepKeeps
<1> QED
  BY <1>1, <1>2, PTL DEF SessionSpec

(* run_client_session never believes itself in session without a           *)
(* connection, for any number of connections to the Guard.                 *)
THEOREM NeverServesUnconnected == SessionSpec => []ServingConnected
<1>1. SessionInv => ServingConnected
  BY DEF SessionInv
<1> QED
  BY <1>1, SessionInvariant, PTL

(* authenticate never waits for what cannot come: its dial is under way,   *)
(* or its request lies with a connection whose end it will be told.        *)
THEOREM EveryWaitCanEnd == SessionSpec => []NoEndlessWait
<1>1. SessionInv => NoEndlessWait
  BY DEF SessionInv
<1> QED
  BY <1>1, SessionInvariant, PTL

(* A Client that serves over a connection open at both ends, the only one  *)
(* since the grant, still has its session at the Guard.                    *)
THEOREM ServedSessionIsHeld == SessionSpec => []SessionHeld
<1>1. SessionInv => SessionHeld
  BY DEF SessionInv, SessionHeld, GrantKept, Granted
<1> QED
  BY <1>1, SessionInvariant, PTL

-----------------------------------------------------------------------------
(* Steps seen by Keeper: those that change what the keeper does, and the   *)
(* cancellation of the token.                                              *)
LEMMA KeptIs ==
    /\ control \in {"redial", "backoff"} => Kept = "sleeping"
    /\ control \in {"connecting", "challenge", "grant"} => Kept = "attempting"
    /\ control \in {"serving", "draining", "stopped"} => Kept = control
BY DEF Kept

LEMMA KeptBecomes ==
    /\ control' \in {"redial", "backoff"} => Kept' = "sleeping"
    /\ control' \in {"connecting", "challenge", "grant"} => Kept' = "attempting"
    /\ control' \in {"serving", "draining", "stopped"} => Kept' = control'
BY DEF Kept

LEMMA KeptUnchanged ==
    ASSUME UNCHANGED <<control, shutdown>>
    PROVE  UNCHANGED Promise!keeperVars
BY DEF Kept, Promise!keeperVars

LEMMA SessionStepPromised ==
    SessionInv /\ [SessionNext]_sessionVars => [Promise!KeeperNext]_(Promise!keeperVars)
<1> SUFFICES ASSUME SessionInv, [SessionNext]_sessionVars
             PROVE  Promise!KeeperNext \/ UNCHANGED Promise!keeperVars
  OBVIOUS
<1> USE DEF Promise!KeeperNext, Promise!Turns
<1>0. control \in Control
  BY DEF SessionInv, SessionTypeOK
<1>1. CASE Redial
  <2>1. CASE control' = "connecting"
    BY <1>1, <2>1, KeptIs, KeptBecomes DEF Redial, Promise!Attempts
  <2>2. CASE control' = "backoff"
    BY <1>1, <2>2, KeptIs, KeptBecomes DEF Redial, Promise!keeperVars
  <2> QED
    BY <1>1, <2>1, <2>2 DEF Redial
<1>2. CASE BackoffEnds
  BY <1>2, KeptIs, KeptBecomes DEF BackoffEnds, Promise!keeperVars
<1>3. CASE ShutdownSeen
  BY <1>3, KeptIs, KeptBecomes DEF ShutdownSeen, Promise!Drains
<1>4. CASE GraceEnds
  BY <1>4, KeptIs, KeptBecomes DEF GraceEnds, Promise!Stops
<1>5. CASE DialErrorTaken
  <2>1. control = "connecting" /\ control' = "backoff" /\ shutdown' = shutdown
    BY <1>5 DEF DialErrorTaken, SessionInv, DialAlone
  <2> QED
    BY <2>1, KeptIs, KeptBecomes DEF Promise!GivesUp
<1>6. CASE ChallengeTaken
  BY <1>6, KeptIs, KeptBecomes DEF ChallengeTaken, Promise!keeperVars
<1>7. CASE GrantTaken
  BY <1>7, KeptIs, KeptBecomes DEF GrantTaken, Promise!Regains
<1>8. CASE FailureTaken
  BY <1>8, KeptIs, KeptBecomes DEF FailureTaken, Promise!GivesUp
<1>9. ASSUME NEW c \in Conn, EstablishedTaken(c)
      PROVE  UNCHANGED Promise!keeperVars
  <2>1. CASE control = "connecting"
    BY <1>9, <2>1, KeptIs, KeptBecomes DEF EstablishedTaken, Promise!keeperVars
  <2>2. CASE control # "connecting"
    BY <1>9, <2>2, KeptUnchanged DEF EstablishedTaken
  <2> QED
    BY <2>1, <2>2
<1>10. ASSUME NEW c \in Conn, ClosedTaken(c)
       PROVE  Promise!KeeperNext \/ UNCHANGED Promise!keeperVars
  <2>1. CASE control \in {"challenge", "grant"}
    BY <1>10, <2>1, KeptIs, KeptBecomes DEF ClosedTaken, AfterClosing, Promise!GivesUp
  <2>2. CASE control = "serving" /\ Established = {c}
    BY <1>10, <2>2, KeptIs, KeptBecomes DEF ClosedTaken, AfterClosing, Promise!Loses
  <2>3. CASE control \notin {"challenge", "grant"} /\ ~(control = "serving" /\ Established = {c})
    BY <1>10, <2>3, KeptUnchanged DEF ClosedTaken, AfterClosing
  <2> QED
    BY <2>1, <2>2, <2>3
<1>11. CASE ShutdownSignal
  <2>1. Kept' = Kept
    BY <1>11 DEF ShutdownSignal, Kept
  <2> QED
    BY <1>11, <2>1 DEF ShutdownSignal, Promise!Cancel
<1>12. CASE GuardNext
  BY <1>12, KeptUnchanged
  DEF GuardNext, GuardAnswers, GuardRefuses, GuardEstablished, GuardClosed, clientVars
<1>13. CASE NetworkNext
  BY <1>13, KeptUnchanged DEF NetworkNext, Noticed, DialReaches
<1>14. CASE Trouble /\ ~ShutdownSignal
  BY <1>14, KeptUnchanged
  DEF Trouble, TunnelRefused, RequestTimesOut, DialFails, GuardStops, GuardStarts, Unlisted,
      Relisted, CalmSets, Breaks, HolePunched, clientVars
<1>15. CASE UNCHANGED sessionVars
  BY <1>15, KeptUnchanged DEF sessionVars, clientVars
<1> QED
  BY <1>1, <1>2, <1>3, <1>4, <1>5, <1>6, <1>7, <1>8, <1>9, <1>10, <1>11, <1>12, <1>13, <1>14,
     <1>15
  DEF SessionNext, ClientNext

(* Step by step, the session keeper is the Keeper the redirections build   *)
(* on: it leaves the session only to win it back, and ends only after the  *)
(* token, through a drain.  (Keeper's fairness stays with the runs.)       *)
THEOREM SessionKeepsPromise ==
    SessionSpec => Promise!KeeperInit /\ [][Promise!KeeperNext]_(Promise!keeperVars)
<1>1. SessionInit => Promise!KeeperInit
  BY KeptIs DEF SessionInit, Promise!KeeperInit
<1> QED
  BY <1>1, SessionStepPromised, SessionInvariant, PTL DEF SessionSpec

=============================================================================
