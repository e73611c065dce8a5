--------------------------- MODULE ClientSession ---------------------------
(***************************************************************************)
(* A Client keeping its session with one Guard: run_client_session,        *)
(* reauthenticate, redial_known_peer and authenticate of                   *)
(* src/crates/nux-core/src/node.rs, as the client command of nux-cli runs  *)
(* them once the first authentication has succeeded.                       *)
(*                                                                         *)
(* The Client is one task.  It learns what happened to its connections and *)
(* to its request only by polling the swarm, one event at a time, and its  *)
(* swarm's view moves only when it polls: a connection that is down counts *)
(* as established until ConnectionClosed has been taken.  A connection     *)
(* therefore has two ends, each with a status of its own:                  *)
(*   "absent", "arriving" (established, event not taken), "open", "ending" *)
(*   (down, event not taken).                                              *)
(*                                                                         *)
(* The Guard is reduced to what the Client can see of GuardNode: it        *)
(* answers while it admits the peer and is silent otherwise; the session   *)
(* it holds ends with its end of the last connection.  Abandoned requests  *)
(* are not kept: the events they still cause carry another id, which       *)
(* authenticate passes over.                                               *)
(***************************************************************************)

CONSTANTS
    Conn,   \* bound: connections between the two nodes at one time
    None    \* no request

End == {"absent", "arriving", "open", "ending"}
(* A request's fate: with the Guard, processed with nothing to be taken by *)
(* the Client, or a response or a failure for the Client to take.          *)
Status == {"sent", "lost", "answered", "failed"}
Request == [kind : {"init", "answer"}, conn : Conn, status : Status]
Control == {"serving", "redial", "connecting", "challenge", "grant", "backoff",
            "draining", "stopped"}

ASSUME ClientAssumption == \A r \in Request : None # r

VARIABLES
    control,     \* where the Client's task is
    client,      \* the Client's end of each connection
    dialing,     \* the dial of the Guard: "no", "pending", "failed" (event not taken)
    request,     \* the request whose answer authenticate awaits
    shutdown,    \* the shutdown token is cancelled
    guard,       \* the Guard's end of each connection
    up,          \* the Guard runs and can be reached
    admits,      \* the Guard lists the Client
    challenged,  \* the Guard has a challenge pending for the Client
    session,     \* the Guard holds a session for the Client
    sole,        \* history: no second connection since the session was granted
    calm         \* the environment: from now on nothing goes wrong

clientVars == <<control, client, dialing, request, shutdown>>
guardVars == <<guard, up, admits, challenged, session, sole>>
sessionVars == <<clientVars, guardVars, calm>>

(* The Client's swarm: is_connected, is_dialing. *)
Established == {c \in Conn : client[c] \in {"open", "ending"}}
Underway == dialing # "no" \/ \E c \in Conn : client[c] = "arriving"

Attempting == control \in {"redial", "connecting", "challenge", "grant", "backoff"}
Polling == control \notin {"redial", "backoff", "stopped"}

SessionInit ==
    /\ control = "serving"
    /\ \E c \in Conn :
        /\ client = [d \in Conn |-> IF d = c THEN "open" ELSE "absent"]
        /\ guard = [d \in Conn |-> IF d = c THEN "open" ELSE "absent"]
    /\ dialing = "no"
    /\ request = None
    /\ shutdown = FALSE
    /\ up = TRUE /\ admits = TRUE
    /\ challenged = FALSE /\ session = TRUE
    /\ sole = TRUE
    /\ calm = FALSE

-----------------------------------------------------------------------------
(* The Client's task: run_client_session and reauthenticate. *)

(* redial_known_peer.  Swarm::dial refuses a peer its table still holds or *)
(* that is being dialled; the attempt has then failed.                     *)
Redial ==
    /\ control = "redial"
    /\ IF Established = {} /\ ~Underway
       THEN control' = "connecting" /\ dialing' = "pending"
       ELSE control' = "backoff" /\ UNCHANGED dialing
    /\ UNCHANGED <<client, request, shutdown, guardVars, calm>>

(* The backoff is over; meanwhile nobody has polled the swarm. *)
BackoffEnds ==
    /\ control = "backoff"
    /\ control' = "redial"
    /\ UNCHANGED <<client, dialing, request, shutdown, guardVars, calm>>

ShutdownSignal ==
    /\ ~shutdown
    /\ shutdown' = TRUE
    /\ UNCHANGED <<control, client, dialing, request, guardVars, calm>>

(* Only the select! of run_client_session looks at the token: reauthenticate*)
(* goes on until it succeeds.                                              *)
ShutdownSeen ==
    /\ control = "serving"
    /\ shutdown
    /\ control' = "draining"
    /\ UNCHANGED <<client, dialing, request, shutdown, guardVars, calm>>

GraceEnds ==
    /\ control = "draining"
    /\ control' = "stopped"
    /\ UNCHANGED <<client, dialing, request, shutdown, guardVars, calm>>

-----------------------------------------------------------------------------
(* Events the Client takes from its swarm, authenticate's among them.      *)

(* Variation: the request is sent before the connection is there. *)
SendUnconnected(kind, c) == request' = [kind |-> kind, conn |-> None, status |-> "sent"]

Send(kind, c) == request' = [kind |-> kind, conn |-> c, status |-> "sent"]

(* Variation: a dial by address alone, whose error names no peer. *)
DialErrorIgnored ==
    /\ Polling
    /\ dialing = "failed"
    /\ dialing' = "no"
    /\ UNCHANGED <<control, client, request, shutdown, guardVars, calm>>

(* OutgoingConnectionError with the Guard's id. *)
DialErrorTaken ==
    /\ Polling
    /\ dialing = "failed"
    /\ dialing' = "no"
    /\ control' = IF control = "connecting" THEN "backoff" ELSE control
    /\ UNCHANGED <<client, request, shutdown, guardVars, calm>>

(* Variation: the connection is back, the handshake is not replayed. *)
EstablishedIsEnough(c) ==
    /\ Polling
    /\ client[c] = "arriving"
    /\ client' = [client EXCEPT ![c] = "open"]
    /\ control' = IF control = "connecting" THEN "serving" ELSE control
    /\ UNCHANGED <<dialing, request, shutdown, guardVars, calm>>

(* ConnectionEstablished: authenticate sends HandshakeInit. *)
EstablishedTaken(c) ==
    /\ Polling
    /\ client[c] = "arriving"
    /\ client' = [client EXCEPT ![c] = "open"]
    /\ IF control = "connecting"
       THEN control' = "challenge" /\ Send("init", c)
       ELSE UNCHANGED <<control, request>>
    /\ UNCHANGED <<dialing, shutdown, guardVars, calm>>

(* Where the task goes on ConnectionClosed of c: authenticate gives up     *)
(* whichever connection it was, run_client_session reconnects after the    *)
(* last.  Variations: only one of the two looks at the event, or the drain *)
(* reconnects as the session does.                                         *)
AfterServingOnly(c) ==
    IF control = "serving" /\ Established = {c} THEN "redial" ELSE control
AfterAttemptOnly(c) == IF control \in {"challenge", "grant"} THEN "backoff" ELSE control

AfterDrainToo(c) ==
    CASE control \in {"challenge", "grant"} -> "backoff"
      [] control \in {"serving", "draining"} /\ Established = {c} -> "redial"
      [] OTHER -> control

AfterClosing(c) ==
    CASE control \in {"challenge", "grant"} -> "backoff"
      [] control = "serving" /\ Established = {c} -> "redial"
      [] OTHER -> control

(* A response or a failure that came over c is taken before c's closing. *)
Undelivered(c) ==
    /\ control \in {"challenge", "grant"}
    /\ request.conn = c
    /\ request.status \in {"answered", "failed"}

ClosedTaken(c) ==
    /\ Polling
    /\ client[c] = "ending"
    /\ ~Undelivered(c)
    /\ client' = [client EXCEPT ![c] = "absent"]
    /\ control' = AfterClosing(c)
    /\ UNCHANGED <<dialing, request, shutdown, guardVars, calm>>

(* A response to the awaited request. *)
ChallengeTaken ==
    /\ control = "challenge"
    /\ request.status = "answered"
    /\ control' = "grant"
    /\ \E c \in Established : Send("answer", c)
    /\ UNCHANGED <<client, dialing, shutdown, guardVars, calm>>

GrantTaken ==
    /\ control = "grant"
    /\ request.status = "answered"
    /\ control' = "serving"
    /\ UNCHANGED <<client, dialing, request, shutdown, guardVars, calm>>

(* OutboundFailure of the awaited request. *)
FailureTaken ==
    /\ control \in {"challenge", "grant"}
    /\ request.status = "failed"
    /\ control' = "backoff"
    /\ UNCHANGED <<client, dialing, request, shutdown, guardVars, calm>>

-----------------------------------------------------------------------------
(* The Guard, as the Client can see it. *)

Awaited == request # None /\ request.status = "sent" /\ guard[request.conn] = "open"

GuardEstablished(c) ==
    /\ guard[c] = "arriving"
    /\ guard' = [guard EXCEPT ![c] = "open"]
    /\ UNCHANGED <<clientVars, up, admits, challenged, session, sole, calm>>

(* The session and the challenge go with the last connection. *)
GuardClosed(c) ==
    LET last == \A d \in Conn \ {c} : guard[d] \in {"absent", "arriving"} IN
    /\ guard[c] = "ending"
    /\ guard' = [guard EXCEPT ![c] = "absent"]
    /\ session' = (session /\ ~last)
    /\ challenged' = (challenged /\ ~last)
    /\ UNCHANGED <<clientVars, up, admits, sole, calm>>

(* disconnect_peer_id. *)
Disconnected == [c \in Conn |-> IF guard[c] = "open" THEN "ending" ELSE guard[c]]

(* Does the Guard accept the awaited request? *)
Acceptable == admits /\ (request.kind = "answer" => challenged)

(* What the Client will see of it: nothing once its end is down. *)
Reply(status) ==
    request' = [request EXCEPT !.status = IF client[request.conn] = "open" THEN status ELSE "lost"]

GuardAnswers ==
    /\ Awaited /\ Acceptable
    /\ Reply("answered")
    /\ IF request.kind = "init"
       THEN challenged' = TRUE /\ UNCHANGED <<session, sole>>
       ELSE /\ challenged' = FALSE
            /\ session' = TRUE
            /\ sole' = (\A c \in Conn : guard[c] = "absent" \/ c = request.conn)
    /\ UNCHANGED <<control, client, dialing, shutdown, guard, up, admits, calm>>

(* Silence: the stream ends without a byte and the connections are closed. *)
(* The Client sees the end of the stream, or only that of its connection.  *)
(* An answer out of its time window, a Guard shutting down: refused too.   *)
GuardRefuses ==
    /\ Awaited
    /\ ~calm \/ ~Acceptable
    /\ guard' = Disconnected
    /\ challenged' = (challenged /\ request.kind = "init")
    /\ Reply("failed") \/ Reply("lost")
    /\ UNCHANGED <<control, client, dialing, shutdown, up, admits, session, sole, calm>>

(* A tunnel stream without a session: the Guard closes the connections.    *)
(* Once calm, local applications open tunnels only while the Client serves.*)
TunnelRefused ==
    /\ \E c \in Conn : client[c] = "open" /\ guard[c] = "open"
    /\ ~session
    /\ ~calm \/ control = "serving"
    /\ guard' = Disconnected
    /\ UNCHANGED <<clientVars, up, admits, challenged, session, sole, calm>>

-----------------------------------------------------------------------------
(* The network and what may go wrong. *)

(* An end learns that the other one is down. *)
Noticed(c) ==
    /\ \/ /\ client[c] = "open" /\ guard[c] \in {"ending", "absent"}
          /\ client' = [client EXCEPT ![c] = "ending"]
          /\ UNCHANGED guard
       \/ /\ guard[c] = "open" /\ client[c] \in {"ending", "absent"}
          /\ guard' = [guard EXCEPT ![c] = "ending"]
          /\ UNCHANGED client
    /\ UNCHANGED <<control, dialing, request, shutdown, up, admits, challenged, session, sole, calm>>

DialReaches(c) ==
    /\ dialing = "pending"
    /\ up
    /\ client[c] = "absent" /\ guard[c] = "absent"
    /\ client' = [client EXCEPT ![c] = "arriving"]
    /\ guard' = [guard EXCEPT ![c] = "arriving"]
    /\ dialing' = "no"
    /\ UNCHANGED <<control, request, shutdown, up, admits, challenged, session, sole, calm>>

DialFails ==
    /\ ~calm
    /\ dialing = "pending"
    /\ dialing' = "failed"
    /\ UNCHANGED <<control, client, request, shutdown, guardVars, calm>>

(* An idle timeout or a cut. *)
Breaks(c) ==
    /\ ~calm
    /\ \/ client[c] = "open" /\ client' = [client EXCEPT ![c] = "ending"] /\ UNCHANGED guard
       \/ guard[c] = "open" /\ guard' = [guard EXCEPT ![c] = "ending"] /\ UNCHANGED client
    /\ UNCHANGED <<control, dialing, request, shutdown, up, admits, challenged, session, sole, calm>>

(* A relayed connection is upgraded to a second, direct one (DCUtR). *)
HolePunched(c) ==
    /\ ~calm /\ up
    /\ \E d \in Conn : client[d] = "open" /\ guard[d] = "open"
    /\ client[c] = "absent" /\ guard[c] = "absent"
    /\ client' = [client EXCEPT ![c] = "arriving"]
    /\ guard' = [guard EXCEPT ![c] = "arriving"]
    /\ sole' = FALSE
    /\ UNCHANGED <<control, dialing, request, shutdown, up, admits, challenged, session, calm>>

(* The request timeout of request_response. *)
RequestTimesOut ==
    /\ ~calm
    /\ request # None /\ request.status \in {"sent", "lost"} /\ client[request.conn] = "open"
    /\ request' = [request EXCEPT !.status = "failed"]
    /\ UNCHANGED <<control, client, dialing, shutdown, guardVars, calm>>

GuardStops ==
    /\ ~calm /\ up
    /\ up' = FALSE
    /\ guard' = [c \in Conn |-> "absent"]
    /\ challenged' = FALSE /\ session' = FALSE
    /\ UNCHANGED <<clientVars, admits, sole, calm>>

GuardStarts ==
    /\ ~up
    /\ up' = TRUE
    /\ UNCHANGED <<clientVars, guard, admits, challenged, session, sole, calm>>

(* The Client is taken off the Guard's whitelist, or put back.  Of a peer  *)
(* without a session a revocation removes the pending challenge, a reload  *)
(* does not.                                                               *)
Unlisted ==
    /\ ~calm /\ admits
    /\ admits' = FALSE
    /\ challenged' \in {FALSE, challenged /\ ~session}
    /\ session' = FALSE
    /\ guard' = IF session THEN Disconnected ELSE guard
    /\ UNCHANGED <<clientVars, up, sole, calm>>

Relisted ==
    /\ ~admits
    /\ admits' = TRUE
    /\ UNCHANGED <<clientVars, guard, up, challenged, session, sole, calm>>

CalmSets ==
    /\ up /\ admits /\ ~calm
    /\ calm' = TRUE
    /\ UNCHANGED <<clientVars, guardVars>>

-----------------------------------------------------------------------------
ClientNext ==
    \/ Redial \/ BackoffEnds \/ ShutdownSeen \/ GraceEnds
    \/ DialErrorTaken \/ ChallengeTaken \/ GrantTaken \/ FailureTaken
    \/ \E c \in Conn : EstablishedTaken(c) \/ ClosedTaken(c)

GuardNext ==
    \/ GuardAnswers \/ GuardRefuses
    \/ \E c \in Conn : GuardEstablished(c) \/ GuardClosed(c)

NetworkNext == \E c \in Conn : Noticed(c) \/ DialReaches(c)

Trouble ==
    \/ ShutdownSignal \/ TunnelRefused \/ RequestTimesOut \/ DialFails
    \/ GuardStops \/ GuardStarts \/ Unlisted \/ Relisted \/ CalmSets
    \/ \E c \in Conn : Breaks(c) \/ HolePunched(c)

SessionNext == ClientNext \/ GuardNext \/ NetworkNext \/ Trouble

SessionSpec == SessionInit /\ [][SessionNext]_sessionVars

(* The Client's task runs, its timers fire, the Guard serves its events    *)
(* and requests, the network reports a broken connection and ends a dial.  *)
(* Nothing forces a token to be cancelled, a Guard to start, a tunnel to   *)
(* be opened or the environment to calm down.                              *)
SessionFairness ==
    /\ WF_sessionVars(Redial) /\ WF_sessionVars(BackoffEnds)
    /\ WF_sessionVars(DialErrorTaken) /\ WF_sessionVars(DialFails)
    /\ WF_sessionVars(ChallengeTaken) /\ WF_sessionVars(GrantTaken)
    /\ WF_sessionVars(FailureTaken)
    /\ WF_sessionVars(ShutdownSeen) /\ WF_sessionVars(GraceEnds)
    /\ WF_sessionVars(GuardAnswers \/ GuardRefuses)
    /\ \A c \in Conn :
        /\ WF_sessionVars(EstablishedTaken(c)) /\ WF_sessionVars(ClosedTaken(c))
        /\ WF_sessionVars(GuardEstablished(c)) /\ WF_sessionVars(GuardClosed(c))
        /\ WF_sessionVars(Noticed(c)) /\ WF_sessionVars(DialReaches(c))

FairSessionSpec == SessionSpec /\ SessionFairness

-----------------------------------------------------------------------------
SessionTypeOK ==
    /\ control \in Control
    /\ client \in [Conn -> End] /\ guard \in [Conn -> End]
    /\ dialing \in {"no", "pending", "failed"}
    /\ request \in {None} \cup Request
    /\ {shutdown, up, admits, challenged, session, sole, calm} \subseteq BOOLEAN

(* The Client never believes itself in session without a connection: the   *)
(* loss of the last one is noticed whichever loop takes the event          *)
(* (run_client_session, authenticate).                                     *)
ServingConnected == control = "serving" => Established # {}

(* Whatever authenticate waits for will come, or the event that ends the   *)
(* wait will: a dial under way, a request the Guard has, or an answer, a   *)
(* failure or a ConnectionClosed to take.                                  *)
NoEndlessWait ==
    /\ control = "connecting" => Underway
    /\ control \in {"challenge", "grant"} =>
        \/ request.status \in {"answered", "failed"}
        \/ request.conn \in Established

(* While the Client serves over a connection open at both ends, the Guard  *)
(* holds its session: every loss of the session reaches the Client as the  *)
(* loss of its connection.  (Unless a second connection came in between.)  *)
SessionHeld ==
    control = "serving" /\ sole /\ (\E c \in Conn : client[c] = "open" /\ guard[c] = "open")
        => session

-----------------------------------------------------------------------------
(* What makes the safety properties above inductive.                       *)

(* authenticate awaits the answer to a request of its current step, made   *)
(* over a connection the swarm still counts: it leaves with the first      *)
(* ConnectionClosed.                                                       *)
AwaitedConnected ==
    control \in {"challenge", "grant"} =>
        /\ request # None
        /\ request.kind = (IF control = "challenge" THEN "init" ELSE "answer")
        /\ request.conn \in Established

(* A dial is made without a connection, and only authenticate sees it end. *)
DialAlone == dialing # "no" => control = "connecting" /\ \A c \in Conn : client[c] = "absent"

(* Whoever serves has no request left unanswered. *)
ServingAnswered == control = "serving" => request = None \/ request.status = "answered"

(* From the Guard's grant on, as long as no second connection comes in,    *)
(* the Guard has one connection at most, has taken note of it, and keeps   *)
(* the session while it is open.                                           *)
Granted == control = "serving" \/ (control = "grant" /\ request.status = "answered")
GrantKept ==
    Granted /\ sole =>
        /\ \A c, d \in Conn : guard[c] # "absent" /\ guard[d] # "absent" => c = d
        /\ \A c \in Conn : guard[c] # "arriving"
        /\ (\E c \in Conn : guard[c] = "open") => session

(* The inductive invariant of the session keeper. *)
SessionInv ==
    /\ SessionTypeOK
    /\ ServingConnected
    /\ NoEndlessWait
    /\ AwaitedConnected
    /\ DialAlone
    /\ ServingAnswered
    /\ GrantKept

-----------------------------------------------------------------------------
(* The backoff loop without a way out: the swarm still counts a connection *)
(* and nobody polls it.                                                    *)
Stuck == control \in {"redial", "backoff"} /\ (Established # {} \/ Underway)

(* Once nothing goes wrong any more, an attempt to reauthenticate succeeds *)
(* or is stuck: no other outcome, and no endless alternation.              *)
ReauthenticatesOrSticks == calm /\ Attempting ~> control = "serving" \/ Stuck

(* "Recompose le Guard et rejoue le handshake jusqu'au succes"             *)
(* (reauthenticate): it succeeds once nothing goes wrong any more.         *)
ReauthenticationSucceeds == calm /\ Attempting ~> control = "serving"

(* The keeper of Keeper: redialling and backing off, it leaves the swarm   *)
(* alone.                                                                  *)
Kept ==
    CASE control \in {"redial", "backoff"} -> "sleeping"
      [] control \in {"connecting", "challenge", "grant"} -> "attempting"
      [] OTHER -> control

Promise == INSTANCE Keeper WITH keeper <- Kept, cancelled <- shutdown

(* The session keeper is a keeper as the redirections know it (Keeper): it *)
(* never drains or stops on its own, nor without the drain they count on,  *)
(* and nothing that happens to its connections takes it out of the drain.  *)
ImplementsKeeper == Promise!KeeperSpec

=============================================================================
