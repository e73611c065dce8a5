------------------------------- MODULE Keeper -------------------------------
(***************************************************************************)
(* What a Client's session keeper (run_client_session) promises to the     *)
(* local redirections that share its process: it leaves the session only   *)
(* to win it back, it ends only after the shutdown token was cancelled,    *)
(* and only through a drain during which the swarm is driven and from      *)
(* which it does not go back.                                              *)
(* ClientSession is shown to implement it; Forwarding builds on it.        *)
(***************************************************************************)

VARIABLES
    keeper,     \* what the keeper does
    cancelled   \* the shutdown token

keeperVars == <<keeper, cancelled>>

Activity == {"serving", "sleeping", "attempting", "draining", "stopped"}

(* The swarm is driven: events are taken, streams can be opened. *)
Polled == {"serving", "attempting", "draining"}

KeeperInit == keeper = "serving" /\ cancelled = FALSE

Cancel ==
    /\ ~cancelled
    /\ cancelled' = TRUE
    /\ UNCHANGED keeper

Turns(from, to) == keeper = from /\ keeper' = to /\ UNCHANGED cancelled

(* The last connection is lost; an attempt to win the session back fails   *)
(* and is slept over, or succeeds.                                         *)
Loses == Turns("serving", "sleeping")
Attempts == Turns("sleeping", "attempting")
GivesUp == Turns("attempting", "sleeping")
Regains == Turns("attempting", "serving")

(* The token may be seen at any time: its documentation has it end the     *)
(* reconnection too (node.rs 503), the code looks at it only in between.   *)
Drains == cancelled /\ \E from \in {"serving", "sleeping", "attempting"} : Turns(from, "draining")
Stops == Turns("draining", "stopped")

KeeperNext == Cancel \/ Loses \/ Attempts \/ GivesUp \/ Regains \/ Drains \/ Stops

(* The token is seen if the session lasts, the grace period ends. *)
KeeperSpec ==
    /\ KeeperInit /\ [][KeeperNext]_keeperVars
    /\ WF_keeperVars(keeper = "serving" /\ Drains) /\ WF_keeperVars(Stops)
=============================================================================
