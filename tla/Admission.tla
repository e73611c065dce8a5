----------------------------- MODULE Admission -----------------------------
(***************************************************************************)
(* What the authority of a Guard promises, with nonces, clocks and         *)
(* signatures left out: who is listed, who has been challenged, who is in  *)
(* session, and the only steps that may change that.                       *)
(*                                                                         *)
(* Authenticator implements this specification; GuardNode is built on it.  *)
(* The operations are those of src/crates/nux-core/src/auth/mod.rs.        *)
(***************************************************************************)

CONSTANTS
    Peer,   \* identities (PeerId)
    Role,   \* role names a whitelist entry may carry
    None    \* Option::None

(* A whitelist maps every peer to its roles, or to None when it is absent. *)
Whitelist == [Peer -> {None} \cup SUBSET Role]

ASSUME AdmissionAssumption == \A roles \in SUBSET Role : None # roles

VARIABLES
    whitelist,   \* the current whitelist
    challenged,  \* peers with a challenge pending
    sessions     \* peers that hold a session

admissionVars == <<whitelist, challenged, sessions>>

-----------------------------------------------------------------------------
Listed(p) == whitelist[p] # None

(* Whitelist::allow replaces the roles of a peer or adds the peer. *)
Allow(p, roles) ==
    /\ whitelist' = [whitelist EXCEPT ![p] = roles]
    /\ UNCHANGED <<challenged, sessions>>

(* issue_at challenges listed peers only. *)
Issue(p) ==
    /\ Listed(p)
    /\ challenged' = challenged \cup {p}
    /\ UNCHANGED <<whitelist, sessions>>

(* verify_at, answer accepted: the challenge is gone, the session is there. *)
Grant(p) ==
    /\ p \in challenged
    /\ Listed(p)
    /\ challenged' = challenged \ {p}
    /\ sessions' = sessions \cup {p}
    /\ UNCHANGED whitelist

(* verify_at, answer refused: the challenge is gone all the same. *)
Reject(p) ==
    /\ challenged' = challenged \ {p}
    /\ UNCHANGED <<whitelist, sessions>>

(* What revoke and end_session both do to the tables of the peers S. *)
Forget(S) ==
    /\ challenged' = challenged \ S
    /\ sessions' = sessions \ S

(* revoke: off the whitelist, session closed, pending challenge void. *)
Revoke(p) ==
    /\ whitelist' = [whitelist EXCEPT ![p] = None]
    /\ Forget({p})

EndSession(p) ==
    /\ Forget({p})
    /\ UNCHANGED whitelist

(* The peers in session that a new whitelist leaves out are revoked. *)
Dropped(new) == {p \in sessions : new[p] = None}

ReloadWhitelist(new) ==
    /\ whitelist' = new
    /\ Forget(Dropped(new))

(* session_roles: the roles of the whitelist now, for a peer in session. *)
SessionRoles(p) == IF p \in sessions THEN whitelist[p] ELSE None

-----------------------------------------------------------------------------
AdmissionInit ==
    /\ whitelist \in Whitelist
    /\ challenged = {}
    /\ sessions = {}

AdmissionNext ==
    \/ \E new \in Whitelist : ReloadWhitelist(new)
    \/ \E p \in Peer :
        \/ Issue(p)
        \/ Grant(p)
        \/ Reject(p)
        \/ Revoke(p)
        \/ EndSession(p)
        \/ \E roles \in SUBSET Role : Allow(p, roles)

AdmissionSpec == AdmissionInit /\ [][AdmissionNext]_admissionVars

=============================================================================
