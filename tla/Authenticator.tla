--------------------------- MODULE Authenticator ---------------------------
(***************************************************************************)
(* The challenge-response authority of a Guard: GuardAuthenticator of      *)
(* src/crates/nux-core/src/auth/mod.rs with the Whitelist it consults.     *)
(*                                                                         *)
(* Each operation of the authority is an operator on its three tables and  *)
(* on the history kept for the properties.  Spec drives them in any order, *)
(* as several peers, several connections per peer and an administrator do. *)
(* GuardNode reuses the same operators inside the handlers of the node.    *)
(*                                                                         *)
(* Signatures are ideal: a signature is the key that made it together with *)
(* the payload it covers, and it verifies against exactly that key and     *)
(* payload.  A nonce is 32 bytes from the system's generator: it is        *)
(* modelled as the next number never drawn before.                         *)
(***************************************************************************)
EXTENDS Integers

CONSTANTS
    Peer,       \* identities (PeerId, which embeds the public key)
    Role,       \* role names a whitelist entry may carry
    None,       \* Option::None
    MaxSkew,    \* MAX_CLOCK_SKEW_SECS, lifetime of a challenge and skew allowed
    MaxClock,   \* bound: greatest reading of a wall clock, in seconds
    MaxNonce    \* bound: number of challenges issued in a behaviour

Clock == 0..MaxClock
Nonce == 1..MaxNonce

IssuedChallenge == [nonce : Nonce, issued_at : Clock]

(* A whitelist maps every peer to its roles, or to None when it is absent. *)
Whitelist == [Peer -> {None} \cup SUBSET Role]

(* What a signature covers (nonce, timestamp) and the key that made it. *)
Signature == [key : Peer, nonce : Nonce, timestamp : Clock]

ASSUME AuthAssumption ==
    /\ MaxSkew \in Nat
    /\ MaxClock \in Nat
    /\ MaxNonce \in Nat
    /\ \A roles \in SUBSET Role : None # roles
    /\ \A challenge \in IssuedChallenge : None # challenge

VARIABLES
    whitelist,  \* the current whitelist
    pending,    \* challenge awaiting its answer, one at most per peer
    sessions,   \* peers that hold a session (the roles kept with it are never read)
    clock,      \* the Guard's wall clock, unix_now
    nextNonce,  \* the nonce the next challenge will carry
    grants,     \* history: sessions granted on each nonce
    basis,      \* history: nonce behind the last session granted to each peer
    cutoff,     \* history: nextNonce when the peer's access last ended
    spared      \* history: nonces that a reload left pending for peers it unlisted

tables == <<pending, sessions>>
history == <<grants, basis, cutoff, spared>>
authVars == <<whitelist, tables, clock, nextNonce, history>>

-----------------------------------------------------------------------------
(* Whitelist. *)

Listed(p) == whitelist[p] # None

(* Whitelist::allow replaces the roles of a peer or adds the peer. *)
Allow(p, roles) ==
    /\ whitelist' = [whitelist EXCEPT ![p] = roles]
    /\ UNCHANGED <<pending, sessions, clock, nextNonce, history>>

-----------------------------------------------------------------------------
(* The authority. *)

AuthInit ==
    /\ whitelist \in Whitelist
    /\ pending = [p \in Peer |-> None]
    /\ sessions = {}
    /\ clock \in Clock
    /\ nextNonce = 1
    /\ grants = [n \in Nonce |-> 0]
    /\ basis = [p \in Peer |-> 1]
    /\ cutoff = [p \in Peer |-> 1]
    /\ spared = {}

(* Variation of issue_at: the generator repeats itself. *)
IssueRepeatingNonce(p) ==
    /\ Listed(p)
    /\ nextNonce \in Nonce
    /\ pending' = [pending EXCEPT ![p] = [nonce |-> nextNonce, issued_at |-> clock]]
    /\ UNCHANGED <<whitelist, sessions, clock, nextNonce, history>>

(* issue_at: a fresh challenge replaces the one pending for the peer.  For *)
(* a peer that is not listed the code issues nothing.                      *)
Issue(p) ==
    /\ Listed(p)
    /\ nextNonce \in Nonce
    /\ pending' = [pending EXCEPT ![p] = [nonce |-> nextNonce, issued_at |-> clock]]
    /\ nextNonce' = nextNonce + 1
    /\ UNCHANGED <<whitelist, sessions, clock, history>>

(* u64::saturating_sub and u64::abs_diff on seconds. *)
SaturatingSub(a, b) == IF a > b THEN a - b ELSE 0
AbsDiff(a, b) == IF a > b THEN a - b ELSE b - a

(* Variation of the checks: the whitelist is not consulted again. *)
AcceptsUnlisted(p, signature, timestamp) ==
    /\ pending[p] # None
    /\ SaturatingSub(clock, pending[p].issued_at) <= MaxSkew
    /\ AbsDiff(clock, timestamp) <= MaxSkew
    /\ signature = [key |-> p, nonce |-> pending[p].nonce, timestamp |-> timestamp]

(* The checks of verify_at, in the order of the code.  One more only       *)
(* refuses: a PeerId no public key can be taken from.                      *)
Accepts(p, signature, timestamp) ==
    /\ pending[p] # None
    /\ SaturatingSub(clock, pending[p].issued_at) <= MaxSkew
    /\ AbsDiff(clock, timestamp) <= MaxSkew
    /\ Listed(p)
    /\ signature = [key |-> p, nonce |-> pending[p].nonce, timestamp |-> timestamp]

(* Variation: the challenge is read, not removed. *)
ConsumeNothing(p) == pending' = pending

(* verify_at consumes the challenge before it looks at the answer. *)
Consume(p) == pending' = [pending EXCEPT ![p] = None]

Grant(p, signature, timestamp) ==
    /\ Accepts(p, signature, timestamp)
    /\ Consume(p)
    /\ sessions' = sessions \cup {p}
    /\ grants' = [grants EXCEPT ![pending[p].nonce] = @ + 1]
    /\ basis' = [basis EXCEPT ![p] = pending[p].nonce]
    /\ UNCHANGED <<whitelist, clock, nextNonce, cutoff, spared>>

Reject(p, signature, timestamp) ==
    /\ ~Accepts(p, signature, timestamp)
    /\ Consume(p)
    /\ UNCHANGED <<whitelist, sessions, clock, nextNonce, history>>

(* Variation: the session is closed, the pending challenge is kept. *)
ForgetSessionsOnly(S) == sessions' = sessions \ S /\ UNCHANGED <<pending, clock, nextNonce>>

(* What revoke and end_session both do to the tables of the peers S. *)
Forget(S) ==
    /\ pending' = [p \in Peer |-> IF p \in S THEN None ELSE pending[p]]
    /\ sessions' = sessions \ S
    /\ UNCHANGED <<clock, nextNonce>>

(* History: the access of the peers S ends, and the challenges of those in *)
(* left stay pending.                                                      *)
PendingNonces(S) == {pending[p].nonce : p \in {q \in S : pending[q] # None}}

AccessEnds(S, left) ==
    /\ cutoff' = [p \in Peer |-> IF p \in S THEN nextNonce ELSE cutoff[p]]
    /\ spared' = (spared \ PendingNonces(S)) \cup PendingNonces(left)
    /\ UNCHANGED <<grants, basis>>

(* revoke: off the whitelist, session closed, pending challenge void. *)
Revoke(p) ==
    /\ whitelist' = [whitelist EXCEPT ![p] = None]
    /\ Forget({p})
    /\ AccessEnds({p}, {})

(* end_session, called when the last connection of the peer has closed. *)
EndSession(p) ==
    /\ Forget({p})
    /\ AccessEnds({p}, {})
    /\ UNCHANGED whitelist

(* GuardControl::ReloadWhitelist as the node's loop applies it: the peers  *)
(* that hold a session and are absent from the new list are revoked; a     *)
(* challenge pending for a peer without a session is left where it is.     *)
Dropped(new) == {p \in sessions : new[p] = None}
Unlisted(new) == {p \in Peer : Listed(p) /\ new[p] = None}

(* Variation: the list is replaced and no session is looked at. *)
ReplaceWhitelist(new) ==
    /\ whitelist' = new
    /\ AccessEnds(Unlisted(new), Unlisted(new) \ sessions)
    /\ UNCHANGED <<tables, clock, nextNonce>>

ReloadWhitelist(new) ==
    /\ whitelist' = new
    /\ Forget(Dropped(new))
    /\ AccessEnds(Unlisted(new), Unlisted(new) \ sessions)

(* session_roles: the roles of the whitelist now, for a peer in session. *)
SessionRoles(p) == IF p \in sessions THEN whitelist[p] ELSE None

(* The wall clock runs on, or is set to another time. *)
SetClock ==
    /\ clock' \in Clock
    /\ UNCHANGED <<whitelist, tables, nextNonce, history>>

-----------------------------------------------------------------------------
AuthNext ==
    \/ SetClock
    \/ \E new \in Whitelist : ReloadWhitelist(new)
    \/ \E p \in Peer :
        \/ Issue(p)
        \/ Revoke(p)
        \/ EndSession(p)
        \/ \E roles \in SUBSET Role : Allow(p, roles)
        \/ \E signature \in Signature, timestamp \in Clock :
            \/ Grant(p, signature, timestamp)
            \/ Reject(p, signature, timestamp)

AuthSpec == AuthInit /\ [][AuthNext]_authVars

(* The authority keeps the promises of Admission: a peer is challenged     *)
(* there when a challenge is pending for it here.                          *)
Promised == INSTANCE Admission WITH challenged <- {p \in Peer : pending[p] # None}

(* Every behaviour of the authority is one that Admission allows.          *)
ImplementsAdmission == Promised!AdmissionSpec

-----------------------------------------------------------------------------
(* Every table keeps the shape the code's types give it, and the nonce     *)
(* counter stays ahead of every nonce recorded.                            *)
AuthTypeOK ==
    /\ whitelist \in Whitelist
    /\ pending \in [Peer -> {None} \cup IssuedChallenge]
    /\ sessions \in SUBSET Peer
    /\ clock \in Clock
    /\ nextNonce \in 1..(MaxNonce + 1)
    /\ grants \in [Nonce -> Nat]
    /\ basis \in [Peer -> Nat]
    /\ cutoff \in [Peer -> Nat]
    /\ spared \in SUBSET Nonce

(* A challenge yields at most one session, whatever answers arrive late,   *)
(* twice or on another connection (verify_at consumes it first).           *)
SingleUse == \A n \in Nonce : grants[n] <= 1

(* A challenge that has outlived the access it was issued under grants a   *)
(* session in one case alone: a reload took the peer off the list while it *)
(* had no session, and a later one, or Allow, put it back before the       *)
(* answer.  revoke and end_session void the pending challenge; the loop    *)
(* calls revoke for the peers in session only (node.rs:851-862).           *)
OnlyReloadSparesChallenge == \A p \in sessions : basis[p] < cutoff[p] => basis[p] \in spared

(* A peer in session is on the whitelist now: a handshake that straddles a *)
(* revocation or a reload does not leave a session behind.                 *)
SessionsListed == \A p \in sessions : Listed(p)

-----------------------------------------------------------------------------
(* What makes the three properties above inductive.                        *)

(* A challenge still pending was issued under the peer's current access or *)
(* spared by a reload, and no session rests on it yet.                     *)
PendingFresh ==
    \A p \in Peer : pending[p] # None =>
        /\ cutoff[p] <= pending[p].nonce \/ pending[p].nonce \in spared
        /\ pending[p].nonce < nextNonce
        /\ grants[pending[p].nonce] = 0

(* No two peers are challenged with the same nonce. *)
PendingDistinct ==
    \A p, q \in Peer :
        pending[p] # None /\ pending[q] # None /\ pending[p].nonce = pending[q].nonce
            => p = q

(* Nonces not drawn yet have granted nothing. *)
UnusedUngranted == \A n \in Nonce : n >= nextNonce => grants[n] = 0

(* A session rests on a nonce that has granted one, so on none pending. *)
SessionsEarned == \A p \in sessions : basis[p] \in Nonce /\ grants[basis[p]] # 0

CutoffReached == \A p \in Peer : cutoff[p] <= nextNonce

(* The inductive invariant of the authority: each nonce serves once, and   *)
(* every session and every challenge belongs to its peer's current access, *)
(* or to one that a reload ended without a look at the challenge.          *)
AuthInv ==
    /\ AuthTypeOK
    /\ PendingFresh
    /\ PendingDistinct
    /\ UnusedUngranted
    /\ SessionsEarned
    /\ CutoffReached
    /\ SingleUse
    /\ OnlyReloadSparesChallenge
    /\ SessionsListed

=============================================================================
