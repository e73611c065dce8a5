------------------------ MODULE AuthenticatorProofs ------------------------
(***************************************************************************)
(* Proofs that the authority keeps its inductive invariant AuthInv, for    *)
(* every set of peers and roles and every bound on the clock and the       *)
(* nonces, and the safety properties that follow from it.                  *)
(***************************************************************************)
EXTENDS Authenticator, TLAPS

USE AuthAssumption

(* The nonces pending for the peers of a set: those of the table.          *)
LEMMA NoncesPending ==
    ASSUME AuthTypeOK, PendingFresh, NEW S \in SUBSET Peer
    PROVE  /\ PendingNonces(S) \in SUBSET Nonce
           /\ \A n \in PendingNonces(S) :
                /\ grants[n] = 0
                /\ \E q \in S : pending[q] # None /\ pending[q].nonce = n
BY DEF AuthTypeOK, PendingFresh, PendingNonces, IssuedChallenge

(* The access of the peers in Ended ends: those in S, whoever has a        *)
(* session among them, lose session and challenge; the others have no      *)
(* session, and keep the challenge pending, which the history notes.       *)
(* Everything else follows, whatever list is put in place meanwhile        *)
(* (revoke, end_session, reload).                                          *)
LEMMA AccessEndKeeps ==
    ASSUME NEW Ended \in SUBSET Peer, NEW S \in SUBSET Peer, NEW left \in SUBSET Peer,
           S \subseteq Ended, Ended \ S \subseteq left, Ended \cap sessions \subseteq S,
           AuthInv, Forget(S), AccessEnds(Ended, left),
           whitelist' \in Whitelist, \A p \in sessions \ S : whitelist'[p] # None
    PROVE  AuthInv'
<1> USE DEF AuthInv, Forget, AccessEnds
<1>0. /\ PendingNonces(left) \in SUBSET Nonce
      /\ \A n \in PendingNonces(Ended) :
            /\ grants[n] = 0
            /\ \E q \in Ended : pending[q] # None /\ pending[q].nonce = n
  BY NoncesPending
<1>1. AuthTypeOK'
  BY <1>0 DEF AuthTypeOK
<1>2. PendingFresh'
  <2> SUFFICES ASSUME NEW p \in Peer, pending'[p] # None
               PROVE  /\ cutoff'[p] <= pending'[p].nonce \/ pending'[p].nonce \in spared'
                      /\ pending'[p].nonce < nextNonce'
                      /\ grants'[pending'[p].nonce] = 0
    BY DEF PendingFresh
  <2>1. p \notin S /\ pending'[p] = pending[p]
    BY DEF AuthTypeOK
  <2>2. CASE p \in Ended
    <3>1. p \in left /\ pending[p].nonce \in PendingNonces(left)
      BY <2>1, <2>2 DEF PendingNonces
    <3> QED
      BY <2>1, <3>1 DEF PendingFresh
  <2>3. CASE p \notin Ended
    <3>1. cutoff'[p] = cutoff[p] /\ pending[p].nonce \notin PendingNonces(Ended)
      BY <1>0, <2>1, <2>3 DEF PendingDistinct
    <3> QED
      BY <2>1, <3>1 DEF PendingFresh
  <2> QED
    BY <2>2, <2>3
<1>3. PendingDistinct'
  BY DEF AuthTypeOK, PendingDistinct
<1>4. UnusedUngranted' /\ SingleUse' /\ SessionsEarned'
  BY DEF UnusedUngranted, SingleUse, SessionsEarned
<1>5. CutoffReached'
  BY DEF AuthTypeOK, CutoffReached
<1>6. OnlyReloadSparesChallenge'
  <2> SUFFICES ASSUME NEW p \in sessions', basis'[p] < cutoff'[p]
               PROVE  basis'[p] \in spared'
    BY DEF OnlyReloadSparesChallenge
  <2>1. p \in sessions /\ p \in Peer /\ p \notin Ended
    BY DEF AuthTypeOK
  <2>2. basis[p] \in spared
    BY <2>1 DEF OnlyReloadSparesChallenge
  <2>3. basis[p] \notin PendingNonces(Ended)
    BY <1>0, <2>1 DEF SessionsEarned
  <2> QED
    BY <2>2, <2>3
<1>7. SessionsListed'
  BY DEF AuthTypeOK, SessionsListed, Listed
<1> QED
  BY <1>1, <1>2, <1>3, <1>4, <1>5, <1>6, <1>7

LEMMA InitHolds == AuthInit => AuthInv
BY DEF AuthInit, AuthInv, AuthTypeOK, PendingFresh, PendingDistinct, UnusedUngranted,
       SessionsEarned, CutoffReached, SingleUse, OnlyReloadSparesChallenge,
       SessionsListed, Nonce, Clock

LEMMA IssueKeeps ==
    ASSUME NEW p \in Peer, AuthInv, Issue(p)
    PROVE  AuthInv'
<1> USE DEF AuthInv, Issue, history
<1>0. [nonce |-> nextNonce, issued_at |-> clock] \in IssuedChallenge
  BY DEF AuthTypeOK, IssuedChallenge
<1>1. AuthTypeOK'
  BY <1>0 DEF AuthTypeOK, Nonce
<1>2. PendingFresh'
  BY <1>0 DEF AuthTypeOK, PendingFresh, UnusedUngranted, CutoffReached,
                Nonce, IssuedChallenge
<1>3. PendingDistinct'
  BY <1>0 DEF AuthTypeOK, PendingDistinct, PendingFresh, Nonce
<1>4. UnusedUngranted' /\ SingleUse'
  <2>1. nextNonce \in Nat /\ nextNonce' = nextNonce + 1 /\ grants' = grants
    BY DEF AuthTypeOK
  <2> QED
    BY <2>1 DEF UnusedUngranted, SingleUse, Nonce
<1>5. CutoffReached'
  BY DEF AuthTypeOK, CutoffReached, Nonce
<1>6. OnlyReloadSparesChallenge' /\ SessionsListed' /\ SessionsEarned'
  BY DEF SessionsEarned, OnlyReloadSparesChallenge, SessionsListed, Listed
<1> QED
  BY <1>1, <1>2, <1>3, <1>4, <1>5, <1>6

(* The challenge consumed had granted nothing, was issued under the peer's *)
(* current access or spared by a reload, and the peer is listed.           *)
LEMMA GrantKeeps ==
    ASSUME NEW p \in Peer, NEW signature, NEW timestamp,
           AuthInv, Grant(p, signature, timestamp)
    PROVE  AuthInv'
<1> USE DEF AuthInv, Grant, Consume
<1>0. /\ pending[p] \in IssuedChallenge
      /\ pending[p].nonce \in Nonce
      /\ grants[pending[p].nonce] = 0
      /\ cutoff[p] <= pending[p].nonce \/ pending[p].nonce \in spared
      /\ pending[p].nonce < nextNonce
      /\ Listed(p)
  BY DEF AuthTypeOK, PendingFresh, Accepts, IssuedChallenge
<1>1. AuthTypeOK'
  BY <1>0 DEF AuthTypeOK, Nonce
<1>2. PendingFresh'
  BY <1>0 DEF AuthTypeOK, PendingFresh, PendingDistinct, Accepts
<1>3. PendingDistinct'
  BY DEF AuthTypeOK, PendingDistinct
<1>4. UnusedUngranted' /\ SingleUse'
  BY <1>0 DEF AuthTypeOK, UnusedUngranted, SingleUse, Nonce
<1>5. CutoffReached'
  BY DEF CutoffReached
<1>6. OnlyReloadSparesChallenge' /\ SessionsEarned'
  <2>1. \A q \in Peer : q # p => basis'[q] = basis[q]
    BY DEF AuthTypeOK
  <2>2. basis'[p] = pending[p].nonce /\ grants'[pending[p].nonce] = 1
    BY <1>0 DEF AuthTypeOK
  <2>3. \A n \in Nonce : grants[n] # 0 => grants'[n] = grants[n] \/ n = pending[p].nonce
    BY <1>0 DEF AuthTypeOK
  <2>4. SessionsEarned'
    <3>1. ASSUME NEW q \in sessions, q # p
          PROVE  basis'[q] \in Nonce /\ grants'[basis'[q]] # 0
      BY <1>0, <2>1, <2>2, <2>3, <3>1 DEF AuthTypeOK, SessionsEarned
    <3> QED
      BY <1>0, <2>2, <3>1 DEF SessionsEarned
  <2>5. OnlyReloadSparesChallenge'
    <3>1. ASSUME NEW q \in sessions, q # p, basis'[q] < cutoff[q]
          PROVE  basis'[q] \in spared
      BY <2>1, <3>1 DEF AuthTypeOK, OnlyReloadSparesChallenge
    <3>2. basis'[p] < cutoff[p] => basis'[p] \in spared
      <4>1. cutoff[p] \in Nat /\ pending[p].nonce \in Nat
        BY <1>0 DEF AuthTypeOK, Nonce
      <4> QED
        BY <1>0, <2>2, <4>1
    <3> QED
      BY <3>1, <3>2 DEF OnlyReloadSparesChallenge
  <2> QED
    BY <2>4, <2>5
<1>7. SessionsListed'
  BY <1>0 DEF SessionsListed, Listed
<1> QED
  BY <1>1, <1>2, <1>3, <1>4, <1>5, <1>6, <1>7

LEMMA RejectKeeps ==
    ASSUME NEW p \in Peer, NEW signature, NEW timestamp,
           AuthInv, Reject(p, signature, timestamp)
    PROVE  AuthInv'
BY DEF Reject, Consume, history, AuthInv, AuthTypeOK, PendingFresh, PendingDistinct,
       UnusedUngranted, SessionsEarned, CutoffReached, SingleUse, OnlyReloadSparesChallenge,
       SessionsListed, Listed

LEMMA AllowKeeps ==
    ASSUME NEW p \in Peer, NEW roles \in SUBSET Role, AuthInv, Allow(p, roles)
    PROVE  AuthInv'
<1> USE DEF AuthInv, Allow, history
<1>1. AuthTypeOK'
  BY DEF AuthTypeOK, Whitelist
<1>2. SessionsListed'
  BY DEF AuthTypeOK, Whitelist, SessionsListed, Listed
<1> QED
  BY <1>1, <1>2 DEF PendingFresh, PendingDistinct, UnusedUngranted, SessionsEarned, CutoffReached,
                    SingleUse, OnlyReloadSparesChallenge

LEMMA SetClockKeeps ==
    ASSUME AuthInv, SetClock
    PROVE  AuthInv'
BY DEF SetClock, tables, history, AuthInv, AuthTypeOK, PendingFresh, PendingDistinct,
       UnusedUngranted, SessionsEarned, CutoffReached, SingleUse, OnlyReloadSparesChallenge,
       SessionsListed, Listed

LEMMA StepKeeps == AuthInv /\ [AuthNext]_authVars => AuthInv'
<1> SUFFICES ASSUME AuthInv, [AuthNext]_authVars
             PROVE  AuthInv'
  OBVIOUS
<1>1. CASE SetClock
  BY <1>1, SetClockKeeps
<1>2. ASSUME NEW new \in Whitelist, ReloadWhitelist(new)
      PROVE  AuthInv'
  <2>1. /\ Dropped(new) \in SUBSET Peer /\ Unlisted(new) \in SUBSET Peer
        /\ Dropped(new) = Unlisted(new) \cap sessions
    BY DEF AuthInv, AuthTypeOK, SessionsListed, Dropped, Unlisted
  <2>2. \A p \in sessions \ Dropped(new) : whitelist'[p] # None
    BY <1>2 DEF ReloadWhitelist, Dropped
  <2>3. Unlisted(new) \ Dropped(new) \subseteq Unlisted(new) \ sessions
    BY <2>1
  <2> QED
    BY <1>2, <2>1, <2>2, <2>3, AccessEndKeeps DEF ReloadWhitelist
<1>3. ASSUME NEW p \in Peer, Issue(p)
      PROVE  AuthInv'
  BY <1>3, IssueKeeps
<1>4. ASSUME NEW p \in Peer, Revoke(p)
      PROVE  AuthInv'
  <2>1. whitelist' \in Whitelist
    BY <1>4 DEF Revoke, AuthInv, AuthTypeOK, Whitelist
  <2>2. \A q \in sessions \ {p} : whitelist'[q] # None
    BY <1>4 DEF Revoke, AuthInv, AuthTypeOK, Whitelist, SessionsListed, Listed
  <2> QED
    BY <1>4, <2>1, <2>2, AccessEndKeeps DEF Revoke
<1>5. ASSUME NEW p \in Peer, EndSession(p)
      PROVE  AuthInv'
  <2>1. whitelist' \in Whitelist
    BY <1>5 DEF EndSession, AuthInv, AuthTypeOK
  <2>2. \A q \in sessions \ {p} : whitelist'[q] # None
    BY <1>5 DEF EndSession, AuthInv, SessionsListed, Listed
  <2> QED
    BY <1>5, <2>1, <2>2, AccessEndKeeps DEF EndSession
<1>6. ASSUME NEW p \in Peer, NEW roles \in SUBSET Role, Allow(p, roles)
      PROVE  AuthInv'
  BY <1>6, AllowKeeps
<1>7. ASSUME NEW p \in Peer, NEW signature \in Signature, NEW timestamp \in Clock,
             Grant(p, signature, timestamp)
      PROVE  AuthInv'
  BY <1>7, GrantKeeps
<1>8. ASSUME NEW p \in Peer, NEW signature \in Signature, NEW timestamp \in Clock,
             Reject(p, signature, timestamp)
      PROVE  AuthInv'
  BY <1>8, RejectKeeps
<1>9. CASE UNCHANGED authVars
  BY <1>9 DEF authVars, tables, history, AuthInv, AuthTypeOK, PendingFresh, PendingDistinct,
              UnusedUngranted, SessionsEarned, CutoffReached, SingleUse, OnlyReloadSparesChallenge,
              SessionsListed, Listed
<1> QED
  BY <1>1, <1>2, <1>3, <1>4, <1>5, <1>6, <1>7, <1>8, <1>9 DEF AuthNext

(* The inductive invariant holds in every reachable state of the           *)
(* authority, whatever the order of handshakes, answers, revocations,      *)
(* disconnections, reloads and clock changes.                              *)
THEOREM AuthInvariant == AuthSpec => []AuthInv
<1>1. AuthInit => AuthInv
  BY InitHolds
<1>2. AuthInv /\ [AuthNext]_authVars => AuthInv'
  BY StepKeeps
<1> QED
  BY <1>1, <1>2, PTL DEF AuthSpec

(* Type correctness of the tables of GuardAuthenticator. *)
THEOREM AuthTypes == AuthSpec => []AuthTypeOK
<1>1. AuthInv => AuthTypeOK
  BY DEF AuthInv
<1> QED
  BY <1>1, AuthInvariant, PTL

(* A challenge is single-use: verify_at never grants two sessions on one   *)
(* nonce, for any number of peers, answers and replays.                    *)
THEOREM ChallengeSingleUse == AuthSpec => []SingleUse
<1>1. AuthInv => SingleUse
  BY DEF AuthInv
<1> QED
  BY <1>1, AuthInvariant, PTL

(* A session rests on a challenge issued since the peer's access last      *)
(* ended, by a revocation, a disconnection or a reload, or on one that a   *)
(* reload of a peer without a session left pending: no other way round.    *)
THEOREM ReloadAloneSparesChallenge == AuthSpec => []OnlyReloadSparesChallenge
<1>1. AuthInv => OnlyReloadSparesChallenge
  BY DEF AuthInv
<1> QED
  BY <1>1, AuthInvariant, PTL

(* A peer in session is always on the current whitelist, across every      *)
(* revocation and reload.                                                  *)
THEOREM SessionsAlwaysListed == AuthSpec => []SessionsListed
<1>1. AuthInv => SessionsListed
  BY DEF AuthInv
<1> QED
  BY <1>1, AuthInvariant, PTL

-----------------------------------------------------------------------------
(* Each step of the authority is a step of Admission, or changes nothing   *)
(* Admission sees: the peers challenged there are those with a challenge   *)
(* pending here.                                                           *)
Challenged == {p \in Peer : pending[p] # None}

(* Forgetting peers here forgets them there. *)
LEMMA ForgetImplemented ==
    ASSUME NEW S \in SUBSET Peer, AuthTypeOK, Forget(S)
    PROVE  Promised!Forget(S)
BY DEF AuthTypeOK, Forget, Promised!Forget

LEMMA StepImplemented ==
    AuthInv /\ [AuthNext]_authVars => [Promised!AdmissionNext]_(Promised!admissionVars)
<1> SUFFICES ASSUME AuthInv, [AuthNext]_authVars
             PROVE  Promised!AdmissionNext \/ UNCHANGED Promised!admissionVars
  OBVIOUS
<1> USE DEF Promised!AdmissionNext
<1>0. AuthTypeOK
  BY DEF AuthInv
<1>1. CASE SetClock
  BY <1>1 DEF SetClock, tables, Promised!admissionVars
<1>2. ASSUME NEW new \in Whitelist, ReloadWhitelist(new)
      PROVE  Promised!AdmissionNext
  <2>1. new \in Promised!Whitelist /\ Promised!Dropped(new) = Dropped(new)
    BY DEF Whitelist, Promised!Whitelist, Dropped, Promised!Dropped
  <2>2. /\ Challenged' = Challenged \ Dropped(new)
        /\ sessions' = sessions \ Dropped(new)
    BY <1>0, <1>2 DEF AuthTypeOK, ReloadWhitelist, Forget, Dropped, Challenged
  <2>3. Promised!ReloadWhitelist(new)
    BY <1>2, <2>1, <2>2
    DEF ReloadWhitelist, Promised!ReloadWhitelist, Promised!Forget, Challenged
  <2> QED
    BY <2>1, <2>3
<1>3. ASSUME NEW p \in Peer, Issue(p)
      PROVE  Promised!AdmissionNext
  <2>1. nextNonce \in Nonce /\ clock \in Clock
    BY <1>0, <1>3 DEF Issue, AuthTypeOK
  <2>2. pending'[p] # None
    BY <1>0, <1>3, <2>1 DEF Issue, AuthTypeOK, IssuedChallenge
  <2>3. \A q \in Peer : q # p => pending'[q] = pending[q]
    BY <1>0, <1>3 DEF Issue, AuthTypeOK
  <2>4. Challenged' = Challenged \cup {p}
    BY <2>2, <2>3 DEF Challenged
  <2>5. Promised!Issue(p)
    BY <1>3, <2>4 DEF Issue, history, Challenged, Promised!Issue, Listed, Promised!Listed
  <2> QED
    BY <2>5
<1>4. ASSUME NEW p \in Peer, Revoke(p)
      PROVE  Promised!AdmissionNext
  <2>1. Promised!Forget({p})
    BY <1>0, <1>4, ForgetImplemented DEF Revoke
  <2> QED
    BY <1>4, <2>1 DEF Revoke, Promised!Revoke
<1>5. ASSUME NEW p \in Peer, EndSession(p)
      PROVE  Promised!AdmissionNext
  <2>1. Promised!Forget({p})
    BY <1>0, <1>5, ForgetImplemented DEF EndSession
  <2> QED
    BY <1>5, <2>1 DEF EndSession, Promised!EndSession
<1>6. ASSUME NEW p \in Peer, NEW roles \in SUBSET Role, Allow(p, roles)
      PROVE  Promised!AdmissionNext
  BY <1>6 DEF Allow, Promised!Allow
<1>7. ASSUME NEW p \in Peer, NEW signature \in Signature, NEW timestamp \in Clock,
             Grant(p, signature, timestamp)
      PROVE  Promised!AdmissionNext
  <2>1. Promised!Grant(p)
    BY <1>0, <1>7 DEF AuthTypeOK, Grant, Consume, Accepts, Listed, Promised!Grant, Promised!Listed
  <2> QED
    BY <2>1
<1>8. ASSUME NEW p \in Peer, NEW signature \in Signature, NEW timestamp \in Clock,
             Reject(p, signature, timestamp)
      PROVE  Promised!AdmissionNext
  <2>1. Promised!Reject(p)
    BY <1>0, <1>8 DEF AuthTypeOK, Reject, Consume, Promised!Reject
  <2> QED
    BY <2>1
<1>9. CASE UNCHANGED authVars
  BY <1>9 DEF authVars, tables, Promised!admissionVars
<1> QED
  BY <1>1, <1>2, <1>3, <1>4, <1>5, <1>6, <1>7, <1>8, <1>9 DEF AuthNext

(* The authority, with its nonces, clock and signatures, implements the    *)
(* admission policy: every session is earned on a pending challenge of a   *)
(* listed peer; a revocation and a disconnection take session and          *)
(* challenge away, a reload those of the peers in session alone.           *)
THEOREM AuthorityImplementsAdmission == AuthSpec => ImplementsAdmission
<1>1. AuthInit => Promised!AdmissionInit
  BY DEF AuthInit, Promised!AdmissionInit, Whitelist, Promised!Whitelist
<1> QED
  BY <1>1, StepImplemented, AuthInvariant, PTL
  DEF AuthSpec, ImplementsAdmission, Promised!AdmissionSpec

=============================================================================
