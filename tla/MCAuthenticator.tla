-------------------------- MODULE MCAuthenticator --------------------------
(* Two peers, one role, two seconds of skew scaled to one. *)
EXTENDS Authenticator, TLC

Symmetry == Permutations(Peer)
=============================================================================
