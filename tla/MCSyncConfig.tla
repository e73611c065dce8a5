---------------------------- MODULE MCSyncConfig ----------------------------
EXTENDS SyncConfig

CONSTANTS p, q

(* Two lists without a peer in common, and one that holds both. *)
MCPeer == {p, q}
MCAllowed == {{p}, {q}, {p, q}}

(* The gateway of the repository, and a stand-in for it that answers the   *)
(* path sync-config asks for.                                              *)
MCRepository == GuardRoutes
MCStandIn == {FetchRoute}
=============================================================================
