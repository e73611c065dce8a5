----------------------------- MODULE MCGateway -----------------------------
EXTENDS Gateway

MCAllowLists == SUBSET Peer
=============================================================================
