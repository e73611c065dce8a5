------------------------------ MODULE MCClient ------------------------------
EXTENDS ClientSession, TLC

Symmetry == Permutations(Conn)
=============================================================================
