------------------------------ MODULE MCGuard ------------------------------
EXTENDS GuardProperties, TLC

MCService == {"open", "hidden"}
MCRequired == [service \in {"open"} |-> None]
MCRequiredDb == [service \in {"open"} |-> "db"]
Symmetry == Permutations(Slot) \cup Permutations(Conn)
=============================================================================
