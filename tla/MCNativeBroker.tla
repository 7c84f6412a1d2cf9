--------------------------- MODULE MCNativeBroker ---------------------------
EXTENDS NativeBroker

CONSTANTS c1, c2, c3

\* A login and two other commands, up to their order, with one install at most.
Rank == [login |-> 1, status |-> 2, launch |-> 3, install |-> 4]
MCKinds ==
    {k \in [{c1, c2, c3} -> Kind] :
        /\ k[c1] = "login"
        /\ Rank[k[c2]] <= Rank[k[c3]]
        /\ k[c2] # "install" /\ k[c3] # "login"}
=============================================================================
