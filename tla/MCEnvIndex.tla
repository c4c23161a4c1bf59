----------------------------- MODULE MCEnvIndex -----------------------------
EXTENDS EnvIndex

CONSTANTS n1, n2, n3, n4

\* Names that collide in the first slot or in the last one, where probing goes on at
\* the first: in a table of 4 slots and in one of 8.
CollidingHashes ==
    {[n \in Name |-> IF n \in {n1} \cup M THEN 0 ELSE 7] : M \in {{}, {n2}, {n2, n3}}}
=============================================================================
