------------------------ MODULE MCIdempotentCreate ------------------------
EXTENDS IdempotentCreate, TLC
Symmetry == 
    UNION {Permutations(S) : S \in {Invocations, Envs, Tenants, Bodies}}
=============================================================================
