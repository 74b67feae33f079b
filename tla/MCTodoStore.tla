---------------------------- MODULE MCTodoStore ----------------------------
EXTENDS TodoStore, TLC

Symmetry == UNION {Permutations(S) : S \in {Requests, Tenants, Users, Fields}}
=============================================================================
