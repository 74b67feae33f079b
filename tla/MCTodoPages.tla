---------------------------- MODULE MCTodoPages ----------------------------
EXTENDS TodoPages
=============================================================================
