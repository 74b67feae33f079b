------------------------------ MODULE MCDbPool ------------------------------
EXTENDS DbPool
=============================================================================
