--------------------------- MODULE MCConnectionPool ---------------------------
(* Instances of ConnectionPool for TLC, and the mutants of its runs.          *)
EXTENDS ConnectionPool
=============================================================================
