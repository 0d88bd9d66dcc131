--------------------------- MODULE MCCompanyManager ---------------------------
(* Two companies, neither special except for the order of startup.          *)
EXTENDS CompanyManager
=============================================================================
