--------------------------- MODULE MCCompanyRuntime ---------------------------
(* Instances of CompanyRuntime for TLC.                                      *)
EXTENDS CompanyRuntime, TLC

\* The cache keys are interchangeable.
Keys == Permutations(Key)
=============================================================================
