------------------------------- MODULE SqlGate -------------------------------
(***************************************************************************)
(* app/sqlgen/validator.py: the gate every generated statement passes.  A   *)
(* statement is a record of what the gate looks at: how many statements     *)
(* were parsed, whether the root is a query, whether it holds a construct,  *)
(* function or join that is refused, the tables and columns it names, the   *)
(* names it makes itself (CTEs, derived tables, aliases) and its LIMIT,     *)
(* which is Nothing if absent or not a plain number.                        *)
(***************************************************************************)
EXTENDS ResultRows

Referenced(stmt) == stmt.tables \ stmt.ctes

\* validate_sql raises; whitelist gives each object's columns.
Rejected(stmt, whitelist) ==
  \/ stmt.count # 1
  \/ ~stmt.query
  \/ stmt.refused
  \/ ~(Referenced(stmt) \subseteq DOMAIN whitelist)
  \/ Referenced(stmt) = {}
  \/ ~(stmt.columns \subseteq UNION {whitelist[t] : t \in Referenced(stmt)}
                              \cup stmt.aliases \cup stmt.ctes)

\* The LIMIT of the statement that runs.
GatedLimit(stmt) ==
  IF stmt.limit = Nothing THEN MaxRows ELSE AtMost(stmt.limit, MaxRows)
=============================================================================
