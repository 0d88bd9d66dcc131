------------------------------ MODULE MCApiGate ------------------------------
EXTENDS ApiGate

\* The limiter's keys are the callers; the mutated key has its own values.
MCKey == Caller \cup {<<"any company", s>> : s \in Session}
=============================================================================
