----------------------------- MODULE MCNodeAgent -----------------------------
(* A small instance of NodeAgent: w1 is a WireGuard connection, x1 an Xray  *)
(* connection.                                                             *)
EXTENDS NodeAgent, FiniteSets

CONSTANTS w1, x1

\* Faults come to an agent with one connection; two connections without them
\* still cancel one another's adds, because adding what exists is an error.
MCFew == faults = 0 \/ Cardinality(created) <= 1

\* Only the API's creates and the faults are bounded, and every step that may
\* fail may also succeed: Fairness asks for nothing that MCFew forbids.
MCSpec == Init /\ [][Next /\ MCFew']_vars /\ Fairness
=============================================================================
