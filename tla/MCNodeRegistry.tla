--------------------------- MODULE MCNodeRegistry ---------------------------
(* A small instance of NodeRegistry.                                       *)
EXTENDS NodeRegistry

CONSTANTS n1, e1, e2, t1
=============================================================================
