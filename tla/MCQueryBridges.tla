--------------------------- MODULE MCQueryBridges ---------------------------
(* Up to four queries of two users, at two priorities.                      *)
EXTENDS QueryBridges

CONSTANTS q1, q2, q3, q4, alice, bob

MCOwner == [q \in Queries |-> IF q = q4 THEN bob ELSE alice]
MCPriority == [q \in Queries |-> IF q \in {q1, q2} THEN 5 ELSE 8]
=============================================================================
