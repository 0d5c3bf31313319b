--------------------------- MODULE MCRaftProposals --------------------------
EXTENDS RaftProposals, TLC

CONSTANTS p1, p2, p3

MCBytes == [p \in Proposals |-> IF p = p1 THEN 2 ELSE IF p = p2 THEN 1 ELSE 4]
=============================================================================
