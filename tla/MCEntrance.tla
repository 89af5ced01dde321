----------------------------- MODULE MCEntrance -----------------------------
(* Three /enter requests: two of one session, which comes back, and one of  *)
(* another session on the same url.                                         *)
EXTENDS EntranceInv, TLC

CONSTANTS c1, c2, c3, s1, s2, u1

MCSessionOf == [c \in Clients |-> IF c = c3 THEN s2 ELSE s1]
MCUrlOf == [c \in Clients |-> u1]
MCRemovers == Causes \X Clients
=============================================================================
