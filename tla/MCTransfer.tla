----------------------------- MODULE MCTransfer -----------------------------
(* Two sessions, one of which connects twice; a message each way, one whose  *)
(* ttl is used up from the start and one whose signature is wrong.           *)
EXTENDS Transfer, TLC

CONSTANTS A, B, a1, a2, b1, ping, pong, spent, forged

MCSessionOf == a1 :> A @@ a2 :> A @@ b1 :> B
MCFrom == [m \in Transfers |-> IF m = ping THEN A ELSE B]
MCTo == [m \in Transfers |-> IF m = ping THEN B ELSE A]
MCTtl == [m \in Transfers |->
             CASE m = ping -> 2 [] m = spent -> 0 [] OTHER -> 1]
=============================================================================
