----------------------------- MODULE MCRegistry -----------------------------
(* Four clients: two of one session, which comes back on another url, and    *)
(* two of sessions of their own, one of which is on the first's url.         *)
EXTENDS RegistryInv

CONSTANTS c1, c2, c3, c4, s1, s2, s3, u1, u2, u3

SharedSession ==
    [c \in Clients |->
        CASE c \in {c1, c2} -> s1
          [] c = c3 -> s2
          [] c = c4 -> s3]

OnThreeUrls ==
    [c \in Clients |->
        CASE c \in {c1, c3} -> u1
          [] c = c2 -> u2
          [] c = c4 -> u3]
=============================================================================
