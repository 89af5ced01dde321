----------------------------- MODULE Admission ------------------------------
(***************************************************************************)
(* What the registry promises its callers, without counters, maps or       *)
(* locks: at most MaxConnections clients hold a slot, at most MaxByUrl of  *)
(* them share a url, a client is turned away only when one of the two      *)
(* limits is reached, and a client that has left never comes back.         *)
(***************************************************************************)
EXTENDS Naturals, FiniteSets

CONSTANTS Clients, Urls, UrlOf, MaxConnections, MaxByUrl

VARIABLE phase

Phases == {"out", "reserved", "member", "leaving", "rejected", "gone"}

In(phases) == {c \in Clients : phase[c] \in phases}

\* clients that hold one of the MaxConnections slots
Slots == In({"reserved", "member", "rejected"})

\* clients that hold one of the MaxByUrl places of url u
Places(u) == {c \in In({"member", "leaving"}) : UrlOf[c] = u}

Move(c, from, to) ==
    /\ phase[c] = from
    /\ phase' = [phase EXCEPT ![c] = to]

Init == phase = [c \in Clients |-> "out"]

Reserve(c) == Cardinality(Slots) < MaxConnections /\ Move(c, "out", "reserved")
TurnAway(c) == Cardinality(Slots) >= MaxConnections /\ Move(c, "out", "gone")

Join(c) ==
    Cardinality(Places(UrlOf[c])) < MaxByUrl /\ Move(c, "reserved", "member")
Reject(c) ==
    Cardinality(Places(UrlOf[c])) >= MaxByUrl /\ Move(c, "reserved", "rejected")
Cancel(c) == Move(c, "rejected", "gone")

Leave(c) == Move(c, "member", "leaving")
Vacate(c) == Move(c, "leaving", "gone")

Next ==
    \E c \in Clients :
        \/ Reserve(c) \/ TurnAway(c) \/ Join(c) \/ Reject(c) \/ Cancel(c)
        \/ Leave(c) \/ Vacate(c)

Spec == Init /\ [][Next]_phase
=============================================================================
