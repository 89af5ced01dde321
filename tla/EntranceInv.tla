---------------------------- MODULE EntranceInv -----------------------------
(***************************************************************************)
(* The inductive invariant of Entrance when a session enters again only    *)
(* once nothing is left of its earlier connections, in named parts.  TLC   *)
(* checks it on small instances; EntranceProofs proves it.                 *)
(***************************************************************************)
EXTENDS Entrance, RegistryInv

EnterPcs == {"idle", "setup", "evicting", "admitting", "answered", "returned"}
Transports == {"none", "open", "lost", "closed"}
Channels == {"none", "opening", "ready", "muted"}
MessagePcs == {"idle", "exchange", "disown", "remove", "panicked"}

EntranceTypeOK ==
    /\ enterPc \in [Clients -> EnterPcs]
    /\ transport \in [Clients -> Transports]
    /\ notices \in [Clients -> SUBSET (Handlers \X Changes)]
    /\ closing \subseteq Clients
    /\ channel \in [Clients -> Channels]
    /\ messagePc \in [Clients -> MessagePcs]

Before == {"idle", "setup", "evicting"}
Past == {"answered", "returned"}

\* add_connection runs while the request is "admitting", and what it says
\* decides how the request ends.
AdmitInv ==
    \A c \in Clients :
        /\ enterPc[c] \in Before => addPc[c] = "idle"
        /\ enterPc[c] = "answered" => addPc[c] = "added"
        /\ enterPc[c] = "returned" => addPc[c] \in {"idle", "refused"}

\* Until the request has ended its connection is up, and nothing but the
\* eviction acts on it.
ConnectionInv ==
    \A c \in Clients :
        /\ enterPc[c] = "idle" => transport[c] = "none"
        /\ enterPc[c] \in {"setup", "evicting", "admitting"} =>
              transport[c] = "open"
        /\ enterPc[c] = "answered" => transport[c] # "none"
        /\ enterPc[c] \notin Past => notices[c] = {}
        /\ channel[c] # "none" \/ messagePc[c] # "idle" =>
              enterPc[c] = "answered"
        /\ c \in closing => enterPc[c] = "answered" /\ c \in disposed

\* A removal that c's request, callbacks or messages have started is about its
\* session and takes no other client than c.
OwnRemovalInv ==
    \A c \in Clients : \A cause \in Causes :
        removePc[<<cause, c>>] # "idle" =>
            /\ removeSession[<<cause, c>>] = SessionOf[c]
            /\ removeClient[<<cause, c>>] \in {c, Null}
            /\ IF cause = "enter" THEN enterPc[c] = "evicting"
               ELSE enterPc[c] \in Past

\* At most one client of a session can still act on it.
OneLeftInv ==
    \A c, d \in Clients :
        SessionOf[c] = SessionOf[d] /\ ~Drained(c) /\ ~Drained(d) => c = d

\* A registered client whose connection is dead is about to be removed by a
\* callback or a message of its own.
NoticeInv ==
    \A c \in Clients :
        Registered(c) /\ transport[c] \in {"lost", "closed"} =>
            \/ notices[c] # {}
            \/ messagePc[c] = "remove"
            \/ \E cause \in Causes : removePc[<<cause, c>>] = "lookup"

\* What of the registry's invariant does not depend on its limits.
CallsInv == CallInv /\ DisposedInv /\ ListedAreAdded

EntranceInv ==
    /\ CallsInv /\ EntranceTypeOK
    /\ AdmitInv /\ ConnectionInv /\ OwnRemovalInv /\ OneLeftInv /\ NoticeInv
=============================================================================
