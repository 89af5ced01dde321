------------------------------ MODULE Entrance ------------------------------
(***************************************************************************)
(* The life of one client of the entrance server: POST /enter              *)
(* (entrance_server_router.rs), the peer connection and data channel it    *)
(* creates, the callbacks of both, and the messages the client sends,      *)
(* composed with the registry they all act on.                             *)
(*                                                                         *)
(* A member c of Clients is one accepted /enter request, its peer          *)
(* connection and the ClientData made from it; SessionOf[c] is the session *)
(* that signed the request.  A removal task is <<cause, c>>: the call of   *)
(* remove_connection made by `enter`, by the ice or peer callback, or by   *)
(* the message handler of c.                                               *)
(*                                                                         *)
(* The WebRTC library is outside the repository: the model takes from it   *)
(* that a state-change callback runs for every state the connection gets   *)
(* into, each handler one call at a time, at any later moment; that a      *)
(* connection is lost, and its data channel opens, only after the (at most *)
(* five seconds of the) set-up; and that a closed one delivers no more     *)
(* messages.                                                               *)
(***************************************************************************)
EXTENDS Registry

CONSTANTS
    Handlers,   \* the state-change callbacks that fire: "ice" and "peer"
    OneAtATime  \* a session enters again only when nothing is left of its
                \* earlier connections (no callback or close outstanding)

VARIABLES
    enterPc,    \* where the /enter request of c is
    transport,  \* the RTCPeerConnection of c
    notices,    \* state changes whose callback has not run yet
    closing,    \* clients whose dispose() has spawned pc.close()
    channel,    \* the data channel of c and its on_message handler
    bound,      \* the ClientData that on_data_channel found for the channel
    dc,         \* ClientData.dc: the connection whose channel it holds
    messagePc   \* the on_message call of c

entranceVars ==
    <<enterPc, transport, notices, closing, channel, bound, dc, messagePc>>
allVars == <<vars, entranceVars>>

\* the state changes that are noticed
Changes == {"lost", "closed"}

Causes == {"enter", "message"} \cup Handlers

ASSUME EntranceAssumption ==
    /\ Handlers \in SUBSET {"ice", "peer"} /\ Handlers # {}
    /\ Removers = Causes \X Clients
    /\ OneAtATime \in BOOLEAN

EntranceInit ==
    /\ Init
    /\ enterPc = [c \in Clients |-> "idle"]
    /\ transport = [c \in Clients |-> "none"]
    /\ notices = [c \in Clients |-> {}]
    /\ closing = {}
    /\ channel = [c \in Clients |-> "none"]
    /\ bound = [c \in Clients |-> Null]
    /\ dc = [c \in Clients |-> Null]
    /\ messagePc = [c \in Clients |-> "idle"]

-----------------------------------------------------------------------------
(* POST /enter                                                             *)

\* Nothing of c can act on its session any more.
Drained(c) ==
    /\ enterPc[c] \in {"idle", "answered", "returned"}
    /\ \/ transport[c] \in {"none", "closed"}
       \/ transport[c] = "lost" /\ enterPc[c] = "returned"
    /\ notices[c] = {}
    /\ c \notin closing
    /\ messagePc[c] \in {"idle", "panicked"}
    /\ \A cause \in Causes : removePc[<<cause, c>>] = "idle"

SessionFree(c) ==
    OneAtATime =>
        \A d \in Clients \ {c} : SessionOf[d] = SessionOf[c] => Drained(d)

EnterGoto(c, pc) == enterPc' = [enterPc EXCEPT ![c] = pc]

\* RTCPeerConnection::close: both callbacks get a Closed.
ClosePc(c) ==
    /\ transport' = [transport EXCEPT ![c] = "closed"]
    /\ notices' = [notices EXCEPT ![c] =
                     IF transport[c] = "closed" THEN @
                     ELSE @ \cup (Handlers \X {"closed"})]

\* A bad signature, an empty url or a redirect to another node.
RejectRequest(c) ==
    /\ enterPc[c] = "idle"
    /\ EnterGoto(c, "returned")
    /\ UNCHANGED <<vars, transport, notices, closing, channel, bound, dc,
                   messagePc>>

\* 503, or a new peer connection with its two callbacks.
CheckAvailable(c) ==
    /\ enterPc[c] = "idle"
    /\ SessionFree(c)
    /\ \/ /\ ~IsNewConnectionAvailable(UrlOf[c])
          /\ EnterGoto(c, "returned")
          /\ UNCHANGED transport
       \/ /\ IsNewConnectionAvailable(UrlOf[c])
          /\ EnterGoto(c, "setup")
          /\ transport' = [transport EXCEPT ![c] = "open"]
    /\ UNCHANGED <<vars, notices, closing, channel, bound, dc, messagePc>>

\* setup_pc fails or times out after 5 seconds.
SetupFails(c) ==
    /\ enterPc[c] = "setup"
    /\ EnterGoto(c, "returned")
    /\ ClosePc(c)
    /\ UNCHANGED <<vars, closing, channel, bound, dc, messagePc>>

\* The HTTP client is gone: the handler is dropped at its await point and
\* the peer connection, with its callbacks, is never closed.
Abandon(c) ==
    /\ enterPc[c] = "setup"
    /\ EnterGoto(c, "returned")
    /\ UNCHANGED <<vars, transport, notices, closing, channel, bound, dc,
                   messagePc>>

\* setup_pc is done: remove the connection the session may still have.
Evict(c) ==
    /\ enterPc[c] = "setup"
    /\ BeginRemove(<<"enter", c>>, SessionOf[c])
    /\ EnterGoto(c, "evicting")
    /\ UNCHANGED <<transport, notices, closing, channel, bound, dc, messagePc>>

EvictedAtOnce(c) == TRUE  \* mutant: the removal is spawned
EvictedAny(c) ==  \* mutant: waits for a connection to evict
    disposed # {} /\ removePc[<<"enter", c>>] = "idle"
Evicted(c) == removePc[<<"enter", c>>] = "idle"

Admit(c) ==
    /\ enterPc[c] = "evicting"
    /\ Evicted(c)
    /\ BeginAdd(c)
    /\ EnterGoto(c, "admitting")
    /\ UNCHANGED <<transport, notices, closing, channel, bound, dc, messagePc>>

Answer(c) ==
    /\ enterPc[c] = "admitting"
    /\ \/ /\ addPc[c] = "added"
          /\ EnterGoto(c, "answered")
          /\ UNCHANGED <<transport, notices>>
       \/ /\ addPc[c] = "refused"
          /\ EnterGoto(c, "returned")
          /\ ClosePc(c)
    /\ UNCHANGED <<vars, closing, channel, bound, dc, messagePc>>

-----------------------------------------------------------------------------
(* The peer connection and its callbacks                                   *)

\* Disconnected or Failed, whichever comes first: both run the same callback.
Lose(c) ==
    /\ enterPc[c] \in {"answered", "returned"}
    /\ transport[c] = "open"
    /\ transport' = [transport EXCEPT ![c] = "lost"]
    /\ notices' = [notices EXCEPT ![c] = @ \cup (Handlers \X {"lost"})]
    /\ UNCHANGED <<vars, enterPc, closing, channel, bound, dc, messagePc>>

\* the state changes the callbacks act on
EndsClosedOnly(state) == state = "closed"  \* mutant
Ends(state) == state \in {"lost", "closed"}

\* on_ice_connection_state_change / on_peer_connection_state_change: the
\* callback knows the session, not the connection it was made for.
RunCallback(c, n) ==
    /\ n \in notices[c]
    /\ notices' = [notices EXCEPT ![c] = @ \ {n}]
    /\ IF Ends(n[2]) THEN BeginRemove(<<n[1], c>>, SessionOf[c])
                     ELSE UNCHANGED vars
    /\ UNCHANGED <<enterPc, transport, closing, channel, bound, dc, messagePc>>

SpawnCloseForgotten(c) == UNCHANGED closing  \* mutant
SpawnClose(c) == closing' = closing \cup {c}

\* ClientData::dispose mutes the channel it holds and spawns pc.close().
\* The two state-change callbacks stay in place.
DisposeClient(t) ==
    /\ Dispose(t)
    /\ LET c == removeClient[t] IN
       /\ SpawnClose(c)
       /\ channel' = [d \in Clients |->
                        IF d = dc[c] /\ channel[d] = "ready" THEN "muted"
                        ELSE channel[d]]
    /\ UNCHANGED <<enterPc, transport, notices, bound, dc, messagePc>>

\* the task dispose() spawned
CloseDisposed(c) ==
    /\ c \in closing
    /\ closing' = closing \ {c}
    /\ ClosePc(c)
    /\ UNCHANGED <<vars, enterPc, channel, bound, dc, messagePc>>

\* on_data_channel: set_dc on the ClientData the session has now, if any.
OpenChannel(c) ==
    /\ enterPc[c] = "answered"
    /\ transport[c] = "open"
    /\ channel[c] = "none"
    /\ LET d == connectionMap[SessionOf[c]] IN
       \/ /\ c \in disposed \/ d = Null
          /\ channel' = [channel EXCEPT ![c] = "muted"]
          /\ UNCHANGED <<bound, dc>>
       \/ /\ c \notin disposed /\ d # Null
          /\ channel' = [channel EXCEPT ![c] = "opening"]
          /\ bound' = [bound EXCEPT ![c] = d]
          /\ dc' = IF dc[d] = Null THEN [dc EXCEPT ![d] = c] ELSE dc
    /\ UNCHANGED <<vars, enterPc, transport, notices, closing, messagePc>>

\* the rest of on_data_channel installs on_message
BindChannel(c) ==
    /\ channel[c] = "opening"
    /\ channel' = [channel EXCEPT ![c] = "ready"]
    /\ UNCHANGED <<vars, enterPc, transport, notices, closing, bound, dc,
                   messagePc>>

-----------------------------------------------------------------------------
(* on_message                                                              *)

MessageGoto(c, pc) == messagePc' = [messagePc EXCEPT ![c] = pc]

\* Some Arc<ClientData> is left for the handler's Weak to upgrade.
Alive(d) ==
    \/ connectionMap[SessionOf[d]] = d
    \/ Adding(d)
    \/ \E t \in Removers : removeClient[t] = d
    \/ LET ud == urlDataMap[UrlOf[d]] IN ud # Null /\ d \in udClients[ud]

\* The handler has upgraded its ClientData: is_my_work says whether this node
\* still serves the url; a routing-info exchange is the request that matters
\* to the registry.
Receive(c) ==
    /\ channel[c] = "ready"
    /\ transport[c] # "closed"
    /\ messagePc[c] = "idle"
    /\ Alive(bound[c])
    /\ MessageGoto(c, "exchange") \/ MessageGoto(c, "disown")
    /\ UNCHANGED <<vars, enterPc, transport, notices, closing, channel, bound,
                   dc>>

\* exchange_routeing_info: a missing UrlData is unreachable!()
FindExchangeUrl(c) ==
    /\ messagePc[c] = "exchange"
    /\ LET u == UrlOf[bound[c]] IN
       /\ urlLock[u] = Null
       /\ \/ urlDataMap[u] = Null /\ MessageGoto(c, "panicked")
          \/ urlDataMap[u] # Null /\ MessageGoto(c, "idle")
    /\ UNCHANGED <<vars, enterPc, transport, notices, closing, channel, bound,
                   dc>>

\* Another node serves the url now: dc.close(), pc.close() ...
CloseDisowned(c) ==
    /\ messagePc[c] = "disown"
    /\ ClosePc(c)
    /\ MessageGoto(c, "remove")
    /\ UNCHANGED <<vars, enterPc, closing, channel, bound, dc>>

\* ... and remove_connection.
RemoveDisowned(c) ==
    /\ messagePc[c] = "remove"
    /\ BeginRemove(<<"message", c>>, SessionOf[c])
    /\ MessageGoto(c, "idle")
    /\ UNCHANGED <<enterPc, transport, notices, closing, channel, bound, dc>>

-----------------------------------------------------------------------------
RegistryStep ==
    /\ \/ \E c \in Clients : AddStep(c)
       \/ \E t \in Removers : RemoveStep(t) /\ removePc[t] # "dispose"
    /\ UNCHANGED entranceVars

\* the steps the server takes by itself once it has been set going
ServerStep(c) ==
    \/ SetupFails(c) \/ Evict(c) \/ Admit(c) \/ Answer(c)
    \/ \E n \in notices[c] : RunCallback(c, n)
    \/ CloseDisposed(c) \/ BindChannel(c)
    \/ FindExchangeUrl(c) \/ CloseDisowned(c) \/ RemoveDisowned(c)

\* what clients and the network do
ClientStep(c) ==
    \/ RejectRequest(c) \/ CheckAvailable(c) \/ Abandon(c)
    \/ Lose(c) \/ OpenChannel(c) \/ Receive(c)

EntranceNext ==
    \/ RegistryStep
    \/ \E t \in Removers : DisposeClient(t)
    \/ \E c \in Clients : ServerStep(c) \/ ClientStep(c)

EntranceSpec == EntranceInit /\ [][EntranceNext]_allVars

\* Every server-side step is a tokio task or a callback that the runtime
\* schedules in the end.  What clients and the network do is not fair.
EntranceFairness ==
    /\ \A c \in Clients :
          /\ WF_allVars(AddStep(c) /\ UNCHANGED entranceVars)
          /\ WF_allVars(SetupFails(c) \/ Evict(c))
          /\ WF_allVars(Admit(c) \/ Answer(c))
          /\ WF_allVars(CloseDisposed(c))
          /\ WF_allVars(CloseDisowned(c) \/ RemoveDisowned(c))
          /\ \A n \in Handlers \X Changes :
                WF_allVars(RunCallback(c, n))
    /\ \A t \in Removers :
          WF_allVars(\/ DisposeClient(t)
                     \/ /\ RemoveStep(t) /\ removePc[t] # "dispose"
                        /\ UNCHANGED entranceVars)

EntranceFairSpec == EntranceSpec /\ EntranceFairness

-----------------------------------------------------------------------------
(* Properties                                                              *)

\* The handlers and callbacks keep the registry's contract (SerialSessions):
\* all they do to it is a behaviour of Registry.
ImplementsRegistry == Spec

\* A registered client is only ever evicted by a callback or a message of its
\* own connection, never by one left over from an earlier connection of the
\* same session: remove_connection is told the session alone.
EvictedByOwnConnection ==
    [][\A c \in Clients :
          Registered(c) /\ ~Registered(c)' =>
              \E cause \in Causes \ {"enter"} : removeClient'[<<cause, c>>] = c
      ]_allVars

\* A registered client whose connection is dead has a callback or a removal
\* on its way that will find it.
DeadIsNoticed ==
    \A c \in RegisteredClients :
        transport[c] \in {"lost", "closed"} =>
            \/ notices[c] # {}
            \/ messagePc[c] = "remove"
            \/ \E t \in Removers :
                  Removing(t, SessionOf[c]) /\ removePc[t] = "lookup"

\* A request that was refused, failed or was given up leaves nothing behind.
RefusedLeavesNothing ==
    \A c \in Clients :
        enterPc[c] = "returned" =>
            /\ connectionMap[SessionOf[c]] # c
            /\ ~HoldsSlot(c) /\ ~HoldsUrlSlot(c)
            /\ \A d \in Clients : c \notin udClients[d]

\* A lost connection gives its slot and its place under the url back, and is
\* closed.
LostIsReleased ==
    \A c \in Clients :
        transport[c] = "lost" /\ enterPc[c] = "answered" ~>
            transport[c] = "closed" /\ ~HoldsSlot(c) /\ ~HoldsUrlSlot(c)

\* Every /enter request that got past its checks is answered or refused.
EnterReturns ==
    \A c \in Clients :
        enterPc[c] = "setup" ~> enterPc[c] \in {"answered", "returned"}

\* No message handler reaches unreachable!("url data not found") (swarm.rs:103):
\* a client whose handler runs still has its UrlData.
UrlDataFound == \A c \in Clients : messagePc[c] # "panicked"

EntranceQuiescent ==
    /\ Quiescent
    /\ \A c \in Clients :
          /\ enterPc[c] \notin {"setup", "evicting", "admitting"}
          /\ notices[c] = {}
    /\ closing = {}

\* Once every connection has been removed new ones are available again
\* (state.rs:250-256 asserts it of sequential calls).
RemovalRestoresAvailability ==
    EntranceQuiescent /\ (\A s \in Sessions : connectionMap[s] = Null)
        => \A u \in Urls : IsNewConnectionAvailable(u)

=============================================================================
