--------------------------- MODULE EntranceProofs ---------------------------
(***************************************************************************)
(* Proofs about Entrance: the handlers and callbacks keep the registry's   *)
(* contract when a session enters again only once nothing is left of its   *)
(* earlier connections.                                                    *)
(***************************************************************************)
EXTENDS EntranceInv, RegistryProofs

-----------------------------------------------------------------------------
(* What a step can change                                                  *)

\* A removal task is a cause and a client.
LEMMA RemoverIs ==
    /\ \A c \in Clients : \A cause \in Causes : <<cause, c>> \in Removers
    /\ \A t \in Removers :
          \E c \in Clients : \E cause \in Causes : t = <<cause, c>>
BY EntranceAssumption

\* A step of add_connection(c) finds the call under way and leaves every other
\* client's registration and all removals alone.
LEMMA AddStepEffect ==
    ASSUME CallInv, NEW c \in Clients, AddStep(c)
    PROVE  /\ Adding(c)
           /\ \E pc \in AddPcs \ {"idle"} : addPc' = [addPc EXCEPT ![c] = pc]
           /\ UNCHANGED <<removePc, removeSession, removeClient, disposed>>
           /\ \A d \in Clients \ {c} : Registered(d)' <=> Registered(d)
<1>1. /\ Adding(c)
      /\ UNCHANGED <<removePc, removeSession, removeClient, disposed>>
  BY DEF Adding, AddStep, LoadCount, TakeSlot, InsertConnection,
     CreateUrlData, LockUrlData, LoadUrlCount, TakeUrlSlot, PushClient,
     ReturnSlot, UnmapRefused, removeVars
<1>2. \E pc \in AddPcs \ {"idle"} : addPc' = [addPc EXCEPT ![c] = pc]
  <2>1. \E pc \in {"load", "cas", "insert", "entry", "urlLoad", "urlCas",
                 "push", "uncount", "unmap", "added", "refused"} :
           AddGoto(c, pc)
    BY DEF AddStep, LoadCount, TakeSlot, InsertConnection, CreateUrlData,
       LockUrlData, LoadUrlCount, TakeUrlSlot, PushClient, ReturnSlot,
       UnmapRefused
  <2> QED BY <2>1 DEF AddGoto, AddPcs
<1>3. \/ UNCHANGED connectionMap
      \/ /\ addPc[c] \in {"insert", "unmap"}
         /\ \E e \in {c, Null} :
               connectionMap' = [connectionMap EXCEPT ![SessionOf[c]] = e]
  BY DEF AddStep, LoadCount, TakeSlot, InsertConnection,
     CreateUrlData, LockUrlData, LoadUrlCount, TakeUrlSlot, PushClient,
     ReturnSlot, UnmapRefused, Without
<1>4. addPc[c] \in {"insert", "unmap"} =>
          connectionMap[SessionOf[c]] \in {c, Null}
  BY DEF CallInv, SessionInv, BeforeInsert, AfterInsert
<1>5. \A d \in Clients \ {c} : Registered(d)' <=> Registered(d)
  <2> SUFFICES ASSUME NEW d \in Clients \ {c}
               PROVE  Registered(d)' <=> Registered(d)
    OBVIOUS
  <2>1. addPc'[d] = addPc[d]
    BY <1>2 DEF CallInv, TypeInv, TypeOK
  <2> QED
    BY <1>3, <1>4, <2>1, ConstantsAssumption
    DEF CallInv, TypeInv, TypeOK, Registered
<1> QED BY <1>1, <1>2, <1>5

\* A step of removal t only touches what t holds; its lookup takes the entry of
\* its session away.
LEMMA RemoveStepEffect ==
    ASSUME CallInv, NEW t \in Removers, RemoveStep(t)
    PROVE  /\ removePc[t] # "idle"
           /\ \E pc \in RemovePcs \ {"lookup"} :
                 removePc' = [removePc EXCEPT ![t] = pc]
           /\ removePc'[t] # "idle" => UNCHANGED removeSession
           /\ \A r \in Removers \ {t} :
                 /\ removeSession'[r] = removeSession[r]
                 /\ removeClient'[r] = removeClient[r]
           /\ removeClient'[t] \in {removeClient[t], Null,
                                    connectionMap[removeSession[t]]}
           /\ removePc[t] = "lookup" =>
                 connectionMap'[removeSession[t]] = Null
           /\ \A d \in Clients : Registered(d)' => Registered(d)
           /\ UNCHANGED addPc /\ disposed \subseteq disposed'
<1> USE ConstantsAssumption DEF CallInv, TypeInv, TypeOK, LocalInv, RemoveGoto,
        RemovePcs, Registered
<1>1. CASE TakeConnection(t)
  <2>1. removePc[t] = "lookup" /\ removeSession[t] \in Sessions
    BY <1>1 DEF TakeConnection
  <2>2. CASE connectionMap[removeSession[t]] = Null
    BY <1>1, <2>1, <2>2 DEF TakeConnection, addVars
  <2>3. CASE connectionMap[removeSession[t]] # Null
    <3>1. /\ removePc' = [removePc EXCEPT ![t] = "uncount"]
          /\ removeClient' = [removeClient EXCEPT
                               ![t] = connectionMap[removeSession[t]]]
          /\ connectionMap' = [connectionMap EXCEPT ![removeSession[t]] = Null]
          /\ UNCHANGED <<removeSession, addPc, disposed>>
      BY <1>1, <2>3 DEF TakeConnection, Without, addVars
    <3>2. \A d \in Clients : Registered(d)' => Registered(d)
      BY <2>1, <3>1
    <3> HIDE DEF Registered
    <3> QED BY <2>1, <3>1, <3>2
  <2> QED BY <2>2, <2>3
<1>2. CASE FreeSlot(t)
  BY <1>2 DEF FreeSlot, addVars
<1>3. CASE Dispose(t)
  BY <1>3 DEF Dispose, addVars
<1>4. CASE FindUrlData(t)
  BY <1>4 DEF FindUrlData, addVars
<1>5. CASE UncountClient(t)
  BY <1>5 DEF UncountClient, addVars
<1>6. CASE RetainOthers(t)
  BY <1>6 DEF RetainOthers, addVars
<1>7. CASE DropUrlData(t)
  BY <1>7 DEF DropUrlData, addVars
<1> QED BY <1>1, <1>2, <1>3, <1>4, <1>5, <1>6, <1>7 DEF RemoveStep

\* Every state change that is noticed ends the connection: a callback always
\* calls remove_connection.
LEMMA RunCallbackEffect ==
    ASSUME EntranceTypeOK, NEW c \in Clients, NEW n \in notices[c],
           RunCallback(c, n)
    PROVE  /\ \E h \in Causes \ {"enter"} :
                 BeginRemove(<<h, c>>, SessionOf[c])
           /\ notices' = [notices EXCEPT ![c] = @ \ {n}]
           /\ UNCHANGED <<enterPc, transport, closing, channel, bound, dc,
                          messagePc>>
<1>1. n \in Handlers \X Changes
  BY DEF EntranceTypeOK
<1>2. n[1] \in Handlers /\ Ends(n[2])
  BY <1>1 DEF Ends, Changes
<1> QED BY <1>2, EntranceAssumption DEF RunCallback, Causes

-----------------------------------------------------------------------------
(* Whoever can act on a session                                            *)

\* A client in connection_map is not drained: its request is being admitted,
\* or it is registered and its end will still be noticed.
LEMMA MappedIsUndrained ==
    ASSUME EntranceInv, NEW s \in Sessions, NEW c \in Clients,
           connectionMap[s] = c
    PROVE  SessionOf[c] = s /\ ~Drained(c)
<1> USE DEF EntranceInv, CallsInv, CallInv, EntranceTypeOK
<1>1. SessionOf[c] = s /\ addPc[c] \in AfterInsert \cup {"added"}
  BY ConstantsAssumption DEF SessionInv
<1>2. enterPc[c] \in {"admitting", "answered"}
  BY <1>1 DEF AdmitInv, AfterInsert, Before, EnterPcs
<1>3. CASE enterPc[c] = "admitting"
  BY <1>1, <1>3 DEF Drained
<1>4. CASE enterPc[c] = "answered"
  <2>1. Registered(c)
    BY <1>1, <1>4 DEF AdmitInv, Registered
  <2>2. transport[c] # "none"
    BY <1>4 DEF ConnectionInv
  <2>3. Drained(c) => transport[c] = "closed"
    BY <1>4, <2>2 DEF Drained
  <2> QED BY <1>1, <2>1, <2>3 DEF NoticeInv, Drained
<1> QED BY <1>2, <1>3, <1>4

\* While c's request, callbacks or messages can act, no other client of its
\* session is in connection_map, being added, or being removed.
LEMMA AloneOnSession ==
    ASSUME EntranceInv, NEW c \in Clients, ~Drained(c)
    PROVE  /\ connectionMap[SessionOf[c]] \in {c, Null}
           /\ \A d \in Clients : Adding(d) /\ SessionOf[d] = SessionOf[c] => d = c
           /\ \A t \in Removers :
                 Removing(t, SessionOf[c]) => \E cause \in Causes : t = <<cause, c>>
<1>1. connectionMap[SessionOf[c]] \in {c, Null}
  <2>1. SessionOf[c] \in Sessions
    BY ConstantsAssumption
  <2>2. connectionMap[SessionOf[c]] \in Clients \cup {Null}
    BY <2>1 DEF EntranceInv, CallsInv, CallInv, TypeInv, TypeOK
  <2> QED BY <2>1, <2>2, MappedIsUndrained DEF EntranceInv, OneLeftInv
<1>2. ASSUME NEW d \in Clients, Adding(d), SessionOf[d] = SessionOf[c]
      PROVE  d = c
  <2>1. enterPc[d] = "admitting"
    BY <1>2 DEF EntranceInv, EntranceTypeOK, EnterPcs, AdmitInv, Before, Adding
  <2> QED BY <1>2, <2>1 DEF EntranceInv, OneLeftInv, Drained
<1>3. ASSUME NEW t \in Removers, Removing(t, SessionOf[c])
      PROVE  \E cause \in Causes : t = <<cause, c>>
  <2>1. PICK d \in Clients : \E cause \in Causes : t = <<cause, d>>
    BY RemoverIs
  <2>2. PICK cause \in Causes : t = <<cause, d>>
    BY <2>1
  <2>3. SessionOf[d] = SessionOf[c] /\ ~Drained(d)
    BY <1>3, <2>2 DEF Removing, EntranceInv, OwnRemovalInv, Drained
  <2> QED BY <2>2, <2>3 DEF EntranceInv, OneLeftInv
<1> QED BY <1>1, <1>2, <1>3

\* add_connection is called when the contract AddAllowed holds.
LEMMA AdmitIsAllowed ==
    ASSUME EntranceInv, NEW c \in Clients, Admit(c)
    PROVE  AddAllowed(c)
<1>1. /\ enterPc[c] = "evicting" /\ addPc[c] = "idle"
      /\ removePc[<<"enter", c>>] = "idle"
  BY DEF Admit, Evicted, BeginAdd
<1>2. ~Drained(c)
  BY <1>1 DEF Drained
<1>3. connectionMap[SessionOf[c]] # c
  BY <1>1, ConstantsAssumption
  DEF EntranceInv, CallsInv, CallInv, SessionInv, AfterInsert
<1>4. \A cause \in Causes : removePc[<<cause, c>>] = "idle"
  BY <1>1 DEF EntranceInv, OwnRemovalInv, Past
<1>5. ~Adding(c)
  BY <1>1 DEF Adding
<1> QED
  BY <1>2, <1>3, <1>4, <1>5, AloneOnSession DEF AddAllowed, Removing

\* remove_connection is called when the contract RemoveAllowed holds.
LEMMA RemovalIsAllowed ==
    ASSUME EntranceInv, NEW c \in Clients,
           enterPc[c] = "setup" \/ notices[c] # {} \/ messagePc[c] = "remove"
    PROVE  RemoveAllowed(SessionOf[c])
<1>1. ~Drained(c)
  BY DEF Drained
<1>2. enterPc[c] # "admitting"
  BY DEF EntranceInv, ConnectionInv, Past
<1>3. ~Adding(c)
  BY <1>2 DEF EntranceInv, EntranceTypeOK, EnterPcs, AdmitInv, Before, Adding
<1> QED BY <1>1, <1>3, AloneOnSession DEF RemoveAllowed

\* Every step of the entrance server is a step of the registry or leaves the
\* registry alone.
LEMMA StepIsRegistryStep ==
    ASSUME EntranceInv, [EntranceNext]_allVars
    PROVE  [Next]_vars
<1>1. ASSUME NEW c \in Clients, ServerStep(c) \/ ClientStep(c)
      PROVE  \/ UNCHANGED vars
             \/ AddAllowed(c) /\ BeginAdd(c)
             \/ \E t \in Removers : \E s \in Sessions :
                   RemoveAllowed(s) /\ BeginRemove(t, s)
  <2>1. SessionOf[c] \in Sessions
    BY ConstantsAssumption
  <2>2. CASE Evict(c)
    BY <2>1, <2>2, RemovalIsAllowed, RemoverIs DEF Evict, Causes
  <2>3. CASE Admit(c)
    BY <2>3, AdmitIsAllowed DEF Admit
  <2>4. ASSUME NEW n \in notices[c], RunCallback(c, n)
        PROVE  \E t \in Removers : \E s \in Sessions :
                   RemoveAllowed(s) /\ BeginRemove(t, s)
    <3>1. \E h \in Causes : BeginRemove(<<h, c>>, SessionOf[c])
      BY <2>4, RunCallbackEffect DEF EntranceInv
    <3>2. RemoveAllowed(SessionOf[c])
      BY RemovalIsAllowed
    <3> QED BY <2>1, <3>1, <3>2, RemoverIs
  <2>5. CASE RemoveDisowned(c)
    BY <2>1, <2>5, RemovalIsAllowed, RemoverIs DEF RemoveDisowned, Causes
  <2> QED
    BY <1>1, <2>2, <2>3, <2>4, <2>5
    DEF ServerStep, ClientStep, RejectRequest, CheckAvailable, SetupFails,
        Abandon, Answer, Lose, CloseDisposed, OpenChannel, BindChannel,
        Receive, FindExchangeUrl, CloseDisowned
<1>2. ASSUME RegistryStep \/ \E t \in Removers : DisposeClient(t)
      PROVE  Next
  BY <1>2 DEF RegistryStep, DisposeClient, Next, RemoveStep
<1>3. CASE UNCHANGED allVars
  BY <1>3 DEF allVars
<1> QED BY <1>1, <1>2, <1>3 DEF EntranceNext, Next

-----------------------------------------------------------------------------
(* Each part of the invariant is kept                                      *)

\* The registry's parts are kept by every step of the registry.
LEMMA CallsInvNext ==
    ASSUME SerialSessions, CallsInv, [Next]_vars PROVE CallsInv'
<1> USE DEF CallsInv, CallInv
<1>1. ASSUME NEW c \in Clients, (AddAllowed(c) /\ BeginAdd(c)) \/ AddStep(c)
      PROVE  CallsInv'
  BY <1>1, TypeInvAdd, CallInvAdd, DisposedAdd, ListedAreAddedAdd
<1>2. ASSUME NEW t \in Removers,
             (\E s \in Sessions : RemoveAllowed(s) /\ BeginRemove(t, s))
               \/ RemoveStep(t)
      PROVE  CallsInv'
  BY <1>2, TypeInvRemove, CallInvRemove, DisposedRemove, ListedAreAddedRemove
<1>3. CASE UNCHANGED vars
  BY <1>3
  DEF vars, addVars, removeVars, udVars, TypeInv, TypeOK, LocalInv,
      SessionInv, RemovalInv, Adding, Removing, DisposedInv, ListedAreAdded,
      HeldBy
<1> QED BY <1>1, <1>2, <1>3 DEF Next

\* The variables of the entrance server keep their types.
LEMMA EntranceTypes ==
    ASSUME EntranceTypeOK, NEW c \in Clients,
           ServerStep(c) \/ ClientStep(c)
    PROVE  EntranceTypeOK'
<1> USE EntranceAssumption DEF EntranceTypeOK, EnterPcs, Transports, Channels,
        MessagePcs, Changes, EnterGoto, MessageGoto
<1>1. CASE RejectRequest(c)
  BY <1>1
  DEF RejectRequest
<1>2. CASE CheckAvailable(c)
  BY <1>2
  DEF CheckAvailable
<1>3. CASE SetupFails(c)
  BY <1>3
  DEF SetupFails, ClosePc
<1>4. CASE Abandon(c)
  BY <1>4
  DEF Abandon
<1>5. CASE Evict(c)
  BY <1>5
  DEF Evict, BeginRemove, RemoveGoto
<1>6. CASE Admit(c)
  BY <1>6
  DEF Admit, BeginAdd, AddGoto
<1>7. CASE Answer(c)
  BY <1>7
  DEF Answer, ClosePc
<1>8. CASE Lose(c)
  BY <1>8
  DEF Lose
<1>9. ASSUME NEW n \in notices[c], RunCallback(c, n) PROVE EntranceTypeOK'
  BY <1>9, RunCallbackEffect
  DEF BeginRemove, RemoveGoto
<1>10. CASE CloseDisposed(c)
  BY <1>10
  DEF CloseDisposed, ClosePc
<1>11. CASE OpenChannel(c)
  BY <1>11
  DEF OpenChannel
<1>12. CASE BindChannel(c)
  BY <1>12
  DEF BindChannel
<1>13. CASE Receive(c)
  BY <1>13
  DEF Receive
<1>14. CASE FindExchangeUrl(c)
  BY <1>14
  DEF FindExchangeUrl
<1>15. CASE CloseDisowned(c)
  BY <1>15
  DEF CloseDisowned, ClosePc
<1>16. CASE RemoveDisowned(c)
  BY <1>16
  DEF RemoveDisowned, BeginRemove, RemoveGoto
<1> QED BY <1>1, <1>2, <1>3, <1>4, <1>5, <1>6, <1>7, <1>8, <1>9, <1>10, <1>11, <1>12, <1>13, <1>14, <1>15, <1>16
       DEF ServerStep, ClientStep

\* A request is answered or refused by what add_connection said.
LEMMA AdmitInvStep ==
    ASSUME EntranceTypeOK, AdmitInv, CallInv, NEW c \in Clients,
           ServerStep(c) \/ ClientStep(c)
    PROVE  AdmitInv'
<1> USE DEF EntranceTypeOK, AdmitInv, Before, EnterGoto, CallInv, TypeInv, TypeOK,
        AddPcs, EnterPcs
<1>1. CASE RejectRequest(c)
  BY <1>1
  DEF RejectRequest, vars, addVars, removeVars, udVars
<1>2. CASE CheckAvailable(c)
  BY <1>2
  DEF CheckAvailable, vars, addVars, removeVars, udVars
<1>3. CASE SetupFails(c)
  BY <1>3
  DEF SetupFails, ClosePc, vars, addVars, removeVars, udVars
<1>4. CASE Abandon(c)
  BY <1>4
  DEF Abandon, vars, addVars, removeVars, udVars
<1>5. CASE Evict(c)
  BY <1>5
  DEF Evict, BeginRemove, RemoveGoto, vars, addVars, removeVars, udVars
<1>6. CASE Admit(c)
  BY <1>6
  DEF Admit, BeginAdd, AddGoto, vars, addVars, removeVars, udVars
<1>7. CASE Answer(c)
  BY <1>7
  DEF Answer, ClosePc, vars, addVars, removeVars, udVars
<1>8. CASE Lose(c)
  BY <1>8
  DEF Lose, vars, addVars, removeVars, udVars
<1>9. ASSUME NEW n \in notices[c], RunCallback(c, n) PROVE AdmitInv'
  BY <1>9, RunCallbackEffect
  DEF BeginRemove, RemoveGoto, vars, addVars, removeVars, udVars
<1>10. CASE CloseDisposed(c)
  BY <1>10
  DEF CloseDisposed, ClosePc, vars, addVars, removeVars, udVars
<1>11. CASE OpenChannel(c)
  BY <1>11
  DEF OpenChannel, vars, addVars, removeVars, udVars
<1>12. CASE BindChannel(c)
  BY <1>12
  DEF BindChannel, vars, addVars, removeVars, udVars
<1>13. CASE Receive(c)
  BY <1>13
  DEF Receive, vars, addVars, removeVars, udVars
<1>14. CASE FindExchangeUrl(c)
  BY <1>14
  DEF FindExchangeUrl, vars, addVars, removeVars, udVars
<1>15. CASE CloseDisowned(c)
  BY <1>15
  DEF CloseDisowned, ClosePc, vars, addVars, removeVars, udVars
<1>16. CASE RemoveDisowned(c)
  BY <1>16
  DEF RemoveDisowned, BeginRemove, RemoveGoto, vars, addVars, removeVars, udVars
<1> QED BY <1>1, <1>2, <1>3, <1>4, <1>5, <1>6, <1>7, <1>8, <1>9, <1>10, <1>11, <1>12, <1>13, <1>14, <1>15, <1>16
       DEF ServerStep, ClientStep

\* A connection is lost, and its callbacks, messages and close act, only after
\* its request has ended.
LEMMA ConnectionInvStep ==
    ASSUME EntranceTypeOK, AdmitInv, ConnectionInv, CallInv, NEW c \in Clients,
           ServerStep(c) \/ ClientStep(c)
    PROVE  ConnectionInv'
<1> USE DEF EntranceTypeOK, ConnectionInv, Past, EnterGoto, MessageGoto,
        EnterPcs
<1>1. CASE RejectRequest(c)
  BY <1>1
  DEF RejectRequest, vars, addVars, removeVars, udVars
<1>2. CASE CheckAvailable(c)
  BY <1>2
  DEF CheckAvailable, vars, addVars, removeVars, udVars
<1>3. CASE SetupFails(c)
  BY <1>3
  DEF SetupFails, ClosePc, vars, addVars, removeVars, udVars
<1>4. CASE Abandon(c)
  BY <1>4
  DEF Abandon, vars, addVars, removeVars, udVars
<1>5. CASE Evict(c)
  BY <1>5
  DEF Evict, BeginRemove, RemoveGoto, vars, addVars, removeVars, udVars
<1>6. CASE Admit(c)
  BY <1>6
  DEF Admit, BeginAdd, AddGoto, vars, addVars, removeVars, udVars
<1>7. CASE Answer(c)
  BY <1>7
  DEF Answer, ClosePc, vars, addVars, removeVars, udVars
<1>8. CASE Lose(c)
  BY <1>8
  DEF Lose, vars, addVars, removeVars, udVars
<1>9. ASSUME NEW n \in notices[c], RunCallback(c, n) PROVE ConnectionInv'
  <2>1. PICK h \in Causes : BeginRemove(<<h, c>>, SessionOf[c])
    BY <1>9, RunCallbackEffect
  <2>2. UNCHANGED <<enterPc, transport, closing, channel, messagePc, disposed>>
    BY <1>9, <2>1, RunCallbackEffect DEF BeginRemove
  <2>3. \A d \in Clients : notices'[d] \subseteq notices[d]
    BY <1>9, RunCallbackEffect
  <2> QED
    BY <2>2, <2>3
<1>10. CASE CloseDisposed(c)
  BY <1>10
  DEF CloseDisposed, ClosePc, vars, addVars, removeVars, udVars
<1>11. CASE OpenChannel(c)
  BY <1>11
  DEF OpenChannel, vars, addVars, removeVars, udVars
<1>12. CASE BindChannel(c)
  BY <1>12
  DEF BindChannel, vars, addVars, removeVars, udVars
<1>13. CASE Receive(c)
  BY <1>13
  DEF Receive, vars, addVars, removeVars, udVars
<1>14. CASE FindExchangeUrl(c)
  BY <1>14
  DEF FindExchangeUrl, vars, addVars, removeVars, udVars
<1>15. CASE CloseDisowned(c)
  BY <1>15
  DEF CloseDisowned, ClosePc, vars, addVars, removeVars, udVars
<1>16. CASE RemoveDisowned(c)
  BY <1>16
  DEF RemoveDisowned, BeginRemove, RemoveGoto, vars, addVars, removeVars, udVars
<1> QED BY <1>1, <1>2, <1>3, <1>4, <1>5, <1>6, <1>7, <1>8, <1>9, <1>10, <1>11, <1>12, <1>13, <1>14, <1>15, <1>16
       DEF ServerStep, ClientStep

\* A removal that a request, callback or message starts is about its session.
LEMMA OwnRemovalInvStep ==
    ASSUME EntranceTypeOK, AdmitInv, ConnectionInv, OwnRemovalInv, CallInv, NEW c \in Clients,
           ServerStep(c) \/ ClientStep(c)
    PROVE  OwnRemovalInv'
<1> USE RemoverIs DEF EntranceTypeOK, ConnectionInv, OwnRemovalInv, Past,
        EnterGoto, MessageGoto, CallInv, TypeInv, TypeOK, LocalInv
<1>1. CASE RejectRequest(c)
  BY <1>1
  DEF RejectRequest, vars, addVars, removeVars, udVars
<1>2. CASE CheckAvailable(c)
  BY <1>2
  DEF CheckAvailable, vars, addVars, removeVars, udVars
<1>3. CASE SetupFails(c)
  BY <1>3
  DEF SetupFails, ClosePc, vars, addVars, removeVars, udVars
<1>4. CASE Abandon(c)
  BY <1>4
  DEF Abandon, vars, addVars, removeVars, udVars
<1>5. CASE Evict(c)
  BY <1>5
  DEF Evict, BeginRemove, RemoveGoto, vars, addVars, removeVars, udVars
<1>6. CASE Admit(c)
  <2>1. removePc[<<"enter", c>>] = "idle" /\ enterPc[c] = "evicting"
    BY <1>6 DEF Admit, Evicted
  <2>2. \A cause \in Causes : removePc[<<cause, c>>] = "idle"
    BY <2>1
  <2> QED
    BY <1>6, <2>2 DEF Admit, BeginAdd, removeVars
<1>7. CASE Answer(c)
  <2>1. \A cause \in Causes : removePc[<<cause, c>>] = "idle"
    BY <1>7 DEF Answer
  <2>2. UNCHANGED <<removePc, removeSession, removeClient>>
    BY <1>7 DEF Answer, vars, removeVars
  <2>3. \A d \in Clients \ {c} : enterPc'[d] = enterPc[d]
    BY <1>7 DEF Answer
  <2> QED
    BY <2>1, <2>2, <2>3
<1>8. CASE Lose(c)
  BY <1>8
  DEF Lose, vars, addVars, removeVars, udVars
<1>9. ASSUME NEW n \in notices[c], RunCallback(c, n) PROVE OwnRemovalInv'
  <2>1. PICK h \in Causes \ {"enter"} : BeginRemove(<<h, c>>, SessionOf[c])
    BY <1>9, RunCallbackEffect
  <2>2. enterPc[c] \in Past /\ UNCHANGED enterPc
    BY <1>9, RunCallbackEffect
  <2> QED
    BY <2>1, <2>2 DEF BeginRemove, RemoveGoto
<1>10. CASE CloseDisposed(c)
  BY <1>10
  DEF CloseDisposed, ClosePc, vars, addVars, removeVars, udVars
<1>11. CASE OpenChannel(c)
  BY <1>11
  DEF OpenChannel, vars, addVars, removeVars, udVars
<1>12. CASE BindChannel(c)
  BY <1>12
  DEF BindChannel, vars, addVars, removeVars, udVars
<1>13. CASE Receive(c)
  BY <1>13
  DEF Receive, vars, addVars, removeVars, udVars
<1>14. CASE FindExchangeUrl(c)
  BY <1>14
  DEF FindExchangeUrl, vars, addVars, removeVars, udVars
<1>15. CASE CloseDisowned(c)
  BY <1>15
  DEF CloseDisowned, ClosePc, vars, addVars, removeVars, udVars
<1>16. CASE RemoveDisowned(c)
  BY <1>16
  DEF RemoveDisowned, BeginRemove, RemoveGoto, vars, addVars, removeVars, udVars
<1> QED BY <1>1, <1>2, <1>3, <1>4, <1>5, <1>6, <1>7, <1>8, <1>9, <1>10, <1>11, <1>12, <1>13, <1>14, <1>15, <1>16
       DEF ServerStep, ClientStep

\* Only a new request makes a drained client act on its session again.
LEMMA DrainedKept ==
    ASSUME EntranceTypeOK, ConnectionInv, OwnRemovalInv, CallInv, NEW d \in Clients,
           ~Drained(d)', NEW c \in Clients,
           ServerStep(c) \/ ClientStep(c)
    PROVE  ~Drained(d) \/ CheckAvailable(d)
<1> USE DEF EntranceTypeOK, ConnectionInv, OwnRemovalInv, Past, EnterGoto,
        MessageGoto, Drained, CallInv, TypeInv, TypeOK
<1>1. CASE RejectRequest(c)
  BY <1>1
  DEF RejectRequest, vars, addVars, removeVars, udVars
<1>2. CASE CheckAvailable(c)
  BY <1>2
  DEF CheckAvailable, vars, addVars, removeVars, udVars
<1>3. CASE SetupFails(c)
  BY <1>3
  DEF SetupFails, ClosePc, vars, addVars, removeVars, udVars
<1>4. CASE Abandon(c)
  BY <1>4
  DEF Abandon, vars, addVars, removeVars, udVars
<1>5. CASE Evict(c)
  BY <1>5
  DEF Evict, BeginRemove, RemoveGoto, vars, addVars, removeVars, udVars
<1>6. CASE Admit(c)
  BY <1>6
  DEF Admit, BeginAdd, AddGoto, vars, addVars, removeVars, udVars
<1>7. CASE Answer(c)
  <2>1. ~Drained(c)
    BY <1>7 DEF Answer
  <2>2. /\ \A e \in Clients \ {c} : /\ enterPc'[e] = enterPc[e]
                                   /\ transport'[e] = transport[e]
                                   /\ notices'[e] = notices[e]
        /\ UNCHANGED <<closing, messagePc, removePc>>
    BY <1>7 DEF Answer, ClosePc, vars, removeVars
  <2> QED
    BY <2>1, <2>2
<1>8. CASE Lose(c)
  BY <1>8
  DEF Lose, vars, addVars, removeVars, udVars
<1>9. ASSUME NEW n \in notices[c], RunCallback(c, n) PROVE ~Drained(d) \/ CheckAvailable(d)
  <2>1. PICK h \in Causes \ {"enter"} : BeginRemove(<<h, c>>, SessionOf[c])
    BY <1>9, RunCallbackEffect
  <2>2. ~Drained(c)
    OBVIOUS
  <2>3. ASSUME d # c PROVE Drained(d)' <=> Drained(d)
    BY <1>9, <2>1, <2>3, RunCallbackEffect DEF BeginRemove, RemoveGoto
  <2> QED
    BY <2>2, <2>3
<1>10. CASE CloseDisposed(c)
  BY <1>10
  DEF CloseDisposed, ClosePc, vars, addVars, removeVars, udVars
<1>11. CASE OpenChannel(c)
  BY <1>11
  DEF OpenChannel, vars, addVars, removeVars, udVars
<1>12. CASE BindChannel(c)
  BY <1>12
  DEF BindChannel, vars, addVars, removeVars, udVars
<1>13. CASE Receive(c)
  BY <1>13
  DEF Receive, vars, addVars, removeVars, udVars
<1>14. CASE FindExchangeUrl(c)
  BY <1>14
  DEF FindExchangeUrl, vars, addVars, removeVars, udVars
<1>15. CASE CloseDisowned(c)
  BY <1>15
  DEF CloseDisowned, ClosePc, vars, addVars, removeVars, udVars
<1>16. CASE RemoveDisowned(c)
  BY <1>16
  DEF RemoveDisowned, BeginRemove, RemoveGoto, vars, addVars, removeVars, udVars
<1> QED BY <1>1, <1>2, <1>3, <1>4, <1>5, <1>6, <1>7, <1>8, <1>9, <1>10, <1>11, <1>12, <1>13, <1>14, <1>15, <1>16
       DEF ServerStep, ClientStep

\* A step that starts no removal keeps the notices if it keeps those of the
\* client it is about.
LEMMA NoticeKept ==
    ASSUME NoticeInv, NEW c \in Clients,
           UNCHANGED <<addPc, connectionMap, removePc>>,
           \A d \in Clients \ {c} :
              /\ transport'[d] = transport[d] /\ notices'[d] = notices[d]
              /\ messagePc'[d] = messagePc[d],
           Registered(c) /\ transport'[c] \in {"lost", "closed"} =>
              \/ notices'[c] # {}
              \/ messagePc'[c] = "remove"
              \/ /\ transport'[c] = transport[c] /\ notices'[c] = notices[c]
                 /\ messagePc[c] = "remove" => messagePc'[c] = "remove"
    PROVE  NoticeInv'
<1>1. \A d \in Clients : Registered(d)' <=> Registered(d)
  BY DEF Registered
<1> QED BY <1>1 DEF NoticeInv

\* A step that starts a removal for a client's own session is its notice.
LEMMA NoticeStarted ==
    ASSUME CallInv, NoticeInv, NEW c \in Clients, NEW cause \in Causes,
           BeginRemove(<<cause, c>>, SessionOf[c]),
           \A d \in Clients \ {c} :
              /\ transport'[d] = transport[d] /\ notices'[d] = notices[d]
              /\ messagePc'[d] = messagePc[d]
    PROVE  NoticeInv'
<1>1. \A d \in Clients : Registered(d)' <=> Registered(d)
  BY DEF BeginRemove, addVars, Registered
<1>2. /\ removePc'[<<cause, c>>] = "lookup"
      /\ \A t \in Removers : removePc[t] = "lookup" => removePc'[t] = "lookup"
  BY RemoverIs DEF BeginRemove, RemoveGoto, CallInv, TypeInv, TypeOK
<1> QED BY <1>1, <1>2, RemoverIs DEF NoticeInv

\* The end of a registered client's connection leaves a notice, and a notice is
\* used up by starting a removal.
LEMMA NoticeInvStep ==
    ASSUME EntranceTypeOK, AdmitInv, ConnectionInv, NoticeInv, CallInv,
           DisposedInv, NEW c \in Clients,
           ServerStep(c) \/ ClientStep(c)
    PROVE  NoticeInv'
<1> USE DEF EntranceTypeOK, ConnectionInv, Past, EnterGoto,
        MessageGoto
<1>1. CASE RejectRequest(c)
  BY <1>1, NoticeKept
  DEF RejectRequest, vars, addVars, removeVars, udVars
<1>2. CASE CheckAvailable(c)
  BY <1>2, NoticeKept
  DEF CheckAvailable, vars, addVars, removeVars, udVars
<1>3. CASE SetupFails(c)
  <2>1. ~Registered(c)
    BY <1>3 DEF SetupFails, AdmitInv, Before, Registered
  <2> QED
    BY <1>3, <2>1, NoticeKept DEF SetupFails, ClosePc, vars, addVars, removeVars
<1>4. CASE Abandon(c)
  BY <1>4, NoticeKept
  DEF Abandon, vars, addVars, removeVars, udVars
<1>5. CASE Evict(c)
  BY <1>5, NoticeStarted DEF Evict, Causes
<1>6. CASE Admit(c)
  <2>1. \A d \in Clients : Registered(d)' => Registered(d)
    BY <1>6 DEF Admit, BeginAdd, AddGoto, CallInv, TypeInv, TypeOK, Registered
  <2> QED
    BY <1>6, <2>1 DEF Admit, BeginAdd, removeVars, NoticeInv
<1>7. CASE Answer(c)
  <2>1. addPc[c] = "refused" => ~Registered(c)
    BY DEF Registered
  <2>2. CASE addPc[c] = "refused"
    BY <1>7, <2>1, <2>2, NoticeKept
    DEF Answer, ClosePc, vars, addVars, removeVars
  <2>3. CASE addPc[c] # "refused"
    BY <1>7, <2>3, NoticeKept DEF Answer, vars, addVars, removeVars
  <2> QED BY <2>2, <2>3
<1>8. CASE Lose(c)
  <2>1. PICK h \in Handlers : <<h, "lost">> \in Handlers \X {"lost"}
    BY EntranceAssumption
  <2>2. notices'[c] # {}
    BY <1>8, <2>1 DEF Lose
  <2> QED
    BY <1>8, <2>2, NoticeKept DEF Lose, vars, addVars, removeVars
<1>9. ASSUME NEW n \in notices[c], RunCallback(c, n) PROVE NoticeInv'
  <2>1. PICK h \in Causes \ {"enter"} : BeginRemove(<<h, c>>, SessionOf[c])
    BY <1>9, RunCallbackEffect
  <2> QED BY <1>9, <2>1, NoticeStarted, RunCallbackEffect
<1>10. CASE CloseDisposed(c)
  <2>1. ~Registered(c)
    BY <1>10 DEF CloseDisposed, DisposedInv, Registered
  <2> QED
    BY <1>10, <2>1, NoticeKept DEF CloseDisposed, ClosePc, vars, addVars, removeVars
<1>11. CASE OpenChannel(c)
  BY <1>11, NoticeKept
  DEF OpenChannel, vars, addVars, removeVars, udVars
<1>12. CASE BindChannel(c)
  BY <1>12, NoticeKept
  DEF BindChannel, vars, addVars, removeVars, udVars
<1>13. CASE Receive(c)
  BY <1>13, NoticeKept
  DEF Receive, vars, addVars, removeVars, udVars
<1>14. CASE FindExchangeUrl(c)
  BY <1>14, NoticeKept
  DEF FindExchangeUrl, vars, addVars, removeVars, udVars
<1>15. CASE CloseDisowned(c)
  BY <1>15, NoticeKept
  DEF CloseDisowned, ClosePc, vars, addVars, removeVars, udVars
<1>16. CASE RemoveDisowned(c)
  BY <1>16, NoticeStarted DEF RemoveDisowned, Causes
<1> QED BY <1>1, <1>2, <1>3, <1>4, <1>5, <1>6, <1>7, <1>8, <1>9, <1>10, <1>11, <1>12, <1>13, <1>14, <1>15, <1>16
       DEF ServerStep, ClientStep

-----------------------------------------------------------------------------
(* The steps of the two registry calls                                     *)

\* A step of add_connection happens while its client's request is admitted.
LEMMA AddKeepsEntranceInv ==
    ASSUME EntranceInv, CallsInv', NEW c \in Clients, AddStep(c),
           UNCHANGED entranceVars
    PROVE  EntranceInv'
<1> USE DEF EntranceInv, CallsInv, CallInv, entranceVars
<1>1. EntranceTypeOK' /\ ConnectionInv' /\ OneLeftInv' /\ OwnRemovalInv'
  <2>1. UNCHANGED <<removePc, removeSession, removeClient, disposed>>
    BY AddStepEffect
  <2> QED
    BY <2>1
    DEF EntranceTypeOK, ConnectionInv, OneLeftInv, OwnRemovalInv, Drained
<1>2. AdmitInv'
  <2>1. enterPc[c] = "admitting"
    BY AddStepEffect DEF Adding, AdmitInv, EntranceTypeOK, EnterPcs, Before
  <2>2. \A d \in Clients \ {c} : addPc'[d] = addPc[d]
    BY AddStepEffect DEF TypeInv, TypeOK
  <2> QED
    BY <2>1, <2>2 DEF AdmitInv, Before
<1>3. NoticeInv'
  <2>1. transport[c] = "open"
    BY AddStepEffect
    DEF Adding, AdmitInv, EntranceTypeOK, EnterPcs, Before, ConnectionInv
  <2>2. \A d \in Clients \ {c} : Registered(d)' <=> Registered(d)
    BY AddStepEffect
  <2>3. UNCHANGED removePc
    BY AddStepEffect
  <2> QED
    BY <2>1, <2>2, <2>3 DEF NoticeInv
<1> QED BY <1>1, <1>2, <1>3

\* What a removal finds in connection_map is the client it was started for.
LEMMA RemovalTakesOwn ==
    ASSUME EntranceInv, NEW c \in Clients, NEW cause \in Causes,
           RemoveStep(<<cause, c>>)
    PROVE  removeClient'[<<cause, c>>] \in {c, Null}
<1> DEFINE t == <<cause, c>>
<1>1. t \in Removers
  BY RemoverIs
<1>2. removePc[t] # "idle"
  BY <1>1, RemoveStepEffect DEF EntranceInv, CallsInv
<1>3. ~Drained(c)
  BY <1>2 DEF Drained
<1>4. removeSession[t] = SessionOf[c] /\ removeClient[t] \in {c, Null}
  BY <1>2 DEF EntranceInv, OwnRemovalInv
<1>5. connectionMap[SessionOf[c]] \in {c, Null}
  BY <1>3, AloneOnSession
<1> QED
  BY <1>1, <1>4, <1>5, RemoveStepEffect DEF EntranceInv, CallsInv

\* A step of a removal moves its own program counter; the entry it looks up is
\* that of its own session.
LEMMA RemoveKeepsEntranceInv ==
    ASSUME EntranceInv, CallsInv', NEW t \in Removers, RemoveStep(t),
           UNCHANGED <<enterPc, transport, notices, messagePc>>
    PROVE  /\ AdmitInv' /\ OwnRemovalInv' /\ NoticeInv'
           /\ closing' \subseteq closing => OneLeftInv'
<1> USE DEF EntranceInv, CallsInv, CallInv
<1>1. PICK c \in Clients : \E cause \in Causes : t = <<cause, c>>
  BY RemoverIs
<1>2. PICK cause \in Causes : t = <<cause, c>>
  BY <1>1
<1>3. /\ removePc[t] # "idle"
      /\ \A r \in Removers \ {t} :
            /\ removePc'[r] = removePc[r]
            /\ removeSession'[r] = removeSession[r]
            /\ removeClient'[r] = removeClient[r]
      /\ removePc'[t] # "lookup"
      /\ removePc'[t] # "idle" => removeSession'[t] = removeSession[t]
      /\ UNCHANGED addPc
  BY RemoveStepEffect DEF TypeInv, TypeOK
<1>4. AdmitInv'
  BY <1>3 DEF AdmitInv
<1>5. OwnRemovalInv'
  <2>1. removeClient'[t] \in {c, Null}
    BY <1>2, RemovalTakesOwn
  <2> QED
    BY <1>2, <1>3, <2>1, RemoverIs DEF OwnRemovalInv
<1>6. NoticeInv'
  <2> SUFFICES ASSUME NEW d \in Clients, Registered(d)',
                      transport[d] \in {"lost", "closed"},
                      notices[d] = {}, messagePc[d] # "remove"
               PROVE  \E x \in Causes : removePc'[<<x, d>>] = "lookup"
    BY DEF NoticeInv
  <2>1. Registered(d)
    BY RemoveStepEffect
  <2>2. PICK x \in Causes : removePc[<<x, d>>] = "lookup"
    BY <2>1 DEF NoticeInv
  <2>3. CASE t = <<x, d>>
    <3>1. connectionMap'[SessionOf[d]] = Null
      BY <2>2, <2>3, RemoveStepEffect DEF OwnRemovalInv
    <3> QED BY <3>1, ConstantsAssumption DEF Registered
  <2>4. CASE t # <<x, d>>
    BY <1>3, <2>2, <2>4, RemoverIs
  <2> QED BY <2>3, <2>4
<1>7. ASSUME closing' \subseteq closing PROVE OneLeftInv'
  <2>1. \A d \in Clients : ~Drained(d)' => ~Drained(d)
    <3> SUFFICES ASSUME NEW d \in Clients, Drained(d) PROVE Drained(d)'
      OBVIOUS
    <3>1. \A x \in Causes : removePc'[<<x, d>>] = "idle"
      BY <1>3, RemoverIs DEF Drained
    <3> QED BY <1>7, <3>1 DEF Drained
  <2> QED BY <2>1 DEF OneLeftInv
<1> QED BY <1>4, <1>5, <1>6, <1>7

\* dispose() spawns the close of a client whose request was answered, and whose
\* removal is under way.
LEMMA DisposeKeepsEntranceInv ==
    ASSUME EntranceInv, CallsInv', NEW t \in Removers, DisposeClient(t)
    PROVE  EntranceInv'
<1> USE DEF EntranceInv, CallsInv, CallInv
<1>1. PICK c \in Clients : \E cause \in Causes : t = <<cause, c>>
  BY RemoverIs
<1>2. PICK cause \in Causes : t = <<cause, c>>
  BY <1>1
<1>3. Dispose(t) /\ RemoveStep(t) /\ removePc[t] = "dispose"
  BY DEF DisposeClient, Dispose, RemoveStep
<1>4. /\ UNCHANGED <<enterPc, transport, notices, messagePc>>
      /\ disposed' = disposed \cup {removeClient[t]}
      /\ closing' = closing \cup {removeClient[t]}
      /\ channel' \in [Clients -> Channels]
      /\ \A d \in Clients : channel'[d] # "none" => channel[d] # "none"
  BY <1>3 DEF DisposeClient, Dispose, SpawnClose, EntranceTypeOK, Channels
<1>5. AdmitInv' /\ OwnRemovalInv' /\ NoticeInv'
  BY <1>3, <1>4, RemoveKeepsEntranceInv
<1>6. removeClient[t] = c /\ addPc[c] = "added"
  BY <1>2, <1>3, ConstantsAssumption
  DEF OwnRemovalInv, TypeInv, LocalInv, RemovalInv
<1>7. enterPc[c] = "answered" /\ ~Drained(c)
  <2>1. removePc[<<cause, c>>] # "idle"
    BY <1>2, <1>3
  <2> QED
    BY <1>6, <2>1 DEF OwnRemovalInv, AdmitInv, Before, Past, Drained
<1>8. EntranceTypeOK'
  BY <1>4, <1>6 DEF EntranceTypeOK
<1>9. ConnectionInv'
  BY <1>4, <1>6, <1>7 DEF ConnectionInv
<1>10. OneLeftInv'
  <2>1. \A d \in Clients : ~Drained(d)' => ~Drained(d)
    <3> SUFFICES ASSUME NEW d \in Clients, Drained(d) PROVE Drained(d)'
      OBVIOUS
    <3>1. d # c /\ t # <<cause, d>>
      BY <1>2, <1>7
    <3>2. \A r \in Removers \ {t} : removePc'[r] = removePc[r]
      BY RemoveStepEffect, <1>3 DEF TypeInv, TypeOK
    <3>3. \A x \in Causes : removePc'[<<x, d>>] = "idle"
      BY <1>2, <3>1, <3>2, RemoverIs DEF Drained
    <3> QED BY <1>4, <1>6, <3>1, <3>3 DEF Drained
  <2> QED BY <2>1 DEF OneLeftInv
<1> QED BY <1>5, <1>8, <1>9, <1>10

-----------------------------------------------------------------------------
(* Whatever a session does                                                 *)

\* Every step of the entrance server is a step of a call of the registry or
\* leaves the registry alone, be it one the contract allows or not.
LEMMA StepIsCall ==
    ASSUME EntranceTypeOK, [EntranceNext]_allVars
    PROVE  \/ UNCHANGED vars
           \/ \E c \in Clients : BeginAdd(c) \/ AddStep(c)
           \/ \E t \in Removers :
                 (\E s \in Sessions : BeginRemove(t, s)) \/ RemoveStep(t)
<1>1. ASSUME NEW c \in Clients, ServerStep(c) \/ ClientStep(c)
      PROVE  \/ UNCHANGED vars
             \/ BeginAdd(c)
             \/ \E t \in Removers : \E s \in Sessions : BeginRemove(t, s)
  <2>1. SessionOf[c] \in Sessions
    BY ConstantsAssumption
  <2>2. CASE Evict(c)
    BY <2>1, <2>2, RemoverIs DEF Evict, Causes
  <2>3. CASE Admit(c)
    BY <2>3 DEF Admit
  <2>4. ASSUME NEW n \in notices[c], RunCallback(c, n)
        PROVE  \E t \in Removers : \E s \in Sessions : BeginRemove(t, s)
    <3>1. \E h \in Causes : BeginRemove(<<h, c>>, SessionOf[c])
      BY <2>4, RunCallbackEffect
    <3> QED BY <2>1, <3>1, RemoverIs
  <2>5. CASE RemoveDisowned(c)
    BY <2>1, <2>5, RemoverIs DEF RemoveDisowned, Causes
  <2> QED
    BY <1>1, <2>2, <2>3, <2>4, <2>5
    DEF ServerStep, ClientStep, RejectRequest, CheckAvailable, SetupFails,
        Abandon, Answer, Lose, CloseDisposed, OpenChannel, BindChannel,
        Receive, FindExchangeUrl, CloseDisowned
<1>2. CASE RegistryStep \/ \E t \in Removers : DisposeClient(t)
  BY <1>2 DEF RegistryStep, DisposeClient, RemoveStep
<1>3. CASE UNCHANGED allVars
  BY <1>3 DEF allVars
<1> QED BY <1>1, <1>2, <1>3 DEF EntranceNext

\* The types of both modules and the ownership of clients are kept by every
\* step, with or without OneAtATime.
LEMMA OwnershipNext ==
    ASSUME TypeInv, OwnershipInv, EntranceTypeOK, [EntranceNext]_allVars
    PROVE  TypeInv' /\ OwnershipInv' /\ EntranceTypeOK'
<1>1. TypeInv' /\ OwnershipInv'
  <2>1. CASE UNCHANGED vars
    BY <2>1
    DEF vars, addVars, removeVars, udVars, TypeInv, TypeOK, LocalInv,
        OwnershipInv, HeldBy
  <2> QED
    BY <2>1, StepIsCall, TypeInvAdd, TypeInvRemove, OwnershipAdd,
       OwnershipRemove
<1>2. ASSUME NEW t \in Removers, DisposeClient(t) PROVE EntranceTypeOK'
  <2>1. removeClient[t] \in Clients
    BY <1>2 DEF DisposeClient, Dispose, TypeInv, TypeOK, LocalInv
  <2> QED
    BY <1>2, <2>1
    DEF DisposeClient, SpawnClose, EntranceTypeOK, Channels
<1>3. ASSUME RegistryStep \/ UNCHANGED allVars PROVE EntranceTypeOK'
  <2>1. UNCHANGED entranceVars
    BY <1>3 DEF RegistryStep, allVars
  <2>2. UNCHANGED <<enterPc, transport, notices, closing, channel, messagePc>>
    BY <2>1 DEF entranceVars
  <2> QED BY <2>2 DEF EntranceTypeOK
<1>4. ASSUME NEW c \in Clients, ServerStep(c) \/ ClientStep(c)
      PROVE  EntranceTypeOK'
  BY <1>4, EntranceTypes
<1> QED BY <1>1, <1>2, <1>3, <1>4 DEF EntranceNext

-----------------------------------------------------------------------------
(* The theorems                                                            *)

\* A new request begins only when nothing else of its session is left.
LEMMA OneLeftInvStep ==
    ASSUME OneAtATime, EntranceInv, NEW c \in Clients,
           ServerStep(c) \/ ClientStep(c)
    PROVE  OneLeftInv'
<1>1. ASSUME NEW d \in Clients, ~Drained(d)' PROVE ~Drained(d) \/ CheckAvailable(d)
  BY <1>1, DrainedKept DEF EntranceInv, CallsInv
<1>2. ASSUME NEW d \in Clients, CheckAvailable(d), NEW e \in Clients, e # d,
             SessionOf[e] = SessionOf[d], ~Drained(e)'
      PROVE  FALSE
  <2>1. Drained(e)
    BY <1>2 DEF CheckAvailable, SessionFree
  <2>2. ~CheckAvailable(e)
    BY <1>2 DEF CheckAvailable, EnterGoto, EntranceInv, EntranceTypeOK
  <2> QED BY <1>1, <1>2, <2>1, <2>2
<1> QED BY <1>1, <1>2 DEF EntranceInv, OneLeftInv

\* Every step of the entrance server keeps its invariant.
LEMMA EntranceInvNext ==
    ASSUME SerialSessions, OneAtATime, EntranceInv, [EntranceNext]_allVars
    PROVE  EntranceInv'
<1>1. CallsInv'
  BY StepIsRegistryStep, CallsInvNext DEF EntranceInv
<1>2. ASSUME NEW c \in Clients, ServerStep(c) \/ ClientStep(c)
      PROVE  EntranceInv'
  BY <1>1, <1>2, EntranceTypes, AdmitInvStep, ConnectionInvStep,
     OwnRemovalInvStep, NoticeInvStep, OneLeftInvStep
  DEF EntranceInv, CallsInv
<1>3. ASSUME NEW c \in Clients, AddStep(c), UNCHANGED entranceVars
      PROVE  EntranceInv'
  BY <1>1, <1>3, AddKeepsEntranceInv
<1>4. ASSUME NEW t \in Removers, RemoveStep(t), removePc[t] # "dispose",
             UNCHANGED entranceVars
      PROVE  EntranceInv'
  <2>1. UNCHANGED disposed
    BY <1>4 DEF RemoveStep, TakeConnection, FreeSlot, Dispose, FindUrlData,
                UncountClient, RetainOthers, DropUrlData
  <2>2. AdmitInv' /\ OwnRemovalInv' /\ NoticeInv' /\ OneLeftInv'
    BY <1>1, <1>4, RemoveKeepsEntranceInv DEF entranceVars
  <2>3. EntranceTypeOK' /\ ConnectionInv'
    BY <1>4, <2>1
    DEF entranceVars, EntranceInv, EntranceTypeOK, ConnectionInv
  <2> QED BY <1>1, <2>2, <2>3 DEF EntranceInv
<1>5. ASSUME NEW t \in Removers, DisposeClient(t) PROVE EntranceInv'
  BY <1>1, <1>5, DisposeKeepsEntranceInv
<1>6. CASE UNCHANGED allVars
  <2>1. UNCHANGED <<enterPc, transport, notices, closing, channel, messagePc,
                    connectionMap, disposed, addPc, removePc, removeSession,
                    removeClient>>
    BY <1>6 DEF allVars, vars, addVars, removeVars, entranceVars
  <2> QED
    BY <1>1, <2>1
    DEF EntranceInv, EntranceTypeOK, AdmitInv, ConnectionInv, OwnRemovalInv,
        OneLeftInv, NoticeInv, Drained, Registered
<1> QED BY <1>2, <1>3, <1>4, <1>5, <1>6 DEF EntranceNext, RegistryStep

\* The entrance server starts with no request, connection or callback.
LEMMA EntranceInvInit == EntranceInit => EntranceInv
<1> SUFFICES ASSUME EntranceInit PROVE EntranceInv
  OBVIOUS
<1>1. CallsInv
  BY TypeInvInit, CallInvInit
  DEF EntranceInit, Init, CallsInv, CallInv, DisposedInv, ListedAreAdded
<1>2. \A c \in Clients : Drained(c)
  BY RemoverIs DEF EntranceInit, Init, Drained
<1>3. OneLeftInv
  BY <1>2 DEF OneLeftInv
<1>4. EntranceTypeOK /\ AdmitInv /\ ConnectionInv
  BY DEF EntranceInit, Init, EntranceTypeOK, AdmitInv, ConnectionInv, EnterPcs,
         Transports, Channels, MessagePcs
<1>5. OwnRemovalInv
  BY RemoverIs DEF EntranceInit, Init, OwnRemovalInv
<1>6. NoticeInv
  BY DEF EntranceInit, Init, NoticeInv, Registered
<1> QED BY <1>1, <1>3, <1>4, <1>5, <1>6 DEF EntranceInv

\* The invariant holds throughout.
THEOREM EntranceInvHolds ==
    ASSUME SerialSessions, OneAtATime PROVE EntranceSpec => []EntranceInv
<1>1. EntranceInv /\ [EntranceNext]_allVars => EntranceInv'
  BY EntranceInvNext
<1> QED BY EntranceInvInit, <1>1, PTL DEF EntranceSpec

\* The handlers, callbacks and messages of the entrance server keep the contract
\* that the registry's guarantees rest on: all they do to it is a behaviour of
\* Registry with calls of one session kept apart.
THEOREM EntranceImplementsRegistry ==
    ASSUME SerialSessions, OneAtATime PROVE EntranceSpec => ImplementsRegistry
<1>1. EntranceInit => Init
  BY DEF EntranceInit
<1>2. EntranceInv /\ [EntranceNext]_allVars => [Next]_vars
  BY StepIsRegistryStep
<1> QED
  BY <1>1, <1>2, EntranceInvHolds, PTL
  DEF EntranceSpec, Spec, ImplementsRegistry

\* So what the registry guarantees its callers reaches the clients: whatever
\* requests, callbacks and messages do, neither limit is exceeded, the views of
\* who is connected agree at rest, and nobody is removed twice.
THEOREM GuaranteesReachClients ==
    ASSUME SerialSessions, OneAtATime, MaxByUrl # 0
    PROVE  EntranceSpec =>
              /\ ImplementsAdmission
              /\ [](ConnectionCap /\ UrlCap /\ ViewsAgree /\ RemovedOnce)
BY EntranceImplementsRegistry, RegistryImplementsAdmission, ConnectionCapHolds,
   UrlCapHolds, ViewsDoAgree, ClientsAreRemovedOnce, PTL DEF ImplementsRegistry

\* A session that enters again while its earlier connections are still being
\* taken down can lose slots, but no client of it is removed twice: however its
\* requests, callbacks and messages overlap, one removal at most uncounts and
\* disposes a client, which is never registered again.
THEOREM OverlapsRemoveOnce == EntranceSpec => []RemovedOnce
<1>1. EntranceInit => TypeInv /\ OwnershipInv /\ EntranceTypeOK
  BY TypeInvInit, OwnershipInit
  DEF EntranceInit, EntranceTypeOK, EnterPcs, Transports, Channels, MessagePcs
<1>2. TypeInv /\ OwnershipInv /\ EntranceTypeOK /\ [EntranceNext]_allVars
        => (TypeInv /\ OwnershipInv /\ EntranceTypeOK)'
  BY OwnershipNext
<1>3. OwnershipInv => RemovedOnce
  BY DEF OwnershipInv, RemovedOnce, Registered
<1> QED BY <1>1, <1>2, <1>3, PTL DEF EntranceSpec

\* No dead connection stays registered unnoticed.
THEOREM DeadConnectionsAreNoticed ==
    ASSUME SerialSessions, OneAtATime PROVE EntranceSpec => []DeadIsNoticed
<1>1. EntranceInv => DeadIsNoticed
  <2> SUFFICES ASSUME EntranceInv, NEW c \in Clients, Registered(c),
                      transport[c] \in {"lost", "closed"},
                      notices[c] = {}, messagePc[c] # "remove"
               PROVE  \E t \in Removers :
                         Removing(t, SessionOf[c]) /\ removePc[t] = "lookup"
    BY DEF DeadIsNoticed, RegisteredClients
  <2>1. PICK cause \in Causes : removePc[<<cause, c>>] = "lookup"
    BY DEF EntranceInv, NoticeInv
  <2> QED
    BY <2>1, RemoverIs DEF EntranceInv, OwnRemovalInv, Removing
<1> QED BY <1>1, EntranceInvHolds, PTL

\* A request that was refused, failed or was given up holds no slot, no place,
\* no map entry, and is listed nowhere.
THEOREM RefusedLeaveNothing ==
    ASSUME SerialSessions, OneAtATime
    PROVE  EntranceSpec => []RefusedLeavesNothing
<1>1. EntranceInv => RefusedLeavesNothing
  <2> SUFFICES ASSUME EntranceInv, NEW c \in Clients, enterPc[c] = "returned"
               PROVE  /\ connectionMap[SessionOf[c]] # c
                      /\ ~HoldsSlot(c) /\ ~HoldsUrlSlot(c)
                      /\ \A d \in Clients : c \notin udClients[d]
    BY DEF RefusedLeavesNothing
  <2> USE ConstantsAssumption DEF EntranceInv, CallsInv, CallInv
  <2>1. addPc[c] \in {"idle", "refused"}
    BY DEF AdmitInv
  <2>2. connectionMap[SessionOf[c]] # c
    BY <2>1 DEF SessionInv, AfterInsert
  <2>3. \A t \in Removers : removeClient[t] # c
    BY <2>1 DEF RemovalInv
  <2>4. \A d \in Clients : c \notin udClients[d]
    BY <2>1 DEF ListedAreAdded
  <2> QED
    BY <2>1, <2>2, <2>3, <2>4 DEF HoldsSlot, HoldsUrlSlot, Registered, HeldBy
<1> QED BY <1>1, EntranceInvHolds, PTL

\* Only its own connection's callbacks or messages take a registered client out
\* of the map: neither the eviction of a later request nor a callback left over
\* from an earlier one does.
THEOREM EvictionsAreOwn ==
    ASSUME SerialSessions, OneAtATime
    PROVE  EntranceSpec => EvictedByOwnConnection
<1>1. ASSUME EntranceInv, [EntranceNext]_allVars, NEW c \in Clients,
             Registered(c), ~Registered(c)'
      PROVE  \E cause \in Causes \ {"enter"} : removeClient'[<<cause, c>>] = c
  <2> USE DEF EntranceInv, CallsInv, CallInv
  <2>1. addPc[c] = "added" /\ connectionMap[SessionOf[c]] = c
    BY <1>1 DEF Registered
  <2>2. ASSUME NEW d \in Clients, AddStep(d) \/ BeginAdd(d) PROVE FALSE
    <3>1. d # c
      BY <1>1, <2>1, <2>2, AddStepEffect DEF Adding, BeginAdd
    <3>2. BeginAdd(d) => (Registered(c)' <=> Registered(c))
      BY <1>1, <3>1 DEF BeginAdd, AddGoto, Registered, TypeInv, TypeOK
    <3> QED BY <1>1, <2>2, <3>1, <3>2, AddStepEffect
  <2>3. PICK t \in Removers : TakeConnection(t)
    BY <1>1, <2>2, StepIsRegistryStep
    DEF Next, RemoveStep, BeginRemove, FreeSlot, Dispose, FindUrlData,
        UncountClient, RetainOthers, DropUrlData, vars, addVars, Registered
  <2>4. PICK d \in Clients : \E cause \in Causes : t = <<cause, d>>
    BY RemoverIs
  <2>5. PICK cause \in Causes : t = <<cause, d>>
    BY <2>4
  <2>6. removePc[t] = "lookup" /\ removeSession[t] = SessionOf[d]
    BY <1>1, <2>3, <2>5 DEF TakeConnection, OwnRemovalInv
  <2>7. /\ connectionMap[SessionOf[d]] = c
        /\ removeClient' = [removeClient EXCEPT ![t] = c]
    BY <1>1, <2>1, <2>3, <2>6, ConstantsAssumption
    DEF TakeConnection, Without, addVars, Registered, TypeInv, TypeOK
  <2>8. removeClient'[t] = c
    BY <1>1, <2>7 DEF TypeInv, TypeOK
  <2>9. d = c
    <3>1. ~Drained(d)
      BY <2>5, <2>6 DEF Drained
    <3>2. c # Null
      BY ConstantsAssumption
    <3> QED
      BY <1>1, <2>7, <3>1, <3>2, AloneOnSession
  <2>10. cause # "enter"
    BY <1>1, <2>1, <2>5, <2>6, <2>9 DEF OwnRemovalInv, AdmitInv, Before
  <2> QED BY <2>5, <2>8, <2>9, <2>10
<1>2. EntranceInv /\ [EntranceNext]_allVars =>
        [\A c \in Clients :
            Registered(c) /\ ~Registered(c)' =>
                \E cause \in Causes \ {"enter"} : removeClient'[<<cause, c>>] = c
        ]_allVars
  BY <1>1
<1> QED
  BY <1>2, EntranceInvHolds, PTL DEF EntranceSpec, EvictedByOwnConnection

=============================================================================
