--------------------------- MODULE RegistryProofs ---------------------------
(***************************************************************************)
(* Proofs about Registry.                                                  *)
(***************************************************************************)
EXTENDS RegistryInv, FiniteSetTheorems, TLAPS

USE DEF ServerFull, UrlFull, UnchangedSince, Without, EntryFree, Unlocked,
        Retained, Droppable

\* The url has a UrlData that no client is counted in.
IsEmpty(u) == urlDataMap[u] # Null /\ udClientCount[urlDataMap[u]] = 0

USE DEF IsEmpty

\* A wrapped decrement is still a counter value.
LEMMA FetchSubType == ASSUME NEW n \in Counters PROVE FetchSub(n) \in Counters
BY ConstantsAssumption DEF Counters, FetchSub

\* The registry starts well typed.
LEMMA TypeInvInit == Init => TypeInv
BY ConstantsAssumption DEF Init, TypeInv, TypeOK, LocalInv, Counters, AddPcs, RemovePcs

\* Every step of add_connection keeps the types and what the call has read.
LEMMA TypeInvAdd ==
    ASSUME TypeInv, NEW c \in Clients, BeginAdd(c) \/ AddStep(c)
    PROVE  TypeInv'
<1> USE ConstantsAssumption DEF TypeInv, TypeOK, LocalInv, Counters, AddPcs, AddGoto
<1>1. CASE BeginAdd(c)
  <2>2. TypeOK'
    BY <1>1 DEF BeginAdd, removeVars, udVars
  <2>3. LocalInv'
    BY <1>1 DEF BeginAdd, removeVars
  <2> QED BY <2>2, <2>3
<1>2. CASE LoadCount(c)
  BY <1>2, SMTT(30) DEF LoadCount, removeVars, udVars
<1>3. CASE TakeSlot(c)
  <2>1. clientCount' \in Counters
    BY <1>3 DEF TakeSlot
  <2>2. TypeOK'
    BY <1>3, <2>1 DEF TakeSlot, removeVars, udVars
  <2>3. LocalInv'
    BY <1>3 DEF TakeSlot, removeVars
  <2> QED BY <2>2, <2>3
<1>4. CASE InsertConnection(c)
  BY <1>4 DEF InsertConnection, removeVars, udVars
<1>5. CASE CreateUrlData(c)
  BY <1>5 DEF CreateUrlData, removeVars, udVars
<1>6. CASE LockUrlData(c)
  BY <1>6 DEF LockUrlData, removeVars, udVars
<1>7. CASE LoadUrlCount(c)
  BY <1>7, SMTT(30) DEF LoadUrlCount, removeVars, udVars
<1>8. CASE TakeUrlSlot(c)
  BY <1>8 DEF TakeUrlSlot, removeVars, udVars
<1>9. CASE PushClient(c)
  BY <1>9 DEF PushClient, removeVars, udVars
<1>10. CASE ReturnSlot(c)
  BY <1>10, FetchSubType DEF ReturnSlot, removeVars, udVars
<1>11. CASE UnmapRefused(c)
  BY <1>11 DEF UnmapRefused, removeVars, udVars
<1> QED BY <1>1, <1>2, <1>3, <1>4, <1>5, <1>6, <1>7, <1>8, <1>9, <1>10, <1>11 DEF AddStep

\* Every step of remove_connection keeps them too.
LEMMA TypeInvRemove ==
    ASSUME TypeInv, NEW t \in Removers,
           (\E s \in Sessions : BeginRemove(t, s)) \/ RemoveStep(t)
    PROVE  TypeInv'
<1> USE ConstantsAssumption DEF TypeInv, TypeOK, LocalInv, RemovePcs, RemoveGoto
<1>1. ASSUME NEW s \in Sessions, BeginRemove(t, s) PROVE TypeInv'
  BY <1>1 DEF BeginRemove, addVars, udVars
<1>2. CASE TakeConnection(t)
  BY <1>2, SMTT(30) DEF TakeConnection, addVars, udVars
<1>3. CASE FreeSlot(t)
  BY <1>3, FetchSubType DEF FreeSlot, addVars, udVars
<1>4. CASE Dispose(t)
  BY <1>4 DEF Dispose, addVars, udVars
<1>5. CASE FindUrlData(t)
  BY <1>5 DEF FindUrlData, addVars, udVars
<1>6. CASE UncountClient(t)
  BY <1>6, FetchSubType DEF UncountClient, addVars, udVars
<1>7. CASE RetainOthers(t)
  BY <1>7 DEF RetainOthers, addVars, udVars
<1>8. CASE DropUrlData(t)
  BY <1>8 DEF DropUrlData, addVars, udVars
<1> QED BY <1>1, <1>2, <1>3, <1>4, <1>5, <1>6, <1>7, <1>8 DEF RemoveStep

-----------------------------------------------------------------------------
(* Calls of one session do not overlap                                     *)

\* Before the first call nothing overlaps.
LEMMA CallInvInit == Init => SessionInv /\ RemovalInv
BY ConstantsAssumption DEF Init, SessionInv, RemovalInv, Adding, Removing,
   BeforeInsert, AfterInsert

\* A step of add_connection keeps the calls of one session apart and
\* connection_map in step with them.
LEMMA CallInvAdd ==
    ASSUME CallInv, SerialSessions, NEW c \in Clients,
           (AddAllowed(c) /\ BeginAdd(c)) \/ AddStep(c)
    PROVE  SessionInv' /\ RemovalInv'
<1> USE ConstantsAssumption DEF CallInv, TypeInv, TypeOK, LocalInv, AddGoto,
        AddPcs, SessionInv, RemovalInv, Adding, Removing,
        BeforeInsert, AfterInsert
<1>1. CASE AddAllowed(c) /\ BeginAdd(c)
  BY <1>1 DEF AddAllowed, BeginAdd, removeVars
<1>2. CASE LoadCount(c)
  <2>1. PICK pc \in {"refused", "cas"} :
            addPc[c] = "load" /\ addPc' = [addPc EXCEPT ![c] = pc]
    BY <1>2 DEF LoadCount
  <2>2. UNCHANGED <<connectionMap, removePc, removeSession, removeClient>>
    BY <1>2 DEF LoadCount, removeVars
  <2> QED BY <2>1, <2>2
<1>3. CASE TakeSlot(c)
  <2>1. PICK pc \in {"insert", "load"} :
            addPc[c] = "cas" /\ addPc' = [addPc EXCEPT ![c] = pc]
    BY <1>3 DEF TakeSlot
  <2>2. UNCHANGED <<connectionMap, removePc, removeSession, removeClient>>
    BY <1>3 DEF TakeSlot, removeVars
  <2> QED BY <2>1, <2>2
<1>4. CASE InsertConnection(c)
  BY <1>4, SMTT(30) DEF InsertConnection, removeVars
<1>5. CASE CreateUrlData(c)
  BY <1>5 DEF CreateUrlData, removeVars
<1>6. CASE LockUrlData(c)
  BY <1>6 DEF LockUrlData, removeVars
<1>7. CASE LoadUrlCount(c)
  <2>1. PICK pc \in {"uncount", "urlCas"} :
            addPc[c] = "urlLoad" /\ addPc' = [addPc EXCEPT ![c] = pc]
    BY <1>7 DEF LoadUrlCount
  <2>2. UNCHANGED <<connectionMap, removePc, removeSession, removeClient>>
    BY <1>7 DEF LoadUrlCount, removeVars
  <2> QED BY <2>1, <2>2
<1>8. CASE TakeUrlSlot(c)
  <2>1. PICK pc \in {"push", "urlLoad"} :
            addPc[c] = "urlCas" /\ addPc' = [addPc EXCEPT ![c] = pc]
    BY <1>8 DEF TakeUrlSlot
  <2>2. UNCHANGED <<connectionMap, removePc, removeSession, removeClient>>
    BY <1>8 DEF TakeUrlSlot, removeVars
  <2> QED BY <2>1, <2>2
<1>9. CASE PushClient(c)
  BY <1>9 DEF PushClient, removeVars
<1>10. CASE ReturnSlot(c)
  BY <1>10 DEF ReturnSlot, removeVars
<1>11. CASE UnmapRefused(c)
  BY <1>11 DEF UnmapRefused, removeVars
<1> QED BY <1>1, <1>2, <1>3, <1>4, <1>5, <1>6, <1>7, <1>8, <1>9, <1>10, <1>11
       DEF AddStep

\* A step of remove_connection does so too, and owns the client it takes.
LEMMA CallInvRemove ==
    ASSUME CallInv, SerialSessions, NEW t \in Removers,
           (\E s \in Sessions : RemoveAllowed(s) /\ BeginRemove(t, s))
             \/ RemoveStep(t)
    PROVE  SessionInv' /\ RemovalInv'
<1> USE ConstantsAssumption DEF CallInv, TypeInv, TypeOK, LocalInv, RemoveGoto,
        RemovePcs, SessionInv, RemovalInv, Adding, Removing,
        BeforeInsert, AfterInsert
<1>1. ASSUME NEW s \in Sessions, RemoveAllowed(s), BeginRemove(t, s)
      PROVE  SessionInv' /\ RemovalInv'
  BY <1>1 DEF RemoveAllowed, BeginRemove, addVars
<1>2. CASE TakeConnection(t)
  <2>1. CASE connectionMap[removeSession[t]] = Null
    BY <1>2, <2>1 DEF TakeConnection, addVars
  <2>2. CASE connectionMap[removeSession[t]] # Null
    <3>1. /\ removePc[t] = "lookup"
          /\ removePc' = [removePc EXCEPT ![t] = "uncount"]
          /\ removeClient' = [removeClient EXCEPT
                               ![t] = connectionMap[removeSession[t]]]
          /\ connectionMap' = [connectionMap EXCEPT ![removeSession[t]] = Null]
          /\ UNCHANGED <<removeSession, addPc>>
      BY <1>2, <2>2 DEF TakeConnection, addVars
    <3>2. /\ removeSession[t] \in Sessions
          /\ Removing(t, removeSession[t])
      BY <3>1
    <3>3. addPc[connectionMap[removeSession[t]]] = "added"
      BY <2>2, <3>2
    <3>4. SessionInv'
      BY <3>1, <3>2, <3>3
    <3>5. RemovalInv'
      BY <2>2, <3>1, <3>2, <3>3
    <3> QED BY <3>4, <3>5
  <2> QED BY <2>1, <2>2
<1>3. CASE FreeSlot(t)
  BY <1>3 DEF FreeSlot, addVars
<1>4. CASE Dispose(t)
  BY <1>4 DEF Dispose, addVars
<1>5. CASE FindUrlData(t)
  BY <1>5 DEF FindUrlData, addVars
<1>6. CASE UncountClient(t)
  BY <1>6 DEF UncountClient, addVars
<1>7. CASE RetainOthers(t)
  BY <1>7 DEF RetainOthers, addVars
<1>8. CASE DropUrlData(t)
  BY <1>8 DEF DropUrlData, addVars
<1> QED BY <1>1, <1>2, <1>3, <1>4, <1>5, <1>6, <1>7, <1>8 DEF RemoveStep

-----------------------------------------------------------------------------
(* client_count counts the slot holders                                    *)

\* No client holds a slot at first, and the counter is zero.
LEMMA SlotInvInit == Init => SlotInv
<1> SUFFICES ASSUME Init PROVE SlotInv
  OBVIOUS
<1>1. SlotHolders = {}
  BY ConstantsAssumption DEF Init, SlotHolders, HoldsSlot, Registered, HeldBy
<1> QED
  BY <1>1, FS_EmptySet, ConstantsAssumption DEF Init, SlotInv, SlotsAccounted

\* A step that changes neither the counter nor what a client holds.
LEMMA SlotInvStutter ==
    ASSUME SlotInv, clientCount' = clientCount,
           \A d \in Clients : HoldsSlot(d)' <=> HoldsSlot(d)
    PROVE  SlotInv'
<1>1. SlotHolders' = SlotHolders
  BY DEF SlotHolders
<1> QED BY <1>1 DEF SlotInv, SlotsAccounted

\* fetch_sub by a client that gives its slot up: the counter is not zero.
LEMMA SlotInvRelease ==
    ASSUME TypeOK, SlotInv, NEW c \in Clients,
           HoldsSlot(c), ~HoldsSlot(c)',
           \A d \in Clients \ {c} : HoldsSlot(d)' <=> HoldsSlot(d),
           clientCount' = FetchSub(clientCount)
    PROVE  SlotInv'
<1>1. SlotHolders' = SlotHolders \ {c} /\ c \in SlotHolders
  BY DEF SlotHolders
<1>2. /\ IsFiniteSet(SlotHolders')
      /\ Cardinality(SlotHolders') = Cardinality(SlotHolders) - 1
  BY <1>1, FS_RemoveElement DEF SlotInv
<1>3. Cardinality(SlotHolders) \in Nat /\ Cardinality(SlotHolders') \in Nat
  BY <1>2, FS_CardinalityType DEF SlotInv
<1> QED
  BY <1>2, <1>3, ConstantsAssumption
  DEF SlotInv, SlotsAccounted, FetchSub, TypeOK, Counters

\* add_connection: the compare_exchange and the rollback move the counter with
\* the slot holders.
LEMMA SlotInvAdd ==
    ASSUME CallInv, SlotInv, NEW c \in Clients,
           (AddAllowed(c) /\ BeginAdd(c)) \/ AddStep(c)
    PROVE  SlotInv'
<1> USE ConstantsAssumption DEF CallInv, TypeInv, TypeOK, AddGoto, AddPcs,
        SessionInv, RemovalInv, BeforeInsert, AfterInsert,
        HoldsSlot, Registered, HeldBy
<1>1. CASE BeginAdd(c)
  BY <1>1, SlotInvStutter DEF BeginAdd, removeVars
<1>2. CASE LoadCount(c)
  BY <1>2, SlotInvStutter DEF LoadCount, removeVars
<1>3. CASE TakeSlot(c) /\ clientCount # addSeen[c]
  BY <1>3, SlotInvStutter DEF TakeSlot, removeVars
<1>4. CASE TakeSlot(c) /\ clientCount = addSeen[c]
  <2>1. /\ addPc[c] = "cas"
        /\ addPc' = [addPc EXCEPT ![c] = "insert"]
        /\ clientCount' = clientCount + 1
        /\ clientCount < MaxConnections
        /\ UNCHANGED <<connectionMap, removePc, removeClient>>
    BY <1>4 DEF TakeSlot, removeVars, LocalInv
  <2>2. HoldsSlot(c)' /\ ~HoldsSlot(c)
    BY <2>1
  <2>3. \A d \in Clients \ {c} : HoldsSlot(d)' <=> HoldsSlot(d)
    BY <2>1
  <2>4. SlotHolders' = SlotHolders \cup {c} /\ c \notin SlotHolders
    BY <2>2, <2>3 DEF SlotHolders
  <2>5. /\ IsFiniteSet(SlotHolders')
        /\ Cardinality(SlotHolders') = Cardinality(SlotHolders) + 1
    BY <2>4, FS_AddElement DEF SlotInv
  <2> QED
    BY <2>1, <2>5 DEF SlotInv, SlotsAccounted, Counters
<1>5. CASE InsertConnection(c)
  BY <1>5, SlotInvStutter DEF InsertConnection, removeVars
<1>6. CASE CreateUrlData(c)
  BY <1>6, SlotInvStutter DEF CreateUrlData, removeVars
<1>7. CASE LockUrlData(c)
  BY <1>7, SlotInvStutter DEF LockUrlData, removeVars
<1>8. CASE LoadUrlCount(c)
  BY <1>8, SlotInvStutter DEF LoadUrlCount, removeVars
<1>9. CASE TakeUrlSlot(c)
  BY <1>9, SlotInvStutter DEF TakeUrlSlot, removeVars
<1>10. CASE PushClient(c)
  BY <1>10, SlotInvStutter DEF PushClient, removeVars
<1>11. CASE ReturnSlot(c)
  <2>1. HoldsSlot(c) /\ ~HoldsSlot(c)'
    BY <1>11 DEF ReturnSlot, removeVars, LocalInv
  <2>2. \A d \in Clients \ {c} : HoldsSlot(d)' <=> HoldsSlot(d)
    BY <1>11 DEF ReturnSlot, removeVars
  <2>3. clientCount' = FetchSub(clientCount)
    BY <1>11 DEF ReturnSlot
  <2> HIDE DEF HoldsSlot
  <2> QED
    BY <2>1, <2>2, <2>3, SlotInvRelease
<1>12. CASE UnmapRefused(c)
  BY <1>12, SlotInvStutter DEF UnmapRefused, removeVars
<1> QED
  BY <1>1, <1>2, <1>3, <1>4, <1>5, <1>6, <1>7, <1>8, <1>9, <1>10, <1>11, <1>12
  DEF AddStep, TakeSlot

\* remove_connection: the decrement comes exactly when the client stops holding.
LEMMA SlotInvRemove ==
    ASSUME CallInv, SlotInv, NEW t \in Removers,
           (\E s \in Sessions : RemoveAllowed(s) /\ BeginRemove(t, s))
             \/ RemoveStep(t)
    PROVE  SlotInv'
<1> USE ConstantsAssumption DEF CallInv, TypeInv, TypeOK, LocalInv, RemoveGoto,
        RemovePcs, SessionInv, RemovalInv, HoldsSlot, Registered, HeldBy
<1>1. ASSUME NEW s \in Sessions, BeginRemove(t, s) PROVE SlotInv'
  BY <1>1, SlotInvStutter DEF BeginRemove, addVars
<1>2. CASE TakeConnection(t) /\ connectionMap[removeSession[t]] = Null
  BY <1>2, SlotInvStutter DEF TakeConnection, addVars
<1>3. CASE TakeConnection(t) /\ connectionMap[removeSession[t]] # Null
  <2>1. PICK c \in Clients : c = connectionMap[removeSession[t]]
    BY <1>3 DEF TakeConnection
  <2>2. /\ removePc[t] = "lookup"
        /\ removePc' = [removePc EXCEPT ![t] = "uncount"]
        /\ removeClient' = [removeClient EXCEPT ![t] = c]
        /\ connectionMap' = [connectionMap EXCEPT ![removeSession[t]] = Null]
        /\ UNCHANGED <<clientCount, removeSession, addPc>>
    BY <1>3, <2>1 DEF TakeConnection, addVars
  <2>3. /\ removeSession[t] \in Sessions
        /\ SessionOf[c] = removeSession[t]
        /\ removeClient[t] = Null
    BY <1>3, <2>1, <2>2
  <2>4. addPc[c] = "added"
    BY <1>3, <2>1, <2>2, <2>3 DEF Adding, Removing, AfterInsert
  <2>5. HoldsSlot(c) /\ HoldsSlot(c)'
    BY <2>1, <2>2, <2>3, <2>4
  <2>6. \A d \in Clients \ {c} : HoldsSlot(d)' <=> HoldsSlot(d)
    BY <2>1, <2>2, <2>3
  <2> QED
    BY <2>2, <2>5, <2>6, SlotInvStutter
<1>4. CASE FreeSlot(t)
  <2> DEFINE c == removeClient[t]
  <2>1. /\ removePc[t] = "uncount"
        /\ removePc' = [removePc EXCEPT ![t] = "dispose"]
        /\ UNCHANGED <<connectionMap, addPc, removeClient>>
    BY <1>4 DEF FreeSlot, addVars
  <2>2. c \in Clients /\ addPc[c] = "added" /\ connectionMap[SessionOf[c]] = Null
    BY <2>1
  <2>3. HoldsSlot(c) /\ ~HoldsSlot(c)'
    BY <2>1, <2>2
  <2>4. \A d \in Clients \ {c} : HoldsSlot(d)' <=> HoldsSlot(d)
    BY <2>1
  <2> QED
    BY <1>4, <2>2, <2>3, <2>4, SlotInvRelease DEF FreeSlot
<1>5. CASE Dispose(t)
  BY <1>5, SlotInvStutter DEF Dispose, addVars
<1>6. CASE FindUrlData(t)
  BY <1>6, SlotInvStutter DEF FindUrlData, addVars
<1>7. CASE UncountClient(t)
  BY <1>7, SlotInvStutter DEF UncountClient, addVars
<1>8. CASE RetainOthers(t)
  BY <1>8, SlotInvStutter DEF RetainOthers, addVars
<1>9. CASE DropUrlData(t)
  BY <1>9, SlotInvStutter DEF DropUrlData, addVars
<1> QED
  BY <1>1, <1>2, <1>3, <1>4, <1>5, <1>6, <1>7, <1>8, <1>9
  DEF RemoveStep, TakeConnection

-----------------------------------------------------------------------------
(* The UrlData of a url                                                    *)

\* No url has a UrlData at first.
LEMMA UrlInvInit == Init => UrlInv
<1> SUFFICES ASSUME Init PROVE UrlInv
  OBVIOUS
<1>1. \A u \in Urls : UrlSlotHolders(u) = {}
  BY ConstantsAssumption
  DEF Init, UrlSlotHolders, HoldsUrlSlot, Registered, HeldBy
<1> QED
  BY <1>1, FS_EmptySet, ConstantsAssumption
  DEF Init, UrlInv, EntryInv, UrlCountInv, UrlCountOk, UrlDataReachable,
      RegisteredClients, Registered, EmptyUrlDataHasReaper

\* The entry guard of an add keeps its UrlData in the map.
LEMMA EntryInvAdd ==
    ASSUME CallInv, EntryInv, NEW c \in Clients,
           (AddAllowed(c) /\ BeginAdd(c)) \/ AddStep(c)
    PROVE  EntryInv'
<1> USE ConstantsAssumption DEF CallInv, TypeInv, TypeOK, LocalInv,
        EntryInv, AddGoto, AddPcs
<1>1. CASE BeginAdd(c)
  BY <1>1 DEF BeginAdd, removeVars, udVars
<1>2. CASE LoadCount(c)
  BY <1>2, SMTT(30) DEF LoadCount, removeVars, udVars
<1>3. CASE TakeSlot(c)
  BY <1>3 DEF TakeSlot, removeVars, udVars
<1>4. CASE InsertConnection(c)
  BY <1>4 DEF InsertConnection, removeVars, udVars
<1>5. CASE CreateUrlData(c)
  BY <1>5 DEF CreateUrlData, removeVars, udVars
<1>6. CASE LockUrlData(c)
  BY <1>6 DEF LockUrlData, removeVars, udVars
<1>7. CASE LoadUrlCount(c)
  BY <1>7, SMTT(30) DEF LoadUrlCount, removeVars, udVars
<1>8. CASE TakeUrlSlot(c)
  BY <1>8 DEF TakeUrlSlot, removeVars, udVars
<1>9. CASE PushClient(c)
  BY <1>9 DEF PushClient, removeVars, udVars
<1>10. CASE ReturnSlot(c)
  BY <1>10 DEF ReturnSlot, removeVars, udVars
<1>11. CASE UnmapRefused(c)
  BY <1>11 DEF UnmapRefused, removeVars, udVars
<1> QED BY <1>1, <1>2, <1>3, <1>4, <1>5, <1>6, <1>7, <1>8, <1>9, <1>10, <1>11
       DEF AddStep

\* A UrlData is dropped only when its url has no slot holder, hence no removal
\* that is about to decrement its count.
LEMMA EntryInvRemove ==
    ASSUME CallInv, EntryInv, UrlCountInv, NEW t \in Removers,
           (\E s \in Sessions : RemoveAllowed(s) /\ BeginRemove(t, s))
             \/ RemoveStep(t)
    PROVE  EntryInv'
<1> USE ConstantsAssumption DEF CallInv, TypeInv, TypeOK, LocalInv,
        EntryInv, RemoveGoto, RemovePcs
<1>1. ASSUME NEW s \in Sessions, BeginRemove(t, s) PROVE EntryInv'
  BY <1>1 DEF BeginRemove, addVars, udVars
<1>2. CASE TakeConnection(t)
  BY <1>2, SMTT(30) DEF TakeConnection, addVars, udVars
<1>3. CASE FreeSlot(t)
  BY <1>3 DEF FreeSlot, addVars, udVars
<1>4. CASE Dispose(t)
  BY <1>4 DEF Dispose, addVars, udVars
<1>5. CASE FindUrlData(t)
  BY <1>5 DEF FindUrlData, addVars, udVars
<1>6. CASE UncountClient(t)
  BY <1>6 DEF UncountClient, addVars, udVars
<1>7. CASE RetainOthers(t)
  BY <1>7 DEF RetainOthers, addVars, udVars
<1>8. CASE DropUrlData(t)
  <2> DEFINE u == UrlOf[removeClient[t]]
  <2>1. ASSUME NEW r \in Removers, removePc[r] = "urlUncount",
               UrlOf[removeClient[r]] = u
        PROVE  ~IsEmpty(u)
    <3>1. removeClient[r] \in UrlSlotHolders(u)
      BY <2>1 DEF UrlSlotHolders, HoldsUrlSlot, HeldBy
    <3>2. u \in Urls
      BY <2>1
    <3>3. Cardinality(UrlSlotHolders(u)) # 0
      BY <3>1, <3>2, FS_EmptySet DEF UrlCountInv, UrlCountOk
    <3> QED
      BY <3>2, <3>3 DEF UrlCountInv, UrlCountOk
  <2> QED
    BY <1>8, <2>1 DEF DropUrlData, addVars
<1> QED BY <1>1, <1>2, <1>3, <1>4, <1>5, <1>6, <1>7, <1>8 DEF RemoveStep

\* A step that leaves counts, map and places of the urls alone.
LEMMA UrlCountStutter ==
    ASSUME UrlCountInv, UNCHANGED <<urlDataMap, udClientCount>>,
           \A d \in Clients : HoldsUrlSlot(d)' <=> HoldsUrlSlot(d)
    PROVE  UrlCountInv'
<1>1. \A u \in Urls : UrlSlotHolders(u)' = UrlSlotHolders(u)
  BY DEF UrlSlotHolders
<1> QED BY <1>1 DEF UrlCountInv, UrlCountOk

\* A client takes or leaves a place: only its own url's UrlData is touched.
LEMMA UrlCountOther ==
    ASSUME TypeOK, UrlCountInv, NEW c \in Clients,
           \A d \in Clients \ {c} : HoldsUrlSlot(d)' <=> HoldsUrlSlot(d),
           NEW u \in Urls, u # UrlOf[c], urlDataMap'[u] = urlDataMap[u],
           urlDataMap[u] # Null =>
               udClientCount'[urlDataMap[u]] = udClientCount[urlDataMap[u]]
    PROVE  UrlCountOk(u)'
<1>1. UrlSlotHolders(u)' = UrlSlotHolders(u)
  BY DEF UrlSlotHolders
<1> QED BY <1>1 DEF UrlCountInv, UrlCountOk

\* add_connection keeps the count of every mapped UrlData exact.
LEMMA UrlCountInvAdd ==
    ASSUME CallInv, EntryInv, UrlCountInv, MaxByUrl # 0, NEW c \in Clients,
           (AddAllowed(c) /\ BeginAdd(c)) \/ AddStep(c)
    PROVE  UrlCountInv'
<1> USE ConstantsAssumption DEF CallInv, TypeInv, TypeOK, LocalInv,
        SessionInv, RemovalInv, AfterInsert, BeforeInsert,
        AddGoto, AddPcs, HoldsUrlSlot, Registered, HeldBy
<1>1. CASE BeginAdd(c)
  BY <1>1, UrlCountStutter DEF BeginAdd, removeVars, udVars
<1>2. CASE LoadCount(c)
  BY <1>2, UrlCountStutter DEF LoadCount, removeVars, udVars
<1>3. CASE TakeSlot(c)
  BY <1>3, UrlCountStutter DEF TakeSlot, removeVars, udVars
<1>4. CASE InsertConnection(c)
  BY <1>4, UrlCountStutter DEF InsertConnection, removeVars, udVars
<1>5. CASE CreateUrlData(c)
  <2>1. /\ addPc[c] = "entry" /\ addPc' = [addPc EXCEPT ![c] = "added"]
        /\ urlDataMap[UrlOf[c]] = Null
        /\ urlDataMap' = [urlDataMap EXCEPT ![UrlOf[c]] = c]
        /\ udClientCount' = [udClientCount EXCEPT ![c] = 1]
        /\ UNCHANGED <<connectionMap, removePc, removeClient>>
    BY <1>5 DEF CreateUrlData, removeVars
  <2>2. ~HoldsUrlSlot(c) /\ HoldsUrlSlot(c)'
    BY <2>1
  <2>3. \A d \in Clients \ {c} : HoldsUrlSlot(d)' <=> HoldsUrlSlot(d)
    BY <2>1
  <2> HIDE DEF HoldsUrlSlot
  <2>4. UrlSlotHolders(UrlOf[c])' = {c}
    <3>1. UrlSlotHolders(UrlOf[c]) = {}
      BY <2>1 DEF UrlCountInv, UrlCountOk
    <3> QED
      BY <2>2, <2>3, <3>1 DEF UrlSlotHolders
  <2>5. IsFiniteSet({c}) /\ Cardinality({c}) = 1
    BY FS_Singleton
  <2>6. UrlCountOk(UrlOf[c])'
    BY <2>1, <2>4, <2>5 DEF UrlCountOk
  <2>7. ASSUME NEW u \in Urls, u # UrlOf[c] PROVE UrlCountOk(u)'
    <3>1. urlDataMap[u] # c
      BY <2>7 DEF EntryInv
    <3> QED
      BY <2>1, <2>3, <2>7, <3>1, UrlCountOther
  <2> QED
    BY <2>6, <2>7 DEF UrlCountInv
<1>6. CASE LockUrlData(c)
  BY <1>6, UrlCountStutter DEF LockUrlData, removeVars, udVars
<1>7. CASE LoadUrlCount(c)
  BY <1>7, UrlCountStutter DEF LoadUrlCount, removeVars, udVars
<1>8. CASE TakeUrlSlot(c)
  <2>1. CASE udClientCount[addUd[c]] # addSeen[c]
    BY <1>8, <2>1, UrlCountStutter DEF TakeUrlSlot, removeVars
  <2>2. CASE udClientCount[addUd[c]] = addSeen[c]
    <3>1. /\ addPc[c] = "urlCas" /\ addPc' = [addPc EXCEPT ![c] = "push"]
          /\ addUd[c] = urlDataMap[UrlOf[c]] /\ addUd[c] \in Clients
          /\ udClientCount[addUd[c]] < MaxByUrl
          /\ udClientCount' = [udClientCount EXCEPT ![addUd[c]] = @ + 1]
          /\ UNCHANGED <<connectionMap, urlDataMap, removePc, removeClient>>
      BY <1>8, <2>2 DEF TakeUrlSlot, removeVars, EntryInv
    <3>2. ~HoldsUrlSlot(c) /\ HoldsUrlSlot(c)'
      BY <3>1
    <3>3. \A d \in Clients \ {c} : HoldsUrlSlot(d)' <=> HoldsUrlSlot(d)
      BY <3>1
    <3> HIDE DEF HoldsUrlSlot
    <3>4. /\ UrlSlotHolders(UrlOf[c])' = UrlSlotHolders(UrlOf[c]) \cup {c}
          /\ c \notin UrlSlotHolders(UrlOf[c])
      BY <3>2, <3>3 DEF UrlSlotHolders
    <3>5. /\ IsFiniteSet(UrlSlotHolders(UrlOf[c])')
          /\ Cardinality(UrlSlotHolders(UrlOf[c])')
                = Cardinality(UrlSlotHolders(UrlOf[c])) + 1
      BY <3>4, FS_AddElement, SMTT(30) DEF UrlCountInv, UrlCountOk
    <3>6. /\ udClientCount'[urlDataMap'[UrlOf[c]]]
                = Cardinality(UrlSlotHolders(UrlOf[c])')
          /\ udClientCount'[urlDataMap'[UrlOf[c]]] <= MaxByUrl
      BY <3>1, <3>5 DEF UrlCountInv, UrlCountOk, Counters
    <3>7. UrlCountOk(UrlOf[c])'
      BY <3>1, <3>5, <3>6 DEF UrlCountOk
    <3>8. ASSUME NEW u \in Urls, u # UrlOf[c] PROVE UrlCountOk(u)'
      <4>1. urlDataMap[u] # addUd[c]
        BY <3>1, <3>8 DEF EntryInv
      <4> QED
        BY <3>1, <3>3, <3>8, <4>1, UrlCountOther
    <3> QED
      BY <3>7, <3>8 DEF UrlCountInv
  <2> QED BY <2>1, <2>2
<1>9. CASE PushClient(c)
  BY <1>9, UrlCountStutter DEF PushClient, removeVars, udVars
<1>10. CASE ReturnSlot(c)
  BY <1>10, UrlCountStutter DEF ReturnSlot, removeVars, udVars
<1>11. CASE UnmapRefused(c)
  BY <1>11, UrlCountStutter DEF UnmapRefused, removeVars, udVars
<1> QED BY <1>1, <1>2, <1>3, <1>4, <1>5, <1>6, <1>7, <1>8, <1>9, <1>10, <1>11
       DEF AddStep

\* remove_connection keeps it exact: a decrement finds the UrlData that counted
\* its client, and only an unused UrlData is dropped.
LEMMA UrlCountInvRemove ==
    ASSUME CallInv, EntryInv, UrlCountInv, NEW t \in Removers,
           (\E s \in Sessions : RemoveAllowed(s) /\ BeginRemove(t, s))
             \/ RemoveStep(t)
    PROVE  UrlCountInv'
<1> USE ConstantsAssumption DEF CallInv, TypeInv, TypeOK, LocalInv,
        SessionInv, RemovalInv, RemoveGoto, RemovePcs,
        HoldsUrlSlot, Registered, HeldBy
<1>1. ASSUME NEW s \in Sessions, BeginRemove(t, s) PROVE UrlCountInv'
  BY <1>1, UrlCountStutter DEF BeginRemove, addVars, udVars
<1>2. CASE TakeConnection(t)
  <2>1. CASE connectionMap[removeSession[t]] = Null
    BY <1>2, <2>1, UrlCountStutter DEF TakeConnection, addVars, udVars
  <2>2. CASE connectionMap[removeSession[t]] # Null
    <3>1. PICK c \in Clients : c = connectionMap[removeSession[t]]
      BY <1>2, <2>2 DEF TakeConnection
    <3>2. /\ removePc[t] = "lookup"
          /\ removePc' = [removePc EXCEPT ![t] = "uncount"]
          /\ removeClient' = [removeClient EXCEPT ![t] = c]
          /\ connectionMap' = [connectionMap EXCEPT ![removeSession[t]] = Null]
          /\ UNCHANGED <<urlDataMap, udClientCount, removeSession, addPc>>
      BY <1>2, <2>2, <3>1 DEF TakeConnection, addVars, udVars
    <3>3. /\ removeSession[t] \in Sessions
          /\ SessionOf[c] = removeSession[t]
          /\ removeClient[t] = Null
      BY <2>2, <3>1, <3>2
    <3>4. addPc[c] = "added"
      BY <2>2, <3>1, <3>2, <3>3 DEF Adding, Removing, AfterInsert
    <3>5. HoldsUrlSlot(c) /\ HoldsUrlSlot(c)'
      BY <3>1, <3>2, <3>3, <3>4
    <3>6. \A d \in Clients \ {c} : HoldsUrlSlot(d)' <=> HoldsUrlSlot(d)
      BY <3>1, <3>2, <3>3
    <3> QED
      BY <3>2, <3>5, <3>6, UrlCountStutter
  <2> QED BY <2>1, <2>2
<1>3. CASE FreeSlot(t)
  BY <1>3, UrlCountStutter DEF FreeSlot, addVars, udVars
<1>4. CASE Dispose(t)
  BY <1>4, UrlCountStutter DEF Dispose, addVars, udVars
<1>5. CASE FindUrlData(t)
  <2>1. PICK c \in Clients : c = removeClient[t]
    BY <1>5 DEF FindUrlData
  <2>2. c \in UrlSlotHolders(UrlOf[c])
    BY <1>5, <2>1 DEF FindUrlData, UrlSlotHolders
  <2>3. urlDataMap[UrlOf[c]] # Null
    BY <2>2 DEF UrlCountInv, UrlCountOk
  <2>4. \A d \in Clients : HoldsUrlSlot(d)' <=> HoldsUrlSlot(d)
    BY <1>5, <2>1, <2>3 DEF FindUrlData, addVars
  <2> QED
    BY <1>5, <2>4, UrlCountStutter DEF FindUrlData, udVars
<1>6. CASE UncountClient(t)
  <2>1. PICK c \in Clients : c = removeClient[t]
    BY <1>6 DEF UncountClient
  <2>2. /\ removePc[t] = "urlUncount" /\ removePc' = [removePc EXCEPT ![t] = "retain"]
        /\ removeUd[t] = urlDataMap[UrlOf[c]] /\ removeUd[t] \in Clients
        /\ udClientCount' = [udClientCount EXCEPT ![removeUd[t]] = FetchSub(@)]
        /\ UNCHANGED <<addPc, connectionMap, urlDataMap, removeClient>>
    BY <1>6, <2>1 DEF UncountClient, addVars, EntryInv
  <2>3. HoldsUrlSlot(c) /\ ~HoldsUrlSlot(c)'
    BY <2>1, <2>2
  <2>4. \A d \in Clients \ {c} : HoldsUrlSlot(d)' <=> HoldsUrlSlot(d)
    BY <2>1, <2>2
  <2> HIDE DEF HoldsUrlSlot
  <2>5. /\ UrlSlotHolders(UrlOf[c])' = UrlSlotHolders(UrlOf[c]) \ {c}
        /\ c \in UrlSlotHolders(UrlOf[c])
    BY <2>3, <2>4 DEF UrlSlotHolders
  <2>6. /\ IsFiniteSet(UrlSlotHolders(UrlOf[c])')
        /\ Cardinality(UrlSlotHolders(UrlOf[c])')
              = Cardinality(UrlSlotHolders(UrlOf[c])) - 1
        /\ Cardinality(UrlSlotHolders(UrlOf[c])') \in Nat
    BY <2>5, FS_RemoveElement, FS_CardinalityType DEF UrlCountInv, UrlCountOk
  <2>7. /\ udClientCount'[urlDataMap'[UrlOf[c]]]
              = Cardinality(UrlSlotHolders(UrlOf[c])')
        /\ udClientCount'[urlDataMap'[UrlOf[c]]] <= MaxByUrl
    BY <2>2, <2>6 DEF UrlCountInv, UrlCountOk, Counters, FetchSub
  <2>8. UrlCountOk(UrlOf[c])'
    BY <2>2, <2>6, <2>7 DEF UrlCountOk
  <2>9. ASSUME NEW u \in Urls, u # UrlOf[c] PROVE UrlCountOk(u)'
    <3>1. urlDataMap[u] # removeUd[t]
      BY <2>2, <2>9 DEF EntryInv
    <3> QED
      BY <2>2, <2>4, <2>9, <3>1, UrlCountOther
  <2> QED
    BY <2>8, <2>9 DEF UrlCountInv
<1>7. CASE RetainOthers(t)
  BY <1>7, UrlCountStutter DEF RetainOthers, addVars, udVars
<1>8. CASE DropUrlData(t)
  <2>1. \A d \in Clients : HoldsUrlSlot(d)' <=> HoldsUrlSlot(d)
    BY <1>8 DEF DropUrlData, addVars
  <2>2. \A u \in Urls : UrlSlotHolders(u)' = UrlSlotHolders(u)
    BY <2>1 DEF UrlSlotHolders
  <2>3. \A u \in Urls : IsEmpty(u) => UrlSlotHolders(u) = {}
    BY FS_EmptySet DEF UrlCountInv, UrlCountOk
  <2> QED
    BY <1>8, <2>2, <2>3 DEF DropUrlData, udVars, UrlCountInv, UrlCountOk
<1> QED BY <1>1, <1>2, <1>3, <1>4, <1>5, <1>6, <1>7, <1>8 DEF RemoveStep

\* A registered client stays listed: the UrlData of a slot holder is not
\* dropped, and retain only removes a session that has no registered client.
LEMMA ReachableAdd ==
    ASSUME CallInv, EntryInv, UrlDataReachable, NEW c \in Clients,
           (AddAllowed(c) /\ BeginAdd(c)) \/ AddStep(c)
    PROVE  UrlDataReachable'
<1> USE ConstantsAssumption DEF CallInv, TypeInv, TypeOK, LocalInv,
        UrlDataReachable,
        RegisteredClients, Registered, SessionInv, RemovalInv, AfterInsert,
        AddGoto, AddPcs
<1>1. CASE BeginAdd(c)
  BY <1>1 DEF BeginAdd, removeVars, udVars
<1>2. CASE LoadCount(c)
  BY <1>2, SMTT(30) DEF LoadCount, removeVars, udVars
<1>3. CASE TakeSlot(c)
  BY <1>3 DEF TakeSlot, removeVars, udVars
<1>4. CASE InsertConnection(c)
  BY <1>4 DEF InsertConnection, removeVars, udVars
<1>5. CASE CreateUrlData(c)
  BY <1>5 DEF CreateUrlData, EntryInv
<1>6. CASE LockUrlData(c)
  BY <1>6 DEF LockUrlData, removeVars, udVars
<1>7. CASE LoadUrlCount(c)
  BY <1>7, SMTT(30) DEF LoadUrlCount, removeVars, udVars
<1>8. CASE TakeUrlSlot(c)
  BY <1>8 DEF TakeUrlSlot, removeVars, udVars
<1>9. CASE PushClient(c)
  BY <1>9 DEF PushClient, EntryInv
<1>10. CASE ReturnSlot(c)
  BY <1>10 DEF ReturnSlot, removeVars, udVars
<1>11. CASE UnmapRefused(c)
  BY <1>11 DEF UnmapRefused, removeVars, udVars
<1> QED BY <1>1, <1>2, <1>3, <1>4, <1>5, <1>6, <1>7, <1>8, <1>9, <1>10, <1>11
       DEF AddStep

\* A removal does not unlist or drop the UrlData of another registered client.
LEMMA ReachableRemove ==
    ASSUME CallInv, UrlCountInv, UrlDataReachable, NEW t \in Removers,
           (\E s \in Sessions : RemoveAllowed(s) /\ BeginRemove(t, s))
             \/ RemoveStep(t)
    PROVE  UrlDataReachable'
<1> USE ConstantsAssumption DEF CallInv, TypeInv, TypeOK, LocalInv,
        UrlDataReachable,
        RegisteredClients, Registered, SessionInv, RemovalInv, AfterInsert,
        RemoveGoto, RemovePcs
<1>1. ASSUME NEW s \in Sessions, BeginRemove(t, s) PROVE UrlDataReachable'
  BY <1>1 DEF BeginRemove, addVars, udVars
<1>2. CASE TakeConnection(t)
  BY <1>2, SMTT(30) DEF TakeConnection, addVars, udVars
<1>3. CASE FreeSlot(t)
  BY <1>3 DEF FreeSlot, addVars, udVars
<1>4. CASE Dispose(t)
  BY <1>4 DEF Dispose, addVars, udVars
<1>5. CASE FindUrlData(t)
  BY <1>5 DEF FindUrlData, addVars, udVars
<1>6. CASE UncountClient(t)
  BY <1>6 DEF UncountClient, addVars, udVars
<1>7. CASE RetainOthers(t)
  BY <1>7 DEF RetainOthers, addVars, udVars
<1>8. CASE DropUrlData(t)
  <2>1. ASSUME NEW c \in Clients, Registered(c) PROVE ~IsEmpty(UrlOf[c])
    <3>1. c \in UrlSlotHolders(UrlOf[c])
      BY <2>1 DEF UrlSlotHolders, HoldsUrlSlot
    <3> QED
      BY <3>1, FS_EmptySet DEF UrlCountInv, UrlCountOk
  <2> QED
    BY <1>8, <2>1 DEF DropUrlData, addVars, udVars
<1> QED BY <1>1, <1>2, <1>3, <1>4, <1>5, <1>6, <1>7, <1>8 DEF RemoveStep

\* An add never empties a UrlData, so no reaper is needed that was not there.
LEMMA ReaperAdd ==
    ASSUME CallInv, EntryInv, EmptyUrlDataHasReaper, NEW c \in Clients,
           (AddAllowed(c) /\ BeginAdd(c)) \/ AddStep(c)
    PROVE  EmptyUrlDataHasReaper'
<1> USE ConstantsAssumption DEF CallInv, TypeInv, TypeOK, LocalInv,
        EmptyUrlDataHasReaper,
        AddGoto, AddPcs
<1>1. CASE BeginAdd(c)
  BY <1>1 DEF BeginAdd, removeVars, udVars
<1>2. CASE LoadCount(c)
  BY <1>2, SMTT(30) DEF LoadCount, removeVars, udVars
<1>3. CASE TakeSlot(c)
  BY <1>3 DEF TakeSlot, removeVars, udVars
<1>4. CASE InsertConnection(c)
  BY <1>4 DEF InsertConnection, removeVars, udVars
<1>5. CASE CreateUrlData(c)
  BY <1>5 DEF CreateUrlData, removeVars, EntryInv
<1>6. CASE LockUrlData(c)
  BY <1>6 DEF LockUrlData, removeVars, udVars
<1>7. CASE LoadUrlCount(c)
  BY <1>7, SMTT(30) DEF LoadUrlCount, removeVars, udVars
<1>8. CASE TakeUrlSlot(c)
  BY <1>8 DEF TakeUrlSlot, removeVars, EntryInv, Counters
<1>9. CASE PushClient(c)
  BY <1>9 DEF PushClient, removeVars, udVars
<1>10. CASE ReturnSlot(c)
  BY <1>10 DEF ReturnSlot, removeVars, udVars
<1>11. CASE UnmapRefused(c)
  BY <1>11 DEF UnmapRefused, removeVars, udVars
<1> QED BY <1>1, <1>2, <1>3, <1>4, <1>5, <1>6, <1>7, <1>8, <1>9, <1>10, <1>11
       DEF AddStep

\* The removal that empties a UrlData is its reaper until it drops it.
LEMMA ReaperRemove ==
    ASSUME CallInv, EntryInv, EmptyUrlDataHasReaper, NEW t \in Removers,
           (\E s \in Sessions : RemoveAllowed(s) /\ BeginRemove(t, s))
             \/ RemoveStep(t)
    PROVE  EmptyUrlDataHasReaper'
<1> USE ConstantsAssumption DEF CallInv, TypeInv, TypeOK, LocalInv,
        EmptyUrlDataHasReaper,
        RemoveGoto, RemovePcs
<1>1. ASSUME NEW s \in Sessions, BeginRemove(t, s) PROVE EmptyUrlDataHasReaper'
  BY <1>1 DEF BeginRemove, addVars, udVars
<1>2. CASE TakeConnection(t)
  BY <1>2, SMTT(30) DEF TakeConnection, addVars, udVars
<1>3. CASE FreeSlot(t)
  BY <1>3 DEF FreeSlot, addVars, udVars
<1>4. CASE Dispose(t)
  BY <1>4 DEF Dispose, addVars, udVars
<1>5. CASE FindUrlData(t)
  BY <1>5 DEF FindUrlData, addVars, udVars
<1>6. CASE UncountClient(t)
  BY <1>6 DEF UncountClient, EntryInv
<1>7. CASE RetainOthers(t)
  BY <1>7 DEF RetainOthers, addVars, udVars
<1>8. CASE DropUrlData(t)
  BY <1>8 DEF DropUrlData, addVars, udVars
<1> QED BY <1>1, <1>2, <1>3, <1>4, <1>5, <1>6, <1>7, <1>8 DEF RemoveStep

-----------------------------------------------------------------------------
(* Nothing of a removed client stays                                       *)

\* An add lists only its own client, which is registered by then.
LEMMA ListedAdd ==
    ASSUME CallInv, EntryInv, ListedInv, NEW c \in Clients,
           (AddAllowed(c) /\ BeginAdd(c)) \/ AddStep(c)
    PROVE  ListedInv'
<1> USE ConstantsAssumption DEF CallInv, TypeInv, TypeOK, LocalInv,
        SessionInv, RemovalInv, AfterInsert, BeforeInsert, Registered, HeldBy,
        EntryInv, ListedInv,
        AddGoto, AddPcs
<1>1. CASE BeginAdd(c)
  BY <1>1 DEF BeginAdd, removeVars, udVars
<1>2. CASE LoadCount(c)
  BY <1>2, SMTT(30) DEF LoadCount, removeVars, udVars
<1>3. CASE TakeSlot(c)
  BY <1>3 DEF TakeSlot, removeVars, udVars
<1>4. CASE InsertConnection(c)
  BY <1>4 DEF InsertConnection, removeVars, udVars
<1>5. CASE CreateUrlData(c)
  BY <1>5 DEF CreateUrlData, removeVars, udVars
<1>6. CASE LockUrlData(c)
  BY <1>6 DEF LockUrlData, removeVars, udVars
<1>7. CASE LoadUrlCount(c)
  BY <1>7, SMTT(30) DEF LoadUrlCount, removeVars, udVars
<1>8. CASE TakeUrlSlot(c)
  BY <1>8 DEF TakeUrlSlot, removeVars, udVars
<1>9. CASE PushClient(c)
  BY <1>9 DEF PushClient, removeVars, udVars
<1>10. CASE ReturnSlot(c)
  BY <1>10 DEF ReturnSlot, removeVars, udVars
<1>11. CASE UnmapRefused(c)
  BY <1>11 DEF UnmapRefused, removeVars, udVars
<1> QED BY <1>1, <1>2, <1>3, <1>4, <1>5, <1>6, <1>7, <1>8, <1>9, <1>10, <1>11
       DEF AddStep

\* A removal that is done has unlisted its client.
LEMMA ListedRemove ==
    ASSUME CallInv, EntryInv, ListedInv, NEW t \in Removers,
           (\E s \in Sessions : RemoveAllowed(s) /\ BeginRemove(t, s))
             \/ RemoveStep(t)
    PROVE  ListedInv'
<1> USE ConstantsAssumption DEF CallInv, TypeInv, TypeOK, LocalInv,
        SessionInv, RemovalInv, AfterInsert, BeforeInsert, Registered, HeldBy,
        EntryInv, ListedInv,
        RemoveGoto, RemovePcs
<1>1. ASSUME NEW s \in Sessions, BeginRemove(t, s) PROVE ListedInv'
  BY <1>1 DEF BeginRemove, addVars, udVars
<1>2. CASE TakeConnection(t)
  <2>1. /\ removePc[t] = "lookup" /\ removeSession[t] \in Sessions
        /\ UNCHANGED <<urlDataMap, udClients, addPc, removeUd>>
    BY <1>2 DEF TakeConnection, addVars, udVars
  <2>2. CASE connectionMap[removeSession[t]] = Null
    <3>1. /\ removePc' = [removePc EXCEPT ![t] = "idle"]
          /\ UNCHANGED <<connectionMap, removeClient>>
      BY <1>2, <2>2 DEF TakeConnection
    <3> QED
      BY <2>1, <3>1
  <2>3. CASE connectionMap[removeSession[t]] # Null
    <3> DEFINE d == connectionMap[removeSession[t]]
    <3>1. /\ removePc' = [removePc EXCEPT ![t] = "uncount"]
          /\ removeClient' = [removeClient EXCEPT ![t] = d]
          /\ connectionMap' = [connectionMap EXCEPT ![removeSession[t]] = Null]
      BY <1>2, <2>3 DEF TakeConnection, Without
    <3>2. \A c \in Clients : Registered(c) => Registered(c)' \/ HeldBy(t, c, {"uncount"})'
      BY <2>1, <3>1
    <3>3. \A c \in Clients : \A pcs \in SUBSET (RemovePcs \ {"idle", "lookup"}) :
              \A r \in Removers : HeldBy(r, c, pcs) => HeldBy(r, c, pcs)'
      BY <2>1, <3>1
    <3>4. \A r \in Removers :
             removePc'[r] = "retain" =>
                removePc[r] = "retain" /\ removeClient'[r] = removeClient[r]
      BY <2>1, <3>1
    <3>5. {"uncount", "dispose", "getUrl", "urlUncount", "retain"}
             \in SUBSET (RemovePcs \ {"idle", "lookup"})
      OBVIOUS
    <3>6. ASSUME NEW c \in Clients,
                 Registered(c) \/ \E r \in Removers :
                    HeldBy(r, c, {"uncount", "dispose", "getUrl", "urlUncount", "retain"})
          PROVE  (Registered(c) \/ \E r \in Removers :
                    HeldBy(r, c, {"uncount", "dispose", "getUrl", "urlUncount", "retain"}))'
      <4>1. CASE Registered(c)
        <5>1. HeldBy(t, c, {"uncount"})' =>
                 HeldBy(t, c, {"uncount", "dispose", "getUrl", "urlUncount", "retain"})'
          OBVIOUS
        <5> HIDE DEF Registered, HeldBy
        <5> QED
          BY <3>2, <4>1, <5>1
      <4>2. ASSUME NEW r \in Removers,
                   HeldBy(r, c, {"uncount", "dispose", "getUrl", "urlUncount", "retain"})
            PROVE  HeldBy(r, c, {"uncount", "dispose", "getUrl", "urlUncount", "retain"})'
        <5> HIDE DEF Registered, HeldBy, RemovePcs
        <5> QED
          BY <3>3, <3>5, <4>2
      <4> HIDE DEF Registered, HeldBy
      <4> QED
        BY <3>6, <4>1, <4>2
    <3> HIDE DEF d, Registered, HeldBy
    <3> QED
      BY <2>1, <3>4, <3>6
  <2> QED
    BY <2>2, <2>3
<1>3. CASE FreeSlot(t)
  BY <1>3 DEF FreeSlot, addVars, udVars
<1>4. CASE Dispose(t)
  BY <1>4 DEF Dispose, addVars, udVars
<1>5. CASE FindUrlData(t)
  BY <1>5 DEF FindUrlData, addVars, udVars
<1>6. CASE UncountClient(t)
  BY <1>6 DEF UncountClient, addVars, udVars
<1>7. CASE RetainOthers(t)
  BY <1>7 DEF RetainOthers, addVars, udVars
<1>8. CASE DropUrlData(t)
  <2>1. /\ removePc[t] = "dropUrl"
        /\ removePc' = [removePc EXCEPT ![t] = "idle"]
        /\ removeClient' = [removeClient EXCEPT ![t] = Null]
        /\ removeUd' = [removeUd EXCEPT ![t] = Null]
        /\ \A u \in Urls : urlDataMap'[u] \in {Null, urlDataMap[u]}
        /\ UNCHANGED <<connectionMap, udClients, addPc>>
    BY <1>8 DEF DropUrlData, addVars, udVars
  <2>2. \A c \in Clients : \A pcs \in SUBSET (RemovePcs \ {"idle", "dropUrl"}) :
            \A r \in Removers : HeldBy(r, c, pcs) => HeldBy(r, c, pcs)'
    BY <2>1
  <2> QED
    BY <2>1, <2>2, SMTT(30)
<1> QED BY <1>1, <1>2, <1>3, <1>4, <1>5, <1>6, <1>7, <1>8 DEF RemoveStep

\* An add is never about a disposed client.
LEMMA DisposedAdd ==
    ASSUME CallInv, DisposedInv, NEW c \in Clients,
           (AddAllowed(c) /\ BeginAdd(c)) \/ AddStep(c)
    PROVE  DisposedInv'
<1> USE ConstantsAssumption DEF CallInv, TypeInv, TypeOK, LocalInv,
        SessionInv, RemovalInv, AfterInsert, BeforeInsert, Registered, HeldBy,
        DisposedInv,
        AddGoto, AddPcs
<1>1. CASE BeginAdd(c)
  BY <1>1 DEF BeginAdd, removeVars, udVars
<1>2. CASE LoadCount(c)
  BY <1>2, SMTT(30) DEF LoadCount, removeVars, udVars
<1>3. CASE TakeSlot(c)
  BY <1>3 DEF TakeSlot, removeVars, udVars
<1>4. CASE InsertConnection(c)
  BY <1>4 DEF InsertConnection, removeVars, udVars
<1>5. CASE CreateUrlData(c)
  BY <1>5 DEF CreateUrlData, removeVars, udVars
<1>6. CASE LockUrlData(c)
  BY <1>6 DEF LockUrlData, removeVars, udVars
<1>7. CASE LoadUrlCount(c)
  BY <1>7, SMTT(30) DEF LoadUrlCount, removeVars, udVars
<1>8. CASE TakeUrlSlot(c)
  BY <1>8 DEF TakeUrlSlot, removeVars, udVars
<1>9. CASE PushClient(c)
  BY <1>9 DEF PushClient, removeVars, udVars
<1>10. CASE ReturnSlot(c)
  BY <1>10 DEF ReturnSlot, removeVars, udVars
<1>11. CASE UnmapRefused(c)
  BY <1>11 DEF UnmapRefused, removeVars, udVars
<1> QED BY <1>1, <1>2, <1>3, <1>4, <1>5, <1>6, <1>7, <1>8, <1>9, <1>10, <1>11
       DEF AddStep

\* A removal disposes the client that it alone has taken, once.
LEMMA DisposedRemove ==
    ASSUME CallInv, DisposedInv, NEW t \in Removers,
           (\E s \in Sessions : RemoveAllowed(s) /\ BeginRemove(t, s))
             \/ RemoveStep(t)
    PROVE  DisposedInv'
<1> USE ConstantsAssumption DEF CallInv, TypeInv, TypeOK, LocalInv,
        SessionInv, RemovalInv, AfterInsert, BeforeInsert, Registered, HeldBy,
        DisposedInv, Adding, Removing,
        RemoveGoto, RemovePcs
<1>1. ASSUME NEW s \in Sessions, BeginRemove(t, s) PROVE DisposedInv'
  BY <1>1 DEF BeginRemove, addVars, udVars
<1>2. CASE TakeConnection(t)
  BY <1>2, SMTT(30) DEF TakeConnection, addVars, udVars
<1>3. CASE FreeSlot(t)
  BY <1>3 DEF FreeSlot, addVars, udVars
<1>4. CASE Dispose(t)
  BY <1>4 DEF Dispose, addVars, udVars
<1>5. CASE FindUrlData(t)
  BY <1>5 DEF FindUrlData, addVars, udVars
<1>6. CASE UncountClient(t)
  BY <1>6 DEF UncountClient, addVars, udVars
<1>7. CASE RetainOthers(t)
  BY <1>7 DEF RetainOthers, addVars, udVars
<1>8. CASE DropUrlData(t)
  BY <1>8 DEF DropUrlData, addVars, udVars
<1> QED BY <1>1, <1>2, <1>3, <1>4, <1>5, <1>6, <1>7, <1>8 DEF RemoveStep

\* A client is listed by the step that ends its add.
LEMMA ListedAreAddedAdd ==
    ASSUME CallInv, ListedAreAdded, NEW c \in Clients,
           BeginAdd(c) \/ AddStep(c)
    PROVE  ListedAreAdded'
<1> USE DEF CallInv, TypeInv, TypeOK, ListedAreAdded, AddGoto
<1>1. \E pc \in AddPcs : addPc' = [addPc EXCEPT ![c] = pc] /\ addPc[c] # "added"
  BY DEF AddStep, BeginAdd, LoadCount, TakeSlot, InsertConnection,
     CreateUrlData, LockUrlData, LoadUrlCount, TakeUrlSlot, PushClient,
     ReturnSlot, UnmapRefused, AddPcs
<1>2. CASE UNCHANGED udClients
  BY <1>1, <1>2
<1>3. CASE CreateUrlData(c)
  BY <1>3 DEF CreateUrlData
<1>4. CASE PushClient(c)
  <2>1. \A d \in Clients : udClients'[d] \subseteq udClients[d] \cup {c}
    BY <1>4 DEF PushClient
  <2>2. addPc' = [addPc EXCEPT ![c] = "added"]
    BY <1>4 DEF PushClient
  <2> QED BY <2>1, <2>2
<1> QED
  BY <1>2, <1>3, <1>4
  DEF AddStep, BeginAdd, LoadCount, TakeSlot, InsertConnection, LockUrlData,
      LoadUrlCount, TakeUrlSlot, ReturnSlot, UnmapRefused, udVars

\* A removal only unlists.
LEMMA ListedAreAddedRemove ==
    ASSUME CallInv, ListedAreAdded, NEW t \in Removers,
           (\E s \in Sessions : BeginRemove(t, s)) \/ RemoveStep(t)
    PROVE  ListedAreAdded'
<1> USE DEF CallInv, TypeInv, TypeOK
<1>1. UNCHANGED addPc
  BY DEF RemoveStep, BeginRemove, TakeConnection, FreeSlot, Dispose,
     FindUrlData, UncountClient, RetainOthers, DropUrlData, addVars
<1>2. \A d \in Clients : udClients'[d] \subseteq udClients[d]
  BY DEF RemoveStep, BeginRemove, TakeConnection, FreeSlot, Dispose,
     FindUrlData, UncountClient, RetainOthers, DropUrlData, udVars
<1> QED BY <1>1, <1>2 DEF ListedAreAdded

-----------------------------------------------------------------------------
(* What holds without the contract: who owns a client                      *)

\* No client has been entered, taken or disposed at first.
LEMMA OwnershipInit == Init => OwnershipInv
BY ConstantsAssumption DEF Init, OwnershipInv, BeforeInsert, HeldBy

\* add_connection enters its client once, and a refusal only takes a client out.
LEMMA OwnershipAdd ==
    ASSUME TypeInv, OwnershipInv, NEW c \in Clients, BeginAdd(c) \/ AddStep(c)
    PROVE  OwnershipInv'
<1> USE ConstantsAssumption DEF TypeInv, TypeOK, OwnershipInv, BeforeInsert,
        HeldBy, AddGoto, AddPcs
<1>1. CASE InsertConnection(c)
  BY <1>1, SMTT(30) DEF InsertConnection, removeVars
<1>2. CASE UnmapRefused(c)
  BY <1>2, SMTT(30) DEF UnmapRefused, removeVars
<1>3. CASE ~InsertConnection(c) /\ ~UnmapRefused(c)
  <2>1. UNCHANGED <<connectionMap, disposed, removeVars>>
    BY <1>3
    DEF AddStep, BeginAdd, LoadCount, TakeSlot, CreateUrlData, LockUrlData,
        LoadUrlCount, TakeUrlSlot, PushClient, ReturnSlot
  <2>2. PICK pc \in AddPcs :
            /\ addPc' = [addPc EXCEPT ![c] = pc]
            /\ pc \in BeforeInsert => addPc[c] \in BeforeInsert \cup {"idle"}
            /\ pc # "idle"
    BY <1>3
    DEF AddStep, BeginAdd, LoadCount, TakeSlot, CreateUrlData, LockUrlData,
        LoadUrlCount, TakeUrlSlot, PushClient, ReturnSlot
  <2> QED
    BY <2>1, <2>2 DEF removeVars
<1> QED BY <1>1, <1>2, <1>3

\* remove_connection takes a client out of the map in one step, so that two
\* removals never have the same client.
LEMMA OwnershipRemove ==
    ASSUME TypeInv, OwnershipInv, NEW t \in Removers,
           (\E s \in Sessions : BeginRemove(t, s)) \/ RemoveStep(t)
    PROVE  OwnershipInv'
<1> USE ConstantsAssumption DEF TypeInv, TypeOK, LocalInv, OwnershipInv,
        BeforeInsert, HeldBy, RemoveGoto, RemovePcs
<1>1. ASSUME NEW s \in Sessions, BeginRemove(t, s) PROVE OwnershipInv'
  BY <1>1 DEF BeginRemove, addVars
<1>2. CASE TakeConnection(t)
  BY <1>2, SMTT(30) DEF TakeConnection, addVars
<1>3. CASE FreeSlot(t)
  BY <1>3 DEF FreeSlot, addVars
<1>4. CASE Dispose(t)
  BY <1>4 DEF Dispose, addVars
<1>5. CASE FindUrlData(t)
  BY <1>5 DEF FindUrlData, addVars
<1>6. CASE UncountClient(t)
  BY <1>6 DEF UncountClient, addVars
<1>7. CASE RetainOthers(t)
  BY <1>7 DEF RetainOthers, addVars
<1>8. CASE DropUrlData(t)
  BY <1>8 DEF DropUrlData, addVars
<1> QED BY <1>1, <1>2, <1>3, <1>4, <1>5, <1>6, <1>7, <1>8 DEF RemoveStep

-----------------------------------------------------------------------------
(* The theorems                                                            *)

\* Every step of the specification keeps the inductive invariant.
LEMMA IndInvNext ==
    ASSUME SerialSessions, MaxByUrl # 0, IndInv, [Next]_vars
    PROVE  IndInv'
<1> USE DEF IndInv, CallInv, UrlInv
<1>1. ASSUME NEW c \in Clients, (AddAllowed(c) /\ BeginAdd(c)) \/ AddStep(c)
      PROVE  IndInv'
  BY <1>1, TypeInvAdd, CallInvAdd, SlotInvAdd, EntryInvAdd, UrlCountInvAdd,
     ReachableAdd, ReaperAdd, ListedAdd, DisposedAdd,
     ListedAreAddedAdd, OwnershipAdd
<1>2. ASSUME NEW t \in Removers,
             (\E s \in Sessions : RemoveAllowed(s) /\ BeginRemove(t, s))
               \/ RemoveStep(t)
      PROVE  IndInv'
  BY <1>2, TypeInvRemove, CallInvRemove, SlotInvRemove, EntryInvRemove,
     UrlCountInvRemove, ReachableRemove, ReaperRemove, ListedRemove,
     DisposedRemove, ListedAreAddedRemove, OwnershipRemove
<1>3. CASE UNCHANGED vars
  <2> USE <1>3 DEF vars, addVars, removeVars, udVars
  <2>1. TypeInv'
    BY DEF TypeInv, TypeOK, LocalInv
  <2>2. SessionInv' /\ RemovalInv'
    BY DEF SessionInv, RemovalInv, Adding, Removing
  <2>3. SlotInv'
    BY SlotInvStutter DEF HoldsSlot, Registered, HeldBy
  <2>4. EntryInv'
    BY DEF EntryInv
  <2>5. UrlCountInv'
    BY UrlCountStutter DEF HoldsUrlSlot, Registered, HeldBy
  <2>6. UrlDataReachable'
    BY DEF UrlDataReachable, RegisteredClients, Registered
  <2>7. EmptyUrlDataHasReaper'
    BY DEF EmptyUrlDataHasReaper
  <2>8. /\ ListedInv' /\ DisposedInv' /\ ListedAreAdded'
        /\ OwnershipInv'
    BY DEF ListedInv, DisposedInv, ListedAreAdded, OwnershipInv, Registered,
       HeldBy
  <2> QED BY <2>1, <2>2, <2>3, <2>4, <2>5, <2>6, <2>7, <2>8
<1> QED BY <1>1, <1>2, <1>3 DEF Next

\* The types of the registry's variables, with or without the contract.
THEOREM TypeCorrect == Spec => []TypeOK
<1>1. TypeInv /\ [Next]_vars => TypeInv'
  <2>1. TypeInv /\ UNCHANGED vars => TypeInv'
    BY DEF vars, addVars, removeVars, udVars, TypeInv, TypeOK, LocalInv
  <2> QED BY <2>1, TypeInvAdd, TypeInvRemove DEF Next
<1>2. TypeInv => TypeOK
  BY DEF TypeInv
<1> QED BY TypeInvInit, <1>1, <1>2, PTL DEF Spec

\* The inductive invariant: with calls of one session kept apart and a per-url
\* limit that is not zero, every reachable state satisfies it.
THEOREM IndInvHolds ==
    ASSUME SerialSessions, MaxByUrl # 0 PROVE Spec => []IndInv
<1>1. Init => IndInv
  BY TypeInvInit, CallInvInit, SlotInvInit, UrlInvInit, OwnershipInit,
     ConstantsAssumption
  DEF IndInv, CallInv, Init, ListedInv, DisposedInv, ListedAreAdded
<1>2. IndInv /\ [Next]_vars => IndInv'
  BY IndInvNext
<1> QED BY <1>1, <1>2, PTL DEF Spec

\* client_count is exact: the compare_exchange loop, the rollback of a refused
\* client and the removals never lose or double a slot, for any number of
\* clients, tasks, sessions and urls, when calls for one session are serial.
THEOREM SlotsAreAccounted ==
    ASSUME SerialSessions, MaxByUrl # 0 PROVE Spec => []SlotsAccounted
<1>1. IndInv => SlotsAccounted
  BY DEF IndInv, SlotInv
<1> QED BY <1>1, IndInvHolds, PTL

\* max_connections holds.
THEOREM ConnectionCapHolds ==
    ASSUME SerialSessions, MaxByUrl # 0 PROVE Spec => []ConnectionCap
<1>1. IndInv => ConnectionCap
  <2> SUFFICES ASSUME IndInv PROVE ConnectionCap
    OBVIOUS
  <2>1. RegisteredClients \subseteq SlotHolders
    BY DEF RegisteredClients, SlotHolders, HoldsSlot
  <2>2. /\ IsFiniteSet(RegisteredClients)
        /\ Cardinality(RegisteredClients) <= Cardinality(SlotHolders)
    BY <2>1, FS_Subset DEF IndInv, SlotInv
  <2>3. /\ Cardinality(RegisteredClients) \in Nat
        /\ Cardinality(SlotHolders) \in Nat
    BY <2>2, FS_CardinalityType DEF IndInv, SlotInv
  <2> QED
    BY <2>2, <2>3, ConstantsAssumption
    DEF IndInv, SlotInv, SlotsAccounted, ConnectionCap
<1> QED BY <1>1, IndInvHolds, PTL

\* The per-url counts are exact: UrlData objects dropped and created again
\* under one url never inherit or lose a count.
THEOREM UrlSlotsAreAccounted ==
    ASSUME SerialSessions, MaxByUrl # 0 PROVE Spec => []UrlSlotsAccounted
<1>1. IndInv => UrlSlotsAccounted
  BY DEF IndInv, UrlInv, UrlCountInv, UrlCountOk, UrlSlotsAccounted
<1> QED BY <1>1, IndInvHolds, PTL

\* max_connections_by_url holds when it is not zero.
THEOREM UrlCapHolds ==
    ASSUME SerialSessions, MaxByUrl # 0 PROVE Spec => []UrlCap
<1>1. IndInv => UrlCap
  <2> SUFFICES ASSUME IndInv, NEW u \in Urls
               PROVE  Cardinality({c \in RegisteredClients : UrlOf[c] = u})
                        <= MaxByUrl
    BY DEF UrlCap
  <2> DEFINE There == {c \in RegisteredClients : UrlOf[c] = u}
  <2>1. There \subseteq UrlSlotHolders(u)
    BY DEF RegisteredClients, UrlSlotHolders, HoldsUrlSlot
  <2>2. UrlCountOk(u)
    BY DEF IndInv, UrlInv, UrlCountInv
  <2>3. /\ IsFiniteSet(There) /\ Cardinality(There) \in Nat
        /\ Cardinality(UrlSlotHolders(u)) \in Nat
        /\ Cardinality(There) <= Cardinality(UrlSlotHolders(u))
    BY <2>1, <2>2, FS_Subset, FS_CardinalityType DEF UrlCountOk
  <2>4. Cardinality(UrlSlotHolders(u)) <= MaxByUrl
    BY <2>2, FS_EmptySet, ConstantsAssumption DEF UrlCountOk
  <2> QED
    BY <2>3, <2>4, ConstantsAssumption
<1> QED BY <1>1, IndInvHolds, PTL

\* A registered client is listed in the UrlData of its url.
THEOREM UrlDataIsReachable ==
    ASSUME SerialSessions, MaxByUrl # 0 PROVE Spec => []UrlDataReachable
<1>1. IndInv => UrlDataReachable
  BY DEF IndInv, UrlInv
<1> QED BY <1>1, IndInvHolds, PTL

\* No empty UrlData is left behind.
THEOREM EmptyUrlDataIsReaped ==
    ASSUME SerialSessions, MaxByUrl # 0 PROVE Spec => []EmptyUrlDataHasReaper
<1>1. IndInv => EmptyUrlDataHasReaper
  BY DEF IndInv, UrlInv
<1> QED BY <1>1, IndInvHolds, PTL

\* A removed client is uncounted and disposed by one removal only, and is never
\* registered again - also when calls for one session overlap, where the counts
\* go wrong: remove_connection needs no contract for this much.
THEOREM ClientsAreRemovedOnce == Spec => []RemovedOnce
<1>1. Init => TypeInv /\ OwnershipInv
  BY TypeInvInit, OwnershipInit
<1>2. TypeInv /\ OwnershipInv /\ [Next]_vars => (TypeInv /\ OwnershipInv)'
  <2>1. TypeInv /\ OwnershipInv /\ UNCHANGED vars => (TypeInv /\ OwnershipInv)'
    BY DEF vars, addVars, removeVars, udVars, TypeInv, TypeOK, LocalInv,
       OwnershipInv, HeldBy
  <2> QED
    BY <2>1, TypeInvAdd, TypeInvRemove, OwnershipAdd, OwnershipRemove DEF Next
<1>3. TypeInv /\ OwnershipInv => RemovedOnce
  BY DEF OwnershipInv, RemovedOnce, Registered
<1> QED BY <1>1, <1>2, <1>3, PTL DEF Spec

\* Whenever no call is under way the slot counter, the session map and the
\* clients listed under each url describe the same set of clients, and a url
\* without clients has no UrlData.
THEOREM ViewsDoAgree ==
    ASSUME SerialSessions, MaxByUrl # 0 PROVE Spec => []ViewsAgree
<1>1. IndInv => ViewsAgree
  <2> SUFFICES ASSUME IndInv, Quiescent
               PROVE  ViewsAgree!2
    BY DEF ViewsAgree
  <2> USE ConstantsAssumption DEF IndInv, CallInv, TypeInv, TypeOK, Quiescent
  <2>1. \A c \in Clients : addPc[c] \in {"idle", "added", "refused"}
    BY DEF Adding
  <2>2. ASSUME NEW s \in Sessions, connectionMap[s] # Null
        PROVE  connectionMap[s] \in RegisteredClients
    BY <2>1, <2>2
    DEF SessionInv, AfterInsert, RegisteredClients, Registered
  <2>3. SlotHolders = RegisteredClients
    BY <2>1 DEF SlotHolders, HoldsSlot, RegisteredClients, HeldBy
  <2>4. ASSUME NEW u \in Urls
        PROVE  LET there == {c \in RegisteredClients : UrlOf[c] = u} IN
               IF there = {} THEN urlDataMap[u] = Null
               ELSE urlDataMap[u] # Null /\ udClients[urlDataMap[u]] = there
    <3> DEFINE there == {c \in RegisteredClients : UrlOf[c] = u}
    <3>1. UrlSlotHolders(u) = there
      BY <2>1
      DEF UrlSlotHolders, HoldsUrlSlot, RegisteredClients, HeldBy
    <3>2. CASE there = {}
      <4>1. urlDataMap[u] # Null => udClientCount[urlDataMap[u]] = 0
        BY <3>1, <3>2, FS_EmptySet DEF UrlInv, UrlCountInv, UrlCountOk
      <4> QED
        BY <4>1, <3>2 DEF UrlInv, EmptyUrlDataHasReaper
    <3>3. CASE there # {}
      <4>1. urlDataMap[u] # Null /\ there \subseteq udClients[urlDataMap[u]]
        BY <3>3 DEF UrlInv, UrlDataReachable
      <4>2. udClients[urlDataMap[u]] \subseteq there
        BY <4>1 DEF ListedInv, RegisteredClients, HeldBy
      <4> QED
        BY <3>3, <4>1, <4>2
    <3> QED BY <3>2, <3>3
  <2> QED
    BY <2>2, <2>3, <2>4 DEF SlotInv, SlotsAccounted
<1> QED BY <1>1, IndInvHolds, PTL


-----------------------------------------------------------------------------
(***************************************************************************)
(* Registry implements Admission: every step of the two calls is one of    *)
(* Admission's steps or leaves every client's phase as it is.              *)
(***************************************************************************)

\* the variable `phase` of Admission
phaseBar == [c \in Clients |-> Phase(c)]

\* c has its place under the url and its slot, or no longer its slot.
IsMember(c) ==
    \/ addPc[c] = "push"
    \/ Registered(c)
    \/ \E t \in Removers : HeldBy(t, c, {"uncount"})
IsLeaving(c) ==
    \E t \in Removers : HeldBy(t, c, {"dispose", "getUrl", "urlUncount"})

\* What each phase stands for.
PhaseMeaning(c) ==
    /\ Phase(c) \in {"out", "reserved", "rejected", "member", "leaving", "gone"}
    /\ Phase(c) = "out" <=> addPc[c] \in {"idle", "load", "cas"}
    /\ Phase(c) = "reserved" <=>
          addPc[c] \in {"insert", "entry", "urlLoad", "urlCas"}
    /\ Phase(c) = "rejected" <=> addPc[c] = "uncount"
    /\ Phase(c) = "member" <=> IsMember(c)
    /\ Phase(c) = "leaving" <=> IsLeaving(c)
    /\ addPc[c] \in {"unmap", "refused"} => Phase(c) = "gone"

\* The phases mean that: under the invariant the cases of Phase exclude each
\* other, because a client that a removal holds was added and is not in the map.
LEMMA PhaseCases ==
    ASSUME CallInv, NEW c \in Clients
    PROVE  PhaseMeaning(c)
<1> USE DEF CallInv, TypeInv, TypeOK, LocalInv, RemovalInv, HeldBy, Registered
<1>1. IsLeaving(c) => addPc[c] = "added" /\ connectionMap[SessionOf[c]] # c
  BY ConstantsAssumption DEF IsLeaving
<1>2. IsMember(c) => addPc[c] \in {"push", "added"}
  BY ConstantsAssumption DEF IsMember
<1>3. ~(IsMember(c) /\ IsLeaving(c))
  BY <1>1, ConstantsAssumption DEF IsMember, IsLeaving
<1> HIDE DEF CallInv, TypeInv, TypeOK, LocalInv, RemovalInv, HeldBy, Registered
<1>4. Phase(c) =
        CASE addPc[c] \in {"idle", "load", "cas"} -> "out"
          [] addPc[c] \in {"insert", "entry", "urlLoad", "urlCas"} -> "reserved"
          [] addPc[c] = "uncount" -> "rejected"
          [] IsMember(c) -> "member"
          [] IsLeaving(c) -> "leaving"
          [] OTHER -> "gone"
  BY DEF Phase, IsMember, IsLeaving
<1> QED BY <1>1, <1>2, <1>3, <1>4 DEF PhaseMeaning

\* ... in the next state, too.
LEMMA PhaseCasesNext ==
    ASSUME NEW c \in Clients PROVE CallInv' => PhaseMeaning(c)'
<1>1. CallInv => PhaseMeaning(c)
  BY PhaseCases
<1> QED BY <1>1, PTL

\* The clients with one of Admission's slots are the slot holders, and those
\* with a place under u are its url slot holders.
LEMMA SlotsAndPlaces ==
    ASSUME CallInv
    PROVE  /\ Limits!Slots = SlotHolders
           /\ \A u \in Urls : Limits!Places(u) = UrlSlotHolders(u)
<1>1. \A c \in Clients :
         Phase(c) \in {"reserved", "member", "rejected"} <=> HoldsSlot(c)
  <2> SUFFICES ASSUME NEW c \in Clients
               PROVE  Phase(c) \in {"reserved", "member", "rejected"}
                        <=> HoldsSlot(c)
    OBVIOUS
  <2> QED BY PhaseCases DEF PhaseMeaning, HoldsSlot, IsMember
<1>2. \A c \in Clients :
         Phase(c) \in {"member", "leaving"} <=> HoldsUrlSlot(c)
  <2> SUFFICES ASSUME NEW c \in Clients
               PROVE  Phase(c) \in {"member", "leaving"} <=> HoldsUrlSlot(c)
    OBVIOUS
  <2>1. HoldsUrlSlot(c) <=> IsMember(c) \/ IsLeaving(c)
    BY DEF HoldsUrlSlot, IsMember, IsLeaving, HeldBy
  <2> QED BY <2>1, PhaseCases DEF PhaseMeaning
<1>3. Limits!Slots = SlotHolders
  BY <1>1 DEF Limits!Slots, Limits!In, SlotHolders
<1>4. ASSUME NEW u \in Urls PROVE Limits!Places(u) = UrlSlotHolders(u)
  BY <1>2 DEF Limits!Places, Limits!In, UrlSlotHolders
<1> QED BY <1>3, <1>4

\* Clients whose program counter, place and removal stay the same stay in
\* their phase.
LEMMA PhaseKept ==
    ASSUME CallInv, CallInv', NEW c \in Clients,
           UNCHANGED addPc[c],
           IsMember(c)' <=> IsMember(c), IsLeaving(c)' <=> IsLeaving(c)
    PROVE  Phase(c)' = Phase(c)
BY PhaseCases, PhaseCasesNext DEF PhaseMeaning

\* A step that keeps every client's phase is a stutter of Admission.
LEMMA PhaseStutter ==
    ASSUME \A d \in Clients : Phase(d)' = Phase(d)
    PROVE  UNCHANGED phaseBar
BY DEF phaseBar

\* A step that moves one client from a phase to another is a Move of Admission.
LEMMA PhaseMove ==
    ASSUME NEW c \in Clients, NEW to, Phase(c)' = to,
           \A d \in Clients \ {c} : Phase(d)' = Phase(d)
    PROVE  Limits!Move(c, Phase(c), to)
BY DEF Limits!Move

-----------------------------------------------------------------------------
(* A step only moves the client it is about                                *)

\* add_connection(c) touches the phase of c alone.
LEMMA OthersKeptAdd ==
    ASSUME CallInv, CallInv', NEW c \in Clients, BeginAdd(c) \/ AddStep(c),
           NEW d \in Clients, d # c
    PROVE  Phase(d)' = Phase(d)
<1>1. /\ UNCHANGED <<removePc, removeClient>>
      /\ \E pc \in AddPcs : addPc' = [addPc EXCEPT ![c] = pc]
  BY DEF AddStep, BeginAdd, LoadCount, TakeSlot, InsertConnection,
     CreateUrlData, LockUrlData, LoadUrlCount, TakeUrlSlot, PushClient,
     ReturnSlot, UnmapRefused, AddGoto, AddPcs, removeVars
<1>2. \/ UNCHANGED connectionMap
      \/ /\ addPc[c] \in {"insert", "unmap"}
         /\ \E e \in {c, Null} :
               connectionMap' = [connectionMap EXCEPT ![SessionOf[c]] = e]
  BY DEF AddStep, BeginAdd, LoadCount, TakeSlot, InsertConnection,
     CreateUrlData, LockUrlData, LoadUrlCount, TakeUrlSlot, PushClient,
     ReturnSlot, UnmapRefused, Without
<1>3. addPc[c] \in {"insert", "unmap"} =>
          connectionMap[SessionOf[c]] \in {c, Null}
  BY DEF CallInv, SessionInv, BeforeInsert, AfterInsert
<1>4. addPc'[d] = addPc[d]
  BY <1>1 DEF CallInv, TypeInv, TypeOK
<1>5. Registered(d)' <=> Registered(d)
  BY <1>2, <1>3, <1>4, ConstantsAssumption
  DEF CallInv, TypeInv, TypeOK, Registered
<1>6. (IsMember(d)' <=> IsMember(d)) /\ (IsLeaving(d)' <=> IsLeaving(d))
  BY <1>1, <1>4, <1>5 DEF IsMember, IsLeaving, HeldBy
<1> QED BY <1>4, <1>6, PhaseKept

\* A removal touches the phase of the client it takes or holds alone.
LEMMA OthersKeptRemove ==
    ASSUME CallInv, CallInv', NEW t \in Removers,
           (\E s \in Sessions : BeginRemove(t, s)) \/ RemoveStep(t),
           NEW d \in Clients, d # removeClient[t], d # removeClient'[t]
    PROVE  Phase(d)' = Phase(d)
<1> USE DEF CallInv, TypeInv, TypeOK
<1>1. UNCHANGED addPc
  BY DEF RemoveStep, BeginRemove, TakeConnection, FreeSlot, Dispose,
     FindUrlData, UncountClient, RetainOthers, DropUrlData, addVars
<1>2. \/ UNCHANGED connectionMap
      \/ /\ removePc[t] = "lookup"
         /\ connectionMap[removeSession[t]] = removeClient'[t]
         /\ connectionMap' = [connectionMap EXCEPT ![removeSession[t]] = Null]
  BY DEF RemoveStep, BeginRemove, TakeConnection, FreeSlot, Dispose,
     FindUrlData, UncountClient, RetainOthers, DropUrlData, Without
<1>3. Registered(d)' <=> Registered(d)
  BY <1>1, <1>2, ConstantsAssumption DEF Registered
<1>4. \A r \in Removers \ {t} :
         removeClient'[r] = removeClient[r] /\ removePc'[r] = removePc[r]
  BY DEF RemoveStep, BeginRemove, TakeConnection, FreeSlot, Dispose,
     FindUrlData, UncountClient, RetainOthers, DropUrlData, RemoveGoto
<1>5. (IsMember(d)' <=> IsMember(d)) /\ (IsLeaving(d)' <=> IsLeaving(d))
  BY <1>1, <1>3, <1>4 DEF IsMember, IsLeaving, HeldBy
<1> QED BY <1>1, <1>5, PhaseKept

-----------------------------------------------------------------------------
(* The step that moves it                                                  *)

\* Admission counts with the Cardinality of its own instance of FiniteSets.
LEMMA SameCardinality ==
    ASSUME NEW S PROVE Limits!Cardinality(S) = Cardinality(S)
BY DEF Limits!Cardinality, Cardinality

\* client_count, and the count of the UrlData that an add works on, are what
\* Admission compares with its limits.
LEMMA CountsAreAdmissions ==
    ASSUME IndInv
    PROVE  /\ clientCount = Cardinality(Limits!Slots)
           /\ \A u \in Urls : urlDataMap[u] # Null =>
                 udClientCount[urlDataMap[u]] = Cardinality(Limits!Places(u))
           /\ \A u \in Urls : urlDataMap[u] = Null =>
                 Cardinality(Limits!Places(u)) = 0
BY SlotsAndPlaces, FS_EmptySet
DEF IndInv, SlotInv, SlotsAccounted, UrlInv, UrlCountInv, UrlCountOk

\* add_connection: the compare_exchanges reserve the slot and join the url, the
\* two checks turn away and reject, the rollback cancels; the rest is silent.
LEMMA AddImplementsAdmission ==
    ASSUME MaxByUrl # 0, IndInv, IndInv', NEW c \in Clients,
           BeginAdd(c) \/ AddStep(c)
    PROVE  Limits!Next \/ UNCHANGED phaseBar
<1> USE DEF IndInv, AddGoto
<1>1. CallInv /\ CallInv' /\ addPc \in [Clients -> AddPcs]
  BY DEF CallInv, TypeInv, TypeOK
<1>2. \A d \in Clients \ {c} : Phase(d)' = Phase(d)
  BY <1>1, OthersKeptAdd
<1>3. PhaseMeaning(c) /\ PhaseMeaning(c)'
  BY <1>1, PhaseCases, PhaseCasesNext
<1>4. Phase(c)' = Phase(c) => UNCHANGED phaseBar
  BY <1>2, PhaseStutter
<1>5. \A to : Phase(c)' = to => Limits!Move(c, Phase(c), to)
  BY <1>2, PhaseMove
<1>6. /\ clientCount = Cardinality(Limits!Slots)
      /\ \A u \in Urls : urlDataMap[u] # Null =>
            udClientCount[urlDataMap[u]] = Cardinality(Limits!Places(u))
      /\ \A u \in Urls : urlDataMap[u] = Null =>
            Cardinality(Limits!Places(u)) = 0
  BY CountsAreAdmissions
<1>7. clientCount \in Nat /\ MaxConnections \in Nat /\ MaxByUrl \in Nat
      /\ UrlOf[c] \in Urls
  BY <1>1, ConstantsAssumption DEF CallInv, TypeInv, TypeOK, Counters
<1> HIDE DEF IndInv
<1>11. CASE BeginAdd(c)
  BY <1>1, <1>3, <1>4, <1>11 DEF BeginAdd, PhaseMeaning
<1>12. CASE LoadCount(c)
  <2>1. CASE ServerFull
    <3>1. addPc[c] = "load" /\ addPc'[c] = "refused"
      BY <1>1, <1>12, <2>1 DEF LoadCount
    <3>2. Phase(c) = "out" /\ Phase(c)' = "gone"
      BY <1>3, <3>1 DEF PhaseMeaning
    <3> QED
      <4>1. Cardinality(Limits!Slots) >= MaxConnections
        BY <1>6, <1>7, <2>1 DEF ServerFull
      <4>2. Limits!TurnAway(c)
        BY <1>5, <3>2, <4>1, SameCardinality DEF Limits!TurnAway
      <4> QED BY <4>2 DEF Limits!Next
  <2>2. CASE ~ServerFull
    BY <1>1, <1>3, <1>4, <1>12, <2>2 DEF LoadCount, PhaseMeaning
  <2> QED BY <2>1, <2>2
<1>13. CASE TakeSlot(c)
  <2>1. CASE clientCount = addSeen[c]
    <3>1. addPc[c] = "cas" /\ addPc'[c] = "insert"
      BY <1>1, <1>13, <2>1 DEF TakeSlot, UnchangedSince
    <3>2. Phase(c) = "out" /\ Phase(c)' = "reserved"
      BY <1>3, <3>1 DEF PhaseMeaning
    <3>3. clientCount < MaxConnections
      BY <1>1, <2>1, <3>1 DEF CallInv, TypeInv, LocalInv
    <3> QED
      <4>1. Cardinality(Limits!Slots) < MaxConnections
        BY <1>6, <1>7, <3>3
      <4>2. Limits!Reserve(c)
        BY <1>5, <3>2, <4>1, SameCardinality DEF Limits!Reserve
      <4> QED BY <4>2 DEF Limits!Next
  <2>2. CASE clientCount # addSeen[c]
    BY <1>1, <1>3, <1>4, <1>13, <2>2
    DEF TakeSlot, UnchangedSince, PhaseMeaning
  <2> QED BY <2>1, <2>2
<1>14. CASE InsertConnection(c)
  BY <1>1, <1>3, <1>4, <1>14 DEF InsertConnection, PhaseMeaning
<1>15. CASE CreateUrlData(c)
  <2>1. /\ addPc[c] = "entry" /\ addPc'[c] = "added"
        /\ urlDataMap[UrlOf[c]] = Null
        /\ connectionMap' = connectionMap
    BY <1>1, <1>15 DEF CreateUrlData
  <2>2. Registered(c)'
    BY <1>1, <2>1 DEF CallInv, SessionInv, AfterInsert, Registered
  <2>3. Phase(c) = "reserved" /\ Phase(c)' = "member"
    BY <1>3, <2>1, <2>2 DEF PhaseMeaning, IsMember
  <2> QED
    <3>1. Cardinality(Limits!Places(UrlOf[c])) < MaxByUrl
      BY <1>6, <1>7, <2>1
    <3>2. Limits!Join(c)
      BY <1>5, <2>3, <3>1, SameCardinality DEF Limits!Join
    <3> QED BY <3>2 DEF Limits!Next
<1>16. CASE LockUrlData(c)
  BY <1>1, <1>3, <1>4, <1>16 DEF LockUrlData, PhaseMeaning
<1>17. CASE LoadUrlCount(c)
  <2> DEFINE d == urlDataMap[UrlOf[c]]
  <2>1. CASE UrlFull(addUd[c])
    <3>1. addPc[c] = "urlLoad" /\ addPc'[c] = "uncount"
      BY <1>1, <1>17, <2>1 DEF LoadUrlCount
    <3>2. Phase(c) = "reserved" /\ Phase(c)' = "rejected"
      BY <1>3, <3>1 DEF PhaseMeaning
    <3>3. d # Null /\ MaxByUrl <= udClientCount[d] /\ udClientCount[d] \in Nat
      BY <1>1, <2>1, <3>1, ConstantsAssumption
      DEF IndInv, UrlInv, EntryInv, CallInv, TypeInv, TypeOK, LocalInv,
          UrlFull, Counters
    <3> QED
      <4>1. Cardinality(Limits!Places(UrlOf[c])) >= MaxByUrl
        BY <1>6, <1>7, <3>3
      <4>2. Limits!Reject(c)
        BY <1>5, <3>2, <4>1, SameCardinality DEF Limits!Reject
      <4> QED BY <4>2 DEF Limits!Next
  <2>2. CASE ~UrlFull(addUd[c])
    BY <1>1, <1>3, <1>4, <1>17, <2>2 DEF LoadUrlCount, PhaseMeaning
  <2> QED BY <2>1, <2>2
<1>18. CASE TakeUrlSlot(c)
  <2> DEFINE d == urlDataMap[UrlOf[c]]
  <2>1. CASE udClientCount[addUd[c]] = addSeen[c]
    <3>1. addPc[c] = "urlCas" /\ addPc'[c] = "push"
      BY <1>1, <1>18, <2>1 DEF TakeUrlSlot, UnchangedSince
    <3>2. Phase(c) = "reserved" /\ Phase(c)' = "member"
      BY <1>3, <3>1 DEF PhaseMeaning, IsMember
    <3>3. d # Null /\ udClientCount[d] < MaxByUrl
      BY <1>1, <2>1, <3>1, ConstantsAssumption
      DEF IndInv, UrlInv, EntryInv, CallInv, TypeInv, TypeOK, LocalInv
    <3> QED
      <4>1. Cardinality(Limits!Places(UrlOf[c])) < MaxByUrl
        BY <1>6, <1>7, <3>3
      <4>2. Limits!Join(c)
        BY <1>5, <3>2, <4>1, SameCardinality DEF Limits!Join
      <4> QED BY <4>2 DEF Limits!Next
  <2>2. CASE udClientCount[addUd[c]] # addSeen[c]
    BY <1>1, <1>3, <1>4, <1>18, <2>2
    DEF TakeUrlSlot, UnchangedSince, PhaseMeaning
  <2> QED BY <2>1, <2>2
<1>19. CASE PushClient(c)
  <2>1. /\ addPc[c] = "push" /\ addPc'[c] = "added"
        /\ connectionMap' = connectionMap
    BY <1>1, <1>19 DEF PushClient
  <2>2. Registered(c)'
    BY <1>1, <2>1 DEF CallInv, SessionInv, AfterInsert, Registered
  <2> QED
    BY <1>3, <1>4, <2>1, <2>2 DEF PhaseMeaning, IsMember
<1>20. CASE ReturnSlot(c)
  <2>1. addPc[c] = "uncount" /\ addPc'[c] = "unmap"
    BY <1>1, <1>20 DEF ReturnSlot
  <2>2. Phase(c) = "rejected" /\ Phase(c)' = "gone"
    BY <1>3, <2>1 DEF PhaseMeaning
  <2> QED
    BY <1>5, <2>2 DEF Limits!Next, Limits!Cancel
<1>21. CASE UnmapRefused(c)
  BY <1>1, <1>3, <1>4, <1>21 DEF UnmapRefused, PhaseMeaning
<1> QED
  BY <1>11, <1>12, <1>13, <1>14, <1>15, <1>16, <1>17, <1>18, <1>19, <1>20,
     <1>21 DEF AddStep

\* remove_connection: the client leaves when its slot is freed and vacates its
\* place when the UrlData is decremented; the rest is silent.
LEMMA RemoveImplementsAdmission ==
    ASSUME IndInv, IndInv', NEW t \in Removers,
           (\E s \in Sessions : BeginRemove(t, s)) \/ RemoveStep(t)
    PROVE  Limits!Next \/ UNCHANGED phaseBar
<1>1. CallInv /\ CallInv'
  BY DEF IndInv
<1>2. ASSUME NEW c \in Clients, c \in {removeClient[t], removeClient'[t]},
             {removeClient[t], removeClient'[t]} \subseteq {c, Null}
      PROVE  /\ PhaseMeaning(c) /\ PhaseMeaning(c)'
             /\ Phase(c)' = Phase(c) => UNCHANGED phaseBar
             /\ \A to : Phase(c)' = to => Limits!Move(c, Phase(c), to)
  <2>1. \A d \in Clients \ {c} : d # removeClient[t] /\ d # removeClient'[t]
    BY <1>2, ConstantsAssumption
  <2>2. \A d \in Clients \ {c} : Phase(d)' = Phase(d)
    BY <1>1, <2>1, OthersKeptRemove
  <2> QED
    BY <1>1, <2>2, PhaseCases, PhaseCasesNext, PhaseStutter, PhaseMove
<1>3. CASE removeClient[t] = Null /\ removeClient'[t] = Null
  <2>1. \A d \in Clients : Phase(d)' = Phase(d)
    BY <1>1, <1>3, OthersKeptRemove, ConstantsAssumption
  <2> QED BY <2>1, PhaseStutter
<1> USE ConstantsAssumption DEF CallInv, TypeInv, TypeOK, LocalInv, RemoveGoto
<1>4. CASE TakeConnection(t) /\ removeClient'[t] # Null
  <2>1. PICK c \in Clients : c = connectionMap[removeSession[t]]
    BY <1>1, <1>4 DEF TakeConnection
  <2>2. /\ removeClient[t] = Null /\ removeClient'[t] = c
        /\ removePc'[t] = "uncount" /\ UNCHANGED addPc
        /\ removeSession[t] \in Sessions /\ removePc[t] = "lookup"
    BY <1>1, <1>4, <2>1 DEF TakeConnection, addVars
  <2>3. SessionOf[c] = removeSession[t]
    BY <1>1, <2>1, <2>2 DEF SessionInv
  <2>4. addPc[c] = "added"
    <3>1. addPc[c] \in AfterInsert \cup {"added"}
      BY <1>1, <2>1, <2>2 DEF SessionInv
    <3>2. ~Adding(c)
      BY <1>1, <2>2, <2>3 DEF SessionInv, Removing
    <3> QED BY <3>1, <3>2 DEF AfterInsert, Adding
  <2>5. IsMember(c) /\ IsMember(c)'
    BY <2>1, <2>2, <2>3, <2>4 DEF IsMember, Registered, HeldBy
  <2> QED
    BY <1>2, <2>2, <2>5 DEF PhaseMeaning
<1>5. ASSUME removePc[t] \notin {"idle", "lookup"}
      PROVE  \E c \in Clients :
                /\ c = removeClient[t] /\ addPc[c] = "added"
                /\ ~Registered(c)
                /\ \A r \in Removers : removeClient[r] = c => r = t
  BY <1>1, <1>5 DEF RemovalInv, Registered
<1>6. CASE FreeSlot(t)
  <2>1. /\ removePc[t] = "uncount" /\ removePc'[t] = "dispose"
        /\ UNCHANGED removeClient
    BY <1>1, <1>6 DEF FreeSlot
  <2> PICK c \in Clients : c = removeClient[t]
    BY <1>5, <2>1
  <2>2. IsMember(c) /\ IsLeaving(c)'
    BY <2>1 DEF IsMember, IsLeaving, HeldBy
  <2>3. Phase(c) = "member" /\ Phase(c)' = "leaving"
    BY <1>2, <2>1, <2>2 DEF PhaseMeaning
  <2> QED
    BY <1>2, <2>1, <2>2, <2>3 DEF Limits!Next, Limits!Leave
<1>7. CASE Dispose(t)
  <2>1. /\ removePc[t] = "dispose" /\ removePc'[t] = "getUrl"
        /\ UNCHANGED removeClient
    BY <1>1, <1>7 DEF Dispose
  <2> PICK c \in Clients : c = removeClient[t]
    BY <1>5, <2>1
  <2>2. IsLeaving(c) /\ IsLeaving(c)'
    BY <2>1 DEF IsLeaving, HeldBy
  <2> QED
    BY <1>2, <2>1, <2>2 DEF PhaseMeaning
<1>8. CASE FindUrlData(t)
  <2>1. removePc[t] = "getUrl" /\ UNCHANGED removeClient
    BY <1>1, <1>8 DEF FindUrlData
  <2> PICK c \in Clients : c = removeClient[t]
    BY <1>5, <2>1
  <2>2. urlDataMap[UrlOf[c]] # Null => removePc'[t] = "urlUncount"
    BY <1>1, <1>8 DEF FindUrlData
  <2>3. urlDataMap[UrlOf[c]] # Null
    <3>1. c \in UrlSlotHolders(UrlOf[c])
      BY <2>1 DEF UrlSlotHolders, HoldsUrlSlot, HeldBy
    <3> QED
      BY <3>1 DEF IndInv, UrlInv, UrlCountInv, UrlCountOk
  <2>4. IsLeaving(c) /\ IsLeaving(c)'
    BY <2>1, <2>2, <2>3 DEF IsLeaving, HeldBy
  <2> QED
    BY <1>2, <2>1, <2>2, <2>4 DEF PhaseMeaning
<1>9. CASE UncountClient(t)
  <2>1. /\ removePc[t] = "urlUncount" /\ removePc'[t] = "retain"
        /\ UNCHANGED <<addPc, connectionMap, removeClient>>
    BY <1>1, <1>9 DEF UncountClient, addVars
  <2> PICK c \in Clients : c = removeClient[t]
    BY <1>5, <2>1
  <2>2. IsLeaving(c)
    BY <2>1 DEF IsLeaving, HeldBy
  <2>3. addPc'[c] = "added" /\ ~IsMember(c)' /\ ~IsLeaving(c)'
    BY <1>5, <2>1 DEF IsMember, IsLeaving, HeldBy, Registered
  <2>4. Phase(c) = "leaving" /\ Phase(c)' = "gone"
    BY <1>2, <2>1, <2>2, <2>3 DEF PhaseMeaning
  <2> QED
    BY <1>2, <2>1, <2>2, <2>4 DEF Limits!Next, Limits!Vacate
<1>10. CASE RetainOthers(t) \/ DropUrlData(t)
  <2>1. removePc[t] \in {"retain", "dropUrl"}
    BY <1>1, <1>10 DEF RetainOthers, DropUrlData
  <2> PICK c \in Clients : c = removeClient[t]
    BY <1>5, <2>1
  <2>2. /\ removePc'[t] \in {"dropUrl", "idle"}
        /\ removeClient'[t] \in {c, Null}
        /\ removePc'[t] = "idle" => removeClient'[t] = Null
        /\ \A r \in Removers \ {t} :
              removeClient'[r] = removeClient[r] /\ removePc'[r] = removePc[r]
        /\ UNCHANGED <<addPc, connectionMap>>
    BY <1>1, <1>10 DEF RetainOthers, DropUrlData, addVars
  <2>3. addPc[c] = "added" /\ ~IsMember(c) /\ ~IsLeaving(c)
    BY <1>5, <2>1 DEF IsMember, IsLeaving, HeldBy, Registered
  <2>4. addPc'[c] = "added" /\ ~IsMember(c)' /\ ~IsLeaving(c)'
    BY <1>5, <2>1, <2>2 DEF IsMember, IsLeaving, HeldBy, Registered
  <2> QED
    BY <1>2, <2>2, <2>3, <2>4 DEF PhaseMeaning
<1> QED
  BY <1>1, <1>3, <1>4, <1>6, <1>7, <1>8, <1>9, <1>10
  DEF RemoveStep, BeginRemove, TakeConnection

-----------------------------------------------------------------------------
\* The registry keeps the promises of Admission for every number of clients,
\* tasks, sessions and urls: a client is turned away only when all slots are
\* held, refused only when its url is full, a slot or place is given back once,
\* and a client that has left never comes back.
THEOREM RegistryImplementsAdmission ==
    ASSUME SerialSessions, MaxByUrl # 0 PROVE Spec => ImplementsAdmission
<1>1. Init => Limits!Init
  <2>1. Init => \A c \in Clients : addPc[c] = "idle"
    BY DEF Init
  <2>2. Init => \A c \in Clients : Phase(c) = "out"
    BY <2>1, TypeInvInit, CallInvInit, PhaseCases DEF CallInv, PhaseMeaning
  <2> QED
    BY <2>2 DEF Limits!Init
<1>2. IndInv /\ IndInv' /\ [Next]_vars => [Limits!Next]_phaseBar
  <2>1. IndInv /\ IndInv' /\ Next => Limits!Next \/ UNCHANGED phaseBar
    BY AddImplementsAdmission, RemoveImplementsAdmission DEF Next
  <2>2. UNCHANGED vars => UNCHANGED phaseBar
    BY DEF vars, addVars, removeVars, phaseBar, Phase, Registered, HeldBy
  <2> QED BY <2>1, <2>2
<1> QED
  BY <1>1, <1>2, IndInvHolds, PTL
  DEF Spec, ImplementsAdmission, Limits!Spec, phaseBar
=============================================================================
