------------------------------ MODULE Registry ------------------------------
(***************************************************************************)
(* The connection registry of hubserv: the part of `State` (state.rs) and  *)
(* of `UrlData` (state/url_data.rs) that admits, lists and evicts clients. *)
(*                                                                         *)
(* The HTTP handlers and the WebRTC callbacks call State::add_connection   *)
(* and State::remove_connection from many tokio threads.  Both are         *)
(* synchronous and are built from atomic steps on shared maps and          *)
(* counters; no lock spans a call.  Each action below is one such step,    *)
(* and a call is a walk through the program counters addPc / removePc.     *)
(*                                                                         *)
(* A member of Clients is one ClientData object: it is passed to           *)
(* add_connection at most once.  A UrlData object is named after the       *)
(* client whose add_connection created it.                                 *)
(***************************************************************************)
EXTENDS Naturals, FiniteSets

CONSTANTS
    Clients,         \* ClientData objects
    Sessions,        \* session ids, the keys of connection_map
    Urls,            \* page URLs, the keys of url_data_map
    Removers,        \* tasks that may be inside remove_connection
    SessionOf,       \* ClientData.session_id
    UrlOf,           \* ClientData.url
    MaxConnections,  \* State.max_connections; None is CounterWrap - 1
    MaxByUrl,        \* State.max_connections_by_url; None is CounterWrap - 1
    CounterWrap,     \* 2^64, the width of the AtomicU64 counters
    Null,            \* Option::None
    SerialSessions   \* whether the callers keep the contract AddAllowed,
                     \* RemoveAllowed below

ASSUME ConstantsAssumption ==
    /\ SessionOf \in [Clients -> Sessions]
    /\ UrlOf \in [Clients -> Urls]
    /\ Null \notin Clients \cup Sessions
    /\ CounterWrap \in Nat \ {0, 1}
    /\ MaxConnections \in 0 .. (CounterWrap - 1)
    /\ MaxByUrl \in 0 .. (CounterWrap - 1)
    /\ SerialSessions \in BOOLEAN

VARIABLES
    clientCount,     \* State.client_count
    connectionMap,   \* State.connection_map
    urlDataMap,      \* State.url_data_map
    urlLock,         \* the add_connection call that holds the url's entry
    udClientCount,   \* UrlData.client_count
    udClients,       \* UrlData.clients
    disposed,        \* clients whose dispose() has run
    addPc, addSeen, addUd,                        \* add_connection(c)
    removePc, removeSession, removeClient, removeUd  \* remove_connection

addVars == <<addPc, addSeen, addUd>>
removeVars == <<removePc, removeSession, removeClient, removeUd>>
udVars == <<udClientCount, udClients>>
vars == <<clientCount, connectionMap, urlDataMap, urlLock, udVars, disposed,
          addVars, removeVars>>

AddPcs == {"idle", "load", "cas", "insert", "entry", "urlLoad", "urlCas",
           "push", "uncount", "unmap", "added", "refused"}
RemovePcs == {"idle", "lookup", "uncount", "dispose", "getUrl",
              "urlUncount", "retain", "dropUrl"}

Counters == 0 .. (CounterWrap - 1)

\* fetch_sub(1): the counters are unsigned and wrap around at zero.
FetchSub(n) == IF n = 0 THEN CounterWrap - 1 ELSE n - 1

ServerFullOffByOne == MaxConnections < clientCount  \* mutant
ServerFull == MaxConnections <= clientCount

UrlFullOffByOne(d) == MaxByUrl < udClientCount[d]  \* mutant
UrlFull(d) == MaxByUrl <= udClientCount[d]

\* compare_exchange succeeds when the counter is still what was loaded.
UnchangedSinceIgnored(counter, seen) == TRUE  \* mutant: fetch_add
UnchangedSince(counter, seen) == counter = seen

\* connection_map.remove(s)
WithoutByGet(s) == connectionMap  \* mutant: get, the entry stays
Without(s) == [connectionMap EXCEPT ![s] = Null]

\* The entry of u in url_data_map is not locked, and is unlocked.
EntryFreeIgnored(u) == TRUE  \* mutant: the guard is not held across the add
EntryFree(u) == urlLock[u] = Null

UnlockedLeaked(u) == urlLock  \* mutant: the guard leaks
Unlocked(u) == [urlLock EXCEPT ![u] = Null]

\* clients.retain(..)
RetainedAll(cs, s) == cs  \* mutant
Retained(cs, s) == {c \in cs : SessionOf[c] # s}

\* url_data_map.remove_if(url, is_empty)
Droppable(d) == udClientCount[d] = 0

Init ==
    /\ clientCount = 0
    /\ connectionMap = [s \in Sessions |-> Null]
    /\ urlDataMap = [u \in Urls |-> Null]
    /\ urlLock = [u \in Urls |-> Null]
    /\ udClientCount = [d \in Clients |-> 0]
    /\ udClients = [d \in Clients |-> {}]
    /\ disposed = {}
    /\ addPc = [c \in Clients |-> "idle"]
    /\ addSeen = [c \in Clients |-> 0]
    /\ addUd = [c \in Clients |-> Null]
    /\ removePc = [t \in Removers |-> "idle"]
    /\ removeSession = [t \in Removers |-> Null]
    /\ removeClient = [t \in Removers |-> Null]
    /\ removeUd = [t \in Removers |-> Null]

-----------------------------------------------------------------------------
(* State::add_connection(c)                                                *)

AddGoto(c, pc) == addPc' = [addPc EXCEPT ![c] = pc]

BeginAdd(c) ==
    /\ addPc[c] = "idle"
    /\ AddGoto(c, "load")
    /\ UNCHANGED <<clientCount, connectionMap, urlDataMap, urlLock, udVars,
                   disposed, addSeen, addUd, removeVars>>

LoadCount(c) ==
    /\ addPc[c] = "load"
    /\ \/ /\ ServerFull
          /\ AddGoto(c, "refused")
          /\ UNCHANGED addSeen
       \/ /\ ~ServerFull
          /\ AddGoto(c, "cas")
          /\ addSeen' = [addSeen EXCEPT ![c] = clientCount]
    /\ UNCHANGED <<clientCount, connectionMap, urlDataMap, urlLock, udVars,
                   disposed, addUd, removeVars>>

\* compare_exchange(seen, seen + 1): a failure reloads and checks again.
TakeSlot(c) ==
    /\ addPc[c] = "cas"
    /\ \/ /\ UnchangedSince(clientCount, addSeen[c])
          /\ clientCount' = clientCount + 1
          /\ AddGoto(c, "insert")
       \/ /\ ~UnchangedSince(clientCount, addSeen[c])
          /\ AddGoto(c, "load")
          /\ UNCHANGED clientCount
    /\ addSeen' = [addSeen EXCEPT ![c] = 0]
    /\ UNCHANGED <<connectionMap, urlDataMap, urlLock, udVars, disposed,
                   addUd, removeVars>>

InsertConnection(c) ==
    /\ addPc[c] = "insert"
    /\ connectionMap' = [connectionMap EXCEPT ![SessionOf[c]] = c]
    /\ AddGoto(c, "entry")
    /\ UNCHANGED <<clientCount, urlDataMap, urlLock, udVars, disposed,
                   addSeen, addUd, removeVars>>

\* The Vacant arm: UrlData::new(c) is built and inserted under the entry.
CreateUrlData(c) ==
    /\ addPc[c] = "entry"
    /\ EntryFree(UrlOf[c])
    /\ urlDataMap[UrlOf[c]] = Null
    /\ urlDataMap' = [urlDataMap EXCEPT ![UrlOf[c]] = c]
    /\ udClientCount' = [udClientCount EXCEPT ![c] = 1]
    /\ udClients' = [udClients EXCEPT ![c] = {c}]
    /\ AddGoto(c, "added")
    /\ UNCHANGED <<clientCount, connectionMap, urlLock, disposed,
                   addSeen, addUd, removeVars>>

\* The Occupied arm keeps the entry locked while UrlData::add_connection runs.
LockUrlData(c) ==
    /\ addPc[c] = "entry"
    /\ EntryFree(UrlOf[c])
    /\ urlDataMap[UrlOf[c]] # Null
    /\ urlLock' = [urlLock EXCEPT ![UrlOf[c]] = c]
    /\ addUd' = [addUd EXCEPT ![c] = urlDataMap[UrlOf[c]]]
    /\ AddGoto(c, "urlLoad")
    /\ UNCHANGED <<clientCount, connectionMap, urlDataMap, udVars, disposed,
                   addSeen, removeVars>>

LoadUrlCount(c) ==
    /\ addPc[c] = "urlLoad"
    /\ \/ /\ UrlFull(addUd[c])
          /\ AddGoto(c, "uncount")
          /\ urlLock' = Unlocked(UrlOf[c])
          /\ addUd' = [addUd EXCEPT ![c] = Null]
          /\ UNCHANGED addSeen
       \/ /\ ~UrlFull(addUd[c])
          /\ AddGoto(c, "urlCas")
          /\ addSeen' = [addSeen EXCEPT ![c] = udClientCount[addUd[c]]]
          /\ UNCHANGED <<urlLock, addUd>>
    /\ UNCHANGED <<clientCount, connectionMap, urlDataMap, udVars, disposed,
                   removeVars>>

TakeUrlSlot(c) ==
    /\ addPc[c] = "urlCas"
    /\ \/ /\ UnchangedSince(udClientCount[addUd[c]], addSeen[c])
          /\ udClientCount' = [udClientCount EXCEPT ![addUd[c]] = @ + 1]
          /\ AddGoto(c, "push")
       \/ /\ ~UnchangedSince(udClientCount[addUd[c]], addSeen[c])
          /\ AddGoto(c, "urlLoad")
          /\ UNCHANGED udClientCount
    /\ addSeen' = [addSeen EXCEPT ![c] = 0]
    /\ UNCHANGED <<clientCount, connectionMap, urlDataMap, urlLock,
                   udClients, disposed, addUd, removeVars>>

PushClient(c) ==
    /\ addPc[c] = "push"
    /\ udClients' = [udClients EXCEPT ![addUd[c]] = @ \cup {c}]
    /\ urlLock' = Unlocked(UrlOf[c])
    /\ addUd' = [addUd EXCEPT ![c] = Null]
    /\ AddGoto(c, "added")
    /\ UNCHANGED <<clientCount, connectionMap, urlDataMap, udClientCount,
                   disposed, addSeen, removeVars>>

\* The url is full: give the slot back, then withdraw the map entry.
ReturnSlot(c) ==
    /\ addPc[c] = "uncount"
    /\ clientCount' = FetchSub(clientCount)
    /\ AddGoto(c, "unmap")
    /\ UNCHANGED <<connectionMap, urlDataMap, urlLock, udVars, disposed,
                   addSeen, addUd, removeVars>>

UnmapRefused(c) ==
    /\ addPc[c] = "unmap"
    /\ connectionMap' = Without(SessionOf[c])
    /\ AddGoto(c, "refused")
    /\ UNCHANGED <<clientCount, urlDataMap, urlLock, udVars, disposed,
                   addSeen, addUd, removeVars>>

AddStep(c) ==
    \/ LoadCount(c) \/ TakeSlot(c) \/ InsertConnection(c)
    \/ CreateUrlData(c) \/ LockUrlData(c)
    \/ LoadUrlCount(c) \/ TakeUrlSlot(c) \/ PushClient(c)
    \/ ReturnSlot(c) \/ UnmapRefused(c)

-----------------------------------------------------------------------------
(* State::remove_connection(session), run by task t                        *)

RemoveGoto(t, pc) == removePc' = [removePc EXCEPT ![t] = pc]

BeginRemove(t, s) ==
    /\ removePc[t] = "idle"
    /\ RemoveGoto(t, "lookup")
    /\ removeSession' = [removeSession EXCEPT ![t] = s]
    /\ UNCHANGED <<clientCount, connectionMap, urlDataMap, urlLock, udVars,
                   disposed, addVars, removeClient, removeUd>>

TakeConnection(t) ==
    /\ removePc[t] = "lookup"
    /\ LET s == removeSession[t] IN
       \/ /\ connectionMap[s] = Null
          /\ RemoveGoto(t, "idle")
          /\ removeSession' = [removeSession EXCEPT ![t] = Null]
          /\ UNCHANGED <<connectionMap, removeClient>>
       \/ /\ connectionMap[s] # Null
          /\ RemoveGoto(t, "uncount")
          /\ removeClient' = [removeClient EXCEPT ![t] = connectionMap[s]]
          /\ connectionMap' = Without(s)
          /\ UNCHANGED removeSession
    /\ UNCHANGED <<clientCount, urlDataMap, urlLock, udVars, disposed,
                   addVars, removeUd>>

FreeSlot(t) ==
    /\ removePc[t] = "uncount"
    /\ clientCount' = FetchSub(clientCount)
    /\ RemoveGoto(t, "dispose")
    /\ UNCHANGED <<connectionMap, urlDataMap, urlLock, udVars, disposed,
                   addVars, removeSession, removeClient, removeUd>>

Dispose(t) ==
    /\ removePc[t] = "dispose"
    /\ disposed' = disposed \cup {removeClient[t]}
    /\ RemoveGoto(t, "getUrl")
    /\ UNCHANGED <<clientCount, connectionMap, urlDataMap, urlLock, udVars,
                   addVars, removeSession, removeClient, removeUd>>

\* url_data_map.get(..): waits for an add_connection that holds the entry.
FindUrlData(t) ==
    /\ removePc[t] = "getUrl"
    /\ LET u == UrlOf[removeClient[t]] IN
       /\ EntryFree(u)
       /\ removeUd' = [removeUd EXCEPT ![t] = urlDataMap[u]]
       /\ \/ urlDataMap[u] = Null /\ RemoveGoto(t, "dropUrl")
          \/ urlDataMap[u] # Null /\ RemoveGoto(t, "urlUncount")
    /\ UNCHANGED <<clientCount, connectionMap, urlDataMap, urlLock, udVars,
                   disposed, addVars, removeSession, removeClient>>

UncountClient(t) ==
    /\ removePc[t] = "urlUncount"
    /\ udClientCount' = [udClientCount EXCEPT ![removeUd[t]] = FetchSub(@)]
    /\ RemoveGoto(t, "retain")
    /\ UNCHANGED <<clientCount, connectionMap, urlDataMap, urlLock,
                   udClients, disposed, addVars, removeSession, removeClient,
                   removeUd>>

RetainOthers(t) ==
    /\ removePc[t] = "retain"
    /\ udClients' = [udClients EXCEPT ![removeUd[t]] =
                       Retained(@, removeSession[t])]
    /\ RemoveGoto(t, "dropUrl")
    /\ UNCHANGED <<clientCount, connectionMap, urlDataMap, urlLock,
                   udClientCount, disposed, addVars, removeSession,
                   removeClient, removeUd>>

DropUrlData(t) ==
    /\ removePc[t] = "dropUrl"
    /\ LET u == UrlOf[removeClient[t]] IN
       /\ EntryFree(u)
       /\ urlDataMap' = [urlDataMap EXCEPT ![u] =
                            IF @ # Null /\ Droppable(@) THEN Null ELSE @]
    /\ RemoveGoto(t, "idle")
    /\ removeSession' = [removeSession EXCEPT ![t] = Null]
    /\ removeClient' = [removeClient EXCEPT ![t] = Null]
    /\ removeUd' = [removeUd EXCEPT ![t] = Null]
    /\ UNCHANGED <<clientCount, connectionMap, urlLock, udVars, disposed,
                   addVars>>

RemoveStep(t) ==
    \/ TakeConnection(t) \/ FreeSlot(t) \/ Dispose(t) \/ FindUrlData(t)
    \/ UncountClient(t) \/ RetainOthers(t) \/ DropUrlData(t)

-----------------------------------------------------------------------------
\* State::is_new_connection_available(u), the check /enter makes beforehand.
\* It promises nothing: add_connection checks both limits again.
IsNewConnectionAvailable(u) ==
    /\ ~ServerFull
    /\ urlDataMap[u] # Null => ~UrlFull(urlDataMap[u])

-----------------------------------------------------------------------------
(* The callers.  Nothing in state.rs keeps two calls for one session       *)
(* apart; SerialSessions says whether the callers do.                      *)

Adding(c) == addPc[c] \notin {"idle", "added", "refused"}
Removing(t, s) == removePc[t] # "idle" /\ removeSession[t] = s

AddAllowed(c) ==
    SerialSessions =>
        /\ connectionMap[SessionOf[c]] = Null
        /\ \A d \in Clients : SessionOf[d] = SessionOf[c] => ~Adding(d)
        /\ \A t \in Removers : ~Removing(t, SessionOf[c])

RemoveAllowed(s) ==
    SerialSessions => \A c \in Clients : SessionOf[c] = s => ~Adding(c)

Next ==
    \/ \E c \in Clients : (AddAllowed(c) /\ BeginAdd(c)) \/ AddStep(c)
    \/ \E t \in Removers :
          \/ \E s \in Sessions : RemoveAllowed(s) /\ BeginRemove(t, s)
          \/ RemoveStep(t)

Spec == Init /\ [][Next]_vars

\* A call that has begun runs to its end: both are synchronous functions on
\* a tokio worker thread, and neither awaits.
Fairness ==
    /\ \A c \in Clients : WF_vars(AddStep(c))
    /\ \A t \in Removers : WF_vars(RemoveStep(t))

FairSpec == Spec /\ Fairness

-----------------------------------------------------------------------------
(* What a client holds at each point of the two calls                      *)

Registered(c) == connectionMap[SessionOf[c]] = c /\ addPc[c] = "added"

HeldBy(t, c, pcs) == removeClient[t] = c /\ removePc[t] \in pcs

\* c is counted in client_count
HoldsSlot(c) ==
    \/ addPc[c] \in {"insert", "entry", "urlLoad", "urlCas", "push", "uncount"}
    \/ Registered(c)
    \/ \E t \in Removers : HeldBy(t, c, {"uncount"})

\* c is counted in the client_count of its UrlData
HoldsUrlSlot(c) ==
    \/ addPc[c] = "push"
    \/ Registered(c)
    \/ \E t \in Removers :
          HeldBy(t, c, {"uncount", "dispose", "getUrl", "urlUncount"})

SlotHolders == {c \in Clients : HoldsSlot(c)}
UrlSlotHolders(u) == {c \in Clients : UrlOf[c] = u /\ HoldsUrlSlot(c)}
RegisteredClients == {c \in Clients : Registered(c)}

-----------------------------------------------------------------------------
(* Properties                                                              *)

\* Every variable has its type.
TypeOK ==
    /\ clientCount \in Counters
    /\ connectionMap \in [Sessions -> Clients \cup {Null}]
    /\ urlDataMap \in [Urls -> Clients \cup {Null}]
    /\ urlLock \in [Urls -> Clients \cup {Null}]
    /\ udClientCount \in [Clients -> Counters]
    /\ udClients \in [Clients -> SUBSET Clients]
    /\ disposed \subseteq Clients
    /\ addPc \in [Clients -> AddPcs]
    /\ addSeen \in [Clients -> Counters]
    /\ addUd \in [Clients -> Clients \cup {Null}]
    /\ removePc \in [Removers -> RemovePcs]
    /\ removeSession \in [Removers -> Sessions \cup {Null}]
    /\ removeClient \in [Removers -> Clients \cup {Null}]
    /\ removeUd \in [Removers -> Clients \cup {Null}]

\* client_count is the number of clients that hold a slot: no interleaving of
\* the compare_exchange, the rollback and the removals loses or doubles one.
SlotsAccounted == clientCount = Cardinality(SlotHolders)

\* No more than max_connections clients are registered at once, although the
\* check (load) and the increment (compare_exchange) are separate steps.
ConnectionCap == Cardinality(RegisteredClients) <= MaxConnections

\* The count of a UrlData that is in the map is the number of clients of that
\* url: it never counts a client of a UrlData that was dropped and recreated.
UrlSlotsAccounted ==
    \A u \in Urls : urlDataMap[u] # Null =>
        udClientCount[urlDataMap[u]] = Cardinality(UrlSlotHolders(u))

\* No more than max_connections_by_url registered clients share a url.
UrlCap ==
    \A u \in Urls :
        Cardinality({c \in RegisteredClients : UrlOf[c] = u}) <= MaxByUrl

\* A registered client finds itself in the UrlData of its url: remove_if
\* never drops a UrlData that a client was just counted into.  The message
\* handler relies on it (swarm.rs: unreachable!("url data not found")).
UrlDataReachable ==
    \A c \in RegisteredClients :
        LET d == urlDataMap[UrlOf[c]] IN d # Null /\ c \in udClients[d]

\* A UrlData whose count is zero but that is still in the map has a removal
\* under way that will drop it.
EmptyUrlDataHasReaper ==
    \A u \in Urls :
        urlDataMap[u] # Null /\ udClientCount[urlDataMap[u]] = 0 =>
            \E t \in Removers :
                /\ removePc[t] \in {"retain", "dropUrl"}
                /\ UrlOf[removeClient[t]] = u

Quiescent ==
    /\ \A c \in Clients : ~Adding(c)
    /\ \A t \in Removers : removePc[t] = "idle"

\* Once every call has returned the three views of the registry agree: the
\* slot counter, the session map, and the clients listed under each url.
ViewsAgree ==
    Quiescent =>
        /\ \A s \in Sessions :
              connectionMap[s] # Null => connectionMap[s] \in RegisteredClients
        /\ clientCount = Cardinality(RegisteredClients)
        /\ \A u \in Urls :
              LET there == {c \in RegisteredClients : UrlOf[c] = u} IN
              IF there = {} THEN urlDataMap[u] = Null
              ELSE urlDataMap[u] # Null /\ udClients[urlDataMap[u]] = there

\* A slot is given back and a client disposed at most once, and only after
\* the client has left connection_map for good.
RemovedOnce ==
    \A c \in disposed :
        /\ ~Registered(c)
        /\ \A t \in Removers : ~HeldBy(t, c, {"uncount", "dispose"})

\* Every call returns: the retry loops end and no call waits for ever for a
\* url entry.
CallsReturn ==
    /\ \A c \in Clients : Adding(c) ~> ~Adding(c)
    /\ \A t \in Removers : removePc[t] # "idle" ~> removePc[t] = "idle"

-----------------------------------------------------------------------------
(* The registry implements Admission.                                      *)

Phase(c) ==
    CASE addPc[c] \in {"idle", "load", "cas"} -> "out"
      [] addPc[c] \in {"insert", "entry", "urlLoad", "urlCas"} -> "reserved"
      [] addPc[c] = "uncount" -> "rejected"
      [] addPc[c] = "push" \/ Registered(c)
         \/ \E t \in Removers : HeldBy(t, c, {"uncount"}) -> "member"
      [] \E t \in Removers :
            HeldBy(t, c, {"dispose", "getUrl", "urlUncount"}) -> "leaving"
      [] OTHER -> "gone"

Limits == INSTANCE Admission WITH phase <- [c \in Clients |-> Phase(c)]

\* The steps of the two calls, seen through Phase, are the atomic admissions
\* and departures of Admission.
ImplementsAdmission == Limits!Spec

=============================================================================
