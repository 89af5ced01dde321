---------------------------- MODULE RegistryInv -----------------------------
(***************************************************************************)
(* The inductive invariant of Registry under its contract, in named parts. *)
(* TLC checks it on small instances; RegistryProofs proves it.             *)
(***************************************************************************)
EXTENDS Registry

\* What a call has read or looked up at each of its program counters.
LocalInv ==
    /\ \A c \in Clients :
          /\ addPc[c] = "cas" => addSeen[c] < MaxConnections
          /\ addPc[c] = "urlCas" => addSeen[c] < MaxByUrl
          /\ addPc[c] \in {"urlLoad", "urlCas", "push"} => addUd[c] \in Clients
    /\ \A t \in Removers :
          /\ removePc[t] = "idle" <=> removeSession[t] = Null
          /\ removePc[t] \in {"idle", "lookup"} <=> removeClient[t] = Null
          /\ removePc[t] \in {"urlUncount", "retain"} => removeUd[t] \in Clients

TypeInv == TypeOK /\ LocalInv

BeforeInsert == {"load", "cas", "insert"}
AfterInsert == {"entry", "urlLoad", "urlCas", "push", "uncount", "unmap"}

\* Calls for one session do not overlap, and connection_map follows them.
SessionInv ==
    /\ \A c, d \in Clients :
          Adding(c) /\ Adding(d) /\ SessionOf[c] = SessionOf[d] => c = d
    /\ \A c \in Clients : \A t \in Removers :
          Adding(c) => ~Removing(t, SessionOf[c])
    /\ \A c \in Clients :
          /\ addPc[c] \in BeforeInsert => connectionMap[SessionOf[c]] = Null
          /\ addPc[c] \in AfterInsert => connectionMap[SessionOf[c]] = c
    /\ \A s \in Sessions :
          connectionMap[s] # Null =>
              /\ SessionOf[connectionMap[s]] = s
              /\ addPc[connectionMap[s]] \in AfterInsert \cup {"added"}

\* A removal owns the client it took: it was added, its session is free, and
\* no other removal has it.
RemovalInv ==
    /\ \A t \in Removers :
          removeClient[t] # Null =>
              /\ SessionOf[removeClient[t]] = removeSession[t]
              /\ addPc[removeClient[t]] = "added"
              /\ connectionMap[removeSession[t]] = Null
    /\ \A t, r \in Removers :
          removeClient[t] = removeClient[r] => t = r \/ removeClient[t] = Null

\* client_count counts the slot holders and stays below the limit.
SlotInv ==
    /\ IsFiniteSet(SlotHolders)
    /\ SlotsAccounted
    /\ clientCount <= MaxConnections

CallInv == TypeInv /\ SessionInv /\ RemovalInv

\* What an add or a removal knows about the UrlData it works on: the entry is
\* locked, the UrlData is still the one in the map.
EntryInv ==
    /\ \A c \in Clients :
          addPc[c] \in {"urlLoad", "urlCas", "push"} =>
              urlLock[UrlOf[c]] = c /\ addUd[c] = urlDataMap[UrlOf[c]]
    /\ \A u \in Urls : urlDataMap[u] # Null => UrlOf[urlDataMap[u]] = u
    /\ \A t \in Removers :
          removePc[t] = "urlUncount" =>
              removeUd[t] = urlDataMap[UrlOf[removeClient[t]]]

\* The count of a mapped UrlData counts the url's slot holders, and a url
\* without UrlData has none.
UrlCountOk(u) ==
    /\ IsFiniteSet(UrlSlotHolders(u))
    /\ urlDataMap[u] = Null => UrlSlotHolders(u) = {}
    /\ urlDataMap[u] # Null =>
          /\ udClientCount[urlDataMap[u]] = Cardinality(UrlSlotHolders(u))
          /\ udClientCount[urlDataMap[u]] <= MaxByUrl

UrlCountInv == \A u \in Urls : UrlCountOk(u)

UrlInv == EntryInv /\ UrlCountInv /\ UrlDataReachable /\ EmptyUrlDataHasReaper

\* The clients a mapped UrlData lists are of its url, and each is registered or
\* its removal has yet to unlist it; a removal that is about to retain either
\* has the UrlData in the map or finds its client unlisted there.
ListedInv ==
    /\ \A c \in Clients : \A u \in Urls :
          urlDataMap[u] # Null /\ c \in udClients[urlDataMap[u]] =>
              /\ UrlOf[c] = u
              /\ \/ Registered(c)
                 \/ \E t \in Removers :
                       HeldBy(t, c, {"uncount", "dispose", "getUrl",
                                     "urlUncount", "retain"})
    /\ \A t \in Removers :
          removePc[t] = "retain" =>
              LET d == urlDataMap[UrlOf[removeClient[t]]] IN
              d = Null \/ d = removeUd[t] \/ removeClient[t] \notin udClients[d]

\* A disposed client was added, and neither connection_map nor a removal that
\* has yet to free its slot has it.
DisposedInv ==
    \A c \in disposed :
        /\ addPc[c] = "added"
        /\ connectionMap[SessionOf[c]] # c
        /\ \A t \in Removers : ~HeldBy(t, c, {"uncount", "dispose"})

\* Only clients that were added are listed, in whatever UrlData.
ListedAreAdded ==
    \A d \in Clients : \A c \in udClients[d] : addPc[c] = "added"

\* Whoever overlaps with whom, a client is entered into connection_map once,
\* under its own session, and one removal at most takes it out: until then no
\* removal has it and nothing has disposed it, and afterwards it is out of the
\* map for good.  No part of this needs the contract.
OwnershipInv ==
    /\ \A s \in Sessions :
          connectionMap[s] # Null => SessionOf[connectionMap[s]] = s
    /\ \A c \in Clients :
          addPc[c] \in BeforeInsert \cup {"idle"} =>
              /\ connectionMap[SessionOf[c]] # c
              /\ \A t \in Removers : removeClient[t] # c
              /\ c \notin disposed
    /\ \A t \in Removers :
          removeClient[t] # Null =>
              /\ SessionOf[removeClient[t]] = removeSession[t]
              /\ connectionMap[removeSession[t]] # removeClient[t]
    /\ \A t, r \in Removers :
          removeClient[t] = removeClient[r] => t = r \/ removeClient[t] = Null
    /\ \A c \in disposed :
          /\ connectionMap[SessionOf[c]] # c
          /\ \A t \in Removers : ~HeldBy(t, c, {"uncount", "dispose"})

\* The first three parts say why no counter is wrong, the next why no client
\* loses its UrlData, the others why nothing of a removed client stays.
IndInv ==
    /\ CallInv /\ SlotInv /\ UrlInv
    /\ ListedInv /\ DisposedInv /\ ListedAreAdded /\ OwnershipInv
=============================================================================
