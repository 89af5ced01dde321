-------------------------- MODULE RoutingInfoCache --------------------------
(***************************************************************************)
(* The routing-info cache of one UrlData (state/url_data.rs) and the       *)
(* exchange_routeing_info handler that fills and serves it (swarm.rs).     *)
(*                                                                         *)
(* A client sends what it knows; the server stores it in the ClientData,   *)
(* refreshes the shared cache when it is older than the update interval,   *)
(* and answers from the cache.  Handlers of several clients and removals   *)
(* run at the same time: the client list, each client's info and the cache *)
(* have a lock each, and a refresh takes them one after another.           *)
(***************************************************************************)
EXTENDS Naturals, Sequences, SequencesExt

CONSTANTS
    Clients,
    Interval,        \* ROUTING_INFO_UPDATE_INTERVAL_SECONDS
    RoutingInfoMax,  \* ROUTING_INFO_MAX
    MaxExchanges,    \* bound: exchanges per client
    MaxTime          \* bound: last second of the clock

ASSUME CacheAssumption ==
    /\ Interval \in Nat \ {0}
    /\ RoutingInfoMax \in Nat
    /\ MaxExchanges \in Nat
    /\ MaxTime \in Nat

VARIABLES
    clock,      \* get_now_sec()
    updated,    \* routing_info_updated
    clients,    \* the UrlData's client list, in order of arrival
    info,       \* ClientData.routing_info: its version, 0 is None
    cache,      \* routing_info: the version cached for a client, 0 is absent
    exchange,   \* the exchange handler of each client
    removal,    \* UrlData::remove_connection of each client
    purged      \* history: clients that were gone when the refresh that wrote
                \* the cache, or an earlier one, copied the client list

vars == <<clock, updated, clients, info, cache, exchange, removal, purged>>

NoInfo == [c \in Clients |-> 0]

\* now, seen: what the handler has read; todo: the clients left to read; got:
\* the infos read so far; listed, gone: history, the clients copied and the
\* clients gone when the list was copied.
Idle == [pc |-> "idle", now |-> 0, seen |-> 0, todo |-> <<>>, got |-> NoInfo,
         listed |-> {}, gone |-> {}]

Init ==
    /\ clock = Interval
    /\ updated = 0
    /\ \E c \in Clients : clients = <<c>>
    /\ info = NoInfo
    /\ cache = NoInfo
    /\ exchange = [c \in Clients |-> Idle]
    /\ removal = [c \in Clients |->
                    IF c = clients[1] THEN "member" ELSE "outside"]
    /\ purged = {}

Gone == {c \in Clients : removal[c] = "removed"}

-----------------------------------------------------------------------------
(* exchange_routeing_info of client c                                      *)

At(c, pc) == exchange[c].pc = pc

\* cd.set_routing_info(req); a handler that has begun outlives the removal of
\* its client.
SetRoutingInfo(c) ==
    /\ At(c, "idle")
    /\ removal[c] # "outside"
    /\ info[c] < MaxExchanges
    /\ info' = [info EXCEPT ![c] = @ + 1]
    /\ exchange' = [exchange EXCEPT ![c].pc = "clock"]
    /\ UNCHANGED <<clock, updated, clients, cache, removal, purged>>

ReadClock(c) ==
    /\ At(c, "clock")
    /\ exchange' = [exchange EXCEPT ![c].pc = "load", ![c].now = clock]
    /\ UNCHANGED <<clock, updated, clients, info, cache, removal, purged>>

LoadUpdated(c) ==
    /\ At(c, "load")
    /\ \/ /\ exchange[c].now < updated + Interval
          /\ exchange' = [exchange EXCEPT ![c].pc = "answer"]
       \/ /\ exchange[c].now >= updated + Interval
          /\ exchange' = [exchange EXCEPT ![c].pc = "cas", ![c].seen = updated]
    /\ UNCHANGED <<clock, updated, clients, info, cache, removal, purged>>

\* routing_info_updated is still what the handler loaded.
UnclaimedIgnored(c) == TRUE  \* mutant: store in place of compare_exchange
Unclaimed(c) == updated = exchange[c].seen

ClaimedAt(c) == exchange[c].now

\* The winner of the compare_exchange refreshes; the others use the cache.
ClaimRefresh(c) ==
    /\ At(c, "cas")
    /\ \/ /\ Unclaimed(c)
          /\ updated' = ClaimedAt(c)
          /\ exchange' = [exchange EXCEPT ![c].pc = "copy", ![c].seen = 0]
       \/ /\ ~Unclaimed(c)
          /\ exchange' = [exchange EXCEPT ![c].pc = "answer", ![c].seen = 0]
          /\ UNCHANGED updated
    /\ UNCHANGED <<clock, clients, info, cache, removal, purged>>

CopyClients(c) ==
    /\ At(c, "copy")
    /\ LET first == SubSeq(clients, 1, Min({Len(clients), RoutingInfoMax})) IN
       exchange' = [exchange EXCEPT ![c].pc = "collect",
                                    ![c].todo = first,
                                    ![c].listed = ToSet(first),
                                    ![c].gone = Gone]
    /\ UNCHANGED <<clock, updated, clients, info, cache, removal, purged>>

CollectInfo(c) ==
    /\ At(c, "collect")
    /\ exchange[c].todo # <<>>
    /\ LET d == Head(exchange[c].todo) IN
       exchange' = [exchange EXCEPT ![c].todo = Tail(@), ![c].got[d] = info[d]]
    /\ UNCHANGED <<clock, updated, clients, info, cache, removal, purged>>

\* mutant: merges into the old cache
CollectedMerged(c) ==
    [d \in Clients |-> IF cache[d] # 0 THEN cache[d] ELSE exchange[c].got[d]]
Collected(c) == exchange[c].got

WriteCache(c) ==
    /\ At(c, "collect")
    /\ exchange[c].todo = <<>>
    /\ cache' = Collected(c)
    /\ purged' = purged \cup exchange[c].gone
    /\ exchange' = [exchange EXCEPT ![c].pc = "answer", ![c].got = NoInfo,
                                    ![c].gone = {}]
    /\ UNCHANGED <<clock, updated, clients, info, removal>>

\* get_routing_info and the answer
AnswerExchange(c) ==
    /\ At(c, "answer")
    /\ exchange' = [exchange EXCEPT ![c] = Idle]
    /\ UNCHANGED <<clock, updated, clients, info, cache, removal, purged>>

ExchangeStep(c) ==
    \/ SetRoutingInfo(c) \/ ReadClock(c) \/ LoadUpdated(c) \/ ClaimRefresh(c)
    \/ CopyClients(c) \/ CollectInfo(c) \/ WriteCache(c) \/ AnswerExchange(c)

-----------------------------------------------------------------------------
(* Clients come and go                                                     *)

AddConnection(c) ==
    /\ removal[c] = "outside"
    /\ clients' = Append(clients, c)
    /\ removal' = [removal EXCEPT ![c] = "member"]
    /\ UNCHANGED <<clock, updated, info, cache, exchange, purged>>

\* A client is listed once: its session has one ClientData (see Registry).
Without(list, c) == RemoveAt(list, CHOOSE i \in DOMAIN list : list[i] = c)

\* clients.retain(..), then routing_info's infos.retain(..)
RetainClients(c) ==
    /\ removal[c] = "member"
    /\ clients' = Without(clients, c)
    /\ removal' = [removal EXCEPT ![c] = "retain"]
    /\ UNCHANGED <<clock, updated, info, cache, exchange, purged>>

RetainInfos(c) ==
    /\ removal[c] = "retain"
    /\ cache' = [cache EXCEPT ![c] = 0]
    /\ removal' = [removal EXCEPT ![c] = "removed"]
    /\ UNCHANGED <<clock, updated, clients, info, exchange, purged>>

\* An exchange handler does not await before its answer: it is assumed to
\* take less than the update interval.
Tick ==
    /\ clock < MaxTime
    /\ \A c \in Clients :
          exchange[c].pc \in {"load", "cas", "copy", "collect", "answer"} =>
              clock + 1 < exchange[c].now + Interval
    /\ clock' = clock + 1
    /\ UNCHANGED <<updated, clients, info, cache, exchange, removal, purged>>

Next ==
    \/ Tick
    \/ \E c \in Clients :
          ExchangeStep(c) \/ AddConnection(c) \/ RetainClients(c) \/ RetainInfos(c)

Spec == Init /\ [][Next]_vars

-----------------------------------------------------------------------------
(* Properties                                                              *)

\* Every variable has its type.
TypeOK ==
    /\ clock \in Interval .. MaxTime
    /\ updated \in 0 .. MaxTime
    /\ clients \in Seq(Clients)
    /\ info \in [Clients -> 0 .. MaxExchanges]
    /\ cache \in [Clients -> 0 .. MaxExchanges]
    /\ exchange \in [Clients ->
          [pc : {"idle", "clock", "load", "cas", "copy", "collect", "answer"},
           now : 0 .. MaxTime, seen : 0 .. MaxTime, todo : Seq(Clients),
           got : [Clients -> 0 .. MaxExchanges], listed : SUBSET Clients,
           gone : SUBSET Clients]]
    /\ removal \in [Clients -> {"outside", "member", "retain", "removed"}]
    /\ purged \subseteq Clients

\* However many handlers find the cache old at once, refreshes start at least
\* Interval apart: check and claim are two steps, the clock a third.
RefreshesAreSpaced == [][updated' # updated => updated' >= updated + Interval]_updated

\* The client whose exchange refreshed the cache is answered with its own
\* newest info in it, unless it is being removed or the list was cut short.
OwnInfoServed ==
    \A c \in Clients :
        At(c, "answer") /\ c \in exchange[c].listed /\ removal[c] = "member"
        => cache[c] = info[c]

\* A client that has left can linger in the cache when its removal overlapped
\* a refresh, but never beyond the next refresh.
PurgedStayGone == \A c \in purged : cache[c] = 0

\* A removed client is not served any more (url_data.rs:272-273).
RemovedNotServed == \A c \in Gone : cache[c] = 0
=============================================================================
