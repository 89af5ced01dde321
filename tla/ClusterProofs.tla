---------------------------- MODULE ClusterProofs ----------------------------
(***************************************************************************)
(* AtMostOneRedirect and RefusedOnlyOnDisagreement for all nodes, clients, *)
(* urls and node lists.                                                    *)
(***************************************************************************)
EXTENDS Cluster, TLAPS

Requests ==
    [pc : {"idle", "sent", "connected", "refused", "closed", "failed"},
     url : Urls \cup {None}, host : Nodes \cup {ClusterHost, None},
     at : Nodes \cup {None}, hops : Nat]

ClusterTypeOK ==
    /\ published \in Lists
    /\ phase \in [Nodes -> {"down", "starting", "serving"}]
    /\ nodeList \in [Nodes -> Lists \cup {None}]
    /\ fetched \in [Nodes -> Lists \cup {None}]
    /\ request \in [Clients -> Requests]

\* A request that names the cluster host has not been redirected, and one that
\* has been names a node.
HostTellsHops ==
    \A c \in Clients :
        /\ request[c].hops <= 1
        /\ request[c].pc = "sent" =>
              /\ request[c].url \in Urls /\ request[c].at \in Nodes
              /\ request[c].host = ClusterHost => request[c].hops = 0

\* The node that serves the url by list l
ServedBy(l, url) == l[(Hash[url] % Len(l)) + 1]

\* While a request is under way and no list changes, one list rules all nodes
\* that serve, and a redirected request is at the node it assigns.
SettledRequestsAgree ==
    \A c \in Clients :
        request[c].pc = "sent" /\ c \notin unsettled =>
            \E l \in Lists \ {<<>>} :
                /\ \A n \in Serving : nodeList[n] = l
                /\ request[c].host # ClusterHost =>
                      request[c].at = ServedBy(l, request[c].url)

ClusterIInv == ClusterTypeOK /\ HostTellsHops /\ SettledRequestsAgree

\* A list that is not empty assigns each url to a node.
LEMMA ServedByIsNode ==
    ASSUME NEW l \in Lists \ {<<>>}, NEW url \in Urls
    PROVE  ServedBy(l, url) \in Nodes
<1>1. l \in Seq(Nodes) /\ Len(l) \in Nat \ {0} /\ Hash[url] \in Nat
    BY ClusterAssumption
<1>2. (Hash[url] % Len(l)) + 1 \in 1 .. Len(l)
    BY <1>1
<1> QED
    BY <1>1, <1>2 DEF ServedBy

\* AssignedNode is ServedBy of the node's own list.
LEMMA AssignedIsServedBy ==
    ASSUME ClusterTypeOK, NEW n \in Nodes, NEW url \in Urls
    PROVE  \/ AssignedNode(n, url) = None
           \/ /\ nodeList[n] \in Lists \ {<<>>}
              /\ AssignedNode(n, url) = ServedBy(nodeList[n], url)
              /\ AssignedNode(n, url) \in Nodes
BY ServedByIsNode, ClusterAssumption DEF AssignedNode, ServedBy, ClusterTypeOK

\* No node serves and no client has asked.
LEMMA ClusterInitial == Init => ClusterIInv
BY ClusterAssumption DEF Init, ClusterIInv, ClusterTypeOK, HostTellsHops,
       SettledRequestsAgree, NoRequest, Requests

\* A node that changes what it serves by unsettles every request under way,
\* and a crash closes the connections of its node.
LEMMA NodesKeep ==
    ASSUME ClusterIInv,
           Publish \/ \E n \in Nodes : LoadStep(n) \/ LoadFails(n) \/ Crash(n) \/ Restart(n)
    PROVE  ClusterIInv'
<1> USE ClusterAssumption DEF ClusterIInv, nodeVars
<1>1. CASE Publish \/ \E n \in Nodes : FetchList(n)
    <2>1. UNCHANGED <<phase, nodeList, request, unsettled>>
        BY <1>1 DEF Publish, FetchList
    <2>2. ClusterTypeOK'
        BY <1>1 DEF Publish, FetchList, ClusterTypeOK
    <2> QED
        BY <2>1, <2>2 DEF HostTellsHops, SettledRequestsAgree, Serving
<1>2. ASSUME NEW n \in Nodes, StoreList(n) PROVE ClusterIInv'
    <2>1. ClusterTypeOK'
        BY <1>2 DEF StoreList, ClusterTypeOK
    <2>2. HostTellsHops'
        BY <1>2 DEF StoreList, HostTellsHops
    <2>3. CASE <<nodeList', phase'>> = <<nodeList, phase>>
        BY <1>2, <2>1, <2>2, <2>3 DEF StoreList, SettledRequestsAgree, Serving
    <2>4. CASE <<nodeList', phase'>> # <<nodeList, phase>>
        BY <1>2, <2>1, <2>2, <2>4 DEF StoreList, SettledRequestsAgree, InFlight
    <2> QED
        BY <2>3, <2>4
<1>3. ASSUME NEW n \in Nodes, LoadFails(n) PROVE ClusterIInv'
    BY <1>3 DEF LoadFails, ClusterTypeOK, HostTellsHops, SettledRequestsAgree, InFlight
<1>4. ASSUME NEW n \in Nodes, Crash(n) PROVE ClusterIInv'
    <2>1. \A c \in Clients :
             \/ request'[c] = request[c]
             \/ request'[c] = Closed(c)
        BY <1>4 DEF Crash
    <2>2. \A c \in Clients :
             /\ Closed(c) \in Requests /\ Closed(c).pc = "closed"
             /\ Closed(c).hops = request[c].hops
        BY DEF Closed, ClusterTypeOK, Requests
    <2>3. request' \in [Clients -> Requests]
        BY <1>4, <2>1, <2>2 DEF Crash, ClusterTypeOK
    <2>4. ClusterTypeOK'
        BY <1>4, <2>3 DEF Crash, ClusterTypeOK
    <2>5. HostTellsHops'
        BY <2>1, <2>2 DEF HostTellsHops
    <2>6. SettledRequestsAgree'
        BY <1>4, <2>1, <2>2 DEF Crash, SettledRequestsAgree, InFlight
    <2> QED
        BY <2>4, <2>5, <2>6
<1>5. ASSUME NEW n \in Nodes, Restart(n) PROVE ClusterIInv'
    <2>1. Serving' = Serving
        BY <1>5 DEF Restart, Serving, ClusterTypeOK
    <2>2. ClusterTypeOK'
        BY <1>5 DEF Restart, ClusterTypeOK
    <2> QED
        BY <1>5, <2>1, <2>2 DEF Restart, HostTellsHops, SettledRequestsAgree
<1> QED
    BY <1>1, <1>2, <1>3, <1>4, <1>5 DEF LoadStep

\* A redirect names the node that the list of the redirecting node assigns.
LEMMA HandleKeeps ==
    ASSUME ClusterIInv, NEW c \in Clients, Handle(c)
    PROVE  /\ ClusterIInv'
           /\ request'[c].pc = "refused" => c \in unsettled
<1> USE ClusterAssumption DEF ClusterIInv
<1> DEFINE r == request[c]
<1> DEFINE assigned == AssignedNode(r.at, r.url)
<1>1. /\ r.pc = "sent" /\ r \in Requests /\ r.url \in Urls /\ r.at \in Nodes
      /\ r.at \in Serving /\ r.hops \in Nat
      /\ UNCHANGED <<published, phase, nodeList, fetched, unsettled>>
      /\ Serving' = Serving
    BY DEF Handle, SetRequest, nodeVars, Serving, ClusterTypeOK, HostTellsHops, Requests
<1>2. \/ assigned = None
      \/ /\ nodeList[r.at] \in Lists \ {<<>>} /\ assigned \in Nodes
         /\ assigned = ServedBy(nodeList[r.at], r.url)
    BY <1>1, AssignedIsServedBy
<1>3. ASSUME NEW q \in Requests, request' = [request EXCEPT ![c] = q], q.hops <= 1,
             q.pc # "sent"
      PROVE  ClusterIInv'
    <2>1. ClusterTypeOK'
        BY <1>1, <1>3 DEF ClusterTypeOK
    <2>2. request'[c] = q /\ \A d \in Clients \ {c} : request'[d] = request[d]
        BY <1>3 DEF ClusterTypeOK
    <2>3. HostTellsHops'
        BY <1>3, <2>2 DEF HostTellsHops
    <2>4. SettledRequestsAgree'
        BY <1>1, <1>3, <2>2 DEF SettledRequestsAgree
    <2> QED
        BY <2>1, <2>3, <2>4
<1>4. r.hops <= 1
    BY DEF HostTellsHops
<1>5. CASE request' = [request EXCEPT ![c] = [r EXCEPT !.pc = "connected"]]
    <2> DEFINE q == [r EXCEPT !.pc = "connected"]
    <2>1. q \in Requests /\ q.pc = "connected" /\ q.hops <= 1
        BY <1>1, <1>4 DEF Requests
    <2> HIDE DEF q
    <2>2. ClusterIInv'
        BY <1>3, <1>5, <2>1 DEF q
    <2> QED
        BY <1>1, <1>5, <2>2 DEF ClusterTypeOK
<1>6. CASE /\ assigned # None /\ CanRedirect(r.at, r.host)
           /\ request' = [request EXCEPT ![c] =
                 [r EXCEPT !.host = assigned, !.at = assigned, !.hops = @ + 1]]
    <2> DEFINE q == [r EXCEPT !.host = assigned, !.at = assigned, !.hops = @ + 1]
    <2>1. r.host = ClusterHost /\ r.hops = 0
        BY <1>1, <1>6 DEF CanRedirect, HostTellsHops
    <2>2. /\ q \in Requests /\ q.pc = "sent" /\ q.url = r.url /\ q.host = assigned
          /\ q.at = assigned /\ q.hops = 1
        <3>1. PICK a \in Nodes : a = assigned
            BY <1>2, <1>6
        <3>2. r \in Requests /\ r.pc = "sent" /\ r.hops = 0
            BY <1>1, <2>1
        <3> HIDE DEF r
        <3>3. r.hops + 1 = 1
            BY <3>2
        <3>4. q = [r EXCEPT !.host = a, !.at = a, !.hops = 1]
            BY <3>1, <3>3
        <3> HIDE DEF q
        <3>5. /\ q.pc = r.pc /\ q.url = r.url /\ q.host = a /\ q.at = a /\ q.hops = 1
              /\ q \in Requests
            BY <3>2, <3>4 DEF Requests
        <3> QED
            BY <3>1, <3>2, <3>5
    <2>3. request'[c] = q /\ \A d \in Clients \ {c} : request'[d] = request[d]
        BY <1>6 DEF ClusterTypeOK
    <2> HIDE DEF q
    <2>4. ClusterTypeOK'
        BY <1>1, <1>6, <2>2, <2>3 DEF ClusterTypeOK, q
    <2>5. assigned \in Nodes /\ assigned # ClusterHost
        BY <1>2, <1>6
    <2>6. HostTellsHops'
        BY <1>1, <2>2, <2>3, <2>5 DEF HostTellsHops
    <2>7. ASSUME c \notin unsettled
          PROVE  \E l \in Lists \ {<<>>} :
                    (\A n \in Serving : nodeList[n] = l) /\ q.at = ServedBy(l, q.url)
        BY <1>1, <1>2, <1>6, <2>2, <2>7 DEF SettledRequestsAgree
    <2>8. SettledRequestsAgree'
        BY <1>1, <2>3, <2>7 DEF SettledRequestsAgree
    <2> QED
        BY <2>2, <2>3, <2>4, <2>6, <2>8
<1>7. CASE /\ ~IsMyWork(r.at, r.url) /\ (assigned = None \/ ~CanRedirect(r.at, r.host))
           /\ request' = [request EXCEPT ![c] = [r EXCEPT !.pc = "refused", !.at = None]]
    <2> DEFINE q == [r EXCEPT !.pc = "refused", !.at = None]
    <2>1. q \in Requests /\ q.pc = "refused" /\ q.hops <= 1
        BY <1>1, <1>4 DEF Requests
    <2> HIDE DEF q
    <2>2. ClusterIInv'
        <3>1. request' = [request EXCEPT ![c] = q]
            BY <1>7 DEF q
        <3> QED
            BY <1>3, <2>1, <3>1
    <2>3. ASSUME c \notin unsettled PROVE FALSE
        <3>1. PICK l \in Lists \ {<<>>} :
                 /\ \A n \in Serving : nodeList[n] = l
                 /\ r.host # ClusterHost => r.at = ServedBy(l, r.url)
            BY <1>1, <2>3 DEF SettledRequestsAgree
        <3>2. nodeList[r.at] = l /\ assigned = ServedBy(l, r.url)
            BY <1>1, <3>1, ClusterAssumption DEF AssignedNode, ServedBy
        <3>3. assigned \in Nodes
            BY <1>1, <3>2, ServedByIsNode
        <3> QED
            BY <1>7, <3>1, <3>2, <3>3 DEF CanRedirect, IsMyWork
    <2> QED
        BY <2>2, <2>3
<1> QED
    BY <1>5, <1>6, <1>7 DEF Handle, SetRequest

\* What clients do, and what happens to a connection, sends no request on.
LEMMA ClientsKeep ==
    ASSUME ClusterIInv, NEW c \in Clients,
           \/ \E url \in Urls, n \in Nodes : Send(c, url, n)
           \/ Unreachable(c) \/ Message(c)
    PROVE  ClusterIInv' /\ request'[c].pc # "refused"
<1> USE ClusterAssumption DEF ClusterIInv
<1>1. /\ UNCHANGED <<published, phase, nodeList, fetched>> /\ Serving' = Serving
      /\ \A d \in Clients \ {c} : d \in unsettled <=> d \in unsettled'
    BY DEF Send, Unreachable, Message, SetRequest, nodeVars, Serving
<1>2. ASSUME NEW q \in Requests, request' = [request EXCEPT ![c] = q], q.hops <= 1,
             q.pc = "sent" =>
                /\ q.url \in Urls /\ q.at \in Nodes
                /\ q.host = ClusterHost /\ q.hops = 0
                /\ c \in unsettled' \/ Agree,
             q.pc # "refused"
      PROVE  ClusterIInv' /\ request'[c].pc # "refused"
    <2>1. ClusterTypeOK'
        BY <1>1, <1>2 DEF ClusterTypeOK
    <2>2. request'[c] = q /\ \A d \in Clients \ {c} : request'[d] = request[d]
        BY <1>2 DEF ClusterTypeOK
    <2>3. HostTellsHops'
        BY <1>2, <2>2 DEF HostTellsHops
    <2>4. SettledRequestsAgree'
        BY <1>1, <1>2, <2>2 DEF SettledRequestsAgree, Agree
    <2> QED
        BY <1>2, <2>1, <2>2, <2>3, <2>4
<1>3. ASSUME NEW url \in Urls, NEW n \in Nodes, Send(c, url, n)
      PROVE  ClusterIInv' /\ request'[c].pc # "refused"
    <2> DEFINE q == [pc |-> "sent", url |-> url, host |-> ClusterHost, at |-> n, hops |-> 0]
    <2>1. /\ request' = [request EXCEPT ![c] = q]
          /\ unsettled' = IF Agree THEN unsettled \ {c} ELSE unsettled \cup {c}
        BY <1>3 DEF Send, SetRequest
    <2>2. /\ q \in Requests /\ q.pc = "sent" /\ q.url = url /\ q.at = n
          /\ q.host = ClusterHost /\ q.hops = 0
        BY DEF Requests
    <2> HIDE DEF q
    <2>3. c \in unsettled' \/ Agree
        BY <2>1
    <2>4. request' = [request EXCEPT ![c] = q] /\ q.hops <= 1 /\ q.pc # "refused"
        BY <2>1, <2>2 DEF q
    <2> QED
        BY <1>2, <2>2, <2>3, <2>4
<1>4. CASE Unreachable(c) \/ Message(c)
    <2> DEFINE f == [request[c] EXCEPT !.pc = "failed", !.at = None]
    <2>1. request' = [request EXCEPT ![c] = f] \/ request' = [request EXCEPT ![c] = Closed(c)]
        BY <1>4 DEF Unreachable, Message, SetRequest
    <2>2. /\ f \in Requests /\ Closed(c) \in Requests
          /\ f.pc = "failed" /\ Closed(c).pc = "closed" /\ f.hops <= 1 /\ Closed(c).hops <= 1
        BY DEF Requests, ClusterTypeOK, Closed, HostTellsHops
    <2> QED
        BY <1>2, <2>1, <2>2
<1> QED
    BY <1>3, <1>4

\* Every step keeps the invariant.
LEMMA ClusterStep == ClusterIInv /\ [Next]_vars => ClusterIInv'
<1> SUFFICES ASSUME ClusterIInv, [Next]_vars PROVE ClusterIInv'
    OBVIOUS
<1>1. CASE UNCHANGED vars
    BY <1>1 DEF vars, nodeVars, ClusterIInv, ClusterTypeOK, HostTellsHops,
                SettledRequestsAgree, Serving
<1>2. CASE Next
    BY <1>2, NodesKeep, HandleKeeps, ClientsKeep DEF Next, HandleStep
<1> QED
    BY <1>1, <1>2

\* However the lists of the nodes differ, a request is redirected once at most.
THEOREM RedirectsAreBounded == SafeSpec => []AtMostOneRedirect
<1>1. ClusterIInv => AtMostOneRedirect
    BY DEF ClusterIInv, HostTellsHops, AtMostOneRedirect
<1> QED
    BY <1>1, ClusterInitial, ClusterStep, PTL DEF SafeSpec

\* A client is refused only if the nodes' lists differed, or one was missing,
\* while it asked.
THEOREM RefusalsHaveAReason == SafeSpec => RefusedOnlyOnDisagreement
<1> DEFINE Refused ==
        \A c \in Clients :
           request[c].pc = "sent" /\ request'[c].pc = "refused" => c \in unsettled
<1>1. ASSUME ClusterIInv, [Next]_vars PROVE [Refused]_vars
    <2>1. CASE UNCHANGED vars
        BY <2>1
    <2>2. CASE Publish \/ \E n \in Nodes : LoadStep(n) \/ LoadFails(n) \/ Crash(n) \/ Restart(n)
        <3>1. \A c \in Clients : request'[c] = request[c] \/ request'[c] = Closed(c)
            BY <2>2 DEF Publish, LoadStep, FetchList, StoreList, LoadFails, Crash, Restart
        <3>2. \A c \in Clients : Closed(c).pc = "closed"
            BY <1>1 DEF Closed, ClusterIInv, ClusterTypeOK, Requests
        <3> QED
            BY <3>1, <3>2
    <2>3. ASSUME NEW c \in Clients,
                 \/ \E url \in Urls, n \in Nodes : Send(c, url, n)
                 \/ HandleStep(c) \/ Message(c)
          PROVE  Refused
        <3>1. \A d \in Clients \ {c} : request'[d] = request[d]
            BY <1>1, <2>3 DEF Send, HandleStep, Handle, Unreachable, Message, SetRequest,
                              ClusterIInv, ClusterTypeOK
        <3>2. request'[c].pc = "refused" => c \in unsettled
            BY <1>1, <2>3, HandleKeeps, ClientsKeep DEF HandleStep
        <3> QED
            BY <3>1, <3>2
    <2> QED
        BY <1>1, <2>1, <2>2, <2>3 DEF Next
<1> QED
    BY <1>1, ClusterInitial, ClusterStep, PTL DEF SafeSpec, RefusedOnlyOnDisagreement
=============================================================================
