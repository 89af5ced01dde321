------------------------------- MODULE Cluster -------------------------------
(***************************************************************************)
(* How the nodes of a cluster share the urls: hubserv/src/cluster.rs and   *)
(* cluster/src/client.rs.  Each node polls the published node list and     *)
(* takes the node at hash(url) % length as the one that serves the url.    *)
(* A request reaches any node through the cluster host and is served,      *)
(* redirected to the node's own host or refused; a message on a connection *)
(* checks again whose work the url is.                                     *)
(*                                                                         *)
(* The nodes' lists may differ from the published one and from each        *)
(* other's at any time.  Publishing is ClusterManager's; the registry      *)
(* behind /enter is Entrance's: here a request that is a node's work is    *)
(* connected at once, since enter does not look at the list again.         *)
(* Clients are outside the repository: they follow a redirect and may ask  *)
(* again.                                                                  *)
(***************************************************************************)
EXTENDS Naturals, Sequences, FiniteSets

CONSTANTS
    Nodes,         \* nodes; each stands for its cluster_node_host too
    ClusterHost,   \* the host all nodes share
    Clients,
    Urls,
    Hash,          \* to_hash of each url
    Lists,         \* node lists that get published, in the order EC2 answers
    None,          \* Option::None
    StartTries,    \* loads tried before the server starts
    MaxPublishes,  \* bound: changes of the published list
    MaxCrashes     \* bound: nodes that go down

ASSUME ClusterAssumption ==
    /\ ClusterHost \notin Nodes
    /\ Hash \in [Urls -> Nat]
    /\ Lists \subseteq Seq(Nodes)
    /\ None \notin Nodes \cup Lists
    /\ StartTries \in Nat \ {0}
    /\ MaxPublishes \in Nat /\ MaxCrashes \in Nat

VARIABLES
    published,  \* the node list at cluster_node_list_url
    publishes,
    phase,      \* each node: "down", "starting" or "serving"
    tries,      \* loads that failed while it starts
    nodeList,   \* Client.node_list
    fetched,    \* the list a load has got and not yet stored
    crashes,
    request,    \* each client's request or connection
    unsettled   \* history: requests during which nodes disagreed

nodeVars == <<phase, tries, nodeList, fetched, crashes>>
vars == <<published, publishes, nodeVars, request, unsettled>>

NoRequest == [pc |-> "idle", url |-> None, host |-> None, at |-> None, hops |-> 0]

Init ==
    /\ published \in Lists
    /\ publishes = 0
    /\ phase = [n \in Nodes |-> "starting"]
    /\ tries = [n \in Nodes |-> 0]
    /\ nodeList = [n \in Nodes |-> None]
    /\ fetched = [n \in Nodes |-> None]
    /\ crashes = 0
    /\ request = [c \in Clients |-> NoRequest]
    /\ unsettled = {}

Serving == {n \in Nodes : phase[n] = "serving"}

\* All nodes that serve have one and the same list, which is not empty.
Agree == \E l \in Lists \ {<<>>} : \A n \in Serving : nodeList[n] = l

InFlight == {c \in Clients : request[c].pc = "sent"}

-----------------------------------------------------------------------------
(* The client of the list                                                  *)

AssignedNode(n, url) ==
    IF nodeList[n] \in {None, <<>>} THEN None
    ELSE nodeList[n][(Hash[url] % Len(nodeList[n])) + 1]

IsMyWorkAlways(n, url) == TRUE  \* mutant
IsMyWork(n, url) == AssignedNode(n, url) = n

CanRedirectAlways(n, host) == TRUE          \* mutant
CanRedirectOwnHost(n, host) == host = n     \* mutant: the wrong one of the hosts
CanRedirect(n, host) == host = ClusterHost

-----------------------------------------------------------------------------
(* Loading the list                                                        *)

\* Another update of the manager (see ClusterManager)
Publish ==
    /\ publishes < MaxPublishes
    /\ publishes' = publishes + 1
    /\ published' \in Lists \ {published}
    /\ UNCHANGED <<nodeVars, request, unsettled>>

\* load_node_list: the GET and its answer
FetchList(n) ==
    /\ phase[n] # "down" /\ fetched[n] = None
    /\ fetched' = [fetched EXCEPT ![n] = published]
    /\ UNCHANGED <<published, publishes, phase, tries, nodeList, crashes, request, unsettled>>

\* mutant: a list of the same length is taken for the same list
SameLength(n) == nodeList[n] # None /\ Len(nodeList[n]) = Len(fetched[n])
SameList(n) == nodeList[n] = fetched[n]

\* The server starts after the first load that succeeds.
StoreList(n) ==
    /\ fetched[n] # None
    /\ fetched' = [fetched EXCEPT ![n] = None]
    /\ \/ SameList(n) /\ UNCHANGED nodeList
       \/ ~SameList(n) /\ nodeList' = [nodeList EXCEPT ![n] = fetched[n]]
    /\ phase' = [phase EXCEPT ![n] = "serving"]
    /\ unsettled' = IF <<nodeList', phase'>> = <<nodeList, phase>> THEN unsettled
                    ELSE unsettled \cup InFlight
    /\ UNCHANGED <<published, publishes, tries, crashes, request>>

GivesUp(n) == tries[n] + 1 = StartTries

\* A load fails while the node starts; the last one starts the server without
\* a list.  One that fails later changes nothing.
LoadFails(n) ==
    /\ phase[n] = "starting" /\ fetched[n] = None
    /\ tries' = [tries EXCEPT ![n] = @ + 1]
    /\ phase' = [phase EXCEPT ![n] = IF GivesUp(n) THEN "serving" ELSE @]
    /\ unsettled' = unsettled \cup InFlight
    /\ UNCHANGED <<published, publishes, nodeList, fetched, crashes, request>>

Closed(c) == [request[c] EXCEPT !.pc = "closed", !.at = None]

\* The process dies: its list and its connections are gone.
Crash(n) ==
    /\ phase[n] # "down"
    /\ crashes < MaxCrashes
    /\ crashes' = crashes + 1
    /\ phase' = [phase EXCEPT ![n] = "down"]
    /\ tries' = [tries EXCEPT ![n] = 0]
    /\ nodeList' = [nodeList EXCEPT ![n] = None]
    /\ fetched' = [fetched EXCEPT ![n] = None]
    /\ request' = [c \in Clients |->
                     IF request[c].at = n THEN Closed(c) ELSE request[c]]
    /\ unsettled' = unsettled \cup InFlight
    /\ UNCHANGED <<published, publishes>>

Restart(n) ==
    /\ phase[n] = "down"
    /\ phase' = [phase EXCEPT ![n] = "starting"]
    /\ UNCHANGED <<published, publishes, tries, nodeList, fetched, crashes, request, unsettled>>

-----------------------------------------------------------------------------
(* Requests                                                                *)

SetRequest(c, r) ==
    /\ request' = [request EXCEPT ![c] = r]
    /\ UNCHANGED <<published, publishes, nodeVars>>

\* A client asks, or asks again, by the cluster host, which stands for any node.
Send(c, url, n) ==
    /\ request[c].pc \in {"idle", "refused", "closed", "failed"}
    /\ SetRequest(c, [pc |-> "sent", url |-> url, host |-> ClusterHost, at |-> n, hops |-> 0])
    /\ unsettled' = IF Agree THEN unsettled \ {c} ELSE unsettled \cup {c}

\* redirect_if_needed at the node the request has reached
Handle(c) ==
    LET r == request[c]
        assigned == AssignedNode(r.at, r.url)
    IN /\ r.pc = "sent" /\ phase[r.at] = "serving"
       /\ \/ /\ IsMyWork(r.at, r.url)                             \* Worker::Me
             /\ SetRequest(c, [r EXCEPT !.pc = "connected"])
          \/ /\ ~IsMyWork(r.at, r.url) /\ assigned # None         \* Worker::Other
             /\ CanRedirect(r.at, r.host)
             /\ SetRequest(c, [r EXCEPT !.host = assigned, !.at = assigned, !.hops = @ + 1])
          \/ /\ ~IsMyWork(r.at, r.url)
             /\ assigned = None \/ ~CanRedirect(r.at, r.host)     \* Nothing, Other
             /\ SetRequest(c, [r EXCEPT !.pc = "refused", !.at = None])
       /\ UNCHANGED unsettled

\* The node does not serve (yet).
Unreachable(c) ==
    /\ request[c].pc = "sent" /\ phase[request[c].at] # "serving"
    /\ SetRequest(c, [request[c] EXCEPT !.pc = "failed", !.at = None])
    /\ UNCHANGED unsettled

\* on_message closes a connection that is not the node's work any more.
Message(c) ==
    /\ request[c].pc = "connected"
    /\ ~IsMyWork(request[c].at, request[c].url)
    /\ SetRequest(c, Closed(c))
    /\ UNCHANGED unsettled

LoadStep(n) == FetchList(n) \/ StoreList(n)
HandleStep(c) == Handle(c) \/ Unreachable(c)

Next ==
    \/ Publish
    \/ \E n \in Nodes : LoadStep(n) \/ LoadFails(n) \/ Crash(n) \/ Restart(n)
    \/ \E c \in Clients :
          \/ \E url \in Urls, n \in Nodes : Send(c, url, n)
          \/ HandleStep(c) \/ Message(c)

\* The loop loads the list every minute, systemd restarts the process, the
\* server answers.  A client that is connected sends its routing information
\* again and again, and one that is not keeps asking.
Fairness ==
    /\ \A n \in Nodes : WF_vars(LoadStep(n)) /\ WF_vars(Restart(n))
    /\ \A c \in Clients :
          /\ WF_vars(HandleStep(c)) /\ WF_vars(Message(c))
          /\ WF_vars(\E url \in Urls, n \in Nodes : Send(c, url, n))

SafeSpec == Init /\ [][Next]_vars
Spec == SafeSpec /\ Fairness

-----------------------------------------------------------------------------
(* Properties                                                              *)

\* A request is redirected once at most, even between nodes that take each
\* other for the url's: the host it then names is not the cluster's, and the
\* second node serves or refuses.
AtMostOneRedirect == \A c \in Clients : request[c].hops <= 1

\* A client is refused only when a node had no list, or two nodes different
\* ones, at some time since it asked.
RefusedOnlyOnDisagreement ==
    [][\A c \in Clients :
          request[c].pc = "sent" /\ request'[c].pc = "refused" => c \in unsettled]_vars

\* In the end all clients of a url are connected to one node: lists converge,
\* and messages close the connections that earlier lists have scattered.
ServedTogether ==
    <>[](\A c, d \in Clients :
            /\ request[c].pc = "connected" /\ request[d].pc = "connected"
            /\ request[c].url = request[d].url
            => request[c].at = request[d].at)

\* When the nodes of the published list serve for good, every client that
\* keeps asking is connected in the end and stays so.
AllServed ==
    <>[](published # <<>>
         /\ \A i \in DOMAIN published : published[i] \in Serving)
        => \A c \in Clients : <>[](request[c].pc = "connected")
=============================================================================
