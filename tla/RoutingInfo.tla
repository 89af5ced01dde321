----------------------------- MODULE RoutingInfo -----------------------------
(***************************************************************************)
(* The algorithms on routing information (proto/src/routing_info_ex.rs).   *)
(* A RoutingInfo is a tree of sessions and what they are related to; the   *)
(* algorithms take one tree or several.                                    *)
(*                                                                         *)
(* A forest is a function from numbers to nodes.  A node names its parent, *)
(* 0 for a root; siblings come in the order of their numbers.  A relation  *)
(* is a count (then the node has no children) or the children; no relation *)
(* and an empty list of children are told apart nowhere in the algorithms. *)
(* Positions, gateway states and lock-ons are left out.                    *)
(*                                                                         *)
(* Ttls are at least 1, as get_known_gateway_session_ids_next_ttl sends    *)
(* them (RumoursFade), so that "ttl - 1" does not wrap.                    *)
(***************************************************************************)
EXTENDS Naturals, Sequences, FiniteSets

CONSTANTS
    Sids,      \* session ids
    Types,     \* the node types that occur
    Counts,    \* counts that occur as relations
    Knowns,    \* lists of known gateways that occur, as received
    None,      \* Option::None
    MaxNodes   \* bound: nodes of the forest

InitialTtl == 6

ASSUME RoutingInfoAssumption ==
    /\ Types \subseteq {"Normal", "Gateway", "Tracker", "Unspecified"}
    /\ Counts \subseteq Nat
    /\ Knowns \subseteq Seq([sid : Sids, ttl : 1 .. InitialTtl - 1])
    /\ None \notin Sids \cup Nat
    /\ MaxNodes \in Nat

VARIABLE forest

\* A set of nodes in the order of their numbers
InOrder(S) ==
    LET upTo[n \in 0 .. MaxNodes] ==
            IF n = 0 THEN <<>>
            ELSE IF n \in S THEN Append(upTo[n - 1], n)
            ELSE upTo[n - 1]
    IN upTo[MaxNodes]

Below(t, i) == {j \in DOMAIN t : t[j].parent = i}
Roots(t) == InOrder(Below(t, 0))
Children(t, i) == InOrder(Below(t, i))

-----------------------------------------------------------------------------
(* RoutingInfoRecursiveIteratorWithDepth: the nodes with their depths      *)

EnqueueFront(queue, ds) == ds \o queue  \* mutant: depth first
Enqueue(queue, ds) == queue \o ds

Visits(is, depth) == [k \in 1 .. Len(is) |-> [node |-> is[k], depth |-> depth]]

\* What has been visited and what is queued after so many calls of next
WalkSteps(t, roots) ==
    LET step[k \in 0 .. Cardinality(DOMAIN t)] ==
            IF k = 0 THEN [out |-> <<>>, queue |-> Visits(roots, 0)]
            ELSE LET s == step[k - 1] IN
                 IF s.queue = <<>> THEN s
                 ELSE LET cur == Head(s.queue) IN
                      [out |-> Append(s.out, cur),
                       queue |-> Enqueue(Tail(s.queue),
                                         Visits(Children(t, cur.node), cur.depth + 1))]
    IN step

Walk(t, roots) == WalkSteps(t, roots)[Cardinality(DOMAIN t)].out

\* recursive_iter: without the depths
WalkNodes(t) == LET w == Walk(t, Roots(t)) IN [k \in 1 .. Len(w) |-> t[w[k].node]]

Nearest(depths) ==
    IF depths = {} THEN None ELSE CHOOSE d \in depths : \A e \in depths : d <= e

\* get_min_depth of a tree: the visits to the session, sorted by depth
MinDepth(t, root, sid) ==
    LET w == Walk(t, <<root>>)
        depths == {w[k].depth : k \in {l \in 1 .. Len(w) : t[w[l].node].sid = sid}}
    IN Nearest(depths)

IsKnown(t, root, sid) ==
    LET w == Walk(t, <<root>>) IN \E k \in 1 .. Len(w) : t[w[k].node].sid = sid

-----------------------------------------------------------------------------
(* to_send_data                                                            *)

RelationCount(t, i) ==
    IF t[i].count # None THEN t[i].count ELSE Len(Children(t, i))

SentTypesAll == {"Normal", "Gateway", "Tracker", "Unspecified"}  \* mutant
SentTypes == {"Normal", "Gateway"}

\* The tree under root down to a depth: the levels below the root keep normal
\* nodes and gateways; what lies below the last is replaced by its count.
SentLevels(t, root, depth) ==
    LET level[d \in 0 .. depth] ==
            IF d = 0 THEN {root}
            ELSE {j \in DOMAIN t : t[j].parent \in level[d - 1] /\ t[j].type \in SentTypes}
    IN level

SendData(t, root, depth) ==
    LET level == SentLevels(t, root, depth) IN
       [j \in UNION {level[d] : d \in 0 .. depth} |->
          [t[j] EXCEPT !.parent = IF j = root THEN 0 ELSE @,
                       !.known = <<>>,
                       !.count = IF j \in level[depth] THEN RelationCount(t, j) ELSE @]]

-----------------------------------------------------------------------------
(* get_known_gateway_session_ids                                           *)

RumourTtlKept(ttl) == ttl      \* mutant: a rumour does not age here
RumourTtl(ttl) == ttl - 1

\* A known gateway of a node: the largest ttl, less one
AddRumour(ttls, o) ==
    IF o.sid \in DOMAIN ttls /\ ttls[o.sid] >= o.ttl THEN ttls
    ELSE [s \in DOMAIN ttls \cup {o.sid} |->
            IF s = o.sid THEN RumourTtl(o.ttl) ELSE ttls[s]]

\* What a node itself is replaces the rumours about it.
AddActualGatewaysOnly(ttls, r) ==  \* mutant: rumours of other nodes stay
    IF r.type = "Gateway" /\ r.sid # None
    THEN [s \in DOMAIN ttls \cup {r.sid} |-> IF s = r.sid THEN InitialTtl ELSE ttls[s]]
    ELSE ttls
AddActual(ttls, r) ==
    IF r.sid = None THEN ttls
    ELSE IF r.type = "Gateway"
    THEN [s \in DOMAIN ttls \cup {r.sid} |-> IF s = r.sid THEN InitialTtl ELSE ttls[s]]
    ELSE [s \in DOMAIN ttls \ {r.sid} |-> ttls[s]]

TrackerVisits(t) ==
    LET w == Walk(t, Roots(t)) IN {k \in 1 .. Len(w) : t[w[k].node].type = "Tracker"}

FirstTracker(t) == Walk(t, Roots(t))[Nearest(TrackerVisits(t))]

\* The first tracker that is visited knows all gateways.
TrackersGateways(t) ==
    LET gateways == Children(t, FirstTracker(t).node)
        known == {t[gateways[k]].sid : k \in 1 .. Len(gateways)} \ {None}
    IN [s \in known |-> InitialTtl]

\* The loop over the known gateways of one node, and that over all nodes
AddHeard(ttls, known) ==
    LET heard[n \in 0 .. Len(known)] ==
            IF n = 0 THEN ttls ELSE AddRumour(heard[n - 1], known[n])
    IN heard[Len(known)]

Rumoured(all) ==
    LET after[n \in 0 .. Len(all)] ==
            IF n = 0 THEN [s \in {} |-> 0] ELSE AddHeard(after[n - 1], all[n].known)
    IN after[Len(all)]

\* The second loop over all nodes
Corrected(ttls, all) ==
    LET after[n \in 0 .. Len(all)] ==
            IF n = 0 THEN ttls ELSE AddActual(after[n - 1], all[n])
    IN after[Len(all)]

KnownGateways(t) ==
    IF TrackerVisits(t) # {} THEN TrackersGateways(t)
    ELSE Corrected(Rumoured(WalkNodes(t)), WalkNodes(t))

StillKnown(ttls) == {s \in DOMAIN ttls : ttls[s] > 1}

\* get_known_gateway_session_ids_next_ttl
KnownGatewaysNextTtl(t) ==
    LET ttls == KnownGateways(t) IN [s \in StillKnown(ttls) |-> ttls[s] - 1]

-----------------------------------------------------------------------------
(* The forests: decoded from messages, node by node, and add_known          *)

Size == Cardinality(DOMAIN forest)

AddNode(node) == forest' = [j \in DOMAIN forest \cup {Size + 1} |->
                              IF j = Size + 1 THEN node ELSE forest[j]]

Init == forest = [j \in {} |-> None]

\* The next node of the forests that are received
Decode(parent, sid, type, count, known) ==
    /\ Size < MaxNodes
    /\ parent # 0 => forest[parent].count = None
    /\ AddNode([parent |-> parent, sid |-> sid, type |-> type,
                count |-> count, known |-> known])

Related(node) == [node EXCEPT !.count = None]

\* add_known: one more relation; a count is dropped
AddKnown(root, sid) ==
    /\ Size < MaxNodes
    /\ root \in DOMAIN forest
    /\ forest' = [j \in DOMAIN forest \cup {Size + 1} |->
                    IF j = Size + 1
                    THEN [parent |-> root, sid |-> sid, type |-> "Normal",
                          count |-> None, known |-> <<>>]
                    ELSE IF j = root THEN Related(forest[j])
                    ELSE forest[j]]

Next ==
    \/ \E parent \in DOMAIN forest \cup {0}, sid \in Sids \cup {None}, type \in Types,
          count \in Counts \cup {None}, known \in Knowns :
          Decode(parent, sid, type, count, known)
    \/ \E root \in DOMAIN forest, sid \in Sids : AddKnown(root, sid)

Spec == Init /\ [][Next]_forest

-----------------------------------------------------------------------------
(* Properties                                                              *)

\* A node's parent, its parent's parent, and so on, and 0 from the root on
Up(t, i) ==
    LET up[k \in 0 .. MaxNodes] ==
            IF k = 0 THEN i
            ELSE IF up[k - 1] = 0 THEN 0 ELSE t[up[k - 1]].parent
    IN up

DepthIn(t, i) ==
    CHOOSE k \in 0 .. MaxNodes : Up(t, i)[k] # 0 /\ t[Up(t, i)[k]].parent = 0

IsRoot(i) == forest[i].parent = 0

Tree(r) == {i \in DOMAIN forest : \E k \in 0 .. MaxNodes : Up(forest, i)[k] = r}

\* The iterator visits every node once, and nearer nodes before farther ones;
\* get_min_depth is the length of a shortest path from the root to a session,
\* and there is one exactly if the session is_known.
WalkIsByDepth ==
    LET w == Walk(forest, Roots(forest)) IN
    /\ {w[k].node : k \in 1 .. Len(w)} = DOMAIN forest
    /\ Len(w) = Size
    /\ \A k \in 1 .. Len(w) : w[k].depth = DepthIn(forest, w[k].node)
    /\ \A k \in 2 .. Len(w) : w[k - 1].depth <= w[k].depth
    /\ \A r \in {i \in DOMAIN forest : IsRoot(i)}, s \in Sids :
          LET depths == {DepthIn(forest, i) : i \in {j \in Tree(r) : forest[j].sid = s}} IN
          IF IsKnown(forest, r, s)
          THEN /\ MinDepth(forest, r, s) \in depths
               /\ \A d \in depths : MinDepth(forest, r, s) <= d
          ELSE depths = {} /\ MinDepth(forest, r, s) = None

\* Sending a tree to a depth and then to a smaller one is sending it to the
\* smaller one, as far as the tree holds only nodes that are sent; and in what
\* is sent no rumour is left and nothing is deeper than asked for.
SendDataIsCut ==
    \A r \in {i \in DOMAIN forest : IsRoot(i)} : \A d \in 0 .. MaxNodes :
        LET s == SendData(forest, r, d) IN
        /\ \A j \in DOMAIN s :
              /\ DepthIn(s, j) = DepthIn(forest, j) /\ DepthIn(s, j) <= d
              /\ s[j].known = <<>>
              /\ j # r => s[j].type \in {"Normal", "Gateway"}
              /\ DepthIn(s, j) = d => RelationCount(s, j) = RelationCount(forest, j)
        /\ SendData(s, r, d) = s
        /\ (\A j \in DOMAIN forest : forest[j].type \in {"Normal", "Gateway"}) =>
              SendData(SendData(forest, r, d + 1), r, d) = s

Mentions(t, s) == {j \in DOMAIN t : t[j].sid = s}

HasTracker == \E j \in DOMAIN forest : forest[j].type = "Tracker"

\* Without a tracker, a session that every mention calls a gateway is known
\* with the full ttl, and one that no mention does is not known at all,
\* whatever others have heard of it.  With one, what is told on is what the
\* tracker that is nearest to a root is related to.
MentionsDecide ==
    LET k == KnownGateways(forest) IN
    IF HasTracker
    THEN LET first == FirstTracker(forest).node IN
         /\ forest[first].type = "Tracker"
         /\ \A j \in DOMAIN forest : forest[j].type = "Tracker" =>
               DepthIn(forest, first) <= DepthIn(forest, j)
         /\ DOMAIN KnownGatewaysNextTtl(forest) =
               {forest[j].sid : j \in Below(forest, first)} \ {None}
    ELSE \A s \in Sids :
            Mentions(forest, s) # {} =>
                /\ (\A j \in Mentions(forest, s) : forest[j].type = "Gateway")
                      => s \in DOMAIN k /\ k[s] = InitialTtl
                /\ (\A j \in Mentions(forest, s) : forest[j].type # "Gateway")
                      => s \notin DOMAIN k

HeardBy(t, j) == {t[j].known[n] : n \in 1 .. Len(t[j].known)}

\* What the nodes have heard of a session
Heard(t, s) == {o \in UNION {HeardBy(t, j) : j \in DOMAIN t} : o.sid = s}

\* Rumours fade: what is told on about a session nobody is related to has lost
\* two of the largest ttl it was heard with, so a gateway that has gone is
\* forgotten after three tellings, however the nodes tell each other in turn.
\* What is told on can be heard again: its ttl is at least 1 and less than the
\* first.
RumoursFade ==
    LET k == KnownGatewaysNextTtl(forest) IN
    \A s \in DOMAIN k :
          /\ k[s] \in 1 .. InitialTtl - 1
          /\ ~HasTracker /\ Mentions(forest, s) = {} =>
                /\ \E o \in Heard(forest, s) : k[s] = o.ttl - 2
                /\ \A o \in Heard(forest, s) : k[s] >= o.ttl - 2
=============================================================================
