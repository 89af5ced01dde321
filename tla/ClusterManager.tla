--------------------------- MODULE ClusterManager ---------------------------
(***************************************************************************)
(* Manager::update (cluster/src/manager.rs): asks EC2 for the running      *)
(* nodes, publishes them as the node list, and brings the DNS records in   *)
(* line, one remote call at a time.  Every call may fail, which ends the   *)
(* update where it is; nothing is undone.                                  *)
(*                                                                         *)
(* Every node updates when its process starts, and again when it failed:   *)
(* main unwraps the result and systemd restarts the process                *)
(* (Restart=always).  A request of /update-cluster updates too, at a node  *)
(* that serves.  The nodes know nothing of each other's updates, which may *)
(* overlap; mixed and healed keep track of that.                           *)
(*                                                                         *)
(* A node stands for its instance, its public ip and its host; ips are not *)
(* reused.  EC2, S3 and Cloudflare are outside the repository: the model   *)
(* takes from them that a call that succeeds has its effect at once, and   *)
(* that deleting a record that is gone fails.                              *)
(***************************************************************************)
EXTENDS Naturals, FiniteSets

CONSTANTS
    Nodes,
    Request,      \* the updater that serves /update-cluster
    Role, Stage,  \* cluster_node_role and cluster_node_stage of the nodes,
                  \* and the tags of their instances
    MaxFailures,  \* bound: remote calls that fail, processes that die
    MaxRequests   \* bound: requests of /update-cluster

ASSUME ManagerAssumption ==
    /\ Request \notin Nodes
    /\ Role # Stage
    /\ MaxFailures \in Nat
    /\ MaxRequests \in Nat

VARIABLES
    life,      \* each instance: "new", "running" or "gone"
    nodeList,  \* the published node list
    records,   \* the A records of the zone: kind, ip and id
    pc,        \* where each update is
    view,      \* the nodes an update got from EC2
    dels,      \* records it has still to delete
    adds,      \* records it has still to add: <<kind, ip>>
    attempts,  \* updates begun by each updater
    failures,
    mixed,     \* history: updaters whose last update overlapped another one
    healed     \* history: no updates overlapped since one that overlapped
               \* none succeeded

vars == <<life, nodeList, records, pc, view, dels, adds, attempts, failures, mixed, healed>>

Updaters == Nodes \cup {Request}

\* the host of the cluster, and a node's own host
Kinds == {"cluster", "single"}

Underway == {"nodes", "upload", "list", "apply"}

Running == {n \in Nodes : life[n] = "running"}

Ips(kind) == {r.ip : r \in {q \in records : q.kind = kind}}

Init ==
    /\ life = [n \in Nodes |-> "new"]
    /\ nodeList = {}
    /\ records = {}
    /\ pc = [m \in Updaters |-> "idle"]
    /\ view = [m \in Updaters |-> {}]
    /\ dels = [m \in Updaters |-> {}]
    /\ adds = [m \in Updaters |-> {}]
    /\ attempts = [m \in Updaters |-> 0]
    /\ failures = 0
    /\ mixed = {}
    /\ healed = TRUE

Goto(m, to) == pc' = [pc EXCEPT ![m] = to]

\* The updates of ms are over and what they held is gone.
EndAll(ms, to) ==
    /\ pc' = [m \in Updaters |-> IF m \in ms THEN to ELSE pc[m]]
    /\ view' = [m \in Updaters |-> IF m \in ms THEN {} ELSE view[m]]
    /\ dels' = [m \in Updaters |-> IF m \in ms THEN {} ELSE dels[m]]
    /\ adds' = [m \in Updaters |-> IF m \in ms THEN {} ELSE adds[m]]

Ended(m, to) == EndAll({m}, to)

-----------------------------------------------------------------------------
(* Instances and processes                                                 *)

StartNode(n) ==
    /\ life[n] = "new"
    /\ life' = [life EXCEPT ![n] = "running"]
    /\ UNCHANGED <<nodeList, records, pc, view, dels, adds, attempts, failures, mixed, healed>>

\* The process dies with its instance, in the middle of an update or not, and
\* takes with it the request that it may be serving.
StopNode(n, lost) ==
    /\ life[n] = "running"
    /\ life' = [life EXCEPT ![n] = "gone"]
    /\ EndAll({n} \cup lost, "idle")
    /\ UNCHANGED <<nodeList, records, attempts, failures, mixed, healed>>

\* The process dies alone, and is started again.
KillProcess(n, lost) ==
    /\ life[n] = "running"
    /\ failures < MaxFailures
    /\ failures' = failures + 1
    /\ EndAll({n} \cup lost, "idle")
    /\ UNCHANGED <<life, nodeList, records, attempts, mixed, healed>>

Overlapped == {u \in Updaters : pc[u] \in Underway}

\* main, after a start or a restart; or the handler of /update-cluster
BeginUpdate(m) ==
    /\ \/ m \in Running /\ pc[m] \in {"idle", "failed"}
       \/ m = Request /\ pc[m] \notin Underway /\ attempts[m] < MaxRequests
    /\ Goto(m, "nodes")
    /\ attempts' = [attempts EXCEPT ![m] = @ + 1]
    /\ mixed' = IF Overlapped = {} THEN mixed \ {m} ELSE mixed \cup Overlapped \cup {m}
    /\ healed' = (healed /\ Overlapped = {})
    /\ UNCHANGED <<life, nodeList, records, view, dels, adds, failures>>

-----------------------------------------------------------------------------
(* Manager::update                                                         *)

\* Manager::new takes the role before the stage, and load_nodes_from_ec2 the
\* stage before the role.
NewManager(role, stage) == [role |-> role, stage |-> stage]
LoadNodesFromEc2(stage, role) ==
    {n \in Running : role = Role /\ stage = Stage}

MainsManagerRoleFirst == NewManager(Role, Stage)  \* mutant: one swap of the two
MainsManager == NewManager(Stage, Role)

\* main and get_nodes both swap them.
NodesOf(manager) == LoadNodesFromEc2(manager.role, manager.stage)

GetNodes(m) ==
    /\ pc[m] = "nodes"
    /\ view' = [view EXCEPT ![m] = NodesOf(MainsManager)]
    /\ Goto(m, "upload")
    /\ UNCHANGED <<life, nodeList, records, dels, adds, attempts, failures, mixed, healed>>

UploadClusterJson(m) ==
    /\ pc[m] = "upload"
    /\ nodeList' = view[m]
    /\ Goto(m, "list")
    /\ UNCHANGED <<life, records, view, dels, adds, attempts, failures, mixed, healed>>

\* diff_records for both groups of split_records
ToDeleteNothing(ips) == {}  \* mutant: only adds
ToDeleteSwapped(ips) == {r \in records : r.ip \in ips}  \* mutant
ToDelete(ips) == {r \in records : r.ip \notin ips}

\* mutant: a node without one of them gets both
ToAddBoth(ips) == Kinds \X {i \in ips : \E k \in Kinds : i \notin Ips(k)}
ToAdd(ips) == {a \in Kinds \X ips : a[2] \notin Ips(a[1])}

\* get_zone_id, get_arecords: both groups are split from one reading.
ListRecords(m) ==
    /\ pc[m] = "list"
    /\ dels' = [dels EXCEPT ![m] = ToDelete(view[m])]
    /\ adds' = [adds EXCEPT ![m] = ToAdd(view[m])]
    /\ Goto(m, "apply")
    /\ UNCHANGED <<life, nodeList, records, view, attempts, failures, mixed, healed>>

\* For the cluster host, then for the nodes' own: deletes, then adds.
PendingDels(m, kind) == {r \in dels[m] : r.kind = kind}
PendingAdds(m, kind) == {a \in adds[m] : a[1] = kind}
ClusterDone(m) == PendingDels(m, "cluster") = {} /\ PendingAdds(m, "cluster") = {}

\* A record that another update has deleted is an error here.
DeleteRecord(m, r) ==
    /\ pc[m] = "apply"
    /\ r \in dels[m]
    /\ r.kind = "single" => ClusterDone(m)
    /\ records' = records \ {r}
    /\ IF r \in records
         THEN /\ dels' = [dels EXCEPT ![m] = @ \ {r}]
              /\ UNCHANGED <<pc, view, adds>>
         ELSE Ended(m, "failed")
    /\ UNCHANGED <<life, nodeList, attempts, failures, mixed, healed>>

AddRecord(m, kind, ip) ==
    /\ pc[m] = "apply"
    /\ <<kind, ip>> \in adds[m]
    /\ PendingDels(m, kind) = {}
    /\ kind = "single" => ClusterDone(m)
    /\ records' = records \cup
                    {[kind |-> kind, ip |-> ip, id |-> <<m, attempts[m]>>]}
    /\ adds' = [adds EXCEPT ![m] = @ \ {<<kind, ip>>}]
    /\ UNCHANGED <<life, nodeList, pc, view, dels, attempts, failures, mixed, healed>>

FinishUpdate(m) ==
    /\ pc[m] = "apply"
    /\ dels[m] = {} /\ adds[m] = {}
    /\ Ended(m, "updated")
    /\ healed' = (healed \/ m \notin mixed)
    /\ UNCHANGED <<life, nodeList, records, attempts, failures, mixed>>

\* The next remote call fails, or the request's connection is dropped.  A call
\* that has its effect and fails all the same is this step after that call's.
FailUpdate(m) ==
    /\ pc[m] \in Underway
    /\ failures < MaxFailures
    /\ failures' = failures + 1
    /\ Ended(m, "failed")
    /\ UNCHANGED <<life, nodeList, records, attempts, mixed, healed>>

UpdateStep(m) ==
    \/ GetNodes(m) \/ UploadClusterJson(m) \/ ListRecords(m)
    \/ \E r \in dels[m] : DeleteRecord(m, r)
    \/ \E a \in adds[m] : AddRecord(m, a[1], a[2])
    \/ FinishUpdate(m)

Next ==
    \/ \E n \in Nodes :
          \/ StartNode(n)
          \/ \E lost \in {{}, {Request}} : StopNode(n, lost) \/ KillProcess(n, lost)
    \/ \E m \in Updaters : BeginUpdate(m) \/ UpdateStep(m) \/ FailUpdate(m)

Spec == Init /\ [][Next]_vars

-----------------------------------------------------------------------------
(* Properties.  Updates that overlap promise nothing: the records and the  *)
(* list are read and written without a lock.  An update that overlaps no   *)
(* other keeps the promises below whatever overlapping or failed updates   *)
(* have left behind.                                                       *)

\* It publishes no node twice under one host.
RecordsAreUnique ==
    [][\A q \in records' \ records : \A r \in records :
          q.kind = r.kind /\ q.ip = r.ip => q.id[1] \in mixed]_vars

\* If it succeeds it leaves exactly the nodes it saw in the node list, under
\* the cluster host and under their own hosts.
SuccessIsExact ==
    [][\A m \in Updaters \ mixed :
          pc[m] = "apply" /\ pc'[m] = "updated" =>
              /\ nodeList = view[m]
              /\ \A k \in Kinds : Ips(k) = view[m]]_vars

\* It takes no record of a running node away.
RunningKeepsRecords ==
    [][\A n \in Running \cap Running' : \A k \in Kinds :
          n \in Ips(k) \ Ips(k)' => \E m \in mixed : dels'[m] # dels[m]]_vars
=============================================================================
