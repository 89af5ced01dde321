------------------------------- MODULE Startup -------------------------------
(***************************************************************************)
(* A node from its start to serving: main (hubserv/src/main.rs), the       *)
(* options (args.rs), the first update of the cluster (ClusterManager),    *)
(* the first node list (cluster.rs) and the servers (api_server.rs,        *)
(* status_server.rs).  Every error on the way is unwrapped: the process    *)
(* dies, and systemd starts it again from nothing (Restart=always).        *)
(*                                                                         *)
(* What a deployment gives on the command line and in the environment is   *)
(* the same for all nodes.  An option is there or not; its value is left   *)
(* out, except for role and stage in ClusterManager.  The branch of main   *)
(* that calls dns::set_arecord is never taken: its conditions imply        *)
(* cluster_node_host.                                                      *)
(***************************************************************************)
EXTENDS ClusterManager

CONSTANTS
    Deployments,  \* the deployments considered
    StartTries    \* loads of the node list tried before the servers start: 5

\* The options that main unwraps when there is a cluster_node_host
Required == {"http_host", "cloudflare", "aws_ec2_region", "cluster_node_role",
             "cluster_node_stage", "cluster_json_s3"}
Options == Required \cup {"public_ip", "use_https", "cluster_node_list_url",
                          "aws_ec2_instance_id"}

\* given: options of the command line and the environment; secretsName: the
\* AWS_SECRETSMANAGER_NAME, "none" if it is not set or not enabled, "tagged" if
\* it holds {tag:Stage}; secrets: the options that the secret holds
ASSUME StartupAssumption ==
    /\ \A d \in Deployments :
          /\ d.given \subseteq Options /\ d.secrets \subseteq Options
          /\ d.secretsName \in {"none", "plain", "tagged"}
    /\ StartTries \in Nat \ {0}

VARIABLES
    deployment,
    phase,   \* each process: "off", "tags", "secrets", "update", "load",
             \* "serving" or, with the status server alone, "status"
    tries,   \* loads that failed before the servers started
    listed   \* whether the node list that a node has loaded names it

startVars == <<deployment, phase, tries, listed>>
allVars == <<vars, startVars>>

StartupInit ==
    /\ Init
    /\ deployment \in Deployments
    /\ phase = [n \in Nodes |-> "off"]
    /\ tries = [n \in Nodes |-> 0]
    /\ listed = [n \in Nodes |-> FALSE]

Has(o) == o \in deployment.given

\* The options of the second parse: a secret becomes an environment variable.
IsSet(o) == Has(o) \/ (deployment.secretsName # "none" /\ o \in deployment.secrets)

\* set_other_args
HasClusterNodeHost == IsSet("http_host") /\ IsSet("public_ip")

HasAllUnwrapped == \A o \in Required : IsSet(o)

\* What makes load_secrets fail for good: the name's tag is never replaced.
NameIsResolved == deployment.secretsName = "tagged" => Has("aws_ec2_instance_id")

\* start_client
LoadsList == HasClusterNodeHost /\ IsSet("cluster_node_list_url")

\* api_server::start_server returns when it lacks its host.
FirstOf(servers) == IF LoadsList THEN "load" ELSE servers
Servers == IF IsSet("use_https") /\ ~IsSet("http_host") THEN "status" ELSE "serving"

Serving == {n \in Nodes : phase[n] = "serving"}

Enter(n, to) == phase' = [phase EXCEPT ![n] = to]

-----------------------------------------------------------------------------
(* The process                                                             *)

\* systemd starts the service with the instance.
Launch(n) ==
    /\ StartNode(n)
    /\ Enter(n, "tags")
    /\ UNCHANGED <<deployment, tries, listed>>

\* The process starts over; a load it was about to try again is forgotten.
Reset(n, to) ==
    /\ Enter(n, to)
    /\ tries' = [tries EXCEPT ![n] = 0]
    /\ listed' = [listed EXCEPT ![n] = FALSE]
    /\ UNCHANGED deployment

\* The request of /update-cluster is served by one of the nodes that serve.
Loses(n, lost) ==
    /\ lost # {} => n \in Serving
    /\ Serving = {n} => lost # {}

Stop(n) == \E lost \in {{}, {Request}} :
    Loses(n, lost) /\ StopNode(n, lost) /\ Reset(n, "off")

\* It dies for any other reason, the failure of load_ec2_tags, load_secrets or
\* a socket's bind among them.
Kill(n) == \E lost \in {{}, {Request}} :
    Loses(n, lost) /\ KillProcess(n, lost) /\ Reset(n, "tags")

\* load_ec2_tags, with an instance id
LoadTags(n) ==
    /\ phase[n] = "tags"
    /\ Enter(n, "secrets")
    /\ UNCHANGED <<vars, deployment, tries, listed>>

\* load_to_env, the second parse and main down to the update; without what it
\* needs the process is started over.
LoadSecrets(n) ==
    /\ phase[n] = "secrets"
    /\ Enter(n, IF ~NameIsResolved THEN "tags"
                ELSE IF ~HasClusterNodeHost THEN FirstOf(Servers)
                ELSE IF HasAllUnwrapped THEN "update"
                ELSE "tags")
    /\ UNCHANGED <<vars, deployment, tries, listed>>

\* cm.update().await.unwrap()
MayPassBegun(n) == pc[n] \in Underway \cup {"updated"}  \* mutant: not awaited
MayPass(n) == pc[n] = "updated"

\* The process that made the update dies of its failure.
UpdateOrPanic(n, step) ==
    /\ phase[n] = "update"
    /\ step
    /\ \/ pc'[n] # "failed" /\ UNCHANGED startVars
       \/ pc'[n] = "failed" /\ Reset(n, "tags")

Update(n) == UpdateOrPanic(n, BeginUpdate(n) \/ UpdateStep(n))

GoOn(n) ==
    /\ phase[n] = "update"
    /\ MayPass(n)
    /\ Enter(n, FirstOf(Servers))
    /\ UNCHANGED <<vars, deployment, tries, listed>>

\* load_node_list: once before the servers start, then every minute
LoadList(n) ==
    /\ phase[n] = "load" \/ (phase[n] \in {"serving", "status"} /\ LoadsList)
    /\ listed' = [listed EXCEPT ![n] = n \in nodeList]
    /\ Enter(n, Servers)
    /\ UNCHANGED <<vars, deployment, tries>>

\* The servers start without a list after the last try.
LoadListFails(n) ==
    /\ phase[n] = "load"
    /\ tries' = [tries EXCEPT ![n] = @ + 1]
    /\ Enter(n, IF tries'[n] = StartTries THEN Servers ELSE "load")
    /\ UNCHANGED <<vars, deployment, listed>>

\* GET /update-cluster at a node with a manager; others change nothing.
RequestUpdate ==
    /\ Serving # {} /\ HasClusterNodeHost
    /\ BeginUpdate(Request) \/ UpdateStep(Request)
    /\ UNCHANGED startVars

RequestFails ==
    /\ FailUpdate(Request)
    /\ UNCHANGED startVars

ProcessStep(n) == LoadTags(n) \/ LoadSecrets(n) \/ Update(n) \/ GoOn(n)

StartupNext ==
    \/ \E n \in Nodes :
          \/ Launch(n) \/ Stop(n) \/ Kill(n)
          \/ ProcessStep(n) \/ LoadList(n)
          \/ UpdateOrPanic(n, FailUpdate(n)) \/ LoadListFails(n)
    \/ RequestUpdate \/ RequestFails

\* A process that runs gets its turn, its remote calls end, and the list is
\* loaded again and again.  Nobody has to ask for an update, and nothing has to
\* fail or to stop.
StartupFairness ==
    \A n \in Nodes : WF_allVars(ProcessStep(n)) /\ WF_allVars(LoadList(n))

StartupSpec == StartupInit /\ [][StartupNext]_allVars /\ StartupFairness

-----------------------------------------------------------------------------
(* Properties                                                              *)

IsFound(n) == n \in nodeList /\ \A k \in Kinds : n \in Ips(k)

\* A node of a cluster that serves is in the node list and has both records,
\* however others start, stop and fail around it, unless updates overlapped
\* and none has succeeded alone since.
ServersAreFound ==
    healed /\ HasClusterNodeHost =>
        \A n \in Nodes : phase[n] \in {"load", "serving"} => IsFound(n)

\* A node that keeps running serves in the end if its options are complete,
\* whatever fails and however updates overlap; it is found if they did not, and
\* it knows that it is.
NodeServes ==
    NameIsResolved /\ (HasClusterNodeHost => HasAllUnwrapped) /\ Servers = "serving" =>
        \A n \in Nodes :
            <>[](n \in Running) =>
                <>[](/\ n \in Serving
                     /\ healed /\ HasClusterNodeHost => IsFound(n)
                     /\ healed /\ LoadsList => listed[n])

\* The commands that README.md gives start a server.
CommandServes ==
    \A n \in Nodes : <>[](n \in Running) => <>[](n \in Serving)
=============================================================================
