------------------------------ MODULE MCStartup ------------------------------
(* Two nodes that come and go, and a request to update between their own.   *)
EXTENDS Startup

CONSTANTS n1, n2

\* etc/service/hubserver.sh with etc/sysconfig/hubserver
Production ==
    [given |-> {"http_host", "public_ip", "aws_ec2_region", "aws_ec2_instance_id",
                "cluster_node_role", "cluster_node_stage", "cluster_json_s3",
                "cluster_node_list_url"},
     secretsName |-> "tagged",
     secrets |-> {"cloudflare"}]

\* "Run" in README.md
Readme ==
    [given |-> {"http_host", "public_ip", "aws_ec2_region", "use_https"},
     secretsName |-> "none",
     secrets |-> {}]

\* run-hubserv.sh: no options
Local == [given |-> {}, secretsName |-> "none", secrets |-> {}]

\* https without a host to get a certificate for
Hostless == [given |-> {"use_https"}, secretsName |-> "none", secrets |-> {}]

\* A tag in the secret's name, and no instance to take it from
Untagged == [Production EXCEPT !.given = @ \ {"aws_ec2_instance_id"}]

AllDeployments == {Production, Readme, Local, Hostless, Untagged}
OnlyReadme == {Readme}
=============================================================================
