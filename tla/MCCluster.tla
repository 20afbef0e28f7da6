------------------------------ MODULE MCCluster ------------------------------
(* Cluster for TLC: two nodes with a publisher each; one stream on the     *)
(* first node, and one of each topic on the second.  The second topic is a *)
(* plain name to Redis, and to NATS a subject that matches the first.      *)
EXTENDS Cluster, TLC

CONSTANTS n1, n2, t1, t2, s1, s2, s3

A == <<"docs", "a">>
W == <<"docs", "*">>
MCTopics == {A, W}
MCHome == (t1 :> n1) @@ (t2 :> n2) @@ (s1 :> n1) @@ (s2 :> n2) @@ (s3 :> n2)
MCTopic == (s1 :> A) @@ (s2 :> A) @@ (s3 :> W)
MCForeigns == {<<W, Garbage>>, <<W, <<>>>>}
MCSetups == {[broker |-> "redis", engine |-> "yjs"], [broker |-> "nats", engine |-> "automerge"]}
MCOffers == (t1 :> {<<A, "u">>}) @@ (t2 :> {<<A, "">>, <<W, "junk">>, <<W, "w">>})
=============================================================================
