------------------------------ MODULE MCServer ------------------------------
(***************************************************************************)
(* Instances of Server: a full configuration, and one for every way in     *)
(* which a section can be left out, broken or refused.                     *)
(***************************************************************************)
EXTENDS Server

CONSTANTS a1, a2, a3

Inline(d) == [schema |-> d, schema_path |-> None]
File(d)   == [schema |-> None, schema_path |-> d]

Rule(c, s) == [channel |-> c, subject |-> s]

Full ==
    [loads |-> TRUE, ws |-> a1, sse |-> a2, admin |-> [enabled |-> TRUE, listen |-> a3],
     broker |-> [backend |-> "Memory", redis_url |-> None, nats_url |-> None],
     namespaces |-> <<Inline("schema"), File("schema")>>,
     auth |-> "secret", acl |-> <<Rule("glob", None), Rule("glob", "glob")>>]

Backend(b, r, n) == [backend |-> b, redis_url |-> r, nats_url |-> n]

MCConfigs ==
    {Full,
     [Full EXCEPT !.loads = FALSE],
     [Full EXCEPT !.sse = None, !.auth = None],
     [Full EXCEPT !.admin.enabled = FALSE, !.acl = None, !.namespaces = <<>>],
     [Full EXCEPT !.sse = a1],
     [Full EXCEPT !.auth = ""],
     [Full EXCEPT !.acl = <<Rule("glob", None), Rule("broken", None)>>],
     [Full EXCEPT !.acl = <<Rule("glob", "broken")>>]}
    \cup {[Full EXCEPT !.broker = b] :
            b \in {Backend("Redis", None, "url"), Backend("Redis", "url", None),
                   Backend("Nats", "url", None), Backend("Nats", None, "url")}}
    \cup {[Full EXCEPT !.namespaces = <<Inline("schema"), n>>] :
            n \in {[schema |-> None, schema_path |-> None],
                   [schema |-> "schema", schema_path |-> "schema"],
                   Inline("not a schema"), File("missing"), File("not JSON")}}
=============================================================================
