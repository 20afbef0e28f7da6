---------------------------- MODULE NamespaceAcl ----------------------------
(***************************************************************************)
(* The policy objects the hub consults: NamespaceAcl and its rules         *)
(* (cherenkov-auth namespace_acl.rs), JwtAuthenticator (jwt.rs), the       *)
(* JsonSchemaRegistry (cherenkov-schema registry.rs) and the allow-all     *)
(* defaults of cherenkov-core.  A glob is the set of names it matches, a   *)
(* JSON Schema the set of payloads it accepts; a channel name is the       *)
(* sequence of its dot-separated segments.                                 *)
(***************************************************************************)
EXTENDS Integers, Sequences, FiniteSets

CONSTANT None           \* an Option that is None

Actions == {"subscribe", "publish"}

namespace_of(channel) == Head(channel)

-----------------------------------------------------------------------------
covers(match, action) == match = "any" \/ match = action

\* AclRule::matches; subject is None or the set of subjects of its glob.
matches(rule, subject, action, channel) ==
    /\ covers(rule.action, action)
    /\ rule.subject = {None} \/ subject \in rule.subject
    /\ channel \in rule.channel

\* Mutant: every rule is looked at and the last match decides.
check_last(acl, subject, action, channel) ==
    LET scan[i \in 0..Len(acl.rules)] ==
          CASE i = 0 -> acl.default_allow
            [] i > 0 /\ matches(acl.rules[i], subject, action, channel) -> acl.rules[i].effect = "allow"
            [] OTHER -> scan[i - 1]
    IN  scan[Len(acl.rules)]

\* NamespaceAcl::check: the loop returns at the first rule that matches.
check(acl, subject, action, channel) ==
    LET scan[i \in 1..(Len(acl.rules) + 1)] ==
          CASE i > Len(acl.rules) -> acl.default_allow
            [] i <= Len(acl.rules) /\ matches(acl.rules[i], subject, action, channel) ->
                 acl.rules[i].effect = "allow"
            [] OTHER -> scan[i + 1]
    IN  scan[1]

\* AllowAllAcl: the hub's default when no checker is registered.
AllowAllAcl == [rules |-> <<>>, default_allow |-> TRUE]

-----------------------------------------------------------------------------
\* SessionClaims (permissions are stored, but no shipped checker reads them).
anonymous == [subject |-> "anonymous", expires_at |-> 0]

NoClaims == [subject |-> None, expires_at |-> 0]

\* What build configures of jsonwebtoken's Validation, applied to a token;
\* the library's leeway on the expiry is left at its default, in seconds, and
\* so are the claims it requires: exp alone, so a token that has no aud or
\* no iss passes the check of that claim.
Leeway == 60
Validates(auth, token) ==
    /\ token.key = auth.secret
    /\ token.exp >= auth.now - Leeway
    /\ auth.audiences # {} => token.aud \in auth.audiences \union {None}
    /\ auth.issuer # None => token.iss \in {auth.issuer, None}

\* Authenticator::authenticate, NoClaims standing for InvalidToken.
authenticate(auth, token) ==
    IF auth.allow_anonymous THEN anonymous
    ELSE IF Validates(auth, token) THEN [subject |-> token.sub, expires_at |-> token.exp]
    ELSE NoClaims

-----------------------------------------------------------------------------
\* JsonSchemaRegistry::validate: a namespace without a schema is opaque; a
\* payload that is not JSON is in no schema's set.
validate(schemas, channel, data) ==
    LET ns == namespace_of(channel)
    IN  ns \in DOMAIN schemas => data \in schemas[ns]

\* Hub::kind_for: the override of the namespace, or the default kind.
kind_for(kinds, channel) ==
    LET ns == namespace_of(channel)
    IN  IF ns \in DOMAIN kinds THEN kinds[ns] ELSE "pubsub"

-----------------------------------------------------------------------------
\* The rules whose globs and action fit a request.
MatchingRules(acl, subject, action, channel) ==
    {i \in DOMAIN acl.rules : matches(acl.rules[i], subject, action, channel)}

(* namespace-acl: the rule that decides is the earliest one that matches,  *)
(* whatever rules follow it; without one default_allow decides.            *)
FirstMatchDecides(acl, subject, action, channel) ==
    LET hit == MatchingRules(acl, subject, action, channel)
    IN  check(acl, subject, action, channel) =
          IF hit = {} THEN acl.default_allow
          ELSE \E i \in hit : acl.rules[i].effect = "allow" /\ \A j \in hit : i <= j
=============================================================================
