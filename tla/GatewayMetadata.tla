-------------------------- MODULE GatewayMetadata --------------------------
(***************************************************************************)
(* Gateway metadata, lib/gateway/gatewayMetadata.ts: the policies a        *)
(* service, a controller or a route declares for the gateways in front.    *)
(*                                                                         *)
(* A metadata object is a function from paths to leaves: m[<<"timeouts",   *)
(* "request">>] is metadata.timeouts.request.  An object without a leaf is *)
(* left out.  A leaf is a pair, or a triple for a duration, whose first    *)
(* element is its type.                                                    *)
(***************************************************************************)
EXTENDS Naturals, Sequences, SequencesExt, Collections

Text(s)         == <<"text", s>>
Number(n)       == <<"number", n>>
Flag(b)         == <<"flag", b>>
List(S)         == <<"list", S>>
Duration(n, u)  == <<"duration", n, u>>
Object          == <<"object">>       \* only as a value of an extension

EmptyTree == [p \in {} |-> Object]

-----------------------------------------------------------------------------
(* Trees.                                                                  *)

Has(m, p) == \E q \in DOMAIN m : IsPrefix(p, q)

Related(p, q) == IsPrefix(p, q) \/ IsPrefix(q, p)

Without(m, p) == Restrict(m, {q \in DOMAIN m : ~IsPrefix(p, q)})

\* the children of an object
Keys(m, p) ==
    {q[Len(p) + 1] : q \in {x \in DOMAIN m : IsStrictPrefix(p, x)}}

Below(p, q) == SubSeq(q, Len(p) + 1, Len(q))

Subtree(m, p) ==
    LET inside == {q \in DOMAIN m : IsStrictPrefix(p, q)}
    IN  [b \in {Below(p, q) : q \in inside} |-> m[p \o b]]

Planted(m, p) == [q \in {p \o b : b \in DOMAIN m} |-> m[Below(p, q)]]

\* a deep merge: what over says, and of base what over does not touch; a
\* list is a leaf, so that it is replaced
Merge(base, over) ==
    over ++ Restrict(base, {p \in DOMAIN base :
                              \A q \in DOMAIN over : ~Related(p, q)})

\* a spread: an entry of the first level is replaced whole
Assign(base, over) ==
    over ++ Restrict(base, {p \in DOMAIN base :
                              \A q \in DOMAIN over : Head(p) # Head(q)})

\* what the rows <<from, to>> of a table say where the parts of m go
Moved(m, table) ==
    LET moves == {x \in table \X DOMAIN m : IsPrefix(x[1][1], x[2])}
        To(x)  == x[1][2] \o Below(x[1][1], x[2])
    IN  [q \in {To(x) : x \in moves} |->
           m[(CHOOSE x \in moves : To(x) = q)[2]]]

Converted(m, Value(_)) == [p \in DOMAIN m |-> Value(m[p])]

\* tests in the manner of JavaScript
On(m, p)     == p \in DOMAIN m /\ m[p] = Flag(TRUE)
Filled(m, p) == p \in DOMAIN m /\ m[p] # List({})
FilledOnly(m) == Restrict(m, {p \in DOMAIN m : Filled(m, p)})

\* the rules for one kind of name: an explicit object or, a text, exact
Rules(m, p) ==
    [name \in Keys(m, p) |->
       LET r == Append(p, name)
       IN  IF r \in DOMAIN m THEN <<"exact", m[r]>>
           ELSE LET kind == CHOOSE k \in Keys(m, r) : TRUE
                IN  <<kind, m[Append(r, kind)]>>]

Leaf(p, v) == [q \in {p} |-> v]
LeafIf(test, p, v) == IF test THEN Leaf(p, v) ELSE EmptyTree
Named(p, f) == [q \in {Append(p, n) : n \in DOMAIN f} |-> f[Last(q)]]

-----------------------------------------------------------------------------
(* The schema.                                                             *)

Milliseconds(d) ==
    d[2] * (CASE d[3] = "ms" -> 1     [] d[3] = "s" -> 1000
              [] d[3] = "m" -> 60000  [] d[3] = "h" -> 3600000)

RuleKinds == <<"exact", "prefix", "regex">>

IsRule(p) ==
    /\ Len(p) \in {3, 4} /\ p[1] = "match"
    /\ p[2] \in {"headers", "customHeaders", "query", "customQuery"}
    /\ Len(p) = 4 => p[4] \in ToSet(RuleKinds)

Fields ==
    {<<"id">>, <<"upstream">>, <<"tags">>, <<"match", "host">>,
     <<"rewrite", "stripPrefix">>, <<"rewrite", "replacePrefix", "from">>,
     <<"rewrite", "replacePrefix", "to">>, <<"timeouts", "request">>,
     <<"timeouts", "idle">>, <<"timeouts", "connect">>,
     <<"retry", "attempts">>, <<"retry", "on">>,
     <<"retry", "perTryTimeout">>, <<"retry", "backoff", "base">>,
     <<"retry", "backoff", "max">>, <<"circuitBreaker", "maxConnections">>,
     <<"circuitBreaker", "maxPendingRequests">>,
     <<"circuitBreaker", "maxRequests">>, <<"circuitBreaker", "maxRetries">>,
     <<"rateLimit", "requests">>, <<"rateLimit", "per">>,
     <<"rateLimit", "key">>, <<"rateLimit", "key", "header">>,
     <<"rateLimit", "key", "customHeader">>, <<"rateLimit", "key", "query">>,
     <<"rateLimit", "key", "customQuery">>, <<"traffic", "weights">>,
     <<"traffic", "shadow", "upstream">>, <<"traffic", "shadow", "percent">>,
     <<"cors", "origins">>, <<"cors", "methods">>, <<"cors", "headers">>,
     <<"cors", "exposeHeaders">>, <<"cors", "credentials">>,
     <<"cors", "maxAge">>, <<"auth", "required">>, <<"auth", "mTLS">>,
     <<"auth", "jwt", "issuer">>, <<"auth", "jwt", "audiences">>,
     <<"auth", "jwt", "jwksUri">>, <<"cache", "ttl">>,
     <<"cache", "methods">>, <<"cache", "vary">>,
     <<"headers", "request", "remove">>, <<"headers", "response", "remove">>}

IsField(p) ==
    \/ p \in Fields
    \/ IsRule(p)
    \/ Len(p) = 4 /\ p[1] = "headers" /\ p[2] \in {"request", "response"}
                  /\ p[3] = "add"
    \/ Len(p) >= 3 /\ p[1] = "extensions"

\* what an object that is there must have
Required ==
    {<<<<"rateLimit">>, <<"rateLimit", "requests">>>>,
     <<<<"rateLimit">>, <<"rateLimit", "per">>>>,
     <<<<"cors">>, <<"cors", "origins">>>>,
     <<<<"auth", "jwt">>, <<"auth", "jwt", "issuer">>>>,
     <<<<"cache">>, <<"cache", "ttl">>>>,
     <<<<"traffic", "shadow">>, <<"traffic", "shadow", "upstream">>>>,
     <<<<"traffic", "shadow">>, <<"traffic", "shadow", "percent">>>>,
     <<<<"rewrite", "replacePrefix">>, <<"rewrite", "replacePrefix", "from">>>>,
     <<<<"rewrite", "replacePrefix">>, <<"rewrite", "replacePrefix", "to">>>>}

Durations ==
    {<<"timeouts", "request">>, <<"timeouts", "idle">>, <<"timeouts", "connect">>,
     <<"retry", "perTryTimeout">>, <<"retry", "backoff", "base">>,
     <<"retry", "backoff", "max">>, <<"rateLimit", "per">>, <<"cors", "maxAge">>,
     <<"cache", "ttl">>}

IsDuration(d) ==
    d[1] = "duration" /\ d[2] \in Nat /\ d[3] \in {"ms", "s", "m", "h"}

\* the objects are strict, a duration is a number and a unit, and the key of
\* a rate limit is one of five
Valid(m) ==
    /\ \A p \in DOMAIN m : IsField(p)
    /\ \A r \in Required : Has(m, r[1]) => r[2] \in DOMAIN m
    /\ \A p \in Durations \cap DOMAIN m : IsDuration(m[p])
    /\ Cardinality(Keys(m, <<"rateLimit", "key">>)) <= 1

\* the alternatives of a match rule are not strict: of an object of several
\* kinds the first alternative takes its own and strips the others
Parsed(m) ==
    Restrict(m, {p \in DOMAIN m :
        ~ \E i, j \in 1..3 :
            /\ i < j /\ IsRule(p) /\ Len(p) = 4 /\ p[4] = RuleKinds[j]
            /\ Append(Front(p), RuleKinds[i]) \in DOMAIN m})
=============================================================================
