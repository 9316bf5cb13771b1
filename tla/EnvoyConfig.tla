---------------------------- MODULE EnvoyConfig ----------------------------
(***************************************************************************)
(* packages/gateway-envoy: the manifest as a static Envoy configuration.   *)
(* The document around the routes is left out; a route of it is a tree, as *)
(* metadata is.  A warning is a pair of the route and the metadata field   *)
(* it says is not mapped.                                                  *)
(***************************************************************************)
EXTENDS GatewayManifest

\* deviation: a wildcard taken for a parameter
EnvoyRegexNoWildcard(path) ==
    [i \in DOMAIN path |-> IF path[i].is = "literal" THEN <<"text", path[i].name>>
                           ELSE <<"[^/]+">>]

\* openApiPathToEnvoyRegex: one element of the pattern per segment
EnvoyRegex(path) ==
    [i \in DOMAIN path |-> CASE path[i].is = "wildcard" -> <<".*">>
                             [] path[i].is = "param"    -> <<"[^/]+">>
                             [] OTHER                   -> <<"text", path[i].name>>]

EnvoyDuration(v) == IF v[1] = "duration" THEN <<"ms", Milliseconds(v)>> ELSE v

EnvoyUnsupported(m) ==
    {f \in {<<"cache">>, <<"circuitBreaker">>, <<"auth", "jwt">>, <<"cors">>,
            <<"rateLimit">>, <<"traffic", "shadow">>, <<"match", "host">>,
            <<"rewrite">>} : Has(m, f)}
    \cup {f \in {<<"auth", "mTLS">>} : On(m, f)}
    \cup {f \in {<<"auth", "required">>} : On(m, f) /\ ~Has(m, <<"auth", "jwt">>)}
    \cup {f \in {<<"traffic", "weights">>} : Filled(m, f)}

\* buildRouteAction, buildRetryPolicy, buildRouteHeaderRules
EnvoyMapped ==
    {<<<<"timeouts", "request">>, <<"route", "timeout">>>>,
     <<<<"retry", "attempts">>, <<"route", "retry_policy", "num_retries">>>>,
     <<<<"retry", "on">>, <<"route", "retry_policy", "retry_on">>>>,
     <<<<"retry", "perTryTimeout">>, <<"route", "retry_policy", "per_try_timeout">>>>,
     <<<<"headers", "request", "add">>, <<"request_headers_to_add">>>>,
     <<<<"headers", "request", "remove">>, <<"request_headers_to_remove">>>>,
     <<<<"headers", "response", "add">>, <<"response_headers_to_add">>>>,
     <<<<"headers", "response", "remove">>, <<"response_headers_to_remove">>>>}

EnvoyHeaderMatchers(method, m) ==
    Named(<<"match", "headers">>,
          Rules(m, <<"match", "customHeaders">>) ++ Rules(m, <<"match", "headers">>)
              ++ Leaf(":method", <<"exact", method>>))

EnvoyQueryMatchers(m) ==
    Named(<<"match", "query_parameters">>,
          Rules(m, <<"match", "customQuery">>) ++ Rules(m, <<"match", "query">>))

\* deepMergeInto: what the extension says, and of the rest what it leaves
EnvoyExtended(route, m) == Merge(route, Subtree(m, <<"extensions", "envoy">>))

EnvoyRoute(r) ==
    LET m == r.metadata
    IN  EnvoyExtended(
          Leaf(<<"name">>, r.id)
            ++ Leaf(<<"match", "safe_regex">>, EnvoyRegex(r.path))
            ++ EnvoyHeaderMatchers(r.method, m) ++ EnvoyQueryMatchers(m)
            ++ Leaf(<<"route", "cluster">>, m[<<"upstream">>])
            ++ Converted(Moved(FilledOnly(m), EnvoyMapped), EnvoyDuration), m)

\* every route needs a cluster, and the cluster hosts
RenderEnvoyConfig(manifest, hosts) ==
    LET routes == manifest.routes
        used   == {routes[i].metadata[<<"upstream">>] : i \in DOMAIN routes}
    IN  IF /\ \A i \in DOMAIN routes : <<"upstream">> \in DOMAIN routes[i].metadata
           /\ \A u \in used : u \in DOMAIN hosts /\ hosts[u] # {}
          THEN [failed   |-> FALSE,
                routes   |-> [i \in DOMAIN routes |-> EnvoyRoute(routes[i])],
                shared   |-> [p \in {<<"clusters", u>> : u \in used} |-> hosts[p[2]]],
                warnings |-> UNION {{<<routes[i].id, f>> : f \in EnvoyUnsupported(routes[i].metadata)}
                                     : i \in DOMAIN routes}]
          ELSE Failed
=============================================================================
