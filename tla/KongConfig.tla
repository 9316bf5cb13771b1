---------------------------- MODULE KongConfig -----------------------------
(***************************************************************************)
(* packages/gateway-kong: the manifest as services, one per upstream, with *)
(* routes and plugins.                                                     *)
(***************************************************************************)
EXTENDS GatewayManifest

\* openApiPathToKong: a path without parameters is a prefix, another one a
\* pattern for the whole path
KongPath(path) ==
    [regex   |-> \E i \in DOMAIN path : path[i].is # "literal",
     pattern |-> [i \in DOMAIN path |->
                    CASE path[i].is = "wildcard" -> <<".*">>
                      [] path[i].is = "param"    -> <<"[^/]+">>
                      [] OTHER                   -> <<"text", path[i].name>>]]

\* toSeconds throws unless the duration is one of whole seconds
InSeconds(v) == IF v[1] = "duration" THEN <<"s", Milliseconds(v) \div 1000>> ELSE v
WholeSeconds(v) == Milliseconds(v) % 1000 = 0

-----------------------------------------------------------------------------
(* Plugins.                                                                *)

\* the smallest of Kong's buckets the window fits in
Bucket(per) ==
    LET s == Milliseconds(per) \div 1000
    IN  CASE s <= 1 -> "second" [] s \in 2..60 -> "minute"
          [] s \in 61..3600 -> "hour" [] OTHER -> "day"

LimitBy(m) ==
    LET key == <<"rateLimit", "key">>
    IN  CASE ~Has(m, key) -> <<"consumer">>
          [] Has(m, Append(key, "header")) ->
               <<"header", m[Append(key, "header")]>>
          [] Has(m, Append(key, "customHeader")) ->
               <<"header", m[Append(key, "customHeader")]>>
          [] OTHER -> <<"ip">>

KongMapped ==
    {<<<<"cache", "ttl">>, <<"proxy-cache", "cache_ttl">>>>,
     <<<<"cache", "methods">>, <<"proxy-cache", "request_method">>>>,
     <<<<"cache", "vary">>, <<"proxy-cache", "vary_headers">>>>,
     <<<<"headers", "request", "add">>, <<"request-transformer", "add">>>>,
     <<<<"headers", "request", "remove">>, <<"request-transformer", "remove">>>>,
     <<<<"headers", "response", "add">>, <<"response-transformer", "add">>>>,
     <<<<"headers", "response", "remove">>, <<"response-transformer", "remove">>>>}
KongCors ==
    {<<<<"cors", "origins">>, <<"cors", "origins">>>>,
     <<<<"cors", "methods">>, <<"cors", "methods">>>>,
     <<<<"cors", "headers">>, <<"cors", "headers">>>>,
     <<<<"cors", "exposeHeaders">>, <<"cors", "exposed_headers">>>>,
     <<<<"cors", "credentials">>, <<"cors", "credentials">>>>,
     <<<<"cors", "maxAge">>, <<"cors", "max_age">>>>}

KongPlugins(m, profile) ==
    Converted(Moved(FilledOnly(m), KongMapped) ++ Moved(m, KongCors), InSeconds)
      ++ LeafIf(Has(m, <<"rateLimit">>), <<"rate-limiting">>,
                <<Bucket(m[<<"rateLimit", "per">>]),
                  m[<<"rateLimit", "requests">>], LimitBy(m)>>)
      ++ LeafIf(Has(m, <<"auth", "jwt">>), <<"jwt">>, Object)
      ++ LeafIf(On(m, <<"auth", "mTLS">>) /\ profile = "enterprise",
                <<"mtls-auth">>, Object)

-----------------------------------------------------------------------------
(* Routes.                                                                 *)

KongWarnings(path, m, profile) ==
    {f \in {<<"rewrite", "stripPrefix">>} : Has(m, f) /\ KongPath(path).regex}
    \cup {f \in {<<"rewrite", "replacePrefix">>, <<"circuitBreaker">>,
                 <<"match", "host">>, <<"match", "query">>,
                 <<"match", "customQuery">>, <<"traffic">>} : Has(m, f)}
    \cup {f \in {<<"auth", "mTLS">>} : On(m, f) /\ profile # "enterprise"}
    \cup {f \in {<<"auth", "required">>} :
            On(m, f) /\ ~Has(m, <<"auth", "jwt">>) /\ ~On(m, <<"auth", "mTLS">>)}
    \cup {f \in {<<"rateLimit", "key">>} :
            Keys(m, f) \cap {"query", "customQuery"} # {}}

KongRoute(r, profile) ==
    LET m == r.metadata
    IN  Assign(Leaf(<<"name">>, r.id) ++ Leaf(<<"methods">>, r.method)
                 ++ Leaf(<<"paths">>, KongPath(r.path))
                 ++ Leaf(<<"strip_path">>, Has(m, <<"rewrite", "stripPrefix">>))
                 ++ Named(<<"headers">>, Rules(m, <<"match", "customHeaders">>)
                                           ++ Rules(m, <<"match", "headers">>))
                 ++ Planted(KongPlugins(m, profile), <<"plugins">>),
               Subtree(m, <<"extensions", "kong">>))

-----------------------------------------------------------------------------
(* Services.                                                               *)

RequestTimeout == <<"timeouts", "request">>

Timeouts(routes) ==
    {Milliseconds(r.metadata[RequestTimeout]) :
        r \in {r \in routes : RequestTimeout \in DOMAIN r.metadata}}

\* deviation: the tightest
PickTightestTimeout(routes) == {t \in Timeouts(routes) : \A u \in Timeouts(routes) : t <= u}

\* pickLoosestTimeout: Kong has one timeout for all routes of a service
PickLoosestTimeout(routes) == {t \in Timeouts(routes) : \A u \in Timeouts(routes) : u <= t}

TighterThanService(routes) ==
    {r \in routes : /\ RequestTimeout \in DOMAIN r.metadata
                    /\ \E t \in PickLoosestTimeout(routes) :
                         Milliseconds(r.metadata[RequestTimeout]) < t}

KongCanConvert(m) ==
    \A f \in {<<"cache", "ttl">>, <<"cors", "maxAge">>, <<"rateLimit", "per">>} :
        f \in DOMAIN m => WholeSeconds(m[f])

RenderKongConfig(manifest, upstreams, profile) ==
    LET routes == manifest.routes
        Of(u)  == {routes[i] : i \in {i \in DOMAIN routes :
                                 routes[i].metadata[<<"upstream">>] = u}}
        used   == {routes[i].metadata[<<"upstream">>] : i \in DOMAIN routes}
    IN  IF /\ \A i \in DOMAIN routes :
                /\ <<"upstream">> \in DOMAIN routes[i].metadata
                /\ KongCanConvert(routes[i].metadata)
           /\ used \subseteq upstreams
          THEN [failed   |-> FALSE,
                routes   |-> [i \in DOMAIN routes |-> KongRoute(routes[i], profile)],
                shared   |-> [p \in {<<"read_timeout", u>> : u \in used} |->
                                PickLoosestTimeout(Of(p[2]))],
                warnings |->
                  (UNION {{<<routes[i].id, f>> :
                              f \in KongWarnings(routes[i].path, routes[i].metadata,
                                                 profile)} : i \in DOMAIN routes})
                  \cup {<<r.id, RequestTimeout>> :
                          r \in UNION {TighterThanService(Of(u)) : u \in used}}]
          ELSE Failed
=============================================================================
