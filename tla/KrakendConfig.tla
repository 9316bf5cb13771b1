--------------------------- MODULE KrakendConfig ---------------------------
(***************************************************************************)
(* packages/gateway-krakend: the manifest as KrakenD endpoints.  KrakenD   *)
(* has one CORS policy for all of them.                                    *)
(***************************************************************************)
EXTENDS GatewayManifest

\* applyRewrite: prefixes are taken at whole segments, and the path of no
\* segments is "/"
ApplyRewrite(path, m) ==
    LET strip == <<"rewrite", "stripPrefix">>
        from  == <<"rewrite", "replacePrefix", "from">>
        to    == <<"rewrite", "replacePrefix", "to">>
        After(p) == SubSeq(path, Len(p[2]) + 1, Len(path))
    IN  CASE from \in DOMAIN m /\ IsPrefix(m[from][2], path) ->
               m[to][2] \o After(m[from])
          [] from \notin DOMAIN m /\ strip \in DOMAIN m
               /\ IsPrefix(m[strip][2], path) -> After(m[strip])
          [] OTHER -> path

KrakendMapped ==
    {<<<<"cache", "ttl">>, <<"qos/http-cache", "ttl">>>>,
     <<<<"cache", "vary">>, <<"qos/http-cache", "vary">>>>,
     <<<<"auth", "jwt", "issuer">>, <<"auth/validator", "issuer">>>>,
     <<<<"auth", "jwt", "audiences">>, <<"auth/validator", "audience">>>>,
     <<<<"auth", "jwt", "jwksUri">>, <<"auth/validator", "jwk_url">>>>}

\* a limit by address or header is one per client, any other a shared one
RateLimitExtra(m) ==
    LET key     == <<"rateLimit", "key">>
        headers == Keys(m, key) \cap {"header", "customHeader"}
        perClient == key \in DOMAIN m \/ headers # {}
    IN  Moved(m, {<<<<"rateLimit", "requests">>,
                    <<"qos/ratelimit/router",
                      IF perClient THEN "client_max_rate" ELSE "max_rate">>>>,
                  <<<<"rateLimit", "per">>, <<"qos/ratelimit/router", "every">>>>})
          ++ LeafIf(key \in DOMAIN m, <<"qos/ratelimit/router", "strategy">>, <<"ip">>)
          ++ LeafIf(headers # {}, <<"qos/ratelimit/router", "strategy">>,
                    <<"header", {m[Append(key, h)] : h \in headers}>>)

\* deviation: a block is replaced by the entry of its name
ExtraExtendedFlat(extra, m) == Assign(extra, Subtree(m, <<"extensions", "krakend">>))

\* an entry of the extension is spread over the block of its name
ExtraExtended(extra, m) ==
    LET ext == Subtree(m, <<"extensions", "krakend">>)
        Replaced(p, q) == p[1] = q[1] /\ (Len(q) > 1 => p[2] = q[2])
    IN  ext ++ Restrict(extra, {p \in DOMAIN extra :
                                  \A q \in DOMAIN ext : ~Replaced(p, q)})

EndpointExtraConfig(m) ==
    ExtraExtended(Moved(FilledOnly(m), KrakendMapped) ++ RateLimitExtra(m), m)

KrakendWarnings(m) ==
    {f \in {<<"headers", "request">>, <<"headers", "response">>,
            <<"match", "host">>, <<"traffic">>, <<"circuitBreaker">>} : Has(m, f)}
    \cup {f \in {<<"auth", "mTLS">>} : On(m, f)}
    \cup {f \in {<<"auth", "required">>} : On(m, f) /\ ~Has(m, <<"auth", "jwt">>)}
    \cup {f \in {<<"retry">>} : <<"retry", "attempts">> \in DOMAIN m}
    \cup {f \in {<<"rateLimit", "key">>} :
            Keys(m, f) \cap {"query", "customQuery"} # {}}

KrakendEndpoint(r) ==
    LET m == r.metadata
    IN  Leaf(<<"endpoint">>, r.path) ++ Leaf(<<"method">>, r.method)
          ++ Leaf(<<"url_pattern">>, ApplyRewrite(r.path, m))
          ++ Moved(m, {<<<<"timeouts", "request">>, <<"timeout">>>>})
          ++ Planted(EndpointExtraConfig(m), <<"extra_config">>)

\* buildGlobalExtraConfig: the CORS policy of the first route that has one is
\* that of all endpoints, with a warning if others differ
CorsRoutes(routes) == {i \in DOMAIN routes : Has(routes[i].metadata, <<"cors">>)}
Cors(r) == Subtree(r.metadata, <<"cors">>)

GlobalCors(routes) ==
    IF CorsRoutes(routes) = {} THEN EmptyTree
    ELSE Planted(Cors(routes[First(CorsRoutes(routes))]), <<"security/cors">>)

\* deviation: only the origins are compared
CorsDroppedByOrigin(routes) ==
    LET with  == CorsRoutes(routes)
        first == First(with)
    IN  IF \E i \in with :
             Cors(routes[i])[<<"origins">>] # Cors(routes[first])[<<"origins">>]
          THEN {<<routes[i].id, <<"cors">>>> : i \in with \ {first}}
          ELSE {}

CorsDropped(routes) ==
    LET with  == CorsRoutes(routes)
        first == First(with)
    IN  IF \E i \in with : Cors(routes[i]) # Cors(routes[first])
          THEN {<<routes[i].id, <<"cors">>>> : i \in with \ {first}}
          ELSE {}

RenderKrakendConfig(manifest, upstreams) ==
    LET routes == manifest.routes
    IN  IF \A i \in DOMAIN routes :
             /\ <<"upstream">> \in DOMAIN routes[i].metadata
             /\ routes[i].metadata[<<"upstream">>] \in upstreams
          THEN [failed   |-> FALSE,
                routes   |-> [i \in DOMAIN routes |-> KrakendEndpoint(routes[i])],
                shared   |-> GlobalCors(routes),
                warnings |->
                  (UNION {{<<routes[i].id, f>> : f \in KrakendWarnings(routes[i].metadata)}
                           : i \in DOMAIN routes}) \cup CorsDropped(routes)]
          ELSE Failed
=============================================================================
