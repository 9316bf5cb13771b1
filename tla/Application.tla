---------------------------- MODULE Application ----------------------------
(***************************************************************************)
(* An application and the gateways in front of it: the controllers that    *)
(* DIContext registered are collected into a manifest, at any time and any *)
(* number of times, and a manifest is rendered for three gateways.         *)
(***************************************************************************)
EXTENDS DIContext, EnvoyConfig, KongConfig, KrakendConfig

CONSTANTS
    Words,      \* bound: what a segment of a requested path may be
    MaxWords    \* bound: how many segments it has

ASSUME WordsAssumption == MaxWords \in Nat

VARIABLES
    manifest,   \* of the last buildGatewayManifest, or NotBuilt
    configs     \* what each gateway was given of that manifest, or NotBuilt

gatewayVars == <<manifest, configs>>
allVars == <<vars, gatewayVars>>

Gateways == {"envoy", "kong", "krakend"}
NotBuilt == [failed |-> TRUE, routes |-> "none"]

-----------------------------------------------------------------------------
Collected ==
    [i \in DOMAIN rest |-> [name |-> rest[i].name,
                            defaults |-> rest[i].resolver.of.gatewayDefaults,
                            routes |-> rest[i].resolver.of.routes]]
      \o [i \in DOMAIN api |-> [name |-> api[i],
                                defaults |-> container[api[i]].of.gatewayDefaults,
                                routes |-> container[api[i]].of.routes]]

\* what a caller of the plugin's buildGatewayManifest passes replaces the
\* defaults the plugin was given
BuildGatewayManifest(defaults) ==
    /\ phase \notin {"new", "halted"}
    /\ manifest' = BuildGatewayManifestFrom(Collected, defaults)
    /\ configs' = [g \in Gateways |-> NotBuilt]
    /\ UNCHANGED vars

Render(g, m) ==
    CASE g = "envoy" -> RenderEnvoyConfig(m, [u \in app.upstreams |-> {"host"}])
      [] g = "kong"  -> RenderKongConfig(m, app.upstreams, app.profile)
      [] g = "krakend" -> RenderKrakendConfig(m, app.upstreams)

RenderConfig(g) ==
    /\ ~manifest.failed
    /\ configs' = [configs EXCEPT ![g] = Render(g, manifest)]
    /\ UNCHANGED <<vars, manifest>>

InitApplication ==
    Init /\ manifest = NotBuilt /\ configs = [g \in Gateways |-> NotBuilt]

Lifecycle ==
    \/ RegisterDependencies
    \/ RegisterRoutes \/ RegisterSSERoutes \/ RegisterDualModeRoutes
    \/ BeginInit \/ InitDone \/ Destroy \/ DestroyDone
    \/ \E n \in DOMAIN container :
         \/ Start(n) \/ StartFails(n) \/ Dispose(n) \/ DisposeFails(n)
         \/ Request(n) \/ OpenSession(n) \/ CloseSession(n)

NextApplication ==
    \/ Lifecycle /\ UNCHANGED gatewayVars
    \/ \E d \in app.gatewayDefaults : BuildGatewayManifest(d)
    \/ \E g \in Gateways : RenderConfig(g)

Spec == InitApplication /\ [][NextApplication]_allVars

-----------------------------------------------------------------------------
(* Registration, start and shutdown.                                       *)

TypeOK ==
    /\ phase \in {"new", "registered", "starting", "running", "halted",
                  "destroying", "destroyed"}
    /\ ToSet(sse) \cup ToSet(dual) \cup ToSet(api) \subseteq DOMAIN container
    /\ todo \cup up \cup sessions \cup requests \subseteq DOMAIN container
    /\ phase \notin {"starting", "destroying"} => todo = {}
    /\ failures \in 0..MaxFailures

\* the declarations of n that have a right to it, the last one first: what a
\* controller is called wins over a dependency of its module, a later module
\* over an earlier, and secondary modules give only what is public
Claims(a, n) ==
    LET secondary == {<<2, i, 1, a.secondary[i].deps[n]>> : i \in
            {i \in DOMAIN a.secondary : n \in DOMAIN Public(a.secondary[i].deps)}}
        primary == {<<1, i, 1, a.modules[i].deps[n]>> : i \in
            {i \in DOMAIN a.modules : n \in DOMAIN a.modules[i].deps}}
        controllers == UNION {
            {<<1, i, 1 + j, a.modules[i].controllers[j].resolver>> : j \in
                {j \in DOMAIN a.modules[i].controllers :
                    /\ a.resolveControllers
                    /\ a.modules[i].controllers[j].name = n
                    /\ a.modules[i].controllers[j].resolver.controller
                           \in {"sse", "dual", "api"}}}
            : i \in DOMAIN a.modules}
    IN  secondary \cup primary \cup controllers

Later(x, y) == \/ x[1] > y[1]
               \/ x[1] = y[1] /\ x[2] > y[2]
               \/ x[1] = y[1] /\ x[2] = y[2] /\ x[3] > y[3]

\* Every name in the container belongs to the last declaration that has a
\* right to it, and nothing private of a secondary module is there; an
\* override replaces the class and not the lifetime, unless one before it is
\* of a name nobody declares (DIContext.ts:116, 140).
NamesBelongToTheirOwners ==
    phase # "new" =>
      \A n \in DOMAIN container :
        LET overriding == {i \in DOMAIN app.overrides :
                             /\ app.overrides[i].name = n
                             /\ \A j \in 1 .. i : Claims(app, app.overrides[j].name) # {}}
        IN  \E winner \in Claims(app, n) :
              /\ \A other \in Claims(app, n) \ {winner} : Later(winner, other)
              /\ container[n].lifetime = winner[4].lifetime
              /\ \A i \in overriding : container[n].of = app.overrides[i].resolver.of
              /\ overriding = {} => container[n].of = winner[4].of

DepsOf(module) ==
    {[name |-> n, resolver |-> module.deps[n]] : n \in DOMAIN module.deps}
Declarations(a) ==
    LET controllers == UNION {ToSet(module.controllers) : module \in ToSet(a.modules)}
        modules == ToSet(a.modules) \cup ToSet(a.secondary)
        deps == UNION {DepsOf(module) : module \in modules}
    IN  controllers \cup deps \cup ToSet(a.overrides)

\* as the functions of Resolvers make them: what is started is disposed of,
\* in its place
InItsPlace(r) ==
    /\ r.enabled /\ (r.asyncInit # "none" \/ r.eagerInject # FALSE) => r.asyncDispose # "none"
    /\ r.asyncDispose = "closeAllConnections" => r.asyncDisposePriority = 5
    /\ r.by = "consumer" => r.asyncDisposePriority = 10
    /\ r.by = "worker" => r.asyncDisposePriority = 15
    /\ r.by \in {"queue", "manager"} => r.asyncDisposePriority = 20

\* what order at shutdown takes of an application: its resolvers are left as
\* they were made, and nothing but another streaming controller takes the
\* name of one
Orderly(a) ==
    /\ \A d \in Declarations(a) : InItsPlace(d.resolver)
    /\ \A c, d \in Declarations(a) :
          c.name = d.name /\ c.resolver.controller \in {"sse", "dual"} =>
             d.resolver.enabled /\ d.resolver.asyncDispose = "closeAllConnections"

\* what must be disposed of first has the lower rank; 9: no matter when
Rank(n) == CASE container[n].by = "consumer" -> 1
             [] container[n].by = "worker"   -> 2
             [] container[n].by \in {"queue", "manager"} -> 3
             [] OTHER -> 9

\* When a consumer, worker or queue is disposed of, the sessions that were
\* open when destroy began have been closed, and nothing that feeds on it is
\* still up: consumers stop before workers, workers before queues, also when
\* an earlier start or disposal failed (resolverFunctions.ts:212-439).
ShutdownInOrder ==
    [][\A n \in up \ up' :
         Rank(n) < 9 => /\ atShutdown \cap sessions' = {}
                        /\ \A m \in up' : Rank(m) >= Rank(n)]_vars

\* When destroy resolves, everything that was started is disposed of, however
\* many times it had failed before, and of the sessions that were open then
\* none is left (DIContext.ts:439).
NothingLeftRunning ==
    phase = "destroyed" => up = {} /\ atShutdown \cap sessions = {}

-----------------------------------------------------------------------------
(* Gateways.                                                               *)

\* what the classes of controllers declare: metadata is a tree whose paths
\* are names, and Fastify takes a url that begins with a slash
IsTree(m) == DOMAIN m \subseteq Seq(STRING)

Segments == [is : SegmentKinds, name : ToSet(Alphabet), optional : BOOLEAN]

IsClass(class) ==
    /\ IsTree(class.gatewayDefaults)
    /\ class.routes \in Seq(ToSet(class.routes))
    /\ \A i \in DOMAIN class.routes :
          /\ class.routes[i].url \in Seq(Segments) \ {<<>>}
          /\ IsTree(class.routes[i].metadata)

ASSUME GatewayAssumption ==
    \A a \in Apps :
        /\ \A d \in a.gatewayDefaults : IsTree(d)
        /\ \A d \in Declarations(a) : IsClass(d.resolver.of)

Entries == ToSet(CollectRouteEntries(Collected))

Built == ~manifest.failed

LastWord(r, e) ==
    LET own == e.route.metadata
    IN  \A p \in DOMAIN own :
          \/ p \in DOMAIN r.metadata /\ r.metadata[p] = own[p]
          \/ /\ IsRule(p) /\ Len(p) = 4
             /\ \E i, j \in 1..3 : /\ i < j /\ p[4] = RuleKinds[j]
                                  /\ Append(Front(p), RuleKinds[i]) \in DOMAIN r.metadata

\* What a route says for itself is what the manifest says of it, whatever
\* service and controller say: unless it gives a match rule of another kind
\* than theirs, of which the first kind is kept (buildManifest.ts:57).
RouteHasTheLastWord ==
    Built =>
      /\ \A e \in Entries : \E r \in ToSet(manifest.routes) :
            r.origin = Origin(e) /\ LastWord(r, e)
      /\ \A r \in ToSet(manifest.routes) : \E e \in Entries :
            r.origin = Origin(e) /\ LastWord(r, e)

Paths == UNION {[1..n -> Words] : n \in 1..MaxWords}

\* paths as Fastify (external) matches them, an optional parameter present
Serves(url, words) ==
    /\ \A i \in DOMAIN url : url[i].is = "literal" => i <= Len(words) /\ url[i].name = words[i]
    /\ Len(words) = Len(url) \/ (Last(url).is = "wildcard" /\ Len(words) > Len(url))

\* and as the gateways match their patterns
Matches(pattern, words) ==
    /\ \A i \in DOMAIN pattern :
         pattern[i][1] = "text" => i <= Len(words) /\ pattern[i][2] = words[i]
    /\ \/ Len(words) = Len(pattern)
       \/ Last(pattern) = <<".*">> /\ Len(words) > Len(pattern)

KongMatches(paths, words) ==
    IF paths.regex THEN Matches(paths.pattern, words)
    ELSE Matches(paths.pattern, SubSeq(words, 1, Len(paths.pattern)))

\* extensions may replace what is generated, and a parameter that is called
\* wildcard becomes one
Reaches(i, e) ==
    LET r     == manifest.routes[i]
        url   == e.route.url
        plain == \A k \in DOMAIN url : url[k].is = "param" => url[k].name # "wildcard"
    IN  /\ r.origin = Origin(e)
        /\ \A words \in Paths :
             /\ ~configs["envoy"].failed /\ ~Has(r.metadata, <<"extensions", "envoy", "match">>) =>
                  LET regex == configs["envoy"].routes[i][<<"match", "safe_regex">>]
                  IN  /\ Serves(url, words) => Matches(regex, words)
                      /\ plain /\ Matches(regex, words) => Serves(url, words)
             /\ ~configs["kong"].failed /\ ~Has(r.metadata, <<"extensions", "kong", "paths">>) =>
                  (Serves(url, words) =>
                     KongMatches(configs["kong"].routes[i][<<"paths">>], words))

\* A route of Envoy matches exactly the paths Fastify serves with the route
\* it was made from, and that of Kong at least those (pathMatch.ts of both;
\* an optional parameter that is left out is not among them).
GatewaysReachRoutes ==
    Built =>
      /\ \A e \in Entries : \E i \in DOMAIN manifest.routes : Reaches(i, e)
      /\ \A i \in DOMAIN manifest.routes : \E e \in Entries : Reaches(i, e)

-----------------------------------------------------------------------------
(* What a gateway makes of the metadata.                                   *)

\* the fields a gateway neither maps nor warns of
Silent(g) ==
    {<<"id">>, <<"tags">>, <<"timeouts", "idle">>, <<"timeouts", "connect">>}
    \cup CASE g = "envoy"   -> {<<"retry", "backoff">>}
           [] g = "kong"    -> {<<"retry">>, <<"auth", "jwt", "audiences">>,
                                <<"auth", "jwt", "jwksUri">>}
           [] g = "krakend" -> {<<"match", "headers">>, <<"match", "customHeaders">>,
                                <<"match", "query">>, <<"match", "customQuery">>,
                                <<"cache", "methods">>, <<"retry", "on">>,
                                <<"retry", "perTryTimeout">>, <<"retry", "backoff">>}

Says(g, m, p) ==
    /\ m[p] \notin {List({}), Flag(FALSE)}
    /\ \A q \in Silent(g) : ~IsPrefix(q, p)
    /\ p[1] = "extensions" => p[2] = g
    /\ p = <<"auth", "required">> => ~Has(m, <<"auth", "jwt">>) /\ ~On(m, <<"auth", "mTLS">>)

\* the leaf, or the smallest object around it that may be left out
Removable(m, p) ==
    LET n == Max({n \in 1..Len(p) : Valid(Without(m, SubSeq(p, 1, n)))})
    IN  SubSeq(p, 1, n)

Alone(r) == [failed |-> FALSE, routes |-> <<r>>]

\* Whatever a route declares changes what the gateway is given or is named
\* in a warning, apart from the fields in Silent: also when an extension
\* adds to what is generated (gatewayMetadata.ts:163, render.ts of each).
NothingDroppedSilently ==
    Built => \A g \in Gateways : ~configs[g].failed =>
      \A r \in ToSet(manifest.routes) :
        LET m == r.metadata  whole == Render(g, Alone(r))
        IN  \A p \in {p \in DOMAIN m : Says(g, m, p)} :
              \/ \E w \in whole.warnings : IsPrefix(w[2], p)
              \/ whole # Render(g, Alone([r EXCEPT !.metadata =
                                            Without(m, Removable(m, p))]))

\* how many milliseconds one request of a bucket stands for at least
BucketSpan(b) == CASE b = "second" -> 1000     [] b = "minute" -> 60000
                   [] b = "hour"   -> 3600000  [] b = "day"    -> 86400000

\* Kong never cuts a request off earlier than its route allows, warns of
\* every route whose requests may take longer than it allows, and limits
\* the rate as strictly as the route asks, for windows of a day at most and
\* plugins that no extension replaces (gateway-kong/src/render.ts:108, 182, 283).
KongKeepsLimits ==
    Built /\ ~configs["kong"].failed =>
      \A i \in DOMAIN manifest.routes :
        LET r == manifest.routes[i]  m == r.metadata
            service == configs["kong"].shared[<<"read_timeout", m[<<"upstream">>]>>]
            limit == <<"plugins", "rate-limiting">>
            plugins == configs["kong"].routes[i]
        IN  /\ RequestTimeout \in DOMAIN m =>
                 \A t \in service :
                   /\ t >= Milliseconds(m[RequestTimeout])
                   /\ t > Milliseconds(m[RequestTimeout]) =>
                        <<r.id, RequestTimeout>> \in configs["kong"].warnings
            /\ limit \in DOMAIN plugins /\ ~Has(m, <<"extensions", "kong", "plugins">>) =>
                 LET per == Milliseconds(m[<<"rateLimit", "per">>])
                 IN  per <= 86400000 => BucketSpan(plugins[limit][1]) >= per

\* The CORS policy of a route is the one KrakenD is given for all of them,
\* or the route is named in a warning (gateway-krakend/src/render.ts:270).
CorsKeptOrReported ==
    Built /\ ~configs["krakend"].failed =>
      \A r \in ToSet(manifest.routes) :
        Has(r.metadata, <<"cors">>) =>
          \/ configs["krakend"].shared = Planted(Cors(r), <<"security/cors">>)
          \/ <<r.id, <<"cors">>>> \in configs["krakend"].warnings
=============================================================================
