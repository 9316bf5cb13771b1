--------------------------- MODULE MCApplication ---------------------------
(* Applications of two kinds.  In some the modules have components of      *)
(* every kind, with flags, overrides and clashing names, and nothing for   *)
(* gateways; in the others three routes carry one thing or another that    *)
(* the metadata can say, alone, over defaults, or next to each other.      *)
EXTENDS Application

None == [n \in {} |-> {}]
Class(name) == [name |-> name, routes |-> <<>>, gatewayDefaults |-> EmptyTree]
Controller(name, defaults, routes) ==
    [name |-> name, routes |-> routes, gatewayDefaults |-> defaults]
Route(key, url, m) ==
    [key |-> key, methods |-> {"GET"}, url |-> url, metadata |-> Parsed(m),
     preHandlers |-> <<"own">>, rateLimit |-> "own"]
Pair(name, resolver) == [name |-> name, resolver |-> resolver]

Names0 == <<"a", "events", "files", "id", "me", "users", "wildcard">>
ThreeWords == {"users", "me", "files"}
-----------------------------------------------------------------------------
Options(queues, consumers) ==
    [jobQueuesEnabled |-> queues, messageQueueConsumersEnabled |-> consumers,
     enqueuedJobWorkersEnabled |-> All, periodicJobsEnabled |-> Listed({"job"})]

Events(class, name) ==
    Pair("eventsController",
         AsSSEControllerClass(Controller(class, EmptyTree,
             <<Route("stream", <<Literal("events"), Literal(name)>>, EmptyTree)>>), None))
Chat == Pair("chatController",
             AsDualModeControllerClass(Controller("Chat", EmptyTree,
                 <<Route("chat", <<Literal("a")>>, EmptyTree)>>), None))
Users == Pair("userController",
              AsControllerClass(Controller("Users", EmptyTree,
                  <<Route("list", <<Literal("users")>>, EmptyTree)>>), None))
Files == Pair("fileController",
              AsApiControllerClass(Controller("Files", EmptyTree,
                  <<Route("list", <<Literal("files")>>, EmptyTree)>>), None))

Workers(o) ==
    [deps |-> ("userService" :> AsServiceClass(Class("UserService"), None))
        @@ ("repository" :> AsRepositoryClass(Class("Repository"), None))
        @@ ("consumer" :> AsMessageQueueHandlerClass(Class("Consumer"), "t", o, None))
        @@ ("worker" :> AsEnqueuedJobWorkerClass(Class("Worker"), "q1", o, None))
        @@ ("boss" :> AsPgBossProcessorClass(Class("Boss"), "q1", o, None))
        @@ ("job" :> AsPeriodicJobClass(Class("Job"), "job", o, None))
        @@ ("q1" :> AsJobQueueClass(Class("Q1"), "q1", o, None))
        @@ ("q2" :> AsJobQueueClass(Class("Q2"), "q2", o, None))
        @@ ("manager" :> AsEnqueuedJobQueueManagerFunction(Class("Manager"), o, None)),
     controllers |-> <<Users, Events("EventsA", "a"), Files, Chat>>]

Audit(o) ==
    [deps |-> ("userService" :> AsUseCaseClass(Class("AuditService"), None))
        @@ ("repository" :> AsRepositoryClass(Class("AuditRepository"), None))
        @@ ("secret" :> AsClassWithConfig(Class("Secret"), [lifetime |-> "SCOPED"]))
        @@ ("config" :> AsSingletonFunction(Class("Config"), None)),
     controllers |-> <<Events("EventsB", "me")>>]

Mock(name) == Pair(name, AsClass(Class("Mock"), None))

Declared(modules, secondary, overrides, withControllers) ==
    [modules |-> modules, secondary |-> secondary, overrides |-> overrides,
     resolveControllers |-> withControllers,
     routeOptions |-> [preHandlers |-> <<"all">>, rateLimit |-> "all"],
     gatewayDefaults |-> {}, upstreams |-> {}, profile |-> "oss"]

Flags == {Options(q, Off) : q \in {Off, All, Listed({}), Listed({"q1"})}}
           \cup {Options(Listed({"q2"}), c) : c \in {All, Listed({"t"}), Listed({"u"})}}

Composed ==
    {Declared(<<Workers(o)>>, <<Audit(o)>>, <<>>, TRUE) : o \in Flags}
    \cup UNION {{Declared(<<Workers(o), Audit(o)>>, <<>>, <<Mock("secret")>>, TRUE),
                 Declared(<<Audit(o)>>, <<Workers(o)>>, <<Mock("secret"), Mock("none"), Mock("repository")>>, TRUE),
                 Declared(<<Workers(o)>>, <<Audit(o)>>,
                          <<Mock("consumer"), Mock("worker")>>, FALSE)}
                  : o \in {Options(All, All)}}
-----------------------------------------------------------------------------
T(s) == Text(s)
Upstream == Leaf(<<"upstream">>, T("u"))
Request0(n, u) == Leaf(RequestTimeout, Duration(n, u))
RateLimit(n, u) == Leaf(<<"rateLimit", "requests">>, Number(10))
                     @@ Leaf(<<"rateLimit", "per">>, Duration(n, u))
By(kind) == Leaf(<<"rateLimit", "key", kind>>, T("x"))
Origins(s) == Leaf(<<"cors", "origins">>, List({s}))
Jwt == Leaf(<<"auth", "jwt", "issuer">>, T("i"))
       @@ Leaf(<<"auth", "jwt", "audiences">>, List({"a"}))
       @@ Leaf(<<"auth", "jwt", "jwksUri">>, T("k"))
Needed == Leaf(<<"auth", "required">>, Flag(TRUE))
MTLS == Leaf(<<"auth", "mTLS">>, Flag(TRUE))
Cache == Leaf(<<"cache", "ttl">>, Duration(60, "s"))
         @@ Leaf(<<"cache", "methods">>, List({"GET"})) @@ Leaf(<<"cache", "vary">>, List({"x"}))
Rule(kind) == IF kind = "text" THEN Leaf(<<"match", "headers", "x">>, T("v"))
              ELSE Leaf(<<"match", "headers", "x", kind>>, T(kind))
SegmentsOf(names) == <<"path", [i \in DOMAIN names |-> Literal(names[i])]>>

Aspects ==
    {EmptyTree,
     Request0(5, "s") @@ Leaf(<<"timeouts", "idle">>, Duration(1, "m"))
       @@ Leaf(<<"retry", "attempts">>, Number(2)) @@ Leaf(<<"retry", "on">>, List({"5xx"}))
       @@ Leaf(<<"retry", "perTryTimeout">>, Duration(300, "ms")),
     Leaf(<<"retry", "on">>, List({"reset"})) @@ Leaf(<<"retry", "backoff", "base">>, Duration(1, "s")),
     Leaf(<<"circuitBreaker", "maxRequests">>, Number(9)),
     RateLimit(1, "s"), RateLimit(60, "s") @@ Leaf(<<"rateLimit", "key">>, T("ip")),
     RateLimit(90, "s") @@ By("header"), RateLimit(3600, "s") @@ By("customHeader"),
     RateLimit(2, "h") @@ By("query"), RateLimit(48, "h"), RateLimit(500, "ms"),
     Leaf(<<"traffic", "weights">>, List({})), Leaf(<<"traffic", "weights">>, List({"w"})),
     Leaf(<<"traffic", "shadow", "upstream">>, T("u")) @@ Leaf(<<"traffic", "shadow", "percent">>, Number(5)),
     Origins("x") @@ Leaf(<<"cors", "methods">>, List({"GET"}))
       @@ Leaf(<<"cors", "credentials">>, Flag(TRUE)) @@ Leaf(<<"cors", "maxAge">>, Duration(1, "h")),
     Needed, Jwt, Needed @@ Jwt, MTLS, Needed @@ MTLS, Cache,
     Leaf(<<"headers", "request", "add", "x">>, T("1"))
       @@ Leaf(<<"headers", "response", "remove">>, List({"y"})),
     Leaf(<<"match", "customHeaders", "y", "prefix">>, T("p")) @@ Rule("text")
       @@ Leaf(<<"match", "query", "q", "regex">>, T("r")) @@ Leaf(<<"match", "host">>, T("h")),
     Leaf(<<"rewrite", "stripPrefix">>, SegmentsOf(<<"users">>)),
     Leaf(<<"rewrite", "replacePrefix", "from">>, SegmentsOf(<<"users">>))
       @@ Leaf(<<"rewrite", "replacePrefix", "to">>, SegmentsOf(<<"a", "me">>)),
     Leaf(<<"tags">>, List({"t"})) @@ Leaf(<<"id">>, T("one")),
     Request0(5, "s") @@ Leaf(<<"retry", "attempts">>, Number(2))
       @@ Leaf(<<"extensions", "envoy", "route", "regex_rewrite">>, T("e")),
     Cache @@ Leaf(<<"extensions", "krakend", "qos/http-cache", "shared">>, Flag(TRUE)),
     Cache @@ Leaf(<<"extensions", "kong", "hosts">>, List({"h"}))}

Wired(service, controller, a, b, c, profile) ==
    [Declared(<<[deps |-> None,
                 controllers |->
                   <<Pair("userController", AsControllerClass(
                        Controller("Users", controller,
                          <<Route("get", <<Literal("users"), Param("id")>>, a),
                            Route("me", <<Literal("users"), Literal("me")>>, b)>>), None)),
                     Pair("fileController", AsApiControllerClass(
                        Controller("Files", EmptyTree,
                          <<Route("file", <<Literal("files"), Wildcard>>, c)>>), None))>>]>>,
              <<>>, <<>>, TRUE)
        EXCEPT !.gatewayDefaults = {service}, !.upstreams = {T("u")}, !.profile = profile]

Alone0 == {Wired(Upstream, EmptyTree, a, EmptyTree, EmptyTree, p) :
             a \in Aspects, p \in {"oss", "enterprise"}}
Layered == {Wired(Upstream @@ s, c, a, EmptyTree, EmptyTree, "oss") :
              s \in {EmptyTree, Rule("exact") @@ Request0(1, "s"), RateLimit(1, "m") @@ By("query")},
              c \in {EmptyTree, Rule("prefix") @@ Cache, Rule("text")},
              a \in {Rule("regex"), Rule("prefix") @@ Request0(9, "s"),
                     RateLimit(1, "s") @@ By("header"), Rule("text")}}
Together == {Wired(Upstream, EmptyTree, x[1] @@ x[2], y[1] @@ y[2], EmptyTree, "oss") :
               x, y \in {EmptyTree, Request0(1, "s"), Request0(2, "s")} \X
                        {EmptyTree, Origins("x"), Origins("x") @@ Leaf(<<"cors", "credentials">>, Flag(TRUE))}}

Odd == {[Wired(Upstream, EmptyTree, EmptyTree, EmptyTree, EmptyTree, "oss")
           EXCEPT !.modules[1].controllers[1].resolver.of.routes[1].url[2] = s] :
          s \in {Param("wildcard"), Optional("id"), Segment("odd", "id")}}

SomeApps == Odd \cup Composed \cup Alone0 \cup Layered \cup Together
=============================================================================
