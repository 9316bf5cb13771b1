----------------------------- MODULE DIContext -----------------------------
(***************************************************************************)
(* The life of an application built with lib/DIContext.ts: dependencies    *)
(* and controllers of modules are registered, routes are handed to         *)
(* Fastify, components are started, SSE sessions open, and everything is   *)
(* disposed of again.  Starting and disposing await one component after    *)
(* the other, and each may fail.                                           *)
(*                                                                         *)
(* What the application declares is app, chosen once:                      *)
(*   modules, secondary  sequences of modules; a module has deps, a        *)
(*                       function from names to resolvers, and             *)
(*                       controllers, a sequence of [name, resolver]       *)
(*   overrides           a sequence of [name, resolver]                    *)
(*   resolveControllers  FALSE for AbstractTestContextFactory              *)
(*   routeOptions        preHandlers and rateLimit for streaming routes    *)
(* The classes of controllers have routes, a sequence of records with at   *)
(* least key, methods and url.                                             *)
(***************************************************************************)
EXTENDS Resolvers, SequencesExt

CONSTANTS
    Apps,          \* bound: what the application may declare
    MaxFailures    \* bound: failing starts and disposals

ASSUME MaxFailuresAssumption == MaxFailures \in Nat

\* what resolveDependencies and resolveControllers return, and the overrides,
\* are objects: a name stands once in each
NamedOnce(pairs) ==
    \A i, j \in DOMAIN pairs : pairs[i].name = pairs[j].name => i = j

IsModule(module) ==
    /\ module.controllers \in Seq(ToSet(module.controllers))
    /\ NamedOnce(module.controllers)
    /\ \A i \in DOMAIN module.controllers : IsResolver(module.controllers[i].resolver)
    /\ \A n \in DOMAIN module.deps : IsResolver(module.deps[n])

ASSUME AppsAssumption ==
    \A a \in Apps :
        /\ a.modules \in Seq(ToSet(a.modules))
        /\ a.secondary \in Seq(ToSet(a.secondary))
        /\ a.overrides \in Seq(ToSet(a.overrides)) /\ NamedOnce(a.overrides)
        /\ \A i \in DOMAIN a.modules : IsModule(a.modules[i])
        /\ \A i \in DOMAIN a.secondary : IsModule(a.secondary[i])
        /\ \A i \in DOMAIN a.overrides : IsResolver(a.overrides[i].resolver)

VARIABLES
    app,
    phase,       \* "new", "registered", "starting", "running", "destroying",
                 \* "destroyed"; "halted" when one of the methods threw
    container,   \* name -> resolver: the registrations of the container
    rest,        \* controllerResolvers: [name, resolver] of REST controllers
    sse, dual, api,   \* names of the controllers that are in the container
    served,      \* the routes Fastify has accepted
    routed,      \* kinds of controllers whose routes have been registered
    todo,        \* names the awilix manager has still to start or dispose
    up,          \* names started and not disposed
    sessions,    \* controllers with an open session
    requests,    \* controllers with a request whose handler has not started
    atShutdown,  \* history: sessions open when destroy began
    failures

context == <<container, rest, sse, dual, api>>
routing == <<served, routed>>
running == <<todo, up, sessions, requests, atShutdown, failures>>
vars == <<app, phase, context, routing, running>>

-----------------------------------------------------------------------------
(* Registration.                                                           *)

Nothing == [n \in {} |-> {}]

Public(deps) == Restrict(deps, {n \in DOMAIN deps : deps[n].public})

\* the controllers of a kind that the modules have, in order
ControllersOf(a, kind) ==
    LET all == FlattenSeq([i \in DOMAIN a.modules |-> a.modules[i].controllers])
        found[i \in 0 .. Len(all)] ==
            IF i = 0 THEN <<>>
            ELSE IF all[i].resolver.controller = kind THEN Append(found[i - 1], all[i])
            ELSE found[i - 1]
    IN  found[Len(all)]

\* deviation: whether there are to be controllers is not asked
RegisterControllersAlways(a, kind) == ControllersOf(a, kind)

\* the names registerControllers files under one kind, in order
RegisterControllers(a, kind) ==
    IF a.resolveControllers THEN ControllersOf(a, kind) ELSE <<>>
Names(pairs) == [i \in DOMAIN pairs |-> pairs[i].name]

\* what a primary module registers: its dependencies, and over them its
\* controllers that are resolved from the container
Offered(a, module) ==
    LET filed == {i \in DOMAIN module.controllers :
                    /\ a.resolveControllers
                    /\ module.controllers[i].resolver.controller \in {"sse", "dual", "api"}}
        At(n) == CHOOSE i \in filed : module.controllers[i].name = n
    IN  [n \in {module.controllers[i].name : i \in filed} |->
            module.controllers[At(n)].resolver] ++ module.deps

\* one after the other into one object
Assigned(objects) ==
    LET upto[i \in 0 .. Len(objects)] ==
            IF i = 0 THEN Nothing ELSE objects[i] ++ upto[i - 1]
    IN  upto[Len(objects)]

\* deviation: secondary modules give all they have
TargetDiConfigLeaky(a) ==
    Assigned([i \in DOMAIN a.modules |-> Offered(a, a.modules[i])]
               \o [i \in DOMAIN a.secondary |-> a.secondary[i].deps])
\* registerModule for every module, primary ones first
TargetDiConfig(a) ==
    Assigned([i \in DOMAIN a.modules |-> Offered(a, a.modules[i])]
               \o [i \in DOMAIN a.secondary |-> Public(a.secondary[i].deps)])

\* the overrides before one of an unknown name, which throws
Applied(a, target) ==
    {i \in DOMAIN a.overrides : \A j \in 1 .. i : a.overrides[j].name \in DOMAIN target}

\* an override keeps the lifetime of what it overrides
Override(a, target) ==
    [n \in DOMAIN target |->
        IF \E i \in Applied(a, target) : a.overrides[i].name = n
          THEN LET i == CHOOSE i \in Applied(a, target) : a.overrides[i].name = n
               IN  [a.overrides[i].resolver EXCEPT !.lifetime = target[n].lifetime]
          ELSE target[n]]

\* registerDependencies
RegisterDependencies ==
    LET target == TargetDiConfig(app)
    IN  /\ phase = "new"
        /\ container' = Override(app, target)
        /\ rest' = RegisterControllers(app, "rest")
        /\ sse'  = Names(RegisterControllers(app, "sse"))
        /\ dual' = Names(RegisterControllers(app, "dual"))
        /\ api'  = Names(RegisterControllers(app, "api"))
        /\ phase' = IF Applied(app, target) = DOMAIN app.overrides THEN "registered" ELSE "halted"
        /\ UNCHANGED <<app, routing, running>>

-----------------------------------------------------------------------------
(* Routes.  Fastify (external) refuses a second route of the same method   *)
(* and path: app.route throws, and the routes before it stay.              *)

RoutesOf(resolver) == resolver.of.routes
RoutesOfNames(names) ==
    FlattenSeq([i \in DOMAIN names |-> RoutesOf(container[names[i]])])

Clash(r, s) == r.methods = s.methods /\ r.url = s.url

Accepts(routes) ==
    LET all == served \o routes
    IN  {i \in DOMAIN routes :
           ~ \E j \in 1..(Len(served) + i - 1) : Clash(all[Len(served) + i], all[j])}

AddRoutes(kind, routes) ==
    LET refusals == DOMAIN routes \ Accepts(routes)
        accepted == IF refusals = {} THEN routes
                    ELSE SubSeq(routes, 1, Min(refusals) - 1)
    IN  /\ phase = "registered" /\ kind \notin routed
        /\ served' = served \o accepted
        /\ routed' = routed \cup {kind}
        /\ phase' = IF refusals = {} THEN phase ELSE "halted"
        /\ UNCHANGED <<app, context, running>>

RegisterRoutes ==
    AddRoutes("rest", FlattenSeq([i \in DOMAIN rest |-> RoutesOf(rest[i].resolver)])
                        \o RoutesOfNames(api))

\* the preHandlers of all routes run before those of the contract, and the
\* rate limit of all routes replaces that of the contract
ApplyRouteOptions(route) ==
    [route EXCEPT !.preHandlers = app.routeOptions.preHandlers \o @,
                  !.rateLimit = IF app.routeOptions.rateLimit = "none" THEN @
                                ELSE app.routeOptions.rateLimit]
WithOptions(routes) == [i \in DOMAIN routes |-> ApplyRouteOptions(routes[i])]

RegisterSSERoutes == sse # <<>> /\ AddRoutes("sse", WithOptions(RoutesOfNames(sse)))
RegisterDualModeRoutes ==
    dual # <<>> /\ AddRoutes("dual", WithOptions(RoutesOfNames(dual)))

-----------------------------------------------------------------------------
(* The awilix manager (external): enabled components with asyncInit are    *)
(* started by ascending asyncInitPriority, after those with eagerInject;   *)
(* enabled components with asyncDispose are disposed by ascending          *)
(* asyncDisposePriority, started or not.                                   *)

Enabled(field, off) ==
    {n \in DOMAIN container : container[n].enabled /\ container[n][field] # off}

Foremost(names, priority) ==
    {n \in names : \A m \in names : container[n][priority] <= container[m][priority]}

Init ==
    /\ app \in Apps
    /\ phase = "new"
    /\ container = Nothing
    /\ rest = <<>> /\ sse = <<>> /\ dual = <<>> /\ api = <<>>
    /\ served = <<>> /\ routed = {}
    /\ todo = {} /\ up = {} /\ sessions = {} /\ requests = {}
    /\ atShutdown = {} /\ failures = 0

\* init() begins
BeginInit ==
    /\ phase = "registered"
    /\ phase' = "starting"
    /\ up' = Enabled("eagerInject", FALSE)
    /\ todo' = Enabled("asyncInit", "none")
    /\ UNCHANGED <<app, context, routing, sessions, requests, atShutdown, failures>>

Start(n) ==
    /\ phase = "starting"
    /\ n \in Foremost(todo, "asyncInitPriority")
    /\ todo' = todo \ {n}
    /\ up' = up \cup {n}
    /\ UNCHANGED <<app, phase, context, routing, sessions, requests, atShutdown, failures>>

InitDone ==
    /\ phase = "starting" /\ todo = {}
    /\ phase' = "running"
    /\ UNCHANGED <<app, context, routing, running>>

\* init() rejects, and what has been started stays so
StartFails(n) ==
    /\ phase = "starting" /\ failures < MaxFailures
    /\ n \in Foremost(todo, "asyncInitPriority")
    /\ phase' = "halted"
    /\ todo' = {}
    /\ failures' = failures + 1
    /\ UNCHANGED <<app, context, routing, up, sessions, requests, atShutdown>>

\* the server takes requests until destroy() begins
Request(n) ==
    /\ phase = "running"
    /\ \/ n \in ToSet(sse) /\ "sse" \in routed
       \/ n \in ToSet(dual) /\ "dual" \in routed
    /\ n \notin requests \cup sessions
    /\ requests' = requests \cup {n}
    /\ UNCHANGED <<app, phase, context, routing, todo, up, sessions, atShutdown, failures>>

\* a handler starts its session; one that awaits may do so during destroy()
OpenSession(n) ==
    /\ n \in requests
    /\ requests' = requests \ {n}
    /\ sessions' = sessions \cup {n}
    /\ UNCHANGED <<app, phase, context, routing, todo, up, atShutdown, failures>>

CloseSession(n) ==
    /\ n \in sessions
    /\ sessions' = sessions \ {n}
    /\ UNCHANGED <<app, phase, context, routing, todo, up, requests, atShutdown, failures>>

\* destroy() begins; it may be called again after it rejected, and after
\* init() rejected
Destroy ==
    /\ phase \in {"running", "halted"}
    /\ phase' = "destroying"
    /\ todo' = Enabled("asyncDispose", "none")
    /\ atShutdown' = sessions
    /\ UNCHANGED <<app, context, routing, up, sessions, requests, failures>>

\* closeAllConnections of a controller closes the sessions it has
Dispose(n) ==
    /\ phase = "destroying"
    /\ n \in Foremost(todo, "asyncDisposePriority")
    /\ todo' = todo \ {n}
    /\ up' = up \ {n}
    /\ sessions' = IF container[n].asyncDispose = "closeAllConnections"
                     THEN sessions \ {n} ELSE sessions
    /\ UNCHANGED <<app, phase, context, routing, requests, atShutdown, failures>>

\* destroy() rejects: the rest is not disposed of, nor is the container
DisposeFails(n) ==
    /\ phase = "destroying" /\ failures < MaxFailures
    /\ n \in Foremost(todo, "asyncDisposePriority")
    /\ container[n].asyncDispose # "closeAllConnections"
    /\ todo' = {}
    /\ failures' = failures + 1
    /\ phase' = "halted"
    /\ UNCHANGED <<app, context, routing, up, sessions, requests, atShutdown>>

\* the container is disposed of last
DestroyDone ==
    /\ phase = "destroying" /\ todo = {}
    /\ phase' = "destroyed"
    /\ UNCHANGED <<app, context, routing, running>>
=============================================================================
