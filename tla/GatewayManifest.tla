-------------------------- MODULE GatewayManifest --------------------------
(***************************************************************************)
(* The gateway manifest, lib/gateway/manifest: the routes of the           *)
(* controllers with the metadata of service, controller and route merged.  *)
(*                                                                         *)
(* A path is a sequence of segments [is, name, optional]; is is "literal", *)
(* "param", "odd" (a parameter whose name is no identifier) or "wildcard". *)
(* Of the names of segments only their order matters; Alphabet lists them. *)
(***************************************************************************)
EXTENDS GatewayMetadata

CONSTANT Alphabet

ASSUME AlphabetAssumption == Alphabet \in Seq(STRING)

SegmentKinds == {"literal", "param", "odd", "wildcard"}

Segment(is, name) == [is |-> is, name |-> name, optional |-> FALSE]
Literal(name)  == Segment("literal", name)
Param(name)    == Segment("param", name)
Optional(name) == [Param(name) EXCEPT !.optional = TRUE]
Wildcard       == Segment("wildcard", "wildcard")

Methods == {"GET", "POST", "PUT", "PATCH", "DELETE", "HEAD", "OPTIONS"}

Failed == [failed |-> TRUE, routes |-> <<>>]

-----------------------------------------------------------------------------
\* the marks that a parameter is optional or constrained are dropped, and a
\* parameter called wildcard is written as a wildcard is
NormalizePath(url) ==
    [i \in DOMAIN url |->
        IF url[i].is = "param" /\ url[i].name = "wildcard" THEN Wildcard
        ELSE [url[i] EXCEPT !.optional = FALSE]]

NormalizedPath(url) == \A i \in DOMAIN url : url[i].is # "odd"

\* a method that is a list is refused
NormalizeMethod(methods) == CHOOSE m \in methods : TRUE
NormalizedMethod(methods) == Cardinality(methods) = 1 /\ methods \subseteq Methods

\* deviation: the layers merged in the opposite order
MergeMetadataReversed(defaults, controllerDefaults, routeMetadata) ==
    Merge(routeMetadata, Merge(controllerDefaults, defaults))
MergeMetadata(defaults, controllerDefaults, routeMetadata) ==
    Merge(Merge(defaults, controllerDefaults), routeMetadata)

CollectRouteEntries(controllers) ==
    FlattenSeq([i \in DOMAIN controllers |->
        [j \in DOMAIN controllers[i].routes |->
            [controller |-> controllers[i], route |-> controllers[i].routes[j]]]])

Origin(e) == <<e.controller.name, e.route.key>>

Entry(e, defaults) ==
    LET merged == MergeMetadata(defaults, e.controller.defaults, e.route.metadata)
    IN  [id       |-> IF <<"id">> \in DOMAIN merged
                        THEN <<merged[<<"id">>]>> ELSE Origin(e),
         method   |-> NormalizeMethod(e.route.methods),
         path     |-> NormalizePath(e.route.url),
         origin   |-> Origin(e),
         metadata |-> merged]

-----------------------------------------------------------------------------
(* localeCompare (external): names in the order of the Alphabet, the brace *)
(* of a parameter before every letter, a path before those it begins.      *)

Place(s, x) == CHOOSE i \in DOMAIN s : s[i] = x

MethodsInOrder == <<"DELETE", "GET", "HEAD", "OPTIONS", "PATCH", "POST", "PUT">>

\* a route as it is compared: the segments of its path, then its method
Collation(r) ==
    Append([i \in DOMAIN r.path |->
              <<IF r.path[i].is = "literal" THEN 2 ELSE 1,
                Place(Alphabet, r.path[i].name)>>],
           <<0, Place(MethodsInOrder, r.method)>>)

Less(x, y) == x[1] < y[1] \/ (x[1] = y[1] /\ x[2] < y[2])

Before(p, q) ==
    \E i \in DOMAIN p \cap DOMAIN q :
        Less(p[i], q[i]) /\ \A j \in 1 .. i - 1 : p[j] = q[j]

\* which places of the routes come before which; sort() is stable
Precedes(routes) ==
    {x \in (DOMAIN routes) \X (DOMAIN routes) :
       LET p == Collation(routes[x[1]])  q == Collation(routes[x[2]])
       IN  Before(p, q) \/ (p = q /\ x[1] < x[2])}

-----------------------------------------------------------------------------
\* buildGatewayManifestFrom: the whole manifest, or an error
BuildGatewayManifestFrom(controllers, defaults) ==
    LET entries == CollectRouteEntries(controllers)
        routes  == [i \in DOMAIN entries |-> Entry(entries[i], defaults)]
    IN  IF /\ \A i \in DOMAIN entries :
                /\ NormalizedPath(entries[i].route.url)
                /\ NormalizedMethod(entries[i].route.methods)
                /\ Valid(routes[i].metadata)
           /\ \A i, j \in DOMAIN routes : routes[i].id = routes[j].id => i = j
          THEN [failed |-> FALSE,
                routes |-> LET order == Arranged(DOMAIN routes, Precedes(routes))
                           IN  [i \in DOMAIN order |->
                                 [routes[order[i]] EXCEPT !.metadata = Parsed(@)]]]
          ELSE Failed
=============================================================================
