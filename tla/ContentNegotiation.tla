-------------------------- MODULE ContentNegotiation --------------------------
(***************************************************************************)
(* determineMode and determineSyncFormat, lib/routes/fastifyRouteUtils.ts. *)
(* An Accept header is a sequence of entries [type, q]; a type is a pair   *)
(* of main and sub type, lower case; q is in tenths, NotANumber for one    *)
(* that is none.  The empty sequence stands for a request without header.  *)
(***************************************************************************)
EXTENDS Integers, Sequences, SequencesExt, Collections

EventStream == <<"text", "event-stream">>
Json        == <<"application", "json">>
AnyType     == <<"*", "*">>
NotANumber  == -1

\* the comparison of sort(), which keeps the order of equals
Better(accept) ==
    {x \in (DOMAIN accept) \X (DOMAIN accept) :
       \/ accept[x[1]].q > accept[x[2]].q
       \/ accept[x[1]].q = accept[x[2]].q /\ x[1] < x[2]}

\* of what is not rejected, the best first
Preferred(accept) ==
    LET order == Arranged({i \in DOMAIN accept : accept[i].q > 0}, Better(accept))
    IN  [k \in DOMAIN order |-> accept[order[k]]]

\* deviation: the types are taken in the order of the header
DetermineModeUnsorted(accept, defaultMode) ==
    LET known == {i \in DOMAIN accept :
                    accept[i].q > 0 /\ accept[i].type \in {EventStream, Json}}
    IN  CASE known = {} -> defaultMode
          [] known # {} /\ accept[First(known)].type = EventStream -> "sse"
          [] OTHER -> "json"

DetermineMode(accept, defaultMode) ==
    LET entries == Preferred(accept)
        known   == {k \in DOMAIN entries : entries[k].type \in {EventStream, Json}}
    IN  CASE known = {} -> defaultMode
          [] known # {} /\ entries[First(known)].type = EventStream -> "sse"
          [] OTHER -> "json"

\* which of the supported formats an entry is good for; a wildcard for
\* everything is good for none of them by name
FormatsFor(type, supported) ==
    {i \in DOMAIN supported :
       supported[i] = type \/ (type[2] = "*" /\ supported[i][1] = type[1])}

\* the fallback is the first of the supported formats
DetermineSyncFormat(accept, supported) ==
    LET entries == Preferred(accept)
        known   == {k \in DOMAIN entries : \/ entries[k].type = EventStream
                                          \/ FormatsFor(entries[k].type, supported) # {}}
        type    == entries[First(known)].type
    IN  CASE known = {} -> supported[1]
          [] known # {} /\ type = EventStream -> EventStream
          [] OTHER -> supported[First(FormatsFor(type, supported))]
=============================================================================
