------------------------------ MODULE Enrichment ------------------------------
(***************************************************************************)
(* The enrichment of one record, a span, a log record or a metric data     *)
(* point (processor.go, parser/), while the informers go on writing the    *)
(* indexes it reads.  Each lookup takes a lock of its own and is a step;   *)
(* what happens between two lookups is local to the pipeline's goroutine   *)
(* and belongs to the step before it.  Goroutines share nothing they       *)
(* write, so one record at a time is enough.                               *)
(*                                                                         *)
(* A record's attributes are a total function on Keys, None if unset.  A   *)
(* key is a pair: the CR kind whose attributes it is one of, or "common",  *)
(* and a field.  Name and namespace of a route, and all that identifies a  *)
(* Gateway but its UID, are one field each.                                *)
(***************************************************************************)
EXTENDS Integers, Sequences, FiniteSets

CONSTANTS
    Names, Backends, Projections, PolicyRefs, None,     \* see RouteIndex
    Empty,                      \* an attribute set to the empty string
    IPs,                        \* canonical IP literals
    Waypoints,                  \* what a use-waypoint label can select
    Records,                    \* the records that arrive
    Parsers,                    \* the parser chain, in order
    FallbackEnabled,            \* backendref_fallback.enabled
    SourceAttributes,           \* backendref_fallback.source_attributes, in order
    SourceAttribute,            \* its legacy single form, "" if unset
    EnrichSignals,              \* the signals whose enrich.* switch is on
    EmitStatusConds,
    ExcludeFromMetricAttributes

VARIABLES
    routes, backendIndex, claimedBackends, backendOwners, policies,
    clusterIPs, podIPs, waypoints,  \* the other indexes: key -> value or None
    rec                             \* the record in progress

indexVars == <<routes, backendIndex, claimedBackends, backendOwners, policies>>
serviceVars == <<clusterIPs, podIPs, waypoints>>
vars == <<indexVars, serviceVars, rec>>

Index == INSTANCE RouteIndex

Kinds == Index!RouteKinds
Keys ==
    (Kinds \X {"name", "ruleIndex", "matchIndex", "uid", "parentRef", "parentKind",
               "accepted", "resolvedRefs", "ruleName"})
    \cup ({"common"} \X {"raw", "parser", "mode", "gateway", "gatewayUID", "service",
                         "port", "role", "waypoint", "policies", "targetKind"})

TargetKind == <<"common", "targetKind">>

\* No route is mistaken for a missing one, and a record has the attributes it
\* can be stamped with, set or not.
ASSUME EnrichmentAssumption ==
    /\ None \notin Index!RouteKeys /\ None \notin Index!RouteAttributes
    /\ None \notin Names
    /\ \A p \in Projections : p.mode \in {"ingress", "mesh"}
    /\ SourceAttributes \in Seq(STRING) /\ SourceAttribute \in STRING
    /\ \A in \in Records : DOMAIN in.attrs = Keys

-----------------------------------------------------------------------------
(* What arrives: in.record and in.resource, each from attribute to value.   *)

\* combinedView: the record's own attributes hide those of the resource.
\* An empty value hides them too, and every reader then finds nothing.
Get(in, key) ==
    LET value == IF in.record[key] # None THEN in.record[key] ELSE in.resource[key]
    IN  IF value = Empty THEN None ELSE value

NoMatch == [matched |-> FALSE]

\* A route_name in the format of format_regex is a record whose route is the
\* pair it captures; for any other string the route is None.  The rule and
\* match index are -1 if not captured.
EnvoyParse(in) ==
    LET raw == Get(in, "route_name")
    IN  IF raw = None THEN NoMatch
        ELSE IF raw.route = None THEN NoMatch
        ELSE [matched |-> TRUE, route |-> raw.route, kind |-> "HTTPRoute",
              rule |-> raw.rule, match |-> raw.match,
              raw |-> raw.text, parser |-> "envoy"]

\* The labels say it all; a record without a namespace is left to the next.
LinkerdParse(in) ==
    LET raw == Get(in, "route_name")
        ns  == Get(in, "route_namespace")
    IN  IF raw = None \/ ns = None THEN NoMatch
        ELSE [matched |-> TRUE, route |-> <<ns, raw.text>>,
              kind |-> IF Get(in, "route_kind") \in {"GRPCRoute", "grpcroute"}
                       THEN "GRPCRoute" ELSE "HTTPRoute",
              rule |-> -1, match |-> -1, raw |-> raw.text, parser |-> "linkerd"]

\* Matches whatever has a route_name, and carries no route.
PassthroughParse(in) ==
    LET raw == Get(in, "route_name")
    IN  IF raw = None THEN NoMatch
        ELSE [matched |-> TRUE, route |-> None, kind |-> "HTTPRoute",
              rule |-> -1, match |-> -1, raw |-> raw.text, parser |-> "passthrough"]

Parse(name, in) ==
    IF name = "envoy" THEN EnvoyParse(in)
    ELSE IF name = "linkerd" THEN LinkerdParse(in) ELSE PassthroughParse(in)

\* The parser chain: the first match wins.
ParseChain(in) ==
    LET Matches(i) == Parse(Parsers[i], in).matched
    IN  IF \A i \in DOMAIN Parsers : ~Matches(i) THEN NoMatch
        ELSE Parse(Parsers[CHOOSE i \in DOMAIN Parsers :
                       Matches(i) /\ \A j \in 1 .. (i - 1) : ~Matches(j)], in)

-----------------------------------------------------------------------------
(* Addresses.  A raw value is a URL or a host, with or without a port; a    *)
(* host is its dot-separated labels, and an IP if it parses as one.         *)

URLAttributes == {"url.full", "http.url"}

\* The list and then the legacy attribute; what counts are the positions that are
\* not blank and repeat no earlier one.
sourceAttrs == Append(SourceAttributes, SourceAttribute)

effectiveSourceAttrs ==
    {i \in 1 .. Len(sourceAttrs) :
        sourceAttrs[i] # "" /\ \A j \in 1 .. (i - 1) : sourceAttrs[j] # sourceAttrs[i]}

\* stripPort of a URL where a host is expected: cut at its only colon, the scheme
\* is left, a bare name; with a port there are two colons, and nothing is cut.
stripPort(raw) ==
    IF ~raw.url THEN raw.host
    ELSE [labels |-> IF raw.port THEN <<"http://host:port">> ELSE <<"http">>, ip |-> None]

normalizeSourceAddr(key, raw) ==
    IF key \notin URLAttributes THEN stripPort(raw)
    ELSE IF raw.url THEN raw.host ELSE None

\* <svc>.<ns>[.anything]; None if either is missing.
splitAddress(labels) ==
    IF Len(labels) < 2 THEN None
    ELSE IF labels[1] = "" \/ labels[2] = "" THEN None
    ELSE <<labels[2], labels[1]>>

\* The Service a host name means: a bare name is one of the namespace the
\* telemetry comes from.
ServiceNamed(in, labels) ==
    IF splitAddress(labels) # None THEN splitAddress(labels)
    ELSE IF Len(labels) = 1 /\ Get(in, "k8s.namespace.name") # None
    THEN <<Get(in, "k8s.namespace.name"), labels[1]>>
    ELSE None

\* What the i-th source attribute leads to: an IP, a Service, or nothing.
Target(in, i) ==
    LET raw  == Get(in, sourceAttrs[i])
        host == IF raw = None THEN None
                ELSE normalizeSourceAddr(sourceAttrs[i], raw)
        svc  == IF host = None THEN None ELSE ServiceNamed(in, host.labels)
    IN  IF host = None THEN None
        ELSE IF host.ip # None THEN [ip |-> host.ip, svc |-> None]
        ELSE IF svc # None THEN [ip |-> None, svc |-> svc] ELSE None

-----------------------------------------------------------------------------
(* Stamping *)

\* Put the fields that are set; keep the others as they were.
Put(attrs, owner, fields) ==
    [key \in Keys |->
        IF key[1] = owner /\ key[2] \in DOMAIN fields /\ fields[key[2]] # None
        THEN fields[key[2]] ELSE attrs[key]]

stampRouteIdentity(attrs, res) ==
    Put(attrs, res.kind,
        IF res.kind = "GRPCRoute" THEN [name |-> res.route]
        ELSE [name |-> res.route,
              ruleIndex |-> IF res.rule >= 0 THEN res.rule ELSE None,
              matchIndex |-> IF res.match >= 0 THEN res.match ELSE None])

\* Rules count from zero.
stampRuleName(attrs, hit, rule) ==
    LET named == hit.attrs.proj.ruleNames
    IN  IF rule < 0 \/ rule >= Len(named) THEN attrs
        ELSE Put(attrs, hit.attrs.kind,
                 [ruleName |-> IF named[rule + 1] = "" THEN None ELSE named[rule + 1]])

\* Mutant: the kind of the policy instead of the kind of its target.
MutStampPolicyOwnKind(attrs, hit) ==
    IF hit.policies = << >> THEN attrs
    ELSE Put(attrs, "common", [policies |-> hit.policies, targetKind |-> hit.policies[1]])

stampPolicyAttrs(attrs, hit) ==
    IF hit.policies = << >> THEN attrs
    ELSE Put(attrs, "common", [policies |-> hit.policies, targetKind |-> hit.attrs.kind])

\* wp is the waypoint, whether of the parent Gateway's class or of the label.
stampRouteAttrs(attrs, hit, wp) ==
    LET p == hit.attrs.proj
        route == [uid |-> p.uid, parentRef |-> p.parentRef, parentKind |-> p.parentKind,
                  accepted |-> IF EmitStatusConds THEN p.accepted ELSE None,
                  resolvedRefs |-> IF EmitStatusConds THEN p.resolvedRefs ELSE None]
        common == [mode |-> p.mode, service |-> p.service, port |-> p.port,
                   role |-> p.role, waypoint |-> wp,
                   gateway |-> IF p.gateway = None THEN None
                               ELSE <<p.gateway.at, p.gateway.listener,
                                      p.gateway.class, p.gateway.controller>>,
                   gatewayUID |-> IF p.gateway = None THEN None ELSE p.gateway.uid]
    IN  stampPolicyAttrs(Put(Put(attrs, hit.attrs.kind, route), "common", common), hit)

maybeStripMetrics(attrs, signal) ==
    IF signal # "metrics" THEN attrs
    ELSE [key \in Keys |->
             IF key \in ExcludeFromMetricAttributes THEN None ELSE attrs[key]]

-----------------------------------------------------------------------------
(* Choosing among several routes *)

\* Mutant: only the number of candidates is checked.
MutDisambiguateAnyPair(in, candidates) ==
    IF Cardinality(candidates) # 2 THEN None
    ELSE LET mesh == {c \in candidates : c.attrs.proj.mode = "mesh"}
         IN  IF mesh # {} THEN CHOOSE c \in mesh : TRUE
             ELSE CHOOSE c \in candidates : TRUE

\* One mesh and one ingress route: the mesh one if the telemetry comes from
\* the namespace of its parent Service.  Anything else is left unresolved.
disambiguateBackendCandidates(in, candidates) ==
    LET mesh    == {c \in candidates : c.attrs.proj.mode = "mesh"}
        ingress == {c \in candidates : c.attrs.proj.mode = "ingress"}
        m       == CHOOSE c \in mesh : TRUE
    IN  IF Cardinality(candidates) # 2 \/ mesh = {} \/ ingress = {} THEN None
        ELSE IF m.attrs.proj.service # None
                  /\ Get(in, "k8s.namespace.name") = m.attrs.proj.service[1]
        THEN m
        ELSE CHOOSE c \in ingress : TRUE

-----------------------------------------------------------------------------
(* The pipeline *)

\* Nothing has come in yet.
NoRecord == [at |-> "idle", in |-> None, attrs |-> [key \in Keys |-> None],
             res |-> NoMatch, i |-> 0, svc |-> None, hit |-> None]

Init ==
    /\ Index!Init
    /\ clusterIPs = [ip \in IPs |-> None]
    /\ podIPs = [ip \in IPs |-> None]
    /\ waypoints = [b \in Backends |-> None]
    /\ rec = NoRecord

\* Where a record goes next is a whole new value of rec.
Done(r) == [r EXCEPT !.at = "done", !.i = 0, !.svc = None]
Stripped(r) == Done([r EXCEPT !.attrs = maybeStripMetrics(@, r.in.signal)])

\* Mutant: the parser id is stamped before the address is resolved.
MutWalkStampsParser(r, i) ==
    LET usable == {j \in effectiveSourceAttrs : j >= i /\ Target(r.in, j) # None}
        j == CHOOSE j \in usable : \A l \in usable : j <= l
    IN  IF usable = {}
        THEN Done([r EXCEPT !.attrs = Put(@, "common", [parser |-> "backendref_fallback"])])
        ELSE [r EXCEPT !.i = j, !.svc = Target(r.in, j).svc,
                       !.at = IF Target(r.in, j).ip # None THEN "clusterIP" ELSE "single"]

\* applyBackendRefFallback: on to the first usable source attribute from the
\* i-th on; without one the record is left alone.
Walk(r, i) ==
    LET usable == {j \in effectiveSourceAttrs : j >= i /\ Target(r.in, j) # None}
        j == CHOOSE j \in usable : \A l \in usable : j <= l
    IN  IF usable = {} THEN Done(r)
        ELSE [r EXCEPT !.i = j, !.svc = Target(r.in, j).svc,
                       !.at = IF Target(r.in, j).ip # None THEN "clusterIP" ELSE "single"]

\* Mutant: the fallback path forgets the metrics guard.
MutStampUnstripped(r, wp) ==
    LET fallback == [route |-> r.hit.attrs.name, kind |-> r.hit.attrs.kind,
                     rule |-> -1, match |-> -1]
    IN  IF r.res.matched
        THEN Stripped([r EXCEPT !.attrs =
                 stampRuleName(stampRouteAttrs(@, r.hit, wp), r.hit, r.res.rule)])
        ELSE Done([r EXCEPT !.attrs =
                 Put(stampRouteAttrs(stampRouteIdentity(@, fallback), r.hit, wp),
                     "common", [parser |-> "backendref_fallback"])])

\* The route is known: stamp it, and the rule if a parser knew it.
Stamp(r, wp) ==
    LET fallback == [route |-> r.hit.attrs.name, kind |-> r.hit.attrs.kind,
                     rule |-> -1, match |-> -1]
    IN  IF r.res.matched
        THEN Stripped([r EXCEPT !.attrs =
                 stampRuleName(stampRouteAttrs(@, r.hit, wp), r.hit, r.res.rule)])
        ELSE Stripped([r EXCEPT !.attrs =
                 Put(stampRouteAttrs(stampRouteIdentity(@, fallback), r.hit, wp),
                     "common", [parser |-> "backendref_fallback"])])

\* A mesh route of a Service has its waypoint looked up; every other one has
\* its waypoint, if any, from the projection.
Found(r, hit) ==
    LET p == hit.attrs.proj
        known == [r EXCEPT !.hit = hit]
    IN  IF p.waypoint = None /\ p.mode = "mesh" /\ p.service # None
        THEN [known EXCEPT !.at = "waypoint"] ELSE Stamp(known, p.waypoint)

\* Mutant: the record is looked up as an HTTPRoute whatever it says.
MutEnrichLooksUpHTTP(in) ==
    LET res == ParseChain(in)
        r   == [NoRecord EXCEPT !.at = "route", !.in = in, !.attrs = in.attrs, !.res = res]
        tagged == [r EXCEPT !.attrs = Put(@, "common", [parser |-> res.parser])]
    IN  IF ~res.matched THEN (IF FallbackEnabled THEN Walk(r, 1) ELSE Done(r))
        ELSE IF res.route = None THEN Stripped(tagged)
        ELSE [tagged EXCEPT !.attrs = stampRouteIdentity(@, res), !.res.kind = "HTTPRoute"]

\* enrich, up to its first lookup.
enrich(in) ==
    LET res == ParseChain(in)
        r   == [NoRecord EXCEPT !.at = "route", !.in = in, !.attrs = in.attrs, !.res = res]
        tagged == [r EXCEPT !.attrs = Put(@, "common",
            [raw |-> IF \E i \in DOMAIN Parsers : Parsers[i] = "passthrough"
                     THEN res.raw ELSE None,
             parser |-> res.parser])]
    IN  IF ~res.matched THEN (IF FallbackEnabled THEN Walk(r, 1) ELSE Done(r))
        ELSE IF res.route = None THEN Stripped(tagged)
        ELSE [tagged EXCEPT !.attrs = stampRouteIdentity(@, res)]

\* ConsumeTraces, ConsumeLogs or ConsumeMetrics: a signal that is switched off
\* is passed on as it is.
Receive(in) ==
    /\ rec.at \in {"idle", "done"}
    /\ rec' = IF in.signal \in EnrichSignals THEN enrich(in)
              ELSE Done([NoRecord EXCEPT !.in = in, !.attrs = in.attrs])
    /\ UNCHANGED <<indexVars, serviceVars>>

\* The lookup the record is waiting for.
Lookup(at, next) ==
    /\ rec.at = at
    /\ rec' = next
    /\ UNCHANGED <<indexVars, serviceVars>>

\* stampCRMetadata: a miss leaves the parser's identity alone.
LookupRoute ==
    LET hit == IF rec.res.route \in Names
               THEN Index!LookupRoute(rec.res.kind, rec.res.route) ELSE None
    IN  /\ rec.at = "route"
        /\ Lookup("route", IF hit = None THEN Stripped(rec) ELSE Found(rec, hit))

\* combinedLookup.LookupServiceByIP: the ClusterIPs first, then the Pods.
LookupClusterIP ==
    LET ip == Target(rec.in, rec.i).ip
    IN  /\ rec.at = "clusterIP"
        /\ Lookup("clusterIP", IF clusterIPs[ip] = None THEN [rec EXCEPT !.at = "podIP"]
                               ELSE [rec EXCEPT !.at = "single", !.svc = clusterIPs[ip]])

LookupPodIP ==
    LET ip == Target(rec.in, rec.i).ip
    IN  /\ rec.at = "podIP"
        /\ Lookup("podIP", IF podIPs[ip] = None THEN Walk(rec, rec.i + 1)
                           ELSE [rec EXCEPT !.at = "single", !.svc = podIPs[ip]])

\* resolveByBackend: the single candidate, and on a miss all of them.
LookupSingle ==
    LET hit == IF rec.svc \in Backends THEN Index!LookupByBackendService(rec.svc)
               ELSE None
    IN  /\ rec.at = "single"
        /\ Lookup("single", IF hit = None THEN [rec EXCEPT !.at = "owners"]
                            ELSE Found(rec, hit))

LookupOwners ==
    LET all == IF rec.svc \in Backends
               THEN Index!LookupByBackendServiceWithParents(rec.svc) ELSE {}
        hit == disambiguateBackendCandidates(rec.in, all)
    IN  /\ rec.at = "owners"
        /\ Lookup("owners", IF hit = None THEN Walk(rec, rec.i + 1) ELSE Found(rec, hit))

LookupWaypoint ==
    LET svc == rec.hit.attrs.proj.service
    IN  /\ rec.at = "waypoint"
        /\ Lookup("waypoint", Stamp(rec, IF svc \in Backends THEN waypoints[svc] ELSE None))

Step ==
    \/ LookupRoute \/ LookupClusterIP \/ LookupPodIP
    \/ LookupSingle \/ LookupOwners \/ LookupWaypoint

\* The informers write at any time.
RoutesChange == Index!RouteNext /\ UNCHANGED <<serviceVars, rec>>
PoliciesChange == Index!PolicyNext /\ UNCHANGED <<serviceVars, rec>>
ServicesChange ==
    /\ \E ip \in IPs, b \in Backends \cup {None} :
           \/ clusterIPs' = [clusterIPs EXCEPT ![ip] = b] /\ UNCHANGED podIPs
           \/ podIPs' = [podIPs EXCEPT ![ip] = b] /\ UNCHANGED clusterIPs
    /\ UNCHANGED <<indexVars, waypoints, rec>>
LabelsChange ==
    /\ \E b \in Backends, wp \in Waypoints \cup {None} :
           waypoints' = [waypoints EXCEPT ![b] = wp]
    /\ UNCHANGED <<indexVars, clusterIPs, podIPs, rec>>

Next ==
    \/ \E in \in Records : Receive(in)
    \/ Step
    \/ RoutesChange \/ PoliciesChange \/ ServicesChange \/ LabelsChange

Spec == Init /\ [][Next]_vars

-----------------------------------------------------------------------------
(* Correctness *)

RecordOK(r) ==
    /\ r.at \in {"idle", "done", "route", "clusterIP", "podIP", "single", "owners", "waypoint"}
    /\ r.in \in Records \cup {None}
    /\ DOMAIN r.attrs = Keys
    /\ r.i \in effectiveSourceAttrs \cup {0}
    /\ r.in # None => r.attrs[TargetKind] \in Kinds \cup {None, r.in.attrs[TargetKind]}

\* Every variable keeps its type.
TypeOK ==
    /\ clusterIPs \in [IPs -> Backends \cup {None}]
    /\ podIPs \in [IPs -> Backends \cup {None}]
    /\ waypoints \in [Backends -> Waypoints \cup {None}]
    /\ RecordOK(rec)

Unresolved(r) == r.at = "done" /\ r.res = NoMatch /\ r.hit = None

\* A record of a signal that is switched off, or that no parser matches and no
\* address resolves, leaves as it came.
UnresolvedIsUntouched == Unresolved(rec) => rec.attrs = rec.in.attrs

IsStripped(r) ==
    r.in.signal = "metrics" =>
        \A key \in Keys \cap ExcludeFromMetricAttributes : r.attrs[key] = None

\* Whatever the path, and whatever the informers wrote meanwhile, a metric
\* leaves without any excluded attribute that this processor put there.
StampedMetricsAreStripped == rec.at = "done" /\ ~Unresolved(rec) => IsStripped(rec)

OneRoute(r) ==
    LET ra == r.hit.attrs
    IN  /\ \/ r.attrs[<<ra.kind, "name">>] = ra.name
           \/ r.in.signal = "metrics" /\ <<ra.kind, "name">> \in ExcludeFromMetricAttributes
        /\ \A key \in Keys : key[1] \in Kinds \ {ra.kind} =>
               r.attrs[key] \in {None, r.in.attrs[key]}
        /\ r.attrs[TargetKind] \in {None, ra.kind, r.in.attrs[TargetKind]}

\* What a record is stamped with is one route: the identity, the metadata and
\* the target kind of the policies name the same kind and the same route,
\* and nothing of the other kind was added.
AttributionIsOneRoute == rec.at = "done" /\ rec.hit # None => OneRoute(rec)

\* The inductive invariant.  Before its metadata is stamped, a record carries at
\* most the identity of one route ...
Named(r, kind, name) ==
    /\ r.attrs[<<kind, "name">>] = name
    /\ \A key \in Keys : key[1] \in Kinds \ {kind} => r.attrs[key] = r.in.attrs[key]
    /\ r.attrs[TargetKind] = r.in.attrs[TargetKind]

\* ... of the route that a lookup then finds, if a parser named it, and nothing
\* at all while its address is being resolved.
Resolved(r) ==
    /\ r.hit # None /\ r.hit.attrs.kind \in Kinds /\ r.hit.attrs.name \in Names
    /\ IF r.res = NoMatch THEN r.attrs = r.in.attrs
       ELSE Named(r, r.hit.attrs.kind, r.hit.attrs.name)

Shaped(r) ==
    /\ r = [at |-> r.at, in |-> r.in, attrs |-> r.attrs, res |-> r.res,
            i |-> r.i, svc |-> r.svc, hit |-> r.hit]
    /\ r.at # "idle" => r.in \in Records
    /\ r.res = NoMatch \/ (r.res.matched = TRUE /\ r.res.kind \in Kinds)

Progress(r) ==
    /\ Shaped(r)
    /\ r.at = "route" =>
           r.res # NoMatch /\ r.hit = None /\ Named(r, r.res.kind, r.res.route)
    /\ r.at \in {"clusterIP", "podIP", "single", "owners"} =>
           r.res = NoMatch /\ r.hit = None /\ r.attrs = r.in.attrs
    /\ r.at = "waypoint" => Resolved(r)
    /\ r.at = "done" =>
           /\ IF r.res = NoMatch /\ r.hit = None THEN r.attrs = r.in.attrs
              ELSE IsStripped(r)
           /\ r.hit # None => OneRoute(r)

EnrichmentInv == Index!IndexInv /\ Index!PoliciesDistinct /\ TypeOK /\ Progress(rec)

IsDualMode(all) ==
    /\ Cardinality(all) = 2
    /\ {c.attrs.proj.mode : c \in all} = {"mesh", "ingress"}

\* A route found by address is, at the moment of the lookup, a current route
\* that references the Service, whichever index answered; and if the single-
\* candidate index did not, it is one of exactly one mesh and one ingress
\* route, although owners come and go and change mode between the lookups.
AttributedToOwner ==
    [][rec.at \in {"single", "owners"} /\ rec'.hit # None =>
           LET owners == Index!LookupByBackendServiceWithParents(rec.svc)
           IN  rec'.hit \in owners /\ (rec.at = "owners" => IsDualMode(owners))]_vars

=============================================================================
