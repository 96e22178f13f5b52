--------------------------- MODULE EnrichmentProofs ---------------------------
(***************************************************************************)
(* Theorems about Enrichment, for any records, parser chain, source        *)
(* attributes and cluster.                                                 *)
(***************************************************************************)
EXTENDS Enrichment, WellFoundedInduction, TLAPS

IX == INSTANCE RouteIndexProofs

-----------------------------------------------------------------------------
(* Stamping *)

\* The two kinds of routes, and the keys the properties are about.
LEMMA KeyFacts ==
    /\ Kinds = {"HTTPRoute", "GRPCRoute"}
    /\ "common" \notin Kinds
    /\ TargetKind \in Keys /\ TargetKind[1] = "common" /\ TargetKind[2] = "targetKind"
    /\ \A kind \in Kinds : /\ <<kind, "name">> \in Keys /\ <<kind, "name">>[1] = kind
                           /\ <<kind, "name">>[2] = "name"
    BY DEF Kinds, Index!RouteKinds, Keys, TargetKind

\* Put changes only keys of its owner that it has a field for.
LEMMA PutFacts ==
    ASSUME NEW attrs, NEW owner, NEW fields
    PROVE  /\ DOMAIN Put(attrs, owner, fields) = Keys
           /\ \A key \in Keys :
                  \/ Put(attrs, owner, fields)[key] = attrs[key]
                  \/ /\ key[1] = owner /\ key[2] \in DOMAIN fields
                     /\ Put(attrs, owner, fields)[key] = fields[key[2]]
    BY DEF Put

\* stampRouteIdentity writes the name of the route, and nothing that belongs to
\* the other kind or to both.
LEMMA IdentityFacts ==
    ASSUME NEW attrs, NEW res, res.kind \in Kinds, res.route # None
    PROVE  LET after == stampRouteIdentity(attrs, res)
           IN  /\ DOMAIN after = Keys
               /\ after[<<res.kind, "name">>] = res.route
               /\ \A key \in Keys : key[1] # res.kind => after[key] = attrs[key]
<1>1. DOMAIN stampRouteIdentity(attrs, res) = Keys
  BY PutFacts DEF stampRouteIdentity
<1>2. stampRouteIdentity(attrs, res)[<<res.kind, "name">>] = res.route
  BY KeyFacts DEF stampRouteIdentity, Put
<1>3. \A key \in Keys : key[1] # res.kind => stampRouteIdentity(attrs, res)[key] = attrs[key]
  BY PutFacts DEF stampRouteIdentity
<1> QED  BY <1>1, <1>2, <1>3

\* stampRuleName and stampRouteAttrs leave the name and the other kind alone, and
\* the target kind they write is the kind of the route.
LEMMA MetadataFacts ==
    ASSUME NEW attrs, DOMAIN attrs = Keys, NEW hit, hit.attrs.kind \in Kinds, NEW wp, NEW rule
    PROVE  LET kind  == hit.attrs.kind
               Same(after) ==
                   /\ DOMAIN after = Keys
                   /\ after[<<kind, "name">>] = attrs[<<kind, "name">>]
                   /\ \A key \in Keys : key[1] \in Kinds \ {kind} => after[key] = attrs[key]
                   /\ after[TargetKind] \in {attrs[TargetKind], kind}
           IN  Same(stampRouteAttrs(attrs, hit, wp)) /\ Same(stampRuleName(attrs, hit, rule))
<1> DEFINE kind == hit.attrs.kind
           p == hit.attrs.proj
           Same(before, after) ==
               /\ DOMAIN after = Keys
               /\ after[<<kind, "name">>] = before[<<kind, "name">>]
               /\ \A key \in Keys : key[1] \in Kinds \ {kind} => after[key] = before[key]
               /\ after[TargetKind] \in {before[TargetKind], kind}
<1>1. Same(attrs, stampRuleName(attrs, hit, rule))
  <2>1. ASSUME NEW name PROVE Same(attrs, Put(attrs, kind, [ruleName |-> name]))
    BY PutFacts, KeyFacts
  <2> HIDE DEF kind
  <2> QED  BY <2>1 DEF stampRuleName, kind
<1>2. ASSUME NEW before, DOMAIN before = Keys
      PROVE  Same(before, stampPolicyAttrs(before, hit))
  <2>1. Same(before, Put(before, "common", [policies |-> hit.policies, targetKind |-> kind]))
    BY PutFacts, KeyFacts
  <2> QED  BY <1>2, <2>1 DEF stampPolicyAttrs
<1>3. ASSUME NEW before, NEW uid, NEW parentRef, NEW parentKind, NEW accepted, NEW resolvedRefs
      PROVE  LET fields == [uid |-> uid, parentRef |-> parentRef, parentKind |-> parentKind,
                            accepted |-> accepted, resolvedRefs |-> resolvedRefs]
             IN  Same(before, Put(before, kind, fields))
  BY PutFacts, KeyFacts
<1>4. ASSUME NEW before, NEW mode, NEW service, NEW port, NEW role, NEW gateway, NEW uid
      PROVE  LET fields == [mode |-> mode, service |-> service, port |-> port, role |-> role,
                            waypoint |-> wp, gateway |-> gateway, gatewayUID |-> uid]
             IN  Same(before, Put(before, "common", fields))
  BY PutFacts, KeyFacts
<1>5. Same(attrs, stampRouteAttrs(attrs, hit, wp))
  <2> DEFINE route == [uid |-> p.uid, parentRef |-> p.parentRef, parentKind |-> p.parentKind,
                       accepted |-> IF EmitStatusConds THEN p.accepted ELSE None,
                       resolvedRefs |-> IF EmitStatusConds THEN p.resolvedRefs ELSE None]
             common == [mode |-> p.mode, service |-> p.service, port |-> p.port,
                        role |-> p.role, waypoint |-> wp,
                        gateway |-> IF p.gateway = None THEN None
                                    ELSE <<p.gateway.at, p.gateway.listener,
                                           p.gateway.class, p.gateway.controller>>,
                        gatewayUID |-> IF p.gateway = None THEN None ELSE p.gateway.uid]
             one == Put(attrs, kind, route)
             two == Put(one, "common", common)
  <2>1. Same(attrs, one)
    BY <1>3
  <2>2. Same(one, two)
    BY <1>4
  <2>3. stampRouteAttrs(attrs, hit, wp) = stampPolicyAttrs(two, hit)
    BY DEF stampRouteAttrs
  <2> HIDE DEF one, two
  <2>4. Same(two, stampPolicyAttrs(two, hit))
    BY <1>2, <2>2
  <2> QED  BY <2>1, <2>2, <2>3, <2>4
<1> QED  BY <1>1, <1>5

\* maybeStripMetrics removes exactly the excluded attributes, of metrics alone.
LEMMA StripFacts ==
    ASSUME NEW attrs, DOMAIN attrs = Keys, NEW signal
    PROVE  LET after == maybeStripMetrics(attrs, signal)
           IN  /\ DOMAIN after = Keys
               /\ \A key \in Keys :
                      after[key] = IF signal = "metrics" /\ key \in ExcludeFromMetricAttributes
                                   THEN None ELSE attrs[key]
    BY DEF maybeStripMetrics

-----------------------------------------------------------------------------
(* Where a record goes next *)

\* Done and Stripped, field by field.
LEMMA EndFacts ==
    ASSUME NEW r, Shaped(r)
    PROVE  LET End(attrs) == [at |-> "done", in |-> r.in, attrs |-> attrs, res |-> r.res,
                              i |-> 0, svc |-> None, hit |-> r.hit]
           IN  /\ Done(r) = End(r.attrs)
               /\ \A attrs : Stripped([r EXCEPT !.attrs = attrs])
                                 = End(maybeStripMetrics(attrs, r.in.signal))
               /\ Stripped(r) = End(maybeStripMetrics(r.attrs, r.in.signal))
<1> DEFINE With(attrs) == [at |-> r.at, in |-> r.in, attrs |-> attrs, res |-> r.res,
                           i |-> r.i, svc |-> r.svc, hit |-> r.hit]
           End(attrs) == [at |-> "done", in |-> r.in, attrs |-> attrs, res |-> r.res,
                          i |-> 0, svc |-> None, hit |-> r.hit]
<1>1. ASSUME NEW attrs PROVE Done(With(attrs)) = End(attrs)
  <2> DEFINE Rec(at, i, svc) == [at |-> at, in |-> r.in, attrs |-> attrs, res |-> r.res,
                                 i |-> i, svc |-> svc, hit |-> r.hit]
  <2>1. [Rec(r.at, r.i, r.svc) EXCEPT !.at = "done"] = Rec("done", r.i, r.svc)
    OBVIOUS
  <2>2. [Rec("done", r.i, r.svc) EXCEPT !.i = 0] = Rec("done", 0, r.svc)
    OBVIOUS
  <2>3. [Rec("done", 0, r.svc) EXCEPT !.svc = None] = Rec("done", 0, None)
    OBVIOUS
  <2>4. With(attrs) = Rec(r.at, r.i, r.svc) /\ End(attrs) = Rec("done", 0, None)
    OBVIOUS
  <2> HIDE DEF Rec, With, End
  <2> QED  BY <2>1, <2>2, <2>3, <2>4 DEF Done
<1>2. r = With(r.attrs) /\ \A attrs : [r EXCEPT !.attrs = attrs] = With(attrs)
  BY DEF Shaped
<1>3. ASSUME NEW attrs PROVE Stripped(With(attrs)) = End(maybeStripMetrics(attrs, r.in.signal))
  <2>1. /\ With(attrs).attrs = attrs /\ With(attrs).in = r.in
        /\ \A x : [With(attrs) EXCEPT !.attrs = x] = With(x)
    OBVIOUS
  <2> HIDE DEF With, End
  <2> QED  BY <1>1, <2>1 DEF Stripped
<1> HIDE DEF With, End
<1> QED  BY <1>1, <1>2, <1>3 DEF End

\* The end of a record that a lookup resolved: stamped as that one route, and
\* stripped if it is a metric.
LEMMA StampEnds ==
    ASSUME NEW r, RecordOK(r), Shaped(r), r.in \in Records, Resolved(r), NEW wp
    PROVE  /\ RecordOK(Stamp(r, wp)) /\ Progress(Stamp(r, wp))
           /\ Stamp(r, wp).hit = r.hit
<1> DEFINE kind == r.hit.attrs.kind
           name == r.hit.attrs.name
           fallback == [route |-> name, kind |-> kind, rule |-> -1, match |-> -1]
           byParser == stampRuleName(stampRouteAttrs(r.attrs, r.hit, wp), r.hit, r.res.rule)
           byAddress == Put(stampRouteAttrs(stampRouteIdentity(r.attrs, fallback), r.hit, wp),
                            "common", [parser |-> "backendref_fallback"])
           Stamped(attrs) ==
               /\ DOMAIN attrs = Keys
               /\ attrs[<<kind, "name">>] = name
               /\ \A key \in Keys : key[1] \in Kinds \ {kind} => attrs[key] = r.in.attrs[key]
               /\ attrs[TargetKind] \in {r.in.attrs[TargetKind], kind}
<1>1. /\ kind \in Kinds /\ name \in Names /\ name # None /\ r.hit # None
      /\ DOMAIN r.attrs = Keys
      /\ r.res = NoMatch \/ (r.res.matched = TRUE /\ r.res.kind \in Kinds)
      /\ r = [at |-> r.at, in |-> r.in, attrs |-> r.attrs, res |-> r.res,
              i |-> r.i, svc |-> r.svc, hit |-> r.hit]
  BY EnrichmentAssumption DEF Resolved, RecordOK, Shaped
<1>2. ASSUME r.res # NoMatch PROVE Stamped(byParser)
  <2>1. Named(r, kind, name)
    BY <1>2 DEF Resolved
  <2> DEFINE one == stampRouteAttrs(r.attrs, r.hit, wp)
  <2>2. /\ DOMAIN one = Keys /\ one[<<kind, "name">>] = r.attrs[<<kind, "name">>]
        /\ \A key \in Keys : key[1] \in Kinds \ {kind} => one[key] = r.attrs[key]
        /\ one[TargetKind] \in {r.attrs[TargetKind], kind}
    BY <1>1, MetadataFacts
  <2> HIDE DEF one
  <2>3. LET two == stampRuleName(one, r.hit, r.res.rule)
        IN  /\ DOMAIN two = Keys /\ two[<<kind, "name">>] = one[<<kind, "name">>]
            /\ \A key \in Keys : key[1] \in Kinds \ {kind} => two[key] = one[key]
            /\ two[TargetKind] \in {one[TargetKind], kind}
    BY <1>1, <2>2, MetadataFacts
  <2>4. byParser = stampRuleName(one, r.hit, r.res.rule)
    BY DEF one
  <2> HIDE DEF byParser, kind, name
  <2> QED  BY <2>1, <2>2, <2>3, <2>4 DEF Named
<1>3. ASSUME r.res = NoMatch PROVE Stamped(byAddress)
  <2> DEFINE one == stampRouteIdentity(r.attrs, fallback)
             two == stampRouteAttrs(one, r.hit, wp)
             three == Put(two, "common", [parser |-> "backendref_fallback"])
  <2>1. r.attrs = r.in.attrs
    BY <1>3 DEF Resolved
  <2>2. fallback.kind = kind /\ fallback.route = name
    OBVIOUS
  <2>3. /\ DOMAIN one = Keys /\ one[<<kind, "name">>] = name
        /\ \A key \in Keys : key[1] # kind => one[key] = r.attrs[key]
    <3>1. fallback.kind \in Kinds /\ fallback.route # None
      BY <1>1, <2>2
    <3> HIDE DEF fallback
    <3>2. /\ DOMAIN one = Keys /\ one[<<fallback.kind, "name">>] = fallback.route
          /\ \A key \in Keys : key[1] # fallback.kind => one[key] = r.attrs[key]
      BY <3>1, IdentityFacts
    <3> HIDE DEF one, kind, name
    <3> QED  BY <2>2, <3>2
  <2> HIDE DEF one
  <2>4. /\ DOMAIN two = Keys /\ two[<<kind, "name">>] = one[<<kind, "name">>]
        /\ \A key \in Keys : key[1] \in Kinds \ {kind} => two[key] = one[key]
        /\ two[TargetKind] \in {one[TargetKind], kind}
    BY <1>1, <2>3, MetadataFacts
  <2> HIDE DEF two
  <2>5. /\ DOMAIN three = Keys
        /\ \A key \in Keys : key[1] # "common" \/ key[2] # "parser" => three[key] = two[key]
    BY PutFacts
  <2>6. byAddress = three
    BY DEF one, two
  <2> HIDE DEF three, byAddress, kind, name
  <2> QED  BY <1>1, <2>1, <2>3, <2>4, <2>5, <2>6, KeyFacts
<1>4. PICK attrs : /\ Stamped(attrs)
                   /\ Stamp(r, wp) = Stripped([r EXCEPT !.attrs = attrs])
  <2>1. CASE r.res = NoMatch
    <3>1. Stamp(r, wp) = Stripped([r EXCEPT !.attrs = byAddress])
      BY <2>1 DEF Stamp, NoMatch
    <3> QED  BY <1>3, <2>1, <3>1
  <2>2. CASE r.res # NoMatch
    <3>1. Stamp(r, wp) = Stripped([r EXCEPT !.attrs = byParser])
      BY <1>1, <2>2 DEF Stamp
    <3> QED  BY <1>2, <2>2, <3>1
  <2> QED  BY <2>1, <2>2
<1> DEFINE after == maybeStripMetrics(attrs, r.in.signal)
           s == [at |-> "done", in |-> r.in, attrs |-> after, res |-> r.res,
                 i |-> 0, svc |-> None, hit |-> r.hit]
<1>5. /\ DOMAIN after = Keys
      /\ \A key \in Keys :
             after[key] = IF r.in.signal = "metrics" /\ key \in ExcludeFromMetricAttributes
                          THEN None ELSE attrs[key]
  BY <1>4, StripFacts
<1>6. Stamp(r, wp) = s
  BY <1>4, EndFacts
<1> HIDE DEF after
<1>7. IsStripped(s)
  BY <1>5 DEF IsStripped
<1>8. OneRoute(s)
  BY <1>1, <1>4, <1>5, KeyFacts DEF OneRoute
<1>9. RecordOK(s)
  BY <1>1, <1>4, <1>5, KeyFacts DEF RecordOK
<1>10. Progress(s)
  BY <1>1, <1>7, <1>8 DEF Progress, Shaped
<1> QED  BY <1>6, <1>9, <1>10

\* A route was found: the record waits for the waypoint of its Service, or ends.
LEMMA FoundGoes ==
    ASSUME NEW r, RecordOK(r), Shaped(r), r.in \in Records,
           NEW hit, Resolved([r EXCEPT !.hit = hit])
    PROVE  /\ RecordOK(Found(r, hit)) /\ Progress(Found(r, hit))
           /\ Found(r, hit).hit = hit
<1> DEFINE With(at) == [at |-> at, in |-> r.in, attrs |-> r.attrs, res |-> r.res,
                        i |-> r.i, svc |-> r.svc, hit |-> hit]
<1>1. [r EXCEPT !.hit = hit] = With(r.at)
  BY DEF Shaped
<1>2. [With(r.at) EXCEPT !.at = "waypoint"] = With("waypoint")
  OBVIOUS
<1>3. Resolved(With(r.at))
  BY <1>1
<1>4. Resolved(With("waypoint"))
  BY <1>3 DEF Resolved, Named
<1>5. \A at : With(at).hit = hit /\ With(at).in = r.in
  OBVIOUS
<1>6. RecordOK(With(r.at)) /\ Shaped(With(r.at))
  BY DEF RecordOK, Shaped
<1>7. RecordOK(With("waypoint")) /\ Progress(With("waypoint"))
  BY <1>4 DEF RecordOK, Shaped, Progress
<1> HIDE DEF With
<1>8. ASSUME NEW wp
      PROVE  /\ RecordOK(Stamp(With(r.at), wp)) /\ Progress(Stamp(With(r.at), wp))
             /\ Stamp(With(r.at), wp).hit = hit
  BY <1>3, <1>5, <1>6, StampEnds
<1>9. Found(r, hit) = With("waypoint") \/ \E wp : Found(r, hit) = Stamp(With(r.at), wp)
  BY <1>1, <1>2 DEF Found
<1> QED  BY <1>5, <1>7, <1>8, <1>9

\* A lookup that misses after a parser matched: the parser's identity stays, and a
\* metric is stripped.
LEMMA MissEnds ==
    ASSUME NEW r, RecordOK(r), Shaped(r), r.in \in Records, r.res # NoMatch, r.hit = None
    PROVE  /\ RecordOK(Stripped(r)) /\ Progress(Stripped(r))
           /\ Stripped(r).hit = None
<1> DEFINE after == maybeStripMetrics(r.attrs, r.in.signal)
           s == [at |-> "done", in |-> r.in, attrs |-> after, res |-> r.res,
                 i |-> 0, svc |-> None, hit |-> r.hit]
<1>1. /\ DOMAIN after = Keys
      /\ \A key \in Keys :
             after[key] = IF r.in.signal = "metrics" /\ key \in ExcludeFromMetricAttributes
                          THEN None ELSE r.attrs[key]
  BY StripFacts DEF RecordOK
<1>2. Stripped(r) = s
  BY EndFacts
<1> HIDE DEF after
<1>3. IsStripped(s)
  BY <1>1 DEF IsStripped
<1>4. RecordOK(s)
  BY <1>1, KeyFacts DEF RecordOK
<1>5. Progress(s)
  BY <1>3 DEF Progress, Shaped
<1> QED  BY <1>2, <1>4, <1>5

\* A nonempty set of natural numbers has a least element.
LEMMA LeastExists ==
    ASSUME NEW T, T \subseteq Nat, T # {}
    PROVE  \E j \in T : \A l \in T : j <= l
<1>1. PICK j \in T : \A l \in T : ~(<<l, j>> \in OpToRel(<, Nat))
  BY NatLessThanWellFounded, WFMin
<1>2. ASSUME NEW l \in T PROVE ~(l < j)
  BY <1>1 DEF OpToRel
<1> QED  BY <1>2

\* The positions of the source attributes are numbers.
LEMMA SourcesAreCounted == effectiveSourceAttrs \subseteq Nat
<1>1. Len(sourceAttrs) \in Nat
  BY EnrichmentAssumption DEF sourceAttrs
<1>2. ASSUME NEW i \in effectiveSourceAttrs PROVE i \in 1 .. Len(sourceAttrs)
  BY DEF effectiveSourceAttrs
<1> QED  BY <1>1, <1>2

\* The fallback walks on without touching the record, and ends with it as it came.
LEMMA WalkGoes ==
    ASSUME NEW r, RecordOK(r), Shaped(r), r.in \in Records, NEW i,
           r.res = NoMatch, r.hit = None, r.attrs = r.in.attrs
    PROVE  /\ RecordOK(Walk(r, i)) /\ Progress(Walk(r, i))
           /\ Walk(r, i).hit = None
<1> DEFINE usable == {j \in effectiveSourceAttrs : j >= i /\ Target(r.in, j) # None}
           least == CHOOSE j \in usable : \A l \in usable : j <= l
           With(at, n, svc) == [at |-> at, in |-> r.in, attrs |-> r.attrs, res |-> r.res,
                                i |-> n, svc |-> svc, hit |-> r.hit]
<1>1. CASE usable = {}
  <2>1. Walk(r, i) = Done(r)
    BY <1>1 DEF Walk
  <2>2. Done(r) = With("done", 0, None)
    BY EndFacts
  <2>3. RecordOK(With("done", 0, None)) /\ Progress(With("done", 0, None))
    BY DEF RecordOK, Progress, Shaped
  <2> QED  BY <2>1, <2>2, <2>3
<1>2. CASE usable # {}
  <2>1. usable \subseteq Nat
    BY SourcesAreCounted
  <2>2. least \in effectiveSourceAttrs
    <3> HIDE DEF usable
    <3>1. least \in usable
      BY <1>2, <2>1, LeastExists
    <3> QED  BY <3>1 DEF usable
  <2>3. ASSUME NEW at, NEW n, NEW svc
        PROVE  [r EXCEPT !.i = n, !.svc = svc, !.at = at] = With(at, n, svc)
    <3>1. [r EXCEPT !.i = n] = With(r.at, n, r.svc)
      BY DEF Shaped
    <3>2. [With(r.at, n, r.svc) EXCEPT !.svc = svc] = With(r.at, n, svc)
      OBVIOUS
    <3>3. [With(r.at, n, svc) EXCEPT !.at = at] = With(at, n, svc)
      OBVIOUS
    <3> HIDE DEF With
    <3> QED  BY <3>1, <3>2, <3>3
  <2>4. Walk(r, i) = [r EXCEPT !.i = least, !.svc = Target(r.in, least).svc,
                               !.at = IF Target(r.in, least).ip # None
                                      THEN "clusterIP" ELSE "single"]
    BY <1>2 DEF Walk
  <2> HIDE DEF least, With
  <2>5. \E at \in {"clusterIP", "single"} : \E svc : Walk(r, i) = With(at, least, svc)
    <3> DEFINE at == IF Target(r.in, least).ip # None THEN "clusterIP" ELSE "single"
               svc == Target(r.in, least).svc
    <3>1. at \in {"clusterIP", "single"}
      OBVIOUS
    <3>2. Walk(r, i) = [r EXCEPT !.i = least, !.svc = svc, !.at = at]
      BY <2>4
    <3> HIDE DEF at, svc
    <3>3. Walk(r, i) = With(at, least, svc)
      BY <2>3, <3>2
    <3> QED  BY <3>1, <3>3
  <2>6. ASSUME NEW at \in {"clusterIP", "single"}, NEW svc
        PROVE  /\ RecordOK(With(at, least, svc)) /\ Progress(With(at, least, svc))
               /\ With(at, least, svc).hit = None
    BY <2>2 DEF RecordOK, Progress, Shaped, With
  <2> QED  BY <2>5, <2>6
<1> QED  BY <1>1, <1>2

\* Every parser returns no match, or a match of one of the two kinds.
LEMMA ParseResult ==
    ASSUME NEW in
    PROVE  LET res == ParseChain(in)
           IN  \/ res = NoMatch
               \/ res # NoMatch /\ res.matched = TRUE /\ res.kind \in Kinds
<1>1. ASSUME NEW name
      PROVE  LET res == Parse(name, in)
             IN  \/ res = NoMatch
                 \/ res # NoMatch /\ res.matched = TRUE /\ res.kind \in Kinds
  BY KeyFacts DEF Parse, EnvoyParse, LinkerdParse, PassthroughParse, NoMatch
<1> QED  BY <1>1 DEF ParseChain

\* enrich, up to its first lookup.
LEMMA EnrichStarts ==
    ASSUME NEW in \in Records
    PROVE  RecordOK(enrich(in)) /\ Progress(enrich(in)) /\ enrich(in).hit = None
<1> DEFINE res == ParseChain(in)
           With(attrs) == [at |-> "route", in |-> in, attrs |-> attrs, res |-> res,
                           i |-> 0, svc |-> None, hit |-> None]
           raw == IF \E i \in DOMAIN Parsers : Parsers[i] = "passthrough" THEN res.raw ELSE None
           tag == Put(in.attrs, "common", [raw |-> raw, parser |-> res.parser])
<1>1. DOMAIN in.attrs = Keys
  BY EnrichmentAssumption
<1>2. res = NoMatch \/ (res # NoMatch /\ res.matched = TRUE /\ res.kind \in Kinds)
  BY ParseResult
<1>3. /\ DOMAIN tag = Keys /\ tag[TargetKind] = in.attrs[TargetKind]
      /\ \A key \in Keys : key[1] # "common" => tag[key] = in.attrs[key]
  BY PutFacts, KeyFacts
<1>4. [NoRecord EXCEPT !.at = "route", !.in = in, !.attrs = in.attrs, !.res = res]
          = With(in.attrs)
  <2> DEFINE Rec(at, x, attrs, y) == [at |-> at, in |-> x, attrs |-> attrs, res |-> y,
                                      i |-> 0, svc |-> None, hit |-> None]
             blank == [key \in Keys |-> None]
  <2>1. NoRecord = Rec("idle", None, blank, NoMatch)
    BY DEF NoRecord
  <2>2. [Rec("idle", None, blank, NoMatch) EXCEPT !.at = "route"]
            = Rec("route", None, blank, NoMatch)
    OBVIOUS
  <2>3. [Rec("route", None, blank, NoMatch) EXCEPT !.in = in] = Rec("route", in, blank, NoMatch)
    OBVIOUS
  <2>4. [Rec("route", in, blank, NoMatch) EXCEPT !.attrs = in.attrs]
            = Rec("route", in, in.attrs, NoMatch)
    OBVIOUS
  <2>5. [Rec("route", in, in.attrs, NoMatch) EXCEPT !.res = res] = Rec("route", in, in.attrs, res)
    OBVIOUS
  <2>6. With(in.attrs) = Rec("route", in, in.attrs, res)
    OBVIOUS
  <2> HIDE DEF With, Rec, blank, res
  <2> QED  BY <2>1, <2>2, <2>3, <2>4, <2>5, <2>6
<1>5. \A x, y : [With(x) EXCEPT !.attrs = y] = With(y)
  OBVIOUS
<1>6. \A x : With(x).attrs = x /\ With(x).hit = None /\ With(x).in = in /\ With(x).res = res
  OBVIOUS
<1>7. ASSUME NEW x, DOMAIN x = Keys, x[TargetKind] = in.attrs[TargetKind]
      PROVE  RecordOK(With(x)) /\ Shaped(With(x))
  <2> HIDE DEF res
  <2> QED  BY <1>2, <1>7 DEF RecordOK, Shaped
<1> HIDE DEF With
<1>8. enrich(in) = IF ~res.matched
                   THEN (IF FallbackEnabled THEN Walk(With(in.attrs), 1)
                         ELSE Done(With(in.attrs)))
                   ELSE IF res.route = None THEN Stripped(With(tag))
                   ELSE With(stampRouteIdentity(tag, res))
  <2> DEFINE base == [NoRecord EXCEPT !.at = "route", !.in = in, !.attrs = in.attrs, !.res = res]
             tagged == [base EXCEPT !.attrs =
                            Put(@, "common", [raw |-> raw, parser |-> res.parser])]
  <2>1. enrich(in) = IF ~res.matched THEN (IF FallbackEnabled THEN Walk(base, 1) ELSE Done(base))
                     ELSE IF res.route = None THEN Stripped(tagged)
                     ELSE [tagged EXCEPT !.attrs = stampRouteIdentity(@, res)]
    BY DEF enrich
  <2>2. base = With(in.attrs)
    BY <1>4
  <2> HIDE DEF base, res, raw
  <2>3. tagged = With(tag)
    BY <1>5, <1>6, <2>2
  <2> HIDE DEF tagged, tag
  <2>4. [tagged EXCEPT !.attrs = stampRouteIdentity(@, res)] = With(stampRouteIdentity(tag, res))
    BY <1>5, <1>6, <2>3
  <2> QED  BY <2>1, <2>2, <2>3, <2>4
<1> HIDE DEF res, tag
<1>9. CASE res = NoMatch
  <2>1. enrich(in) = IF FallbackEnabled THEN Walk(With(in.attrs), 1) ELSE Done(With(in.attrs))
    BY <1>8, <1>9 DEF NoMatch
  <2>2. RecordOK(With(in.attrs)) /\ Shaped(With(in.attrs))
    BY <1>1, <1>7
  <2>3. /\ RecordOK(Walk(With(in.attrs), 1)) /\ Progress(Walk(With(in.attrs), 1))
        /\ Walk(With(in.attrs), 1).hit = None
    BY <1>6, <1>9, <2>2, WalkGoes
  <2> DEFINE gone == [at |-> "done", in |-> in, attrs |-> in.attrs, res |-> res,
                      i |-> 0, svc |-> None, hit |-> None]
  <2>4. Done(With(in.attrs)) = gone
    BY <1>6, <2>2, EndFacts
  <2>5. RecordOK(gone) /\ Progress(gone)
    BY <1>1, <1>9 DEF RecordOK, Progress, Shaped
  <2> QED  BY <2>1, <2>3, <2>4, <2>5
<1>10. CASE res # NoMatch /\ res.route = None
  <2>1. enrich(in) = Stripped(With(tag))
    BY <1>2, <1>8, <1>10
  <2>2. RecordOK(With(tag)) /\ Shaped(With(tag))
    BY <1>3, <1>7
  <2> QED  BY <1>6, <1>10, <2>1, <2>2, MissEnds
<1>11. CASE res # NoMatch /\ res.route # None
  <2> DEFINE after == stampRouteIdentity(tag, res)
  <2>1. enrich(in) = With(after)
    BY <1>2, <1>8, <1>11
  <2>2. /\ DOMAIN after = Keys /\ after[<<res.kind, "name">>] = res.route
        /\ \A key \in Keys : key[1] # res.kind => after[key] = tag[key]
    BY <1>2, <1>11, IdentityFacts
  <2> HIDE DEF after
  <2>3. after[TargetKind] = in.attrs[TargetKind] /\ res.kind \in Kinds
    BY <1>2, <1>3, <1>11, <2>2, KeyFacts
  <2>4. Named(With(after), res.kind, res.route)
    BY <1>3, <1>6, <2>2, <2>3, KeyFacts DEF Named
  <2>5. RecordOK(With(after)) /\ Shaped(With(after))
    BY <1>7, <2>2, <2>3
  <2>6. Progress(With(after))
    BY <1>6, <1>11, <2>4, <2>5 DEF Progress, With
  <2> QED  BY <1>6, <2>1, <2>5, <2>6
<1> QED  BY <1>2, <1>9, <1>10, <1>11

-----------------------------------------------------------------------------
(* The index the record is looked up in *)

\* What the informers do to the index keeps its invariant (see RouteIndexProofs).
LEMMA IndexKeepsInv ==
    ASSUME Index!IndexInv, Index!PoliciesDistinct,
           Index!RouteNext \/ Index!PolicyNext \/ UNCHANGED indexVars
    PROVE  Index!IndexInv' /\ Index!PoliciesDistinct'
<1>1. IX!IndexInv /\ IX!PoliciesDistinct
  BY DEF Index!IndexInv, IX!IndexInv, Index!TypeOK, IX!TypeOK, Index!StoredUnderOwnKey,
     IX!StoredUnderOwnKey, Index!OwnersAreLive, IX!OwnersAreLive,
     Index!ClaimerIsOwner, IX!ClaimerIsOwner, Index!SingleCandidateIsCurrent,
     IX!SingleCandidateIsCurrent, Index!PoliciesDistinct, IX!PoliciesDistinct,
     Index!RouteKeys, IX!RouteKeys, Index!RouteKinds, IX!RouteKinds,
     Index!RouteAttributes, IX!RouteAttributes
<1>2. [IX!Next]_(IX!vars)
  BY DEF indexVars, IX!vars, IX!Next, Index!RouteNext, IX!RouteNext, Index!PolicyNext,
     IX!PolicyNext, Index!RouteKinds, IX!RouteKinds,
     Index!UpsertHTTP, IX!UpsertHTTP, Index!UpsertGRPC, IX!UpsertGRPC,
     Index!DeleteHTTP, IX!DeleteHTTP, Index!DeleteGRPC, IX!DeleteGRPC,
     Index!ApplyPolicy, IX!ApplyPolicy, Index!RemovePolicy, IX!RemovePolicy,
     Index!upsertHTTPRoute, IX!upsertHTTPRoute, Index!upsertGRPCRoute, IX!upsertGRPCRoute,
     Index!upsertRoute, IX!upsertRoute, Index!httpRouteToAttrs, IX!httpRouteToAttrs,
     Index!grpcRouteToAttrs, IX!grpcRouteToAttrs, Index!deleteHTTPRoute, IX!deleteHTTPRoute,
     Index!deleteGRPCRoute, IX!deleteGRPCRoute, Index!deleteRoute, IX!deleteRoute,
     Index!applyPolicy, IX!applyPolicy, Index!removePolicy, IX!removePolicy,
     Index!routeKey, IX!routeKey, Index!reindexBackends, IX!reindexBackends,
     Index!ReindexOwners, IX!ReindexOwners, Index!ReindexClaims, IX!ReindexClaims,
     Index!ReindexSingle, IX!ReindexSingle, Index!ClaimedByOther, IX!ClaimedByOther,
     Index!dropBackendOwnershipLocked, IX!dropBackendOwnershipLocked
<1>3. None \notin IX!RouteKeys /\ None \notin IX!RouteAttributes
  BY EnrichmentAssumption DEF Index!RouteKeys, IX!RouteKeys, Index!RouteKinds,
     IX!RouteKinds, Index!RouteAttributes, IX!RouteAttributes
<1>4. IX!IndexInv' /\ IX!PoliciesDistinct'
  BY <1>1, <1>2, <1>3, IX!StepPreserves
<1> QED
  BY <1>4 DEF Index!IndexInv, IX!IndexInv, Index!TypeOK, IX!TypeOK, Index!StoredUnderOwnKey,
     IX!StoredUnderOwnKey, Index!OwnersAreLive, IX!OwnersAreLive,
     Index!ClaimerIsOwner, IX!ClaimerIsOwner, Index!SingleCandidateIsCurrent,
     IX!SingleCandidateIsCurrent, Index!PoliciesDistinct, IX!PoliciesDistinct,
     Index!RouteKeys, IX!RouteKeys, Index!RouteKinds, IX!RouteKinds,
     Index!RouteAttributes, IX!RouteAttributes

\* Whatever an address lookup offers is a live route with its own kind and name,
\* and the single candidate is one of all the candidates.
LEMMA CandidateFacts ==
    ASSUME Index!IndexInv, NEW b \in Backends
    PROVE  /\ \A hit \in Index!LookupByBackendServiceWithParents(b) :
                  /\ hit.attrs.kind \in Kinds /\ hit.attrs.name \in Names
                  /\ hit.attrs.proj \in Projections
           /\ Index!LookupByBackendService(b) # None =>
                  Index!LookupByBackendService(b) \in Index!LookupByBackendServiceWithParents(b)
<1>1. /\ backendOwners[b] \subseteq Index!RouteKeys
      /\ \A k \in backendOwners[b] : routes[k] \in Index!RouteAttributes
  BY DEF Index!IndexInv, Index!TypeOK, Index!OwnersAreLive
<1>2. ASSUME NEW hit \in Index!LookupByBackendServiceWithParents(b)
      PROVE  /\ hit.attrs.kind \in Kinds /\ hit.attrs.name \in Names
             /\ hit.attrs.proj \in Projections
  <2>1. PICK k \in backendOwners[b] : hit = Index!overlayPoliciesLocked(k, routes[k])
    BY DEF Index!LookupByBackendServiceWithParents
  <2> QED  BY <1>1, <2>1 DEF Index!overlayPoliciesLocked, Index!RouteAttributes, Kinds
<1>3. ASSUME Index!LookupByBackendService(b) # None
      PROVE  Index!LookupByBackendService(b) \in Index!LookupByBackendServiceWithParents(b)
  <2> DEFINE ra == backendIndex[b]
             k == claimedBackends[b]
  <2>1. ra # None
    BY <1>3 DEF Index!LookupByBackendService
  <2>2. k # None /\ k \in backendOwners[b] /\ ra = routes[k]
    BY <2>1 DEF Index!IndexInv, Index!SingleCandidateIsCurrent, Index!ClaimerIsOwner
  <2>3. k = Index!routeKey(ra.kind, ra.name)
    BY <1>1, <2>1, <2>2 DEF Index!IndexInv, Index!StoredUnderOwnKey, Index!routeKey
  <2> QED  BY <2>1, <2>2, <2>3 DEF Index!LookupByBackendService,
              Index!LookupByBackendServiceWithParents
<1> QED  BY <1>2, <1>3

\* disambiguateBackendCandidates picks one of the candidates, and only of exactly
\* one mesh and one ingress route.
LEMMA DisambiguationFacts ==
    ASSUME NEW in, NEW all, \A c \in all : c.attrs.proj.mode \in {"ingress", "mesh"},
           disambiguateBackendCandidates(in, all) # None
    PROVE  disambiguateBackendCandidates(in, all) \in all /\ IsDualMode(all)
<1> DEFINE mesh == {c \in all : c.attrs.proj.mode = "mesh"}
           ingress == {c \in all : c.attrs.proj.mode = "ingress"}
<1>1. Cardinality(all) = 2 /\ mesh # {} /\ ingress # {}
  BY DEF disambiguateBackendCandidates
<1>2. (CHOOSE c \in mesh : TRUE) \in all /\ (CHOOSE c \in ingress : TRUE) \in all
  BY <1>1
<1>3. disambiguateBackendCandidates(in, all)
          \in {CHOOSE c \in mesh : TRUE, CHOOSE c \in ingress : TRUE}
  BY <1>1 DEF disambiguateBackendCandidates
<1>4. {c.attrs.proj.mode : c \in all} = {"mesh", "ingress"}
  BY <1>1
<1> QED  BY <1>1, <1>2, <1>3, <1>4 DEF IsDualMode

-----------------------------------------------------------------------------
(* Every step preserves EnrichmentInv *)

\* A lookup by address that goes on: nothing has been stamped yet.
LEMMA AddressGoesOn ==
    ASSUME NEW r, RecordOK(r), Progress(r), r.at \in {"clusterIP", "podIP", "single", "owners"},
           NEW at \in {"podIP", "single", "owners"}, NEW svc,
           NEW s, s = [r EXCEPT !.at = at, !.svc = svc] \/ s = [r EXCEPT !.at = at]
    PROVE  RecordOK(s) /\ Progress(s) /\ s.hit = None
<1> DEFINE With(a, v) == [at |-> a, in |-> r.in, attrs |-> r.attrs, res |-> r.res,
                          i |-> r.i, svc |-> v, hit |-> r.hit]
<1>1. [r EXCEPT !.at = at] = With(at, r.svc)
  BY DEF Progress, Shaped
<1>2. [With(at, r.svc) EXCEPT !.svc = svc] = With(at, svc)
  OBVIOUS
<1>3. \E v : s = With(at, v)
  <2> HIDE DEF With
  <2> QED  BY <1>1, <1>2
<1>4. ASSUME NEW v PROVE RecordOK(With(at, v)) /\ Progress(With(at, v)) /\ With(at, v).hit = None
  BY DEF RecordOK, Progress, Shaped
<1> QED  BY <1>3, <1>4

\* The record after a lookup by address that found a route.
LEMMA AddressFinds ==
    ASSUME NEW r, RecordOK(r), Progress(r), r.at \in {"single", "owners"},
           NEW hit, hit # None, hit.attrs.kind \in Kinds, hit.attrs.name \in Names
    PROVE  /\ RecordOK(Found(r, hit)) /\ Progress(Found(r, hit))
           /\ Found(r, hit).hit = hit
<1> DEFINE known == [at |-> r.at, in |-> r.in, attrs |-> r.attrs, res |-> r.res,
                     i |-> r.i, svc |-> r.svc, hit |-> hit]
<1>1. [r EXCEPT !.hit = hit] = known /\ r.in \in Records /\ Shaped(r)
  BY DEF Progress, Shaped
<1>2. Resolved(known)
  BY DEF Resolved, Progress
<1> HIDE DEF known
<1> QED  BY <1>1, <1>2, FoundGoes

\* Every lookup of the pipeline leaves a record that the invariant allows; and a
\* lookup by address leaves it without a route or with one of the owners.
LEMMA StepGoes ==
    ASSUME EnrichmentInv, Step
    PROVE  /\ RecordOK(rec') /\ Progress(rec') /\ UNCHANGED <<indexVars, serviceVars>>
           /\ rec.at \in {"single", "owners"} /\ rec'.hit # None =>
                  LET owners == Index!LookupByBackendServiceWithParents(rec.svc)
                  IN  rec'.hit \in owners /\ (rec.at = "owners" => IsDualMode(owners))
<1>1. RecordOK(rec) /\ Progress(rec) /\ Shaped(rec) /\ Index!IndexInv
  BY DEF EnrichmentInv, TypeOK, Progress
<1>2. CASE LookupRoute
  <2> DEFINE hit == IF rec.res.route \in Names
                    THEN Index!LookupRoute(rec.res.kind, rec.res.route) ELSE None
             known == [at |-> rec.at, in |-> rec.in, attrs |-> rec.attrs, res |-> rec.res,
                       i |-> rec.i, svc |-> rec.svc, hit |-> hit]
  <2>1. /\ rec.at = "route" /\ UNCHANGED <<indexVars, serviceVars>>
        /\ rec' = IF hit = None THEN Stripped(rec) ELSE Found(rec, hit)
    BY <1>2 DEF LookupRoute, Lookup
  <2>2. /\ rec.in \in Records /\ rec.res # NoMatch /\ rec.hit = None /\ rec.res.kind \in Kinds
        /\ Named(rec, rec.res.kind, rec.res.route)
    BY <1>1, <2>1 DEF Progress, Shaped
  <2>3. CASE hit = None
    BY <1>1, <2>1, <2>2, <2>3, MissEnds
  <2>4. CASE hit # None
    <3> DEFINE key == Index!routeKey(rec.res.kind, rec.res.route)
    <3>1. rec.res.route \in Names /\ hit = Index!overlayPoliciesLocked(key, routes[key])
          /\ routes[key] # None
      BY <2>4 DEF Index!LookupRoute
    <3>2. key = <<rec.res.kind, rec.res.route>> /\ key \in Index!RouteKeys
      BY <2>2, <3>1 DEF Index!routeKey, Index!RouteKeys, Kinds
    <3>3. hit.attrs = routes[key]
      BY <3>1 DEF Index!overlayPoliciesLocked
    <3>4. hit.attrs.kind = rec.res.kind /\ hit.attrs.name = rec.res.route
      BY <1>1, <3>1, <3>2, <3>3 DEF Index!IndexInv, Index!StoredUnderOwnKey
    <3> HIDE DEF hit
    <3>5. [rec EXCEPT !.hit = hit] = known
      BY <1>1 DEF Shaped
    <3>6. Resolved(known)
      BY <2>2, <2>4, <3>1, <3>4 DEF Resolved, Named
    <3> HIDE DEF known
    <3>7. RecordOK(Found(rec, hit)) /\ Progress(Found(rec, hit))
      BY <1>1, <2>2, <3>5, <3>6, FoundGoes
    <3> QED  BY <2>1, <2>4, <3>7
  <2> QED  BY <2>3, <2>4
<1>3. ASSUME NEW next, NEW at, Lookup(at, next), at \in {"clusterIP", "podIP"},
             \/ next = Walk(rec, rec.i + 1)
             \/ next = [rec EXCEPT !.at = "podIP"]
             \/ \E svc : next = [rec EXCEPT !.at = "single", !.svc = svc]
      PROVE  /\ RecordOK(rec') /\ Progress(rec') /\ UNCHANGED <<indexVars, serviceVars>>
             /\ rec.at \notin {"single", "owners"}
  <2>1. rec.at = at /\ rec' = next /\ UNCHANGED <<indexVars, serviceVars>>
    BY <1>3 DEF Lookup
  <2>2. /\ rec.in \in Records /\ rec.res = NoMatch /\ rec.hit = None
        /\ rec.attrs = rec.in.attrs
    BY <1>1, <1>3, <2>1 DEF Progress, Shaped
  <2>3. RecordOK(next) /\ Progress(next)
    <3>1. CASE next = Walk(rec, rec.i + 1)
      BY <1>1, <2>2, <3>1, WalkGoes
    <3>2. CASE next = [rec EXCEPT !.at = "podIP"]
      BY <1>1, <1>3, <2>1, <3>2, AddressGoesOn
    <3>3. ASSUME NEW svc, next = [rec EXCEPT !.at = "single", !.svc = svc]
          PROVE  RecordOK(next) /\ Progress(next)
      BY <1>1, <1>3, <2>1, <3>3, AddressGoesOn
    <3> QED  BY <1>3, <3>1, <3>2, <3>3
  <2> QED  BY <1>3, <2>1, <2>3
<1>4. CASE LookupClusterIP
  BY <1>3, <1>4 DEF LookupClusterIP
<1>5. CASE LookupPodIP
  BY <1>3, <1>5 DEF LookupPodIP
<1>6. CASE LookupSingle
  <2> DEFINE hit == IF rec.svc \in Backends THEN Index!LookupByBackendService(rec.svc) ELSE None
  <2>1. /\ rec.at = "single" /\ UNCHANGED <<indexVars, serviceVars>>
        /\ rec' = IF hit = None THEN [rec EXCEPT !.at = "owners"] ELSE Found(rec, hit)
    BY <1>6 DEF LookupSingle, Lookup
  <2>2. hit # None => /\ hit \in Index!LookupByBackendServiceWithParents(rec.svc)
                      /\ hit.attrs.kind \in Kinds /\ hit.attrs.name \in Names
    BY <1>1, CandidateFacts
  <2> HIDE DEF hit
  <2>3. CASE hit = None
    BY <1>1, <2>1, <2>3, AddressGoesOn
  <2>4. CASE hit # None
    BY <1>1, <2>1, <2>2, <2>4, AddressFinds
  <2> QED  BY <2>3, <2>4
<1>7. CASE LookupOwners
  <2> DEFINE all == IF rec.svc \in Backends
                    THEN Index!LookupByBackendServiceWithParents(rec.svc) ELSE {}
             hit == disambiguateBackendCandidates(rec.in, all)
  <2>1. /\ rec.at = "owners" /\ UNCHANGED <<indexVars, serviceVars>>
        /\ rec' = IF hit = None THEN Walk(rec, rec.i + 1) ELSE Found(rec, hit)
    BY <1>7 DEF LookupOwners, Lookup
  <2>2. /\ \A c \in all : /\ c.attrs.kind \in Kinds /\ c.attrs.name \in Names
                          /\ c.attrs.proj.mode \in {"ingress", "mesh"}
        /\ all # {} => all = Index!LookupByBackendServiceWithParents(rec.svc)
    BY <1>1, CandidateFacts, EnrichmentAssumption
  <2> HIDE DEF all
  <2>3. hit # None => hit \in all /\ IsDualMode(all)
    BY <2>2, DisambiguationFacts
  <2> HIDE DEF hit
  <2>4. /\ rec.in \in Records /\ rec.res = NoMatch /\ rec.hit = None
        /\ rec.attrs = rec.in.attrs
    BY <1>1, <2>1 DEF Progress, Shaped
  <2>5. CASE hit = None
    BY <1>1, <2>1, <2>4, <2>5, WalkGoes
  <2>6. CASE hit # None
    BY <1>1, <2>1, <2>2, <2>3, <2>6, AddressFinds
  <2> QED  BY <2>5, <2>6
<1>8. CASE LookupWaypoint
  <2>1. /\ rec.at = "waypoint" /\ UNCHANGED <<indexVars, serviceVars>>
        /\ \E wp : rec' = Stamp(rec, wp)
    BY <1>8 DEF LookupWaypoint, Lookup
  <2>2. rec.in \in Records /\ Resolved(rec)
    BY <1>1, <2>1 DEF Progress, Shaped
  <2> QED  BY <1>1, <2>1, <2>2, StampEnds
<1> QED  BY <1>2, <1>4, <1>5, <1>6, <1>7, <1>8 DEF Step

\* A record that comes in is either passed on as it is or started on its way.
LEMMA ReceiveGoes ==
    ASSUME NEW in \in Records, Receive(in)
    PROVE  /\ RecordOK(rec') /\ Progress(rec') /\ UNCHANGED <<indexVars, serviceVars>>
           /\ rec.at \notin {"single", "owners"}
<1> DEFINE off == Done([NoRecord EXCEPT !.in = in, !.attrs = in.attrs])
<1>1. /\ rec.at \in {"idle", "done"} /\ UNCHANGED <<indexVars, serviceVars>>
      /\ rec' = IF in.signal \in EnrichSignals THEN enrich(in) ELSE off
  BY DEF Receive
<1>2. RecordOK(off) /\ Progress(off)
  <2> DEFINE Rec(x, attrs) == [at |-> "idle", in |-> x, attrs |-> attrs, res |-> NoMatch,
                               i |-> 0, svc |-> None, hit |-> None]
             blank == [key \in Keys |-> None]
             gone == [at |-> "done", in |-> in, attrs |-> in.attrs, res |-> NoMatch,
                      i |-> 0, svc |-> None, hit |-> None]
  <2>1. NoRecord = Rec(None, blank)
    BY DEF NoRecord
  <2>2. [Rec(None, blank) EXCEPT !.in = in] = Rec(in, blank)
    OBVIOUS
  <2>3. [Rec(in, blank) EXCEPT !.attrs = in.attrs] = Rec(in, in.attrs)
    OBVIOUS
  <2>4. Shaped(Rec(in, in.attrs))
    BY DEF Shaped
  <2>5. /\ Rec(in, in.attrs).in = in /\ Rec(in, in.attrs).attrs = in.attrs
        /\ Rec(in, in.attrs).res = NoMatch /\ Rec(in, in.attrs).hit = None
    OBVIOUS
  <2>6. RecordOK(gone) /\ Progress(gone)
    BY EnrichmentAssumption DEF RecordOK, Progress, Shaped
  <2> HIDE DEF Rec
  <2>7. off = Done(Rec(in, in.attrs))
    BY <2>1, <2>2, <2>3
  <2>8. Done(Rec(in, in.attrs)) = gone
    BY <2>4, <2>5, EndFacts
  <2> QED  BY <2>6, <2>7, <2>8
<1> HIDE DEF off
<1>3. RecordOK(enrich(in)) /\ Progress(enrich(in))
  BY EnrichStarts
<1> QED  BY <1>1, <1>2, <1>3

\* What the informers write meanwhile does not touch the record.
LEMMA WritersKeepType ==
    ASSUME TypeOK, ServicesChange \/ LabelsChange
    PROVE  TypeOK'
<1>1. rec' = rec
  BY DEF ServicesChange, LabelsChange
<1>2. /\ clusterIPs' \in [IPs -> Backends \cup {None}]
      /\ podIPs' \in [IPs -> Backends \cup {None}]
      /\ waypoints' \in [Backends -> Waypoints \cup {None}]
  BY DEF TypeOK, ServicesChange, LabelsChange
<1>3. RecordOK(rec')
  BY <1>1 DEF TypeOK
<1> QED  BY <1>2, <1>3 DEF TypeOK

\* Before the first record nothing is indexed and nothing stamped.
LEMMA InitEnrichment ==
    ASSUME Init
    PROVE  EnrichmentInv
<1>1. IX!Init
  BY DEF Init, Index!Init, IX!Init, Index!RouteKeys, IX!RouteKeys, Index!RouteKinds, IX!RouteKinds
<1>2. None \notin IX!RouteKeys /\ None \notin IX!RouteAttributes
  BY EnrichmentAssumption DEF Index!RouteKeys, IX!RouteKeys, Index!RouteKinds,
     IX!RouteKinds, Index!RouteAttributes, IX!RouteAttributes
<1>3. IX!IndexInv /\ IX!PoliciesDistinct
  BY <1>1, <1>2, IX!InitEstablishes
<1>4. Index!IndexInv /\ Index!PoliciesDistinct
  BY <1>3 DEF Index!IndexInv, IX!IndexInv, Index!TypeOK, IX!TypeOK,
     Index!StoredUnderOwnKey, IX!StoredUnderOwnKey, Index!OwnersAreLive,
     IX!OwnersAreLive, Index!ClaimerIsOwner, IX!ClaimerIsOwner,
     Index!SingleCandidateIsCurrent, IX!SingleCandidateIsCurrent,
     Index!PoliciesDistinct, IX!PoliciesDistinct, Index!RouteKeys, IX!RouteKeys,
     Index!RouteKinds, IX!RouteKinds, Index!RouteAttributes, IX!RouteAttributes
<1>5. RecordOK(NoRecord) /\ Progress(NoRecord)
  BY DEF NoRecord, RecordOK, Progress, Shaped
<1>6. TypeOK
  BY <1>5 DEF Init, TypeOK
<1> QED  BY <1>4, <1>5, <1>6 DEF Init, EnrichmentInv

\* Every step preserves the invariant, and none finds a route by address that
\* does not own the Service.
LEMMA EnrichmentStep ==
    ASSUME EnrichmentInv, [Next]_vars
    PROVE  /\ EnrichmentInv'
           /\ rec.at \in {"single", "owners"} /\ rec'.hit # None =>
                  LET owners == Index!LookupByBackendServiceWithParents(rec.svc)
                  IN  rec'.hit \in owners /\ (rec.at = "owners" => IsDualMode(owners))
<1> DEFINE Owned == rec.at \in {"single", "owners"} /\ rec'.hit # None =>
                        LET owners == Index!LookupByBackendServiceWithParents(rec.svc)
                        IN  rec'.hit \in owners /\ (rec.at = "owners" => IsDualMode(owners))
<1>1. Index!IndexInv /\ Index!PoliciesDistinct /\ TypeOK /\ Progress(rec)
  BY DEF EnrichmentInv
<1>2. ASSUME RecordOK(rec'), Progress(rec'), UNCHANGED <<indexVars, serviceVars>>
      PROVE  EnrichmentInv'
  <2>1. Index!IndexInv' /\ Index!PoliciesDistinct'
    BY <1>1, <1>2, IndexKeepsInv
  <2>2. TypeOK'
    BY <1>1, <1>2 DEF TypeOK, serviceVars
  <2> QED  BY <1>2, <2>1, <2>2 DEF EnrichmentInv
<1>3. ASSUME rec' = rec PROVE Progress(rec') /\ Owned
  BY <1>1, <1>3 DEF Progress
<1>4. CASE \E in \in Records : Receive(in)
  BY <1>2, <1>4, ReceiveGoes
<1>5. CASE Step
  BY <1>2, <1>5, StepGoes
<1>6. CASE RoutesChange \/ PoliciesChange \/ UNCHANGED vars
  <2>1. /\ Index!RouteNext \/ Index!PolicyNext \/ UNCHANGED indexVars
        /\ UNCHANGED <<serviceVars, rec>>
    BY <1>6 DEF RoutesChange, PoliciesChange, vars
  <2>2. Index!IndexInv' /\ Index!PoliciesDistinct'
    BY <1>1, <2>1, IndexKeepsInv
  <2>3. TypeOK'
    BY <1>1, <2>1 DEF TypeOK, serviceVars
  <2> QED  BY <1>3, <2>1, <2>2, <2>3 DEF EnrichmentInv
<1>7. CASE ServicesChange \/ LabelsChange
  <2>1. UNCHANGED indexVars /\ rec' = rec
    BY <1>7 DEF ServicesChange, LabelsChange
  <2>2. Index!IndexInv' /\ Index!PoliciesDistinct'
    BY <1>1, <2>1, IndexKeepsInv
  <2>3. TypeOK'
    BY <1>1, <1>7, WritersKeepType
  <2> QED  BY <1>3, <2>1, <2>2, <2>3 DEF EnrichmentInv
<1> QED  BY <1>4, <1>5, <1>6, <1>7 DEF Next

-----------------------------------------------------------------------------
(* Theorems *)

\* The inductive invariant holds whatever the informers write between two lookups
\* of one record (processor.go:213-573).
THEOREM EnrichmentInvariant == Spec => []EnrichmentInv
<1>1. Init => EnrichmentInv
  BY InitEnrichment
<1>2. EnrichmentInv /\ [Next]_vars => EnrichmentInv'
  BY EnrichmentStep
<1> QED  BY <1>1, <1>2, PTL DEF Spec

\* Every variable keeps its type.
THEOREM EnrichmentTypeOK == Spec => []TypeOK
<1>1. EnrichmentInv => TypeOK
  BY DEF EnrichmentInv
<1> QED  BY <1>1, EnrichmentInvariant, PTL

\* A record no parser matches and no address resolves, or whose signal is switched
\* off, leaves as it came, for any parser chain and any list of source attributes.
THEOREM EnrichmentUntouched == Spec => []UnresolvedIsUntouched
<1>1. EnrichmentInv => UnresolvedIsUntouched
  BY DEF EnrichmentInv, Progress, UnresolvedIsUntouched, Unresolved
<1> QED  BY <1>1, EnrichmentInvariant, PTL

\* Every path that stamps a metric strips the excluded attributes after it.
THEOREM EnrichmentStripped == Spec => []StampedMetricsAreStripped
<1>1. EnrichmentInv => StampedMetricsAreStripped
  BY DEF EnrichmentInv, Progress, StampedMetricsAreStripped, Unresolved
<1> QED  BY <1>1, EnrichmentInvariant, PTL

\* A record is stamped with one route: its identity, metadata and policies name
\* the same kind and name.
THEOREM EnrichmentOneRoute == Spec => []AttributionIsOneRoute
<1>1. EnrichmentInv => AttributionIsOneRoute
  BY DEF EnrichmentInv, Progress, AttributionIsOneRoute
<1> QED  BY <1>1, EnrichmentInvariant, PTL

\* A route found by address references the Service at the moment of the lookup,
\* and one of several is one of exactly one mesh and one ingress route
\* (resolveByBackend, disambiguateBackendCandidates).
THEOREM EnrichmentAttributedToOwner == Spec => AttributedToOwner
<1> DEFINE Owned == rec.at \in {"single", "owners"} /\ rec'.hit # None =>
                        LET owners == Index!LookupByBackendServiceWithParents(rec.svc)
                        IN  rec'.hit \in owners /\ (rec.at = "owners" => IsDualMode(owners))
<1>1. EnrichmentInv /\ [Next]_vars => Owned
  BY EnrichmentStep
<1>2. AttributedToOwner <=> [][Owned]_vars
  BY DEF AttributedToOwner
<1> HIDE DEF Owned
<1> QED  BY <1>1, <1>2, EnrichmentInvariant, PTL DEF Spec

=============================================================================
