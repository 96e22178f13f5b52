--------------------------- MODULE RouteProjection ---------------------------
(***************************************************************************)
(* From the Gateway API objects to the route index (informer.go,           *)
(* parent_inference.go): the Gateway and GatewayClass stores, the Service  *)
(* name index, and the route handlers that project an HTTPRoute or a       *)
(* GRPCRoute onto RouteAttributes and upsert it.                           *)
(*                                                                         *)
(* A projection reads the Gateway store, the Gateway informer's HasSynced, *)
(* the Service names and the GatewayClass store one after the other, each  *)
(* under a lock of its own, while other informers write them: every read   *)
(* is a step.  The upsert itself is RouteIndex's.                          *)
(***************************************************************************)
EXTENDS Naturals, Sequences, FiniteSetsExt

CONSTANTS
    Objects,            \* <<kind, namespace, name>> triples
    revisionsOf,        \* what each object can look like
    Writable,           \* the objects that change while the processor runs
    Absent, MaxPending,
    waypointImpl,       \* mesh.waypoint_class_names, with their implementations
    InferServiceParent, ClassifyRouteRole, EmitStatusConds,
    None                \* a nil pointer, a missing map entry

Of(kinds) == {o \in Objects : o[1] \in kinds}
Gateways == Of({"Gateway"})
GatewayClasses == Of({"GatewayClass"})
Services == Of({"Service"})
Routes == Of({"HTTPRoute", "GRPCRoute"})

\* "<ns>/<name>" of an object.
NamespacedName(o) == <<o[2], o[3]>>

ASSUME ProjectionAssumption ==
    /\ DOMAIN revisionsOf = Objects
    /\ Writable \subseteq Objects
    /\ MaxPending \in Nat \ {0, 1}
    /\ \A o \in Objects : Absent \notin revisionsOf[o] /\ o = <<o[1], o[2], o[3]>>

VARIABLES
    api, store, pending,        \* the informers, see SharedInformer
    gatewaySynced,              \* HasSynced of the Gateway informers
    gwStore, gcStore,           \* gatewayStore, gatewayClassStore
    names,                      \* serviceNameIndex, see ServiceIndexes
    handler,                    \* route -> the progress of its handler
    routes, backendIndex, claimedBackends, backendOwners, policies
                                \* the index, see RouteIndex

informerVars == <<api, store, pending>>
storeVars == <<gatewaySynced, gwStore, gcStore, names>>
indexVars == <<routes, backendIndex, claimedBackends, backendOwners, policies>>
vars == <<informerVars, storeVars, handler, indexVars>>

I == INSTANCE SharedInformer WITH
         Watches <- Objects,
         objectOf <- [o \in Objects |-> o],
         Revisions <- UNION {revisionsOf[o] : o \in Objects}

Index == INSTANCE RouteIndex WITH
             Names <- {NamespacedName(r) : r \in Routes},
             Backends <- {NamespacedName(s) : s \in Services},
             Projections <- {},
             PolicyRefs <- {}

-----------------------------------------------------------------------------
(* Reading a route.  A parentRef is a record of group (None if nil), kind   *)
(* and ns ("" if nil or empty), name, port and section (None if nil).       *)

\* The namespace a reference means.
NamespaceOf(ref, ownerNS) == IF ref.ns = "" THEN ownerNS ELSE ref.ns

CoreGroup(ref) == ref.group \in {None, ""}

isServiceParent(pr) == CoreGroup(pr) /\ pr.kind = "Service"

\* Mutant: an explicit Gateway kind is a candidate for inference as well.
MutIsNilKindAnyKind(pr) == CoreGroup(pr)

isNilKindCoreParent(pr) == CoreGroup(pr) /\ pr.kind = ""

parentKindOf(pr) == IF pr.kind = "" THEN "Gateway" ELSE pr.kind

formatParentRef(pr, ownerNS) ==
    [group |-> IF parentKindOf(pr) = "Service" THEN ""
               ELSE IF pr.group = None THEN "gateway.networking.k8s.io"
               ELSE pr.group,
     kind |-> parentKindOf(pr),
     ns |-> NamespaceOf(pr, ownerNS),
     name |-> pr.name]

\* The core Services among a route's backendRefs, and its parent Services.
backendRefsFromRoute(r, rev) ==
    LET backends == {b \in rev.backendRefs :
                        CoreGroup(b) /\ b.kind \in {None, "Service"}}
        parents  == {rev.parentRefs[i] : i \in DOMAIN rev.parentRefs}
    IN  {<<NamespaceOf(ref, r[2]), ref.name>> :
             ref \in backends \cup {pr \in parents : isServiceParent(pr)}}

\* The last condition of the type, over all parents, decides.
statusFlag(rev, type) ==
    LET at == {i \in DOMAIN rev.conditions : rev.conditions[i].type = type}
    IN  IF at = {} THEN None ELSE rev.conditions[Max(at)].status = "True"

\* Nil unless some rule is named.
ruleNames(rev) ==
    IF \E i \in DOMAIN rev.rules : rev.rules[i] # "" THEN rev.rules ELSE << >>

-----------------------------------------------------------------------------
(* The projection, given what the handler read: the parent Gateway, the    *)
(* controller of its class, and whether a Service parent is inferred.      *)

NothingRead == [gateway |-> None, controller |-> None, inferred |-> FALSE]

waypointImplForClass(class) ==
    IF class \in DOMAIN waypointImpl THEN waypointImpl[class] ELSE None

classifyRouteRole(parentNS, routeNS) ==
    IF ~ClassifyRouteRole \/ parentNS = "" THEN None
    ELSE IF routeNS = parentNS THEN "producer" ELSE "consumer"

applyServiceParent(ra, pr, routeNS) ==
    LET parentNS == NamespaceOf(pr, routeNS)
    IN  [ra EXCEPT !.mode = "mesh",
                   !.service = <<parentNS, pr.name>>,
                   !.port = pr.port,
                   !.role = classifyRouteRole(parentNS, routeNS)]

applyGatewayParent(ra, pr, routeNS, read) ==
    LET impl == waypointImplForClass(read.gateway.class)
        me   == <<NamespaceOf(pr, routeNS), pr.name>>
    IN  [ra EXCEPT !.gateway = [at |-> me, uid |-> read.gateway.uid,
                                listener |-> pr.section,
                                class |-> read.gateway.class,
                                controller |-> read.controller],
                   !.mode = IF impl = None THEN @ ELSE "mesh",
                   !.waypoint = IF impl = None THEN None
                                ELSE [implementation |-> impl, at |-> me]]

\* Mutant: an inferred Service is still called a Gateway.
MutApplyParentRefKeepsKind(ra, pr, routeNS, read) ==
    LET named == [ra EXCEPT !.parentRef = formatParentRef(pr, routeNS),
                            !.parentKind = parentKindOf(pr)]
    IN  IF isServiceParent(pr) THEN applyServiceParent(named, pr, routeNS)
        ELSE IF read.gateway # None THEN applyGatewayParent(named, pr, routeNS, read)
        ELSE IF read.inferred THEN applyServiceParent(named, pr, routeNS)
        ELSE named

applyParentRef(ra, pr, routeNS, read) ==
    LET named == [ra EXCEPT !.parentRef = formatParentRef(pr, routeNS),
                            !.parentKind = parentKindOf(pr)]
    IN  IF isServiceParent(pr) THEN applyServiceParent(named, pr, routeNS)
        ELSE IF read.gateway # None THEN applyGatewayParent(named, pr, routeNS, read)
        ELSE IF read.inferred
        THEN applyServiceParent([named EXCEPT !.parentKind = "Service"], pr, routeNS)
        ELSE named

\* httpRouteToAttrs and grpcRouteToAttrs: the first parentRef alone counts.
routeToAttrs(r, rev, read) ==
    LET ra == [uid |-> rev.uid,
               mode |-> "ingress", parentRef |-> None, parentKind |-> None,
               gateway |-> None, waypoint |-> None,
               service |-> None, port |-> None, role |-> None,
               ruleNames |-> ruleNames(rev),
               accepted |-> IF EmitStatusConds THEN statusFlag(rev, "Accepted") ELSE None,
               resolvedRefs |-> IF EmitStatusConds THEN statusFlag(rev, "ResolvedRefs")
                                ELSE None]
    IN  IF rev.parentRefs = << >> THEN ra
        ELSE applyParentRef(ra, rev.parentRefs[1], r[2], read)

\* Everything a projection can have read.
Reads ==
    [gateway : (UNION {revisionsOf[g] : g \in Gateways}) \cup {None},
     controller : {class.controller : class \in UNION {revisionsOf[c] : c \in GatewayClasses}}
                      \cup {None},
     inferred : BOOLEAN]

\* No route, parent or waypoint is mistaken for a missing one.
ASSUME ParentAssumption ==
    \A r \in Routes : \A rev \in revisionsOf[r] :
        /\ \A read \in Reads : None # [kind |-> r[1], name |-> NamespacedName(r),
                                      proj |-> routeToAttrs(r, rev, read)]
        /\ rev.parentRefs # << >> =>
               LET me == <<NamespaceOf(rev.parentRefs[1], r[2]), rev.parentRefs[1].name>>
               IN  /\ 1 \in DOMAIN rev.parentRefs
                   /\ me # None
                   /\ \A c \in DOMAIN waypointImpl :
                          [implementation |-> waypointImpl[c], at |-> me] # None

\* The object of this kind that the parentRef of rev names.
ParentObject(kind, r, rev) ==
    LET pr == rev.parentRefs[1] IN <<kind, NamespaceOf(pr, r[2]), pr.name>>

-----------------------------------------------------------------------------
Idle == [at |-> "idle", rev |-> Absent, read |-> NothingRead]

\* The cluster holds anything; every cache is empty and nothing is listed.
Init ==
    /\ api \in [Objects -> I!States]
    /\ \A o \in Objects : api[o] \in revisionsOf[o] \cup {Absent}
    /\ store = [o \in Objects |-> Absent]
    /\ pending = [o \in Objects |-> << >>]
    /\ gatewaySynced = FALSE
    /\ gwStore = [g \in Gateways |-> None]
    /\ gcStore = [c \in GatewayClasses |-> None]
    /\ names = {}
    /\ handler = [r \in Routes |-> Idle]
    /\ Index!Init

UserWrites ==
    /\ \E o \in Writable : \E rev \in revisionsOf[o] \cup {Absent} : I!Write(o, rev)
    /\ UNCHANGED <<storeVars, handler, indexVars>>

Observe(o) == I!Observe(o) /\ UNCHANGED <<storeVars, handler, indexVars>>
Resync(o) == I!Resync(o) /\ UNCHANGED <<storeVars, handler, indexVars>>

\* HasSynced of the Gateway informers turns true when the initial list is in
\* their stores and queued for the handlers, not when it has been handled.
\* The API may have moved on from the list by then.
FinishGatewayList ==
    /\ ~gatewaySynced
    /\ \A g \in Gateways : store[g] = Absent => api[g] = Absent
    /\ gatewaySynced' = TRUE
    /\ UNCHANGED <<informerVars, gwStore, gcStore, names, handler, indexVars>>

\* Mutant: a delete stores the empty object.
MutAfterNotificationEmpty(held, n) == IF n.type = "tombstone" THEN held ELSE n.new

\* What a Gateway or GatewayClass store holds after a notification: there is
\* no tombstone path.
AfterNotification(held, n) ==
    IF n.type = "tombstone" THEN held
    ELSE IF n.type = "delete" THEN None ELSE n.new

registerGatewayHandlers(g) ==
    /\ I!Take(g)
    /\ gwStore' = [gwStore EXCEPT ![g] = AfterNotification(@, Head(pending[g]))]
    /\ UNCHANGED <<gatewaySynced, gcStore, names, handler, indexVars>>

registerGatewayClassHandlers(c) ==
    /\ I!Take(c)
    /\ gcStore' = [gcStore EXCEPT ![c] = AfterNotification(@, Head(pending[c]))]
    /\ UNCHANGED <<gatewaySynced, gwStore, names, handler, indexVars>>

\* The Service handler with the name index alone.
HandleService(s) ==
    /\ I!Take(s)
    /\ names' = IF Head(pending[s]).new = Absent
                THEN names \ {NamespacedName(s)} ELSE names \cup {NamespacedName(s)}
    /\ UNCHANGED <<gatewaySynced, gwStore, gcStore, handler, indexVars>>

-----------------------------------------------------------------------------
(* The route handlers *)

\* Where a projection of rev starts reading.
FirstRead(rev) ==
    IF rev.parentRefs = << >> \/ isServiceParent(rev.parentRefs[1])
    THEN "upsert" ELSE "gateway"

\* Mutant: an update that changes nothing is skipped.
MutHandleSkipsResync(r) ==
    LET n == Head(pending[r])
    IN  /\ handler[r] = Idle
        /\ I!Take(r)
        /\ IF n.old = n.new THEN UNCHANGED <<handler, indexVars>>
           ELSE IF n.new = Absent
           THEN /\ Index!deleteRoute(Index!routeKey(r[1], NamespacedName(r)))
                /\ UNCHANGED handler
           ELSE /\ handler' = [handler EXCEPT ![r] =
                       [Idle EXCEPT !.at = FirstRead(n.new), !.rev = n.new]]
                /\ UNCHANGED indexVars
        /\ UNCHANGED storeVars

\* Mutant: no tombstone path.
MutHandleNoTombstone(r) ==
    LET n == Head(pending[r])
    IN  /\ handler[r] = Idle
        /\ I!Take(r)
        /\ IF n.type = "tombstone" THEN UNCHANGED <<handler, indexVars>>
           ELSE IF n.new = Absent
           THEN /\ Index!deleteRoute(Index!routeKey(r[1], NamespacedName(r)))
                /\ UNCHANGED handler
           ELSE /\ handler' = [handler EXCEPT ![r] =
                       [Idle EXCEPT !.at = FirstRead(n.new), !.rev = n.new]]
                /\ UNCHANGED indexVars
        /\ UNCHANGED storeVars

\* AddFunc, UpdateFunc or DeleteFunc starts; a tombstone is a delete.
registerRouteHandlers(r) ==
    LET n == Head(pending[r])
    IN  /\ handler[r] = Idle
        /\ I!Take(r)
        /\ IF n.new = Absent
           THEN /\ Index!deleteRoute(Index!routeKey(r[1], NamespacedName(r)))
                /\ UNCHANGED handler
           ELSE /\ handler' = [handler EXCEPT ![r] =
                       [Idle EXCEPT !.at = FirstRead(n.new), !.rev = n.new]]
                /\ UNCHANGED indexVars
        /\ UNCHANGED storeVars

\* The handler of r, at this point, learns something and goes on.
Read(r, at, next, field, value) ==
    /\ handler[r].at = at
    /\ handler' = [handler EXCEPT ![r].at = next, ![r].read[field] = value]
    /\ UNCHANGED <<informerVars, storeVars, indexVars>>

\* gwStore.get; a nil-Kind parentRef that names no Gateway may be inferred.
ReadGateway(r) ==
    LET rev == handler[r].rev
        g   == ParentObject("Gateway", r, rev)
        gw  == IF g \in Gateways THEN gwStore[g] ELSE None
        candidate == InferServiceParent /\ isNilKindCoreParent(rev.parentRefs[1])
    IN  /\ handler[r].at = "gateway"
        /\ Read(r, "gateway",
                IF gw # None THEN "class" ELSE IF candidate THEN "synced" ELSE "upsert",
                "gateway", gw)

\* Mutant: the class is looked up under the name of the Gateway.
MutReadClassOfGateway(r) ==
    LET c == <<"GatewayClass", "", handler[r].rev.parentRefs[1].name>>
    IN  /\ handler[r].at = "class"
        /\ Read(r, "class", "upsert", "controller",
                IF c \notin GatewayClasses THEN None
                ELSE IF gcStore[c] = None THEN None ELSE gcStore[c].controller)

\* gcStore.get
ReadClass(r) ==
    LET c == <<"GatewayClass", "", handler[r].read.gateway.class>>
    IN  /\ handler[r].at = "class"
        /\ Read(r, "class", "upsert", "controller",
                IF c \notin GatewayClasses THEN None
                ELSE IF gcStore[c] = None THEN None ELSE gcStore[c].controller)

\* maybeInferServiceParent: first HasSynced, then the Service names.
ReadSynced(r) ==
    Read(r, "synced", IF gatewaySynced THEN "service" ELSE "upsert", "inferred", FALSE)

ReadService(r) ==
    /\ handler[r].at = "service"
    /\ Read(r, "service", "upsert", "inferred",
            NamespacedName(ParentObject("Service", r, handler[r].rev)) \in names)

\* The handler ends in upsertHTTPRoute or upsertGRPCRoute.
UpsertRoute(r) ==
    LET h    == handler[r]
        proj == routeToAttrs(r, h.rev, h.read)
        refs == backendRefsFromRoute(r, h.rev)
    IN  /\ h.at = "upsert"
        /\ \/ /\ r[1] = "HTTPRoute"
              /\ Index!upsertHTTPRoute(Index!httpRouteToAttrs(NamespacedName(r), proj), refs)
           \/ /\ r[1] = "GRPCRoute"
              /\ Index!upsertGRPCRoute(Index!grpcRouteToAttrs(NamespacedName(r), proj), refs)
        /\ handler' = [handler EXCEPT ![r] = Idle]
        /\ UNCHANGED <<informerVars, storeVars>>

RouteHandler(r) ==
    \/ registerRouteHandlers(r) \/ ReadGateway(r) \/ ReadClass(r)
    \/ ReadSynced(r) \/ ReadService(r) \/ UpsertRoute(r)

Handlers ==
    \/ \E g \in Gateways : registerGatewayHandlers(g)
    \/ \E c \in GatewayClasses : registerGatewayClassHandlers(c)
    \/ \E s \in Services : HandleService(s)
    \/ \E r \in Routes : RouteHandler(r)

Next ==
    \/ UserWrites \/ FinishGatewayList \/ Handlers
    \/ \E o \in Objects : Observe(o) \/ Resync(o)

Spec == Init /\ [][Next]_vars

\* Watches are kept up, the initial list ends, handlers run, and every cached
\* object is resynced again and again (the resync period is never zero).
FairSpec ==
    /\ Spec
    /\ WF_vars(FinishGatewayList)
    /\ \A o \in Objects : WF_vars(Observe(o)) /\ WF_vars(Resync(o))
    /\ \A g \in Gateways : WF_vars(registerGatewayHandlers(g))
    /\ \A c \in GatewayClasses : WF_vars(registerGatewayClassHandlers(c))
    /\ \A s \in Services : WF_vars(HandleService(s))
    /\ \A r \in Routes : WF_vars(RouteHandler(r))

-----------------------------------------------------------------------------
(* Correctness *)

RouteOf(r) == routes[Index!routeKey(r[1], NamespacedName(r))]

\* Every variable keeps its type.
TypeOK ==
    /\ I!TypeOK
    /\ \A g \in Gateways : gwStore[g] \in revisionsOf[g] \cup {None}
    /\ \A c \in GatewayClasses : gcStore[c] \in revisionsOf[c] \cup {None}
    /\ names \subseteq {NamespacedName(s) : s \in Services}
    /\ \A r \in Routes :
           /\ handler[r].at \in {"idle", "gateway", "class", "synced", "service", "upsert"}
           /\ handler[r].rev \in revisionsOf[r] \cup {Absent}
           /\ RouteOf(r) # None => RouteOf(r).proj.mode \in {"ingress", "mesh"}

Settled(r) == I!Drained(r) /\ handler[r] = Idle

\* Once the handler of a route has nothing left to do, the index holds the
\* route if and only if it exists, with the parentRef, rules and conditions of
\* its current revision, and under exactly the Services it references now.
SettledRouteIsCurrent ==
    \A r \in Routes : Settled(r) =>
        LET key == Index!routeKey(r[1], NamespacedName(r))
        IN  IF api[r] = Absent THEN routes[key] = None /\ Index!ClaimsOf(key) = {}
            ELSE /\ routes[key] # None
                 /\ \A f \in {"uid", "parentRef", "ruleNames", "accepted", "resolvedRefs"} :
                        RouteOf(r).proj[f] = routeToAttrs(r, api[r], NothingRead)[f]
                 /\ Index!ClaimsOf(key) = {NamespacedName(s) : s \in Services}
                                              \cap backendRefsFromRoute(r, api[r])

\* docs/configuration.md:291-293: a parentRef that says kind: Gateway is never
\* meshed as a Service, even if no such Gateway exists and a Service of that
\* name does; only a waypoint class makes it mesh.
ExplicitGatewayIsNeverAService ==
    \A r \in Routes :
        Settled(r) /\ api[r] # Absent /\ api[r].parentRefs # << >>
            /\ api[r].parentRefs[1].kind = "Gateway"
        => /\ RouteOf(r).proj.service = None
           /\ RouteOf(r).proj.mode = "mesh" => RouteOf(r).proj.waypoint # None

HasOneParent(r, p) ==
    /\ p.mode = "mesh" <=> p.service # None \/ p.waypoint # None
    /\ p.parentRef # None /\ p.parentRef.kind # p.parentKind =>
           p.service # None /\ p.parentRef.kind = "Gateway"
    /\ p.service # None =>
           /\ p.gateway = None /\ p.waypoint = None /\ p.parentKind = "Service"
           /\ p.service = <<p.parentRef.ns, p.parentRef.name>>
           /\ ClassifyRouteRole /\ p.service[1] # "" =>
                  (p.role = "producer" <=> p.service[1] = r[2])
    /\ p.service = None => p.role = None /\ p.port = None
    /\ p.gateway # None \/ p.waypoint # None =>
           p.gateway.at = <<p.parentRef.ns, p.parentRef.name>>
    /\ p.waypoint # None =>
           /\ p.waypoint.at = p.gateway.at
           /\ p.waypoint.implementation = waypointImpl[p.gateway.class]

\* Whatever changed while the route was projected, it is indexed with one
\* parent.  It is mesh exactly with a parent Service or a waypoint, and never
\* has both a Service and a Gateway.  The address of the one it has is that in
\* parent_ref; a Service has parent.kind Service, and only a Service gives the
\* route a role and a port; a waypoint is the Gateway itself.  The kind written
\* in parent_ref is parent.kind, but for a Service that was inferred: there it
\* is Gateway (informer.go:370).  Nothing is claimed of parent.kind next to a
\* Gateway: a parentRef to a "Service" of another API group that names a
\* Gateway is attributed to the Gateway and keeps its kind.
OneParent ==
    \A r \in Routes : RouteOf(r) # None => HasOneParent(r, RouteOf(r).proj)

\* The inductive invariant.  An object has only revisions of its own ...
Possible(o) == revisionsOf[o] \cup {Absent}

OwnRevisions ==
    \A o \in Objects :
        /\ api[o] \in Possible(o) /\ store[o] \in Possible(o)
        /\ \A i \in 1 .. Len(pending[o]) : pending[o][i].new \in Possible(o)

StoreShape ==
    /\ DOMAIN gwStore = Gateways /\ DOMAIN gcStore = GatewayClasses
    /\ DOMAIN handler = Routes /\ DOMAIN routes = Index!RouteKeys

\* ... one walk through applyParentRef learns of a Gateway or infers a Service,
\* and not both ...
Learnt(rev, read) ==
    \/ read = NothingRead
    \/ /\ rev.parentRefs # << >>
       /\ \/ /\ read.gateway # None /\ ~read.inferred
             /\ ~isServiceParent(rev.parentRefs[1])
          \/ /\ read.gateway = None /\ read.inferred
             /\ isNilKindCoreParent(rev.parentRefs[1])

OnTheWalk(r) ==
    LET h == handler[r]
    IN  /\ h \in [at : {"idle", "gateway", "class", "synced", "service", "upsert"},
                  rev : Possible(r), read : Reads]
        /\ h.at = "idle" => h = Idle
        /\ h.at # "idle" => h.rev # Absent
        /\ h.at \in {"gateway", "class", "synced", "service"} => FirstRead(h.rev) = "gateway"
        /\ h.at \in {"gateway", "synced", "service"} => h.read = NothingRead
        /\ h.at \in {"synced", "service"} => isNilKindCoreParent(h.rev.parentRefs[1])
        /\ h.at = "class" => h.read.gateway # None /\ ~h.read.inferred
        /\ h.at = "upsert" => Learnt(h.rev, h.read)

\* ... what is indexed was projected from one revision and one such walk ...
IndexedFrom(r, rev) ==
    \E read \in Reads :
        /\ Learnt(rev, read)
        /\ RouteOf(r) = [kind |-> r[1], name |-> NamespacedName(r),
                         proj |-> routeToAttrs(r, rev, read)]

RoutesAreProjections ==
    \A r \in Routes : RouteOf(r) # None => \E rev \in revisionsOf[r] : IndexedFrom(r, rev)

\* ... and a handler works on, or has indexed, the revision it was last given.
Reflects(r, rev) ==
    LET claims == Index!ClaimsOf(Index!routeKey(r[1], NamespacedName(r)))
    IN  IF rev = Absent THEN RouteOf(r) = None /\ claims = {}
        ELSE /\ IndexedFrom(r, rev)
             /\ claims = {NamespacedName(s) : s \in Services} \cap backendRefsFromRoute(r, rev)

KeepsUp(o) ==
    \E last \in Possible(o) :
        /\ I!Linked(pending[o], last, store[o])
        /\ o \in Routes => IF handler[o].at = "idle" THEN Reflects(o, last)
                           ELSE handler[o].rev = last

ProjectionInv ==
    /\ TypeOK /\ OwnRevisions /\ StoreShape
    /\ \A r \in Routes : OnTheWalk(r)
    /\ RoutesAreProjections
    /\ \A o \in Objects : KeepsUp(o)

\* What the parents of r look like at the API server.
Truth(r, rev) ==
    IF FirstRead(rev) = "upsert" THEN NothingRead
    ELSE LET At(o) == IF o \in Objects /\ api[o] # Absent THEN api[o] ELSE None
             gw    == At(ParentObject("Gateway", r, rev))
             class == IF gw = None THEN None
                      ELSE At(<<"GatewayClass", "", gw.class>>)
         IN  [gateway |-> gw,
              controller |-> IF class = None THEN None ELSE class.controller,
              inferred |-> /\ gw = None /\ InferServiceParent
                           /\ isNilKindCoreParent(rev.parentRefs[1])
                           /\ At(ParentObject("Service", r, rev)) # None]

Exact(r) ==
    IF api[r] = Absent THEN RouteOf(r) = None
    ELSE /\ RouteOf(r) # None
         /\ RouteOf(r).proj = routeToAttrs(r, api[r], Truth(r, api[r]))

\* A Service that one existing route alone references answers with that route.
AnswerIsExact(s) ==
    LET refs == {r \in Routes : api[r] # Absent
                    /\ NamespacedName(s) \in backendRefsFromRoute(r, api[r])}
    IN  \A r \in refs : refs = {r} => backendIndex[NamespacedName(s)] = RouteOf(r)

AllExact == (\A r \in Routes : Exact(r)) /\ (\A s \in Services : AnswerIsExact(s))

\* A relist that finds a Gateway or a GatewayClass gone.
MissedParentDelete ==
    \E o \in Gateways \cup GatewayClasses : \E i \in DOMAIN pending[o] :
        pending[o][i].type = "tombstone"

\* If users stop writing, every route is in the end projected from what the
\* cluster really holds (its Gateway, class, Service and mode included) and
\* answers for the Services only it references, however late the initial
\* lists were: provided no watch of Gateways or classes missed a delete.
ProjectionsConverge ==
    (<>[][FALSE]_api /\ []~MissedParentDelete) => <>[]AllExact

\* docs/configuration.md:271-276: "a nil-Kind, core-group parentRef that resolves
\* to no Gateway", but names a Service, "is reclassified as mesh", whatever was
\* missed before.
ProjectionsAlwaysConverge == <>[][FALSE]_api => <>[]AllExact

\* parent_inference.go:18-21, informer.go:169-172: no inference happens from a
\* Gateway list that has not been taken in.  Stated for a cluster that does
\* not change: a parentRef that names an existing Gateway is never inferred.
NeverInfersOverGateway ==
    \A r \in Routes : handler[r].read.inferred =>
        LET g == ParentObject("Gateway", r, handler[r].rev)
        IN  g \in Gateways => api[g] = Absent

=============================================================================
