------------------------ MODULE RouteProjectionProofs ------------------------
(***************************************************************************)
(* Theorems about RouteProjection, for any objects, revisions and          *)
(* configuration.                                                          *)
(***************************************************************************)
EXTENDS RouteProjection, TLAPS

IP == INSTANCE SharedInformerProofs WITH
          Watches <- Objects,
          objectOf <- [o \in Objects |-> o],
          Revisions <- UNION {revisionsOf[o] : o \in Objects}

-----------------------------------------------------------------------------
(* The projection of one revision and one walk *)

\* The projection is a record of twelve fields.
LEMMA ProjectionFields ==
    ASSUME NEW r, NEW rev, NEW read
    PROVE  LET p == routeToAttrs(r, rev, read)
               pr == rev.parentRefs[1]
           IN  /\ p.uid = rev.uid
               /\ p.ruleNames = ruleNames(rev)
               /\ p.accepted = IF EmitStatusConds THEN statusFlag(rev, "Accepted") ELSE None
               /\ p.resolvedRefs = IF EmitStatusConds THEN statusFlag(rev, "ResolvedRefs")
                                   ELSE None
               /\ p.parentRef = IF rev.parentRefs = << >> THEN None
                                ELSE formatParentRef(pr, r[2])
    BY DEF routeToAttrs, applyParentRef, applyServiceParent, applyGatewayParent

\* The parent fields of the projection, on each of the ways through
\* applyParentRef.
LEMMA ParentFields ==
    ASSUME NEW r, NEW rev, NEW read
    PROVE  LET p  == routeToAttrs(r, rev, read)
               pr == rev.parentRefs[1]
               me == <<NamespaceOf(pr, r[2]), pr.name>>
               impl == waypointImplForClass(read.gateway.class)
               role == classifyRouteRole(NamespaceOf(pr, r[2]), r[2])
           IN  /\ rev.parentRefs = << >> =>
                      /\ p.mode = "ingress" /\ p.parentKind = None /\ p.role = None /\ p.port = None
                      /\ p.service = None /\ p.gateway = None /\ p.waypoint = None
               /\ rev.parentRefs # << >> /\ isServiceParent(pr) =>
                      /\ p.mode = "mesh" /\ p.parentKind = "Service" /\ p.role = role
                      /\ p.service = me /\ p.gateway = None /\ p.waypoint = None
               /\ rev.parentRefs # << >> /\ ~isServiceParent(pr) /\ read.gateway # None =>
                      /\ p.mode = IF impl = None THEN "ingress" ELSE "mesh"
                      /\ p.parentKind = parentKindOf(pr) /\ p.service = None
                      /\ p.role = None /\ p.port = None
                      /\ p.gateway = [at |-> me, uid |-> read.gateway.uid,
                                      listener |-> pr.section, class |-> read.gateway.class,
                                      controller |-> read.controller]
                      /\ p.waypoint = IF impl = None THEN None
                                      ELSE [implementation |-> impl, at |-> me]
               /\ rev.parentRefs # << >> /\ ~isServiceParent(pr) /\ read.gateway = None
                      /\ read.inferred =>
                      /\ p.mode = "mesh" /\ p.parentKind = "Service" /\ p.role = role
                      /\ p.service = me /\ p.gateway = None /\ p.waypoint = None
               /\ rev.parentRefs # << >> /\ ~isServiceParent(pr) /\ read.gateway = None
                      /\ ~read.inferred =>
                      /\ p.mode = "ingress" /\ p.parentKind = parentKindOf(pr)
                      /\ p.role = None /\ p.port = None
                      /\ p.service = None /\ p.gateway = None /\ p.waypoint = None
<1> DEFINE pr == rev.parentRefs[1]
<1>1. CASE rev.parentRefs = << >>
  BY <1>1 DEF routeToAttrs
<1>2. CASE rev.parentRefs # << >> /\ isServiceParent(pr)
  <2>1. parentKindOf(pr) = "Service"
    BY <1>2 DEF parentKindOf, isServiceParent
  <2> QED  BY <1>2, <2>1 DEF routeToAttrs, applyParentRef, applyServiceParent
<1>3. CASE rev.parentRefs # << >> /\ ~isServiceParent(pr) /\ read.gateway # None
  BY <1>3 DEF routeToAttrs, applyParentRef, applyGatewayParent
<1>4. CASE /\ rev.parentRefs # << >> /\ ~isServiceParent(pr) /\ read.gateway = None
           /\ read.inferred
  BY <1>4 DEF routeToAttrs, applyParentRef, applyServiceParent
<1>5. CASE /\ rev.parentRefs # << >> /\ ~isServiceParent(pr) /\ read.gateway = None
           /\ ~read.inferred
  BY <1>5 DEF routeToAttrs, applyParentRef
<1> QED  BY <1>1, <1>2, <1>3, <1>4, <1>5

\* What OneParent says of a route, for any projection made from one revision and
\* one walk.
LEMMA ProjectionHasOneParent ==
    ASSUME NEW r \in Routes, NEW rev \in revisionsOf[r], NEW read \in Reads,
           Learnt(rev, read)
    PROVE  LET p == routeToAttrs(r, rev, read)
           IN  p.mode \in {"ingress", "mesh"} /\ HasOneParent(r, p)
<1> DEFINE p  == routeToAttrs(r, rev, read)
           pr == rev.parentRefs[1]
           me == <<NamespaceOf(pr, r[2]), pr.name>>
           impl == waypointImplForClass(read.gateway.class)
           role == classifyRouteRole(NamespaceOf(pr, r[2]), r[2])
           Goal == p.mode \in {"ingress", "mesh"} /\ HasOneParent(r, p)
<1> USE DEF HasOneParent
<1> SUFFICES Goal
  OBVIOUS
<1>1. rev.parentRefs # << >> =>
          /\ 1 \in DOMAIN rev.parentRefs
          /\ me # None
          /\ \A c \in DOMAIN waypointImpl : [implementation |-> waypointImpl[c], at |-> me] # None
  BY ParentAssumption
<1>2. rev.parentRefs # << >> => /\ me = <<p.parentRef.ns, p.parentRef.name>>
                                /\ p.parentRef.kind = parentKindOf(pr)
  <2>1. rev.parentRefs # << >> => p.parentRef = formatParentRef(pr, r[2])
    BY ProjectionFields
  <2>2. /\ formatParentRef(pr, r[2]).ns = NamespaceOf(pr, r[2])
        /\ formatParentRef(pr, r[2]).name = pr.name
        /\ formatParentRef(pr, r[2]).kind = parentKindOf(pr)
    BY DEF formatParentRef
  <2> HIDE DEF p, pr
  <2> QED  BY <2>1, <2>2
<1>3. ClassifyRouteRole /\ me[1] # "" => (role = "producer" <=> me[1] = r[2])
  BY DEF classifyRouteRole
<1>4. CASE rev.parentRefs = << >>
  <2>1. /\ p.mode = "ingress" /\ p.parentKind = None /\ p.parentRef = None
        /\ p.role = None /\ p.port = None
        /\ p.service = None /\ p.gateway = None /\ p.waypoint = None
    BY <1>4 DEF routeToAttrs
  <2> HIDE DEF p
  <2> QED  BY <2>1
<1>5. CASE rev.parentRefs # << >> /\ isServiceParent(pr)
  <2>1. /\ p.mode = "mesh" /\ p.parentKind = "Service" /\ p.role = role
        /\ p.service = me /\ p.gateway = None /\ p.waypoint = None
    BY <1>5, ParentFields
  <2>2. parentKindOf(pr) = "Service"
    BY <1>5 DEF parentKindOf, isServiceParent
  <2> HIDE DEF p, me, role
  <2> QED  BY <1>1, <1>2, <1>3, <1>5, <2>1, <2>2
<1>6. CASE rev.parentRefs # << >> /\ ~isServiceParent(pr) /\ read.gateway # None
  <2>1. /\ p.mode = IF impl = None THEN "ingress" ELSE "mesh"
        /\ p.parentKind = parentKindOf(pr) /\ p.service = None
        /\ p.role = None /\ p.port = None
        /\ p.gateway = [at |-> me, uid |-> read.gateway.uid,
                        listener |-> pr.section, class |-> read.gateway.class,
                        controller |-> read.controller]
        /\ p.waypoint = IF impl = None THEN None ELSE [implementation |-> impl, at |-> me]
    BY <1>6, ParentFields
  <2>2. impl # None => [implementation |-> impl, at |-> me] # None
    BY <1>1, <1>6 DEF waypointImplForClass
  <2>3. impl # None => impl = waypointImpl[read.gateway.class]
    BY DEF waypointImplForClass
  <2> HIDE DEF p, me, impl
  <2>4. /\ p.gateway.at = me /\ p.gateway.class = read.gateway.class
        /\ p.waypoint # None => p.waypoint.at = me /\ p.waypoint.implementation = impl
    BY <2>1
  <2>5. p.waypoint # None => impl # None
    BY <2>1
  <2> QED  BY <1>2, <1>6, <2>1, <2>2, <2>3, <2>4, <2>5
<1>7. CASE /\ rev.parentRefs # << >> /\ ~isServiceParent(pr) /\ read.gateway = None
           /\ read.inferred
  <2>1. /\ p.mode = "mesh" /\ p.parentKind = "Service" /\ p.role = role
        /\ p.service = me /\ p.gateway = None /\ p.waypoint = None
    BY <1>7, ParentFields
  <2>2. parentKindOf(pr) = "Gateway"
    <3>1. read # NothingRead
      BY <1>7 DEF NothingRead
    <3> QED  BY <1>7, <3>1 DEF Learnt, isNilKindCoreParent, parentKindOf
  <2> HIDE DEF p, me, role
  <2> QED  BY <1>1, <1>2, <1>3, <1>7, <2>1, <2>2
<1>8. CASE /\ rev.parentRefs # << >> /\ ~isServiceParent(pr) /\ read.gateway = None
           /\ ~read.inferred
  <2>1. /\ p.mode = "ingress" /\ p.parentKind = parentKindOf(pr)
        /\ p.role = None /\ p.port = None
        /\ p.service = None /\ p.gateway = None /\ p.waypoint = None
    BY <1>8 DEF routeToAttrs, applyParentRef
  <2> HIDE DEF p
  <2> QED  BY <1>2, <1>8, <2>1
<1>9. read.inferred \in BOOLEAN
  BY DEF Reads
<1> QED  BY <1>4, <1>5, <1>6, <1>7, <1>8, <1>9

-----------------------------------------------------------------------------
(* The informers *)

\* An informer that catches up or resyncs hands the handler of o only revisions
\* of o, and leaves no gap in its queue.
LEMMA WatchStep ==
    ASSUME ProjectionInv, NEW o \in Objects, I!Observe(o) \/ I!Resync(o)
    PROVE  /\ I!TypeOK' /\ OwnRevisions'
           /\ \A last : I!Linked(pending[o], last, store[o])
                            => I!Linked(pending'[o], last, store'[o])
           /\ \A v \in Objects \ {o} : pending'[v] = pending[v] /\ store'[v] = store[v]
<1> DEFINE self == [x \in Objects |-> x]
<1>1. self \in [Objects -> Objects] /\ self[o] = o
  OBVIOUS
<1>2. IP!TypeOK /\ (IP!Observe(o) \/ IP!Resync(o))
  BY DEF ProjectionInv, TypeOK, I!TypeOK, IP!TypeOK, I!Observe, IP!Observe, I!Resync,
         IP!Resync, I!Notify, IP!Notify, I!Notifications, IP!Notifications,
         I!States, IP!States
<1>3. /\ api[self[o]] \in Possible(o) /\ store[o] \in Possible(o)
      /\ \A i \in 1 .. Len(pending[o]) : pending[o][i].new \in Possible(o)
  BY <1>1 DEF ProjectionInv, OwnRevisions
<1> HIDE DEF self
<1>4. IP!TypeOK'
  BY <1>1, <1>2, IP!ObserveKeepsType, IP!ResyncKeepsType DEF self
<1>5. /\ store'[o] \in Possible(o)
      /\ \A i \in 1 .. Len(pending'[o]) : pending'[o][i].new \in Possible(o)
      /\ \A v \in Objects \ {o} : pending'[v] = pending[v] /\ store'[v] = store[v]
      /\ api' = api
  BY <1>1, <1>2, <1>3, IP!QueuedWithin DEF self
<1>6. ASSUME NEW last, I!Linked(pending[o], last, store[o])
      PROVE  I!Linked(pending'[o], last, store'[o])
  <2>1. IP!Linked(pending[o], last, store[o])
    BY <1>6 DEF I!Linked, IP!Linked, I!WellFormed, IP!WellFormed
  <2>2. IP!Linked(pending'[o], last, store'[o])
    BY <1>1, <1>2, <2>1, IP!ObserveKeepsLinked, IP!ResyncKeepsLinked DEF self
  <2> QED  BY <2>2 DEF I!Linked, IP!Linked, I!WellFormed, IP!WellFormed
<1>7. I!TypeOK'
  BY <1>4 DEF I!TypeOK, IP!TypeOK, I!Notifications, IP!Notifications, I!States, IP!States
<1>8. OwnRevisions'
  BY <1>5 DEF ProjectionInv, OwnRevisions, Possible
<1> QED  BY <1>5, <1>6, <1>7, <1>8

\* A handler that takes a notification is given a revision of its object, or
\* told that there is none, and its queue leads on from there.
LEMMA TakeStep ==
    ASSUME ProjectionInv, NEW o \in Objects, I!Take(o)
    PROVE  LET n == Head(pending[o])
           IN  /\ I!TypeOK' /\ OwnRevisions' /\ api' = api
               /\ n.new \in Possible(o)
               /\ I!WellFormed(n)
               /\ I!Linked(pending'[o], n.new, store'[o])
               /\ \A v \in Objects \ {o} : pending'[v] = pending[v] /\ store'[v] = store[v]
<1> DEFINE self == [x \in Objects |-> x]
           n == Head(pending[o])
<1>1. self \in [Objects -> Objects] /\ self[o] = o
  OBVIOUS
<1>2. IP!TypeOK /\ IP!Take(o)
  BY DEF ProjectionInv, TypeOK, I!TypeOK, IP!TypeOK, I!Take, IP!Take,
         I!Notifications, IP!Notifications, I!States, IP!States
<1>3. /\ api[self[o]] \in Possible(o) /\ store[o] \in Possible(o)
      /\ \A i \in 1 .. Len(pending[o]) : pending[o][i].new \in Possible(o)
  BY <1>1 DEF ProjectionInv, OwnRevisions
<1> HIDE DEF self
<1>4. IP!TypeOK'
  BY <1>2, IP!TakeKeepsType
<1>5. /\ store'[o] \in Possible(o)
      /\ \A i \in 1 .. Len(pending'[o]) : pending'[o][i].new \in Possible(o)
      /\ \A v \in Objects \ {o} : pending'[v] = pending[v] /\ store'[v] = store[v]
      /\ api' = api
  BY <1>1, <1>2, <1>3, IP!QueuedWithin DEF self
<1>6. n = pending[o][1] /\ 1 \in 1 .. Len(pending[o])
  BY <1>2, IP!TakesFirst
<1>7. PICK last : I!Linked(pending[o], last, store[o])
  BY DEF ProjectionInv, KeepsUp
<1>8. IP!Linked(pending[o], last, store[o])
  BY <1>7 DEF I!Linked, IP!Linked, I!WellFormed, IP!WellFormed
<1>9. IP!Linked(pending'[o], n.new, store'[o]) /\ IP!WellFormed(n)
  BY <1>2, <1>8, IP!TakeKeepsLinked
<1>10. I!Linked(pending'[o], n.new, store'[o]) /\ I!WellFormed(n)
  BY <1>9 DEF I!Linked, IP!Linked, I!WellFormed, IP!WellFormed
<1>11. I!TypeOK'
  BY <1>4 DEF I!TypeOK, IP!TypeOK, I!Notifications, IP!Notifications, I!States, IP!States
<1>12. OwnRevisions'
  BY <1>5 DEF ProjectionInv, OwnRevisions, Possible
<1> QED  BY <1>3, <1>5, <1>6, <1>10, <1>11, <1>12

\* Objects of different kinds are different objects.
LEMMA KindsAreDisjoint ==
    /\ Gateways \subseteq Objects \ Routes
    /\ GatewayClasses \subseteq Objects \ Routes
    /\ Services \subseteq Objects \ Routes
    /\ Routes \subseteq Objects
    BY DEF Gateways, GatewayClasses, Services, Routes, Of

\* The two facts for what is indexed, whichever revision and walk projected it.
LEMMA IndexedHasOneParent ==
    ASSUME NEW r \in Routes, NEW ra,
           \E rev \in revisionsOf[r] : \E read \in Reads :
               /\ Learnt(rev, read)
               /\ ra = [kind |-> r[1], name |-> NamespacedName(r),
                        proj |-> routeToAttrs(r, rev, read)]
    PROVE  ra.proj.mode \in {"ingress", "mesh"} /\ HasOneParent(r, ra.proj)
<1>1. PICK rev \in revisionsOf[r], read \in Reads :
          /\ Learnt(rev, read)
          /\ ra = [kind |-> r[1], name |-> NamespacedName(r),
                   proj |-> routeToAttrs(r, rev, read)]
  OBVIOUS
<1>2. LET p == routeToAttrs(r, rev, read)
      IN  p.mode \in {"ingress", "mesh"} /\ HasOneParent(r, p)
  BY <1>1, ProjectionHasOneParent
<1> QED  BY <1>1, <1>2

\* Two routes have two keys.
LEMMA KeysDiffer ==
    ASSUME NEW r \in Routes
    PROVE  /\ Index!routeKey(r[1], NamespacedName(r)) \in Index!RouteKeys
           /\ \A q \in Routes \ {r} : Index!routeKey(q[1], NamespacedName(q))
                                          # Index!routeKey(r[1], NamespacedName(r))
<1>1. \A q \in Routes : q = <<q[1], q[2], q[3]>> /\ q[1] \in {"HTTPRoute", "GRPCRoute"}
  BY ProjectionAssumption DEF Routes, Of
<1> QED  BY <1>1 DEF Index!routeKey, Index!RouteKeys, Index!RouteKinds, NamespacedName

-----------------------------------------------------------------------------
(* Every step preserves ProjectionInv *)

\* A step of the informers alone: no handler runs.
LEMMA WatchKeepsInv ==
    ASSUME ProjectionInv, NEW o \in Objects, Observe(o) \/ Resync(o)
    PROVE  ProjectionInv'
<1>1. /\ I!Observe(o) \/ I!Resync(o)
      /\ UNCHANGED <<storeVars, handler, indexVars>>
  BY DEF Observe, Resync
<1>2. /\ I!TypeOK' /\ OwnRevisions'
      /\ \A last : I!Linked(pending[o], last, store[o])
                       => I!Linked(pending'[o], last, store'[o])
      /\ \A v \in Objects \ {o} : pending'[v] = pending[v] /\ store'[v] = store[v]
  BY <1>1, WatchStep
<1>3. TypeOK' /\ StoreShape' /\ RoutesAreProjections' /\ \A r \in Routes : OnTheWalk(r)'
  BY <1>1, <1>2 DEF ProjectionInv, TypeOK, StoreShape, RoutesAreProjections, OnTheWalk,
     IndexedFrom, RouteOf, storeVars, indexVars
<1>4. ASSUME NEW v \in Objects PROVE KeepsUp(v)'
  <2>1. PICK last \in Possible(v) :
          /\ I!Linked(pending[v], last, store[v])
          /\ v \in Routes => IF handler[v].at = "idle" THEN Reflects(v, last)
                             ELSE handler[v].rev = last
    BY DEF ProjectionInv, KeepsUp
  <2>2. I!Linked(pending'[v], last, store'[v])
    BY <1>2, <2>1
  <2>3. Reflects(v, last) => Reflects(v, last)'
    BY <1>1 DEF Reflects, IndexedFrom, RouteOf, Index!ClaimsOf, indexVars
  <2> QED  BY <1>1, <2>1, <2>2, <2>3 DEF KeepsUp
<1> QED  BY <1>2, <1>3, <1>4 DEF ProjectionInv

\* A Gateway, GatewayClass or Service handler takes its notification: it writes a
\* cache that route handlers read, and neither their progress nor the index.
LEMMA CacheHandlerKeepsInv ==
    ASSUME ProjectionInv, NEW o \in Objects \ Routes, I!Take(o),
           DOMAIN gwStore' = Gateways, DOMAIN gcStore' = GatewayClasses,
           \A g \in Gateways : gwStore'[g] \in revisionsOf[g] \cup {None},
           \A c \in GatewayClasses : gcStore'[c] \in revisionsOf[c] \cup {None},
           names' \subseteq {NamespacedName(s) : s \in Services},
           UNCHANGED <<handler, indexVars>>
    PROVE  ProjectionInv'
<1>1. /\ I!TypeOK' /\ OwnRevisions'
      /\ Head(pending[o]).new \in Possible(o)
      /\ I!Linked(pending'[o], Head(pending[o]).new, store'[o])
      /\ \A v \in Objects \ {o} : pending'[v] = pending[v] /\ store'[v] = store[v]
  BY TakeStep
<1>2. TypeOK' /\ StoreShape' /\ RoutesAreProjections' /\ \A r \in Routes : OnTheWalk(r)'
  BY <1>1 DEF ProjectionInv, TypeOK, StoreShape, RoutesAreProjections, OnTheWalk,
     IndexedFrom, RouteOf, indexVars
<1>3. ASSUME NEW v \in Objects PROVE KeepsUp(v)'
  <2>1. CASE v = o
    BY <1>1, <2>1 DEF KeepsUp
  <2>2. CASE v # o
    <3>1. PICK last \in Possible(v) :
            /\ I!Linked(pending[v], last, store[v])
            /\ v \in Routes => IF handler[v].at = "idle" THEN Reflects(v, last)
                               ELSE handler[v].rev = last
      BY DEF ProjectionInv, KeepsUp
    <3>2. I!Linked(pending'[v], last, store'[v])
      BY <1>1, <2>2, <3>1
    <3>3. Reflects(v, last) => Reflects(v, last)'
      BY DEF Reflects, IndexedFrom, RouteOf, Index!ClaimsOf, indexVars
    <3> QED  BY <3>1, <3>2, <3>3 DEF KeepsUp
  <2> QED  BY <2>1, <2>2
<1> QED  BY <1>1, <1>2, <1>3 DEF ProjectionInv

\* The three kinds of cache handlers preserve the invariant.
LEMMA CachesKeepInv ==
    ASSUME ProjectionInv,
           \/ \E g \in Gateways : registerGatewayHandlers(g)
           \/ \E c \in GatewayClasses : registerGatewayClassHandlers(c)
           \/ \E s \in Services : HandleService(s)
    PROVE  ProjectionInv'
<1>1. /\ DOMAIN gwStore = Gateways /\ DOMAIN gcStore = GatewayClasses
      /\ \A g \in Gateways : gwStore[g] \in revisionsOf[g] \cup {None}
      /\ \A c \in GatewayClasses : gcStore[c] \in revisionsOf[c] \cup {None}
      /\ names \subseteq {NamespacedName(s) : s \in Services}
  BY DEF ProjectionInv, TypeOK, StoreShape
<1>2. ASSUME NEW o \in Objects \ Routes, I!Take(o), NEW held \in revisionsOf[o] \cup {None}
      PROVE  AfterNotification(held, Head(pending[o])) \in revisionsOf[o] \cup {None}
  <2>1. Head(pending[o]).new \in Possible(o) /\ I!WellFormed(Head(pending[o]))
    BY <1>2, TakeStep
  <2> QED  BY <2>1 DEF AfterNotification, I!WellFormed, Possible
<1>3. ASSUME NEW g \in Gateways, registerGatewayHandlers(g) PROVE ProjectionInv'
  <2>1. g \in Objects \ Routes /\ I!Take(g)
    BY <1>3, KindsAreDisjoint DEF registerGatewayHandlers
  <2>2. AfterNotification(gwStore[g], Head(pending[g])) \in revisionsOf[g] \cup {None}
    BY <1>1, <1>2, <2>1
  <2>3. /\ DOMAIN gwStore' = Gateways
        /\ \A x \in Gateways : gwStore'[x] \in revisionsOf[x] \cup {None}
        /\ UNCHANGED <<gcStore, names, handler, indexVars>>
    BY <1>1, <1>3, <2>2 DEF registerGatewayHandlers
  <2> QED  BY <1>1, <2>1, <2>3, CacheHandlerKeepsInv
<1>4. ASSUME NEW c \in GatewayClasses, registerGatewayClassHandlers(c) PROVE ProjectionInv'
  <2>1. c \in Objects \ Routes /\ I!Take(c)
    BY <1>4, KindsAreDisjoint DEF registerGatewayClassHandlers
  <2>2. AfterNotification(gcStore[c], Head(pending[c])) \in revisionsOf[c] \cup {None}
    BY <1>1, <1>2, <2>1
  <2>3. /\ DOMAIN gcStore' = GatewayClasses
        /\ \A x \in GatewayClasses : gcStore'[x] \in revisionsOf[x] \cup {None}
        /\ UNCHANGED <<gwStore, names, handler, indexVars>>
    BY <1>1, <1>4, <2>2 DEF registerGatewayClassHandlers
  <2> QED  BY <1>1, <2>1, <2>3, CacheHandlerKeepsInv
<1>5. ASSUME NEW s \in Services, HandleService(s) PROVE ProjectionInv'
  <2>1. s \in Objects \ Routes /\ I!Take(s)
    BY <1>5, KindsAreDisjoint DEF HandleService
  <2>2. /\ names' \subseteq {NamespacedName(x) : x \in Services}
        /\ UNCHANGED <<gwStore, gcStore, handler, indexVars>>
    BY <1>1, <1>5 DEF HandleService
  <2> QED  BY <1>1, <2>1, <2>2, CacheHandlerKeepsInv
<1> QED  BY <1>3, <1>4, <1>5

\* What is left to show of a step of the handler of r that keeps the caches: its
\* own progress, and what the index holds of r.
LEMMA RouteStepKeepsInv ==
    ASSUME ProjectionInv, NEW r \in Routes, UNCHANGED storeVars,
           I!TypeOK', OwnRevisions',
           \A v \in Objects \ {r} : pending'[v] = pending[v] /\ store'[v] = store[v],
           DOMAIN handler' = Routes, DOMAIN routes' = Index!RouteKeys,
           \A q \in Routes \ {r} :
               LET key == Index!routeKey(q[1], NamespacedName(q))
               IN  /\ handler'[q] = handler[q]
                   /\ routes'[key] = routes[key]
                   /\ Index!ClaimsOf(key)' = Index!ClaimsOf(key),
           OnTheWalk(r)', KeepsUp(r)',
           RouteOf(r)' # None => \E rev \in revisionsOf[r] : IndexedFrom(r, rev)'
    PROVE  ProjectionInv'
<1>1. ASSUME NEW q \in Routes \ {r}
      PROVE  /\ OnTheWalk(q)' /\ KeepsUp(q)'
             /\ RouteOf(q)' # None => \E rev \in revisionsOf[q] : IndexedFrom(q, rev)'
  <2>1. OnTheWalk(q)'
    BY DEF ProjectionInv, OnTheWalk
  <2>2. RouteOf(q)' = RouteOf(q) /\ \A rev : IndexedFrom(q, rev) => IndexedFrom(q, rev)'
    BY DEF RouteOf, IndexedFrom
  <2>3. PICK last \in Possible(q) :
          /\ I!Linked(pending[q], last, store[q])
          /\ IF handler[q].at = "idle" THEN Reflects(q, last) ELSE handler[q].rev = last
    BY KindsAreDisjoint DEF ProjectionInv, KeepsUp
  <2>4. Reflects(q, last) => Reflects(q, last)'
    BY <2>2 DEF Reflects
  <2>5. KeepsUp(q)'
    BY <2>3, <2>4, KindsAreDisjoint DEF KeepsUp
  <2> QED  BY <2>1, <2>2, <2>5 DEF ProjectionInv, RoutesAreProjections
<1>2. ASSUME NEW v \in Objects \ Routes PROVE KeepsUp(v)'
  BY DEF ProjectionInv, KeepsUp
<1>3. RoutesAreProjections' /\ \A q \in Routes : OnTheWalk(q)'
  BY <1>1 DEF RoutesAreProjections
<1>4. \A v \in Objects : KeepsUp(v)'
  BY <1>1, <1>2
<1>5. StoreShape'
  BY DEF ProjectionInv, StoreShape, storeVars
<1>6. \A q \in Routes : RouteOf(q)' # None => RouteOf(q)'.proj.mode \in {"ingress", "mesh"}
  BY <1>3, IndexedHasOneParent DEF RoutesAreProjections, IndexedFrom
<1>7. TypeOK'
  BY <1>3, <1>6 DEF ProjectionInv, TypeOK, storeVars, OnTheWalk, Possible
<1> QED  BY <1>3, <1>4, <1>5, <1>7 DEF ProjectionInv

\* deleteRoute and upsertRoute, as the handler of r calls them, change what the
\* index holds of r and of no other route.
LEMMA IndexStep ==
    ASSUME ProjectionInv, NEW r \in Routes, NEW proj, NEW refs
    PROVE  LET key == Index!routeKey(r[1], NamespacedName(r))
               Frame == \A q \in Routes \ {r} :
                   LET other == Index!routeKey(q[1], NamespacedName(q))
                   IN  /\ routes'[other] = routes[other]
                       /\ Index!ClaimsOf(other)' = Index!ClaimsOf(other)
           IN  /\ Index!deleteRoute(key) =>
                      /\ DOMAIN routes' = Index!RouteKeys /\ Frame
                      /\ RouteOf(r)' = None /\ Index!ClaimsOf(key)' = {}
               /\ Index!upsertRoute(r[1], [kind |-> r[1], name |-> NamespacedName(r), proj |-> proj],
                                  refs) =>
                      /\ DOMAIN routes' = Index!RouteKeys /\ Frame
                      /\ RouteOf(r)' = [kind |-> r[1], name |-> NamespacedName(r),
                                        proj |-> proj]
                      /\ Index!ClaimsOf(key)' = {NamespacedName(s) : s \in Services} \cap refs
<1> DEFINE key == Index!routeKey(r[1], NamespacedName(r))
<1>1. /\ key \in Index!RouteKeys
      /\ \A q \in Routes \ {r} : Index!routeKey(q[1], NamespacedName(q)) # key
  BY KeysDiffer
<1>2. DOMAIN routes = Index!RouteKeys
  BY DEF ProjectionInv, StoreShape
<1>3. RouteOf(r)' = routes'[key]
  BY DEF RouteOf
<1> HIDE DEF key
<1>4. ASSUME Index!deleteRoute(key)
      PROVE  /\ DOMAIN routes' = Index!RouteKeys
             /\ routes'[key] = None /\ \A k : k # key => routes'[k] = routes[k]
             /\ Index!ClaimsOf(key)' = {}
             /\ \A k : k # key => Index!ClaimsOf(k)' = Index!ClaimsOf(k)
  <2>1. /\ routes' = [routes EXCEPT ![key] = None]
        /\ backendOwners' = [b \in {NamespacedName(s) : s \in Services} |->
                                 backendOwners[b] \ {key}]
    BY <1>4 DEF Index!deleteRoute, Index!dropBackendOwnershipLocked
  <2> QED  BY <1>1, <1>2, <2>1 DEF Index!ClaimsOf
<1>5. ASSUME Index!upsertRoute(r[1], [kind |-> r[1], name |-> NamespacedName(r), proj |-> proj],
                                  refs)
      PROVE  /\ DOMAIN routes' = Index!RouteKeys
             /\ routes'[key] = [kind |-> r[1], name |-> NamespacedName(r), proj |-> proj]
             /\ \A k : k # key => routes'[k] = routes[k]
             /\ Index!ClaimsOf(key)' = {NamespacedName(s) : s \in Services} \cap refs
             /\ \A k : k # key => Index!ClaimsOf(k)' = Index!ClaimsOf(k)
  <2>1. /\ routes' = [routes EXCEPT ![key] =
                          [kind |-> r[1], name |-> NamespacedName(r), proj |-> proj]]
        /\ backendOwners' = [b \in {NamespacedName(s) : s \in Services} |->
                                 IF b \in refs THEN backendOwners[b] \cup {key}
                                 ELSE backendOwners[b] \ {key}]
    BY <1>5 DEF key, Index!upsertRoute, Index!reindexBackends, Index!ReindexOwners
  <2> QED  BY <1>1, <1>2, <2>1 DEF Index!ClaimsOf
<1> QED  BY <1>1, <1>3, <1>4, <1>5 DEF key

\* AddFunc, UpdateFunc or DeleteFunc starts.
LEMMA HandlerStartKeepsInv ==
    ASSUME ProjectionInv, NEW r \in Routes, registerRouteHandlers(r)
    PROVE  ProjectionInv'
<1> DEFINE n == Head(pending[r])
           key == Index!routeKey(r[1], NamespacedName(r))
<1>1. handler[r] = Idle /\ I!Take(r) /\ UNCHANGED storeVars /\ DOMAIN handler = Routes
  BY DEF registerRouteHandlers, ProjectionInv, StoreShape
<1>2. /\ I!TypeOK' /\ OwnRevisions'
      /\ n.new \in Possible(r) /\ r \in Objects
      /\ I!Linked(pending'[r], n.new, store'[r])
      /\ \A v \in Objects \ {r} : pending'[v] = pending[v] /\ store'[v] = store[v]
  BY <1>1, TakeStep, KindsAreDisjoint
<1>3. CASE n.new = Absent
  <2>1. Index!deleteRoute(key) /\ handler' = handler
    BY <1>3 DEF registerRouteHandlers
  <2>2. /\ DOMAIN routes' = Index!RouteKeys
        /\ \A q \in Routes \ {r} :
               LET other == Index!routeKey(q[1], NamespacedName(q))
               IN  /\ routes'[other] = routes[other]
                   /\ Index!ClaimsOf(other)' = Index!ClaimsOf(other)
        /\ RouteOf(r)' = None /\ Index!ClaimsOf(key)' = {}
    BY <2>1, IndexStep
  <2>3. Reflects(r, Absent)'
    BY <2>2 DEF Reflects
  <2>4. handler'[r].at = "idle"
    BY <1>1, <2>1 DEF Idle
  <2>5. KeepsUp(r)'
    BY <1>2, <1>3, <2>3, <2>4 DEF KeepsUp
  <2>6. OnTheWalk(r)'
    BY <2>1 DEF ProjectionInv, OnTheWalk
  <2> QED  BY <1>1, <1>2, <2>1, <2>2, <2>5, <2>6, RouteStepKeepsInv
<1>4. CASE n.new # Absent
  <2> DEFINE h == [at |-> FirstRead(n.new), rev |-> n.new, read |-> NothingRead]
  <2>1. handler' = [handler EXCEPT ![r] = h] /\ UNCHANGED indexVars
    BY <1>4 DEF registerRouteHandlers, Idle
  <2>2. handler'[r] = h /\ DOMAIN handler' = Routes
        /\ \A q \in Routes \ {r} : handler'[q] = handler[q]
    BY <1>1, <2>1
  <2>3. FirstRead(n.new) \in {"upsert", "gateway"}
    BY DEF FirstRead
  <2>4. NothingRead \in Reads
    BY DEF NothingRead, Reads
  <2>5. OnTheWalk(r)'
    BY <1>2, <1>4, <2>2, <2>3, <2>4 DEF OnTheWalk, Learnt
  <2>6. KeepsUp(r)'
    BY <1>2, <2>2, <2>3 DEF KeepsUp
  <2>7. /\ DOMAIN routes' = Index!RouteKeys
        /\ \A k : routes'[k] = routes[k] /\ Index!ClaimsOf(k)' = Index!ClaimsOf(k)
    BY <2>1 DEF indexVars, Index!ClaimsOf, ProjectionInv, StoreShape
  <2>8. RouteOf(r)' # None => \E rev \in revisionsOf[r] : IndexedFrom(r, rev)'
    BY <2>1 DEF ProjectionInv, RoutesAreProjections, RouteOf, IndexedFrom, indexVars
  <2> QED  BY <1>1, <1>2, <2>2, <2>5, <2>6, <2>7, <2>8, RouteStepKeepsInv
<1> QED  BY <1>3, <1>4

\* A handler that goes on without touching the index: what is left to show is
\* where its walk stands.
LEMMA WalkKeepsInv ==
    ASSUME ProjectionInv, NEW r \in Routes, UNCHANGED <<informerVars, storeVars, indexVars>>,
           handler[r].at # "idle",
           NEW at, NEW read,
           handler' = [handler EXCEPT ![r] = [at |-> at, rev |-> handler[r].rev, read |-> read]],
           at # "idle", OnTheWalk(r)'
    PROVE  ProjectionInv'
<1>1. DOMAIN handler = Routes /\ DOMAIN routes = Index!RouteKeys /\ r \in Objects
  BY KindsAreDisjoint DEF ProjectionInv, StoreShape
<1>2. /\ handler'[r] = [at |-> at, rev |-> handler[r].rev, read |-> read]
      /\ DOMAIN handler' = Routes
      /\ \A q \in Routes \ {r} : handler'[q] = handler[q]
  BY <1>1
<1>3. I!TypeOK' /\ OwnRevisions' /\ pending' = pending /\ store' = store
  BY DEF ProjectionInv, TypeOK, I!TypeOK, OwnRevisions, Possible, informerVars
<1>4. KeepsUp(r)'
  BY <1>1, <1>2, <1>3 DEF ProjectionInv, KeepsUp
<1>5. /\ DOMAIN routes' = Index!RouteKeys
      /\ \A k : routes'[k] = routes[k] /\ Index!ClaimsOf(k)' = Index!ClaimsOf(k)
  BY <1>1 DEF indexVars, Index!ClaimsOf
<1>6. RouteOf(r)' # None => \E rev \in revisionsOf[r] : IndexedFrom(r, rev)'
  BY DEF ProjectionInv, RoutesAreProjections, RouteOf, IndexedFrom, indexVars
<1> QED  BY <1>2, <1>3, <1>4, <1>5, <1>6, RouteStepKeepsInv

\* What Read does to the record of a handler.
LEMMA ReadEffect ==
    ASSUME ProjectionInv, NEW r \in Routes, NEW at, NEW next, NEW value
    PROVE  LET h == handler[r]
               Goes(read) == handler' = [handler EXCEPT ![r] =
                                             [at |-> next, rev |-> h.rev, read |-> read]]
           IN  /\ Read(r, at, next, "gateway", value) =>
                      Goes([gateway |-> value, controller |-> h.read.controller,
                            inferred |-> h.read.inferred])
               /\ Read(r, at, next, "controller", value) =>
                      Goes([gateway |-> h.read.gateway, controller |-> value,
                            inferred |-> h.read.inferred])
               /\ Read(r, at, next, "inferred", value) =>
                      Goes([gateway |-> h.read.gateway, controller |-> h.read.controller,
                            inferred |-> value])
<1>1. DOMAIN handler = Routes
  BY DEF ProjectionInv, StoreShape
<1>2. handler[r] \in [at : {"idle", "gateway", "class", "synced", "service", "upsert"},
                      rev : Possible(r), read : Reads]
  BY DEF ProjectionInv, OnTheWalk
<1> QED  BY <1>1, <1>2 DEF Read, Reads

\* The four reads preserve the invariant, whatever the caches hold by then.
LEMMA ReadsKeepInv ==
    ASSUME ProjectionInv, NEW r \in Routes,
           ReadGateway(r) \/ ReadClass(r) \/ ReadSynced(r) \/ ReadService(r)
    PROVE  ProjectionInv'
<1> DEFINE h == handler[r]
           pr == h.rev.parentRefs[1]
<1>1. /\ DOMAIN handler = Routes
      /\ h \in [at : {"idle", "gateway", "class", "synced", "service", "upsert"},
                rev : Possible(r), read : Reads]
      /\ h.at # "idle" => h.rev # Absent
      /\ h.at \in {"gateway", "class", "synced", "service"} => FirstRead(h.rev) = "gateway"
      /\ h.at \in {"gateway", "synced", "service"} => h.read = NothingRead
      /\ h.at \in {"synced", "service"} => isNilKindCoreParent(pr)
      /\ h.at = "class" => h.read.gateway # None /\ ~h.read.inferred
  BY DEF ProjectionInv, StoreShape, OnTheWalk
<1>2. FirstRead(h.rev) = "gateway" => h.rev.parentRefs # << >> /\ ~isServiceParent(pr)
  BY DEF FirstRead
<1>3. CASE ReadGateway(r)
  <2> DEFINE g == ParentObject("Gateway", r, h.rev)
             gw == IF g \in Gateways THEN gwStore[g] ELSE None
             next == IF gw # None THEN "class"
                     ELSE IF InferServiceParent /\ isNilKindCoreParent(pr) THEN "synced"
                     ELSE "upsert"
             read == [gateway |-> gw, controller |-> None, inferred |-> FALSE]
  <2>1. h.at = "gateway" /\ Read(r, "gateway", next, "gateway", gw)
    BY <1>3 DEF ReadGateway
  <2>2. gw \in (UNION {revisionsOf[x] : x \in Gateways}) \cup {None}
    BY DEF ProjectionInv, TypeOK
  <2> HIDE DEF gw
  <2>3. handler' = [handler EXCEPT ![r] = [at |-> next, rev |-> h.rev, read |-> read]]
    BY <1>1, <2>1, ReadEffect DEF NothingRead
  <2>4. handler'[r] = [at |-> next, rev |-> h.rev, read |-> read]
    BY <1>1, <2>3
  <2>5. read \in Reads
    BY <2>2 DEF Reads
  <2>6. gw = None => read = NothingRead
    BY DEF NothingRead
  <2>7. OnTheWalk(r)'
    BY <1>1, <1>2, <2>1, <2>4, <2>5, <2>6 DEF OnTheWalk, Learnt
  <2> QED  BY <2>1, <2>3, <2>7, WalkKeepsInv DEF Read
<1>4. CASE ReadClass(r)
  <2> DEFINE c == <<"GatewayClass", "", h.read.gateway.class>>
             controller == IF c \notin GatewayClasses THEN None
                           ELSE IF gcStore[c] = None THEN None ELSE gcStore[c].controller
             read == [gateway |-> h.read.gateway, controller |-> controller,
                      inferred |-> h.read.inferred]
  <2>1. h.at = "class" /\ Read(r, "class", "upsert", "controller", controller)
    BY <1>4 DEF ReadClass
  <2>2. controller \in {class.controller : class \in UNION {revisionsOf[x] : x \in GatewayClasses}}
                           \cup {None}
    BY DEF ProjectionInv, TypeOK
  <2> HIDE DEF controller
  <2>3. handler' = [handler EXCEPT ![r] = [at |-> "upsert", rev |-> h.rev, read |-> read]]
    BY <2>1, ReadEffect
  <2>4. handler'[r] = [at |-> "upsert", rev |-> h.rev, read |-> read]
    BY <1>1, <2>3
  <2>5. read \in Reads
    BY <1>1, <2>2 DEF Reads
  <2>6. OnTheWalk(r)'
    BY <1>1, <1>2, <2>1, <2>4, <2>5 DEF OnTheWalk, Learnt
  <2> QED  BY <2>1, <2>3, <2>6, WalkKeepsInv DEF Read
<1>5. CASE ReadSynced(r)
  <2> DEFINE next == IF gatewaySynced THEN "service" ELSE "upsert"
  <2>0. PICK no \in BOOLEAN : no = FALSE
    OBVIOUS
  <2>1. h.at = "synced" /\ Read(r, "synced", next, "inferred", no)
    BY <1>5, <2>0 DEF ReadSynced, Read
  <2>2. next \in {"service", "upsert"}
    OBVIOUS
  <2> HIDE DEF next
  <2>3. handler' = [handler EXCEPT ![r] = [at |-> next, rev |-> h.rev, read |-> NothingRead]]
    BY <1>1, <2>0, <2>1, ReadEffect DEF NothingRead
  <2>4. handler'[r] = [at |-> next, rev |-> h.rev, read |-> NothingRead]
    BY <1>1, <2>3
  <2>5. NothingRead \in Reads
    BY DEF NothingRead, Reads
  <2>6. OnTheWalk(r)'
    BY <1>1, <2>1, <2>2, <2>4, <2>5 DEF OnTheWalk, Learnt
  <2> QED  BY <2>1, <2>2, <2>3, <2>6, WalkKeepsInv DEF Read
<1>6. CASE ReadService(r)
  <2> DEFINE found == NamespacedName(ParentObject("Service", r, h.rev)) \in names
             read == [gateway |-> None, controller |-> None, inferred |-> found]
  <2>1. h.at = "service" /\ Read(r, "service", "upsert", "inferred", found)
    BY <1>6 DEF ReadService
  <2>2. found \in BOOLEAN
    OBVIOUS
  <2> HIDE DEF found
  <2>3. handler' = [handler EXCEPT ![r] = [at |-> "upsert", rev |-> h.rev, read |-> read]]
    BY <1>1, <2>1, ReadEffect DEF NothingRead
  <2>4. handler'[r] = [at |-> "upsert", rev |-> h.rev, read |-> read]
    BY <1>1, <2>3
  <2>5. read \in Reads
    BY <2>2 DEF Reads
  <2>6. read = NothingRead \/ found
    BY <2>2 DEF NothingRead
  <2>7. OnTheWalk(r)'
    BY <1>1, <1>2, <2>1, <2>4, <2>5, <2>6 DEF OnTheWalk, Learnt
  <2> QED  BY <2>1, <2>3, <2>7, WalkKeepsInv DEF Read
<1> QED  BY <1>3, <1>4, <1>5, <1>6

\* The upsert preserves the invariant: the handler is idle again, and the index
\* holds the projection of the revision it was given.
LEMMA UpsertKeepsInv ==
    ASSUME ProjectionInv, NEW r \in Routes, UpsertRoute(r)
    PROVE  ProjectionInv'
<1> DEFINE key == Index!routeKey(r[1], NamespacedName(r))
<1> PICK h : h = handler[r]
  OBVIOUS
<1> DEFINE refs == backendRefsFromRoute(r, h.rev)
<1>1. /\ h.at = "upsert" /\ handler' = [handler EXCEPT ![r] = Idle]
      /\ Index!upsertRoute(r[1], [kind |-> r[1], name |-> NamespacedName(r),
                                  proj |-> routeToAttrs(r, h.rev, h.read)], refs)
      /\ UNCHANGED <<informerVars, storeVars>>
  BY DEF UpsertRoute, Index!upsertHTTPRoute, Index!upsertGRPCRoute,
     Index!httpRouteToAttrs, Index!grpcRouteToAttrs
<1>2. /\ DOMAIN handler = Routes /\ r \in Objects
      /\ h.rev \in revisionsOf[r] /\ h.rev \in Possible(r) /\ h.rev # Absent
      /\ h.read \in Reads /\ Learnt(h.rev, h.read)
  BY <1>1, KindsAreDisjoint DEF ProjectionInv, StoreShape, OnTheWalk, Possible
<1>3. I!TypeOK' /\ OwnRevisions' /\ pending' = pending /\ store' = store
  BY <1>1 DEF ProjectionInv, TypeOK, I!TypeOK, OwnRevisions, Possible, informerVars
<1>4. /\ handler'[r] = Idle /\ DOMAIN handler' = Routes
      /\ \A q \in Routes \ {r} : handler'[q] = handler[q]
  BY <1>1, <1>2
<1>5. /\ DOMAIN routes' = Index!RouteKeys
      /\ \A q \in Routes \ {r} :
             LET other == Index!routeKey(q[1], NamespacedName(q))
             IN  /\ routes'[other] = routes[other]
                 /\ Index!ClaimsOf(other)' = Index!ClaimsOf(other)
      /\ RouteOf(r)' = [kind |-> r[1], name |-> NamespacedName(r),
                        proj |-> routeToAttrs(r, h.rev, h.read)]
      /\ Index!ClaimsOf(key)' = {NamespacedName(s) : s \in Services} \cap refs
  BY <1>1, IndexStep
<1>6. IndexedFrom(r, h.rev)'
  BY <1>2, <1>5 DEF IndexedFrom
<1>7. I!Linked(pending[r], h.rev, store[r])
  BY <1>1, <1>2 DEF ProjectionInv, KeepsUp
<1>8. Reflects(r, h.rev)'
  BY <1>2, <1>5, <1>6 DEF Reflects
<1>9. KeepsUp(r)'
  BY <1>2, <1>3, <1>4, <1>7, <1>8 DEF KeepsUp, Idle
<1>10. OnTheWalk(r)'
  <2>1. NothingRead \in Reads
    BY DEF NothingRead, Reads
  <2> QED  BY <1>4, <2>1 DEF OnTheWalk, Idle, Possible
<1> QED  BY <1>1, <1>2, <1>3, <1>4, <1>5, <1>6, <1>9, <1>10, RouteStepKeepsInv

-----------------------------------------------------------------------------
(* The theorems *)

\* The empty caches and the empty index satisfy the invariant.
LEMMA InitHasInv ==
    ASSUME Init PROVE ProjectionInv
<1>1. /\ store = [o \in Objects |-> Absent] /\ pending = [o \in Objects |-> << >>]
      /\ gwStore = [g \in Gateways |-> None] /\ gcStore = [c \in GatewayClasses |-> None]
      /\ names = {} /\ handler = [r \in Routes |-> Idle]
      /\ routes = [k \in Index!RouteKeys |-> None]
      /\ backendOwners = [b \in {NamespacedName(s) : s \in Services} |-> {}]
  BY DEF Init, Index!Init
<1>2. \A r \in Routes : /\ RouteOf(r) = None
                        /\ Index!ClaimsOf(Index!routeKey(r[1], NamespacedName(r))) = {}
  BY <1>1, KeysDiffer DEF RouteOf, Index!ClaimsOf
<1>3. I!TypeOK
  BY <1>1 DEF Init, I!TypeOK, I!States
<1>4. TypeOK
  BY <1>1, <1>2, <1>3 DEF TypeOK, Idle
<1>5. OwnRevisions
  BY <1>1 DEF Init, OwnRevisions, Possible
<1>6. StoreShape
  BY <1>1 DEF StoreShape
<1>7. RoutesAreProjections
  BY <1>2 DEF RoutesAreProjections
<1>8. ASSUME NEW r \in Routes PROVE OnTheWalk(r)
  <2>1. NothingRead \in Reads
    BY DEF NothingRead, Reads
  <2> QED  BY <1>1, <2>1 DEF OnTheWalk, Idle, Possible
<1>9. ASSUME NEW o \in Objects PROVE KeepsUp(o)
  <2>1. I!Linked(pending[o], Absent, store[o])
    BY <1>1 DEF I!Linked
  <2>2. o \in Routes => handler[o].at = "idle" /\ Reflects(o, Absent)
    BY <1>1, <1>2 DEF Reflects, Idle
  <2> QED  BY <2>1, <2>2 DEF KeepsUp, Possible
<1> QED  BY <1>4, <1>5, <1>6, <1>7, <1>8, <1>9 DEF ProjectionInv

\* A user's write changes the cluster and nothing the processor holds.
LEMMA WriteKeepsInv ==
    ASSUME ProjectionInv, UserWrites
    PROVE  ProjectionInv'
<1>0. PICK o \in Writable : \E rev \in revisionsOf[o] \cup {Absent} : I!Write(o, rev)
  BY DEF UserWrites
<1>1. PICK rev \in revisionsOf[o] \cup {Absent} : I!Write(o, rev)
  BY <1>0
<1>2. o \in Objects /\ rev \in I!States /\ rev \in Possible(o)
  BY ProjectionAssumption DEF I!States, Possible
<1>3. /\ api' = [api EXCEPT ![o] = rev] /\ store' = store /\ pending' = pending
      /\ UNCHANGED <<storeVars, handler, indexVars>>
  BY <1>1 DEF I!Write, UserWrites
<1>4. I!TypeOK'
  BY <1>2, <1>3 DEF ProjectionInv, TypeOK, I!TypeOK
<1>5. OwnRevisions'
  BY <1>2, <1>3 DEF ProjectionInv, TypeOK, I!TypeOK, OwnRevisions, Possible
<1>6. TypeOK' /\ StoreShape' /\ RoutesAreProjections' /\ \A r \in Routes : OnTheWalk(r)'
  BY <1>3, <1>4 DEF ProjectionInv, TypeOK, StoreShape, RoutesAreProjections, OnTheWalk,
     IndexedFrom, RouteOf, storeVars, indexVars
<1>7. \A v \in Objects : KeepsUp(v)'
  BY <1>3 DEF ProjectionInv, KeepsUp, Reflects, IndexedFrom, RouteOf, Index!ClaimsOf,
     indexVars
<1> QED  BY <1>5, <1>6, <1>7 DEF ProjectionInv

\* The invariant says nothing of HasSynced itself: a step that changes at most
\* gatewaySynced preserves it.
LEMMA StutterKeepsInv ==
    ASSUME ProjectionInv, UNCHANGED <<informerVars, gwStore, gcStore, names, handler, indexVars>>
    PROVE  ProjectionInv'
<1>1. I!TypeOK' /\ OwnRevisions' /\ pending' = pending /\ store' = store
  BY DEF ProjectionInv, TypeOK, I!TypeOK, OwnRevisions, Possible, informerVars
<1>2. TypeOK' /\ StoreShape' /\ RoutesAreProjections' /\ \A r \in Routes : OnTheWalk(r)'
  BY <1>1 DEF ProjectionInv, TypeOK, StoreShape, RoutesAreProjections, OnTheWalk,
     IndexedFrom, RouteOf, indexVars
<1>3. \A v \in Objects : KeepsUp(v)'
  BY <1>1 DEF ProjectionInv, KeepsUp, Reflects, IndexedFrom, RouteOf, Index!ClaimsOf,
     indexVars
<1> QED  BY <1>1, <1>2, <1>3 DEF ProjectionInv

\* ProjectionInv is an invariant: however users, informers and handlers
\* interleave, a route is indexed from one revision of its own and one walk
\* through applyParentRef.
THEOREM ProjectionInvariant == Spec => []ProjectionInv
<1>1. Init => ProjectionInv
  BY InitHasInv
<1>2. ProjectionInv /\ [Next]_vars => ProjectionInv'
  <2> SUFFICES ASSUME ProjectionInv, [Next]_vars PROVE ProjectionInv'
    OBVIOUS
  <2>1. CASE UserWrites
    BY <2>1, WriteKeepsInv
  <2>2. CASE FinishGatewayList
    BY <2>2, StutterKeepsInv DEF FinishGatewayList
  <2>3. ASSUME NEW r \in Routes, RouteHandler(r) PROVE ProjectionInv'
    BY <2>3, HandlerStartKeepsInv, ReadsKeepInv, UpsertKeepsInv DEF RouteHandler
  <2>4. CASE Handlers
    BY <2>3, <2>4, CachesKeepInv DEF Handlers
  <2>5. CASE \E o \in Objects : Observe(o) \/ Resync(o)
    BY <2>5, WatchKeepsInv
  <2>6. CASE UNCHANGED vars
    BY <2>6, StutterKeepsInv DEF vars, storeVars
  <2> QED  BY <2>1, <2>2, <2>4, <2>5, <2>6 DEF Next
<1> QED  BY <1>1, <1>2, PTL DEF Spec

\* Every cache, handler and map of the projection keeps its type.
THEOREM ProjectionTypeOK == Spec => []TypeOK
<1>1. ProjectionInv => TypeOK
  BY DEF ProjectionInv
<1> QED  BY <1>1, ProjectionInvariant, PTL

\* Whatever was deleted, created or listed between the reads of applyParentRef, a
\* route is indexed with a Service or with a Gateway and not both: mode, waypoint,
\* role and port go with the one it has, whose address is that in parent_ref; and
\* the kinds are as OneParent says, an inferred Service being the one case in which
\* parent_ref and parent.kind differ.
THEOREM ProjectionOneParent == Spec => []OneParent
<1>1. ProjectionInv => OneParent
  BY IndexedHasOneParent DEF ProjectionInv, RoutesAreProjections, IndexedFrom, OneParent
<1> QED  BY <1>1, ProjectionInvariant, PTL

\* A handler that is drained and idle has indexed the current revision.
LEMMA SettledReflects ==
    ASSUME ProjectionInv, NEW r \in Routes, Settled(r)
    PROVE  Reflects(r, api[r]) /\ api[r] \in revisionsOf[r] \cup {Absent}
<1>1. r \in Objects /\ handler[r].at = "idle"
  BY KindsAreDisjoint DEF Settled, Idle
<1>2. pending[r] = << >> /\ store[r] = api[r]
  BY <1>1 DEF Settled, I!Drained
<1>3. PICK last \in Possible(r) : I!Linked(pending[r], last, store[r]) /\ Reflects(r, last)
  BY <1>1 DEF ProjectionInv, KeepsUp
<1>4. last = api[r]
  BY <1>2, <1>3 DEF I!Linked
<1> QED  BY <1>3, <1>4 DEF Possible

\* With nothing on its way, the index holds a route exactly if it exists, as its
\* current revision says and under the Services that revision references.
THEOREM ProjectionSettledIsCurrent == Spec => []SettledRouteIsCurrent
<1>1. ProjectionInv => SettledRouteIsCurrent
  <2> SUFFICES ASSUME ProjectionInv, NEW r \in Routes, Settled(r)
               PROVE  LET key == Index!routeKey(r[1], NamespacedName(r))
                      IN  IF api[r] = Absent
                          THEN routes[key] = None /\ Index!ClaimsOf(key) = {}
                          ELSE /\ routes[key] # None
                               /\ \A f \in {"uid", "parentRef", "ruleNames", "accepted",
                                            "resolvedRefs"} :
                                      RouteOf(r).proj[f]
                                          = routeToAttrs(r, api[r], NothingRead)[f]
                               /\ Index!ClaimsOf(key) = {NamespacedName(s) : s \in Services}
                                                     \cap backendRefsFromRoute(r, api[r])
    BY DEF SettledRouteIsCurrent
  <2>1. Reflects(r, api[r]) /\ api[r] \in revisionsOf[r] \cup {Absent}
    BY SettledReflects
  <2>2. CASE api[r] = Absent
    BY <2>1, <2>2 DEF Reflects, RouteOf
  <2>3. CASE api[r] # Absent
    <3>1. IndexedFrom(r, api[r]) /\ api[r] \in revisionsOf[r]
      BY <2>1, <2>3 DEF Reflects
    <3>2. PICK read \in Reads :
              RouteOf(r) = [kind |-> r[1], name |-> NamespacedName(r),
                            proj |-> routeToAttrs(r, api[r], read)]
      BY <3>1 DEF IndexedFrom
    <3>3. RouteOf(r) # None
      BY <3>1, <3>2, ParentAssumption
    <3>4. RouteOf(r).proj = routeToAttrs(r, api[r], read)
      BY <3>2
    <3>5. ASSUME NEW f \in {"uid", "parentRef", "ruleNames", "accepted", "resolvedRefs"}
          PROVE  routeToAttrs(r, api[r], read)[f] = routeToAttrs(r, api[r], NothingRead)[f]
      BY ProjectionFields
    <3> QED  BY <2>1, <2>3, <3>3, <3>4, <3>5 DEF Reflects, RouteOf
  <2> QED  BY <2>2, <2>3
<1> QED  BY <1>1, ProjectionInvariant, PTL

\* kind: Gateway is a promise: such a route is never meshed onto a Service of
\* that name, and only a waypoint class makes it mesh.
THEOREM ProjectionExplicitGateway == Spec => []ExplicitGatewayIsNeverAService
<1>1. ProjectionInv => ExplicitGatewayIsNeverAService
  <2> SUFFICES ASSUME ProjectionInv, NEW r \in Routes, Settled(r), api[r] # Absent,
                      api[r].parentRefs # << >>, api[r].parentRefs[1].kind = "Gateway"
               PROVE  /\ RouteOf(r).proj.service = None
                      /\ RouteOf(r).proj.mode = "mesh" => RouteOf(r).proj.waypoint # None
    BY DEF ExplicitGatewayIsNeverAService
  <2>1. Reflects(r, api[r]) /\ api[r] \in revisionsOf[r]
    BY SettledReflects
  <2>2. PICK read \in Reads :
            /\ Learnt(api[r], read)
            /\ RouteOf(r) = [kind |-> r[1], name |-> NamespacedName(r),
                             proj |-> routeToAttrs(r, api[r], read)]
    BY <2>1 DEF Reflects, IndexedFrom
  <2> DEFINE p == routeToAttrs(r, api[r], read)
             pr == api[r].parentRefs[1]
  <2>3. ~isServiceParent(pr) /\ ~isNilKindCoreParent(pr)
    BY DEF isServiceParent, isNilKindCoreParent
  <2>4. ~read.inferred
    BY <2>2, <2>3 DEF Learnt, NothingRead
  <2>5. p.service = None
    BY <2>3, <2>4 DEF routeToAttrs, applyParentRef, applyGatewayParent
  <2>6. p.mode = "mesh" => p.service # None \/ p.waypoint # None
    BY <2>1, <2>2, ProjectionHasOneParent DEF HasOneParent
  <2> HIDE DEF p
  <2> QED  BY <2>2, <2>5, <2>6 DEF p
<1> QED  BY <1>1, ProjectionInvariant, PTL

=============================================================================
