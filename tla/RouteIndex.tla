------------------------------ MODULE RouteIndex ------------------------------
(***************************************************************************)
(* The in-memory projection the enrichment path reads (index.go).          *)
(*                                                                         *)
(* One RWMutex guards all five maps, so every method is one atomic action. *)
(* A Go map is a total function here: an absent key maps to None (or to    *)
(* the empty set / empty sequence, which the code treats like absence).    *)
(***************************************************************************)
EXTENDS Naturals, FiniteSets, Sequences

CONSTANTS
    Names,          \* "<ns>/<name>" of routes
    Backends,       \* "<ns>/<service>" keys
    Projections,    \* everything else a RouteAttributes carries, opaque
    PolicyRefs,     \* (group, kind, namespace, name) identities of policies
    None            \* an absent map entry

RouteKinds == {"HTTPRoute", "GRPCRoute"}

\* The key under which a route is stored: the kind is part of it, so that an
\* HTTPRoute and a GRPCRoute of one name are two routes.
routeKey(kind, name) == <<kind, name>>

RouteKeys == RouteKinds \X Names

RouteAttributes == [kind : RouteKinds, name : Names, proj : Projections]

ASSUME NoneAssumption == None \notin RouteKeys /\ None \notin RouteAttributes

VARIABLES
    routes,             \* route key -> RouteAttributes
    backendIndex,       \* backend -> RouteAttributes, the single candidate
    claimedBackends,    \* backend -> route key that claimed it first
    backendOwners,      \* backend -> all route keys that reference it
    policies            \* route key -> sequence of distinct policy refs

vars == <<routes, backendIndex, claimedBackends, backendOwners, policies>>

-----------------------------------------------------------------------------
(* newRouteIndex *)

Init ==
    /\ routes = [k \in RouteKeys |-> None]
    /\ backendIndex = [b \in Backends |-> None]
    /\ claimedBackends = [b \in Backends |-> None]
    /\ backendOwners = [b \in Backends |-> {}]
    /\ policies = [k \in RouteKeys |-> << >>]

-----------------------------------------------------------------------------
(* The read side.  A lookup that misses returns None. *)

\* The defensive copy of the route's current policies laid over ra.
overlayPoliciesLocked(key, ra) == [attrs |-> ra, policies |-> policies[key]]

LookupRoute(kind, name) ==
    LET key == routeKey(kind, name)
    IN  IF routes[key] = None THEN None
        ELSE overlayPoliciesLocked(key, routes[key])

\* Mutant: the policies of the HTTPRoute of the same name.
MutLookupByBackendServiceHTTPOnly(b) ==
    LET ra == backendIndex[b]
    IN  IF ra = None THEN None
        ELSE overlayPoliciesLocked(routeKey("HTTPRoute", ra.name), ra)

LookupByBackendService(b) ==
    LET ra == backendIndex[b]
    IN  IF ra = None THEN None
        ELSE overlayPoliciesLocked(routeKey(ra.kind, ra.name), ra)

\* The map iteration order of the code is lost in the set.
LookupByBackendServiceWithParents(b) ==
    {overlayPoliciesLocked(k, routes[k]) : k \in backendOwners[b]}

-----------------------------------------------------------------------------
(* Routes *)

\* b's first claimer is some route other than owner.
ClaimedByOther(owner, b) == claimedBackends[b] \notin {None, owner}

\* The multi-owner index never drops on ambiguity.
ReindexOwners(owner, refs) ==
    backendOwners' = [b \in Backends |->
        IF b \in refs THEN backendOwners[b] \cup {owner}
                      ELSE backendOwners[b] \ {owner}]

\* Mutant: stale claims are not released before re-indexing.
MutReindexClaimsNoRelease(owner, refs) ==
    claimedBackends' = [b \in Backends |->
        IF b \in refs /\ ~ClaimedByOther(owner, b)
        THEN owner ELSE claimedBackends[b]]

\* Mutant: the last claimer wins.
MutReindexClaimsLastWins(owner, refs) ==
    claimedBackends' = [b \in Backends |->
        IF b \in refs THEN owner
        ELSE IF claimedBackends[b] = owner THEN None ELSE claimedBackends[b]]

\* First claimer wins; a claim is released when the owner stops referencing b.
ReindexClaims(owner, refs) ==
    claimedBackends' = [b \in Backends |->
        IF ClaimedByOther(owner, b) THEN claimedBackends[b]
        ELSE IF b \in refs THEN owner ELSE None]

\* Mutant: an entry the route already holds is not refreshed.
MutReindexSingleKeepsSnapshot(owner, ra, refs) ==
    backendIndex' = [b \in Backends |->
        IF b \in refs
        THEN IF ClaimedByOther(owner, b) THEN None
             ELSE IF backendIndex[b] # None THEN backendIndex[b] ELSE ra
        ELSE IF claimedBackends[b] = owner THEN None ELSE backendIndex[b]]

\* Mutant: a second claimer leaves the first one's entry standing.
MutReindexSingleNoDrop(owner, ra, refs) ==
    backendIndex' = [b \in Backends |->
        IF b \in refs
        THEN IF ClaimedByOther(owner, b) THEN backendIndex[b] ELSE ra
        ELSE IF claimedBackends[b] = owner THEN None ELSE backendIndex[b]]

\* The single-candidate entry: dropped by a second claimer, refreshed by the
\* first one, removed with the first one's claim.
ReindexSingle(owner, ra, refs) ==
    backendIndex' = [b \in Backends |->
        IF b \in refs THEN (IF ClaimedByOther(owner, b) THEN None ELSE ra)
        ELSE IF claimedBackends[b] = owner THEN None ELSE backendIndex[b]]

reindexBackends(owner, ra, refs) ==
    /\ ReindexOwners(owner, refs)
    /\ ReindexClaims(owner, refs)
    /\ ReindexSingle(owner, ra, refs)

\* The kind in the key is the method's, the kind in ra the projection's.
upsertRoute(kind, ra, refs) ==
    LET key == routeKey(kind, ra.name)
    IN  /\ routes' = [routes EXCEPT ![key] = ra]
        /\ reindexBackends(key, ra, refs)
        /\ UNCHANGED policies

upsertHTTPRoute(ra, refs) == upsertRoute("HTTPRoute", ra, refs)
upsertGRPCRoute(ra, refs) == upsertRoute("GRPCRoute", ra, refs)

\* Mutant: the projection leaves Kind at its zero value.
MutHttpRouteToAttrsNoKind(name, proj) == [kind |-> "", name |-> name, proj |-> proj]

\* The identity each projection gives its route; see RouteProjection for the
\* rest of it.
httpRouteToAttrs(name, proj) == [kind |-> "HTTPRoute", name |-> name, proj |-> proj]
grpcRouteToAttrs(name, proj) == [kind |-> "GRPCRoute", name |-> name, proj |-> proj]

\* Mutant: only the single-candidate maps are pruned.
MutDropKeepsOwners(key) ==
    /\ claimedBackends' = [b \in Backends |->
           IF claimedBackends[b] = key THEN None ELSE claimedBackends[b]]
    /\ backendIndex' = [b \in Backends |->
           IF claimedBackends[b] = key THEN None ELSE backendIndex[b]]
    /\ UNCHANGED backendOwners

dropBackendOwnershipLocked(key) ==
    /\ claimedBackends' = [b \in Backends |->
           IF claimedBackends[b] = key THEN None ELSE claimedBackends[b]]
    /\ backendIndex' = [b \in Backends |->
           IF claimedBackends[b] = key THEN None ELSE backendIndex[b]]
    /\ backendOwners' = [b \in Backends |-> backendOwners[b] \ {key}]

deleteRoute(key) ==
    /\ routes' = [routes EXCEPT ![key] = None]
    /\ dropBackendOwnershipLocked(key)
    /\ UNCHANGED policies

deleteHTTPRoute(name) == deleteRoute(routeKey("HTTPRoute", name))
deleteGRPCRoute(name) == deleteRoute(routeKey("GRPCRoute", name))

-----------------------------------------------------------------------------
(* Policies.  A policy ref may wait here for a route not yet ingested. *)

\* Mutant: no deduplication.
MutApplyPolicyAppends(kind, name, p) ==
    /\ Len(policies[routeKey(kind, name)]) < 3
    /\ policies' = [policies EXCEPT ![routeKey(kind, name)] = Append(@, p)]
    /\ UNCHANGED <<routes, backendIndex, claimedBackends, backendOwners>>

applyPolicy(kind, name, p) ==
    LET key == routeKey(kind, name)
    IN  /\ policies' = [policies EXCEPT ![key] =
               IF \E i \in 1 .. Len(policies[key]) : policies[key][i] = p
               THEN policies[key]
               ELSE Append(policies[key], p)]
        /\ UNCHANGED <<routes, backendIndex, claimedBackends, backendOwners>>

\* Only the first equal ref is removed.
removePolicy(kind, name, p) ==
    LET key == routeKey(kind, name)
        s   == policies[key]
        At(i) == s[i] = p /\ \A j \in 1 .. (i - 1) : s[j] # p
    IN  /\ policies' = [policies EXCEPT ![key] =
               IF \E i \in 1 .. Len(s) : At(i)
               THEN LET i == CHOOSE i \in 1 .. Len(s) : At(i)
                    IN  SubSeq(s, 1, i - 1) \o SubSeq(s, i + 1, Len(s))
               ELSE s]
        /\ UNCHANGED <<routes, backendIndex, claimedBackends, backendOwners>>

-----------------------------------------------------------------------------
(* The informers call the methods with whatever the cluster holds. *)

UpsertHTTP == \E n \in Names, p \in Projections, refs \in SUBSET Backends :
                  upsertHTTPRoute(httpRouteToAttrs(n, p), refs)
UpsertGRPC == \E n \in Names, p \in Projections, refs \in SUBSET Backends :
                  upsertGRPCRoute(grpcRouteToAttrs(n, p), refs)
DeleteHTTP == \E n \in Names : deleteHTTPRoute(n)
DeleteGRPC == \E n \in Names : deleteGRPCRoute(n)
ApplyPolicy == \E kind \in RouteKinds, n \in Names, p \in PolicyRefs :
                  applyPolicy(kind, n, p)
RemovePolicy == \E kind \in RouteKinds, n \in Names, p \in PolicyRefs :
                  removePolicy(kind, n, p)

RouteNext == UpsertHTTP \/ UpsertGRPC \/ DeleteHTTP \/ DeleteGRPC
PolicyNext == ApplyPolicy \/ RemovePolicy

Next == RouteNext \/ PolicyNext

Spec == Init /\ [][Next]_vars

\* What the last upsert of k referenced.
ClaimsOf(k) == {b \in Backends : k \in backendOwners[b]}

\* Mutant: UpdateFunc skips a route that has not changed.
MutResyncSkipsUnchanged(k) == routes[k] # None /\ UNCHANGED vars

\* The informer's periodic resync hands every cached route to UpdateFunc
\* again, which upserts it whether or not it changed.
Resync(k) ==
    /\ routes[k] # None
    /\ \/ /\ k[1] = "HTTPRoute"
          /\ upsertHTTPRoute(httpRouteToAttrs(k[2], routes[k].proj), ClaimsOf(k))
       \/ /\ k[1] = "GRPCRoute"
          /\ upsertGRPCRoute(grpcRouteToAttrs(k[2], routes[k].proj), ClaimsOf(k))

FairSpec == Spec /\ \A k \in RouteKeys : WF_vars(Resync(k))

-----------------------------------------------------------------------------
(* Correctness *)

\* Every map holds values of its type.
TypeOK ==
    /\ routes \in [RouteKeys -> RouteAttributes \cup {None}]
    /\ backendIndex \in [Backends -> RouteAttributes \cup {None}]
    /\ claimedBackends \in [Backends -> RouteKeys \cup {None}]
    /\ backendOwners \in [Backends -> SUBSET RouteKeys]
    /\ policies \in [RouteKeys -> Seq(PolicyRefs)]

\* backendOwners is pruned in lockstep with routes: LookupByBackendService-
\* WithParents reads routes[owner] without checking that it is there.
OwnersAreLive ==
    \A b \in Backends : \A k \in backendOwners[b] : routes[k] # None

\* The pinned first claimer of a Service is one of the routes that reference
\* it; otherwise a route that let go would keep every other one out of the
\* single-candidate index for ever.
ClaimerIsOwner ==
    \A b \in Backends :
        claimedBackends[b] # None => claimedBackends[b] \in backendOwners[b]

\* A single-candidate entry is the claimer's current attributes: never a
\* snapshot older than routes, never those of a deleted route or of one that
\* stopped referencing the Service.
SingleCandidateIsCurrent ==
    \A b \in Backends :
        backendIndex[b] # None =>
            /\ claimedBackends[b] # None
            /\ backendIndex[b] = routes[claimedBackends[b]]

\* The three lookups agree: what the single-candidate index answers for a
\* Service is among the candidates of the multi-owner index and is what
\* LookupRoute returns for that route, policies included.
LookupsAgree ==
    \A b \in Backends :
        LET hit == LookupByBackendService(b)
        IN  hit # None =>
                /\ hit \in LookupByBackendServiceWithParents(b)
                /\ hit = LookupRoute(hit.attrs.kind, hit.attrs.name)

\* No policy ref is recorded twice on a route, so that one removePolicy
\* detaches it.
PoliciesDistinct ==
    \A k \in RouteKeys : \A i, j \in 1 .. Len(policies[k]) :
        policies[k][i] = policies[k][j] => i = j

\* As long as the first claimer of a Service references it, it keeps the claim
\* and nobody else is answered for the Service: the answer is the claimer's
\* current attributes or, once a second route contends, nothing, and it never
\* changes hands between the contenders, in whatever order they are upserted
\* again.
AnswerStaysWithFirstClaimer ==
    [][\A b \in Backends :
          LET k == claimedBackends[b]
          IN  k # None /\ k \in backendOwners'[b]
                  => /\ claimedBackends'[b] = k
                     /\ backendIndex'[b] \in {None, routes'[k]}]_vars

\* Part of the inductive invariant: a route is stored under the key its own
\* kind and name make, the one LookupByBackendService rebuilds.
StoredUnderOwnKey ==
    \A k \in RouteKeys :
        routes[k] # None => k = <<routes[k].kind, routes[k].name>>

\* The inductive invariant behind the claims above.
IndexInv ==
    /\ TypeOK
    /\ StoredUnderOwnKey
    /\ OwnersAreLive
    /\ ClaimerIsOwner
    /\ SingleCandidateIsCurrent

\* A Service that one route alone references becomes resolvable through the
\* single-candidate index, at the latest when that route is resynced: the
\* entry an earlier conflict dropped does not stay lost.
SoleOwnerResolves ==
    \A b \in Backends, k \in RouteKeys :
        (backendOwners[b] = {k})
            ~> (backendOwners[b] # {k} \/ backendIndex[b] = routes[k])

\* index.go:22-25: "multiple routes referencing the same Service drop the
\* second one so we never stamp ambiguous attribution".
NeverAmbiguous ==
    \A b \in Backends :
        backendIndex[b] # None => Cardinality(backendOwners[b]) = 1

-----------------------------------------------------------------------------
(* What the index promises: see BackendAttribution. *)

Attribution == INSTANCE BackendAttribution WITH
    live <- routes,
    claims <- [k \in RouteKeys |-> ClaimsOf(k)],
    answer <- backendIndex

\* The four backend maps implement the abstract attribution of Services.
ImplementsAttribution == Attribution!Spec

=============================================================================
