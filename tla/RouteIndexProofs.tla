--------------------------- MODULE RouteIndexProofs ---------------------------
(***************************************************************************)
(* Theorems about RouteIndex, for every set of names, Services,            *)
(* projections and policies.                                               *)
(***************************************************************************)
EXTENDS RouteIndex, SequenceTheorems, TLAPS

\* The key of a route is one of RouteKeys and carries its kind and name.
LEMMA KeyFacts ==
    ASSUME NEW kind \in RouteKinds, NEW n \in Names
    PROVE  /\ routeKey(kind, n) \in RouteKeys
           /\ routeKey(kind, n) = <<kind, n>>
           /\ routeKey(kind, n) # None
    BY NoneAssumption DEF routeKey, RouteKeys

\* An upsert (upsertHTTPRoute, upsertGRPCRoute) preserves the invariant.
LEMMA UpsertKeepsIndex ==
    ASSUME IndexInv,
           NEW ra \in RouteAttributes, NEW refs \in SUBSET Backends,
           upsertRoute(ra.kind, ra, refs)
    PROVE  IndexInv'
<1> DEFINE key == routeKey(ra.kind, ra.name)
<1>1. /\ key \in RouteKeys /\ key = <<ra.kind, ra.name>> /\ key # None
      /\ ra # None
  BY KeyFacts, NoneAssumption DEF RouteAttributes
<1>2. /\ routes' = [routes EXCEPT ![key] = ra]
      /\ ReindexOwners(key, refs)
      /\ ReindexClaims(key, refs)
      /\ ReindexSingle(key, ra, refs)
      /\ policies' = policies
  BY DEF upsertRoute, reindexBackends
<1> HIDE DEF key
<1>3. TypeOK'
  <2>1. routes' \in [RouteKeys -> RouteAttributes \cup {None}]
    BY <1>1, <1>2 DEF IndexInv, TypeOK
  <2>2. backendOwners' \in [Backends -> SUBSET RouteKeys]
    BY <1>1, <1>2 DEF IndexInv, TypeOK, ReindexOwners
  <2>3. claimedBackends' \in [Backends -> RouteKeys \cup {None}]
    BY <1>1, <1>2 DEF IndexInv, TypeOK, ReindexClaims
  <2>4. backendIndex' \in [Backends -> RouteAttributes \cup {None}]
    BY <1>1, <1>2 DEF IndexInv, TypeOK, ReindexSingle
  <2>5. policies' \in [RouteKeys -> Seq(PolicyRefs)]
    BY <1>2 DEF IndexInv, TypeOK
  <2> QED  BY <2>1, <2>2, <2>3, <2>4, <2>5 DEF TypeOK
<1>4. StoredUnderOwnKey'
  BY <1>1, <1>2 DEF IndexInv, TypeOK, StoredUnderOwnKey
<1>5. OwnersAreLive'
  BY <1>1, <1>2 DEF IndexInv, TypeOK, OwnersAreLive, ReindexOwners
<1>6. ClaimerIsOwner'
  BY <1>1, <1>2 DEF IndexInv, TypeOK, ClaimerIsOwner, ReindexOwners,
     ReindexClaims, ClaimedByOther
<1>7. SingleCandidateIsCurrent'
  BY <1>1, <1>2 DEF IndexInv, TypeOK, SingleCandidateIsCurrent, ReindexSingle,
     ReindexClaims, ClaimedByOther
<1> QED  BY <1>3, <1>4, <1>5, <1>6, <1>7 DEF IndexInv

\* A delete (deleteHTTPRoute, deleteGRPCRoute) preserves the invariant.
LEMMA DeleteKeepsIndex ==
    ASSUME IndexInv, NEW key \in RouteKeys, deleteRoute(key)
    PROVE  IndexInv'
<1> USE DEF deleteRoute, dropBackendOwnershipLocked
<1>1. key # None
  BY NoneAssumption
<1>2. TypeOK'
  BY DEF IndexInv, TypeOK
<1>3. StoredUnderOwnKey'
  BY DEF IndexInv, TypeOK, StoredUnderOwnKey
<1>4. OwnersAreLive'
  BY DEF IndexInv, TypeOK, OwnersAreLive
<1>5. ClaimerIsOwner'
  BY <1>1 DEF IndexInv, TypeOK, ClaimerIsOwner
<1>6. SingleCandidateIsCurrent'
  BY <1>1 DEF IndexInv, TypeOK, SingleCandidateIsCurrent
<1> QED  BY <1>2, <1>3, <1>4, <1>5, <1>6 DEF IndexInv

\* What removePolicy leaves of a sequence after dropping its i-th element.
LEMMA DropAt ==
    ASSUME NEW S, NEW s \in Seq(S), NEW i \in 1 .. Len(s)
    PROVE  LET t == SubSeq(s, 1, i - 1) \o SubSeq(s, i + 1, Len(s))
           IN  /\ t \in Seq(S)
               /\ Len(t) = Len(s) - 1
               /\ \A j \in 1 .. Len(t) : t[j] = IF j < i THEN s[j] ELSE s[j + 1]
<1> DEFINE a == SubSeq(s, 1, i - 1)
           b == SubSeq(s, i + 1, Len(s))
<1>1. /\ a \in Seq(S) /\ Len(a) = i - 1
      /\ \A j \in 1 .. Len(a) : a[j] = s[j]
  OBVIOUS
<1>2. /\ b \in Seq(S) /\ Len(b) = Len(s) - i
      /\ \A j \in 1 .. Len(b) : b[j] = s[j + i]
  OBVIOUS
<1> HIDE DEF a, b
<1>3. /\ a \o b \in Seq(S) /\ Len(a \o b) = Len(s) - 1
      /\ \A j \in 1 .. Len(a \o b) :
            (a \o b)[j] = IF j <= i - 1 THEN a[j] ELSE b[j - (i - 1)]
  <2>1. /\ a \o b \in Seq(S)
        /\ Len(a \o b) = Len(a) + Len(b)
        /\ \A j \in 1 .. Len(a) + Len(b) :
              (a \o b)[j] = IF j <= Len(a) THEN a[j] ELSE b[j - Len(a)]
    BY <1>1, <1>2, ConcatProperties
  <2> QED  BY <1>1, <1>2, <2>1
<1>4. \A j \in 1 .. Len(a \o b) : (a \o b)[j] = IF j < i THEN s[j] ELSE s[j + 1]
  BY <1>1, <1>2, <1>3
<1> QED  BY <1>3, <1>4 DEF a, b

\* A policy call changes the policies of one key only, keeping them a
\* sequence of distinct policy refs.
LEMMA PolicyStep ==
    ASSUME TypeOK, PoliciesDistinct,
           NEW kind \in RouteKinds, NEW n \in Names, NEW p \in PolicyRefs,
           applyPolicy(kind, n, p) \/ removePolicy(kind, n, p)
    PROVE  /\ policies' \in [RouteKeys -> Seq(PolicyRefs)]
           /\ PoliciesDistinct'
           /\ UNCHANGED <<routes, backendIndex, claimedBackends, backendOwners>>
<1> DEFINE key == routeKey(kind, n)
           s == policies[key]
<1>1. key \in RouteKeys /\ s \in Seq(PolicyRefs)
  BY KeyFacts DEF TypeOK
<1>2. \A i, j \in 1 .. Len(s) : s[i] = s[j] => i = j
  BY <1>1 DEF PoliciesDistinct
<1>3. SUFFICES ASSUME NEW t \in Seq(PolicyRefs),
                      policies' = [policies EXCEPT ![key] = t],
                      \A i, j \in 1 .. Len(t) : t[i] = t[j] => i = j
               PROVE  /\ policies' \in [RouteKeys -> Seq(PolicyRefs)]
                      /\ PoliciesDistinct'
  <2>1. CASE applyPolicy(kind, n, p)
    <3>1. CASE \E i \in 1 .. Len(s) : s[i] = p
      BY <1>1, <1>2, <2>1, <3>1 DEF applyPolicy
    <3>2. CASE ~ \E i \in 1 .. Len(s) : s[i] = p
      <4> DEFINE t == Append(s, p)
      <4>1. t \in Seq(PolicyRefs) /\ policies' = [policies EXCEPT ![key] = t]
        BY <1>1, <2>1, <3>2 DEF applyPolicy
      <4>2. /\ Len(t) = Len(s) + 1
            /\ \A i \in 1 .. Len(s) : t[i] = s[i]
            /\ t[Len(s) + 1] = p
        BY <1>1
      <4> HIDE DEF t
      <4>3. \A i, j \in 1 .. Len(t) : t[i] = t[j] => i = j
        BY <1>1, <1>2, <3>2, <4>2
      <4> QED  BY <2>1, <4>1, <4>3 DEF applyPolicy
    <3> QED  BY <3>1, <3>2
  <2>2. CASE removePolicy(kind, n, p)
    <3> DEFINE At(i) == s[i] = p /\ \A j \in 1 .. (i - 1) : s[j] # p
    <3>1. CASE ~ \E i \in 1 .. Len(s) : At(i)
      BY <1>1, <1>2, <2>2, <3>1 DEF removePolicy
    <3>2. CASE \E i \in 1 .. Len(s) : At(i)
      <4> DEFINE i == CHOOSE i \in 1 .. Len(s) : At(i)
                 t == SubSeq(s, 1, i - 1) \o SubSeq(s, i + 1, Len(s))
      <4>1. i \in 1 .. Len(s)
        BY <3>2
      <4>2. policies' = [policies EXCEPT ![key] = t]
        BY <2>2, <3>2 DEF removePolicy
      <4> HIDE DEF i
      <4>3. /\ t \in Seq(PolicyRefs) /\ Len(t) = Len(s) - 1
            /\ \A j \in 1 .. Len(t) : t[j] = IF j < i THEN s[j] ELSE s[j + 1]
        BY <1>1, <4>1, DropAt
      <4> HIDE DEF t
      <4>4. \A j, m \in 1 .. Len(t) : t[j] = t[m] => j = m
        BY <1>1, <1>2, <4>1, <4>3
      <4> QED  BY <2>2, <4>2, <4>3, <4>4 DEF removePolicy
    <3> QED  BY <3>1, <3>2
  <2> QED  BY <2>1, <2>2
<1>4. policies' \in [RouteKeys -> Seq(PolicyRefs)]
  BY <1>1, <1>3 DEF TypeOK
<1>5. PoliciesDistinct'
  BY <1>1, <1>3, <1>4 DEF TypeOK, PoliciesDistinct
<1> QED  BY <1>4, <1>5

Holds(s, p) == \E i \in 1 .. Len(s) : s[i] = p

\* After applyPolicy the policy is on the route; nothing else has changed on any
\* route.
LEMMA ApplyAttaches ==
    ASSUME TypeOK,
           NEW kind \in RouteKinds, NEW n \in Names, NEW p \in PolicyRefs,
           applyPolicy(kind, n, p)
    PROVE  \A k \in RouteKeys, q \in PolicyRefs :
               Holds(policies'[k], q) <=>
                   Holds(policies[k], q) \/ (k = routeKey(kind, n) /\ q = p)
<1> DEFINE key == routeKey(kind, n)
           s == policies[key]
<1>1. key \in RouteKeys /\ s \in Seq(PolicyRefs)
  BY KeyFacts DEF TypeOK
<1>2. \A k \in RouteKeys \ {key} : policies'[k] = policies[k]
  BY <1>1 DEF applyPolicy, TypeOK
<1>3. policies'[key] = IF Holds(s, p) THEN s ELSE Append(s, p)
  BY <1>1 DEF applyPolicy, TypeOK, Holds
<1>4. CASE Holds(s, p)
  BY <1>2, <1>3, <1>4
<1>5. CASE ~Holds(s, p)
  <2> DEFINE t == Append(s, p)
  <2>1. /\ Len(s) \in Nat /\ Len(t) = Len(s) + 1
        /\ \A i \in 1 .. Len(s) : t[i] = s[i]
        /\ t[Len(s) + 1] = p
    BY <1>1
  <2>2. policies'[key] = t
    BY <1>3, <1>5
  <2> HIDE DEF t
  <2>3. ASSUME NEW q \in PolicyRefs PROVE Holds(t, q) <=> Holds(s, q) \/ q = p
    <3>1. ASSUME Holds(t, q) PROVE Holds(s, q) \/ q = p
      BY <2>1, <3>1 DEF Holds
    <3>2. ASSUME Holds(s, q) PROVE Holds(t, q)
      BY <2>1, <3>2 DEF Holds
    <3>3. Holds(t, p)
      BY <2>1 DEF Holds
    <3> QED  BY <3>1, <3>2, <3>3
  <2> HIDE DEF key
  <2> QED  BY <1>2, <2>2, <2>3 DEF key
<1> QED  BY <1>4, <1>5

\* After removePolicy the policy is not on the route, because it was there once
\* at most; nothing else has changed on any route.
LEMMA RemoveDetaches ==
    ASSUME TypeOK, PoliciesDistinct,
           NEW kind \in RouteKinds, NEW n \in Names, NEW p \in PolicyRefs,
           removePolicy(kind, n, p)
    PROVE  \A k \in RouteKeys, q \in PolicyRefs :
               Holds(policies'[k], q) <=>
                   Holds(policies[k], q) /\ ~(k = routeKey(kind, n) /\ q = p)
<1> DEFINE key == routeKey(kind, n)
           s == policies[key]
           At(i) == s[i] = p /\ \A j \in 1 .. (i - 1) : s[j] # p
<1>1. key \in RouteKeys /\ s \in Seq(PolicyRefs) /\ Len(s) \in Nat
  BY KeyFacts DEF TypeOK
<1>2. \A k \in RouteKeys \ {key} : policies'[k] = policies[k]
  BY <1>1 DEF removePolicy, TypeOK
<1>3. \A i, j \in 1 .. Len(s) : s[i] = s[j] => i = j
  BY <1>1 DEF PoliciesDistinct
<1>4. ASSUME NEW i \in 1 .. Len(s), s[i] = p PROVE At(i)
  BY <1>1, <1>3, <1>4
<1>5. CASE ~ \E i \in 1 .. Len(s) : At(i)
  <2>1. policies'[key] = s
    BY <1>1, <1>5 DEF removePolicy, TypeOK
  <2>2. ~Holds(s, p)
    BY <1>4, <1>5 DEF Holds
  <2> QED  BY <1>2, <2>1, <2>2
<1>6. CASE \E i \in 1 .. Len(s) : At(i)
  <2> DEFINE i == CHOOSE i \in 1 .. Len(s) : At(i)
             t == SubSeq(s, 1, i - 1) \o SubSeq(s, i + 1, Len(s))
  <2>1. i \in 1 .. Len(s) /\ s[i] = p
    BY <1>6
  <2>2. policies'[key] = t
    BY <1>1, <1>6 DEF removePolicy, TypeOK
  <2> HIDE DEF i
  <2>3. /\ Len(t) = Len(s) - 1
        /\ \A j \in 1 .. Len(t) : t[j] = IF j < i THEN s[j] ELSE s[j + 1]
    BY <1>1, <2>1, DropAt
  <2> HIDE DEF t
  <2>4. ASSUME NEW q \in PolicyRefs PROVE Holds(t, q) <=> Holds(s, q) /\ q # p
    <3>1. ASSUME NEW j \in 1 .. Len(t), t[j] = q PROVE Holds(s, q) /\ q # p
      <4>1. CASE j < i
        BY <1>1, <1>3, <2>1, <2>3, <3>1, <4>1 DEF Holds
      <4>2. CASE ~(j < i)
        BY <1>1, <1>3, <2>1, <2>3, <3>1, <4>2 DEF Holds
      <4> QED  BY <4>1, <4>2
    <3>2. ASSUME NEW j \in 1 .. Len(s), s[j] = q, q # p PROVE Holds(t, q)
      <4>1. CASE j < i
        BY <1>1, <2>1, <2>3, <3>2, <4>1 DEF Holds
      <4>2. CASE j > i
        <5>1. (j - 1) \in 1 .. Len(t) /\ t[j - 1] = q
          BY <1>1, <2>1, <2>3, <3>2, <4>2
        <5> QED  BY <5>1 DEF Holds
      <4>3. j # i
        BY <2>1, <3>2
      <4> QED  BY <1>1, <2>1, <3>2, <4>1, <4>2, <4>3
    <3> QED  BY <3>1, <3>2 DEF Holds
  <2> HIDE DEF key
  <2> QED  BY <1>2, <2>2, <2>4 DEF key
<1> QED  BY <1>5, <1>6

-----------------------------------------------------------------------------
\* One step of the index is one upsert, one delete or one policy call.
LEMMA NextCases ==
    ASSUME Next
    PROVE  \/ \E ra \in RouteAttributes, refs \in SUBSET Backends :
                 upsertRoute(ra.kind, ra, refs)
           \/ \E key \in RouteKeys : deleteRoute(key)
           \/ \E kind \in RouteKinds, n \in Names, p \in PolicyRefs :
                 applyPolicy(kind, n, p) \/ removePolicy(kind, n, p)
<1>1. CASE UpsertHTTP
  <2>1. \A m \in Names, p \in Projections :
            httpRouteToAttrs(m, p) \in RouteAttributes
                /\ httpRouteToAttrs(m, p).kind = "HTTPRoute"
    BY DEF httpRouteToAttrs, RouteAttributes, RouteKinds
  <2> QED  BY <1>1, <2>1 DEF UpsertHTTP, upsertHTTPRoute
<1>2. CASE UpsertGRPC
  <2>1. \A m \in Names, p \in Projections :
            grpcRouteToAttrs(m, p) \in RouteAttributes
                /\ grpcRouteToAttrs(m, p).kind = "GRPCRoute"
    BY DEF grpcRouteToAttrs, RouteAttributes, RouteKinds
  <2> QED  BY <1>2, <2>1 DEF UpsertGRPC, upsertGRPCRoute
<1>3. CASE DeleteHTTP
  BY <1>3, KeyFacts DEF DeleteHTTP, deleteHTTPRoute, RouteKinds
<1>4. CASE DeleteGRPC
  BY <1>4, KeyFacts DEF DeleteGRPC, deleteGRPCRoute, RouteKinds
<1>5. CASE ApplyPolicy
  BY <1>5 DEF ApplyPolicy
<1>6. CASE RemovePolicy
  BY <1>6 DEF RemovePolicy
<1> QED  BY <1>1, <1>2, <1>3, <1>4, <1>5, <1>6 DEF Next, RouteNext, PolicyNext

\* The empty index of newRouteIndex satisfies both invariants.
LEMMA InitEstablishes ==
    ASSUME Init
    PROVE  IndexInv /\ PoliciesDistinct
<1>1. TypeOK
  <2>1. \A k \in RouteKeys : << >> \in Seq(PolicyRefs)
    OBVIOUS
  <2> QED  BY <2>1 DEF Init, TypeOK
<1>2. /\ StoredUnderOwnKey /\ OwnersAreLive
      /\ ClaimerIsOwner /\ SingleCandidateIsCurrent
  BY DEF Init, StoredUnderOwnKey, OwnersAreLive, ClaimerIsOwner,
     SingleCandidateIsCurrent
<1>3. PoliciesDistinct
  BY DEF Init, PoliciesDistinct
<1> QED  BY <1>1, <1>2, <1>3 DEF IndexInv

\* Every step of the index preserves both invariants.
LEMMA StepPreserves ==
    ASSUME IndexInv, PoliciesDistinct, [Next]_vars
    PROVE  IndexInv' /\ PoliciesDistinct'
<1>1. CASE UNCHANGED vars
  <2>1. IndexInv'
    BY <1>1 DEF vars, IndexInv, TypeOK, StoredUnderOwnKey, OwnersAreLive,
       ClaimerIsOwner, SingleCandidateIsCurrent
  <2>2. PoliciesDistinct'
    BY <1>1 DEF vars, PoliciesDistinct
  <2> QED  BY <2>1, <2>2
<1>2. ASSUME NEW ra \in RouteAttributes, NEW refs \in SUBSET Backends,
             upsertRoute(ra.kind, ra, refs)
      PROVE  IndexInv' /\ PoliciesDistinct'
  <2>1. IndexInv'
    BY <1>2, UpsertKeepsIndex
  <2>2. PoliciesDistinct'
    BY <1>2 DEF upsertRoute, PoliciesDistinct
  <2> QED  BY <2>1, <2>2
<1>3. ASSUME NEW key \in RouteKeys, deleteRoute(key)
      PROVE  IndexInv' /\ PoliciesDistinct'
  <2>1. IndexInv'
    BY <1>3, DeleteKeepsIndex
  <2>2. PoliciesDistinct'
    BY <1>3 DEF deleteRoute, PoliciesDistinct
  <2> QED  BY <2>1, <2>2
<1>4. ASSUME NEW kind \in RouteKinds, NEW n \in Names, NEW p \in PolicyRefs,
             applyPolicy(kind, n, p) \/ removePolicy(kind, n, p)
      PROVE  IndexInv' /\ PoliciesDistinct'
  <2>1. TypeOK
    BY DEF IndexInv
  <2>2. /\ policies' \in [RouteKeys -> Seq(PolicyRefs)]
        /\ PoliciesDistinct'
        /\ UNCHANGED <<routes, backendIndex, claimedBackends, backendOwners>>
    BY <1>4, <2>1, PolicyStep
  <2>3. IndexInv'
    BY <2>2 DEF IndexInv, TypeOK, StoredUnderOwnKey, OwnersAreLive,
       ClaimerIsOwner, SingleCandidateIsCurrent
  <2> QED  BY <2>2, <2>3
<1> QED  BY <1>1, <1>2, <1>3, <1>4, NextCases

\* The two invariants hold in every reachable state.
LEMMA Invariance == Spec => [](IndexInv /\ PoliciesDistinct)
<1>1. Init => IndexInv /\ PoliciesDistinct
  BY InitEstablishes
<1>2. (IndexInv /\ PoliciesDistinct) /\ [Next]_vars
          => (IndexInv /\ PoliciesDistinct)'
  BY StepPreserves
<1> QED  BY <1>1, <1>2, PTL DEF Spec

\* Every map of the index keeps its type (index.go:16-47).
THEOREM TypeCorrect == Spec => []TypeOK
<1>1. IndexInv => TypeOK
  BY DEF IndexInv
<1> QED  BY <1>1, Invariance, PTL

\* reindexBackends and dropBackendOwnershipLocked keep the owner sets in
\* lockstep with routes: LookupByBackendServiceWithParents never returns the
\* zero attributes of a route that is gone.
THEOREM OwnersLive == Spec => []OwnersAreLive
<1>1. IndexInv => OwnersAreLive
  BY DEF IndexInv
<1> QED  BY <1>1, Invariance, PTL

\* The route that pins a Service references it.
THEOREM ClaimerOwns == Spec => []ClaimerIsOwner
<1>1. IndexInv => ClaimerIsOwner
  BY DEF IndexInv
<1> QED  BY <1>1, Invariance, PTL

\* LookupByBackendService never returns attributes that routes no longer
\* holds.
THEOREM SingleCandidateCurrent == Spec => []SingleCandidateIsCurrent
<1>1. IndexInv => SingleCandidateIsCurrent
  BY DEF IndexInv
<1> QED  BY <1>1, Invariance, PTL

\* applyPolicy and removePolicy keep the policies of a route distinct.
THEOREM PoliciesStayDistinct == Spec => []PoliciesDistinct
<1>1. IndexInv /\ PoliciesDistinct => PoliciesDistinct
  OBVIOUS
<1> QED  BY <1>1, Invariance, PTL

\* The single-candidate answer is one of the multi-owner candidates and
\* equals the direct lookup of that route, policies included.
THEOREM LookupsAlwaysAgree == Spec => []LookupsAgree
<1>1. IndexInv => LookupsAgree
  <2> SUFFICES ASSUME IndexInv, NEW b \in Backends,
                      LookupByBackendService(b) # None
               PROVE  LET hit == LookupByBackendService(b)
                      IN  /\ hit \in LookupByBackendServiceWithParents(b)
                          /\ hit = LookupRoute(hit.attrs.kind, hit.attrs.name)
    BY DEF LookupsAgree
  <2> DEFINE ra == backendIndex[b]
             k  == claimedBackends[b]
  <2>1. ra # None
    BY DEF LookupByBackendService
  <2>2. /\ k \in RouteKeys /\ k \in backendOwners[b]
        /\ ra = routes[k] /\ ra \in RouteAttributes
    BY <2>1 DEF IndexInv, TypeOK, SingleCandidateIsCurrent, ClaimerIsOwner
  <2>3. k = routeKey(ra.kind, ra.name)
    BY <2>1, <2>2 DEF IndexInv, StoredUnderOwnKey, routeKey
  <2>4. LookupByBackendService(b) = overlayPoliciesLocked(k, routes[k])
    BY <2>1, <2>2, <2>3 DEF LookupByBackendService
  <2>5. LookupByBackendService(b) \in LookupByBackendServiceWithParents(b)
    BY <2>2, <2>4 DEF LookupByBackendServiceWithParents
  <2>6. LookupByBackendService(b).attrs = ra
    BY <2>2, <2>4 DEF overlayPoliciesLocked
  <2>7. LookupRoute(ra.kind, ra.name) = overlayPoliciesLocked(k, routes[k])
    BY <2>1, <2>2, <2>3 DEF LookupRoute
  <2> QED  BY <2>4, <2>5, <2>6, <2>7
<1> QED  BY <1>1, Invariance, PTL

\* An upsert or a delete by another route leaves the first claimer's claim, and
\* one by the claimer itself keeps it as long as it references the Service; what
\* is answered after any of them is the claimer's by SingleCandidateIsCurrent.
LEMMA ClaimStays ==
    ASSUME IndexInv, IndexInv', [Next]_vars,
           NEW b \in Backends, claimedBackends[b] # None,
           claimedBackends[b] \in backendOwners'[b]
    PROVE  /\ claimedBackends'[b] = claimedBackends[b]
           /\ backendIndex'[b] \in {None, routes'[claimedBackends[b]]}
<1> DEFINE k == claimedBackends[b]
<1>1. claimedBackends'[b] = k
  <2>1. ASSUME NEW ra \in RouteAttributes, NEW refs \in SUBSET Backends,
               upsertRoute(ra.kind, ra, refs)
        PROVE  claimedBackends'[b] = k
    <3> DEFINE key == routeKey(ra.kind, ra.name)
    <3>1. ReindexOwners(key, refs) /\ ReindexClaims(key, refs)
      BY <2>1 DEF upsertRoute, reindexBackends
    <3> HIDE DEF key
    <3>2. CASE k # key
      BY <3>1, <3>2 DEF ReindexClaims, ClaimedByOther
    <3>3. CASE k = key
      BY <3>1, <3>3 DEF ReindexClaims, ReindexOwners, ClaimedByOther
    <3> QED  BY <3>2, <3>3
  <2>2. ASSUME NEW key \in RouteKeys, deleteRoute(key)
        PROVE  claimedBackends'[b] = k
    BY <2>2 DEF deleteRoute, dropBackendOwnershipLocked
  <2>3. ASSUME NEW kind \in RouteKinds, NEW n \in Names, NEW p \in PolicyRefs,
               applyPolicy(kind, n, p) \/ removePolicy(kind, n, p)
        PROVE  claimedBackends'[b] = k
    BY <2>3 DEF applyPolicy, removePolicy
  <2>4. CASE UNCHANGED vars
    BY <2>4 DEF vars
  <2> QED  BY <2>1, <2>2, <2>3, <2>4, NextCases
<1>2. backendIndex'[b] # None => backendIndex'[b] = routes'[k]
  BY <1>1 DEF IndexInv, SingleCandidateIsCurrent
<1> QED  BY <1>1, <1>2

\* reindexBackends never hands the answer for a Service to a second claimer
\* while the first one references the Service.
THEOREM FirstClaimerKeepsAnswer == Spec => AnswerStaysWithFirstClaimer
<1>1. ASSUME IndexInv, IndexInv', [Next]_vars
      PROVE  [\A b \in Backends :
                 LET k == claimedBackends[b]
                 IN  k # None /\ k \in backendOwners'[b]
                         => /\ claimedBackends'[b] = k
                            /\ backendIndex'[b] \in {None, routes'[k]}]_vars
  BY <1>1, ClaimStays
<1> QED  BY <1>1, Invariance, PTL DEF Spec, AnswerStaysWithFirstClaimer

-----------------------------------------------------------------------------
(* Refinement of BackendAttribution *)

Claims == [k \in RouteKeys |-> ClaimsOf(k)]

\* An upsert of the index is an abstract upsert: a sole claimant is answered,
\* a contested Service is answered by the upserted route or by nobody.
LEMMA UpsertImplements ==
    ASSUME IndexInv, IndexInv',
           NEW ra \in RouteAttributes, NEW refs \in SUBSET Backends,
           upsertRoute(ra.kind, ra, refs)
    PROVE  Attribution!Next
<1> DEFINE k == routeKey(ra.kind, ra.name)
<1>1. /\ k \in RouteKeys /\ k = <<ra.kind, ra.name>> /\ k # None
      /\ ra # None
      /\ Attribution!KeyOf(ra) = k
  BY KeyFacts, NoneAssumption DEF RouteAttributes, Attribution!KeyOf
<1>2. /\ routes' = [routes EXCEPT ![k] = ra]
      /\ ReindexOwners(k, refs)
      /\ ReindexClaims(k, refs)
      /\ ReindexSingle(k, ra, refs)
  BY DEF upsertRoute, reindexBackends
<1>3. ra \in Attribution!Attributes
  BY <1>1 DEF RouteAttributes, RouteKinds, Attribution!Attributes, Attribution!Kinds
<1> HIDE DEF k
<1>4. Claims' = [Claims EXCEPT ![k] = refs]
  BY <1>1, <1>2 DEF Claims, ClaimsOf, ReindexOwners, IndexInv, TypeOK
<1>5. backendIndex' \in [Backends -> Attribution!Attributes \cup {None}]
  BY DEF IndexInv, TypeOK, RouteAttributes, RouteKinds, Attribution!Attributes,
     Attribution!Kinds
<1>6. ASSUME NEW b \in refs
      PROVE  Attribution!Claim(k, ra, b)
  <2>1. CASE ~ClaimedByOther(k, b)
    BY <1>2, <1>6, <2>1 DEF ReindexSingle, Attribution!Claim
  <2>2. CASE ClaimedByOther(k, b)
    <3>1. backendIndex'[b] = None
      BY <1>2, <1>6, <2>2 DEF ReindexSingle
    <3>2. PICK other \in RouteKeys \ {k} : other = claimedBackends[b]
      BY <1>6, <2>2 DEF IndexInv, TypeOK, ClaimedByOther
    <3>3. b \in Claims[other]
      BY <1>6, <3>2, NoneAssumption DEF IndexInv, ClaimerIsOwner, Claims, ClaimsOf
    <3>4. Attribution!ClaimedElsewhere(k, b)
      BY <3>2, <3>3 DEF Attribution!ClaimedElsewhere, Attribution!Keys,
         Attribution!Kinds, RouteKeys, RouteKinds, Claims
    <3> QED  BY <3>1, <3>4 DEF Attribution!Claim
  <2> QED  BY <2>1, <2>2
<1>7. ASSUME NEW b \in Claims[k] \ refs
      PROVE  Attribution!LetGo(k, b)
  <2>1. b \in Backends
    BY <1>1 DEF Claims, ClaimsOf
  <2>2. CASE claimedBackends[b] = k
    BY <1>2, <1>7, <2>1, <2>2 DEF ReindexSingle, Attribution!LetGo
  <2>3. CASE claimedBackends[b] # k
    <3>1. backendIndex'[b] = backendIndex[b]
      BY <1>2, <1>7, <2>1, <2>3 DEF ReindexSingle
    <3>2. CASE backendIndex[b] = None
      BY <3>1, <3>2 DEF Attribution!LetGo
    <3>3. CASE backendIndex[b] # None
      <4>1. /\ claimedBackends[b] \in RouteKeys
            /\ backendIndex[b] = routes[claimedBackends[b]]
        BY <2>1, <3>3 DEF IndexInv, TypeOK, SingleCandidateIsCurrent
      <4>2. Attribution!KeyOf(backendIndex[b]) = claimedBackends[b]
        BY <3>3, <4>1 DEF IndexInv, StoredUnderOwnKey, Attribution!KeyOf
      <4> QED  BY <2>3, <3>1, <4>2 DEF Attribution!LetGo
    <3> QED  BY <3>2, <3>3
  <2> QED  BY <2>2, <2>3
<1>8. ASSUME NEW b \in Backends \ (refs \cup Claims[k])
      PROVE  backendIndex'[b] = backendIndex[b]
  <2>1. k \notin backendOwners[b]
    BY <1>1, <1>8 DEF Claims, ClaimsOf
  <2>2. claimedBackends[b] # k
    BY <1>1, <1>8, <2>1 DEF IndexInv, ClaimerIsOwner
  <2> QED  BY <1>2, <1>8, <2>2 DEF ReindexSingle
<1>9. Attribution!Upsert(ra, refs)
  BY <1>1, <1>2, <1>4, <1>5, <1>6, <1>7, <1>8 DEF Attribution!Upsert, Claims
<1> QED  BY <1>3, <1>9 DEF Attribution!Next

\* A delete of the index is an abstract delete.
LEMMA DeleteImplements ==
    ASSUME IndexInv, IndexInv', NEW k \in RouteKeys, deleteRoute(k)
    PROVE  Attribution!Next
<1>1. /\ routes' = [routes EXCEPT ![k] = None]
      /\ dropBackendOwnershipLocked(k)
  BY DEF deleteRoute
<1>2. k # None /\ k \in Attribution!Keys
  BY NoneAssumption DEF RouteKeys, RouteKinds, Attribution!Keys, Attribution!Kinds
<1>3. Claims' = [Claims EXCEPT ![k] = {}]
  BY <1>1 DEF Claims, ClaimsOf, dropBackendOwnershipLocked, IndexInv, TypeOK
<1>4. backendIndex' \in [Backends -> Attribution!Attributes \cup {None}]
  BY DEF IndexInv, TypeOK, RouteAttributes, RouteKinds, Attribution!Attributes,
     Attribution!Kinds
<1>5. ASSUME NEW b \in Claims[k]
      PROVE  Attribution!LetGo(k, b)
  <2>1. b \in Backends
    BY DEF Claims, ClaimsOf
  <2>2. CASE claimedBackends[b] = k
    BY <1>1, <2>1, <2>2 DEF dropBackendOwnershipLocked, Attribution!LetGo
  <2>3. CASE claimedBackends[b] # k
    <3>1. backendIndex'[b] = backendIndex[b]
      BY <1>1, <2>1, <2>3 DEF dropBackendOwnershipLocked
    <3>2. CASE backendIndex[b] = None
      BY <3>1, <3>2 DEF Attribution!LetGo
    <3>3. CASE backendIndex[b] # None
      <4>1. /\ claimedBackends[b] \in RouteKeys
            /\ backendIndex[b] = routes[claimedBackends[b]]
        BY <2>1, <3>3 DEF IndexInv, TypeOK, SingleCandidateIsCurrent
      <4>2. Attribution!KeyOf(backendIndex[b]) = claimedBackends[b]
        BY <3>3, <4>1 DEF IndexInv, StoredUnderOwnKey, Attribution!KeyOf
      <4> QED  BY <2>3, <3>1, <4>2 DEF Attribution!LetGo
    <3> QED  BY <3>2, <3>3
  <2> QED  BY <2>2, <2>3
<1>6. ASSUME NEW b \in Backends \ Claims[k]
      PROVE  backendIndex'[b] = backendIndex[b]
  <2>1. k \notin backendOwners[b]
    BY <1>6 DEF Claims, ClaimsOf
  <2>2. claimedBackends[b] # k
    BY <1>2, <1>6, <2>1 DEF IndexInv, ClaimerIsOwner
  <2> QED  BY <1>1, <1>6, <2>2 DEF dropBackendOwnershipLocked
<1>7. Attribution!Delete(k)
  BY <1>1, <1>3, <1>4, <1>5, <1>6 DEF Attribution!Delete, Claims
<1> QED  BY <1>2, <1>7 DEF Attribution!Next

\* The index implements BackendAttribution: its initial state maps to the
\* abstract one and each of its steps to an abstract step or a stutter.
THEOREM Refinement == Spec => ImplementsAttribution
<1>1. Init => Attribution!Init
  BY DEF Init, Attribution!Init, ClaimsOf, RouteKeys, RouteKinds,
     Attribution!Keys, Attribution!Kinds
<1>2. ASSUME IndexInv, IndexInv', [Next]_vars
      PROVE  [Attribution!Next]_(Attribution!avars)
  <2>1. CASE UNCHANGED <<routes, backendIndex, backendOwners>>
    BY <2>1 DEF Attribution!avars, ClaimsOf
  <2>2. ASSUME NEW ra \in RouteAttributes, NEW refs \in SUBSET Backends,
               upsertRoute(ra.kind, ra, refs)
        PROVE  Attribution!Next
    BY <1>2, <2>2, UpsertImplements
  <2>3. ASSUME NEW key \in RouteKeys, deleteRoute(key)
        PROVE  Attribution!Next
    BY <1>2, <2>3, DeleteImplements
  <2>4. ASSUME NEW kind \in RouteKinds, NEW n \in Names, NEW p \in PolicyRefs,
               applyPolicy(kind, n, p) \/ removePolicy(kind, n, p)
        PROVE  UNCHANGED <<routes, backendIndex, backendOwners>>
    BY <2>4 DEF applyPolicy, removePolicy
  <2>5. CASE UNCHANGED vars
    BY <2>1, <2>5 DEF vars
  <2> QED  BY <1>2, <2>1, <2>2, <2>3, <2>4, <2>5, NextCases
<1> QED  BY <1>1, <1>2, Invariance, PTL DEF Spec, ImplementsAttribution,
            Attribution!Spec

\* What the enrichment path reads off the abstract specification holds of the
\* index: LookupByBackendService answers with the current attributes of a live
\* route that references the Service.
THEOREM AnswersAreLiveClaimants == Spec => []Attribution!AnswerIsLiveClaimant
<1>1. IndexInv => Attribution!AnswerIsLiveClaimant
  <2> SUFFICES ASSUME IndexInv, NEW b \in Backends, backendIndex[b] # None
               PROVE  LET k == <<backendIndex[b].kind, backendIndex[b].name>>
                      IN  routes[k] = backendIndex[b] /\ b \in Claims[k]
    BY DEF Attribution!AnswerIsLiveClaimant, Attribution!KeyOf, Claims
  <2> DEFINE c == claimedBackends[b]
  <2>1. /\ c \in RouteKeys /\ c \in backendOwners[b]
        /\ backendIndex[b] = routes[c] /\ routes[c] # None
    BY DEF IndexInv, TypeOK, SingleCandidateIsCurrent, ClaimerIsOwner
  <2>2. c = <<backendIndex[b].kind, backendIndex[b].name>>
    BY <2>1 DEF IndexInv, StoredUnderOwnKey
  <2> QED  BY <2>1, <2>2 DEF Claims, ClaimsOf
<1> QED  BY <1>1, Invariance, PTL

=============================================================================
