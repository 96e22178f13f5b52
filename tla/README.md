# A TLA+ verification of gatewayapiprocessor

`gatewayapiprocessor` is an OpenTelemetry Collector processor. It watches the
Gateway API objects of a Kubernetes cluster (HTTPRoute, GRPCRoute, Gateway,
GatewayClass, policies) together with Services and EndpointSlices, keeps
in-memory indexes of them, and stamps every span, log record and metric data
point with the route it belongs to. What can go wrong lies between the watches
and the records: many informer goroutines write indexes that refer to each
other, under several locks, from events that are late, merged or replayed, while
pipeline goroutines read those indexes several times for one record.

Paths below are relative to `src/gatewayapiprocessor/` unless they start with
`docs/`.

## 1. Inventory

| Component | State | Operations | Correct when |
| --- | --- | --- | --- |
| Route index (`index.go`) | `routes`, `backendIndex`, `claimedBackends`, `backendOwners`, `policies`, one RWMutex | upsert and delete of HTTPRoutes and GRPCRoutes, `applyPolicy`, `removePolicy`, three lookups | the five maps agree; a Service is answered by a live, current route that references it; a Service with one owner becomes answerable |
| Route projection (`informer.go`, `parent_inference.go`) | `gatewayStore`, `gatewayClassStore`, handlers in progress | handlers of four kinds of objects, `applyParentRef`, `maybeInferServiceParent` | the index converges to what the cluster holds; no Gateway parent is taken for a Service |
| Policy informers (`policy_informer.go`) | none beyond the index's `policies` | `policyAdd`, `policyUpdate`, `policyDelete` | attached exactly where the current accepted revision says; no flicker |
| Service informer (`service_informer.go`) | ClusterIP index, waypoint index, name index, one lock each | upsert and delete in each, three lookups | an IP belongs to a Service that announced it; conflicts heal; names and waypoints are exact |
| EndpointSlice informer (`endpointslice_informer.go`) | Pod IP index with owning slice | upsert, delete, lookup | an IP resolves only through a slice that carries it, and does if one does |
| Enrichment (`processor.go`, `attrs.go`, `routes.go`) | the record in progress; reads everything above | parser chain, lookups, fallback walk, disambiguation, stamping, metrics strip | one route per record; nothing stamped without a resolution; metrics stripped; the route owns the address |
| Parsers (`parser/`) | none | `Parse` of envoy, linkerd, passthrough | first match wins, with the route and kind the record names |
| Lifecycle (`factory.go`, `Start`, `Shutdown`, `newInformers`) | per signal: hook, lookup, stop function, informers and what each was started with, the sync deadline | create, start, wait for sync, time out, shut down | `Start` returns; it succeeds only when every informer it needs has listed; what it started ends with the context |
| Configuration (`config.go`) | none | `Validate`, defaults | what is accepted can be built |
| client-go informers (library) | store and event queue per watch | list, watch, relist, resync | delivers changes in order, at least the last one |

Interaction: the informers call their handlers, one goroutine per handler. Route
handlers read the Gateway, GatewayClass and Service name stores that other
handlers write, then upsert the route index. Policy handlers write the `policies`
map of the same index. `combinedLookup` hands the indexes to the pipeline, which
reads them without holding any lock from one lookup to the next.

Hard behaviours: a projection is a chain of unprotected reads of state that other
goroutines change; informer events may skip revisions, arrive as tombstones, or
repeat by resync; `HasSynced` is about the informer, not about its handlers;
deleted objects must leave every index they were copied into; contested Services
and IPs are resolved by the order of events; `Start` is a long sequence of calls, any
of which may fail with informers already running, and its timeout races their lists.

`PROJECT.json` lists each component, and each hazard at its line with the
properties that look for it.

## 2. Modules

| Module | Role |
| --- | --- |
| `RouteIndex` | the index; one action per method, since each method is one critical section |
| `BackendAttribution` | abstract specification: what the index promises about Services |
| `SharedInformer` | external: client-go's informer as the handlers see it |
| `PolicyInformer` | composes `SharedInformer` with the routes and policies of `RouteIndex` |
| `ServiceIndexes` | composes `SharedInformer` with the three Service indexes |
| `PodIPIndex` | composes `SharedInformer` with the Pod IP index |
| `RouteProjection` | composes `SharedInformer`, the Gateway stores and the whole of `RouteIndex` |
| `Enrichment` | composes the pipeline with `RouteIndex` and the lookup side of the other indexes |
| `Lifecycle` | configuration, construction, `Start`, `Shutdown` of one processor per signal |
| `MC*` | values of the constants for TLC |
| `*Proofs` | theorems about the module they are named after (section 4) |

How state and actions correspond to the code:

* **`RouteIndex`.** A Go map is a total function with `None` (or the empty set or
  sequence) for an absent key. The kind of a route comes from two places, as in the
  code: the key has that of the method (`upsertHTTPRoute` and `upsertGRPCRoute`, whose
  common body is `upsertRoute`), the attributes that of the projection
  (`httpRouteToAttrs`, `grpcRouteToAttrs`). `reindexBackends` is split
  into one conjunct for each map it writes. What a route carries besides kind and
  name is an opaque *projection*, because the index never looks into it. Lookups
  are operators on the state.
* **`SharedInformer`.** `api` is the truth, `store` the informer's cache and
  `pending` the events not yet handled. `Observe` jumps to the current revision,
  so intermediate revisions may be missed, and a deletion may be delivered as an
  event or as a tombstone. `Resync` replays the cached revision. There is one
  queue per object: two objects of one informer are really ordered, objects of
  two namespaces or resources are not, and the properties hold for the looser order.
* **`PolicyInformer`.** A handler computes its calls (`registerPolicyHandlers`)
  and makes them one by one (`Call`), removals first, in any order of a Go map.
  `RoutesChange` lets a targeted route appear, change and vanish at any time.
* **`ServiceIndexes`.** A handler is up to three steps, one per lock, in the order
  of the code. `serviceIPIndex.m` and `.owner` are always written together and
  hold the same pair, so they are one variable. `canonicalIP` is what parsing and
  printing an IP does: two spellings can be one IP, and some strings are none.
  ClusterIPs are unique at the API server at any time, as Kubernetes guarantees,
  but may move.
* **`PodIPIndex`.** As the code: slices own IPs, the last claim wins, a slice
  without a Service owner wants nothing and still withdraws.
* **`RouteProjection`.** An object is a kind, a namespace and a name. A route
  handler takes a notification (`registerRouteHandlers`) and, for a parent that is
  not an explicit Service, reads `gwStore` (`ReadGateway`), then either the
  class (`ReadClass`) or `HasSynced` and the Service names (`ReadSynced`,
  `ReadService`), and at last upserts (`UpsertRoute`). Any other goroutine may run between two of these.
  `FinishGatewayList` is the moment the Gateway informers' `HasSynced` turns true:
  when the store has the list, whether or not the handlers have seen it and whatever
  has been written since.
* **`Lifecycle`.** `proc` has a record for each signal with the fields of
  `gatewayAPIProcessor` and, while `Start` runs, the locals of `newInformers`. An informer is
  a kind and the position of its namespace in `watch.namespaces`. A step of
  `newInformers` reaches to the next call that can fail or that reads what another
  goroutine writes: `CreateGatewayInformers` (pass 1), `startServiceInformer`,
  `startEndpointSliceInformer`, `RegisterRouteHandlers` (pass 2), `startPolicyInformers`,
  `StartFactories` (pass 3), then `Poll`, `Advance` and `TimeOut` for each
  `WaitForCacheSync`, and `Return`. A poll that finds an informer not synced and the
  look at the context are two steps, so a list may arrive between them. `Sync`,
  `Elapse`, `CancelContext` and `StopInformers` are what other goroutines and
  time do. A configuration keeps what decisions read: regular expressions are empty,
  invalid, without the groups, or good.
* **`Enrichment`.** `Receive` runs the parser chain and everything up to the first
  lookup, unless the signal is switched off; then every lookup is an action, and stamping belongs to the lookup it
  follows. `RoutesChange`, `PoliciesChange`, `ServicesChange` and `LabelsChange`
  let all the indexes change at any moment. An attribute key is a pair of the CR
  kind (or "common") and a field. Host names are their labels, IP literals are
  marked, and a URL keeps or loses its host according to the attribute it is in.
  An attribute set to the empty string hides the resource's and is read as none.

## 3. Runs

Passing runs, with what they show:

| Run | Instance | Shows |
| --- | --- | --- |
| `route_index` | two names of two kinds (four routes) on one Service, two projections, a policy, resync | type, `OwnersAreLive`, `ClaimerIsOwner`, `SingleCandidateIsCurrent`, `LookupsAgree`, `PoliciesDistinct`, `AnswerStaysWithFirstClaimer` (the answer for a contested Service never changes hands), refinement of `BackendAttribution`; a sole owner resolves in the end |
| `policy_informer` | two informers on one policy; accepted without status, accepted by an ancestor, rejected; a targeted route that comes and goes | type, no flicker through updates, attachments exact once both informers are done |
| `service_indexes` | two Services that pass one IP to each other; one turns headless and changes its waypoint label | type, IPs are announced by who holds them, the three indexes are exact once handled, the conflict heals |
| `pod_ip_index` | two slices, one contested IP; Service by label, by owner reference, none; an unready endpoint | type, no entry outlives its slice's claim to it or, once handled, disagrees with the API server; a carried IP resolves |
| `route_projection` | a route (parentRef without a kind, of kind Gateway, or a "Service" of another API group), a Gateway and a Service of one name; the latter two come and go | type, an explicit Gateway is never a Service, an indexed route has a Service or a Gateway and not both, with mode, waypoint, role, port and address of that one (`OneParent`); projections converge |
| `route_projection_class` | a GRPCRoute with three shapes of parents and backends, a Gateway and its class | the index is current once the handler is done; mode, waypoint and controller converge |
| `enrichment` | ten records over all parsers, address forms and signals (logs switched off), all indexes changing | type, unresolved records untouched, metrics stripped, one route per record, which owns the Service |
| `lifecycle` | two signals; six configurations with different informers and thirteen that are (nearly) wrong | type, a lookup is installed only when every informer it needs has its handlers registered and has listed (not that the handlers have been through the list, see `infers_over_gateway`), informers that outlive `Start`, a whole inferrer, no cluster needed without Kubernetes, accepted configurations build, `Start` returns, nothing outlives the context |

Runs that end in a violation, each a disagreement between the code and what the
repository says of it (quoted under `findings` in `PROJECT.json`):

| Run | The code | The text |
| --- | --- | --- |
| `ambiguity_drop_undone` | the next upsert of the first claimer restores a dropped entry while two routes reference the Service | "never stamp ambiguous attribution" (`index.go:22-25`), "once dropped it stays dropped" (`routes.go:175-181`) |
| `infers_over_gateway` | `HasSynced` may precede the handlers, and the store is read before it | "the guardrail-1 invariant holds" (`informer.go:170-172`) |
| `missed_gateway_delete` | Gateway and GatewayClass deletes found by a relist are ignored for ever | a nil-Kind parentRef "that resolves to **no Gateway**, yet whose `ns/name` names a **real Service**, is reclassified as `mesh`" (`docs/configuration.md:271-276`) |
| `partial_rbac` | one kind that cannot be listed makes the whole `Start` fail on the shared timeout | "the affected enrichment path [...] returns empty" (`docs/architecture.md:143-146`) |

Further divergences that can be read off the models and have no run of their own:

* When the first claimer of a contested Service goes, the remaining owner is not
  promoted: a Service with one owner misses until that route is upserted again, although
  the index "never has a `LookupByBackendService` miss combined with a single-candidate
  `LookupByBackendServiceWithParents` hit" (`processor.go:685-687`).
  `SoleOwnerResolves` is the part that holds.
* Because a dropped single-candidate entry comes back (`ambiguity_drop_undone`),
  `resolveByBackend` bypasses the disambiguator for a Service that a mesh and an
  ingress route share once the first claimer is resynced, so "prefer the mesh
  candidate" (`processor.go:711-712`) depends on the order of events.
* The conflict branch of `serviceIPIndex.upsertService` forgets both claimants: the
  next upsert takes the IP while both cached Services announce it, although "we
  never attribute ambiguously" (`service_informer.go:226-229`).
* An inferred Service parent keeps the `parent_ref` formatted before the inference,
  which says Gateway; `docs/configuration.md:287-288` calls inferred attributes
  "indistinguishable from an explicit Service parent". `OneParent` states it as the one
  case in which `parent_ref` and `parent.kind` differ.
* `formatParentRef` formats any parent of kind Service as one of the core group, where
  its comment says that it "mirrors isServiceParent so the two are consistent"
  (`informer.go:536-550`); `isServiceParent` looks at the group. A parentRef of another group with kind
  Service that names an existing Gateway is therefore attributed to the Gateway while
  `parent_ref` and `parent.kind` say Service. The proof of `OneParent` found it, and `OneParent`
  claims nothing of `parent.kind` next to a Gateway.
* Records that nothing resolves are not stripped, so a data point that arrives with a
  UID keeps it; "`*.uid` must never land on metric pipelines" (`processor.go:592`).
  `StampedMetricsAreStripped` is the part that holds.
* The fallback stamps the status conditions, which records enriched that way "do **not**
  receive" according to `docs/architecture.md:135-137`.
* `splitAddress` reads the external host `api.demo.com` as Service `api` in `demo`; its
  comment says it returns nothing for "external hosts" (`processor.go:768`).
* `docs/configuration.md:27` says that `resync_period: 0` disables resyncs, where
  `informer.go:41-44` turns 0 into five minutes.
* Each signal's processor calls `newInformers` itself (`factory.go:118-161`), where
  `processor.go:24-25` says that "a single instance is shared across traces/logs/metrics".
* The stop function of `newInformers` does nothing (`informer.go:188-191`), so
  `Shutdown` does not stop the informers as the comment at `informer.go:24` suggests;
  they end with the context given to `Start`, also after a `Start` that failed.
* `Validate` accepts a parser with an unknown name; the processor then fails to build.
* An inferred Service parent is not added to the backend index as an explicit
  one is (`backendRefsFromHTTPRoute` looks at `kind: Service` only).
* `docs/architecture.md:133-134` says the fallback fires "when the primary lookup
  fails"; `enrich` calls it only if no parser matched.

### Bounds

* Four routes (two names of two kinds) on one Service: ambiguity needs two
  contenders and re-ambiguity a third, and every method treats each Service
  independently of the others. The theorems lift the bound for the safety
  properties. `enrichment` has two routes, an HTTPRoute and a GRPCRoute of one name,
  which is the least for the disambiguator to choose from.
* `MaxPending` (2 or 3) bounds the events queued for one object. With 2, a change
  can be queued behind another one or behind a resync, which is all a handler can
  tell apart: it takes one event at a time and keeps nothing between them. A
  resync leaves one slot free, so that it never blocks a change: the real
  queue is unbounded.
* Two watches or two objects are enough for every race the handlers have with
  each other, since they share one key at a time. The projection runs use three
  objects, one for each store a projection reads.
* `Writable` says which objects change in a run; the others are fixed at any
  initial value, so every initial list is covered. Splitting the questions over
  runs keeps each within the bound on states.
* One record at a time: the pipeline's goroutines share only the indexes, and they
  do not write them.
* Two signals: the second starts after the first, so a failure finds one processor running
  and one starting. One and two namespaces: the informers of a kind are several as soon
  as they are two. The configurations of `lifecycle` differ from the default in one respect
  each, or in several independent ones.
* Symmetry is used only in runs without liveness whose interchangeable sets are model values.

Deadlock is checked in the passing runs except `lifecycle`: a collector that has ended, or
whose configuration was refused, has nothing left to do. It is also switched off in
`infers_over_gateway`, whose cluster does not change, so that everything may settle.

### Fairness

* `Observe` and the handlers are weakly fair: client-go restarts broken watches
  and runs each handler in a goroutine of its own that nothing in this code blocks.
* `Resync` is weakly fair where convergence needs it (`route_index` included): the period is never zero
  (0 becomes five minutes, `Validate` refuses negative values) and the handlers do not
  skip an update that changes nothing. Mutants that skip it break the liveness
  properties, so healing really rests on the resync.
* `FinishGatewayList` is weakly fair: otherwise `Start` fails on its timeout.
* In `Lifecycle` the goroutine of `Start`, the timer (`Elapse`) and the reaction of informers to
  their context (`StopInformers`) are weakly fair; nothing makes an informer sync, a host
  shut down or a context end. `StartReturns` therefore covers informers that never sync.
* Convergence is stated as: if the API objects stop changing for good, the indexes
  become right and stay right. `ProjectionsConverge` also supposes that no delete of
  a Gateway or class is missed; `missed_gateway_delete` shows that it has to.

## 4. Proofs

Every safety property that a passing run checks is also proved, for every value of the
constants: any number of routes, Services, slices, policies, watches of one object,
records, configurations, pipelines and namespaces.

| Module | Theorems, each `Spec => []P` for an invariant `P` and `Spec => P` otherwise |
| --- | --- |
| `RouteIndexProofs` | `TypeCorrect` (`TypeOK`), `OwnersLive` (`OwnersAreLive`), `ClaimerOwns` (`ClaimerIsOwner`), `SingleCandidateCurrent` (`SingleCandidateIsCurrent`), `PoliciesStayDistinct` (`PoliciesDistinct`), `LookupsAlwaysAgree` (`LookupsAgree`), `FirstClaimerKeepsAnswer` (`AnswerStaysWithFirstClaimer`, an action property), `Refinement` (`ImplementsAttribution`), `AnswersAreLiveClaimants` (the invariant of `BackendAttribution`) |
| `SharedInformerProofs` | lemmas on the queues of client-go, instantiated by the modules below |
| `PolicyInformerProofs` | `PolicyInvariant`, `PolicyTypeOK`, `PolicySettledIsExact`, `PolicyNoFlicker` (an action property) |
| `ServiceIndexesProofs` | `ServiceTypeOK`, `ServiceClaimIsAnnounced`, `ServiceSettledIsExact` |
| `PodIPIndexProofs` | `PodIPTypeOK`, `PodIPEntryIsCarried`, `PodIPSettledEntryIsCurrent` |
| `RouteProjectionProofs` | `ProjectionInvariant`, `ProjectionTypeOK`, `ProjectionOneParent`, `ProjectionSettledIsCurrent`, `ProjectionExplicitGateway` |
| `EnrichmentProofs` | `EnrichmentInvariant`, `EnrichmentTypeOK`, `EnrichmentUntouched`, `EnrichmentStripped`, `EnrichmentOneRoute`, `EnrichmentAttributedToOwner` (an action property) |
| `LifecycleProofs` | `LifecycleInvariant`, `LifecycleTypeOK`, `LifecycleServesWarm`, `LifecycleInformersOutlive`, `LifecycleInferrerWhole`, `LifecycleNoCluster`, `LifecycleAcceptedBuilds` |

Each module follows one scheme: the model states an inductive invariant, `InitEstablishes`
and one lemma per action show that it holds and is preserved, and the properties follow
from it in a single state (or, for action properties, in a single step from it).

### The inductive invariants, and why they are needed

* **Route index, `IndexInv`.** The type, `StoredUnderOwnKey` (the kinds of the method and
  of the projection agree, so the key a lookup rebuilds is the route's), `OwnersAreLive`,
  `ClaimerIsOwner` and `SingleCandidateIsCurrent`; `PoliciesDistinct` is inductive with
  the type. That a single-candidate entry is current after an upsert needs to know that the
  entries of *other* Services, which are not rewritten, belong to other routes. That
  follows from the claims on them, and from claims being released when their owner lets
  go. `DropAt`, `ApplyAttaches` and `RemoveDetaches` say what the two policy
  calls do to the sequence of a route's policies. *Refinement:* `live` is `routes`,
  `answer` is `backendIndex`, and a route claims the Services in whose `backendOwners` it
  is. The interesting case is a Service whose entry is dropped, where `ClaimerIsOwner`
  provides the other claimant that the abstract specification demands. Policy changes
  are stutters.
* **Queues, `Linked`.** A queue leads without a gap from the revision its
  handler last took to the one in the store, and the type of each notification says what
  happened. The settled properties of all four informer modules need it: without it, an
  empty queue would say nothing about what the handler has seen.
* **Policies, `PolicyInv`.** With several watches of one policy, nothing relates the
  index to *one* of them: a slow watch may remove what a fast one has just applied.
  `Agreement` says what is left: when every watch has taken a revision that targets the
  route and has no `applyPolicy` left, the policy is on it, and likewise for removal.
  A handler that takes a notification can only shrink that agreement, and each call
  re-establishes it for its own route. `CallsLead` (a call left to do agrees with the
  revision taken) makes the last call the right one, and is what excludes flicker.
* **Services, `ServiceInv`.** A handler writes three indexes in three steps, so each index is
  tied to the revision a handler took only from the step that wrote it: `Written(w, index)`
  guards `ClaimIsAnnounced`, `NameIsBacked` and `WaypointIsBacked`.
  `NoClaimIfDisabled` covers the indexes that are not built.
* **Pod IPs, `PodIPInv`.** `EntryIsBacked` strengthens `EntryIsCarried` to
  what the slice *wants*, which is empty for a slice without a Service owner.
* **Projection, `ProjectionInv`.** What a handler in mid-walk may have read: a Gateway or
  an inferred Service, never both, and an inference only for a parentRef without kind
  (`Learnt`, `OnTheWalk`); that every indexed route is the projection of
  one of its own revisions and of one such walk (`RoutesAreProjections`); and that an idle
  handler's route is the projection of the revision its queue starts from (`KeepsUp`).
* **Enrichment, `EnrichmentInv`.** The invariant of the route index, which the informers keep
  while the record is in progress, and `Progress`: before the last lookup a record
  carries at most the identity of the one route a parser named, and nothing at all while
  its address is being resolved. `AttributedToOwner` is then a fact about one step.
* **Lifecycle, `LifecycleInv`.** For each processor: which informers exist at each point of
  `newInformers` (`Created`), which of them run and which have synced up to the one waited for
  (`Alive`), what the route handlers were given (`Wired`), and who may install the lookup
  (`Installed`). It was not inductive until it also said that no index exists before
  the Service informers are created.

### Assumptions

All are named, stand in the module that declares the constants, and are evaluated by TLC
in its runs. They are of three sorts: constants have the types of the code's values
(`PodIPAssumption`, `ServiceAssumption`, `ProjectionAssumption`, `PolicyAssumption`,
`LifecycleAssumption`, `EnrichmentAssumption`); `None`, the model's absent map entry, is none of the
values it is told apart from (`NoneAssumption`, `EntryAssumption`, `ParentAssumption`);
and the universe of names holds every name an object can mention (`TargetAssumption`).

### Only model-checked

* Liveness: `SoleOwnerResolves`, `AnnouncedIPResolves`, `CarriedIPResolves`,
  `ProjectionsConverge`, `StartReturns`, `NothingOutlivesTheContext`. The proof system does
  not treat fairness.
* The four runs that end in a violation are counterexamples, not proofs.

## 5. Not modelled

* Regular expressions, URL and IP syntax: given as what they yield.
* Loops over resources, scopes and batches: each record is enriched independently, and
  resource attributes are only read.
* The `put` methods of `staticLookup`, which only tests call; counters and logs; default
  names of the attributes the parsers read.
* The error of the next consumer, which is returned as it is.
* Deployment manifests, documentation, CI.

## 6. Plan

Done, in this order: the route index and its abstract specification with their
proofs; the informer model; policies, composed with routes that come and go; Services; Pod
IPs; route projection; enrichment with its switches; configuration and lifecycle; the
inductive invariants of all of them and the proofs of every safety property.

Next:

1. What fairness adds can be narrowed down by safety theorems: that each healing step
   (a resync of a sole owner, of a carried Pod IP, of an announced ClusterIP) leaves its
   entry right and that no later step of a quiet cluster disturbs it, so that only
   "the step is taken" rests on TLC.
2. Abstract specifications for the Pod IP and ClusterIP indexes (an IP is answered by
   somebody who announces it, or by nobody), with refinement proofs like the one of
   `RouteIndex`.
