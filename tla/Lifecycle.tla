------------------------------ MODULE Lifecycle ------------------------------
(***************************************************************************)
(* From a configuration to running informers and back: Validate            *)
(* (config.go), one processor for each signal (factory.go, newProcessor),  *)
(* Start with newInformers (informer.go and the start functions of the     *)
(* three other informer files), Shutdown, and the contexts that end the    *)
(* informers.                                                              *)
(*                                                                         *)
(* The collector validates, builds the processors, starts them one after   *)
(* the other and shuts all of them down when it ends or a Start fails; the *)
(* context it hands to Start may be cancelled at any time.  Inside Start   *)
(* every call that can fail, and every look at an informer that runs on    *)
(* its own, is a step.                                                     *)
(***************************************************************************)
EXTENDS Integers, Sequences

CONSTANTS
    Pipelines,      \* the signals whose pipelines use the processor, in the
                    \* order the collector builds and starts them
    Configs,        \* the configurations tried
    DeniedSets,     \* the sets of kinds the API server may refuse to list
    None            \* a nil pointer

ASSUME LifecycleAssumption ==
    /\ Pipelines \in Seq({"traces", "logs", "metrics"})
    /\ \A i, j \in DOMAIN Pipelines : Pipelines[i] = Pipelines[j] => i = j
    /\ None \notin BOOLEAN /\ None \notin {"static", "informers"}
    /\ \A c \in Configs : /\ c.namespaces \in Seq(STRING)
                          /\ c.policies \in Seq([version : STRING, resource : STRING])

VARIABLES
    cfg,        \* the configuration
    denied,     \* the kinds that cannot be listed: no CRD, no permission
    host,       \* the collector: "load", "up", "down" or "refused"
    ctxDone,    \* the context given to Start is cancelled
    proc        \* signal -> its gatewayAPIProcessor

vars == <<cfg, denied, host, ctxDone, proc>>

Elems(s) == {s[i] : i \in DOMAIN s}

Signals == Elems(Pipelines)
Before(s) == {Pipelines[i] : i \in {j \in DOMAIN Pipelines :
                                     \E k \in DOMAIN Pipelines : j < k /\ Pipelines[k] = s}}

-----------------------------------------------------------------------------
(* Configuration.  A regular expression is one of "" (empty), "invalid",    *)
(* "unnamed" (without the groups ns and name) and "named"; a class name is  *)
(* blank or not; an optional switch is None, TRUE or FALSE.                 *)

createDefaultConfig ==
    [auth |-> "serviceAccount", kubeConfigPath |-> "",
     namespaces |-> << >>, policies |-> << >>, resync |-> 300,
     parsers |-> <<[name |-> "envoy", controllers |-> <<"named">>, format |-> "named"],
                   [name |-> "linkerd", controllers |-> <<"named">>, format |-> ""],
                   [name |-> "passthrough", controllers |-> << >>, format |-> ""]>>,
     waypointClassNames |-> <<"istio-waypoint", "kgateway-waypoint", "istio-eastwest">>,
     inferServiceParent |-> None,
     fallback |-> TRUE, podIP |-> None,
     timeout |-> 30]

\* A nil switch is on.
OnByDefault(switch) == switch = None \/ switch = TRUE

InferServiceParentEnabled(c) == OnByDefault(c.inferServiceParent)
PodIPEnabled(c) == OnByDefault(c.podIP)
WaypointEnabled(c) == c.waypointClassNames # << >>

\* Mutant: the envoy format is not compiled.
MutValidateParserNoFormat(p, last) ==
    /\ p.name = "passthrough" => last
    /\ \A i \in DOMAIN p.controllers : p.controllers[i] # "invalid"
    /\ p.name = "envoy" => p.format # "unnamed"

ValidateParser(p, last) ==
    /\ p.name = "passthrough" => last
    /\ \A i \in DOMAIN p.controllers : p.controllers[i] # "invalid"
    /\ p.name = "envoy" => p.format \in {"", "named"}

Validate(c) ==
    /\ c.auth \in {"", "serviceAccount", "kubeConfig", "none"}
    /\ c.auth = "kubeConfig" => c.kubeConfigPath # ""
    /\ c.parsers # << >>
    /\ \A i \in DOMAIN c.parsers : ValidateParser(c.parsers[i], i = Len(c.parsers))
    /\ c.resync >= 0
    /\ c.timeout >= 0
    /\ \A i \in DOMAIN c.policies :
           c.policies[i].version # "" /\ c.policies[i].resource # ""
    /\ \A i \in DOMAIN c.waypointClassNames : c.waypointClassNames[i] # "blank"

\* NewEnvoyParser compiles the format, and nothing else.
NewEnvoyParser(p) == p.format # "invalid"

\* buildParserChain succeeds: the other two constructors never fail, and there
\* are no other parsers.
KnownParsers == {"envoy", "linkerd", "passthrough"}
buildParserChain(c) ==
    \A i \in DOMAIN c.parsers :
        /\ c.parsers[i].name \in KnownParsers
        /\ c.parsers[i].name = "envoy" => NewEnvoyParser(c.parsers[i])

-----------------------------------------------------------------------------
(* Informers.  One is a kind and the position of its namespace in           *)
(* watch.namespaces; without namespaces there is one that sees them all.    *)

GatewayKinds == <<"HTTPRoute", "GRPCRoute", "Gateway", "GatewayClass">>
RouteKinds == {"HTTPRoute", "GRPCRoute"}

Scopes(c) == IF c.namespaces = << >> THEN 1 ELSE Len(c.namespaces)

\* The informers of these kinds, factory by factory.
PerScope(kinds, c) ==
    [n \in 1 .. (Len(kinds) * Scopes(c)) |->
        <<kinds[((n - 1) % Len(kinds)) + 1], ((n - 1) \div Len(kinds)) + 1>>]

policyKinds(c) == [i \in DOMAIN c.policies |-> c.policies[i].resource]

OfKinds(infs, kinds) == {i \in infs : i[1] \in kinds}

\* The context whose end stops an informer is Start's own ("start"), or could
\* be the one that bounds the wait ("sync"), which ends with the first and
\* with the timeout and is cancelled when newInformers returns.
Closed(p, context) ==
    \/ context \in {"start", "sync"} /\ ctxDone
    \/ context = "sync" /\ (p.expired \/ p.pc \in {"running", "failed", "stopped"})

-----------------------------------------------------------------------------
(* A processor *)

NoProcessor ==
    [pc |-> "none",
     hook |-> FALSE,        \* startHook is set
     informers |-> << >>,   \* the informers to wait for, in order
     handled |-> {},        \* the informers with handlers
     running |-> {},        \* those started, each with the context that stops it
     synced |-> {},         \* HasSynced
     gwInfs |-> {},         \* the informers gatewaySynced asks
     indexes |-> {},        \* the Service indexes that are built
     inferrer |-> "unset",  \* what the route handlers were given
     waiting |-> 0,         \* position of the informer waited for
     polled |-> FALSE,      \* it was found not to be synced
     expired |-> FALSE,     \* the sync timeout has passed
     lookup |-> None, stopFn |-> FALSE]

Starting == {"client", "service", "slices", "routes", "policies", "start", "wait"}

Running(p) == {r[1] : r \in p.running}

Init ==
    /\ cfg \in Configs
    /\ denied \in DeniedSets
    /\ host = "load"
    /\ ctxDone = FALSE
    /\ proc = [s \in Signals |-> NoProcessor]

\* The processor of s becomes p; nothing else changes.
Becomes(s, p) ==
    /\ proc' = [proc EXCEPT ![s] = p]
    /\ UNCHANGED <<cfg, denied, host, ctxDone>>

At(s, pc) == proc[s].pc = pc

-----------------------------------------------------------------------------
(* The collector *)

Load ==
    /\ host = "load"
    /\ host' = IF Validate(cfg) THEN "up" ELSE "refused"
    /\ UNCHANGED <<cfg, denied, ctxDone, proc>>

\* Mutant: every processor gets the hook.
MutAttachAlways(p) == [p EXCEPT !.hook = TRUE]

\* Without a cluster there is no hook.
attachDefaultStartHook(p) == [p EXCEPT !.hook = (cfg.auth # "none")]

\* What newProcessor returns: a processor with an empty staticLookup.
BuiltProcessor == [NoProcessor EXCEPT !.pc = "built", !.lookup = "static"]

\* createTracesProcessor, createLogsProcessor, createMetricsProcessor: each
\* one a processor of its own.
newProcessor(s) ==
    /\ host = "up" /\ At(s, "none")
    /\ \A t \in Before(s) : At(t, "built")
    /\ IF buildParserChain(cfg)
       THEN Becomes(s, attachDefaultStartHook(BuiltProcessor))
       ELSE /\ host' = "refused"
            /\ UNCHANGED <<cfg, denied, ctxDone, proc>>

\* Start: without a hook there is nothing to warm up.
Start(s) ==
    /\ host = "up" /\ At(s, "built")
    /\ \A t \in Signals : ~At(t, "none") /\ (t \in Before(s) => At(t, "running"))
    /\ Becomes(s, [proc[s] EXCEPT !.pc = IF proc[s].hook THEN "client" ELSE "running"])

\* The collector ends, or a component it started has failed.
GoDown ==
    /\ host = "up"
    /\ \A s \in Signals : proc[s].pc \notin Starting
    /\ host' = "down"
    /\ UNCHANGED <<cfg, denied, ctxDone, proc>>

\* Shutdown calls stopFn if there is one, and stopFn does nothing.
Shutdown(s) ==
    /\ host = "down" /\ proc[s].pc \in {"built", "running", "failed"}
    /\ Becomes(s, [proc[s] EXCEPT !.pc = "stopped"])

CancelContext ==
    /\ ~ctxDone
    /\ ctxDone' = TRUE
    /\ UNCHANGED <<cfg, denied, host, proc>>

-----------------------------------------------------------------------------
(* newInformers *)

\* newInformers returns and its wait is over: the locals are gone.
Leave(p, pc) == [p EXCEPT !.pc = pc, !.waiting = 0, !.polled = FALSE, !.expired = FALSE]

\* Mutant: Start keeps what newInformers returned before it looks at the error.
MutFailKeepsNil(s) == Becomes(s, [Leave(proc[s], "failed") EXCEPT !.lookup = None])

\* An error: Start returns it; lookup and stopFn stay as they were, and the
\* informers that run keep running.
Fail(s) == Becomes(s, Leave(proc[s], "failed"))

\* More informers to wait for, some of them with handlers.
Create(p, infs, handled) ==
    [p EXCEPT !.informers = @ \o infs, !.handled = @ \cup handled]

Run(p, infs, context) == [p EXCEPT !.running = @ \cup (infs \X {context})]

\* There is a REST configuration to be had for any auth_type but none.
buildRESTConfig == cfg.auth # "none"

\* Mutant: gatewaySynced asks the Gateway informer of the last loop only.
MutCreateLastGateway(s) ==
    LET infs == PerScope(GatewayKinds, cfg)
    IN  /\ At(s, "client")
        /\ \/ Fail(s)
           \/ /\ buildRESTConfig
              /\ Becomes(s, [Create(proc[s], infs, OfKinds(Elems(infs), {"Gateway", "GatewayClass"}))
                     EXCEPT !.pc = "service", !.gwInfs = {<<"Gateway", Scopes(cfg)>>}])

\* buildRESTConfig and the Gateway API clientset, then pass 1: all Gateway
\* API informers, with handlers for Gateways and classes.
CreateGatewayInformers(s) ==
    LET infs == PerScope(GatewayKinds, cfg)
    IN  /\ At(s, "client")
        /\ \/ Fail(s)
           \/ /\ buildRESTConfig
              /\ Becomes(s, [Create(proc[s], infs, OfKinds(Elems(infs), {"Gateway", "GatewayClass"}))
                     EXCEPT !.pc = "service", !.gwInfs = OfKinds(Elems(infs), {"Gateway"})])

\* The indexes the enabled features need.
serviceIndexes(c) ==
    {index \in {"ip", "waypoint", "name"} :
        \/ index = "ip" /\ c.fallback
        \/ index = "waypoint" /\ WaypointEnabled(c)
        \/ index = "name" /\ InferServiceParentEnabled(c)}

NeedsServices == serviceIndexes(cfg) # {}

\* Mutant: the Service informers are not waited for.
MutServiceNotAwaited(s) ==
    LET infs == PerScope(<<"Service">>, cfg)
    IN  /\ At(s, "service")
        /\ IF ~NeedsServices
           THEN Becomes(s, [proc[s] EXCEPT !.pc = "routes"])
           ELSE \/ Fail(s)
                \/ Becomes(s, [proc[s] EXCEPT !.handled = @ \cup Elems(infs),
                       !.pc = "slices", !.indexes = serviceIndexes(cfg)])

\* The Kubernetes clientset and startServiceInformer, which starts nothing,
\* if any feature needs them.
startServiceInformer(s) ==
    LET infs == PerScope(<<"Service">>, cfg)
    IN  /\ At(s, "service")
        /\ IF ~NeedsServices
           THEN Becomes(s, [proc[s] EXCEPT !.pc = "routes"])
           ELSE \/ Fail(s)
                \/ Becomes(s, [Create(proc[s], infs, Elems(infs))
                       EXCEPT !.pc = "slices", !.indexes = serviceIndexes(cfg)])

NeedsSlices == cfg.fallback /\ PodIPEnabled(cfg)

\* Mutant: the informers are started with a context of their own.
MutSlicesDetached(s) ==
    LET infs == PerScope(<<"EndpointSlice">>, cfg)
        next == [proc[s] EXCEPT !.pc = "routes"]
    IN  /\ At(s, "slices")
        /\ Becomes(s, IF NeedsSlices
                      THEN Run(Create(next, infs, Elems(infs)), Elems(infs), "background")
                      ELSE next)

\* These informers run from here on.
startEndpointSliceInformer(s) ==
    LET infs == PerScope(<<"EndpointSlice">>, cfg)
        next == [proc[s] EXCEPT !.pc = "routes"]
    IN  /\ At(s, "slices")
        /\ Becomes(s, IF NeedsSlices
                      THEN Run(Create(next, infs, Elems(infs)), Elems(infs), "start")
                      ELSE next)

\* nil unless mesh.infer_service_parent is on.
newParentInferrer == IF InferServiceParentEnabled(cfg) THEN "wired" ELSE "nil"

\* Pass 2: the inferrer, and the route handlers that hold it.
RegisterRouteHandlers(s) ==
    /\ At(s, "routes")
    /\ Becomes(s, [proc[s] EXCEPT
           !.pc = "policies",
           !.inferrer = newParentInferrer,
           !.handled = @ \cup OfKinds(Elems(proc[s].informers), RouteKinds)])

\* The dynamic client and one informer for each namespace and policy, which
\* run from here on.
startPolicyInformers(s) ==
    LET infs == PerScope(policyKinds(cfg), cfg)
        next == [proc[s] EXCEPT !.pc = "start"]
    IN  /\ At(s, "policies")
        /\ IF cfg.policies = << >> THEN Becomes(s, next)
           ELSE \/ Fail(s)
                \/ Becomes(s, Run(Create(next, infs, Elems(infs)), Elems(infs), "start"))

\* Mutant: the factories stop with the context of the wait.
MutStartUnderSyncContext(s) ==
    /\ At(s, "start")
    /\ Becomes(s, [Run(proc[s], OfKinds(Elems(proc[s].informers),
                                        Elems(GatewayKinds) \cup {"Service"}), "sync")
                   EXCEPT !.pc = "wait", !.waiting = 1])

\* Pass 3: the Gateway API and Service factories; the timeout starts.
StartFactories(s) ==
    /\ At(s, "start")
    /\ Becomes(s, [Run(proc[s], OfKinds(Elems(proc[s].informers),
                                        Elems(GatewayKinds) \cup {"Service"}), "start")
                   EXCEPT !.pc = "wait", !.waiting = 1])

-----------------------------------------------------------------------------
(* The wait.  WaitForCacheSync looks at once and then again and again, until *)
(* the informer has synced or the context is done.                          *)

Awaited(s) == proc[s].informers[proc[s].waiting]
Waiting(s) == At(s, "wait") /\ proc[s].waiting <= Len(proc[s].informers)

Poll(s) ==
    /\ Waiting(s) /\ ~proc[s].polled
    /\ Awaited(s) \notin proc[s].synced
    /\ Becomes(s, [proc[s] EXCEPT !.polled = TRUE])

Advance(s) ==
    /\ Waiting(s)
    /\ Awaited(s) \in proc[s].synced
    /\ Becomes(s, [proc[s] EXCEPT !.polled = FALSE, !.waiting = @ + 1])

\* Mutant: the wait is bounded by Start's context only.
MutTimeOutOnContext(s) == Waiting(s) /\ proc[s].polled /\ ctxDone /\ Fail(s)

\* The last look was in vain and the context is done, although the informer
\* may have synced since.
TimeOut(s) ==
    /\ Waiting(s) /\ proc[s].polled
    /\ proc[s].expired \/ ctxDone
    /\ Fail(s)

\* newInformers returns the combinedLookup and stop, and Start keeps them.
Return(s) ==
    /\ At(s, "wait") /\ ~Waiting(s)
    /\ Becomes(s, [Leave(proc[s], "running") EXCEPT !.lookup = "informers", !.stopFn = TRUE])

StartStep(s) ==
    \/ CreateGatewayInformers(s) \/ startServiceInformer(s) \/ startEndpointSliceInformer(s)
    \/ RegisterRouteHandlers(s) \/ startPolicyInformers(s) \/ StartFactories(s)
    \/ Poll(s) \/ Advance(s) \/ TimeOut(s) \/ Return(s)

-----------------------------------------------------------------------------
(* What goes on by itself *)

\* defaultSyncTimeout is positive whatever the configuration says, so there
\* is time for anything before it has passed.
Elapse(s) ==
    /\ At(s, "wait") /\ ~proc[s].expired
    /\ Becomes(s, [proc[s] EXCEPT !.expired = TRUE])

\* An informer that may list does so in its own time.
Sync(s, i) ==
    /\ i \in Running(proc[s]) \ proc[s].synced
    /\ i[1] \notin denied
    /\ Becomes(s, [proc[s] EXCEPT !.synced = @ \cup {i}])

StopInformers(s) ==
    LET ended == {r \in proc[s].running : Closed(proc[s], r[2])}
    IN  /\ ended # {}
        /\ Becomes(s, [proc[s] EXCEPT !.running = @ \ ended])

Next ==
    \/ Load \/ GoDown \/ CancelContext
    \/ \E s \in Signals :
           \/ newProcessor(s) \/ Start(s) \/ StartStep(s) \/ Shutdown(s)
           \/ Elapse(s) \/ StopInformers(s)
           \/ \E i \in Running(proc[s]) : Sync(s, i)

Spec == Init /\ [][Next]_vars

\* Start's goroutine runs, time passes, and informers heed their context.
\* Nothing makes an informer sync.
FairSpec ==
    /\ Spec
    /\ \A s \in Signals :
           WF_vars(StartStep(s)) /\ WF_vars(Elapse(s)) /\ WF_vars(StopInformers(s))

-----------------------------------------------------------------------------
(* Correctness *)

\* Every variable keeps its type; a processor that was built always has a lookup
\* to enrich with, and no informer runs without handlers.
TypeOK ==
    /\ cfg \in Configs /\ denied \in DeniedSets
    /\ host \in {"load", "up", "down", "refused"}
    /\ ctxDone \in BOOLEAN
    /\ \A s \in Signals :
           LET p == proc[s]
           IN  /\ p.pc \in Starting \cup {"none", "built", "running", "failed", "stopped"}
               /\ p.synced \cup Running(p) \subseteq p.handled
               /\ p.waiting \in 0 .. (Len(p.informers) + 1)
               /\ p.lookup \in {None, "static", "informers"}
               /\ p.lookup = None <=> p.pc = "none"
               /\ p.stopFn <=> p.lookup = "informers"

\* The kinds of objects the enabled features read, in all watched namespaces.
KindsNeeded(c) ==
    Elems(GatewayKinds) \cup Elems(policyKinds(c))
        \cup {kind \in {"Service", "EndpointSlice"} :
                 \/ /\ kind = "Service"
                    /\ \/ c.fallback \/ WaypointEnabled(c)
                       \/ InferServiceParentEnabled(c)
                 \/ kind = "EndpointSlice" /\ c.fallback /\ PodIPEnabled(c)}
Needed(c) == KindsNeeded(c) \X (1 .. Scopes(c))

\* Once Start has installed the lookup, every informer behind an enabled feature
\* has its handlers registered and has listed, whichever way the wait and its
\* timeout interleaved with the lists.  That the handlers have been through the
\* list by then is not claimed: see NeverInfersOverGateway in RouteProjection.
ServesAWarmLookup ==
    \A s \in Signals : proc[s].lookup = "informers" =>
        Needed(cfg) \subseteq proc[s].synced \cap proc[s].handled

\* No informer Start waits for, or has returned with, has been forgotten or
\* stopped by the end of the wait: all run until the context ends.
InformersOutliveStart ==
    \A s \in Signals : proc[s].pc \in {"wait", "running"} /\ ~ctxDone =>
        Elems(proc[s].informers) \subseteq Running(proc[s])

\* A route is never projected by a handler with a half-built inferrer: if route
\* informers run, their handlers have the inferrer the configuration asks for,
\* and it can infer only when every Gateway informer has synced and there are
\* Service names to ask, fed by the same namespaces.
InferrerIsWhole ==
    \A s \in Signals :
        LET p == proc[s]
            Scoped(kind) == OfKinds(p.handled, {kind})
        IN  /\ OfKinds(Running(p), RouteKinds) # {} => p.inferrer = newParentInferrer
            /\ p.inferrer = "wired" =>
                   /\ "name" \in p.indexes
                   /\ {i[2] : i \in Scoped("Service")} = {i[2] : i \in Scoped("Gateway")}
                   /\ p.gwInfs \subseteq p.synced => Scoped("Gateway") \subseteq p.synced

\* docs/architecture.md:111-113: with auth_type none the processor starts
\* whatever the state of the cluster, runs no informer and looks nothing up.
NoClusterIsEverNeeded ==
    cfg.auth = "none" => \A s \in Signals :
        /\ proc[s].pc \notin Starting \cup {"failed"}
        /\ proc[s].informers = << >> /\ proc[s].lookup # "informers"

\* Validate leaves the constructors one reason to refuse a configuration, the
\* name of a parser: every regular expression they compile was compiled.
AcceptedConfigBuilds ==
    host = "refused" /\ Validate(cfg) =>
        \E i \in DOMAIN cfg.parsers : cfg.parsers[i].name \notin KnownParsers

\* The inductive invariant, for each processor.  How far Start has come says which
\* informers there are to wait for ...
AfterRoutes == {"policies", "start", "wait"}
AfterSlices == AfterRoutes \cup {"routes"}
AfterService == AfterSlices \cup {"slices"}
AfterClient == AfterService \cup {"service"}

AllOf(kinds, c) == kinds \X (1 .. Scopes(c))

Created(p, c) ==
    LET infs == Elems(p.informers)
    IN  /\ p.pc \in {"none", "built", "client", "service"} => p.indexes = {}
        /\ p.pc \in AfterClient =>
               /\ AllOf(Elems(GatewayKinds), c) \subseteq infs
               /\ AllOf({"Gateway"}, c) \subseteq p.handled \cap p.gwInfs
        /\ p.pc \in AfterService =>
               /\ p.indexes = serviceIndexes(c)
               /\ serviceIndexes(c) # {} => AllOf({"Service"}, c) \subseteq infs \cap p.handled
        /\ p.pc \in AfterSlices /\ c.fallback /\ PodIPEnabled(c) =>
               AllOf({"EndpointSlice"}, c) \subseteq infs
        /\ p.pc \in AfterRoutes => infs \subseteq p.handled /\ p.inferrer # "unset"
        /\ p.pc \in {"start", "wait"} => AllOf(Elems(policyKinds(c)), c) \subseteq infs

\* ... and, unless the context has ended, which of them run.
Alive(p, done) ==
    LET infs == Elems(p.informers)
    IN  /\ p.synced \cup Running(p) \subseteq p.handled
        /\ \A i \in infs : i \in p.handled \/ i[1] \in RouteKinds
        /\ ~done => infs \subseteq Running(p)
                       \cup OfKinds(infs, Elems(GatewayKinds) \cup {"Service"})
        /\ ~done /\ p.pc \in {"wait", "running"} => infs \subseteq Running(p)
        /\ p.pc = "wait" =>
               \A n \in 1 .. Len(p.informers) : n < p.waiting => p.informers[n] \in p.synced

\* What the route handlers were given is what the configuration asks for.
Wired(p, c) ==
    /\ p.inferrer \in {"unset", IF InferServiceParentEnabled(c) THEN "wired" ELSE "nil"}
    /\ p.inferrer = "unset" => OfKinds(Running(p), RouteKinds) = {}
    /\ p.inferrer = "wired" =>
           /\ "name" \in p.indexes
           /\ AllOf({"Gateway"}, c) \subseteq p.handled \cap p.gwInfs
           /\ AllOf({"Service"}, c) \subseteq p.handled

\* Only a Start that has waited for all of them installs the lookup.
Installed(p, c) ==
    /\ p.lookup = None <=> p.pc = "none"
    /\ p.stopFn <=> p.lookup = "informers"
    /\ p.lookup = "informers" => Needed(c) \subseteq p.synced \cap p.handled
    /\ p.pc \in {"none", "built"} => p.informers = << >>
    /\ c.auth = "none" =>
           /\ p.pc \in {"none", "built", "running", "stopped"}
           /\ p.pc # "none" => ~p.hook
           /\ p.informers = << >> /\ p.lookup # "informers"

WatchedKinds(c) ==
    {"HTTPRoute", "GRPCRoute", "Gateway", "GatewayClass", "Service", "EndpointSlice"}
        \cup Elems(policyKinds(c))
Informers(c) == WatchedKinds(c) \X (1 .. Scopes(c))

Processors(c) ==
    [pc : Starting \cup {"none", "built", "running", "failed", "stopped"},
     hook : BOOLEAN, informers : Seq(Informers(c)), handled : SUBSET Informers(c),
     running : SUBSET (Informers(c) \X {"start"}), synced : SUBSET Informers(c),
     gwInfs : SUBSET Informers(c), indexes : SUBSET {"ip", "waypoint", "name"},
     inferrer : {"unset", "wired", "nil"}, waiting : Nat, polled : BOOLEAN,
     expired : BOOLEAN, lookup : {None, "static", "informers"}, stopFn : BOOLEAN]

ProcessorInv(p, c, done) ==
    /\ p \in Processors(c) /\ p.waiting <= Len(p.informers) + 1
    /\ Created(p, c) /\ Alive(p, done) /\ Wired(p, c) /\ Installed(p, c)

LifecycleInv ==
    /\ cfg \in Configs /\ denied \in DeniedSets
    /\ host \in {"load", "up", "down", "refused"}
    /\ ctxDone \in BOOLEAN
    /\ DOMAIN proc = Signals
    /\ \A s \in Signals : ProcessorInv(proc[s], cfg, ctxDone)
    /\ AcceptedConfigBuilds

\* docs/architecture.md:106-109: Start always returns, with one timeout for all
\* informers, even if some never sync.
StartReturns ==
    \A s \in Signals : proc[s].pc \in Starting ~> proc[s].pc \in {"running", "failed"}

\* Whatever was started, also by a Start that failed half-way and although
\* Shutdown stops nothing, ends with the context.
NothingOutlivesTheContext ==
    ctxDone ~> \A s \in Signals : proc[s].running = {}

\* docs/architecture.md:143-146: "Missing list/watch on any of the four resource
\* kinds causes the corresponding informer to error; [...] the affected enrichment
\* path [...] returns empty": the others serve, and Start does not fail.
PartialRBACDegrades ==
    \A s \in Signals :
        LET infs == Elems(proc[s].informers)
        IN  /\ denied # {} /\ ~ctxDone
            /\ proc[s].pc = "failed" /\ infs # {} /\ infs = Running(proc[s])
            => \E i \in infs : i[1] \notin denied /\ i \notin proc[s].synced

=============================================================================
