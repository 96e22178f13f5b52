----------------------------- MODULE MCLifecycle -----------------------------
(***************************************************************************)
(* The default configuration and configurations that differ from it in     *)
(* one respect, accepted and not, for two signals.                         *)
(***************************************************************************)
EXTENDS Lifecycle

Parser(name, controller, format) ==
    [name |-> name, controllers |-> <<controller>>, format |-> format]
Chain(first) == <<first, createDefaultConfig.parsers[3]>>
Policy(version, resource) == [version |-> version, resource |-> resource]

D == createDefaultConfig

\* What informers run differs.
Modes ==
    { D,
      [D EXCEPT !.auth = "none"],
      [D EXCEPT !.auth = "", !.fallback = FALSE, !.waypointClassNames = << >>,
                !.inferServiceParent = FALSE],
      [D EXCEPT !.auth = "kubeConfig", !.kubeConfigPath = "config",
                !.podIP = FALSE, !.namespaces = <<"ns1", "ns2">>],
      [D EXCEPT !.fallback = FALSE, !.waypointClassNames = << >>, !.timeout = 0,
                !.policies = <<Policy("v1", "trafficpolicies"), Policy("v1", "backendpolicies")>>],
      [D EXCEPT !.inferServiceParent = FALSE, !.policies = <<Policy("v1", "trafficpolicies")>>] }

\* What is accepted differs.
Questionable ==
    { [D EXCEPT !.auth = "token"], [D EXCEPT !.auth = "kubeConfig"],
      [D EXCEPT !.parsers = << >>],
      [D EXCEPT !.parsers = <<D.parsers[3], D.parsers[1]>>],
      [D EXCEPT !.parsers = Chain(Parser("envoy", "named", "invalid"))],
      [D EXCEPT !.parsers = Chain(Parser("envoy", "named", "unnamed"))],
      [D EXCEPT !.parsers = Chain(Parser("envoy", "invalid", "named"))],
      [D EXCEPT !.parsers = Chain(Parser("nginx", "named", ""))],
      [D EXCEPT !.parsers = Chain(Parser("linkerd", "named", "invalid"))],
      [D EXCEPT !.resync = -1], [D EXCEPT !.timeout = -1],
      [D EXCEPT !.policies = <<Policy("", "trafficpolicies")>>],
      [D EXCEPT !.waypointClassNames = <<"blank">>] }

MCConfigs == Modes \cup Questionable
OnlyDefault == {D}

TwoPipelines == <<"traces", "metrics">>
OnePipeline == <<"traces">>

AllListable == {{}}
NoGRPC == {{"GRPCRoute"}}

=============================================================================
