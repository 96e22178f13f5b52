----------------------------- MODULE MCEnrichment -----------------------------
(***************************************************************************)
(* Records of every shape, one Service, and routes of both modes.          *)
(***************************************************************************)
EXTENDS Enrichment

svc == <<"demo", "api">>
OneName == {<<"demo", "r1">>}
OneService == {svc}

Projection(mode, uid) ==
    [uid |-> uid, mode |-> mode, parentRef |-> mode, parentKind |-> mode,
     gateway |-> IF mode = "mesh" THEN None
                 ELSE [at |-> <<"demo", "gw">>, uid |-> 7, listener |-> None,
                       class |-> "ingress", controller |-> None],
     waypoint |-> None,
     service |-> IF mode = "mesh" THEN svc ELSE None,
     port |-> IF mode = "mesh" THEN 80 ELSE None,
     role |-> IF mode = "mesh" THEN "producer" ELSE None,
     ruleNames |-> <<"", "named">>, accepted |-> TRUE, resolvedRefs |-> None]
BothModes == {Projection("mesh", 1), Projection("ingress", 2)}

DefaultParsers == <<"envoy", "linkerd", "passthrough">>
Sources == <<"server.address", "", "server.address">>
Inputs == {"route_name", "route_kind", "route_namespace", "k8s.namespace.name"}
              \cup {"server.address", "http.url"}
Nothing == [key \in Inputs |-> None]

Host(labels, ip) == [labels |-> labels, ip |-> ip]
Plain(labels) == [url |-> FALSE, port |-> FALSE, host |-> Host(labels, None)]
URL(labels, port) == [url |-> TRUE, port |-> port, host |-> Host(labels, None)]
IPLiteral == [url |-> FALSE, port |-> TRUE, host |-> Host(<<"10", "0", "0", "1">>, "10.0.0.1")]

EnvoyName(rule) == [route |-> <<"demo", "r1">>, rule |-> rule, match |-> 0,
                    text |-> "httproute/demo/r1"]
LinkerdName == [route |-> None, rule |-> -1, match |-> -1, text |-> "r1"]

Fresh == [key \in Keys |-> None]
WithUID == [Fresh EXCEPT ![<<"HTTPRoute", "uid">>] = 0]

Record(signal, record, attrs) ==
    [signal |-> signal, record |-> record, attrs |-> attrs,
     resource |-> [Nothing EXCEPT !["k8s.namespace.name"] = "demo"]]

EnvoyIn(rule) == [Nothing EXCEPT !["route_name"] = EnvoyName(rule)]
LinkerdIn == [Nothing EXCEPT !["route_name"] = LinkerdName, !["route_kind"] = "grpcroute",
                             !["route_namespace"] = "demo"]
OpaqueIn == [Nothing EXCEPT !["route_name"] = LinkerdName]
\* An empty route_name that hides the one of the resource.
Hidden(record) ==
    [record EXCEPT !.record["route_name"] = Empty, !.resource["route_name"] = EnvoyName(1)]
\* Two addresses: the first one must be walked past.
TwoAddresses(first, second) ==
    [Nothing EXCEPT !["server.address"] = first, !["http.url"] = second]

AllRecords ==
    { Record("metrics", EnvoyIn(1), WithUID), Record("traces", EnvoyIn(2), Fresh),
      Record("traces", LinkerdIn, Fresh), Record("logs", EnvoyIn(1), WithUID),
      Record("metrics", OpaqueIn, Fresh),
      Record("metrics", TwoAddresses(IPLiteral, URL(<<"api">>, TRUE)), WithUID),
      Record("traces", TwoAddresses(URL(<<"api", "demo">>, FALSE), Plain(<<"api">>)), Fresh),
      [Record("traces", TwoAddresses(Plain(<<"x", "">>), URL(<<"api", "demo", "svc">>, TRUE)), Fresh)
          EXCEPT !.record["k8s.namespace.name"] = "other"],
      Record("traces", TwoAddresses(URL(<<"api">>, TRUE), None), Fresh),
      Hidden(Record("metrics", Nothing, WithUID)) }

Excluded == {<<"HTTPRoute", "uid">>, <<"GRPCRoute", "uid">>, <<"common", "gatewayUID">>,
             <<"common", "raw">>, <<"common", "port">>,
             <<"HTTPRoute", "ruleName">>, <<"GRPCRoute", "ruleName">>}
=============================================================================
