-------------------------- MODULE MCRouteProjection --------------------------
(***************************************************************************)
(* A route, a Gateway and a Service of one name (the nil-Kind trap), and a *)
(* GatewayClass for the other run.                                         *)
(***************************************************************************)
EXTENDS RouteProjection

gw == <<"Gateway", "ns", "x">>
svc == <<"Service", "ns", "x">>
http == <<"HTTPRoute", "ns", "r">>
grpc == <<"GRPCRoute", "ns", "r">>
waypoint == <<"GatewayClass", "", "istio-waypoint">>

Parent(kind, ns) == [group |-> None, kind |-> kind, ns |-> ns, name |-> "x",
                     port |-> 80, section |-> "web"]
BackendRef(group, kind) == [group |-> group, kind |-> kind, ns |-> "", name |-> "x"]
Condition(type, status) == [type |-> type, status |-> status]

\* A parentRef without a kind, one that says Gateway, and no parent at all.
NilKind == [uid |-> 1, parentRefs |-> <<Parent("", "")>>,
            backendRefs |-> {}, rules |-> <<"", "named">>, conditions |-> << >>]
ExplicitGateway ==
    [uid |-> 2, parentRefs |-> <<Parent("Gateway", "ns"), Parent("Service", "")>>,
     backendRefs |-> {BackendRef("example.com", None)}, rules |-> <<"">>,
     conditions |-> <<Condition("Accepted", "True"), Condition("Accepted", "False")>>]
ExplicitService ==
    [uid |-> 3, parentRefs |-> <<Parent("Service", "other")>>,
     backendRefs |-> {BackendRef("", "")}, rules |-> << >>,
     conditions |-> <<Condition("ResolvedRefs", "True")>>]
\* A "Service" of another API group, which may share its name with a Gateway.
ForeignService ==
    [uid |-> 5, parentRefs |-> <<[Parent("Service", "") EXCEPT !.group = "example.com"]>>,
     backendRefs |-> {}, rules |-> << >>, conditions |-> << >>]
Orphan == [uid |-> 4, parentRefs |-> << >>, backendRefs |-> {BackendRef(None, "Service")},
           rules |-> << >>, conditions |-> << >>]

Waypoint == [uid |-> 1, class |-> "istio-waypoint"]
Ingress == [uid |-> 2, class |-> "ingress"]
Class == [controller |-> "istio.io/mesh-controller"]
AService == [kind |-> "Service"]

MCwaypointImpl == [c \in {"istio-waypoint"} |-> "istio-ambient"]

RevisionsOf(o, routeRevs, gatewayRevs) ==
    CASE o[1] = "Gateway" -> gatewayRevs
      [] o[1] = "GatewayClass" -> {Class}
      [] o[1] = "Service" -> {AService}
      [] OTHER -> routeRevs

\* The nil-Kind trap.
TrapObjects == {gw, svc, http}
TrapRevisions ==
    [o \in TrapObjects |->
        RevisionsOf(o, {NilKind, ExplicitGateway, ForeignService}, {Waypoint})]
TrapAndService == {gw, svc}

\* A route that changes its parent and its backends, a GatewayClass and a
\* Gateway of that class or another; the Service is only referenced.
ClassObjects == {gw, waypoint, svc, grpc}
ClassRevisions ==
    [o \in ClassObjects |-> IF o = svc THEN {}
        ELSE RevisionsOf(o, {ExplicitGateway, ExplicitService, Orphan}, {Waypoint, Ingress})]
OnlyRoute == {grpc}

=============================================================================
