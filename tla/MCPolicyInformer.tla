--------------------------- MODULE MCPolicyInformer ---------------------------
(***************************************************************************)
(* Policies that target the HTTPRoute and the GRPCRoute of one name, with  *)
(* every way a status can (not) accept them, watched once or twice.        *)
(***************************************************************************)
EXTENDS PolicyInformer, TLC

Ref(group, kind, ns, name) ==
    [group |-> group, kind |-> kind, ns |-> ns, name |-> name]

HTTPRef == Ref("gateway.networking.k8s.io", "HTTPRoute", "", "r")
GRPCRef == Ref("gateway.networking.k8s.io", "GRPCRoute", "ns", "r")
Foreign == Ref("gateway.networking.k8s.io", "Gateway", "", "r")
OtherGroup == Ref("example.com", "HTTPRoute", "", "r")

AcceptedByAncestor ==
    [conditions |-> {}, ancestors |-> {{<<"Accepted", "True">>}, {}}]
Rejected ==
    [conditions |-> {<<"Accepted", "False">>, <<"ResolvedRefs", "True">>},
     ancestors |-> {{<<"Accepted", "False">>}}]

Policy(refs, ref, status) ==
    [ns |-> "ns", targetRefs |-> refs, targetRef |-> ref, status |-> status]

MCNames == {<<"ns", "r">>}

\* Accepted without a status for one route, accepted by an ancestor for both,
\* and rejected.
MCRevisions ==
    { Policy({HTTPRef, Foreign, OtherGroup}, None, None),
      Policy({HTTPRef, GRPCRef}, None, AcceptedByAncestor),
      Policy(None, GRPCRef, Rejected) }

\* Every watch follows the one policy, as when a namespace or a version of a
\* policy resource is configured twice.
WatchesOfOne == [w \in Watches |-> CHOOSE p \in Policies : TRUE]

Symmetry == Permutations(Watches)

=============================================================================
