----------------------------- MODULE MCPodIPIndex -----------------------------
(***************************************************************************)
(* Two EndpointSlices in two namespaces that can carry one Pod IP.         *)
(***************************************************************************)
EXTENDS PodIPIndex

MCRawIPs == {"2001:db8::1", "2001:0db8::0001", "2001:db8::2", "bad"}
MCIPs == {"2001:db8::1", "2001:db8::2"}
MCcanonicalIP ==
    [raw \in MCRawIPs |->
        CASE raw \in {"2001:db8::1", "2001:0db8::0001"} -> "2001:db8::1"
          [] raw = "2001:db8::2" -> "2001:db8::2"
          [] raw = "bad" -> None]

Endpoint(ready, raw) == [ready |-> ready, addresses |-> {raw}]
Slice(endpoints, label, ownerService) ==
    [addressType |-> "IPv6", endpoints |-> endpoints,
     label |-> label, ownerService |-> ownerService]

\* Two Services, one by label and one by owner reference, and none.  The second
\* IP is only ever on an endpoint that is not ready.
MCRevisions ==
    { Slice({Endpoint("unset", "2001:db8::1"), Endpoint("false", "2001:db8::2")}, "svc", ""),
      Slice({Endpoint("true", "2001:0db8::0001"), Endpoint("true", "bad")}, "", "other"),
      Slice({Endpoint("true", "2001:db8::1")}, "", "") }

a == <<"ns1", "a">>
b == <<"ns2", "b">>
Two == {a, b}
MCsliceOf == [w \in Watches |-> w]

=============================================================================
