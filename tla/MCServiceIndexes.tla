--------------------------- MODULE MCServiceIndexes ---------------------------
(***************************************************************************)
(* Two Services, watched by informers of their own namespaces, over two    *)
(* IPs, one of which has two spellings.                                    *)
(***************************************************************************)
EXTENDS ServiceIndexes

MCRawIPs == {"10.0.0.1", "2001:db8::1", "2001:0db8::0001", "None"}
MCIPs == {"10.0.0.1", "2001:db8::1"}
MCcanonicalIP ==
    [raw \in MCRawIPs |->
        CASE raw = "10.0.0.1" -> "10.0.0.1"
          [] raw \in {"2001:db8::1", "2001:0db8::0001"} -> "2001:db8::1"
          [] raw = "None" -> None]

Service(ips, wp, wpns) ==
    [clusterIPs |-> ips, useWaypoint |-> wp, useWaypointNS |-> wpns]

a == <<"ns1", "a">>
b == <<"ns2", "b">>
Two == {a, b}

\* One Service turns headless and opts out of its waypoint and back; the
\* other one contends for one of its IPs, which it spells differently.
MCrevisionsOf ==
    [s \in Two |->
        IF s = a THEN { Service({"10.0.0.1", "2001:0db8::0001"}, "wp", ""),
                        Service({"None"}, "none", "wpns") }
        ELSE {Service({"2001:db8::1"}, "wp", "wpns")}]

MCserviceOf == [w \in Watches |-> w]

=============================================================================
