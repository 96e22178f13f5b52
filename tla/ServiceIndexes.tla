---------------------------- MODULE ServiceIndexes ----------------------------
(***************************************************************************)
(* The core/v1 Service informer and the three indexes it feeds             *)
(* (service_informer.go): ClusterIP -> Service for the IP fallback, the    *)
(* use-waypoint labels, and the names that exist.  Each index has a lock   *)
(* of its own, so a handler is three atomic steps.                         *)
(*                                                                         *)
(* serviceIPIndex.m and .owner hold the same Service for an IP, once split *)
(* into namespace and name and once as a key, and are written together:    *)
(* they are one variable here.                                             *)
(***************************************************************************)
EXTENDS Naturals, Sequences, FiniteSets

CONSTANTS
    Watches,
    Services,       \* <<namespace, name>> pairs
    serviceOf,
    revisionsOf,    \* what each Service can look like
    Absent, MaxPending,
    RawIPs,         \* IP literals as written in a Service or a span
    IPs,            \* canonical IPs
    canonicalIP,    \* net.ParseIP(raw).String(), or None if unparseable
    Waypoints,      \* the waypoints the labels name
    Enabled,        \* which of "ip", "waypoint", "name" are built
    None

ASSUME ServiceAssumption ==
    /\ serviceOf \in [Watches -> Services]
    /\ DOMAIN revisionsOf = Services
    /\ \A s \in Services : Absent \notin revisionsOf[s]
    /\ MaxPending \in Nat \ {0, 1}
    /\ canonicalIP \in [RawIPs -> IPs \cup {None}]
    /\ None \notin Services /\ None \notin IPs
    /\ Enabled \subseteq {"ip", "waypoint", "name"}
    /\ \A s \in Services : \A rev \in revisionsOf[s] :
           rev.useWaypoint \in Waypoints \cup {"", "none"}

VARIABLES api, store, pending,  \* the informer, see SharedInformer
          todo,                 \* watch -> indexes its handler has left to write
          current,              \* watch -> the revision its handler works on
          owner,                \* serviceIPIndex: IP -> Service
          waypoint,             \* waypointIndex: Service -> waypoint
          names                 \* serviceNameIndex

vars == <<api, store, pending, todo, current, owner, waypoint, names>>

I == INSTANCE SharedInformer WITH
         Objects <- Services,
         objectOf <- serviceOf,
         Revisions <- UNION {revisionsOf[s] : s \in Services}

-----------------------------------------------------------------------------
(* What a Service object says *)

\* ClusterIP and ClusterIPs, without the unparseable and the headless "None".
serviceIPSet(rev) == {canonicalIP[raw] : raw \in rev.clusterIPs} \ {None}

AnnouncedIPs(rev) == IF rev = Absent THEN {} ELSE serviceIPSet(rev)

\* Mutant: the opt-out value "none" is taken for a waypoint.
MutWaypointOfNone(svc, rev) ==
    IF rev = Absent \/ rev.useWaypoint = "" THEN None
    ELSE [name |-> rev.useWaypoint,
          ns |-> IF rev.useWaypointNS = "" THEN svc[1] ELSE rev.useWaypointNS]

\* The waypoint its labels select: no label and "none" select nothing, and
\* the waypoint lives in the Service's namespace unless a label says where.
waypointOf(svc, rev) ==
    IF rev = Absent \/ rev.useWaypoint \in {"", "none"} THEN None
    ELSE [name |-> rev.useWaypoint,
          ns |-> IF rev.useWaypointNS = "" THEN svc[1] ELSE rev.useWaypointNS]

-----------------------------------------------------------------------------
(* The index operations *)

\* Mutant: withdrawn IPs keep their claim.
MutUpsertKeepsStale(svc, rev) ==
    owner' = [ip \in IPs |->
        IF ip \in serviceIPSet(rev)
        THEN IF owner[ip] \in {None, svc} THEN svc ELSE None
        ELSE owner[ip]]

\* Withdraw what is no longer announced, claim what is; a second claimant
\* drops the entry.
upsertService(svc, rev) ==
    owner' = [ip \in IPs |->
        IF ip \in serviceIPSet(rev)
        THEN IF owner[ip] \in {None, svc} THEN svc ELSE None
        ELSE IF owner[ip] = svc THEN None ELSE owner[ip]]

deleteService(svc) ==
    owner' = [ip \in IPs |-> IF owner[ip] = svc THEN None ELSE owner[ip]]

LookupServiceByIP(raw) ==
    IF canonicalIP[raw] = None THEN None ELSE owner[canonicalIP[raw]]

LookupWaypointForService(svc) == waypoint[svc]

Exists(svc) == svc \in names

-----------------------------------------------------------------------------
Init ==
    /\ I!Init
    /\ \A s \in Services : api[s] \in revisionsOf[s] \cup {Absent}
    /\ \A s, t \in Services : s # t =>
           AnnouncedIPs(api[s]) \cap AnnouncedIPs(api[t]) = {}
    /\ todo = [w \in Watches |-> << >>]
    /\ current = [w \in Watches |-> Absent]
    /\ owner = [ip \in IPs |-> None]
    /\ waypoint = [s \in Services |-> None]
    /\ names = {}

\* The API server hands a ClusterIP to one Service at a time, but an IP may
\* move from one Service to another.
UserWrites ==
    /\ \E s \in Services : \E rev \in revisionsOf[s] \cup {Absent} :
           /\ I!Write(s, rev)
           /\ \A t \in Services \ {s} :
                  AnnouncedIPs(rev) \cap AnnouncedIPs(api[t]) = {}
    /\ UNCHANGED <<todo, current, owner, waypoint, names>>

Observe(w) == I!Observe(w) /\ UNCHANGED <<todo, current, owner, waypoint, names>>
Resync(w) == I!Resync(w) /\ UNCHANGED <<todo, current, owner, waypoint, names>>

\* The indexes that are built, in the order a handler writes them.
IndexOrder ==
    LET Built(index) == IF index \in Enabled THEN <<index>> ELSE << >>
    IN  Built("ip") \o Built("waypoint") \o Built("name")

\* Mutant: no tombstone path.
MutHandleNoTombstone(w) ==
    LET n == Head(pending[w])
    IN  /\ todo[w] = << >>
        /\ I!Take(w)
        /\ IF n.type = "tombstone" THEN UNCHANGED <<todo, current>>
           ELSE /\ todo' = [todo EXCEPT ![w] = IndexOrder]
                /\ current' = [current EXCEPT ![w] = n.new]
        /\ UNCHANGED <<owner, waypoint, names>>

\* Mutant: an update that changes nothing is skipped.
MutHandleSkipsResync(w) ==
    LET n == Head(pending[w])
    IN  /\ todo[w] = << >>
        /\ I!Take(w)
        /\ IF n.old = n.new THEN UNCHANGED <<todo, current>>
           ELSE /\ todo' = [todo EXCEPT ![w] = IndexOrder]
                /\ current' = [current EXCEPT ![w] = n.new]
        /\ UNCHANGED <<owner, waypoint, names>>

\* AddFunc, UpdateFunc or DeleteFunc starts; a tombstone is a delete.
registerServiceHandlers(w) ==
    /\ todo[w] = << >>
    /\ I!Take(w)
    /\ todo' = [todo EXCEPT ![w] = IndexOrder]
    /\ current' = [current EXCEPT ![w] = Head(pending[w]).new]
    /\ UNCHANGED <<owner, waypoint, names>>

\* The handler of w writes the next index on its list.
NextIndex(w, index) ==
    /\ todo[w] # << >> /\ Head(todo[w]) = index
    /\ todo' = [todo EXCEPT ![w] = Tail(@)]
    /\ UNCHANGED <<api, store, pending, current>>

WriteIPs(w) ==
    /\ NextIndex(w, "ip")
    /\ IF current[w] = Absent THEN deleteService(serviceOf[w])
       ELSE upsertService(serviceOf[w], current[w])
    /\ UNCHANGED <<waypoint, names>>

\* waypointIndex.upsertService or deleteService.
WriteWaypoint(w) ==
    /\ NextIndex(w, "waypoint")
    /\ waypoint' = [waypoint EXCEPT ![serviceOf[w]] =
                        waypointOf(serviceOf[w], current[w])]
    /\ UNCHANGED <<owner, names>>

\* serviceNameIndex.upsertService or deleteService.
WriteName(w) ==
    /\ NextIndex(w, "name")
    /\ names' = IF current[w] = Absent THEN names \ {serviceOf[w]}
                ELSE names \cup {serviceOf[w]}
    /\ UNCHANGED <<owner, waypoint>>

Handler(w) ==
    registerServiceHandlers(w) \/ WriteIPs(w) \/ WriteWaypoint(w) \/ WriteName(w)

Next ==
    \/ UserWrites
    \/ \E w \in Watches : Observe(w) \/ Resync(w) \/ Handler(w)

Spec == Init /\ [][Next]_vars

\* Watches are kept up, handlers run, and every cached Service is resynced
\* again and again (the resync period is never zero).
FairSpec ==
    /\ Spec
    /\ \A w \in Watches : WF_vars(Observe(w)) /\ WF_vars(Resync(w)) /\ WF_vars(Handler(w))

-----------------------------------------------------------------------------
(* Correctness *)

\* Every variable keeps its type.
TypeOK ==
    /\ I!TypeOK
    /\ todo \in [Watches -> Seq(Enabled)]
    /\ current \in [Watches -> I!States]
    /\ owner \in [IPs -> Services \cup {None}]
    /\ names \subseteq Services
    /\ DOMAIN waypoint = Services
    /\ \A s \in Services : waypoint[s] # None =>
           waypoint[s].name \in Waypoints

\* The index reflects the revision the handler of w last took.
Written(w, index) == \A i \in 1 .. Len(todo[w]) : todo[w][i] # index

\* An IP is attributed only to a Service that announced it in the revision
\* its handler last wrote: a Service that lost the IP, or was deleted, loses
\* the entry in the same step.
ClaimIsAnnounced ==
    \A ip \in IPs : owner[ip] # None =>
        \E w \in Watches :
            /\ serviceOf[w] = owner[ip]
            /\ Written(w, "ip") => ip \in AnnouncedIPs(current[w])

Idle(w) == I!Drained(w) /\ todo[w] = << >>

\* Some informer watches s, and the handlers of s have nothing left to do.
Settled(s) ==
    /\ \E w \in Watches : serviceOf[w] = s
    /\ \A w \in Watches : serviceOf[w] = s => Idle(w)

\* When its handlers have nothing left to do, a Service is known by name if and
\* only if it exists, its waypoint is the one its labels select now, and the IPs
\* attributed to it are among those it announces now.
SettledServiceIsExact ==
    \A s \in Services : Settled(s) =>
        /\ "name" \in Enabled => (Exists(s) <=> api[s] # Absent)
        /\ "waypoint" \in Enabled =>
               LookupWaypointForService(s) = waypointOf(s, api[s])
        /\ \A ip \in IPs : owner[ip] = s => ip \in AnnouncedIPs(api[s])

\* The inductive invariant: no index has an entry before it is built, each entry
\* of a Service comes from what the handler of one of its watches last took, and
\* the queue of a watch leads from there to its store.
NoClaimIfDisabled == "ip" \notin Enabled => \A ip \in IPs : owner[ip] = None

NameIsBacked ==
    "name" \in Enabled => \A v \in Watches : \E w \in Watches :
        /\ serviceOf[w] = serviceOf[v]
        /\ Written(w, "name") => (serviceOf[w] \in names <=> current[w] # Absent)

WaypointIsBacked ==
    "waypoint" \in Enabled => \A v \in Watches : \E w \in Watches :
        /\ serviceOf[w] = serviceOf[v]
        /\ Written(w, "waypoint") =>
               waypoint[serviceOf[w]] = waypointOf(serviceOf[w], current[w])

QueuesAreLinked == \A w \in Watches : I!Linked(pending[w], current[w], store[w])

ServiceInv ==
    /\ TypeOK /\ NoClaimIfDisabled /\ ClaimIsAnnounced
    /\ NameIsBacked /\ WaypointIsBacked /\ QueuesAreLinked

\* If users stop writing, every announced ClusterIP becomes and stays
\* attributed to the Service that announces it, even if the IP moved between
\* Services and the conflict dropped the entry on the way.
AnnouncedIPResolves ==
    <>[][FALSE]_api =>
        <>[](\A w \in Watches : \A ip \in AnnouncedIPs(api[serviceOf[w]]) :
                 owner[ip] = serviceOf[w])

=============================================================================
