------------------------- MODULE ServiceIndexesProofs -------------------------
(***************************************************************************)
(* Theorems about ServiceIndexes, for any Services, watches and IPs, any   *)
(* choice of indexes, and several watches of one Service included.         *)
(***************************************************************************)
EXTENDS ServiceIndexes, TLAPS

IP == INSTANCE SharedInformerProofs WITH
          Objects <- Services,
          objectOf <- serviceOf,
          Revisions <- UNION {revisionsOf[s] : s \in Services}

\* The lemmas on client-go's queues, for the watches of Services: what Observe
\* and Resync leave alone is what the handler has been given.
LEMMA InformerKeepsQueues ==
    ASSUME ServiceInv, NEW w \in Watches, I!Observe(w) \/ I!Resync(w),
           current' = current
    PROVE  I!TypeOK' /\ QueuesAreLinked'
<1> USE ServiceAssumption
<1>1. /\ IP!TypeOK /\ IP!Linked(pending[w], current[w], store[w])
      /\ IP!Observe(w) \/ IP!Resync(w)
  BY DEF ServiceInv, QueuesAreLinked, TypeOK, I!TypeOK, IP!TypeOK, I!Linked, IP!Linked,
         I!WellFormed, IP!WellFormed, I!Observe, IP!Observe, I!Resync, IP!Resync,
         I!Notify, IP!Notify, I!Notifications, IP!Notifications, I!States, IP!States
<1>2. /\ IP!TypeOK' /\ IP!Linked(pending'[w], current[w], store'[w])
      /\ \A v \in Watches \ {w} : pending'[v] = pending[v] /\ store'[v] = store[v]
  BY <1>1, IP!ObserveKeepsType, IP!ResyncKeepsType, IP!ObserveKeepsLinked,
     IP!ResyncKeepsLinked
<1>3. I!TypeOK' /\ I!Linked(pending'[w], current[w], store'[w])
  BY <1>2 DEF I!TypeOK, IP!TypeOK, I!Linked, IP!Linked,
         I!WellFormed, IP!WellFormed, I!Notifications, IP!Notifications, I!States, IP!States
<1> QED  BY <1>2, <1>3 DEF ServiceInv, QueuesAreLinked

\* The same for a handler that takes a notification: its queue now leads on from
\* what it took.
LEMMA TakeKeepsQueues ==
    ASSUME ServiceInv, NEW w \in Watches, I!Take(w),
           current' = [current EXCEPT ![w] = Head(pending[w]).new]
    PROVE  /\ I!TypeOK' /\ QueuesAreLinked'
           /\ current' \in [Watches -> I!States]
<1>1. /\ IP!TypeOK /\ IP!Linked(pending[w], current[w], store[w]) /\ IP!Take(w)
      /\ current \in [Watches -> I!States]
  BY DEF ServiceInv, QueuesAreLinked, TypeOK, I!TypeOK, IP!TypeOK, I!Linked, IP!Linked,
         I!WellFormed, IP!WellFormed, I!Take, IP!Take,
         I!Notifications, IP!Notifications, I!States, IP!States
<1>2. /\ IP!TypeOK' /\ IP!Linked(pending'[w], Head(pending[w]).new, store'[w])
      /\ \A v \in Watches \ {w} : pending'[v] = pending[v]
      /\ store' = store
      /\ Head(pending[w]) \in IP!Notifications
  BY <1>1, IP!TakeKeepsType, IP!TakeKeepsLinked
<1>3. I!TypeOK' /\ I!Linked(pending'[w], Head(pending[w]).new, store'[w])
  BY <1>2 DEF I!TypeOK, IP!TypeOK, I!Linked, IP!Linked,
         I!WellFormed, IP!WellFormed, I!Notifications, IP!Notifications, I!States, IP!States
<1>4. Head(pending[w]).new \in I!States
  BY <1>2 DEF IP!Notifications, IP!States, I!States
<1>5. QueuesAreLinked'
  <2>1. ASSUME NEW v \in Watches PROVE I!Linked(pending'[v], current'[v], store'[v])
    BY <1>1, <1>2, <1>3 DEF ServiceInv, QueuesAreLinked
  <2> QED  BY <2>1 DEF QueuesAreLinked
<1> QED  BY <1>1, <1>3, <1>4, <1>5

\* What is in one of two sequences is in their concatenation.
LEMMA ConcatHas ==
    ASSUME NEW S, NEW q \in Seq(S), NEW r \in Seq(S), NEW x
    PROVE  /\ q \o r \in Seq(S)
           /\ (\E i \in 1 .. Len(q) : q[i] = x) \/ (\E i \in 1 .. Len(r) : r[i] = x)
                => \E i \in 1 .. Len(q \o r) : (q \o r)[i] = x
<1>1. /\ q \o r \in Seq(S) /\ Len(q) \in Nat /\ Len(r) \in Nat
      /\ Len(q \o r) = Len(q) + Len(r)
      /\ \A i \in 1 .. Len(q) : (q \o r)[i] = q[i]
      /\ \A i \in 1 .. Len(r) : (q \o r)[Len(q) + i] = r[i]
  OBVIOUS
<1>2. \A i \in 1 .. Len(q) : i \in 1 .. Len(q \o r)
  BY <1>1
<1>3. \A i \in 1 .. Len(r) : Len(q) + i \in 1 .. Len(q \o r)
  BY <1>1
<1> QED  BY <1>1, <1>2, <1>3

\* A handler has every index that is built on its list, and no other.
LEMMA IndexOrderFacts ==
    /\ IndexOrder \in Seq(Enabled)
    /\ \A index \in Enabled : \E i \in 1 .. Len(IndexOrder) : IndexOrder[i] = index
<1> DEFINE Built(index) == IF index \in Enabled THEN <<index>> ELSE << >>
           Has(q, index) == \E i \in 1 .. Len(q) : q[i] = index
<1>1. \A index : Built(index) \in Seq(Enabled)
  OBVIOUS
<1>2. ASSUME NEW index \in Enabled PROVE Has(Built(index), index)
  <2>1. Built(index) = <<index>> /\ Len(<<index>>) = 1 /\ <<index>>[1] = index
    OBVIOUS
  <2> QED  BY <2>1
<1>3. IndexOrder = (Built("ip") \o Built("waypoint")) \o Built("name")
  BY DEF IndexOrder
<1> HIDE DEF Built
<1>4. Built("ip") \o Built("waypoint") \in Seq(Enabled)
  BY <1>1, ConcatHas
<1>5. IndexOrder \in Seq(Enabled)
  BY <1>1, <1>3, <1>4, ConcatHas
<1>6. ASSUME NEW q \in Seq(Enabled), NEW r \in Seq(Enabled), NEW x
      PROVE  Has(q, x) \/ Has(r, x) => Has(q \o r, x)
  BY ConcatHas
<1> HIDE DEF Has
<1>7. ASSUME NEW index \in Enabled PROVE Has(IndexOrder, index)
  <2>1. index \in {"ip", "waypoint", "name"}
    BY ServiceAssumption
  <2>2. CASE index = "name"
    BY <1>1, <1>2, <1>3, <1>4, <1>6, <2>2, Zenon
  <2>3. CASE index = "ip" \/ index = "waypoint"
    <3>1. Has(Built("ip") \o Built("waypoint"), index)
      BY <1>1, <1>2, <1>6, <2>3, Zenon
    <3> QED  BY <1>1, <1>3, <1>4, <1>6, <3>1, Zenon
  <2> QED  BY <2>1, <2>2, <2>3
<1> QED  BY <1>5, <1>7 DEF Has

\* A handler that starts preserves the inductive invariant: what its indexes say
\* is not written any more.
LEMMA RegisterKeepsInv ==
    ASSUME ServiceInv, NEW w \in Watches, registerServiceHandlers(w)
    PROVE  ServiceInv'
<1>1. /\ I!Take(w) /\ todo' = [todo EXCEPT ![w] = IndexOrder]
      /\ current' = [current EXCEPT ![w] = Head(pending[w]).new]
      /\ UNCHANGED <<owner, waypoint, names>>
  BY DEF registerServiceHandlers
<1>2. I!TypeOK' /\ QueuesAreLinked' /\ current' \in [Watches -> I!States]
  BY <1>1, TakeKeepsQueues
<1>3. /\ todo \in [Watches -> Seq(Enabled)] /\ todo' \in [Watches -> Seq(Enabled)]
      /\ current \in [Watches -> I!States]
      /\ \A v \in Watches \ {w} : todo'[v] = todo[v] /\ current'[v] = current[v]
      /\ todo'[w] = IndexOrder
  BY <1>1, IndexOrderFacts DEF ServiceInv, TypeOK
<1>4. TypeOK' /\ NoClaimIfDisabled'
  BY <1>1, <1>2, <1>3 DEF ServiceInv, TypeOK, NoClaimIfDisabled
<1>5. \A index \in Enabled : ~Written(w, index)'
  BY <1>3, IndexOrderFacts DEF Written
<1>6. \A v \in Watches \ {w}, index \in Enabled : Written(v, index)' <=> Written(v, index)
  BY <1>3 DEF Written
<1>7. ClaimIsAnnounced'
  <2> SUFFICES ASSUME NEW ip \in IPs, owner[ip] # None
               PROVE  \E v \in Watches :
                          /\ serviceOf[v] = owner[ip]
                          /\ Written(v, "ip")' => ip \in AnnouncedIPs(current'[v])
    BY <1>1 DEF ClaimIsAnnounced, AnnouncedIPs, serviceIPSet
  <2>1. "ip" \in Enabled
    BY DEF ServiceInv, NoClaimIfDisabled
  <2>2. PICK v \in Watches : /\ serviceOf[v] = owner[ip]
                             /\ Written(v, "ip") => ip \in AnnouncedIPs(current[v])
    BY DEF ServiceInv, ClaimIsAnnounced
  <2> QED  BY <1>3, <1>5, <1>6, <2>1, <2>2
<1>8. NameIsBacked'
  <2> SUFFICES ASSUME "name" \in Enabled, NEW u \in Watches
               PROVE  \E v \in Watches :
                          /\ serviceOf[v] = serviceOf[u]
                          /\ Written(v, "name")' => (serviceOf[v] \in names <=> current'[v] # Absent)
    BY <1>1 DEF NameIsBacked
  <2>1. PICK v \in Watches : /\ serviceOf[v] = serviceOf[u]
                             /\ Written(v, "name") => (serviceOf[v] \in names <=> current[v] # Absent)
    BY DEF ServiceInv, NameIsBacked
  <2> QED  BY <1>3, <1>5, <1>6, <2>1
<1>9. WaypointIsBacked'
  <2> SUFFICES ASSUME "waypoint" \in Enabled, NEW u \in Watches
               PROVE  \E v \in Watches :
                          /\ serviceOf[v] = serviceOf[u]
                          /\ Written(v, "waypoint")' =>
                                 waypoint[serviceOf[v]] = waypointOf(serviceOf[v], current'[v])
    BY <1>1 DEF WaypointIsBacked, waypointOf
  <2>1. PICK v \in Watches : /\ serviceOf[v] = serviceOf[u]
                             /\ Written(v, "waypoint") =>
                                    waypoint[serviceOf[v]] = waypointOf(serviceOf[v], current[v])
    BY DEF ServiceInv, WaypointIsBacked
  <2> QED  BY <1>3, <1>5, <1>6, <2>1
<1> QED  BY <1>2, <1>4, <1>7, <1>8, <1>9 DEF ServiceInv

\* Writing the next index takes it off the list and no other.
LEMMA NextIndexFacts ==
    ASSUME ServiceInv, NEW w \in Watches, NEW index, NextIndex(w, index)
    PROVE  /\ index \in Enabled
           /\ todo' \in [Watches -> Seq(Enabled)]
           /\ \A v \in Watches, x \in Enabled :
                  v # w \/ x # index => (Written(v, x)' => Written(v, x))
           /\ I!TypeOK' /\ QueuesAreLinked' /\ current' = current
<1> DEFINE q == todo[w]
<1>1. todo \in [Watches -> Seq(Enabled)]
  BY DEF ServiceInv, TypeOK
<1>2. q \in Seq(Enabled) /\ q # << >> /\ Head(q) = index
  BY <1>1 DEF NextIndex
<1>3. /\ Len(q) \in Nat \ {0} /\ Tail(q) \in Seq(Enabled) /\ q[1] = index
      /\ index \in Enabled /\ Len(Tail(q)) = Len(q) - 1
  BY <1>2
<1>4. \A i \in 1 .. (Len(q) - 1) : Tail(q)[i] = q[i + 1]
  BY <1>2, <1>3
<1>5. todo' = [todo EXCEPT ![w] = Tail(q)]
  BY DEF NextIndex
<1>6. todo' \in [Watches -> Seq(Enabled)]
  BY <1>1, <1>3, <1>5
<1>7. ASSUME NEW v \in Watches, NEW x \in Enabled, v # w, Written(v, x)'
      PROVE  Written(v, x)
  BY <1>1, <1>5, <1>7 DEF Written
<1>8. ASSUME NEW x \in Enabled, x # index, Written(w, x)'
      PROVE  Written(w, x)
  <2>1. \A i \in 1 .. (Len(q) - 1) : Tail(q)[i] # x
    BY <1>1, <1>3, <1>5, <1>8 DEF Written
  <2>2. ASSUME NEW i \in 1 .. Len(q) PROVE q[i] # x
    <3>1. CASE i = 1
      BY <1>3, <1>8, <3>1
    <3>2. CASE i # 1
      <4>1. i - 1 \in 1 .. (Len(q) - 1) /\ (i - 1) + 1 = i
        BY <1>3, <3>2
      <4> QED  BY <1>4, <2>1, <4>1
    <3> QED  BY <3>1, <3>2
  <2> QED  BY <2>2 DEF Written
<1>9. I!TypeOK' /\ QueuesAreLinked' /\ current' = current
  BY DEF NextIndex, ServiceInv, TypeOK, I!TypeOK, QueuesAreLinked
<1> QED  BY <1>3, <1>6, <1>7, <1>8, <1>9

\* serviceIPIndex.upsertService and deleteService leave a Service exactly claims on
\* IPs the revision announces, and add none to other Services.
LEMMA WriteIPsEffect ==
    ASSUME ServiceInv, NEW w \in Watches, WriteIPs(w)
    PROVE  /\ owner' \in [IPs -> Services \cup {None}]
           /\ \A ip \in IPs :
                  /\ owner'[ip] = serviceOf[w] => ip \in AnnouncedIPs(current[w])
                  /\ owner'[ip] \notin {None, serviceOf[w]} => owner'[ip] = owner[ip]
<1>1. /\ owner \in [IPs -> Services \cup {None}]
      /\ serviceOf[w] \in Services /\ serviceOf[w] # None
  BY ServiceAssumption DEF ServiceInv, TypeOK
<1>2. CASE current[w] = Absent
  BY <1>1, <1>2 DEF WriteIPs, deleteService
<1>3. CASE current[w] # Absent
  BY <1>1, <1>3 DEF WriteIPs, upsertService, AnnouncedIPs
<1> QED  BY <1>2, <1>3

\* Writing the IP index preserves the inductive invariant.
LEMMA WriteIPsKeepsInv ==
    ASSUME ServiceInv, NEW w \in Watches, WriteIPs(w)
    PROVE  ServiceInv'
<1>1. NextIndex(w, "ip") /\ waypoint' = waypoint /\ names' = names
  BY DEF WriteIPs
<1>2. /\ "ip" \in Enabled
      /\ todo' \in [Watches -> Seq(Enabled)]
      /\ \A v \in Watches, x \in Enabled :
             v # w \/ x # "ip" => (Written(v, x)' => Written(v, x))
      /\ I!TypeOK' /\ QueuesAreLinked' /\ current' = current
  BY <1>1, NextIndexFacts
<1>3. /\ owner' \in [IPs -> Services \cup {None}]
      /\ \A ip \in IPs :
             /\ owner'[ip] = serviceOf[w] => ip \in AnnouncedIPs(current[w])
             /\ owner'[ip] \notin {None, serviceOf[w]} => owner'[ip] = owner[ip]
  BY WriteIPsEffect
<1>4. TypeOK' /\ NoClaimIfDisabled'
  BY <1>1, <1>2, <1>3 DEF ServiceInv, TypeOK, NoClaimIfDisabled
<1>5. ClaimIsAnnounced'
  <2> SUFFICES ASSUME NEW ip \in IPs, owner'[ip] # None
               PROVE  \E v \in Watches :
                          /\ serviceOf[v] = owner'[ip]
                          /\ Written(v, "ip")' => ip \in AnnouncedIPs(current[v])
    BY <1>2 DEF ClaimIsAnnounced, AnnouncedIPs, serviceIPSet
  <2>1. CASE owner'[ip] = serviceOf[w]
    BY <1>3, <2>1
  <2>2. CASE owner'[ip] # serviceOf[w]
    <3>1. owner'[ip] = owner[ip]
      BY <1>3, <2>2
    <3>2. PICK v \in Watches : /\ serviceOf[v] = owner[ip]
                               /\ Written(v, "ip") => ip \in AnnouncedIPs(current[v])
      BY <3>1 DEF ServiceInv, ClaimIsAnnounced
    <3> QED  BY <1>2, <2>2, <3>1, <3>2
  <2> QED  BY <2>1, <2>2
<1>6. NameIsBacked'
  BY <1>1, <1>2 DEF ServiceInv, NameIsBacked
<1>7. WaypointIsBacked'
  BY <1>1, <1>2 DEF ServiceInv, WaypointIsBacked, waypointOf
<1> QED  BY <1>2, <1>4, <1>5, <1>6, <1>7 DEF ServiceInv

\* Writing the waypoint index preserves the inductive invariant.
LEMMA WriteWaypointKeepsInv ==
    ASSUME ServiceInv, NEW w \in Watches, WriteWaypoint(w)
    PROVE  ServiceInv'
<1> DEFINE wp == waypointOf(serviceOf[w], current[w])
<1>1. /\ NextIndex(w, "waypoint") /\ owner' = owner /\ names' = names
      /\ waypoint' = [waypoint EXCEPT ![serviceOf[w]] = wp]
  BY DEF WriteWaypoint
<1>2. /\ "waypoint" \in Enabled
      /\ todo' \in [Watches -> Seq(Enabled)]
      /\ \A v \in Watches, x \in Enabled :
             v # w \/ x # "waypoint" => (Written(v, x)' => Written(v, x))
      /\ I!TypeOK' /\ QueuesAreLinked' /\ current' = current
  BY <1>1, NextIndexFacts
<1>3. wp # None => wp.name \in Waypoints
  <2>1. current[w] \in I!States
    BY DEF ServiceInv, TypeOK
  <2>2. CASE current[w] = Absent
    BY <2>2 DEF waypointOf
  <2>3. CASE current[w] # Absent
    <3>1. PICK s \in Services : current[w] \in revisionsOf[s]
      BY <2>1, <2>3 DEF I!States
    <3>2. current[w].useWaypoint \in Waypoints \cup {"", "none"}
      BY <3>1, ServiceAssumption
    <3> QED  BY <2>3, <3>2 DEF waypointOf
  <2> QED  BY <2>2, <2>3
<1>4. serviceOf[w] \in Services /\ DOMAIN waypoint = Services
  BY ServiceAssumption DEF ServiceInv, TypeOK
<1> HIDE DEF wp
<1>5. /\ DOMAIN waypoint' = Services
      /\ waypoint'[serviceOf[w]] = wp
      /\ \A s \in Services \ {serviceOf[w]} : waypoint'[s] = waypoint[s]
  BY <1>1, <1>4
<1>6. TypeOK' /\ NoClaimIfDisabled'
  BY <1>1, <1>2, <1>3, <1>5 DEF ServiceInv, TypeOK, NoClaimIfDisabled
<1>7. ClaimIsAnnounced'
  <2> SUFFICES ASSUME NEW ip \in IPs, owner[ip] # None
               PROVE  \E v \in Watches :
                          /\ serviceOf[v] = owner[ip]
                          /\ Written(v, "ip")' => ip \in AnnouncedIPs(current[v])
    BY <1>1, <1>2 DEF ClaimIsAnnounced, AnnouncedIPs, serviceIPSet
  <2>1. "ip" \in Enabled
    BY DEF ServiceInv, NoClaimIfDisabled
  <2> QED  BY <1>2, <2>1 DEF ServiceInv, ClaimIsAnnounced
<1>8. NameIsBacked'
  BY <1>1, <1>2 DEF ServiceInv, NameIsBacked
<1>9. WaypointIsBacked'
  <2> SUFFICES ASSUME NEW u \in Watches
               PROVE  \E v \in Watches :
                          /\ serviceOf[v] = serviceOf[u]
                          /\ Written(v, "waypoint")' =>
                                 waypoint'[serviceOf[v]] = waypointOf(serviceOf[v], current[v])
    BY <1>2 DEF WaypointIsBacked, waypointOf
  <2>1. CASE serviceOf[u] = serviceOf[w]
    BY <1>5, <2>1 DEF wp
  <2>2. CASE serviceOf[u] # serviceOf[w]
    <3>1. PICK v \in Watches : /\ serviceOf[v] = serviceOf[u]
                               /\ Written(v, "waypoint") =>
                                      waypoint[serviceOf[v]] = waypointOf(serviceOf[v], current[v])
      BY <1>2 DEF ServiceInv, WaypointIsBacked
    <3>2. serviceOf[v] \in Services
      BY ServiceAssumption
    <3> QED  BY <1>2, <1>5, <2>2, <3>1, <3>2
  <2> QED  BY <2>1, <2>2
<1> QED  BY <1>2, <1>6, <1>7, <1>8, <1>9 DEF ServiceInv

\* Writing the name index preserves the inductive invariant.
LEMMA WriteNameKeepsInv ==
    ASSUME ServiceInv, NEW w \in Watches, WriteName(w)
    PROVE  ServiceInv'
<1>1. /\ NextIndex(w, "name") /\ owner' = owner /\ waypoint' = waypoint
      /\ names' = IF current[w] = Absent THEN names \ {serviceOf[w]}
                  ELSE names \cup {serviceOf[w]}
  BY DEF WriteName
<1>2. /\ "name" \in Enabled
      /\ todo' \in [Watches -> Seq(Enabled)]
      /\ \A v \in Watches, x \in Enabled :
             v # w \/ x # "name" => (Written(v, x)' => Written(v, x))
      /\ I!TypeOK' /\ QueuesAreLinked' /\ current' = current
  BY <1>1, NextIndexFacts
<1>3. serviceOf[w] \in Services
  BY ServiceAssumption
<1>4. TypeOK' /\ NoClaimIfDisabled'
  BY <1>1, <1>2, <1>3 DEF ServiceInv, TypeOK, NoClaimIfDisabled
<1>5. ClaimIsAnnounced'
  <2> SUFFICES ASSUME NEW ip \in IPs, owner[ip] # None
               PROVE  \E v \in Watches :
                          /\ serviceOf[v] = owner[ip]
                          /\ Written(v, "ip")' => ip \in AnnouncedIPs(current[v])
    BY <1>1, <1>2 DEF ClaimIsAnnounced, AnnouncedIPs, serviceIPSet
  <2>1. "ip" \in Enabled
    BY DEF ServiceInv, NoClaimIfDisabled
  <2> QED  BY <1>2, <2>1 DEF ServiceInv, ClaimIsAnnounced
<1>6. NameIsBacked'
  <2> SUFFICES ASSUME NEW u \in Watches
               PROVE  \E v \in Watches :
                          /\ serviceOf[v] = serviceOf[u]
                          /\ Written(v, "name")' => (serviceOf[v] \in names' <=> current[v] # Absent)
    BY <1>2 DEF NameIsBacked
  <2>1. CASE serviceOf[u] = serviceOf[w]
    BY <1>1, <2>1
  <2>2. CASE serviceOf[u] # serviceOf[w]
    <3>1. PICK v \in Watches : /\ serviceOf[v] = serviceOf[u]
                               /\ Written(v, "name") => (serviceOf[v] \in names <=> current[v] # Absent)
      BY <1>2 DEF ServiceInv, NameIsBacked
    <3> QED  BY <1>1, <1>2, <2>2, <3>1
  <2> QED  BY <2>1, <2>2
<1>7. WaypointIsBacked'
  BY <1>1, <1>2 DEF ServiceInv, WaypointIsBacked, waypointOf
<1> QED  BY <1>2, <1>4, <1>5, <1>6, <1>7 DEF ServiceInv

\* A step that leaves the handlers and their indexes alone preserves what the
\* invariant says about them.
LEMMA IndexesUnchanged ==
    ASSUME ServiceInv, UNCHANGED <<todo, current, owner, waypoint, names>>,
           I!TypeOK', QueuesAreLinked'
    PROVE  ServiceInv'
<1>1. TypeOK' /\ NoClaimIfDisabled'
  BY DEF ServiceInv, TypeOK, NoClaimIfDisabled
<1>2. \A v \in Watches, x \in {"ip", "waypoint", "name"} : Written(v, x)' <=> Written(v, x)
  BY DEF Written
<1>3. ClaimIsAnnounced'
  BY <1>2 DEF ServiceInv, ClaimIsAnnounced, AnnouncedIPs, serviceIPSet
<1>4. NameIsBacked'
  BY <1>2 DEF ServiceInv, NameIsBacked
<1>5. WaypointIsBacked'
  BY <1>2 DEF ServiceInv, WaypointIsBacked, waypointOf
<1> QED  BY <1>1, <1>3, <1>4, <1>5 DEF ServiceInv

\* ServiceInv is an invariant: each index of a Service reflects what one of its
\* handlers last took, however the three writes of different handlers interleave.
THEOREM ServiceInvariant == Spec => []ServiceInv
<1>1. Init => ServiceInv
  <2> SUFFICES ASSUME Init PROVE ServiceInv
    OBVIOUS
  <2>1. TypeOK
    BY DEF Init, TypeOK, I!Init, I!TypeOK, I!States
  <2>2. NoClaimIfDisabled /\ ClaimIsAnnounced
    BY DEF Init, NoClaimIfDisabled, ClaimIsAnnounced
  <2>3. NameIsBacked
    BY DEF Init, NameIsBacked
  <2>4. WaypointIsBacked
    BY ServiceAssumption DEF Init, WaypointIsBacked, waypointOf
  <2>5. QueuesAreLinked
    BY DEF Init, I!Init, QueuesAreLinked, I!Linked
  <2> QED  BY <2>1, <2>2, <2>3, <2>4, <2>5 DEF ServiceInv
<1>2. ServiceInv /\ [Next]_vars => ServiceInv'
  <2> SUFFICES ASSUME ServiceInv, [Next]_vars PROVE ServiceInv'
    OBVIOUS
  <2>1. CASE UserWrites
    <3>1. PICK s \in Services : \E rev \in revisionsOf[s] \cup {Absent} : I!Write(s, rev)
      BY <2>1 DEF UserWrites
    <3>2. I!TypeOK'
      BY <3>1 DEF ServiceInv, TypeOK, I!TypeOK, I!Write, I!States
    <3>3. QueuesAreLinked'
      BY <2>1, <3>1 DEF ServiceInv, QueuesAreLinked, I!Write, UserWrites
    <3> QED  BY <2>1, <3>2, <3>3, IndexesUnchanged DEF UserWrites
  <2>2. ASSUME NEW w \in Watches, Observe(w) \/ Resync(w) PROVE ServiceInv'
    BY <2>2, InformerKeepsQueues, IndexesUnchanged DEF Observe, Resync
  <2>3. ASSUME NEW w \in Watches, Handler(w) PROVE ServiceInv'
    BY <2>3, RegisterKeepsInv, WriteIPsKeepsInv, WriteWaypointKeepsInv, WriteNameKeepsInv
       DEF Handler
  <2>4. CASE UNCHANGED vars
    <3>1. I!TypeOK' /\ QueuesAreLinked'
      BY <2>4 DEF vars, ServiceInv, TypeOK, I!TypeOK, QueuesAreLinked
    <3> QED  BY <2>4, <3>1, IndexesUnchanged DEF vars
  <2> QED  BY <2>1, <2>2, <2>3, <2>4 DEF Next
<1> QED  BY <1>1, <1>2, PTL DEF Spec

\* Every variable keeps its type.
THEOREM ServiceTypeOK == Spec => []TypeOK
<1>1. ServiceInv => TypeOK
  BY DEF ServiceInv
<1> QED  BY <1>1, ServiceInvariant, PTL

\* LookupServiceByIP never answers with a Service whose last written revision does
\* not announce the IP.
THEOREM ServiceClaimIsAnnounced == Spec => []ClaimIsAnnounced
<1>1. ServiceInv => ClaimIsAnnounced
  BY DEF ServiceInv
<1> QED  BY <1>1, ServiceInvariant, PTL

\* Once the handlers of a Service are done, its name, its waypoint and the IPs
\* attributed to it agree with the API server.
THEOREM ServiceSettledIsExact == Spec => []SettledServiceIsExact
<1>1. ServiceInv => SettledServiceIsExact
  <2> SUFFICES ASSUME ServiceInv, NEW s \in Services, Settled(s)
               PROVE  /\ "name" \in Enabled => (Exists(s) <=> api[s] # Absent)
                      /\ "waypoint" \in Enabled =>
                             LookupWaypointForService(s) = waypointOf(s, api[s])
                      /\ \A ip \in IPs : owner[ip] = s => ip \in AnnouncedIPs(api[s])
    BY DEF SettledServiceIsExact
  <2>1. PICK u \in Watches : serviceOf[u] = s
    BY DEF Settled
  <2>2. ASSUME NEW w \in Watches, serviceOf[w] = s
        PROVE  current[w] = api[s] /\ \A x : Written(w, x)
    <3>1. pending[w] = << >> /\ store[w] = api[s] /\ todo[w] = << >>
      BY <2>2 DEF Settled, Idle, I!Drained
    <3>2. current[w] = store[w]
      BY <3>1 DEF ServiceInv, QueuesAreLinked, I!Linked
    <3>3. \A x : Written(w, x)
      BY <3>1 DEF Written
    <3> QED  BY <3>1, <3>2, <3>3
  <2>3. "name" \in Enabled => (Exists(s) <=> api[s] # Absent)
    BY <2>1, <2>2 DEF ServiceInv, NameIsBacked, Exists
  <2>4. "waypoint" \in Enabled => LookupWaypointForService(s) = waypointOf(s, api[s])
    BY <2>1, <2>2 DEF ServiceInv, WaypointIsBacked, LookupWaypointForService
  <2>5. ASSUME NEW ip \in IPs, owner[ip] = s PROVE ip \in AnnouncedIPs(api[s])
    <3>1. s # None
      BY ServiceAssumption
    <3> QED  BY <2>2, <2>5, <3>1 DEF ServiceInv, ClaimIsAnnounced
  <2> QED  BY <2>3, <2>4, <2>5
<1> QED  BY <1>1, ServiceInvariant, PTL

=============================================================================
