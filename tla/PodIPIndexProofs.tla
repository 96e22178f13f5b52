--------------------------- MODULE PodIPIndexProofs ---------------------------
(***************************************************************************)
(* Theorems about PodIPIndex, for any slices, watches and IPs, several     *)
(* watches of one slice included.                                          *)
(***************************************************************************)
EXTENDS PodIPIndex, TLAPS

IP == INSTANCE SharedInformerProofs WITH Objects <- Slices, objectOf <- sliceOf

\* The lemmas on client-go's queues, for the watches of EndpointSlices: what
\* Observe and Resync leave alone is what the handler has been given.
LEMMA InformerKeepsQueues ==
    ASSUME PodIPInv, NEW w \in Watches, I!Observe(w) \/ I!Resync(w),
           handled' = handled
    PROVE  I!TypeOK' /\ QueuesAreLinked'
<1> USE PodIPAssumption
<1>1. /\ IP!TypeOK /\ IP!Linked(pending[w], handled[w], store[w])
      /\ IP!Observe(w) \/ IP!Resync(w)
  BY DEF PodIPInv, QueuesAreLinked, TypeOK, I!TypeOK, IP!TypeOK, I!Linked, IP!Linked,
         I!WellFormed, IP!WellFormed, I!Observe, IP!Observe, I!Resync, IP!Resync,
         I!Notify, IP!Notify, I!Notifications, IP!Notifications, I!States, IP!States
<1>2. IP!TypeOK' /\ IP!Linked(pending'[w], handled[w], store'[w])
      /\ \A v \in Watches \ {w} : pending'[v] = pending[v] /\ store'[v] = store[v]
  BY <1>1, IP!ObserveKeepsType, IP!ResyncKeepsType, IP!ObserveKeepsLinked,
     IP!ResyncKeepsLinked
<1>3. I!TypeOK' /\ I!Linked(pending'[w], handled[w], store'[w])
  BY <1>2 DEF I!TypeOK, IP!TypeOK, I!Linked, IP!Linked,
         I!WellFormed, IP!WellFormed, I!Notifications, IP!Notifications, I!States, IP!States
<1> QED  BY <1>2, <1>3 DEF PodIPInv, QueuesAreLinked

\* The same for a handler that takes a notification: its queue now leads on from
\* what it took.
LEMMA TakeKeepsQueues ==
    ASSUME PodIPInv, NEW w \in Watches, I!Take(w),
           handled' = [handled EXCEPT ![w] = Head(pending[w]).new]
    PROVE  /\ I!TypeOK' /\ QueuesAreLinked'
           /\ Head(pending[w]).new \in I!States
           /\ handled' \in [Watches -> I!States]
<1>1. /\ IP!TypeOK /\ IP!Linked(pending[w], handled[w], store[w]) /\ IP!Take(w)
      /\ handled \in [Watches -> I!States]
  BY DEF PodIPInv, QueuesAreLinked, TypeOK, I!TypeOK, IP!TypeOK, I!Linked, IP!Linked,
         I!WellFormed, IP!WellFormed, I!Take, IP!Take,
         I!Notifications, IP!Notifications, I!States, IP!States
<1>2. /\ IP!TypeOK' /\ IP!Linked(pending'[w], Head(pending[w]).new, store'[w])
      /\ \A v \in Watches \ {w} : pending'[v] = pending[v]
      /\ store' = store
      /\ Head(pending[w]) \in IP!Notifications
  BY <1>1, IP!TakeKeepsType, IP!TakeKeepsLinked
<1>3. I!TypeOK' /\ I!Linked(pending'[w], Head(pending[w]).new, store'[w])
  BY <1>2 DEF I!TypeOK, IP!TypeOK, I!Linked, IP!Linked,
         I!WellFormed, IP!WellFormed, I!Notifications, IP!Notifications, I!States, IP!States
<1>4. Head(pending[w]).new \in I!States
  BY <1>2 DEF IP!Notifications, IP!States, I!States
<1>5. QueuesAreLinked'
  <2>1. ASSUME NEW v \in Watches PROVE I!Linked(pending'[v], handled'[v], store'[v])
    BY <1>1, <1>2, <1>3 DEF PodIPInv, QueuesAreLinked
  <2> QED  BY <2>1 DEF QueuesAreLinked
<1> QED  BY <1>1, <1>3, <1>4, <1>5

\* What a slice wants are canonical IPs, and only a slice that exists wants any.
LEMMA WantedFacts ==
    ASSUME NEW rev \in I!States
    PROVE  /\ rev = Absent => Wanted(rev) = {}
           /\ \A ip \in Wanted(rev) :
                  /\ rev # Absent
                  /\ \E ep \in rev.endpoints : \E raw \in ep.addresses :
                         canonicalIP[raw] = ip /\ ep.ready # "false"
    BY DEF Wanted, endpointSliceIPSet

\* A handler, whether it ends in upsertEndpointSlice or in deleteEndpointSlice,
\* gives the slice the IPs the revision wants and no others, and leaves the IPs
\* of other slices alone.
LEMMA HandlerEffect ==
    ASSUME PodIPInv, NEW w \in Watches, registerEndpointSliceHandlers(w),
           NEW rev \in I!States, rev = Head(pending[w]).new
    PROVE  /\ owner' \in [IPs -> Slices \cup {None}]
           /\ \A ip \in Wanted(rev) : ip \in IPs =>
                  owner'[ip] = sliceOf[w] /\ m'[ip] = ServiceOf(w, rev) /\ m'[ip] # None
           /\ \A ip \in IPs \ Wanted(rev) :
                  IF owner[ip] = sliceOf[w] THEN owner'[ip] = None /\ m'[ip] = None
                  ELSE owner'[ip] = owner[ip] /\ m'[ip] = m[ip]
<1>1. /\ owner \in [IPs -> Slices \cup {None}]
      /\ sliceOf[w] \in Slices /\ sliceOf[w] # None
  BY PodIPAssumption DEF PodIPInv, TypeOK
<1>2. CASE rev # Absent /\ upsertEndpointSlice(sliceOf[w], rev)
  <2>1. <<sliceOf[w][1], serviceOwnerOf(rev)>> # None
    BY <1>1, <1>2, EntryAssumption DEF I!States
  <2> QED  BY <1>1, <1>2, <2>1 DEF upsertEndpointSlice, ServiceOf
<1>3. CASE rev = Absent /\ deleteEndpointSlice(sliceOf[w])
  <2>1. Wanted(rev) = {}
    BY <1>3 DEF Wanted
  <2> QED  BY <1>1, <1>3, <2>1 DEF deleteEndpointSlice
<1> QED  BY <1>2, <1>3 DEF registerEndpointSliceHandlers

\* A handler preserves the inductive invariant.
LEMMA HandlerKeepsInv ==
    ASSUME PodIPInv, NEW w \in Watches, registerEndpointSliceHandlers(w)
    PROVE  PodIPInv'
<1> DEFINE rev == Head(pending[w]).new
<1>1. I!Take(w) /\ handled' = [handled EXCEPT ![w] = rev]
  BY DEF registerEndpointSliceHandlers
<1>2. /\ I!TypeOK' /\ QueuesAreLinked' /\ rev \in I!States
      /\ handled' \in [Watches -> I!States] /\ handled \in [Watches -> I!States]
  BY <1>1, TakeKeepsQueues DEF PodIPInv, TypeOK
<1>3. /\ owner' \in [IPs -> Slices \cup {None}]
      /\ \A ip \in Wanted(rev) : ip \in IPs =>
             owner'[ip] = sliceOf[w] /\ m'[ip] = ServiceOf(w, rev) /\ m'[ip] # None
      /\ \A ip \in IPs \ Wanted(rev) :
             IF owner[ip] = sliceOf[w] THEN owner'[ip] = None /\ m'[ip] = None
             ELSE owner'[ip] = owner[ip] /\ m'[ip] = m[ip]
  BY <1>2, HandlerEffect
<1> HIDE DEF rev
<1>4. sliceOf[w] # None
  BY PodIPAssumption
<1>5. TypeOK'
  BY <1>2, <1>3, <1>4 DEF PodIPInv, TypeOK
<1>6. ASSUME NEW ip \in IPs, owner'[ip] # None
      PROVE  Backed(ip)'
  <2>1. CASE ip \in Wanted(rev)
    BY <1>1, <1>2, <1>3, <2>1 DEF Backed, ServiceOf
  <2>2. CASE ip \notin Wanted(rev)
    <3>1. owner[ip] # sliceOf[w] /\ owner'[ip] = owner[ip] /\ m'[ip] = m[ip]
      BY <1>3, <1>6, <2>2
    <3>2. PICK v \in Watches : /\ sliceOf[v] = owner[ip]
                               /\ ip \in Wanted(handled[v])
                               /\ m[ip] = ServiceOf(v, handled[v])
      BY <1>6, <3>1 DEF PodIPInv, EntryIsBacked, Backed
    <3>3. handled'[v] = handled[v]
      BY <1>1, <1>2, <3>1, <3>2
    <3> QED  BY <3>1, <3>2, <3>3 DEF Backed, ServiceOf
  <2> QED  BY <2>1, <2>2
<1> QED  BY <1>2, <1>5, <1>6 DEF PodIPInv, EntryIsBacked

\* PodIPInv is an invariant: whatever the interleaving of users, watches and
\* handlers, every entry is backed by the revision last handled, and no queue
\* has a gap.
THEOREM PodIPInvariant == Spec => []PodIPInv
<1>1. Init => PodIPInv
  <2> SUFFICES ASSUME Init PROVE PodIPInv
    OBVIOUS
  <2>1. TypeOK
    BY PodIPAssumption DEF Init, TypeOK, I!Init, I!TypeOK, I!States
  <2>2. EntryIsBacked
    BY DEF Init, EntryIsBacked
  <2>3. QueuesAreLinked
    BY DEF Init, I!Init, QueuesAreLinked, I!Linked
  <2> QED  BY <2>1, <2>2, <2>3 DEF PodIPInv
<1>2. PodIPInv /\ [Next]_vars => PodIPInv'
  <2> SUFFICES ASSUME PodIPInv, [Next]_vars PROVE PodIPInv'
    OBVIOUS
  <2>1. CASE UserWrites
    <3>1. I!TypeOK' /\ store' = store /\ pending' = pending
      BY <2>1 DEF PodIPInv, TypeOK, I!TypeOK, UserWrites, I!Write
    <3> QED  BY <2>1, <3>1 DEF UserWrites, PodIPInv, TypeOK, EntryIsBacked, Backed,
                               QueuesAreLinked, ServiceOf
  <2>2. ASSUME NEW w \in Watches, Observe(w) \/ Resync(w) PROVE PodIPInv'
    <3>1. I!TypeOK' /\ QueuesAreLinked'
      BY <2>2, InformerKeepsQueues DEF Observe, Resync
    <3> QED  BY <2>2, <3>1 DEF Observe, Resync, PodIPInv, TypeOK, EntryIsBacked,
                               Backed, ServiceOf
  <2>3. ASSUME NEW w \in Watches, registerEndpointSliceHandlers(w) PROVE PodIPInv'
    BY <2>3, HandlerKeepsInv
  <2>4. CASE UNCHANGED vars
    BY <2>4 DEF vars, PodIPInv, TypeOK, I!TypeOK, EntryIsBacked, Backed,
                QueuesAreLinked, ServiceOf
  <2> QED  BY <2>1, <2>2, <2>3, <2>4 DEF Next
<1> QED  BY <1>1, <1>2, PTL DEF Spec

\* Every variable keeps its type, and an IP has an entry exactly if it has an
\* owner: the two maps of podIPIndex never come apart.
THEOREM PodIPTypeOK == Spec => []TypeOK
<1>1. PodIPInv => TypeOK
  BY DEF PodIPInv
<1> QED  BY <1>1, PodIPInvariant, PTL

\* LookupPodIP answers only from a slice whose last handled revision carries the
\* IP on an endpoint that is not unready, with the Service that revision names.
THEOREM PodIPEntryIsCarried == Spec => []EntryIsCarried
<1>1. PodIPInv => EntryIsCarried
  <2> SUFFICES ASSUME PodIPInv, NEW ip \in IPs, owner[ip] # None PROVE Carried(ip)
    BY DEF EntryIsCarried
  <2>1. PICK w \in Watches : /\ sliceOf[w] = owner[ip]
                             /\ ip \in Wanted(handled[w])
                             /\ m[ip] = ServiceOf(w, handled[w])
    BY DEF PodIPInv, EntryIsBacked, Backed
  <2>2. handled[w] \in I!States
    BY DEF PodIPInv, TypeOK
  <2> QED  BY <2>1, <2>2, WantedFacts DEF Carried
<1> QED  BY <1>1, PodIPInvariant, PTL

\* An entry can be stale only while a watch of its slice is behind: a lookup with
\* nothing on its way agrees with the API server.
THEOREM PodIPSettledEntryIsCurrent == Spec => []SettledEntryIsCurrent
<1>1. PodIPInv => SettledEntryIsCurrent
  <2> SUFFICES ASSUME PodIPInv, NEW ip \in IPs, owner[ip] # None,
                      \A w \in Watches : sliceOf[w] = owner[ip] => I!Drained(w)
               PROVE  /\ ip \in Wanted(api[owner[ip]])
                      /\ m[ip] = <<owner[ip][1], serviceOwnerOf(api[owner[ip]])>>
    BY DEF SettledEntryIsCurrent
  <2>1. PICK w \in Watches : /\ sliceOf[w] = owner[ip]
                             /\ ip \in Wanted(handled[w])
                             /\ m[ip] = ServiceOf(w, handled[w])
    BY DEF PodIPInv, EntryIsBacked, Backed
  <2>2. pending[w] = << >> /\ store[w] = api[owner[ip]]
    BY <2>1 DEF I!Drained
  <2>3. handled[w] = store[w]
    BY <2>2 DEF PodIPInv, QueuesAreLinked, I!Linked
  <2> QED  BY <2>1, <2>2, <2>3 DEF ServiceOf
<1> QED  BY <1>1, PodIPInvariant, PTL

=============================================================================
