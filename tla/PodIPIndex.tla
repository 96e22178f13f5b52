------------------------------ MODULE PodIPIndex ------------------------------
(***************************************************************************)
(* The EndpointSlice informer and its Pod IP -> Service index              *)
(* (endpointslice_informer.go).  An EndpointSlice, not a Service, owns the *)
(* claim on an IP, and the last slice to claim one wins.  A handler is one *)
(* critical section.                                                       *)
(***************************************************************************)
EXTENDS Naturals, Sequences, FiniteSets

CONSTANTS
    Watches,
    Slices,         \* <<namespace, name>> of EndpointSlices
    sliceOf,
    Revisions, Absent, MaxPending,
    RawIPs, IPs,
    canonicalIP,    \* as in ServiceIndexes
    None

ASSUME PodIPAssumption ==
    /\ sliceOf \in [Watches -> Slices]
    /\ Absent \notin Revisions
    /\ MaxPending \in Nat \ {0, 1}
    /\ canonicalIP \in [RawIPs -> IPs \cup {None}]
    /\ None \notin IPs /\ None \notin Slices

VARIABLES api, store, pending,  \* the informer, see SharedInformer
          handled,              \* watch -> the revision last given to the index
          owner,                \* IP -> the slice that claims it
          m                     \* IP -> <<namespace, service>>

vars == <<api, store, pending, handled, owner, m>>

I == INSTANCE SharedInformer WITH Objects <- Slices, objectOf <- sliceOf

-----------------------------------------------------------------------------
(* What an EndpointSlice says *)

\* The service-name label, else an owner reference of kind Service, else none.
serviceOwnerOf(rev) ==
    IF rev.label # "" THEN rev.label
    ELSE IF rev.ownerService # "" THEN rev.ownerService ELSE ""

\* The addresses of the endpoints that are ready or of unknown readiness.
endpointSliceIPSet(rev) ==
    LET serving == {ep \in rev.endpoints : ep.ready # "false"}
    IN  IF rev.addressType \notin {"IPv4", "IPv6"} THEN {}
        ELSE {canonicalIP[raw] : raw \in UNION {ep.addresses : ep \in serving}}
                 \ {None}

\* An entry is never mistaken for a missing one.
ASSUME EntryAssumption ==
    \A slice \in Slices, rev \in Revisions : <<slice[1], serviceOwnerOf(rev)>> # None

\* A slice without a Service owner contributes nothing.
Wanted(rev) ==
    IF rev = Absent \/ serviceOwnerOf(rev) = "" THEN {}
    ELSE endpointSliceIPSet(rev)

-----------------------------------------------------------------------------
(* The index operations *)

\* Mutant: a slice without a Service owner returns before the withdrawal.
MutUpsertEarlyReturn(slice, rev) ==
    IF serviceOwnerOf(rev) = "" THEN UNCHANGED <<owner, m>>
    ELSE /\ owner' = [ip \in IPs |->
                IF ip \in Wanted(rev) THEN slice
                ELSE IF owner[ip] = slice THEN None ELSE owner[ip]]
         /\ m' = [ip \in IPs |->
                IF ip \in Wanted(rev) THEN <<slice[1], serviceOwnerOf(rev)>>
                ELSE IF owner[ip] = slice THEN None ELSE m[ip]]

\* Withdraw what the slice no longer carries, take over what it does.
upsertEndpointSlice(slice, rev) ==
    /\ owner' = [ip \in IPs |->
           IF ip \in Wanted(rev) THEN slice
           ELSE IF owner[ip] = slice THEN None ELSE owner[ip]]
    /\ m' = [ip \in IPs |->
           IF ip \in Wanted(rev) THEN <<slice[1], serviceOwnerOf(rev)>>
           ELSE IF owner[ip] = slice THEN None ELSE m[ip]]

\* Mutant: the claims go but the entries stay.
MutDeleteKeepsEntries(slice) ==
    /\ owner' = [ip \in IPs |-> IF owner[ip] = slice THEN None ELSE owner[ip]]
    /\ UNCHANGED m

deleteEndpointSlice(slice) ==
    /\ owner' = [ip \in IPs |-> IF owner[ip] = slice THEN None ELSE owner[ip]]
    /\ m' = [ip \in IPs |-> IF owner[ip] = slice THEN None ELSE m[ip]]

LookupPodIP(raw) == IF canonicalIP[raw] = None THEN None ELSE m[canonicalIP[raw]]

-----------------------------------------------------------------------------
Init ==
    /\ I!Init
    /\ handled = [w \in Watches |-> Absent]
    /\ owner = [ip \in IPs |-> None]
    /\ m = [ip \in IPs |-> None]

UserWrites ==
    /\ \E s \in Slices, rev \in I!States : I!Write(s, rev)
    /\ UNCHANGED <<handled, owner, m>>

Observe(w) == I!Observe(w) /\ UNCHANGED <<handled, owner, m>>
Resync(w) == I!Resync(w) /\ UNCHANGED <<handled, owner, m>>

\* Mutant: an update that changes nothing is skipped.
MutHandleSkipsResync(w) ==
    LET n == Head(pending[w])
    IN  /\ I!Take(w)
        /\ handled' = [handled EXCEPT ![w] = n.new]
        /\ \/ n.new # Absent /\ n.new # n.old /\ upsertEndpointSlice(sliceOf[w], n.new)
           \/ n.new # Absent /\ n.new = n.old /\ UNCHANGED <<owner, m>>
           \/ n.new = Absent /\ deleteEndpointSlice(sliceOf[w])

\* Mutant: no tombstone path.
MutHandleNoTombstone(w) ==
    LET n == Head(pending[w])
    IN  /\ I!Take(w)
        /\ \/ /\ n.type = "tombstone"
              /\ UNCHANGED <<handled, owner, m>>
           \/ /\ n.type # "tombstone"
              /\ handled' = [handled EXCEPT ![w] = n.new]
              /\ \/ n.new # Absent /\ upsertEndpointSlice(sliceOf[w], n.new)
                 \/ n.new = Absent /\ deleteEndpointSlice(sliceOf[w])

\* AddFunc, UpdateFunc or DeleteFunc; a tombstone is a delete.
registerEndpointSliceHandlers(w) ==
    LET rev == Head(pending[w]).new
    IN  /\ I!Take(w)
        /\ handled' = [handled EXCEPT ![w] = rev]
        /\ \/ rev # Absent /\ upsertEndpointSlice(sliceOf[w], rev)
           \/ rev = Absent /\ deleteEndpointSlice(sliceOf[w])

Next ==
    \/ UserWrites
    \/ \E w \in Watches :
           Observe(w) \/ Resync(w) \/ registerEndpointSliceHandlers(w)

Spec == Init /\ [][Next]_vars

\* Watches are kept up, handlers run and every cached slice is resynced again
\* and again.
FairSpec ==
    /\ Spec
    /\ \A w \in Watches : /\ WF_vars(Observe(w))
                          /\ WF_vars(Resync(w))
                          /\ WF_vars(registerEndpointSliceHandlers(w))

-----------------------------------------------------------------------------
(* Correctness *)

\* The Service that a revision of a slice stands for.
ServiceOf(w, rev) == <<sliceOf[w][1], serviceOwnerOf(rev)>>

\* Every variable keeps its type.
TypeOK ==
    /\ I!TypeOK
    /\ handled \in [Watches -> I!States]
    /\ owner \in [IPs -> Slices \cup {None}]
    /\ \A ip \in IPs : m[ip] = None <=> owner[ip] = None

\* Some watch has last handled a revision of the slice that claims the IP, which
\* carries the IP on an endpoint that is not unready and names the Service of
\* the entry.
Carried(ip) ==
    \E w \in Watches :
        /\ sliceOf[w] = owner[ip]
        /\ handled[w] # Absent
        /\ \E ep \in handled[w].endpoints : \E raw \in ep.addresses :
               canonicalIP[raw] = ip /\ ep.ready # "false"
        /\ m[ip] = ServiceOf(w, handled[w])

\* A Pod IP resolves only through the slice that claims it: the slice's last
\* handled revision carries the IP on an endpoint that is not unready and
\* names the Service returned.  A slice that lost its owner, its endpoint or
\* its existence leaves nothing behind.
EntryIsCarried == \A ip \in IPs : owner[ip] # None => Carried(ip)

\* Once every watch of the slice that claims an IP has handled all there is, the
\* slice carries the IP at the API server too, for the Service of the entry: an
\* entry is stale only while a notification is on its way.
SettledEntryIsCurrent ==
    \A ip \in IPs :
        LET slice == owner[ip]
        IN  /\ slice # None
            /\ \A w \in Watches : sliceOf[w] = slice => I!Drained(w)
            => /\ ip \in Wanted(api[slice])
               /\ m[ip] = <<slice[1], serviceOwnerOf(api[slice])>>

\* The inductive invariant.  An entry comes from the last handled revision of a
\* watch, and the queue of a watch leads from there to its store.
Backed(ip) ==
    \E w \in Watches : /\ sliceOf[w] = owner[ip]
                       /\ ip \in Wanted(handled[w])
                       /\ m[ip] = ServiceOf(w, handled[w])
EntryIsBacked == \A ip \in IPs : owner[ip] # None => Backed(ip)
QueuesAreLinked == \A w \in Watches : I!Linked(pending[w], handled[w], store[w])
PodIPInv == TypeOK /\ EntryIsBacked /\ QueuesAreLinked

\* If users stop writing, every Pod IP that some slice carries becomes and
\* stays resolvable, to a Service of a slice that carries it: a takeover that
\* was withdrawn again does not leave the IP unresolved for good.
CarriedIPResolves ==
    <>[][FALSE]_api =>
        <>[](\A ip \in IPs :
                LET carriers == {w \in Watches : ip \in Wanted(api[sliceOf[w]])}
                IN  carriers # {} => m[ip] \in {ServiceOf(w, api[sliceOf[w]]) :
                                                  w \in carriers})

=============================================================================
