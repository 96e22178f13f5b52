---------------------------- MODULE PolicyInformer ----------------------------
(***************************************************************************)
(* The dynamic policy informers (policy_informer.go): they turn the        *)
(* targetRefs of policy objects into calls of applyPolicy and removePolicy *)
(* on the route index.  A handler holds the index lock for one call at a   *)
(* time, so other watches and readers run between its calls, and routes    *)
(* come and go independently of the policies that target them.             *)
(***************************************************************************)
EXTENDS Naturals, Sequences, FiniteSets

CONSTANTS
    Watches, Policies, policyOf, Revisions, Absent, MaxPending,
    Names,      \* "<ns>/<name>" of routes
    None

ASSUME PolicyAssumption ==
    /\ policyOf \in [Watches -> Policies]
    /\ Absent \notin Revisions
    /\ MaxPending \in Nat \ {0, 1}

VARIABLES api, store, pending,      \* the informers, see SharedInformer
          routes, policies,         \* those maps of the route index
          calls                     \* watch -> index calls its handler has left

indexVars == <<routes, policies>>
vars == <<api, store, pending, indexVars, calls>>

I == INSTANCE SharedInformer WITH Objects <- Policies, objectOf <- policyOf

Index == INSTANCE RouteIndex WITH
    Backends <- {}, Projections <- {"projection"}, PolicyRefs <- Policies,
    backendIndex <- << >>,
    claimedBackends <- << >>, backendOwners <- << >>

-----------------------------------------------------------------------------
(* What a policy object says *)

\* An Accepted=True among the conditions (a set of <<type, status>> pairs).
conditionsHaveAcceptedTrue(conds) == <<"Accepted", "True">> \in conds

\* No status yet, the policy's own conditions, or some ancestor's.
policyAccepted(u) ==
    \/ u.status = None
    \/ conditionsHaveAcceptedTrue(u.status.conditions)
    \/ \E conds \in u.status.ancestors : conditionsHaveAcceptedTrue(conds)

\* The targetRefs, or the singular targetRef of early controllers.
targetRefsOf(u) ==
    IF u.targetRefs # None THEN u.targetRefs
    ELSE IF u.targetRef # None THEN {u.targetRef} ELSE {}

\* A target is in the policy's namespace unless the ref names one.
TargetName(u, r) == <<IF r.ns = "" THEN u.ns ELSE r.ns, r.name>>

\* Names holds every route a policy can target, and None is no key or route.
ASSUME TargetAssumption ==
    /\ \A u \in Revisions : \A r \in targetRefsOf(u) :
           r.name # "" => TargetName(u, r) \in Names
    /\ None \notin Index!RouteKeys /\ None \notin Index!RouteAttributes

\* Mutant: refs to other kinds are not skipped.
MutTargetsOfAnyKind(u) ==
    {Index!routeKey(r.kind, TargetName(u, r)) : r \in targetRefsOf(u)}

\* Only routes of the Gateway API group (a group here is one up to case).
targetsFromUnstructured(u) ==
    {Index!routeKey(r.kind, TargetName(u, r)) :
        r \in {r \in targetRefsOf(u) : /\ r.name # ""
                                       /\ r.group = "gateway.networking.k8s.io"
                                       /\ r.kind \in Index!RouteKinds}}

\* The routes a revision attaches its policy to.
Effective(u) ==
    IF u # Absent /\ policyAccepted(u) THEN targetsFromUnstructured(u) ELSE {}

-----------------------------------------------------------------------------
(* The handlers, as the index calls they make *)

Apply(targets) == {"apply"} \X targets
Remove(targets) == {"remove"} \X targets

policyAdd(u) == Apply(Effective(u))

\* Mutant: everything old is unstamped, everything new stamped again.
MutPolicyUpdateRestamps(oldU, newU) ==
    Remove(Effective(oldU)) \cup Apply(Effective(newU))

\* Routes in both target sets are left alone.
policyUpdate(oldU, newU) ==
    Remove(Effective(oldU) \ Effective(newU))
        \cup Apply(Effective(newU) \ Effective(oldU))

\* Not gated by acceptance.
policyDelete(u) == Remove(targetsFromUnstructured(u))

\* Mutant: no tombstone path.
MutCallsForNoTombstone(n) ==
    IF n.type = "add" THEN policyAdd(n.new)
    ELSE IF n.type = "update" THEN policyUpdate(n.old, n.new)
    ELSE IF n.type = "delete" THEN policyDelete(n.old)
    ELSE {}

\* AddFunc, UpdateFunc and DeleteFunc; a tombstone is unwrapped.
registerPolicyHandlers(n) ==
    IF n.type = "add" THEN policyAdd(n.new)
    ELSE IF n.type = "update" THEN policyUpdate(n.old, n.new)
    ELSE policyDelete(n.old)

-----------------------------------------------------------------------------
Init ==
    /\ I!Init
    /\ Index!Init
    /\ calls = [w \in Watches |-> {}]

UserWrites ==
    /\ \E p \in Policies, rev \in I!States : I!Write(p, rev)
    /\ UNCHANGED <<indexVars, calls>>

Observe(w) == I!Observe(w) /\ UNCHANGED <<indexVars, calls>>

Resync(w) == I!Resync(w) /\ UNCHANGED <<indexVars, calls>>

\* The handler of w starts on its next notification.
Handle(w) ==
    /\ calls[w] = {}
    /\ I!Take(w)
    /\ calls' = [calls EXCEPT ![w] = registerPolicyHandlers(Head(pending[w]))]
    /\ UNCHANGED indexVars

\* One index call of the handler of w: removals come before applications, and
\* the order within each is the order of a Go map.
Call(w) ==
    \E c \in calls[w] :
        /\ c[1] = "apply" => \A d \in calls[w] : d[1] = "apply"
        /\ \/ /\ c[1] = "remove"
              /\ Index!removePolicy(c[2][1], c[2][2], policyOf[w])
           \/ /\ c[1] = "apply"
              /\ Index!applyPolicy(c[2][1], c[2][2], policyOf[w])
        /\ calls' = [calls EXCEPT ![w] = @ \ {c}]
        /\ UNCHANGED <<api, store, pending>>

\* The route handlers write the same index; the kinds are treated alike, and
\* routes of one of them come and go.
RoutesChange == (Index!UpsertHTTP \/ Index!DeleteHTTP) /\ UNCHANGED <<api, store, pending, calls>>

Next ==
    \/ UserWrites \/ RoutesChange
    \/ \E w \in Watches : Observe(w) \/ Resync(w) \/ Handle(w) \/ Call(w)

Spec == Init /\ [][Next]_vars

-----------------------------------------------------------------------------
(* Correctness *)

Attached(p, k) == \E i \in 1 .. Len(policies[k]) : policies[k][i] = p

\* Every variable keeps its type.
TypeOK ==
    /\ I!TypeOK
    /\ Index!TypeOK
    /\ calls \in [Watches -> SUBSET ({"apply", "remove"} \X Index!RouteKeys)]

Idle(w) == I!Drained(w) /\ calls[w] = {}
Settled(p) == \A w \in Watches : policyOf[w] = p => Idle(w)
Exact(p) == \A k \in Index!RouteKeys : Attached(p, k) <=> k \in Effective(api[p])

\* Once every watch of a policy has handled all there is, the policy is
\* attached to exactly the routes its current, accepted revision targets:
\* nothing left over from earlier revisions, tombstones or a second watch, and
\* nothing lost when a route appears late or is deleted and created again.
SettledIsExact ==
    \A p \in Policies :
        Settled(p) /\ (\E w \in Watches : policyOf[w] = p) => Exact(p)

\* Every revision of p that is cached or still to be handled targets k.
KeptThroughout(p, k) ==
    \A w \in Watches : policyOf[w] = p =>
        /\ k \in Effective(store[w])
        /\ \A i \in 1 .. Len(pending[w]) :
               k \in Effective(pending[w][i].old) \cap Effective(pending[w][i].new)

\* An update never flickers: a policy that targets a route before and after
\* stays attached through all the calls of the handler.
NoFlicker ==
    [][\A p \in Policies, k \in Index!RouteKeys :
           Attached(p, k) /\ KeptThroughout(p, k) => Attached(p, k)']_vars

-----------------------------------------------------------------------------
(* The inductive invariant *)

\* The revision up to which the handler of w has taken its notifications.
Taken(w) == IF pending[w] = << >> THEN store[w] ELSE pending[w][1].old

QueuesAreLinked == \A w \in Watches : I!Linked(pending[w], Taken(w), store[w])

\* What a handler has left to do is on the way to the revision it took.
CallsLead ==
    \A w \in Watches : \A c \in calls[w] :
        c[1] = "apply" <=> c[2] \in Effective(Taken(w))

\* w has applied k and means it, or has removed it and means that.
Stands(w, k) == k \in Effective(Taken(w)) /\ <<"apply", k>> \notin calls[w]
Fallen(w, k) == k \notin Effective(Taken(w)) /\ <<"remove", k>> \notin calls[w]

\* What all the watches of a policy agree on is so in the index.
Agreement ==
    \A p \in Policies, k \in Index!RouteKeys :
        (\E w \in Watches : policyOf[w] = p) =>
            /\ (\A w \in Watches : policyOf[w] = p => Stands(w, k)) => Attached(p, k)
            /\ (\A w \in Watches : policyOf[w] = p => Fallen(w, k)) => ~Attached(p, k)

\* While watches of one policy run at different speeds the index follows
\* whichever called last: only where they agree is anything certain.
PolicyInv ==
    /\ TypeOK
    /\ Index!PoliciesDistinct
    /\ QueuesAreLinked
    /\ CallsLead
    /\ Agreement

=============================================================================
