------------------------- MODULE PolicyInformerProofs -------------------------
(***************************************************************************)
(* Theorems about PolicyInformer, for any policies, targets and watches,   *)
(* several watches of one policy at different speeds included.             *)
(***************************************************************************)
EXTENDS PolicyInformer, TLAPS

IP == INSTANCE SharedInformerProofs WITH Objects <- Policies, objectOf <- policyOf

IX == INSTANCE RouteIndexProofs WITH
    Backends <- {}, Projections <- {"projection"}, PolicyRefs <- Policies,
    backendIndex <- << >>,
    claimedBackends <- << >>, backendOwners <- << >>

-----------------------------------------------------------------------------
(* What a policy object says *)

\* A policy attaches itself to routes the index can hold, and a policy that is
\* not there to none.
LEMMA EffectiveFacts ==
    ASSUME NEW u \in I!States
    PROVE  /\ Effective(u) \subseteq Index!RouteKeys
           /\ u # Absent => targetsFromUnstructured(u) \subseteq Index!RouteKeys
           /\ u # Absent => Effective(u) \subseteq targetsFromUnstructured(u)
           /\ u = Absent => Effective(u) = {}
<1>1. ASSUME u # Absent, NEW k \in targetsFromUnstructured(u)
      PROVE  k \in Index!RouteKeys
  <2>1. u \in Revisions
    BY <1>1 DEF I!States
  <2>2. PICK r \in targetRefsOf(u) :
            /\ r.name # "" /\ r.kind \in Index!RouteKinds
            /\ k = Index!routeKey(r.kind, TargetName(u, r))
    BY <1>1 DEF targetsFromUnstructured
  <2>3. TargetName(u, r) \in Names
    BY <2>1, <2>2, TargetAssumption
  <2> QED  BY <2>2, <2>3 DEF Index!routeKey, Index!RouteKeys
<1> QED  BY <1>1 DEF Effective

\* The calls a handler has to make when it takes a notification: they lead from
\* the revision it had to the one it took, and a route in neither list is in
\* both revisions or in neither.
LEMMA HandlerCalls ==
    ASSUME NEW n \in I!Notifications, I!WellFormed(n)
    PROVE  LET cs == registerPolicyHandlers(n)
           IN  /\ cs \in SUBSET ({"apply", "remove"} \X Index!RouteKeys)
               /\ \A c \in cs : c[1] = "apply" <=> c[2] \in Effective(n.new)
               /\ \A k \in Index!RouteKeys :
                      /\ k \in Effective(n.new) /\ <<"apply", k>> \notin cs
                             => k \in Effective(n.old)
                      /\ k \notin Effective(n.new) /\ <<"remove", k>> \notin cs
                             => k \notin Effective(n.old)
<1> DEFINE cs == registerPolicyHandlers(n)
<1>1. n.old \in I!States /\ n.new \in I!States
  BY DEF I!Notifications
<1>2. /\ Effective(n.old) \subseteq Index!RouteKeys
      /\ Effective(n.new) \subseteq Index!RouteKeys
      /\ n.old # Absent => /\ targetsFromUnstructured(n.old) \subseteq Index!RouteKeys
                           /\ Effective(n.old) \subseteq targetsFromUnstructured(n.old)
      /\ n.old = Absent => Effective(n.old) = {}
      /\ n.new = Absent => Effective(n.new) = {}
  BY <1>1, EffectiveFacts
<1> DEFINE o == Effective(n.old)
           e == Effective(n.new)
           t == targetsFromUnstructured(n.old)
<1>3. CASE n.type = "add"
  <2>1. cs = {"apply"} \X e /\ o = {}
    BY <1>2, <1>3 DEF registerPolicyHandlers, policyAdd, Apply, I!WellFormed
  <2> HIDE DEF cs, o, e, t
  <2>2. \A c \in cs : c[1] = "apply" /\ c[2] \in e
    BY <2>1
  <2>3. \A k \in e : <<"apply", k>> \in cs
    BY <2>1
  <2> QED  BY <1>2, <2>1, <2>2, <2>3 DEF cs, o, e
<1>4. CASE n.type = "update"
  <2>1. cs = ({"remove"} \X (o \ e)) \cup ({"apply"} \X (e \ o))
    BY <1>4 DEF registerPolicyHandlers, policyUpdate, Apply, Remove
  <2> HIDE DEF cs, o, e, t
  <2>2. \A c \in cs : \/ c[1] = "remove" /\ c[2] \in o \ e
                      \/ c[1] = "apply" /\ c[2] \in e \ o
    BY <2>1
  <2>3. /\ \A k \in e \ o : <<"apply", k>> \in cs
        /\ \A k \in o \ e : <<"remove", k>> \in cs
    BY <2>1
  <2>4. cs \in SUBSET ({"apply", "remove"} \X Index!RouteKeys)
    BY <1>2, <2>1 DEF o, e
  <2> QED  BY <1>2, <2>2, <2>3, <2>4 DEF cs, o, e
<1>5. CASE n.type \notin {"add", "update"}
  <2>1. cs = {"remove"} \X t /\ e = {} /\ n.old # Absent
    BY <1>1, <1>2, <1>5 DEF registerPolicyHandlers, policyDelete, Remove, I!WellFormed,
       I!Notifications
  <2> HIDE DEF cs, o, e, t
  <2>2. \A c \in cs : c[1] = "remove" /\ c[2] \in t
    BY <2>1
  <2>3. \A k \in t : <<"remove", k>> \in cs
    BY <2>1
  <2> QED  BY <1>2, <2>1, <2>2, <2>3 DEF cs, o, e, t
<1> QED  BY <1>3, <1>4, <1>5

-----------------------------------------------------------------------------
(* The queues *)

\* What Observe and Resync leave alone: the revision each handler has taken.
LEMMA InformerKeepsQueues ==
    ASSUME PolicyInv, NEW w \in Watches, I!Observe(w) \/ I!Resync(w)
    PROVE  /\ I!TypeOK' /\ QueuesAreLinked'
           /\ \A v \in Watches : Taken(v)' = Taken(v)
<1> USE PolicyAssumption
<1> DEFINE last == Taken(w)
<1>1. /\ IP!TypeOK /\ IP!Linked(pending[w], last, store[w])
      /\ IP!Observe(w) \/ IP!Resync(w)
  <2> HIDE DEF last
  <2>1. I!Linked(pending[w], last, store[w])
    BY DEF PolicyInv, QueuesAreLinked, last
  <2> QED
    BY <2>1 DEF PolicyInv, TypeOK, I!TypeOK, IP!TypeOK, I!Linked, IP!Linked,
         I!WellFormed, IP!WellFormed, I!Observe, IP!Observe, I!Resync, IP!Resync,
         I!Notify, IP!Notify, I!Notifications, IP!Notifications, I!States, IP!States
<1>2. /\ IP!TypeOK' /\ IP!Linked(pending'[w], last, store'[w])
      /\ \A v \in Watches \ {w} : pending'[v] = pending[v] /\ store'[v] = store[v]
  <2> HIDE DEF last
  <2> QED  BY <1>1, IP!ObserveKeepsType, IP!ResyncKeepsType, IP!ObserveKeepsLinked,
              IP!ResyncKeepsLinked
<1>3. I!TypeOK' /\ I!Linked(pending'[w], last, store'[w])
  <2> HIDE DEF last
  <2> QED  BY <1>2 DEF I!TypeOK, IP!TypeOK, I!Linked, IP!Linked,
         I!WellFormed, IP!WellFormed, I!Notifications, IP!Notifications, I!States, IP!States
<1>4. Taken(w)' = last
  <2> HIDE DEF last
  <2> QED  BY <1>3 DEF Taken, I!Linked
<1>5. \A v \in Watches : Taken(v)' = Taken(v)
  <2>1. \A v \in Watches \ {w} : Taken(v)' = Taken(v)
    BY <1>2 DEF Taken
  <2> QED  BY <1>4, <2>1
<1>6. ASSUME NEW v \in Watches PROVE I!Linked(pending'[v], Taken(v)', store'[v])
  <2>1. I!Linked(pending[v], Taken(v), store[v])
    BY DEF PolicyInv, QueuesAreLinked
  <2>2. CASE v = w
    BY <1>3, <1>4, <2>2
  <2>3. CASE v # w
    <3>1. pending'[v] = pending[v] /\ store'[v] = store[v] /\ Taken(v)' = Taken(v)
      BY <1>2, <1>5, <2>3
    <3> QED  BY <2>1, <3>1
  <2> QED  BY <2>2, <2>3
<1> QED  BY <1>3, <1>5, <1>6 DEF QueuesAreLinked

\* A handler that takes a notification goes from the revision it had to the one
\* the notification brings.
LEMMA TakeKeepsQueues ==
    ASSUME PolicyInv, NEW w \in Watches, I!Take(w)
    PROVE  /\ I!TypeOK' /\ QueuesAreLinked'
           /\ Head(pending[w]) \in I!Notifications
           /\ I!WellFormed(Head(pending[w]))
           /\ Head(pending[w]).old = Taken(w)
           /\ Taken(w)' = Head(pending[w]).new
           /\ \A v \in Watches \ {w} : Taken(v)' = Taken(v)
<1> DEFINE last == Taken(w)
           n == Head(pending[w])
<1>1. IP!TypeOK /\ IP!Linked(pending[w], last, store[w]) /\ IP!Take(w)
  <2> HIDE DEF last
  <2>1. I!Linked(pending[w], last, store[w])
    BY DEF PolicyInv, QueuesAreLinked, last
  <2> QED
    BY <2>1 DEF PolicyInv, TypeOK, I!TypeOK, IP!TypeOK, I!Linked, IP!Linked,
         I!WellFormed, IP!WellFormed, I!Take, IP!Take,
         I!Notifications, IP!Notifications, I!States, IP!States
<1>2. /\ IP!TypeOK' /\ IP!Linked(pending'[w], n.new, store'[w])
      /\ n.old = last /\ IP!WellFormed(n) /\ n \in IP!Notifications
      /\ \A v \in Watches \ {w} : pending'[v] = pending[v]
      /\ store' = store
  <2> HIDE DEF last
  <2> QED  BY <1>1, IP!TakeKeepsType, IP!TakeKeepsLinked
<1>3. /\ I!TypeOK' /\ I!Linked(pending'[w], n.new, store'[w])
      /\ I!WellFormed(n) /\ n \in I!Notifications
  <2> HIDE DEF last, n
  <2> QED  BY <1>2 DEF I!TypeOK, IP!TypeOK, I!Linked, IP!Linked,
         I!WellFormed, IP!WellFormed, I!Notifications, IP!Notifications, I!States, IP!States
<1>4. Taken(w)' = n.new
  <2> HIDE DEF n
  <2> QED  BY <1>3 DEF Taken, I!Linked
<1>5. \A v \in Watches \ {w} : Taken(v)' = Taken(v)
  BY <1>2 DEF Taken
<1>6. ASSUME NEW v \in Watches PROVE I!Linked(pending'[v], Taken(v)', store'[v])
  <2>1. I!Linked(pending[v], Taken(v), store[v])
    BY DEF PolicyInv, QueuesAreLinked
  <2>2. CASE v = w
    BY <1>3, <1>4, <2>2
  <2>3. CASE v # w
    <3>1. pending'[v] = pending[v] /\ store'[v] = store[v] /\ Taken(v)' = Taken(v)
      BY <1>2, <1>5, <2>3
    <3> QED  BY <2>1, <3>1
  <2> QED  BY <2>2, <2>3
<1> QED  BY <1>2, <1>3, <1>4, <1>5, <1>6 DEF QueuesAreLinked

-----------------------------------------------------------------------------
(* The index calls *)

\* The assumptions and the index type, for the theorems on the route index.
LEMMA IndexBridge ==
    ASSUME Index!TypeOK, Index!PoliciesDistinct
    PROVE  /\ IX!TypeOK /\ IX!PoliciesDistinct
           /\ None \notin IX!RouteKeys /\ None \notin IX!RouteAttributes
           /\ IX!RouteKeys = Index!RouteKeys /\ IX!RouteKinds = Index!RouteKinds
<1> USE DEF Index!RouteKeys, IX!RouteKeys, Index!RouteKinds, IX!RouteKinds,
            Index!RouteAttributes, IX!RouteAttributes
<1>1. IX!TypeOK
  BY DEF Index!TypeOK, IX!TypeOK
<1>2. IX!PoliciesDistinct
  BY DEF Index!PoliciesDistinct, IX!PoliciesDistinct
<1> QED  BY <1>1, <1>2, TargetAssumption

\* One call of a handler attaches its policy to the route of the call or detaches
\* it, and changes no other attachment.
LEMMA CallEffect ==
    ASSUME Index!TypeOK, Index!PoliciesDistinct,
           NEW k \in Index!RouteKeys, NEW p \in Policies
    PROVE  /\ Index!applyPolicy(k[1], k[2], p) =>
                  /\ Index!TypeOK' /\ Index!PoliciesDistinct'
                  /\ \A j \in Index!RouteKeys, q \in Policies :
                         Attached(q, j)' <=> Attached(q, j) \/ (j = k /\ q = p)
           /\ Index!removePolicy(k[1], k[2], p) =>
                  /\ Index!TypeOK' /\ Index!PoliciesDistinct'
                  /\ \A j \in Index!RouteKeys, q \in Policies :
                         Attached(q, j)' <=> Attached(q, j) /\ ~(j = k /\ q = p)
<1>1. /\ IX!TypeOK /\ IX!PoliciesDistinct
      /\ None \notin IX!RouteKeys /\ None \notin IX!RouteAttributes
      /\ IX!RouteKeys = Index!RouteKeys /\ IX!RouteKinds = Index!RouteKinds
  BY IndexBridge
<1>2. /\ k[1] \in IX!RouteKinds /\ k[2] \in Names /\ IX!routeKey(k[1], k[2]) = k
  BY <1>1 DEF Index!RouteKeys, IX!routeKey
<1>3. ASSUME IX!applyPolicy(k[1], k[2], p) \/ IX!removePolicy(k[1], k[2], p)
      PROVE  Index!TypeOK' /\ Index!PoliciesDistinct'
  <2>1. /\ policies' \in [IX!RouteKeys -> Seq(Policies)]
        /\ IX!PoliciesDistinct' /\ routes' = routes
    BY <1>1, <1>2, <1>3, IX!PolicyStep
  <2>2. Index!TypeOK'
    BY <1>1, <2>1 DEF Index!TypeOK
  <2> QED  BY <1>1, <2>1, <2>2 DEF Index!PoliciesDistinct, IX!PoliciesDistinct
<1>4. ASSUME Index!applyPolicy(k[1], k[2], p)
      PROVE  /\ Index!TypeOK' /\ Index!PoliciesDistinct'
             /\ \A j \in Index!RouteKeys, q \in Policies :
                    Attached(q, j)' <=> Attached(q, j) \/ (j = k /\ q = p)
  <2>1. IX!applyPolicy(k[1], k[2], p)
    BY <1>4 DEF Index!applyPolicy, IX!applyPolicy, Index!routeKey, IX!routeKey
  <2>2. \A j \in IX!RouteKeys, q \in Policies :
            IX!Holds(policies'[j], q) <=> IX!Holds(policies[j], q) \/ (j = k /\ q = p)
    BY <1>1, <1>2, <2>1, IX!ApplyAttaches
  <2> QED  BY <1>1, <1>3, <2>1, <2>2 DEF Attached, IX!Holds
<1>5. ASSUME Index!removePolicy(k[1], k[2], p)
      PROVE  /\ Index!TypeOK' /\ Index!PoliciesDistinct'
             /\ \A j \in Index!RouteKeys, q \in Policies :
                    Attached(q, j)' <=> Attached(q, j) /\ ~(j = k /\ q = p)
  <2>1. IX!removePolicy(k[1], k[2], p)
    BY <1>5 DEF Index!removePolicy, IX!removePolicy, Index!routeKey, IX!routeKey
  <2>2. \A j \in IX!RouteKeys, q \in Policies :
            IX!Holds(policies'[j], q) <=> IX!Holds(policies[j], q) /\ ~(j = k /\ q = p)
    BY <1>1, <1>2, <2>1, IX!RemoveDetaches
  <2> QED  BY <1>1, <1>3, <2>1, <2>2 DEF Attached, IX!Holds
<1> QED  BY <1>4, <1>5

-----------------------------------------------------------------------------
(* Every step preserves the inductive invariant *)

\* Steps that move no handler and no attachment.
LEMMA QuietKeepsAgreement ==
    ASSUME PolicyInv, calls' = calls, policies' = policies,
           \A v \in Watches : Taken(v)' = Taken(v)
    PROVE  CallsLead' /\ Agreement'
<1>1. CallsLead'
  BY DEF PolicyInv, CallsLead
<1>2. ASSUME NEW p \in Policies, NEW k \in Index!RouteKeys
      PROVE  /\ Attached(p, k)' <=> Attached(p, k)
             /\ \A w \in Watches : /\ Stands(w, k)' <=> Stands(w, k)
                                   /\ Fallen(w, k)' <=> Fallen(w, k)
  BY DEF Attached, Stands, Fallen
<1> HIDE DEF Attached, Stands, Fallen
<1> QED  BY <1>1, <1>2 DEF PolicyInv, Agreement

\* A handler that starts on a notification leaves the attachments to its calls: a
\* route on which the watches agree afterwards is one on which they agreed before.
LEMMA HandleKeepsInv ==
    ASSUME PolicyInv, NEW w \in Watches, Handle(w)
    PROVE  PolicyInv'
<1> DEFINE n == Head(pending[w])
           cs == registerPolicyHandlers(n)
<1>1. /\ calls[w] = {} /\ I!Take(w) /\ calls' = [calls EXCEPT ![w] = cs]
      /\ routes' = routes /\ policies' = policies
      /\ calls \in [Watches -> SUBSET ({"apply", "remove"} \X Index!RouteKeys)]
  BY DEF Handle, indexVars, PolicyInv, TypeOK
<1>2. /\ I!TypeOK' /\ QueuesAreLinked'
      /\ n \in I!Notifications /\ I!WellFormed(n)
      /\ n.old = Taken(w) /\ Taken(w)' = n.new
      /\ \A v \in Watches \ {w} : Taken(v)' = Taken(v)
  BY <1>1, TakeKeepsQueues
<1> HIDE DEF n
<1>3. /\ cs \in SUBSET ({"apply", "remove"} \X Index!RouteKeys)
      /\ \A c \in cs : c[1] = "apply" <=> c[2] \in Effective(n.new)
      /\ \A k \in Index!RouteKeys :
             /\ k \in Effective(n.new) /\ <<"apply", k>> \notin cs => k \in Effective(n.old)
             /\ k \notin Effective(n.new) /\ <<"remove", k>> \notin cs
                    => k \notin Effective(n.old)
  BY <1>2, HandlerCalls
<1> HIDE DEF cs
<1>4. TypeOK'
  <2>1. Index!TypeOK' /\ calls' \in [Watches -> SUBSET ({"apply", "remove"} \X Index!RouteKeys)]
    BY <1>1, <1>3 DEF PolicyInv, TypeOK, Index!TypeOK
  <2> QED  BY <1>2, <2>1 DEF TypeOK
<1>5. Index!PoliciesDistinct'
  BY <1>1 DEF PolicyInv, Index!PoliciesDistinct
<1>6. /\ calls'[w] = cs
      /\ \A v \in Watches \ {w} : calls'[v] = calls[v]
  BY <1>1
<1>7. CallsLead'
  <2>1. ASSUME NEW v \in Watches, NEW c \in calls'[v]
        PROVE  c[1] = "apply" <=> c[2] \in Effective(Taken(v)')
    <3>1. CASE v = w
      BY <1>2, <1>3, <1>6, <2>1, <3>1
    <3>2. CASE v # w
      BY <1>2, <1>6, <2>1, <3>2 DEF PolicyInv, CallsLead
    <3> QED  BY <3>1, <3>2
  <2> QED  BY <2>1 DEF CallsLead
<1>8. ASSUME NEW k \in Index!RouteKeys, NEW v \in Watches
      PROVE  /\ Stands(v, k)' => Stands(v, k)
             /\ Fallen(v, k)' => Fallen(v, k)
  <2>1. CASE v = w
    BY <1>1, <1>2, <1>3, <1>6, <2>1 DEF Stands, Fallen
  <2>2. CASE v # w
    BY <1>2, <1>6, <2>2 DEF Stands, Fallen
  <2> QED  BY <2>1, <2>2
<1>9. \A p \in Policies, k \in Index!RouteKeys : Attached(p, k)' <=> Attached(p, k)
  BY <1>1 DEF Attached
<1>10. Agreement'
  <2> HIDE DEF Attached, Stands, Fallen
  <2> QED  BY <1>8, <1>9 DEF PolicyInv, Agreement
<1> QED  BY <1>2, <1>4, <1>5, <1>7, <1>10 DEF PolicyInv

\* One call of a handler: where the watches agree afterwards they agreed before,
\* but for the route of the call, and there the call has just made it so.
LEMMA CallKeepsInv ==
    ASSUME PolicyInv, NEW w \in Watches, Call(w)
    PROVE  PolicyInv'
<1> DEFINE p == policyOf[w]
<1>1. p \in Policies
  BY PolicyAssumption
<1>2. PICK c \in calls[w] :
          /\ \/ c[1] = "remove" /\ Index!removePolicy(c[2][1], c[2][2], p)
             \/ c[1] = "apply" /\ Index!applyPolicy(c[2][1], c[2][2], p)
          /\ calls' = [calls EXCEPT ![w] = @ \ {c}]
          /\ UNCHANGED <<api, store, pending>>
  BY DEF Call
<1>3. /\ calls \in [Watches -> SUBSET ({"apply", "remove"} \X Index!RouteKeys)]
      /\ I!TypeOK /\ Index!TypeOK /\ Index!PoliciesDistinct
  BY DEF PolicyInv, TypeOK
<1>4. PICK op \in {"apply", "remove"}, key \in Index!RouteKeys : c = <<op, key>>
  BY <1>2, <1>3
<1> HIDE DEF p
<1>5. /\ Index!TypeOK' /\ Index!PoliciesDistinct'
      /\ \A k \in Index!RouteKeys, q \in Policies :
             Attached(q, k)' <=> IF k = key /\ q = p THEN op = "apply" ELSE Attached(q, k)
  <2>1. CASE op = "apply"
    <3>1. Index!applyPolicy(key[1], key[2], p)
      BY <1>2, <1>4, <2>1
    <3> QED  BY <1>1, <1>3, <2>1, <3>1, CallEffect
  <2>2. CASE op = "remove"
    <3>1. Index!removePolicy(key[1], key[2], p)
      BY <1>2, <1>4, <2>2
    <3> QED  BY <1>1, <1>3, <2>2, <3>1, CallEffect
  <2> QED  BY <2>1, <2>2
<1>6. TypeOK' /\ QueuesAreLinked' /\ (\A v \in Watches : Taken(v)' = Taken(v))
  <2>1. I!TypeOK'
    BY <1>2, <1>3 DEF I!TypeOK
  <2>2. calls' \in [Watches -> SUBSET ({"apply", "remove"} \X Index!RouteKeys)]
    BY <1>2, <1>3
  <2>3. \A v \in Watches : Taken(v)' = Taken(v)
    BY <1>2 DEF Taken
  <2>4. QueuesAreLinked'
    BY <1>2, <2>3 DEF PolicyInv, QueuesAreLinked
  <2> QED  BY <1>5, <2>1, <2>2, <2>3, <2>4 DEF TypeOK
<1>7. /\ calls'[w] = calls[w] \ {<<op, key>>}
      /\ \A v \in Watches \ {w} : calls'[v] = calls[v]
      /\ <<op, key>> \in calls[w]
  BY <1>2, <1>3, <1>4
<1>8. op = "apply" <=> key \in Effective(Taken(w))
  BY <1>4, <1>7 DEF PolicyInv, CallsLead
<1>9. CallsLead'
  BY <1>6, <1>7 DEF PolicyInv, CallsLead
<1>10. ASSUME NEW k \in Index!RouteKeys, NEW v \in Watches
       PROVE  /\ Stands(v, k)' => Stands(v, k) \/ (k = key /\ v = w /\ op = "apply")
              /\ Fallen(v, k)' => Fallen(v, k) \/ (k = key /\ v = w /\ op = "remove")
  BY <1>6, <1>7 DEF Stands, Fallen
<1>11. /\ op = "apply" => ~Fallen(w, key)'
       /\ op = "remove" => ~Stands(w, key)'
  BY <1>6, <1>8 DEF Stands, Fallen
<1>12. Agreement'
  <2> SUFFICES ASSUME NEW q \in Policies, NEW k \in Index!RouteKeys,
                      \E v \in Watches : policyOf[v] = q
               PROVE  /\ (\A v \in Watches : policyOf[v] = q => Stands(v, k)')
                             => Attached(q, k)'
                      /\ (\A v \in Watches : policyOf[v] = q => Fallen(v, k)')
                             => ~Attached(q, k)'
    BY DEF Agreement
  <2>1. CASE k = key /\ q = p
    BY <1>5, <1>11, <2>1 DEF p
  <2>2. CASE ~(k = key /\ q = p)
    <3>1. Attached(q, k)' <=> Attached(q, k)
      BY <1>5, <2>2
    <3>2. \A v \in Watches : policyOf[v] = q => /\ Stands(v, k)' => Stands(v, k)
                                                /\ Fallen(v, k)' => Fallen(v, k)
      BY <1>10, <2>2 DEF p
    <3> QED  BY <3>1, <3>2 DEF PolicyInv, Agreement
  <2> QED  BY <2>1, <2>2
<1> QED  BY <1>5, <1>6, <1>9, <1>12 DEF PolicyInv

\* A route handler that writes the same index changes no attachment.
LEMMA RoutesKeepInv ==
    ASSUME PolicyInv, RoutesChange
    PROVE  PolicyInv'
<1>1. /\ Index!UpsertHTTP \/ Index!DeleteHTTP
      /\ UNCHANGED <<api, store, pending, calls>>
      /\ I!TypeOK /\ Index!TypeOK
      /\ calls \in [Watches -> SUBSET ({"apply", "remove"} \X Index!RouteKeys)]
  BY DEF RoutesChange, PolicyInv, TypeOK
<1>2. policies' = policies /\ routes' \in [Index!RouteKeys -> Index!RouteAttributes \cup {None}]
  <2>1. CASE Index!UpsertHTTP
    <3>1. PICK name \in Names, refs \in SUBSET {} :
              Index!upsertRoute("HTTPRoute", Index!httpRouteToAttrs(name, "projection"), refs)
      BY <2>1 DEF Index!UpsertHTTP, Index!upsertHTTPRoute
    <3> DEFINE ra == Index!httpRouteToAttrs(name, "projection")
    <3>2. ra \in Index!RouteAttributes /\ ra.name = name
      BY DEF Index!httpRouteToAttrs, Index!RouteAttributes, Index!RouteKinds
    <3>3. routes' = [routes EXCEPT ![<<"HTTPRoute", name>>] = ra] /\ policies' = policies
      BY <3>1, <3>2 DEF Index!upsertRoute, Index!routeKey
    <3> HIDE DEF ra
    <3> QED  BY <1>1, <3>2, <3>3 DEF Index!TypeOK
  <2>2. CASE Index!DeleteHTTP
    BY <1>1, <2>2 DEF Index!DeleteHTTP, Index!deleteHTTPRoute, Index!deleteRoute, Index!TypeOK
  <2> QED  BY <1>1, <2>1, <2>2
<1>3. \A v \in Watches : Taken(v)' = Taken(v)
  BY <1>1 DEF Taken
<1>4. TypeOK' /\ Index!PoliciesDistinct' /\ QueuesAreLinked'
  <2>1. I!TypeOK'
    BY <1>1 DEF I!TypeOK
  <2>2. Index!TypeOK'
    BY <1>1, <1>2 DEF Index!TypeOK
  <2>3. Index!PoliciesDistinct'
    BY <1>2 DEF PolicyInv, Index!PoliciesDistinct
  <2>4. QueuesAreLinked'
    BY <1>1, <1>3 DEF PolicyInv, QueuesAreLinked
  <2> QED  BY <1>1, <2>1, <2>2, <2>3, <2>4 DEF TypeOK
<1> QED  BY <1>1, <1>2, <1>3, <1>4, QuietKeepsAgreement DEF PolicyInv

\* The steps of the API server and of the informers move no handler.
LEMMA InformerKeepsInv ==
    ASSUME PolicyInv, UserWrites \/ \E w \in Watches : Observe(w) \/ Resync(w)
    PROVE  PolicyInv'
<1>1. routes' = routes /\ policies' = policies /\ calls' = calls
  BY DEF UserWrites, Observe, Resync, indexVars
<1>2. /\ I!TypeOK' /\ QueuesAreLinked'
      /\ \A v \in Watches : Taken(v)' = Taken(v)
  <2>1. CASE UserWrites
    <3>1. I!TypeOK' /\ store' = store /\ pending' = pending
      BY <2>1 DEF UserWrites, I!Write, PolicyInv, TypeOK, I!TypeOK
    <3>2. \A v \in Watches : Taken(v)' = Taken(v)
      BY <3>1 DEF Taken
    <3> QED  BY <3>1, <3>2 DEF PolicyInv, QueuesAreLinked
  <2>2. CASE \E w \in Watches : Observe(w) \/ Resync(w)
    BY <2>2, InformerKeepsQueues DEF Observe, Resync
  <2> QED  BY <2>1, <2>2
<1>3. TypeOK' /\ Index!PoliciesDistinct'
  BY <1>1, <1>2 DEF PolicyInv, TypeOK, Index!TypeOK, Index!PoliciesDistinct
<1> QED  BY <1>1, <1>2, <1>3, QuietKeepsAgreement DEF PolicyInv

\* At the start nothing is cached, queued, called or attached.
LEMMA InitEstablishes ==
    ASSUME Init
    PROVE  PolicyInv
<1>1. /\ api \in [Policies -> I!States]
      /\ store = [w \in Watches |-> Absent]
      /\ pending = [w \in Watches |-> << >>]
      /\ routes = [k \in Index!RouteKeys |-> None]
      /\ policies = [k \in Index!RouteKeys |-> << >>]
      /\ calls = [w \in Watches |-> {}]
  BY DEF Init, I!Init, Index!Init
<1>2. TypeOK
  <2>1. I!TypeOK
    <3>1. << >> \in Seq(I!Notifications) /\ Absent \in I!States
      BY DEF I!States
    <3> QED  BY <1>1, <3>1 DEF I!TypeOK
  <2>2. Index!TypeOK
    <3>1. << >> \in Seq(Policies)
      OBVIOUS
    <3>2. \A X : << >> \in [{} -> X]
      OBVIOUS
    <3> QED  BY <1>1, <3>1, <3>2 DEF Index!TypeOK
  <2> QED  BY <1>1, <2>1, <2>2 DEF TypeOK
<1>3. \A w \in Watches : /\ Taken(w) = Absent /\ calls[w] = {}
                         /\ pending[w] = << >> /\ store[w] = Absent
  BY <1>1 DEF Taken
<1>4. Index!PoliciesDistinct
  BY <1>1 DEF Index!PoliciesDistinct
<1>5. QueuesAreLinked
  BY <1>3 DEF QueuesAreLinked, I!Linked
<1>6. CallsLead
  BY <1>3 DEF CallsLead
<1>7. \A p \in Policies, k \in Index!RouteKeys : ~Attached(p, k)
  BY <1>1 DEF Attached
<1>8. \A w \in Watches, k \in Index!RouteKeys : ~Stands(w, k)
  BY <1>3 DEF Stands, Effective
<1>9. Agreement
  BY <1>7, <1>8 DEF Agreement
<1> QED  BY <1>2, <1>4, <1>5, <1>6, <1>9 DEF PolicyInv

\* Every step preserves the inductive invariant.
LEMMA StepPreserves ==
    ASSUME PolicyInv, [Next]_vars
    PROVE  PolicyInv'
<1>1. CASE Next
  BY <1>1, RoutesKeepInv, InformerKeepsInv, HandleKeepsInv, CallKeepsInv DEF Next
<1>2. CASE UNCHANGED vars
  <2>1. /\ api' = api /\ store' = store /\ pending' = pending
        /\ routes' = routes /\ policies' = policies /\ calls' = calls
    BY <1>2 DEF vars, indexVars
  <2>2. \A v \in Watches : Taken(v)' = Taken(v)
    BY <2>1 DEF Taken
  <2>3. TypeOK' /\ Index!PoliciesDistinct'
    BY <2>1 DEF PolicyInv, TypeOK, I!TypeOK, Index!TypeOK, Index!PoliciesDistinct
  <2>4. QueuesAreLinked'
    BY <2>1, <2>2 DEF PolicyInv, QueuesAreLinked
  <2> QED  BY <2>1, <2>2, <2>3, <2>4, QuietKeepsAgreement DEF PolicyInv
<1> QED  BY <1>1, <1>2

-----------------------------------------------------------------------------
(* Theorems *)

\* The inductive invariant: where every watch of a policy has got to the same
\* verdict on a route, the index agrees with it.
THEOREM PolicyInvariant == Spec => []PolicyInv
<1>1. Init => PolicyInv
  BY InitEstablishes
<1>2. PolicyInv /\ [Next]_vars => PolicyInv'
  BY StepPreserves
<1> QED  BY <1>1, <1>2, PTL DEF Spec

\* The index, the queues and the calls left to the handlers of
\* registerPolicyHandlers keep their types.
THEOREM PolicyTypeOK == Spec => []TypeOK
<1>1. PolicyInv => TypeOK
  BY DEF PolicyInv
<1> QED  BY <1>1, PolicyInvariant, PTL

\* Once all the watches of a policy are done, applyPolicy and removePolicy have
\* left it on exactly the routes its current, accepted revision targets.
THEOREM PolicySettledIsExact == Spec => []SettledIsExact
<1>1. PolicyInv => SettledIsExact
  <2> SUFFICES ASSUME PolicyInv, NEW p \in Policies, Settled(p),
                      \E w \in Watches : policyOf[w] = p,
                      NEW k \in Index!RouteKeys
               PROVE  Attached(p, k) <=> k \in Effective(api[p])
    BY DEF SettledIsExact, Exact
  <2>1. \A w \in Watches : policyOf[w] = p => Taken(w) = api[p] /\ calls[w] = {}
    BY DEF Settled, Idle, I!Drained, Taken
  <2>2. CASE k \in Effective(api[p])
    <3>1. \A w \in Watches : policyOf[w] = p => Stands(w, k)
      BY <2>1, <2>2 DEF Stands
    <3> QED  BY <2>2, <3>1 DEF PolicyInv, Agreement
  <2>3. CASE k \notin Effective(api[p])
    <3>1. \A w \in Watches : policyOf[w] = p => Fallen(w, k)
      BY <2>1, <2>3 DEF Fallen
    <3> QED  BY <2>3, <3>1 DEF PolicyInv, Agreement
  <2> QED  BY <2>2, <2>3
<1> QED  BY <1>1, PolicyInvariant, PTL

\* No call of policyUpdate, and no other step, takes a policy off a route that
\* every revision still to be handled targets.
THEOREM PolicyNoFlicker == Spec => NoFlicker
<1> DEFINE Keeps == \A p \in Policies, k \in Index!RouteKeys :
                        Attached(p, k) /\ KeptThroughout(p, k) => Attached(p, k)'
<1>1. PolicyInv /\ [Next]_vars => [Keeps]_vars
  <2> SUFFICES ASSUME PolicyInv, [Next]_vars,
                      NEW p \in Policies, NEW k \in Index!RouteKeys,
                      Attached(p, k), KeptThroughout(p, k)
               PROVE  Attached(p, k)'
    OBVIOUS
  <2>1. CASE policies' = policies
    BY <2>1 DEF Attached
  <2>2. ASSUME NEW w \in Watches, Call(w) PROVE Attached(p, k)'
    <3>1. PICK c \in calls[w] :
              \/ c[1] = "remove" /\ Index!removePolicy(c[2][1], c[2][2], policyOf[w])
              \/ c[1] = "apply" /\ Index!applyPolicy(c[2][1], c[2][2], policyOf[w])
      BY <2>2 DEF Call
    <3>2. /\ c[2] \in Index!RouteKeys /\ policyOf[w] \in Policies
          /\ Index!TypeOK /\ Index!PoliciesDistinct /\ I!TypeOK
      BY PolicyAssumption DEF PolicyInv, TypeOK
    <3>3. CASE c[1] = "apply"
      <4>1. Index!applyPolicy(c[2][1], c[2][2], policyOf[w])
        BY <3>1, <3>3
      <4> QED  BY <3>2, <4>1, CallEffect
    <3>4. CASE c[1] = "remove"
      <4>1. Index!removePolicy(c[2][1], c[2][2], policyOf[w])
        BY <3>1, <3>4
      <4>2. c[2] \notin Effective(Taken(w))
        BY <3>4 DEF PolicyInv, CallsLead
      <4>3. policyOf[w] = p => k \in Effective(Taken(w))
        <5>1. CASE pending[w] = << >>
          BY <5>1 DEF KeptThroughout, Taken
        <5>2. CASE pending[w] # << >>
          <6>1. 1 \in 1 .. Len(pending[w])
            BY <3>2, <5>2 DEF I!TypeOK
          <6> QED  BY <5>2, <6>1 DEF KeptThroughout, Taken
        <5> QED  BY <5>1, <5>2
      <4> QED  BY <3>2, <4>1, <4>2, <4>3, CallEffect
    <3> QED  BY <3>1, <3>3, <3>4
  <2>3. CASE Next
    <3>1. CASE RoutesChange
      BY <2>1, <3>1 DEF RoutesChange, Index!UpsertHTTP, Index!DeleteHTTP,
         Index!upsertHTTPRoute, Index!upsertRoute, Index!deleteHTTPRoute, Index!deleteRoute
    <3>2. CASE UserWrites \/ \E w \in Watches : Observe(w) \/ Resync(w) \/ Handle(w)
      BY <2>1, <3>2 DEF UserWrites, Observe, Resync, Handle, indexVars
    <3> QED  BY <2>2, <2>3, <3>1, <3>2 DEF Next
  <2>4. CASE UNCHANGED vars
    BY <2>1, <2>4 DEF vars, indexVars
  <2> QED  BY <2>3, <2>4
<1> QED  BY <1>1, PolicyInvariant, PTL DEF Spec, NoFlicker

=============================================================================
