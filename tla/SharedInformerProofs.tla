------------------------- MODULE SharedInformerProofs -------------------------
(***************************************************************************)
(* What client-go's queues guarantee to every handler, for any number of   *)
(* watches, objects and revisions.  The proofs about the components        *)
(* instantiate these lemmas for their own informers.                       *)
(***************************************************************************)
EXTENDS SharedInformer, SequenceTheorems, TLAPS

\* Appending one notification to a queue, element by element.
LEMMA AppendFacts ==
    ASSUME NEW S, NEW q \in Seq(S), NEW e \in S
    PROVE  /\ Append(q, e) \in Seq(S)
           /\ Append(q, e) # << >>
           /\ Len(q) \in Nat
           /\ Len(Append(q, e)) = Len(q) + 1
           /\ \A i \in 1 .. Len(q) : Append(q, e)[i] = q[i]
           /\ Append(q, e)[Len(q) + 1] = e
           /\ q = << >> <=> Len(q) = 0
    OBVIOUS

\* Taking the oldest notification off a queue, element by element.
LEMMA TailFacts ==
    ASSUME NEW S, NEW q \in Seq(S), q # << >>
    PROVE  /\ Tail(q) \in Seq(S)
           /\ Head(q) = q[1]
           /\ Head(q) \in S
           /\ Len(q) \in Nat \ {0}
           /\ Len(Tail(q)) = Len(q) - 1
           /\ \A i \in 1 .. (Len(q) - 1) : Tail(q)[i] = q[i + 1]
           /\ Tail(q) = << >> <=> Len(q) = 1
<1>1. Len(q) \in Nat \ {0} /\ Tail(q) \in Seq(S) /\ Len(Tail(q)) = Len(q) - 1
  OBVIOUS
<1>2. Head(q) = q[1] /\ Head(q) \in S
  OBVIOUS
<1>3. \A i \in 1 .. (Len(q) - 1) : Tail(q)[i] = q[i + 1]
  BY <1>1
<1>4. \A t \in Seq(S) : t = << >> <=> Len(t) = 0
  OBVIOUS
<1>5. Tail(q) = << >> <=> Len(q) = 1
  <2>1. Tail(q) = << >> <=> Len(Tail(q)) = 0
    BY <1>1, <1>4, Zenon
  <2> QED  BY <1>1, <2>1
<1> QED  BY <1>1, <1>2, <1>3, <1>5

\* A write at the API server keeps the type.
LEMMA WriteKeepsType ==
    ASSUME TypeOK, NEW o \in Objects, NEW rev \in States, Write(o, rev)
    PROVE  TypeOK'
    BY DEF TypeOK, Write

\* A watch that catches up keeps the type.
LEMMA ObserveKeepsType ==
    ASSUME TypeOK, objectOf \in [Watches -> Objects], NEW w \in Watches, Observe(w)
    PROVE  TypeOK'
<1>1. /\ api[objectOf[w]] \in States /\ store[w] \in States /\ Absent \in States
      /\ pending[w] \in Seq(Notifications)
  BY DEF TypeOK, States
<1>2. ASSUME NEW type \in {"add", "update", "delete", "tombstone"},
             NEW old \in States, NEW new \in States, Notify(w, type, old, new)
      PROVE  pending' \in [Watches -> Seq(Notifications)]
  <2> DEFINE n == [type |-> type, old |-> old, new |-> new]
  <2>1. n \in Notifications
    BY DEF Notifications
  <2>2. Append(pending[w], n) \in Seq(Notifications)
    BY <1>1, <2>1, AppendFacts
  <2> QED  BY <1>2, <2>2 DEF TypeOK, Notify
<1>3. pending' \in [Watches -> Seq(Notifications)]
  BY <1>1, <1>2 DEF Observe
<1> QED  BY <1>1, <1>3 DEF TypeOK, Observe

\* A resync keeps the type.
LEMMA ResyncKeepsType ==
    ASSUME TypeOK, NEW w \in Watches, Resync(w)
    PROVE  TypeOK'
<1> DEFINE n == [type |-> "update", old |-> store[w], new |-> store[w]]
<1>1. n \in Notifications /\ pending[w] \in Seq(Notifications)
  BY DEF TypeOK, Notifications
<1>2. Append(pending[w], n) \in Seq(Notifications)
  BY <1>1, AppendFacts
<1> QED  BY <1>2 DEF TypeOK, Resync, Notify

\* A handler that takes a notification keeps the type, and what it takes is a
\* notification.
LEMMA TakeKeepsType ==
    ASSUME TypeOK, NEW w \in Watches, Take(w)
    PROVE  TypeOK' /\ Head(pending[w]) \in Notifications
<1>1. pending[w] \in Seq(Notifications) /\ pending[w] # << >>
  BY DEF TypeOK, Take
<1>2. Tail(pending[w]) \in Seq(Notifications) /\ Head(pending[w]) \in Notifications
  BY <1>1, TailFacts
<1> QED  BY <1>2 DEF TypeOK, Take

\* Queueing a well-formed notification that starts at the stored revision keeps
\* the queue linked, up to the revision the notification brings.
LEMMA LinkedAppend ==
    ASSUME NEW q \in Seq(Notifications), NEW last, NEW n \in Notifications,
           Linked(q, last, n.old), WellFormed(n)
    PROVE  Linked(Append(q, n), last, n.new)
<1> DEFINE r == Append(q, n)
<1>1. /\ r # << >> /\ Len(q) \in Nat /\ Len(r) = Len(q) + 1
      /\ \A i \in 1 .. Len(q) : r[i] = q[i]
      /\ r[Len(q) + 1] = n
      /\ q = << >> <=> Len(q) = 0
  BY AppendFacts
<1>2. /\ \A i \in 1 .. Len(q) : WellFormed(q[i])
      /\ q = << >> => last = n.old
      /\ q # << >> => q[1].old = last /\ q[Len(q)].new = n.old
      /\ \A i \in 1 .. (Len(q) - 1) : q[i].new = q[i + 1].old
  BY DEF Linked
<1> HIDE DEF r
<1>3. \A i \in 1 .. Len(r) : WellFormed(r[i])
  BY <1>1, <1>2
<1>4. r[1].old = last /\ r[Len(r)].new = n.new
  BY <1>1, <1>2
<1>5. ASSUME NEW i \in 1 .. (Len(r) - 1)
      PROVE  r[i].new = r[i + 1].old
  <2>1. CASE i = Len(q)
    BY <1>1, <1>2, <2>1
  <2>2. CASE i # Len(q)
    BY <1>1, <1>2, <2>2
  <2> QED  BY <2>1, <2>2
<1>6. Linked(r, last, n.new)
  BY <1>1, <1>3, <1>4, <1>5 DEF Linked
<1> QED  BY <1>6 DEF r

\* Taking the oldest notification keeps the queue linked: the rest leads on from
\* what was taken, and what was taken starts where the handler had got to.
LEMMA LinkedTail ==
    ASSUME NEW q \in Seq(Notifications), q # << >>, NEW last, NEW stored,
           Linked(q, last, stored)
    PROVE  /\ Linked(Tail(q), Head(q).new, stored)
           /\ Head(q).old = last
           /\ WellFormed(Head(q))
<1> DEFINE r == Tail(q)
<1>1. /\ Head(q) = q[1] /\ Len(q) \in Nat \ {0}
      /\ Len(r) = Len(q) - 1
      /\ \A i \in 1 .. (Len(q) - 1) : r[i] = q[i + 1]
      /\ r = << >> <=> Len(q) = 1
  BY TailFacts
<1>2. /\ \A i \in 1 .. Len(q) : WellFormed(q[i])
      /\ q[1].old = last /\ q[Len(q)].new = stored
      /\ \A i \in 1 .. (Len(q) - 1) : q[i].new = q[i + 1].old
  BY DEF Linked
<1> HIDE DEF r
<1>3. \A i \in 1 .. Len(r) : WellFormed(r[i])
  BY <1>1, <1>2
<1>4. IF r = << >> THEN q[1].new = stored
      ELSE r[1].old = q[1].new /\ r[Len(r)].new = stored
  <2>1. CASE r = << >>
    BY <1>1, <1>2, <2>1
  <2>2. CASE r # << >>
    BY <1>1, <1>2, <2>2
  <2> QED  BY <2>1, <2>2
<1>5. \A i \in 1 .. (Len(r) - 1) : r[i].new = r[i + 1].old
  BY <1>1, <1>2
<1>6. Linked(r, q[1].new, stored)
  BY <1>3, <1>4, <1>5 DEF Linked
<1> QED  BY <1>1, <1>2, <1>6 DEF r

\* A watch that catches up leaves its queue linked and every other one alone.
LEMMA ObserveKeepsLinked ==
    ASSUME TypeOK, objectOf \in [Watches -> Objects], NEW w \in Watches,
           Observe(w), NEW last, Linked(pending[w], last, store[w])
    PROVE  /\ Linked(pending'[w], last, store'[w])
           /\ \A v \in Watches \ {w} : pending'[v] = pending[v] /\ store'[v] = store[v]
<1>1. /\ api[objectOf[w]] \in States /\ store[w] \in States /\ Absent \in States
      /\ pending[w] \in Seq(Notifications)
      /\ store'[w] = api[objectOf[w]]
  BY DEF TypeOK, States, Observe
<1>2. PICK type \in {"add", "update", "delete", "tombstone"} :
           /\ WellFormed([type |-> type, old |-> store[w], new |-> store'[w]])
           /\ Notify(w, type, store[w], store'[w])
  BY <1>1 DEF Observe, WellFormed
<1> DEFINE n == [type |-> type, old |-> store[w], new |-> store'[w]]
<1>3. n \in Notifications /\ n.old = store[w] /\ n.new = store'[w] /\ WellFormed(n)
  BY <1>1, <1>2 DEF Notifications
<1>4. pending' = [pending EXCEPT ![w] = Append(@, n)]
  BY <1>2 DEF Notify
<1> HIDE DEF n
<1>5. Linked(Append(pending[w], n), last, n.new)
  BY <1>1, <1>3, LinkedAppend
<1> QED  BY <1>3, <1>4, <1>5 DEF TypeOK, Observe

\* A resync leaves its queue linked and every other one alone.
LEMMA ResyncKeepsLinked ==
    ASSUME TypeOK, NEW w \in Watches,
           Resync(w), NEW last, Linked(pending[w], last, store[w])
    PROVE  /\ Linked(pending'[w], last, store'[w])
           /\ \A v \in Watches \ {w} : pending'[v] = pending[v] /\ store'[v] = store[v]
<1> DEFINE n == [type |-> "update", old |-> store[w], new |-> store[w]]
<1>1. pending[w] \in Seq(Notifications) /\ n \in Notifications
  BY DEF TypeOK, Notifications
<1>2. n.old = store[w] /\ n.new = store[w] /\ WellFormed(n)
  BY DEF Resync, WellFormed
<1>3. pending' = [pending EXCEPT ![w] = Append(@, n)] /\ store' = store
  BY DEF Resync, Notify
<1> HIDE DEF n
<1>4. Linked(Append(pending[w], n), last, n.new)
  BY <1>1, <1>2, LinkedAppend
<1> QED  BY <1>2, <1>3, <1>4 DEF TypeOK

\* A handler that takes a notification leaves its queue linked, from what it took
\* on, and every other one alone.
LEMMA TakeKeepsLinked ==
    ASSUME TypeOK, NEW w \in Watches,
           Take(w), NEW last, Linked(pending[w], last, store[w])
    PROVE  /\ Linked(pending'[w], Head(pending[w]).new, store'[w])
           /\ Head(pending[w]).old = last
           /\ WellFormed(Head(pending[w]))
           /\ \A v \in Watches \ {w} : pending'[v] = pending[v]
           /\ store' = store
<1>1. pending[w] \in Seq(Notifications) /\ pending[w] # << >>
  BY DEF TypeOK, Take
<1>2. /\ Linked(Tail(pending[w]), Head(pending[w]).new, store[w])
      /\ Head(pending[w]).old = last
      /\ WellFormed(Head(pending[w]))
  BY <1>1, LinkedTail
<1> QED  BY <1>2 DEF TypeOK, Take

\* A queue only ever brings revisions that the object had at the API server: a
\* watch that catches up or resyncs, and a handler that takes a notification,
\* add none of their own.
LEMMA QueuedWithin ==
    ASSUME TypeOK, objectOf \in [Watches -> Objects], NEW w \in Watches, NEW S,
           Observe(w) \/ Resync(w) \/ Take(w),
           api[objectOf[w]] \in S, store[w] \in S,
           \A i \in 1 .. Len(pending[w]) : pending[w][i].new \in S
    PROVE  /\ store'[w] \in S
           /\ \A i \in 1 .. Len(pending'[w]) : pending'[w][i].new \in S
           /\ \A v \in Watches \ {w} : pending'[v] = pending[v] /\ store'[v] = store[v]
           /\ api' = api
<1> DEFINE q == pending[w]
<1>1. q \in Seq(Notifications)
  BY DEF TypeOK
<1>2. ASSUME NEW type, NEW old, NEW new \in S, Notify(w, type, old, new)
      PROVE  /\ \A i \in 1 .. Len(pending'[w]) : pending'[w][i].new \in S
             /\ \A v \in Watches \ {w} : pending'[v] = pending[v]
  <2> DEFINE n == [type |-> type, old |-> old, new |-> new]
             T == Notifications \cup {n}
  <2>1. /\ pending'[w] = Append(q, n)
        /\ \A v \in Watches \ {w} : pending'[v] = pending[v]
    BY <1>2 DEF TypeOK, Notify
  <2>2. q \in Seq(T) /\ n \in T /\ n.new \in S
    BY <1>1
  <2> HIDE DEF n, T
  <2>3. /\ Len(q) \in Nat /\ Len(Append(q, n)) = Len(q) + 1
        /\ \A i \in 1 .. Len(q) : Append(q, n)[i] = q[i]
        /\ Append(q, n)[Len(q) + 1] = n
    BY <2>2, AppendFacts
  <2>4. ASSUME NEW i \in 1 .. (Len(q) + 1) PROVE Append(q, n)[i].new \in S
    <3>1. CASE i = Len(q) + 1
      BY <2>2, <2>3, <3>1
    <3>2. CASE i # Len(q) + 1
      BY <2>3, <3>2
    <3> QED  BY <3>1, <3>2
  <2> QED  BY <2>1, <2>3, <2>4
<1>3. CASE Observe(w)
  <2>1. /\ store' = [store EXCEPT ![w] = api[objectOf[w]]] /\ api' = api
        /\ \E type \in {"add", "update", "delete", "tombstone"} :
               Notify(w, type, store[w], api[objectOf[w]])
    BY <1>3 DEF Observe
  <2> QED  BY <1>2, <2>1 DEF TypeOK
<1>4. CASE Resync(w)
  BY <1>2, <1>4 DEF Resync, TypeOK
<1>5. CASE Take(w)
  <2>1. q # << >>
    BY <1>5 DEF Take
  <2>2. /\ Len(q) \in Nat \ {0} /\ Len(Tail(q)) = Len(q) - 1
        /\ \A i \in 1 .. (Len(q) - 1) : Tail(q)[i] = q[i + 1]
    BY <1>1, <2>1, TailFacts
  <2>3. pending' = [pending EXCEPT ![w] = Tail(q)] /\ store' = store /\ api' = api
    BY <1>5 DEF Take
  <2>4. \A i \in 1 .. Len(Tail(q)) : Tail(q)[i].new \in S
    BY <2>2
  <2> QED  BY <2>3, <2>4 DEF TypeOK
<1> QED  BY <1>3, <1>4, <1>5

\* What a handler takes is the oldest notification.
LEMMA TakesFirst ==
    ASSUME TypeOK, NEW w \in Watches, Take(w)
    PROVE  Head(pending[w]) = pending[w][1] /\ 1 \in 1 .. Len(pending[w])
<1>1. pending[w] \in Seq(Notifications) /\ pending[w] # << >>
  BY DEF TypeOK, Take
<1> QED  BY <1>1, TailFacts

=============================================================================
